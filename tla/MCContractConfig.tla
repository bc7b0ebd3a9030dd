--------------------------- MODULE MCContractConfig ---------------------------
(* TLC instance of ContractConfig: a day of 24 seconds, minutes of 2, epochs   *)
(* of 2.  The default times are those of the first configuration in one cron   *)
(* entry; the second has other times, with the third no day is full.           *)
EXTENDS ContractConfig

Frames == [k \in 0..MaxChanges |->
  CASE k = 0 -> [initialEpoch |-> 3, epochsPerFrame |-> 4]
    [] k = 1 -> [initialEpoch |-> 5, epochsPerFrame |-> 6]
    [] OTHER -> [initialEpoch |-> 5, epochsPerFrame |-> 5]]

OneEntry == {{2, 10, 18}}
=============================================================================
