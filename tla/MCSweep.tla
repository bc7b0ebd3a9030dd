------------------------------- MODULE MCSweep -------------------------------
(* TLC instance of Sweep: 12 stands for 32 ETH and 200 for 2048, so that both *)
(* have more digits than the 0 of a swept validator, a balance of 100 has one  *)
(* digit more than the smaller maximum, and 230 less a withdrawal of 200 has   *)
(* one less than the larger.  For the days, 4 stands for 32 ETH, and the churn *)
(* lies below, between, on and above whole validators of 4 to 8.               *)
EXTENDS Sweep

Validator(prefix, effective, balance, exiting, withdrawable) ==
  [prefix |-> prefix, effective |-> effective, balance |-> balance,
   exiting |-> exiting, withdrawable |-> withdrawable]

SomeKinds == {Validator("bls", 12, 13, FALSE, FALSE),
              Validator("eth1", 12, 12, FALSE, FALSE), Validator("eth1", 12, 15, FALSE, FALSE),
              Validator("eth1", 11, 13, FALSE, FALSE), Validator("eth1", 12, 100, FALSE, FALSE),
              Validator("eth1", 0, 0, TRUE, TRUE), Validator("eth1", 12, 0, TRUE, TRUE),
              Validator("eth1", 12, 12, TRUE, TRUE),
              Validator("compounding", 200, 230, FALSE, FALSE),
              Validator("compounding", 100, 130, FALSE, FALSE),
              Validator("compounding", 100, 130, TRUE, FALSE)}

SomeActives == {20, 38, 40, 55, 70}
SomeQueues  == {0, 15, 19, 34, 60, 79, 130, 149, 500, 519}
=============================================================================
