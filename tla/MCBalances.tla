------------------------------- MODULE MCBalances -------------------------------
(* TLC instance of Balances: the contract is upgraded at the second of three     *)
(* blocks, its reserve exceeds the buffer in the third; of the stored rewards    *)
(* one pair is that of a frame with a loss.                                      *)
EXTENDS Balances

Three == << [unfinalized |-> 4, total |-> 5, reserve |-> 0, wv |-> 3, el |-> 2],
            [unfinalized |-> 6, total |-> 5, reserve |-> 2, wv |-> 1, el |-> 4],
            [unfinalized |-> 5, total |-> 3, reserve |-> 4, wv |-> 7, el |-> 1] >>

Pairs == {[cl |-> 2, el |-> 3], [cl |-> -3, el |-> 1]}
=============================================================================
