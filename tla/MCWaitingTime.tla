---------------------------- MODULE MCWaitingTime ----------------------------
(* TLC instance of WaitingTime: seconds of 4 ticks, frames of 4 seconds (4    *)
(* epochs of one), report gap and margin of a second each, a fallback of 5    *)
(* frames.                                                                    *)
EXTENDS WaitingTime, TLC

Snapshot == [unfinalized |-> 6, buffer |-> 1, vaults |-> 1, rewards |-> 4, target |-> 0,
             balances |-> 3 :> 3, exitPerEpoch |-> 1, cap |-> 3, sweep |-> 1,
             maxExit |-> 8, bunker |-> FALSE]

Balances == {<<>>, 1 :> 9, 3 :> 3, 2 :> 1 @@ 4 :> 4}

(* The buffer cases, the three projected cases with and without each other,   *)
(* rewards below one unit per epoch, negative rewards, paused exits.          *)
Snapshots ==
  {[Snapshot EXCEPT !.buffer = b, !.vaults = v] : b \in {0, 4, 7}, v \in {0, 3}}
  \cup {[Snapshot EXCEPT !.rewards = r, !.target = t, !.balances = f, !.cap = c] :
          r \in {4, 8}, t \in {0, 16}, f \in Balances, c \in {0, 3}}
  \cup {[Snapshot EXCEPT !.rewards = r, !.maxExit = e, !.exitPerEpoch = x] :
          r \in {-2, 2, 4}, e \in {0, 12}, x \in {1, 2}}
  \cup {[Snapshot EXCEPT !.unfinalized = 24, !.balances = f, !.target = t] :
          f \in Balances, t \in {0, 1}}
  \cup {[Snapshot EXCEPT !.bunker = TRUE]}
=============================================================================
