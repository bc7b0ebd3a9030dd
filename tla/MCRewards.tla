------------------------------ MODULE MCRewards ------------------------------
(* TLC instance of Rewards: reports of one frame, of two frames, of none and  *)
(* of a loss, and a block without a report.                                   *)
EXTENDS Rewards

Report(frames, diff, el, wr) ==
  [report |-> TRUE, frames |-> frames, diff |-> diff, el |-> el, wr |-> wr]

One   == Report(1, 1, 2, 2)
Two   == Report(2, -2, 9, 5)
None  == Report(0, 1, 1, 1)
Loss  == Report(1, -5, 3, 2)
Quiet == [Report(0, 0, 0, 0) EXCEPT !.report = FALSE]

Courses == {<<Two, One, Quiet>>, <<None, One, Two>>, <<One, None, Two>>,
            <<Two, Quiet, One>>, <<One, Two, Loss>>, <<Loss, Two, One>>}
=============================================================================
