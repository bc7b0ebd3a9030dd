----------------------------- MODULE MCRequestTime -----------------------------
(* TLC instance of RequestTime: neighbours, the later of which may not be      *)
(* placed yet.                                                                 *)
EXTENDS RequestTime

Lists == {<<2, 3>>}
=============================================================================
