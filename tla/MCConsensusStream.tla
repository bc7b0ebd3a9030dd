--------------------------- MODULE MCConsensusStream ---------------------------
(* TLC instance of ConsensusStream: states whose validators make full batches   *)
(* and a rest, full batches only, and no full batch.                            *)
EXTENDS ConsensusStream

ThreeSizes == <<3, 4, 1>>
=============================================================================
