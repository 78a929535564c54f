--------------------------- MODULE MCParallelFor ---------------------------
(* Four ids and up to three workers, so that a worker can be ahead of, or  *)
(* behind, two others when the range runs out or a call throws.             *)
EXTENDS ParallelFor
=============================================================================
