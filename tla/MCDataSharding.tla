--------------------------- MODULE MCDataSharding ---------------------------
(* Model checking of DataSharding: the workers are interchangeable.        *)
EXTENDS DataSharding, TLC

WorkerSymmetry == Permutations(Workers)
=============================================================================
