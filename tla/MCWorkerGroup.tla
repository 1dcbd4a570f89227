--------------------------- MODULE MCWorkerGroup ----------------------------
(* Small instances of WorkerGroup for TLC: two switches, so that the sort  *)
(* changes the order of ranks 1 and 2, and nodes with one or two workers.  *)
EXTENDS WorkerGroup

MCAsw == [pod \in Ranks \X (1 .. MaxIncarnation) |-> (pod[1] + pod[2]) % 2]
MCProcs == [r \in Ranks |-> IF r = 0 THEN 2 ELSE 1]
=============================================================================
