---------------------------- MODULE MCPsFailover ----------------------------
(* Small instances of PsFailover for TLC: a job that starts, and a job that *)
(* trains when plans arrive and pods fail.                                 *)
EXTENDS PsFailover

Cold == PsInit(MaxPsEvents - 1)

\* PS 2 has taken the place of PS 0.
Relaunched == NumPs
Gone == [PsNode(0, 0, 1) EXCEPT !.status = "Failed", !.released = TRUE]
Runs(rank, rcount) == [PsNode(rank, rank, rcount) EXCEPT !.status = "Running"]

Warm ==
  /\ table = [id \in PsIds |->
       IF id = 0 THEN Gone
       ELSE IF id < NumPs THEN Runs(id, 0)
       ELSE IF id = Relaunched THEN Runs(0, 1)
       ELSE NoPs]
  /\ pods = [id \in PsIds |->
       IF id = 0 THEN "Failed"
       ELSE IF id <= Relaunched THEN "Running" ELSE "None"]
  /\ events = [id \in PsIds |-> <<>>]
  /\ held = {} /\ dropped = {} /\ training = <<>>
  /\ migrated = [id \in PsIds |-> NoRef]
  /\ next = [i \in 1 .. NumPs |-> i - 1]
  /\ versions = [global |-> 2, ps |-> 1, worker |-> [i \in {0, 1} |-> 1]]
  /\ trainer = [t \in Trainers |-> [state |-> "train", addrs |-> next]]
  /\ stopped = FALSE /\ happened = 0

MCPsSpec == (Cold \/ Warm) /\ [][PsNext]_psVars /\ PsFairness
=============================================================================
