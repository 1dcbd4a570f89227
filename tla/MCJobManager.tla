---------------------------- MODULE MCJobManager ----------------------------
(***************************************************************************)
(* The instances of JobManager that TLC checks.  They begin when the job   *)
(* has started: every worker runs and has sent a heartbeat, and the        *)
(* monitor watches.                                                        *)
(***************************************************************************)
EXTENDS JobManager

\* The last worker is still in the queue when its service cannot be created.
StillQueued == IF scenario = <<"service">> THEN {N - 1} ELSE {}
Launched(id) == [id |-> id, rank |-> id, rcount |-> 0]

Started ==
  /\ scenario \in Scenarios /\ happened = 0
  /\ pods = [id \in Ids |->
       IF id < N /\ id \notin StillQueued
       THEN [Pod(Launched(id)) EXCEPT !.phase = "Running"] ELSE NoPod]
  /\ createQ = IF StillQueued = {} THEN <<>> ELSE <<Launched(N - 1)>>
  /\ watching = TRUE /\ stream = <<>>
  /\ table = [id \in Ids |->
       IF id < N /\ id \notin StillQueued
       THEN [InitTable[id] EXCEPT !.status = "Running", !.hb = TRUE]
       ELSE InitTable[id]]
  /\ stage = [now |-> "init", before |-> "init"]
  /\ failed = {} /\ avail = N /\ code = 0
  /\ main = "top" /\ mpc = "watch" /\ batch = <<>> /\ listing = {}
  /\ dead = {}
  /\ thr = [t \in Threads |-> Idle]

StartedSpec == Started /\ [][JobNext]_allJobVars
StartedFairSpec == StartedSpec /\ JobFairness

\* Everything that may happen, one happening or two in a row.
JobScenarios ==
  {<<"fail">>, <<"evict">>, <<"hang">>, <<"diagnose">>, <<"node_error">>,
   <<"service">>, <<"hang", "api">>, <<"suspend", "hang">>,
   <<"check", "check">>, <<"hang", "master">>, <<"finish">>}

FailScenario == {<<"fail">>}
=============================================================================
