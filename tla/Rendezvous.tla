----------------------------- MODULE Rendezvous -----------------------------
(***************************************************************************)
(* The elastic-training rendezvous of DLRover: the manager that runs on    *)
(* the job master (ElasticTrainingRendezvousManager) and the agents that   *)
(* run one per node (MasterRendezvousHandler and ElasticTrainingAgent).    *)
(*                                                                         *)
(* A node has a rank, which it keeps when its pod is relaunched, and a     *)
(* node id, which is new for every pod.  The id of the i-th pod of rank r  *)
(* is the pair <<r, i>>.  The manager keys everything by rank and stores   *)
(* the id as metadata.                                                     *)
(*                                                                         *)
(* Time is abstracted to one bit: whether waiting_timeout has passed since *)
(* the last join ("expired") or not ("fresh").                             *)
(***************************************************************************)
EXTENDS Integers, FiniteSets

CONSTANTS
  Ranks,           \* the node ranks of the job
  MinNodes,        \* --nnodes=MinNodes:MaxNodes
  MaxNodes,
  NodeUnit,        \* --node_unit
  MaxIncarnation,  \* pods per rank: 1 + max_relaunch_count
  MaxRound,        \* bound on the completed rounds
  MaxFaults,       \* bound on crashes, lost replies and process failures
  FinitePend,      \* TRUE iff pend_timeout is finite (its default is inf)
  Prompt           \* TRUE iff agents react within waiting_timeout

ASSUME RanksAssumption ==
  Ranks \subseteq Nat /\ IsFiniteSet(Ranks)

ASSUME BoundsAssumption ==
  MaxIncarnation \in Nat \ {0} /\ MaxRound \in Nat /\ MaxFaults \in Nat
  /\ FinitePend \in BOOLEAN /\ Prompt \in BOOLEAN

ASSUME ParamsAssumption ==
  MinNodes \in Nat \ {0} /\ MaxNodes \in Nat \ {0} /\ NodeUnit \in Nat \ {0}

\* The job schedules at most MaxNodes nodes, and the node counts it is
\* launched with are multiples of the unit (the node_unit description of
\* ElasticLaunchConfig demands it; nothing validates it).
ASSUME SchedulingAssumption ==
  Cardinality(Ranks) <= MaxNodes /\ MinNodes <= MaxNodes

ASSUME UnitAssumption ==
  /\ \E k \in 1 .. MinNodes : MinNodes = k * NodeUnit
  /\ \E k \in 1 .. MaxNodes : MaxNodes = k * NodeUnit

VARIABLES
  \* the manager
  params,    \* _rdzv_params and _node_unit
  waiting,   \* _waiting_nodes: rank -> pod number of the entry, 0 if absent
  rdzv,      \* the ranks in _rdzv_nodes, {} while no world is published
  latest,    \* _latest_rdzv_nodes
  round,     \* _rdzv_round
  lastcall,  \* whether waiting_timeout has passed since _lastcall_time
  alive,     \* _alive_nodes: node ids
  \* the agents
  inc,       \* the pod number of the current pod of each rank
  pc,        \* what the agent of the current pod is doing
  world,     \* the world (set of ranks) its workers run in
  wround,    \* the round of that world, the prefix of its KV store
  \* the environment
  exited,    \* node ids whose exit event the master has not processed
  faults     \* faults injected so far

masterVars == <<params, waiting, rdzv, latest, round, lastcall>>
agentVars == <<pc, world, wround>>
vars == <<masterVars, alive, inc, agentVars, exited, faults>>

\* RendezvousManager.__init__: RendezvousParameters(0, 0), _node_unit = 1.
NoParams == [min |-> 0, max |-> 0, unit |-> 1]

JobParams == [min |-> MinNodes, max |-> MaxNodes, unit |-> NodeUnit]

Waiting == {r \in Ranks : waiting[r] # 0}

-----------------------------------------------------------------------------
Init ==
  /\ params = NoParams
  /\ waiting = [r \in Ranks |-> 0]
  /\ rdzv = {}
  /\ latest = {}
  /\ round = 0
  /\ lastcall = "expired"        \* _lastcall_time = 0
  /\ alive = {}
  /\ inc = [r \in Ranks |-> 0]
  /\ pc = [r \in Ranks |-> "off"]
  /\ world = [r \in Ranks |-> {}]
  /\ wround = [r \in Ranks |-> 0]
  /\ exited = {}
  /\ faults = 0

-----------------------------------------------------------------------------
(* The manager's operators.                                                *)

\* Mutant: "bigger than the number unit" taken literally.
NumNodesWaitingAboveUnit ==
  IF Waiting \cap latest # {} \/ Cardinality(Waiting) > params.unit
  THEN Cardinality(Waiting)
  ELSE 0

\* num_nodes_waiting: what a running agent polls.  An old member that waits
\* again is reported at once, new nodes only when they fill a unit.
NumNodesWaiting ==
  IF Waiting \cap latest # {} \/ Cardinality(Waiting) >= params.unit
  THEN Cardinality(Waiting)
  ELSE 0

\* The two completion conditions of _check_rdzv_completed.
RdzvCompleted ==
  \/ Cardinality(Waiting) = params.max
  \/ Cardinality(Waiting) >= params.min /\ lastcall = "expired"

\* Mutant: the world is not rounded down to a multiple of the unit.
WorldNumNotRounded == Cardinality(Waiting)

\* How many waiting nodes the completed world takes.
WorldNum ==
  IF Cardinality(Waiting) = params.max
  THEN Cardinality(Waiting)
  ELSE (Cardinality(Waiting) \div params.unit) * params.unit

\* sorted(self._waiting_nodes.keys())[0:waiting_num]
IsLowest(S) ==
  /\ S \subseteq Waiting
  /\ Cardinality(S) = WorldNum
  /\ \A i \in S, j \in Waiting \ S : i < j

\* Mutant: _rdzv_round is not advanced.
CompleteRoundSameRound ==
  round < MaxRound /\ \E S \in SUBSET Waiting :
    /\ IsLowest(S)
    /\ rdzv' = S
    /\ latest' = S
    /\ waiting' = [r \in Ranks |-> IF r \in S THEN 0 ELSE waiting[r]]
    /\ lastcall' = "expired"
    /\ UNCHANGED <<params, round>>

\* Mutant: the members of the new world stay in the waiting list.
CompleteRoundKeepsWaiting ==
  round < MaxRound /\ \E S \in SUBSET Waiting :
    /\ IsLowest(S)
    /\ rdzv' = S
    /\ latest' = S
    /\ lastcall' = "expired"
    /\ round' = round + 1
    /\ UNCHANGED <<params, waiting>>

\* The completed branch of _check_rdzv_completed and of get_comm_world.
CompleteRound ==
  round < MaxRound /\ \E S \in SUBSET Waiting :
    /\ IsLowest(S)
    /\ rdzv' = S
    /\ latest' = S
    /\ waiting' = [r \in Ranks |-> IF r \in S THEN 0 ELSE waiting[r]]
    /\ lastcall' = "expired"
    /\ round' = round + 1
    /\ UNCHANGED params

-----------------------------------------------------------------------------
(* Agents.                                                                 *)

\* The pod of rank r stops for whatever reason; its exit event is pending.
ExitPod(r) ==
  /\ pc' = [pc EXCEPT ![r] = "off"]
  /\ world' = [world EXCEPT ![r] = {}]
  /\ wround' = [wround EXCEPT ![r] = 0]
  /\ exited' = exited \cup {<<r, inc[r]>>}

\* The workers are stopped and next_rendezvous will be called again.
RestartWorkers(r) ==
  /\ pc' = [pc EXCEPT ![r] = "idle"]
  /\ world' = [world EXCEPT ![r] = {}]
  /\ wround' = [wround EXCEPT ![r] = 0]

\* Mutant: the relaunch limit is not checked.
LaunchPodUnlimited(r) ==
  /\ pc[r] = "off"
  /\ inc' = [inc EXCEPT ![r] = @ + 1]
  /\ pc' = [pc EXCEPT ![r] = "new"]
  /\ alive' = alive \cup {<<r, inc'[r]>>}
  /\ UNCHANGED <<masterVars, world, wround, exited, faults>>

\* A pod of rank r starts: the first one, or a relaunched one.  Its started
\* event makes the manager add_alive_node; no decision reads _alive_nodes, so
\* when the event is processed does not matter.
LaunchPod(r) ==
  /\ pc[r] = "off"
  /\ inc[r] < MaxIncarnation
  /\ inc' = [inc EXCEPT ![r] = @ + 1]
  /\ pc' = [pc EXCEPT ![r] = "new"]
  /\ alive' = alive \cup {<<r, inc'[r]>>}
  /\ UNCHANGED <<masterVars, world, wround, exited, faults>>

\* MasterRendezvousHandler.__init__ reports the parameters; only the first
\* report counts.
ReportRdzvParams(r) ==
  /\ pc[r] = "new"
  /\ pc' = [pc EXCEPT ![r] = "idle"]
  /\ params' = IF params.max = 0 THEN JobParams ELSE params
  /\ UNCHANGED <<waiting, rdzv, latest, round, lastcall, alive, inc, world,
                 wround, exited, faults>>

\* The effect of join_rendezvous on the manager.
ManagerJoin(r) ==
  IF waiting[r] # 0
  THEN UNCHANGED masterVars
  ELSE /\ waiting' = [waiting EXCEPT ![r] = inc[r]]
       /\ rdzv' = {}
       /\ lastcall' = "fresh"
       /\ UNCHANGED <<params, latest, round>>

\* An agent joins.  When the reply is lost the client sends the call again.
JoinRendezvous(r) ==
  /\ pc[r] = "idle"
  /\ ManagerJoin(r)
  /\ \/ /\ pc' = [pc EXCEPT ![r] = "poll"]
        /\ UNCHANGED faults
     \/ /\ faults < MaxFaults
        /\ faults' = faults + 1
        /\ UNCHANGED pc
  /\ UNCHANGED <<alive, inc, world, wround, exited>>

\* One iteration of the loop of next_rendezvous: get_comm_world may complete
\* the round, and the agent leaves the loop iff it is in the world.
GetCommWorld(r) ==
  /\ pc[r] = "poll"
  /\ UNCHANGED <<alive, inc, exited>>
  /\ IF rdzv = {} /\ RdzvCompleted THEN CompleteRound ELSE UNCHANGED masterVars
  /\ \/ /\ r \in rdzv'
        /\ pc' = [pc EXCEPT ![r] = "run"]
        /\ world' = [world EXCEPT ![r] = rdzv']
        /\ wround' = [wround EXCEPT ![r] = round']
        /\ UNCHANGED faults
     \/ /\ r \notin rdzv'
        /\ UNCHANGED <<agentVars, faults>>
     \/ /\ faults < MaxFaults
        /\ faults' = faults + 1
        /\ UNCHANGED agentVars

\* The world is published without this node for longer than pend_timeout.
PendTimeout(r) ==
  /\ FinitePend
  /\ pc[r] = "poll"
  /\ rdzv # {}
  /\ r \notin rdzv
  /\ ExitPod(r)
  /\ UNCHANGED <<masterVars, alive, inc, faults>>

\* Agents that have seen a reason to join again have done so.
Quiet ==
  \A r \in Ranks :
    /\ pc[r] \notin {"new", "idle"}
    /\ pc[r] = "run" => NumNodesWaiting = 0

\* No world is published for longer than join_timeout (600 s by default,
\* much longer than waiting_timeout).
JoinTimeout(r) ==
  /\ pc[r] = "poll"
  /\ rdzv = {}
  /\ ~RdzvCompleted
  /\ Prompt => Quiet /\ lastcall = "expired"
  /\ ExitPod(r)
  /\ UNCHANGED <<masterVars, alive, inc, faults>>

\* The HEALTHY branch of _invoke_run: restart if nodes wait.
MonitorMembership(r) ==
  /\ pc[r] = "run"
  /\ IF NumNodesWaiting > 0
     THEN RestartWorkers(r)
     ELSE UNCHANGED agentVars
  /\ UNCHANGED <<masterVars, alive, inc, exited, faults>>

\* A member of the world of r will never run with it: it has left that round,
\* or it can no longer fetch the world.
PeerGone(r) ==
  \E p \in world[r] :
    /\ ~(pc[p] = "run" /\ wround[p] = wround[r])
    /\ ~(pc[p] = "poll" /\ rdzv # {} /\ round = wround[r])

\* The FAILED branch of _invoke_run: the diagnosis decides between restarting
\* the workers and relaunching the node.
FailOver(r) ==
  /\ \/ RestartWorkers(r) /\ UNCHANGED exited
     \/ ExitPod(r)
  /\ UNCHANGED <<masterVars, alive, inc>>

\* Collective operations fail because a peer is gone.
WorkersFail(r) ==
  /\ pc[r] = "run"
  /\ PeerGone(r)
  /\ FailOver(r)
  /\ UNCHANGED faults

\* A training process fails by itself.
ProcessFail(r) ==
  /\ pc[r] = "run"
  /\ faults < MaxFaults
  /\ faults' = faults + 1
  /\ FailOver(r)

\* The pod is killed.
Crash(r) ==
  /\ pc[r] # "off"
  /\ faults < MaxFaults
  /\ faults' = faults + 1
  /\ ExitPod(r)
  /\ UNCHANGED <<masterVars, alive, inc>>

-----------------------------------------------------------------------------
(* Node events and time.                                                   *)

\* Mutant: the waiting entry of the exited node is not removed.
RemoveAliveNodeKeepsWaiting(n) ==
  /\ n \in exited
  /\ exited' = exited \ {n}
  /\ alive' = alive \ {n}
  /\ UNCHANGED <<masterVars, inc, agentVars, faults>>

\* on_node_failed, on_node_deleted and on_node_succeeded -> remove_alive_node:
\* drops the waiting entry that carries the id of the exited node.
RemoveAliveNode(n) ==
  /\ n \in exited
  /\ exited' = exited \ {n}
  /\ alive' = alive \ {n}
  /\ waiting' = [waiting EXCEPT ![n[1]] = IF @ = n[2] THEN 0 ELSE @]
  /\ UNCHANGED <<params, rdzv, latest, round, lastcall, inc, agentVars, faults>>

\* waiting_timeout passes without a join.
Tick ==
  /\ lastcall = "fresh"
  /\ Prompt => Quiet
  /\ lastcall' = "expired"
  /\ UNCHANGED <<params, waiting, rdzv, latest, round, alive, inc, agentVars,
                 exited, faults>>

-----------------------------------------------------------------------------
AgentStep(r) ==
  \/ LaunchPod(r)
  \/ ReportRdzvParams(r)
  \/ JoinRendezvous(r)
  \/ GetCommWorld(r)
  \/ PendTimeout(r)
  \/ JoinTimeout(r)
  \/ MonitorMembership(r)
  \/ WorkersFail(r)
  \/ ProcessFail(r)
  \/ Crash(r)

Next ==
  \/ \E r \in Ranks : AgentStep(r)
  \/ \E n \in exited : RemoveAliveNode(n)
  \/ Tick

Spec == Init /\ [][Next]_vars

\* Pods are relaunched, agents run, their timers fire, the master processes
\* node events and time passes.  Faults are never required to happen.
Fairness ==
  /\ \A r \in Ranks :
       /\ WF_vars(LaunchPod(r))
       /\ WF_vars(ReportRdzvParams(r))
       /\ WF_vars(JoinRendezvous(r))
       /\ WF_vars(GetCommWorld(r))
       /\ WF_vars(PendTimeout(r))
       /\ WF_vars(JoinTimeout(r))
       /\ WF_vars(MonitorMembership(r))
       /\ WF_vars(WorkersFail(r))
  /\ WF_vars(\E n \in exited : RemoveAliveNode(n))
  /\ WF_vars(Tick)

FairSpec == Spec /\ Fairness

-----------------------------------------------------------------------------
(* Properties.                                                             *)

PodIds == Ranks \X (1 .. MaxIncarnation)

\* Every variable stays in its domain; in particular no rank is relaunched
\* beyond its limit.
TypeOK ==
  /\ params \in {NoParams, JobParams}
  /\ waiting \in [Ranks -> 0 .. MaxIncarnation]
  /\ rdzv \in SUBSET Ranks
  /\ latest \in SUBSET Ranks
  /\ round \in 0 .. MaxRound
  /\ lastcall \in {"fresh", "expired"}
  /\ alive \in SUBSET PodIds
  /\ inc \in [Ranks -> 0 .. MaxIncarnation]
  /\ pc \in [Ranks -> {"off", "new", "idle", "poll", "run"}]
  /\ world \in [Ranks -> SUBSET Ranks]
  /\ wround \in [Ranks -> 0 .. MaxRound]
  /\ exited \in SUBSET PodIds
  /\ faults \in 0 .. MaxFaults

\* Two agents whose workers run in the same round (and so share the KV store
\* prefix that get_comm_world's round selects) hold the same world and are
\* members of it, however fetches, joins and completions interleave.
WorldAgreement ==
  \A r, s \in Ranks :
    pc[r] = "run" /\ pc[s] = "run" /\ wround[r] = wround[s] =>
      world[r] = world[s] /\ r \in world[r] /\ s \in world[s]

\* A published world admits at least min_nodes and at most max_nodes nodes
\* and is a multiple of node_unit.
WorldSizeOK ==
  rdzv # {} =>
    /\ Cardinality(rdzv) \in MinNodes .. MaxNodes
    /\ \E k \in 1 .. MaxNodes : Cardinality(rdzv) = k * NodeUnit

\* A waiting entry belongs to the live pod of its rank, which is inside
\* next_rendezvous, or to a pod whose exit event is still to be processed:
\* remove_alive_node leaves no dead entry behind, and no running agent is
\* counted as waiting (it would be told to restart because of itself).
WaitingEntriesJustified ==
  \A r \in Waiting :
    \/ waiting[r] = inc[r] /\ pc[r] \in {"idle", "poll"}
    \/ <<r, waiting[r]>> \in exited /\ pc[r] # "run"

\* All members of the world of r run in it.
WholeWorldRuns(r) ==
  pc[r] = "run" /\ \A p \in world[r] : pc[p] = "run" /\ wround[p] = wround[r]

\* The job never trains in two worlds at once: when agents react to
\* num_nodes_waiting within waiting_timeout, two worlds whose members all run
\* are the same world.
NoSplitBrain ==
  \A r, s \in Ranks :
    WholeWorldRuns(r) /\ WholeWorldRuns(s) => wround[r] = wround[s]

\* With a finite pend_timeout the job settles: from some point on every rank
\* has run out of pods or runs, and all that run are the members of one world.
Converges ==
  <>[](\A r \in Ranks :
         \/ pc[r] = "off" /\ inc[r] = MaxIncarnation
         \/ pc[r] = "run" /\ world[r] = {s \in Ranks : pc[s] = "run"})

\* A node that joined the rendezvous and polls get_comm_world eventually runs
\* in a world or leaves the rendezvous.
JoinedNodeGetsWorld ==
  \A r \in Ranks : pc[r] = "poll" ~> pc[r] # "poll"

\* A round completes only with max_nodes waiting nodes or when as many nodes
\* wait as are alive (the second condition of get_comm_world's description).
CompletesWithAllAlive ==
  [][round' # round =>
       \/ Cardinality(Waiting) = params.max
       \/ Cardinality(Waiting) = Cardinality(alive)]_vars

-----------------------------------------------------------------------------
(* The facts that make the safety properties inductive.                    *)

\* A pod that runs, or whose exit is pending, has a number.
PodsNumbered ==
  \A r \in Ranks : pc[r] # "off" => inc[r] # 0

\* An agent inside or past next_rendezvous has reported the parameters.
ParamsReported ==
  \A r \in Ranks : pc[r] \notin {"off", "new"} => params = JobParams

\* join_rendezvous unpublishes the world before a member can wait again.
MembersDoNotWait ==
  \A r \in rdzv : waiting[r] = 0

\* A worker group runs in a world of this or an earlier round, and while the
\* world of the current round is published it is that one.
WorldsCurrent ==
  \A r \in Ranks : pc[r] = "run" =>
    /\ r \in world[r]
    /\ wround[r] <= round
    /\ wround[r] = round /\ rdzv # {} => world[r] = rdzv
=============================================================================
