-------------------------- MODULE RendezvousProofs --------------------------
(***************************************************************************)
(* Safety of the elastic-training rendezvous for any number of ranks, any  *)
(* node counts and unit, and any bounds.                                   *)
(***************************************************************************)
EXTENDS Rendezvous, FiniteSetTheorems, TLAPS

-----------------------------------------------------------------------------
(* Type correctness.                                                       *)

TypeInv == TypeOK /\ PodsNumbered

LEMMA TypeInvInit == Init => TypeInv
BY BoundsAssumption DEF Init, TypeInv, TypeOK, PodsNumbered, PodIds

\* Facts about the parts of the agents' actions.
LEMMA ExitPodType ==
  ASSUME TypeInv, NEW r \in Ranks, pc[r] # "off", ExitPod(r)
  PROVE  /\ pc' \in [Ranks -> {"off", "new", "idle", "poll", "run"}]
         /\ world' \in [Ranks -> SUBSET Ranks]
         /\ wround' \in [Ranks -> 0 .. MaxRound]
         /\ exited' \in SUBSET PodIds
         /\ \A s \in Ranks : pc'[s] # "off" => pc[s] # "off"
BY BoundsAssumption DEF TypeInv, TypeOK, PodsNumbered, ExitPod, PodIds

LEMMA RestartWorkersType ==
  ASSUME TypeInv, NEW r \in Ranks, pc[r] # "off", RestartWorkers(r)
  PROVE  /\ pc' \in [Ranks -> {"off", "new", "idle", "poll", "run"}]
         /\ world' \in [Ranks -> SUBSET Ranks]
         /\ wround' \in [Ranks -> 0 .. MaxRound]
         /\ \A s \in Ranks : pc'[s] # "off" => pc[s] # "off"
BY BoundsAssumption DEF TypeInv, TypeOK, PodsNumbered, RestartWorkers

LEMMA CompleteRoundType ==
  ASSUME TypeInv, CompleteRound
  PROVE  /\ params' = params
         /\ waiting' \in [Ranks -> 0 .. MaxIncarnation]
         /\ rdzv' \in SUBSET Ranks
         /\ latest' \in SUBSET Ranks
         /\ round' \in 0 .. MaxRound
         /\ round' = round + 1
         /\ lastcall' \in {"fresh", "expired"}
BY BoundsAssumption DEF TypeInv, TypeOK, CompleteRound, Waiting

LEMMA FailOverType ==
  ASSUME TypeInv, NEW r \in Ranks, pc[r] = "run", FailOver(r),
         faults' \in 0 .. MaxFaults
  PROVE  TypeInv'
BY RestartWorkersType, ExitPodType
   DEF FailOver, TypeInv, TypeOK, PodsNumbered, masterVars, PodIds

LEMMA TypeInvNext == TypeInv /\ [Next]_vars => TypeInv'
<1> SUFFICES ASSUME TypeInv, [Next]_vars PROVE TypeInv'
  OBVIOUS
<1> USE BoundsAssumption
<1>1. ASSUME NEW r \in Ranks, LaunchPod(r) PROVE TypeInv'
  BY <1>1 DEF LaunchPod, TypeInv, TypeOK, PodsNumbered, PodIds, masterVars
<1>2. ASSUME NEW r \in Ranks, ReportRdzvParams(r) PROVE TypeInv'
  BY <1>2 DEF ReportRdzvParams, TypeInv, TypeOK, PodsNumbered, PodIds
<1>3. ASSUME NEW r \in Ranks, JoinRendezvous(r) PROVE TypeInv'
  BY <1>3 DEF JoinRendezvous, ManagerJoin, TypeInv, TypeOK, PodsNumbered,
              PodIds, masterVars
<1>4. ASSUME NEW r \in Ranks, GetCommWorld(r) PROVE TypeInv'
  <2>1. /\ params' \in {NoParams, JobParams}
        /\ waiting' \in [Ranks -> 0 .. MaxIncarnation]
        /\ rdzv' \in SUBSET Ranks
        /\ latest' \in SUBSET Ranks
        /\ round' \in 0 .. MaxRound
        /\ lastcall' \in {"fresh", "expired"}
    BY <1>4, CompleteRoundType DEF GetCommWorld, TypeInv, TypeOK, masterVars
  <2>2. QED
    BY <1>4, <2>1 DEF GetCommWorld, TypeInv, TypeOK, PodsNumbered, PodIds,
                      agentVars
<1>5. ASSUME NEW r \in Ranks, PendTimeout(r) PROVE TypeInv'
  <2>1. pc[r] # "off" /\ ExitPod(r)
    BY <1>5 DEF PendTimeout
  <2>2. QED
    BY <1>5, <2>1, ExitPodType DEF PendTimeout, TypeInv, TypeOK, PodsNumbered,
                                   masterVars, PodIds
<1>6. ASSUME NEW r \in Ranks, JoinTimeout(r) PROVE TypeInv'
  <2>1. pc[r] # "off" /\ ExitPod(r)
    BY <1>6 DEF JoinTimeout
  <2>2. QED
    BY <1>6, <2>1, ExitPodType DEF JoinTimeout, TypeInv, TypeOK, PodsNumbered,
                                   masterVars, PodIds
<1>7. ASSUME NEW r \in Ranks, MonitorMembership(r) PROVE TypeInv'
  <2>1. pc[r] # "off"
    BY <1>7 DEF MonitorMembership
  <2>2. QED
    BY <1>7, <2>1, RestartWorkersType
       DEF MonitorMembership, TypeInv, TypeOK, PodsNumbered, masterVars,
           agentVars, PodIds
<1>9. ASSUME NEW r \in Ranks, WorkersFail(r) \/ ProcessFail(r) PROVE TypeInv'
  BY <1>9, FailOverType DEF WorkersFail, ProcessFail, TypeInv, TypeOK
<1>10. ASSUME NEW r \in Ranks, Crash(r) PROVE TypeInv'
  <2>1. pc[r] # "off" /\ ExitPod(r)
    BY <1>10 DEF Crash
  <2>2. QED
    BY <1>10, <2>1, ExitPodType DEF Crash, TypeInv, TypeOK, PodsNumbered,
                                    masterVars, PodIds
<1>11. ASSUME NEW n \in exited, RemoveAliveNode(n) PROVE TypeInv'
  BY <1>11 DEF RemoveAliveNode, TypeInv, TypeOK, PodsNumbered, PodIds, agentVars
<1>12. ASSUME Tick PROVE TypeInv'
  BY <1>12 DEF Tick, TypeInv, TypeOK, PodsNumbered, PodIds, agentVars
<1>13. ASSUME UNCHANGED vars PROVE TypeInv'
  BY <1>13 DEF vars, masterVars, agentVars, TypeInv, TypeOK, PodsNumbered, PodIds
<1>14. QED
  BY <1>1, <1>2, <1>3, <1>4, <1>5, <1>6, <1>7, <1>9, <1>10, <1>11, <1>12,
     <1>13 DEF Next, AgentStep

\* Every variable of the rendezvous keeps its type: worlds are sets of ranks,
\* waiting entries carry pod numbers within the relaunch limit.
THEOREM TypeCorrect == Spec => []TypeOK
<1>1. TypeInv => TypeOK
  BY DEF TypeInv
<1>2. QED
  BY <1>1, TypeInvInit, TypeInvNext, PTL DEF Spec

-----------------------------------------------------------------------------
(* World agreement and the waiting list.                                   *)

SafetyInv ==
  /\ ParamsReported
  /\ MembersDoNotWait
  /\ WorldsCurrent
  /\ WorldAgreement
  /\ WaitingEntriesJustified

LEMMA SafetyInvInit == Init => SafetyInv
BY DEF Init, SafetyInv, ParamsReported, MembersDoNotWait, WorldsCurrent,
       WorldAgreement, WaitingEntriesJustified, Waiting

\* What the manager's part of get_comm_world does to the waiting list, the
\* published world and the round.
LEMMA ManagerPoll ==
  ASSUME TypeInv, MembersDoNotWait,
         IF rdzv = {} /\ RdzvCompleted THEN CompleteRound ELSE UNCHANGED masterVars
  PROVE  /\ params' = params
         /\ \A s \in Ranks : waiting'[s] = 0 \/ waiting'[s] = waiting[s]
         /\ \A s \in rdzv' : waiting'[s] = 0
         /\ \/ round' = round + 1
            \/ round' = round /\ rdzv' = rdzv
BY DEF TypeInv, TypeOK, MembersDoNotWait, CompleteRound, masterVars, Waiting

\* Stopping the workers of one agent, whatever it does next, keeps what the
\* other agents rely on.
LEMMA LeavePreserves ==
  ASSUME TypeInv, SafetyInv, NEW r \in Ranks, pc[r] # "off",
         \/ ExitPod(r)
         \/ (pc[r] = "run" /\ RestartWorkers(r) /\ UNCHANGED exited),
         UNCHANGED masterVars, UNCHANGED inc
  PROVE  SafetyInv'
<1> USE DEF SafetyInv, TypeInv, TypeOK, masterVars
<1>1. /\ \A s \in Ranks : s # r => /\ pc'[s] = pc[s]
                                  /\ world'[s] = world[s]
                                  /\ wround'[s] = wround[s]
      /\ pc'[r] \in {"off", "idle"}
      /\ exited \subseteq exited'
  BY DEF ExitPod, RestartWorkers
<1>2. ParamsReported'
  BY <1>1 DEF ParamsReported, ExitPod, RestartWorkers
<1>3. MembersDoNotWait'
  BY DEF MembersDoNotWait
<1>4. WorldsCurrent'
  BY <1>1 DEF WorldsCurrent
<1>5. WorldAgreement'
  BY <1>1 DEF WorldAgreement
<1>6. WaitingEntriesJustified'
  <2> SUFFICES ASSUME NEW s \in Ranks, waiting[s] # 0
               PROVE  \/ waiting[s] = inc[s] /\ pc'[s] \in {"idle", "poll"}
                      \/ <<s, waiting[s]>> \in exited' /\ pc'[s] # "run"
    BY DEF WaitingEntriesJustified, Waiting
  <2>1. \/ waiting[s] = inc[s] /\ pc[s] \in {"idle", "poll"}
        \/ <<s, waiting[s]>> \in exited /\ pc[s] # "run"
    BY DEF WaitingEntriesJustified, Waiting
  <2>2. CASE s # r
    BY <2>1, <2>2, <1>1
  <2>3. CASE s = r
    BY <2>1, <2>3, <1>1 DEF ExitPod
  <2>4. QED
    BY <2>2, <2>3
<1>7. QED
  BY <1>2, <1>3, <1>4, <1>5, <1>6

LEMMA SafetyInvNext == TypeInv /\ SafetyInv /\ [Next]_vars => SafetyInv'
<1> SUFFICES ASSUME TypeInv, SafetyInv, [Next]_vars PROVE SafetyInv'
  OBVIOUS
<1> USE DEF SafetyInv
<1>1. ASSUME NEW r \in Ranks, LaunchPod(r) PROVE SafetyInv'
  BY <1>1 DEF LaunchPod, TypeInv, TypeOK, masterVars, ParamsReported,
              MembersDoNotWait, WorldsCurrent, WorldAgreement,
              WaitingEntriesJustified, Waiting
<1>2. ASSUME NEW r \in Ranks, ReportRdzvParams(r) PROVE SafetyInv'
  <2>1. ParamsReported'
    BY <1>2, ParamsAssumption
       DEF ReportRdzvParams, TypeInv, TypeOK, ParamsReported, NoParams, JobParams
  <2>2. QED
    BY <1>2, <2>1 DEF ReportRdzvParams, TypeInv, TypeOK, MembersDoNotWait,
                WorldsCurrent, WorldAgreement, WaitingEntriesJustified, Waiting
<1>3. ASSUME NEW r \in Ranks, JoinRendezvous(r) PROVE SafetyInv'
  <2> USE <1>3 DEF JoinRendezvous, ManagerJoin, TypeInv, TypeOK, masterVars
  <2>1. ParamsReported'
    BY DEF ParamsReported
  <2>2. MembersDoNotWait'
    BY DEF MembersDoNotWait
  <2>3. WorldsCurrent'
    BY DEF WorldsCurrent
  <2>4. WorldAgreement'
    BY DEF WorldAgreement
  <2>5. WaitingEntriesJustified'
    BY DEF WaitingEntriesJustified, Waiting
  <2>6. QED
    BY <2>1, <2>2, <2>3, <2>4, <2>5
<1>4. ASSUME NEW r \in Ranks, GetCommWorld(r) PROVE SafetyInv'
  <2>1. /\ params' = params
        /\ \A s \in Ranks : waiting'[s] = 0 \/ waiting'[s] = waiting[s]
        /\ \A s \in rdzv' : waiting'[s] = 0
        /\ \/ round' = round + 1
           \/ round' = round /\ rdzv' = rdzv
    BY <1>4, ManagerPoll DEF GetCommWorld
  <2>2. /\ pc[r] = "poll"
        /\ UNCHANGED <<inc, exited>>
        /\ \/ /\ r \in rdzv'
              /\ pc' = [pc EXCEPT ![r] = "run"]
              /\ world' = [world EXCEPT ![r] = rdzv']
              /\ wround' = [wround EXCEPT ![r] = round']
           \/ UNCHANGED agentVars
    BY <1>4 DEF GetCommWorld
  <2> USE DEF TypeInv, TypeOK, agentVars
  <2>3. ParamsReported'
    BY <2>1, <2>2 DEF ParamsReported
  <2>4. MembersDoNotWait'
    BY <2>1 DEF MembersDoNotWait
  <2>5. WorldsCurrent'
    BY <2>1, <2>2 DEF WorldsCurrent
  <2>6. WorldAgreement'
    BY <2>1, <2>2 DEF WorldAgreement, WorldsCurrent
  <2>7. WaitingEntriesJustified'
    BY <2>1, <2>2 DEF WaitingEntriesJustified, Waiting
  <2>8. QED
    BY <2>3, <2>4, <2>5, <2>6, <2>7
<1>5. ASSUME NEW r \in Ranks, PendTimeout(r) \/ JoinTimeout(r) \/ Crash(r)
      PROVE  SafetyInv'
  <2>1. pc[r] # "off" /\ ExitPod(r) /\ UNCHANGED masterVars /\ UNCHANGED inc
    BY <1>5 DEF PendTimeout, JoinTimeout, Crash
  <2>2. QED
    BY <2>1, LeavePreserves
<1>6. ASSUME NEW r \in Ranks, MonitorMembership(r) PROVE SafetyInv'
  <2>1. CASE NumNodesWaiting > 0
    BY <1>6, <2>1, LeavePreserves DEF MonitorMembership
  <2>2. CASE ~(NumNodesWaiting > 0)
    BY <1>6, <2>2 DEF MonitorMembership, masterVars, agentVars, ParamsReported,
       MembersDoNotWait, WorldsCurrent, WorldAgreement, WaitingEntriesJustified,
       Waiting
  <2>3. QED
    BY <2>1, <2>2
<1>7. ASSUME NEW r \in Ranks, WorkersFail(r) \/ ProcessFail(r) PROVE SafetyInv'
  <2>1. /\ pc[r] = "run" /\ UNCHANGED masterVars /\ UNCHANGED inc
        /\ ExitPod(r) \/ (RestartWorkers(r) /\ UNCHANGED exited)
    BY <1>7 DEF WorkersFail, ProcessFail, FailOver
  <2>2. QED
    BY <2>1, LeavePreserves
<1>8. ASSUME NEW n \in exited, RemoveAliveNode(n) PROVE SafetyInv'
  <2> USE <1>8 DEF RemoveAliveNode, TypeInv, TypeOK, agentVars, PodIds
  <2>1. ParamsReported' /\ WorldsCurrent' /\ WorldAgreement'
    BY DEF ParamsReported, WorldsCurrent, WorldAgreement
  <2>2. MembersDoNotWait'
    BY DEF MembersDoNotWait
  <2>3. WaitingEntriesJustified'
    BY DEF WaitingEntriesJustified, Waiting
  <2>4. QED
    BY <2>1, <2>2, <2>3
<1>9. ASSUME Tick \/ UNCHANGED vars PROVE SafetyInv'
  BY <1>9 DEF Tick, vars, masterVars, agentVars, ParamsReported,
     MembersDoNotWait, WorldsCurrent, WorldAgreement, WaitingEntriesJustified,
     Waiting
<1>10. QED
  BY <1>1, <1>2, <1>3, <1>4, <1>5, <1>6, <1>7, <1>8, <1>9 DEF Next, AgentStep

\* Agents that run in the same round hold the same world, for any number of
\* nodes and any interleaving of joins, fetches, failures and relaunches.
THEOREM Agreement == Spec => []WorldAgreement
<1>1. SafetyInv => WorldAgreement
  BY DEF SafetyInv
<1>2. QED
  BY <1>1, TypeInvInit, TypeInvNext, SafetyInvInit, SafetyInvNext, PTL DEF Spec

\* Every waiting entry belongs to a live pod that is inside next_rendezvous or
\* to a pod whose exit event will remove it.
THEOREM WaitingJustified == Spec => []WaitingEntriesJustified
<1>1. SafetyInv => WaitingEntriesJustified
  BY DEF SafetyInv
<1>2. QED
  BY <1>1, TypeInvInit, TypeInvNext, SafetyInvInit, SafetyInvNext, PTL DEF Spec

-----------------------------------------------------------------------------
(* The size of a world.                                                    *)

\* Rounding down to a multiple of u loses less than u, and never drops below
\* a multiple of u that is not above n.
LEMMA RoundDown ==
  ASSUME NEW n \in Nat, NEW u \in Nat \ {0}
  PROVE  /\ n \div u \in Nat
         /\ (n \div u) * u <= n
         /\ \A k \in Nat : k * u <= n => k <= n \div u
<1> DEFINE q == n \div u
<1>1. q \in Nat /\ n = q * u + (n % u) /\ n % u \in 0 .. (u - 1)
  BY Z3
<1>2. q * u \in Nat
  BY <1>1
<1>3. q * u <= n
  BY <1>1, <1>2
<1>4. ASSUME NEW k \in Nat, k * u <= n PROVE k <= q
  <2>1. SUFFICES ASSUME k >= q + 1 PROVE FALSE
    BY <1>1
  <2>2. k * u >= (q + 1) * u
    BY <1>1, <2>1, Z3
  <2>3. (q + 1) * u = q * u + u
    BY <1>1, Z3
  <2>4. QED
    BY <1>1, <1>2, <1>4, <2>2, <2>3
<1>5. QED
  BY <1>1, <1>3, <1>4

\* A completed round takes between min_nodes and max_nodes nodes, in whole
\* units, because both bounds are multiples of the unit.
LEMMA CompletedWorldSize ==
  ASSUME TypeInv, params = JobParams, RdzvCompleted
  PROVE  /\ WorldNum \in MinNodes .. MaxNodes
         /\ \E k \in 1 .. MaxNodes : WorldNum = k * NodeUnit
<1> DEFINE n == Cardinality(Waiting)
           q == n \div NodeUnit
<1> USE ParamsAssumption
<1>1. n \in Nat /\ n <= MaxNodes
  <2>1. IsFiniteSet(Ranks) /\ Waiting \subseteq Ranks
    BY RanksAssumption DEF Waiting
  <2>2. /\ IsFiniteSet(Waiting)
        /\ Cardinality(Waiting) <= Cardinality(Ranks)
    BY <2>1, FS_Subset
  <2>3. Cardinality(Waiting) \in Nat /\ Cardinality(Ranks) \in Nat
    BY <2>1, <2>2, FS_CardinalityType
  <2>4. QED
    BY <2>2, <2>3, SchedulingAssumption
<1>2. params.min = MinNodes /\ params.max = MaxNodes /\ params.unit = NodeUnit
  BY DEF JobParams
<1>3. CASE n = MaxNodes
  <2>1. WorldNum = MaxNodes
    BY <1>2, <1>3 DEF WorldNum
  <2>2. QED
    BY <2>1, SchedulingAssumption, UnitAssumption
<1>4. CASE n # MaxNodes
  <2> HIDE DEF n, q
  <2>1. WorldNum = q * NodeUnit
    BY <1>2, <1>4 DEF WorldNum, n, q
  <2>2. n >= MinNodes
    BY <1>2, <1>4 DEF RdzvCompleted, n
  <2>3. /\ q \in Nat
        /\ q * NodeUnit <= n
        /\ \A k \in Nat : k * NodeUnit <= n => k <= q
    BY <1>1, RoundDown DEF q
  <2>4. PICK k \in 1 .. MinNodes : MinNodes = k * NodeUnit
    BY UnitAssumption
  <2>5. k <= q
    BY <1>1, <2>2, <2>3, <2>4
  <2>6. k * NodeUnit <= q * NodeUnit /\ q <= q * NodeUnit
    BY <2>3, <2>4, <2>5, Z3
  <2>7. q * NodeUnit \in MinNodes .. MaxNodes /\ q \in 1 .. MaxNodes
    BY <1>1, <2>3, <2>4, <2>5, <2>6
  <2>8. QED
    BY <2>1, <2>7
<1>5. QED
  BY <1>3, <1>4

LEMMA WorldSizeNext ==
  TypeInv /\ SafetyInv /\ WorldSizeOK /\ [Next]_vars => WorldSizeOK'
<1> SUFFICES ASSUME TypeInv, SafetyInv, WorldSizeOK, [Next]_vars
             PROVE  WorldSizeOK'
  OBVIOUS
<1>1. CASE rdzv' = rdzv \/ rdzv' = {}
  BY <1>1 DEF WorldSizeOK
<1>2. ASSUME NEW r \in Ranks, GetCommWorld(r), rdzv' # rdzv
      PROVE  WorldSizeOK'
  <2>1. RdzvCompleted /\ CompleteRound /\ pc[r] = "poll"
    BY <1>2 DEF GetCommWorld, masterVars
  <2>2. params = JobParams
    BY <2>1 DEF SafetyInv, ParamsReported
  <2>3. Cardinality(rdzv') = WorldNum
    BY <2>1 DEF CompleteRound, IsLowest
  <2>4. QED
    BY <2>1, <2>2, <2>3, CompletedWorldSize DEF WorldSizeOK
<1>3. rdzv' = rdzv \/ rdzv' = {} \/ \E r \in Ranks : GetCommWorld(r)
  BY DEF Next, AgentStep, LaunchPod, ReportRdzvParams, JoinRendezvous,
         ManagerJoin, PendTimeout, JoinTimeout, MonitorMembership, WorkersFail,
         ProcessFail, FailOver, Crash, RemoveAliveNode, Tick, vars, masterVars
<1>4. QED
  BY <1>1, <1>2, <1>3

\* Every published world admits min_nodes to max_nodes nodes and is a multiple
\* of node_unit, when the job's node counts are.
THEOREM WorldSize == Spec => []WorldSizeOK
<1>1. Init => WorldSizeOK
  BY DEF Init, WorldSizeOK
<1>2. QED
  BY <1>1, TypeInvInit, TypeInvNext, SafetyInvInit, SafetyInvNext,
     WorldSizeNext, PTL DEF Spec
-----------------------------------------------------------------------------
(* No split brain under prompt agents.  A round completes only when nobody *)
(* runs: at a full waiting list every rank waits, and waiting_timeout only *)
(* passes when the running agents see too few waiting nodes for a world.   *)

\* All agents whose workers run are in the last completed round.
OneRoundRuns ==
  \A r \in Ranks : pc[r] = "run" => wround[r] = round

\* While a world could complete by waiting_timeout, no agent runs.
ExpiryFindsNoRuns ==
  rdzv = {} /\ lastcall = "expired" /\ Cardinality(Waiting) >= MinNodes =>
    \A r \in Ranks : pc[r] # "run"

PromptInv == OneRoundRuns /\ ExpiryFindsNoRuns

LEMMA WaitingFinite ==
  /\ IsFiniteSet(Waiting)
  /\ Cardinality(Waiting) \in Nat
  /\ Cardinality(Waiting) <= MaxNodes
  /\ Cardinality(Waiting) = MaxNodes => Waiting = Ranks
<1>1. IsFiniteSet(Ranks) /\ Waiting \subseteq Ranks
  BY RanksAssumption DEF Waiting
<1>2. /\ IsFiniteSet(Waiting)
      /\ Cardinality(Waiting) <= Cardinality(Ranks)
      /\ Cardinality(Waiting) = Cardinality(Ranks) => Waiting = Ranks
  BY <1>1, FS_Subset
<1>3. Cardinality(Waiting) \in Nat /\ Cardinality(Ranks) \in Nat
  BY <1>1, <1>2, FS_CardinalityType
<1>4. QED
  BY <1>2, <1>3, SchedulingAssumption, ParamsAssumption

\* The smallest world is at least one unit.
LEMMA UnitFits == NodeUnit <= MinNodes
<1>1. PICK k \in 1 .. MinNodes : MinNodes = k * NodeUnit
  BY UnitAssumption
<1>2. k >= 1 /\ k \in Nat /\ NodeUnit \in Nat /\ MinNodes \in Nat
  BY <1>1, ParamsAssumption
<1>3. k * NodeUnit >= NodeUnit
  BY <1>2, Z3
<1>4. QED
  BY <1>1, <1>2, <1>3

\* When a round completes nobody runs, and the new world is not empty.
LEMMA CompletionFindsNoRuns ==
  ASSUME TypeInv, SafetyInv, PromptInv, params = JobParams, rdzv = {},
         RdzvCompleted, CompleteRound
  PROVE  /\ \A r \in Ranks : pc[r] # "run"
         /\ rdzv' # {}
<1>1. params.min = MinNodes /\ params.max = MaxNodes
  BY DEF JobParams
<1>2. ASSUME Cardinality(Waiting) = MaxNodes
      PROVE  \A r \in Ranks : pc[r] # "run"
  <2>1. \A r \in Ranks : r \in Waiting
    BY <1>2, WaitingFinite
  <2>2. QED
    BY <2>1 DEF SafetyInv, WaitingEntriesJustified
<1>3. ASSUME Cardinality(Waiting) >= MinNodes, lastcall = "expired"
      PROVE  \A r \in Ranks : pc[r] # "run"
  BY <1>3 DEF PromptInv, ExpiryFindsNoRuns
<1>4. rdzv' # {}
  <2>1. Cardinality(rdzv') \in MinNodes .. MaxNodes
    BY CompletedWorldSize DEF CompleteRound, IsLowest
  <2>2. Cardinality(rdzv') # 0
    BY <2>1, ParamsAssumption
  <2>3. QED
    BY <2>2, FS_EmptySet
<1>5. QED
  BY <1>1, <1>2, <1>3, <1>4 DEF RdzvCompleted

LEMMA PromptInvNext ==
  ASSUME Prompt
  PROVE  TypeInv /\ SafetyInv /\ PromptInv /\ [Next]_vars => PromptInv'
<1> SUFFICES ASSUME TypeInv, SafetyInv, PromptInv, [Next]_vars
             PROVE  PromptInv'
  OBVIOUS
<1>1. ASSUME UNCHANGED <<rdzv, round, lastcall, waiting>>,
             \A s \in Ranks : pc'[s] = "run" =>
               pc[s] = "run" /\ wround'[s] = wround[s]
      PROVE  PromptInv'
  BY <1>1 DEF PromptInv, OneRoundRuns, ExpiryFindsNoRuns, Waiting
<1>2. ASSUME NEW r \in Ranks,
             \/ LaunchPod(r) \/ ReportRdzvParams(r) \/ PendTimeout(r)
             \/ JoinTimeout(r) \/ MonitorMembership(r) \/ WorkersFail(r)
             \/ ProcessFail(r) \/ Crash(r)
      PROVE  PromptInv'
  <2>1. UNCHANGED <<rdzv, round, lastcall, waiting>>
    BY <1>2 DEF LaunchPod, ReportRdzvParams, PendTimeout, JoinTimeout,
       MonitorMembership, WorkersFail, ProcessFail, FailOver, Crash, masterVars
  <2>2. \/ pc' = [pc EXCEPT ![r] = "new"] /\ UNCHANGED wround
        \/ pc' = [pc EXCEPT ![r] = "idle"] /\ UNCHANGED wround
        \/ RestartWorkers(r)
        \/ ExitPod(r)
        \/ UNCHANGED agentVars
    BY <1>2 DEF LaunchPod, ReportRdzvParams, PendTimeout, JoinTimeout,
       MonitorMembership, WorkersFail, ProcessFail, FailOver, Crash
  <2>3. \A s \in Ranks : pc'[s] = "run" => pc[s] = "run" /\ wround'[s] = wround[s]
    BY <2>2 DEF RestartWorkers, ExitPod, agentVars, TypeInv, TypeOK
  <2>4. QED
    BY <1>1, <2>1, <2>3
<1>3. ASSUME NEW r \in Ranks, JoinRendezvous(r) PROVE PromptInv'
  <2>1. /\ round' = round /\ wround' = wround
        /\ \A s \in Ranks : pc'[s] = "run" => pc[s] = "run"
    BY <1>3 DEF JoinRendezvous, ManagerJoin, masterVars, TypeInv, TypeOK
  <2>2. CASE waiting[r] # 0
    BY <1>1, <1>3, <2>1, <2>2 DEF JoinRendezvous, ManagerJoin, masterVars
  <2>3. CASE waiting[r] = 0
    <3>1. lastcall' = "fresh"
      BY <1>3, <2>3 DEF JoinRendezvous, ManagerJoin
    <3>2. QED
      BY <2>1, <3>1 DEF PromptInv, OneRoundRuns, ExpiryFindsNoRuns
  <2>4. QED
    BY <2>2, <2>3
<1>4. ASSUME NEW r \in Ranks, GetCommWorld(r) PROVE PromptInv'
  <2>1. /\ pc[r] = "poll"
        /\ \/ /\ r \in rdzv'
              /\ pc' = [pc EXCEPT ![r] = "run"]
              /\ wround' = [wround EXCEPT ![r] = round']
           \/ UNCHANGED <<pc, wround>>
    BY <1>4 DEF GetCommWorld, agentVars
  <2>2. CASE rdzv = {} /\ RdzvCompleted
    <3>1. CompleteRound /\ params = JobParams
      BY <1>4, <2>2 DEF GetCommWorld, SafetyInv, ParamsReported
    <3>2. (\A s \in Ranks : pc[s] # "run") /\ rdzv' # {}
      BY <2>2, <3>1, CompletionFindsNoRuns
    <3>3. \A s \in Ranks : pc'[s] = "run" => wround'[s] = round'
      BY <2>1, <3>2 DEF TypeInv, TypeOK
    <3>4. QED
      BY <3>2, <3>3 DEF PromptInv, OneRoundRuns, ExpiryFindsNoRuns
  <2>3. CASE ~(rdzv = {} /\ RdzvCompleted)
    <3>1. UNCHANGED <<rdzv, round, lastcall, waiting>>
      BY <1>4, <2>3 DEF GetCommWorld, masterVars
    <3>2. CASE rdzv = {}
      <4>1. UNCHANGED <<pc, wround>>
        BY <2>1, <3>1, <3>2
      <4>2. QED
        BY <1>1, <3>1, <4>1
    <3>3. CASE rdzv # {}
      <4>1. ExpiryFindsNoRuns'
        BY <3>1, <3>3 DEF ExpiryFindsNoRuns
      <4>2. OneRoundRuns'
        BY <2>1, <3>1 DEF PromptInv, OneRoundRuns, TypeInv, TypeOK
      <4>3. QED
        BY <4>1, <4>2 DEF PromptInv
    <3>4. QED
      BY <3>2, <3>3
  <2>4. QED
    BY <2>2, <2>3
<1>5. ASSUME NEW n \in exited, RemoveAliveNode(n) PROVE PromptInv'
  <2>1. UNCHANGED <<rdzv, round, lastcall, pc, wround>>
    BY <1>5 DEF RemoveAliveNode, agentVars
  <2>2. Waiting' \subseteq Waiting
    BY <1>5 DEF RemoveAliveNode, Waiting, TypeInv, TypeOK, PodIds
  <2>3. Cardinality(Waiting') \in Nat /\ Cardinality(Waiting') <= Cardinality(Waiting)
    BY <2>2, WaitingFinite, FS_Subset, FS_CardinalityType
  <2>4. Cardinality(Waiting') >= MinNodes => Cardinality(Waiting) >= MinNodes
    BY <2>3, WaitingFinite, ParamsAssumption
  <2>5. QED
    BY <2>1, <2>4 DEF PromptInv, OneRoundRuns, ExpiryFindsNoRuns
<1>6. ASSUME Tick PROVE PromptInv'
  <2>1. UNCHANGED <<rdzv, round, waiting, pc, wround>> /\ Quiet
    BY <1>6 DEF Tick, agentVars
  <2>2. ASSUME NEW r \in Ranks, pc[r] = "run"
        PROVE  ~(Cardinality(Waiting) >= MinNodes)
    <3>1. NumNodesWaiting = 0 /\ params.unit = NodeUnit
      BY <2>1, <2>2 DEF Quiet, SafetyInv, ParamsReported, JobParams
    <3>2. Cardinality(Waiting) < NodeUnit \/ Cardinality(Waiting) = 0
      BY <3>1, WaitingFinite, ParamsAssumption DEF NumNodesWaiting
    <3>3. QED
      BY <3>2, UnitFits, WaitingFinite, ParamsAssumption
  <2>3. QED
    BY <2>1, <2>2 DEF PromptInv, OneRoundRuns, ExpiryFindsNoRuns, Waiting
<1>7. ASSUME UNCHANGED vars PROVE PromptInv'
  BY <1>1, <1>7 DEF vars, masterVars, agentVars
<1>8. QED
  BY <1>2, <1>3, <1>4, <1>5, <1>6, <1>7 DEF Next, AgentStep

\* When agents react to num_nodes_waiting within waiting_timeout, all agents
\* whose workers run are in one round, so that the job never trains in two
\* worlds at once.
THEOREM SingleWorld ==
  ASSUME Prompt
  PROVE  Spec => [](OneRoundRuns /\ NoSplitBrain)
<1>1. Init => PromptInv
  BY DEF Init, PromptInv, OneRoundRuns, ExpiryFindsNoRuns
<1>2. PromptInv => OneRoundRuns /\ NoSplitBrain
  BY DEF PromptInv, OneRoundRuns, NoSplitBrain, WholeWorldRuns
<1>3. QED
  BY <1>1, <1>2, TypeInvInit, TypeInvNext, SafetyInvInit, SafetyInvNext,
     PromptInvNext, PTL DEF Spec
=============================================================================
