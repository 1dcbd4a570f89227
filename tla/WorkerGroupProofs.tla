-------------------------- MODULE WorkerGroupProofs --------------------------
(***************************************************************************)
(* Safety of the worker groups on top of the rendezvous: the steps of the  *)
(* agents and of the key-value store keep what the rendezvous guarantees,  *)
(* and the agents of a world train with the address of one pod.            *)
(***************************************************************************)
EXTENDS WorkerGroup, RendezvousProofs

-----------------------------------------------------------------------------
(* The rendezvous under a worker group.                                    *)

LEMMA RendezvousStepIsNext == RendezvousStep => Next
BY DEF RendezvousStep, Next, AgentStep

\* A step of a worker group leaves the rendezvous alone, counts a lost reply,
\* or stops the agent.
LEMMA GroupStepLeaves ==
  ASSUME NEW r \in Ranks, GroupStep(r)
  PROVE  \/ UNCHANGED vars
         \/ /\ faults < MaxFaults
            /\ faults' = faults + 1
            /\ UNCHANGED <<masterVars, alive, inc, agentVars, exited>>
         \/ /\ pc[r] = "run"
            /\ FailOver(r)
            /\ UNCHANGED faults
<1>1. CASE StoreTimeout(r)
  BY <1>1 DEF StoreTimeout, FailOver, At
<1>2. CASE AgentSucceeds(r)
  BY <1>2 DEF AgentSucceeds, FailOver, At
<1>3. CASE BarrierAdd(r)
  BY <1>3 DEF BarrierAdd
<1>4. QED
  BY <1>1, <1>2, <1>3 DEF GroupStep, SetMasterAddr, SetMasterPort,
     GetMasterAddr, GetMasterPort, WorkersSucceed, BarrierLast, BarrierPass,
     BarrierTimeout

LEMMA RdzvInvWgNext ==
  TypeInv /\ SafetyInv /\ [WgNext]_wgVars => TypeInv' /\ SafetyInv'
<1> SUFFICES ASSUME TypeInv, SafetyInv, [WgNext]_wgVars
             PROVE  TypeInv' /\ SafetyInv'
  OBVIOUS
<1>1. CASE [Next]_vars
  BY <1>1, TypeInvNext, SafetyInvNext
<1>2. ASSUME NEW r \in Ranks, pc[r] = "run", FailOver(r), UNCHANGED faults
      PROVE  TypeInv' /\ SafetyInv'
  <2>1. TypeInv'
    BY <1>2, FailOverType DEF TypeInv, TypeOK
  <2>2. SafetyInv'
    BY <1>2, LeavePreserves DEF FailOver
  <2>3. QED
    BY <2>1, <2>2
<1>3. ASSUME faults < MaxFaults, faults' = faults + 1,
             UNCHANGED <<masterVars, alive, inc, agentVars, exited>>
      PROVE  TypeInv' /\ SafetyInv'
  <2>1. TypeInv'
    BY <1>3, BoundsAssumption DEF TypeInv, TypeOK, PodsNumbered, PodIds,
       masterVars, agentVars
  <2>2. SafetyInv'
    BY <1>3 DEF SafetyInv, masterVars, agentVars, ParamsReported,
       MembersDoNotWait, WorldsCurrent, WorldAgreement,
       WaitingEntriesJustified, Waiting
  <2>3. QED
    BY <2>1, <2>2
<1>4. [Next]_vars \/ \E r \in Ranks : GroupStep(r)
  BY RendezvousStepIsNext DEF WgNext, wgVars
<1>5. QED
  BY <1>1, <1>2, <1>3, <1>4, GroupStepLeaves

\* Agents that run in the same round hold the same world, also when the steps
\* of their worker groups and of the key-value store interleave with the
\* rendezvous.
THEOREM GroupAgreement == WgSpec => []WorldAgreement
<1>1. WgInit => TypeInv /\ SafetyInv
  BY TypeInvInit, SafetyInvInit DEF WgInit
<1>2. SafetyInv => WorldAgreement
  BY DEF SafetyInv
<1>3. QED
  BY <1>1, <1>2, RdzvInvWgNext, PTL DEF WgSpec

-----------------------------------------------------------------------------
(* The inductive invariant.                                                *)

Addr(k) == kv[<<k, "MASTER_ADDR">>]
Port(k) == kv[<<k, "MASTER_PORT">>]
Members(k) == kv[<<k, "members">>]
Arrived(k) == {p \in Ranks : <<k, p>> \in reached}
First(r) == group[r].order[1].rank

\* Nothing has been published under the prefix of round k.
Unpublished(k) == Addr(k) = Empty /\ Port(k) = Empty

\* What is published under the prefix of round k comes from one pod of f.
PublishedBy(k, f) ==
  \E i \in 1 .. MaxIncarnation :
    Addr(k) \in {Empty, <<f, i>>} /\ Port(k) \in {Empty, <<f, i, k>>}

\* The group of an agent is a record and the counters of the store are
\* numbers.
StoreShape ==
  /\ DOMAIN group = Ranks
  /\ group = [r \in Ranks |-> group[r]]
  /\ \A r \in Ranks :
       group[r] = [at |-> group[r].at, order |-> group[r].order,
                   addr |-> group[r].addr, port |-> group[r].port]
  /\ kv = [k \in Keys |-> kv[k]]
  /\ \A k \in 0 .. MaxRound : Members(k) \in Nat

\* Agents of one round have the same sorted world, which is the published
\* one while that round's world is published.
OrderShared ==
  /\ \A r, s \in Ranks :
       pc[r] = "run" /\ pc[s] = "run" /\ wround[r] = wround[s] =>
         group[r].order = group[s].order
  /\ \A r \in Ranks :
       pc[r] = "run" /\ wround[r] = round /\ rdzv # {} => group[r].order = order

\* The first node has published nothing while it can still fetch the world;
\* nobody uses the keys of a round to come.
RoundPublished ==
  /\ rdzv # {} =>
       LET f == order[1].rank
       IN  /\ PublishedBy(round, f)
           /\ f \in rdzv /\ pc[f] = "poll" => Unpublished(round)
  /\ \A k \in 0 .. MaxRound : k > round => Unpublished(k)

\* Where an agent is in _set_master_addr_port and _get_master_addr_port.
AgentStored(r) ==
  pc[r] = "run" =>
    /\ PublishedBy(wround[r], First(r))
    /\ group[r].at = "setaddr" => First(r) = r /\ Unpublished(wround[r])
    /\ group[r].at = "setport" =>
         First(r) = r /\ Addr(wround[r]) = <<r, inc[r]>> /\ Port(wround[r]) = Empty
    /\ group[r].at = "getport" =>
         group[r].addr # Empty /\ group[r].addr = Addr(wround[r])

AgentPublished == \A r \in Ranks : AgentStored(r)

\* SameMaster of one agent.
MasterSeen(r) ==
  pc[r] = "run" /\ group[r].at = "train" =>
    \E i \in 1 .. MaxIncarnation :
      /\ group[r].addr = <<First(r), i>>
      /\ group[r].port = <<First(r), i, wround[r]>>

StoreInv ==
  /\ StoreShape /\ OrderShared /\ RoundPublished /\ AgentPublished
  /\ \A r \in Ranks : MasterSeen(r)

\* The members key counts at least the agents that have arrived, all of them
\* members of the world of the round, and the last key is set only when it
\* has counted as many as the world has.
BarrierInv ==
  /\ \A k \in 0 .. MaxRound : Members(k) >= Cardinality(Arrived(k))
  /\ \A k \in 0 .. MaxRound : k > round =>
       Arrived(k) = {} /\ kv[<<k, "last">>] = Empty
  /\ rdzv # {} =>
       /\ Arrived(round) \subseteq rdzv
       /\ kv[<<round, "last">>] # Empty => Members(round) >= Cardinality(rdzv)
  /\ \A r \in Ranks : pc[r] = "run" =>
       /\ Arrived(wround[r]) \subseteq world[r]
       /\ \/ kv[<<wround[r], "last">>] # Empty
          \/ group[r].at \in {"last", "passed"}
          => Members(wround[r]) >= Cardinality(world[r])

-----------------------------------------------------------------------------
(* The address of the first node.                                          *)

\* What a step of the rendezvous does to the agents, the round and the
\* published world.
LEMMA RendezvousFacts ==
  ASSUME TypeInv, SafetyInv, Next
  PROVE  /\ \A r \in Ranks : pc'[r] = "run" /\ pc[r] = "run" =>
              UNCHANGED <<wround[r], world[r], inc[r]>>
         /\ \A r \in Ranks : pc'[r] = "run" /\ pc[r] # "run" =>
              /\ pc[r] = "poll" /\ r \in rdzv'
              /\ wround'[r] = round' /\ world'[r] = rdzv'
         /\ \A r \in rdzv : pc'[r] = "poll" /\ pc[r] # "poll" => rdzv' = {}
         /\ \/ round' = round + 1 /\ rdzv = {} /\ rdzv' # {}
            \/ round' = round /\ rdzv' = rdzv
            \/ round' = round /\ rdzv' = {}
<1> DEFINE Keep ==
             /\ \A r \in Ranks : pc'[r] = "run" /\ pc[r] = "run" =>
                  UNCHANGED <<wround[r], world[r], inc[r]>>
             /\ \A r \in Ranks : pc'[r] = "run" => pc[r] = "run"
             /\ \A r \in Ranks : pc'[r] = "poll" => pc[r] = "poll"
             /\ round' = round /\ rdzv' = rdzv
<1>1. ASSUME NEW r \in Ranks, LaunchPod(r) \/ ReportRdzvParams(r) PROVE Keep
  BY <1>1 DEF LaunchPod, ReportRdzvParams, TypeInv, TypeOK, masterVars
<1>2. ASSUME NEW r \in Ranks, ExitPod(r) \/ RestartWorkers(r),
             UNCHANGED <<masterVars, inc>>
      PROVE  Keep
  BY <1>2 DEF ExitPod, RestartWorkers, TypeInv, TypeOK, masterVars
<1>3. ASSUME UNCHANGED <<agentVars, inc, round, rdzv>> PROVE Keep
  BY <1>3 DEF agentVars
<1>4. ASSUME NEW r \in Ranks,
             \/ PendTimeout(r) \/ JoinTimeout(r) \/ MonitorMembership(r)
             \/ WorkersFail(r) \/ ProcessFail(r) \/ Crash(r)
      PROVE  Keep
  <2>1. UNCHANGED <<masterVars, inc>>
    BY <1>4 DEF PendTimeout, JoinTimeout, MonitorMembership, WorkersFail,
       ProcessFail, FailOver, Crash
  <2>2. ExitPod(r) \/ RestartWorkers(r) \/ UNCHANGED agentVars
    BY <1>4 DEF PendTimeout, JoinTimeout, MonitorMembership, WorkersFail,
       ProcessFail, FailOver, Crash
  <2>3. QED
    BY <1>2, <1>3, <2>1, <2>2 DEF masterVars
<1>5. ASSUME (\E n \in exited : RemoveAliveNode(n)) \/ Tick PROVE Keep
  BY <1>3, <1>5 DEF RemoveAliveNode, Tick
<1>6. CASE Keep
  BY <1>6 DEF TypeInv, TypeOK
<1>7. ASSUME NEW r \in Ranks, JoinRendezvous(r)
      PROVE  /\ \A s \in Ranks : pc'[s] = "run" /\ pc[s] = "run" =>
                  UNCHANGED <<wround[s], world[s], inc[s]>>
             /\ \A s \in Ranks : pc'[s] = "run" => pc[s] = "run"
             /\ \A s \in rdzv : pc'[s] = "poll" /\ pc[s] # "poll" => rdzv' = {}
             /\ round' = round /\ (rdzv' = rdzv \/ rdzv' = {})
  <2>1. /\ \A s \in Ranks : pc'[s] = "run" => pc[s] = "run"
        /\ \A s \in Ranks : pc'[s] = "poll" /\ pc[s] # "poll" => s = r
        /\ UNCHANGED <<wround, world, inc>>
    BY <1>7 DEF JoinRendezvous, TypeInv, TypeOK
  <2>2. /\ round' = round /\ (rdzv' = rdzv \/ rdzv' = {})
        /\ r \in rdzv => rdzv' = {}
    BY <1>7 DEF JoinRendezvous, ManagerJoin, masterVars, SafetyInv,
       MembersDoNotWait
  <2>3. rdzv \subseteq Ranks
    BY DEF TypeInv, TypeOK
  <2>4. QED
    BY <2>1, <2>2, <2>3
<1>8. ASSUME NEW r \in Ranks, GetCommWorld(r)
      PROVE  /\ \A s \in Ranks : pc'[s] = "run" /\ pc[s] = "run" =>
                  UNCHANGED <<wround[s], world[s], inc[s]>>
             /\ \A s \in Ranks : pc'[s] = "run" /\ pc[s] # "run" =>
                  /\ pc[s] = "poll" /\ s \in rdzv'
                  /\ wround'[s] = round' /\ world'[s] = rdzv'
             /\ \A s \in Ranks : pc'[s] = "poll" => pc[s] = "poll"
             /\ \/ round' = round + 1 /\ rdzv = {} /\ rdzv' # {}
                \/ round' = round /\ rdzv' = rdzv
  <2>1. /\ pc[r] = "poll" /\ UNCHANGED inc
        /\ \/ /\ r \in rdzv'
              /\ pc' = [pc EXCEPT ![r] = "run"]
              /\ world' = [world EXCEPT ![r] = rdzv']
              /\ wround' = [wround EXCEPT ![r] = round']
           \/ UNCHANGED agentVars
    BY <1>8 DEF GetCommWorld
  <2>2. CASE rdzv = {} /\ RdzvCompleted
    <3>1. CompleteRound /\ params = JobParams
      BY <1>8, <2>2 DEF GetCommWorld, SafetyInv, ParamsReported
    <3>2. round' = round + 1 /\ Cardinality(rdzv') = WorldNum
      BY <3>1 DEF CompleteRound, IsLowest
    <3>3. Cardinality(rdzv') # 0
      BY <2>2, <3>1, <3>2, CompletedWorldSize, ParamsAssumption
    <3>4. rdzv' # {}
      BY <3>3, FS_EmptySet
    <3>5. QED
      BY <2>1, <2>2, <3>2, <3>4 DEF TypeInv, TypeOK, agentVars
  <2>3. CASE ~(rdzv = {} /\ RdzvCompleted)
    <3>1. UNCHANGED <<rdzv, round>>
      BY <1>8, <2>3 DEF GetCommWorld, masterVars
    <3>2. QED
      BY <2>1, <3>1 DEF TypeInv, TypeOK, agentVars
  <2>4. QED
    BY <2>2, <2>3
<1>9. CASE \E r \in Ranks : JoinRendezvous(r)
  BY <1>7, <1>9
<1>10. CASE \E r \in Ranks : GetCommWorld(r)
  <2>1. rdzv \subseteq Ranks
    BY DEF TypeInv, TypeOK
  <2>2. QED
    BY <1>8, <1>10, <2>1
<1>11. QED
  <2> HIDE DEF Keep
  <2>1. Keep \/ (\E r \in Ranks : JoinRendezvous(r))
             \/ (\E r \in Ranks : GetCommWorld(r))
    BY <1>1, <1>4, <1>5 DEF Next, AgentStep
  <2>2. QED
    BY <1>6, <1>9, <1>10, <2>1

\* The groups after a step of the rendezvous.
LEMMA GroupFollowsFacts ==
  ASSUME GroupFollows, NEW r \in Ranks
  PROVE  /\ pc'[r] = "run" /\ pc[r] = "run" => group'[r] = group[r]
         /\ pc'[r] = "run" /\ pc[r] # "run" =>
              /\ group'[r].order = order'
              /\ group'[r].at \in {"setaddr", "getaddr"}
              /\ group'[r].at = "setaddr" => order'[1].rank = r
BY DEF GroupFollows, NewGroup, NoGroup

LEMMA StoreShapeRdzv ==
  ASSUME StoreShape, GroupFollows, UNCHANGED kv PROVE StoreShape'
<1>1. \A r \in Ranks : group'[r] \in {group[r], NewGroup(r), NoGroup}
  BY DEF GroupFollows
<1>2. DOMAIN group' = Ranks /\ group' = [r \in Ranks |-> group'[r]]
  BY DEF GroupFollows
<1>3. ASSUME NEW r \in Ranks
      PROVE  group'[r] = [at |-> group'[r].at, order |-> group'[r].order,
                          addr |-> group'[r].addr, port |-> group'[r].port]
  BY <1>1 DEF StoreShape, NewGroup, NoGroup
<1>4. QED
  BY <1>2, <1>3 DEF StoreShape, Members

\* What the other agents keep.
LEMMA AgentFrame ==
  ASSUME NEW r \in Ranks, AgentStored(r), pc'[r] = pc[r], wround'[r] = wround[r],
         inc'[r] = inc[r], group'[r] = group[r],
         kv'[<<wround[r], "MASTER_ADDR">>] = kv[<<wround[r], "MASTER_ADDR">>],
         kv'[<<wround[r], "MASTER_PORT">>] = kv[<<wround[r], "MASTER_PORT">>]
  PROVE  AgentStored(r)'
<1>1. Addr(wround[r])' = Addr(wround[r]) /\ Port(wround[r])' = Port(wround[r])
  BY DEF Addr, Port
<1>2. First(r)' = First(r)
  BY DEF First
<1>3. PublishedBy(wround[r], First(r)) => PublishedBy(wround[r], First(r))'
  BY <1>1, <1>2 DEF PublishedBy
<1>4. Unpublished(wround[r]) => Unpublished(wround[r])'
  BY <1>1 DEF Unpublished
<1>5. QED
  BY <1>1, <1>2, <1>3, <1>4 DEF AgentStored

LEMMA MasterFrame ==
  ASSUME NEW r \in Ranks, MasterSeen(r), pc'[r] = pc[r], wround'[r] = wround[r],
         group'[r] = group[r]
  PROVE  MasterSeen(r)'
<1>1. First(r)' = First(r)
  BY DEF First
<1>2. QED
  BY <1>1 DEF MasterSeen

LEMMA RoundFrame ==
  ASSUME TypeInv, RoundPublished, UNCHANGED <<round, rdzv, order>>,
         \A r \in Ranks : pc'[r] = "poll" => pc[r] = "poll",
         \A k \in 0 .. MaxRound :
           /\ kv'[<<k, "MASTER_ADDR">>] = kv[<<k, "MASTER_ADDR">>]
           /\ kv'[<<k, "MASTER_PORT">>] = kv[<<k, "MASTER_PORT">>]
  PROVE  RoundPublished'
<1>1. rdzv \subseteq Ranks /\ round \in 0 .. MaxRound
  BY DEF TypeInv, TypeOK
<1>2. \A k \in 0 .. MaxRound : Unpublished(k) => Unpublished(k)'
  BY DEF Unpublished, Addr, Port
<1>3. ASSUME NEW f, PublishedBy(round, f) PROVE PublishedBy(round, f)'
  BY <1>1, <1>3 DEF PublishedBy, Addr, Port
<1>4. Unpublished(round) => Unpublished(round)'
  BY <1>1 DEF Unpublished, Addr, Port
<1>5. QED
  BY <1>1, <1>2, <1>3, <1>4 DEF RoundPublished

LEMMA StoreInvRdzv ==
  ASSUME TypeInv, SafetyInv, StoreInv, RendezvousStep
  PROVE  StoreInv'
<1> USE DEF StoreInv
<1>1. Next /\ OrderFollows /\ GroupFollows /\ UNCHANGED kv
  BY RendezvousStepIsNext DEF RendezvousStep
<1>2. /\ \A r \in Ranks : pc'[r] = "run" /\ pc[r] = "run" =>
           UNCHANGED <<wround[r], world[r], inc[r]>>
      /\ \A r \in Ranks : pc'[r] = "run" /\ pc[r] # "run" =>
           /\ pc[r] = "poll" /\ r \in rdzv'
           /\ wround'[r] = round' /\ world'[r] = rdzv'
      /\ \A r \in rdzv : pc'[r] = "poll" /\ pc[r] # "poll" => rdzv' = {}
      /\ \/ round' = round + 1 /\ rdzv = {} /\ rdzv' # {}
         \/ round' = round /\ rdzv' = rdzv
         \/ round' = round /\ rdzv' = {}
  BY <1>1, RendezvousFacts
<1>3. \A r \in Ranks :
        /\ pc'[r] = "run" /\ pc[r] = "run" => group'[r] = group[r]
        /\ pc'[r] = "run" /\ pc[r] # "run" =>
             /\ group'[r].order = order'
             /\ group'[r].at \in {"setaddr", "getaddr"}
             /\ group'[r].at = "setaddr" => order'[1].rank = r
  BY <1>1, GroupFollowsFacts
<1>4. rdzv # {} /\ rdzv' # {} => order' = order
  BY <1>1, Zenon DEF OrderFollows
<1>5. \A r \in Ranks : pc[r] = "run" => wround[r] <= round
  BY DEF SafetyInv, WorldsCurrent
<1>6. round \in Nat /\ round' \in 0 .. MaxRound
  BY <1>1, TypeInvNext DEF TypeInv, TypeOK
<1>7. \A r \in Ranks : wround[r] \in Nat
  BY DEF TypeInv, TypeOK
<1>8. OrderShared'
  <2>1. ASSUME NEW r \in Ranks, pc'[r] = "run", wround'[r] = round', rdzv' # {}
        PROVE  group'[r].order = order'
    <3>1. CASE pc[r] # "run"
      BY <1>3, <2>1, <3>1
    <3>2. CASE pc[r] = "run"
      <4>1. wround[r] = round' /\ wround[r] <= round /\ group'[r] = group[r]
        BY <1>2, <1>3, <1>5, <2>1, <3>2
      <4>2. round' = round /\ rdzv' = rdzv
        BY <1>2, <1>6, <2>1, <4>1
      <4>3. QED
        BY <1>4, <2>1, <3>2, <4>1, <4>2 DEF OrderShared
    <3>3. QED
      BY <3>1, <3>2
  <2>2. ASSUME NEW r \in Ranks, NEW s \in Ranks, pc'[r] = "run", pc'[s] = "run",
               wround'[r] = wround'[s]
        PROVE  group'[r].order = group'[s].order
    <3>1. CASE pc[r] # "run" \/ pc[s] # "run"
      BY <1>2, <2>1, <2>2, <3>1
    <3>2. CASE pc[r] = "run" /\ pc[s] = "run"
      BY <1>2, <1>3, <2>2, <3>2 DEF OrderShared
    <3>3. QED
      BY <3>1, <3>2
  <2>3. QED
    BY <2>1, <2>2 DEF OrderShared
<1>9. \A k \in 0 .. MaxRound : k > round' => Unpublished(k)
  BY <1>2, <1>6 DEF RoundPublished
<1>10. ASSUME NEW k \in 0 .. MaxRound, NEW f, Unpublished(k)
       PROVE  PublishedBy(k, f)
  BY <1>10, BoundsAssumption DEF PublishedBy, Unpublished
<1>11. ASSUME rdzv' # {}
       PROVE  /\ PublishedBy(round', order'[1].rank)
              /\ order'[1].rank \in rdzv' /\ pc'[order'[1].rank] = "poll" =>
                   Unpublished(round')
              /\ \A r \in Ranks : pc'[r] = "run" /\ pc[r] # "run"
                                  /\ order'[1].rank = r => Unpublished(round')
  <2>1. CASE round' = round + 1
    <3>1. Unpublished(round')
      BY <1>6, <2>1 DEF RoundPublished
    <3>2. QED
      BY <1>6, <1>10, <3>1
  <2>2. CASE round' = round /\ rdzv' = rdzv
    BY <1>2, <1>4, <1>11, <2>2 DEF RoundPublished
  <2>3. QED
    BY <1>2, <1>11, <2>1, <2>2
<1>12. RoundPublished'
  BY <1>1, <1>9, <1>11 DEF RoundPublished, PublishedBy, Unpublished, Addr, Port
<1>13. AgentPublished'
  <2> SUFFICES ASSUME NEW r \in Ranks, pc'[r] = "run" PROVE AgentStored(r)'
    BY DEF AgentPublished, AgentStored
  <2>1. CASE pc[r] = "run"
    BY <1>1, <1>2, <1>3, <2>1, AgentFrame DEF AgentPublished
  <2>2. CASE pc[r] # "run"
    <3>1. First(r)' = order'[1].rank /\ wround'[r] = round' /\ rdzv' # {}
      BY <1>2, <1>3, <2>2 DEF First
    <3>2. PublishedBy(wround'[r], First(r)')
      BY <1>11, <3>1
    <3>3. group'[r].at = "setaddr" => First(r)' = r /\ Unpublished(wround'[r])
      BY <1>3, <1>11, <2>2, <3>1
    <3>4. group'[r].at \in {"setaddr", "getaddr"}
      BY <1>3, <2>2
    <3>5. PublishedBy(wround[r], First(r))'
      BY <1>1, <3>2 DEF PublishedBy, Addr, Port
    <3>6. group'[r].at = "setaddr" => (First(r) = r /\ Unpublished(wround[r]))'
      BY <1>1, <3>3 DEF Unpublished, Addr, Port
    <3>7. QED
      BY <3>4, <3>5, <3>6 DEF AgentStored
  <2>3. QED
    BY <2>1, <2>2
<1>14. ASSUME NEW r \in Ranks PROVE MasterSeen(r)'
  <2>1. CASE pc[r] = "run" /\ pc'[r] = "run"
    BY <1>2, <1>3, <2>1, MasterFrame
  <2>2. CASE pc[r] # "run" \/ pc'[r] # "run"
    BY <1>3, <2>2 DEF MasterSeen
  <2>3. QED
    BY <2>1, <2>2
<1>15. StoreShape'
  BY <1>1, StoreShapeRdzv
<1>16. QED
  BY <1>8, <1>12, <1>13, <1>14, <1>15

-----------------------------------------------------------------------------
(* The address of the first node.                                          *)

\* The store and the groups after the steps of an agent.
Names == {"MASTER_ADDR", "MASTER_PORT", "members", "last"}

LEMMA KvUpdate ==
  ASSUME TypeInv, StoreShape, NEW r \in Ranks, NEW name \in Names, NEW value,
         KvSet(r, name, value)
  PROVE  /\ kv' = [k \in Keys |-> kv'[k]]
         /\ kv'[<<wround[r], name>>] = value
         /\ \A k \in 0 .. MaxRound, n \in Names :
              k # wround[r] \/ n # name => kv'[<<k, n>>] = kv[<<k, n>>]
<1>1. wround[r] \in 0 .. MaxRound
  BY DEF TypeInv, TypeOK
<1>2. kv = [k \in Keys |-> kv[k]]
  BY DEF StoreShape
<1>3. <<wround[r], name>> \in Keys
  BY <1>1 DEF Keys, Names
<1>4. kv' = [k \in Keys |-> kv'[k]]
  BY <1>2 DEF KvSet
<1>5. kv'[<<wround[r], name>>] = value
  BY <1>2, <1>3 DEF KvSet, StoreKey
<1>6. ASSUME NEW k \in 0 .. MaxRound, NEW n \in Names, k # wround[r] \/ n # name
      PROVE  kv'[<<k, n>>] = kv[<<k, n>>]
  <2>1. <<k, n>> \in Keys /\ <<k, n>> # <<wround[r], name>>
    BY <1>6 DEF Keys, Names
  <2>2. QED
    BY <1>2, <2>1 DEF KvSet, StoreKey
<1>7. QED
  BY <1>4, <1>5, <1>6

LEMMA GotoFacts ==
  ASSUME StoreShape, NEW r \in Ranks, NEW label, Goto(r, label)
  PROVE  /\ DOMAIN group' = Ranks
         /\ group' = [s \in Ranks |-> group'[s]]
         /\ \A s \in Ranks : s # r => group'[s] = group[s]
         /\ group'[r] = [at |-> label, order |-> group[r].order,
                         addr |-> group[r].addr, port |-> group[r].port]
<1>1. group' = [group EXCEPT ![r] = [group[r] EXCEPT !.at = label]]
  BY DEF Goto
<1>2. group[r] = [at |-> group[r].at, order |-> group[r].order,
                  addr |-> group[r].addr, port |-> group[r].port]
  BY DEF StoreShape
<1>3. [group[r] EXCEPT !.at = label] =
        [at |-> label, order |-> group[r].order,
         addr |-> group[r].addr, port |-> group[r].port]
  BY <1>2
<1>4. QED
  BY <1>1, <1>3 DEF StoreShape

\* What a step that leaves the rendezvous and the orders alone keeps.
LEMMA OrderFrame ==
  ASSUME OrderShared, UNCHANGED <<pc, wround, round, rdzv, order>>,
         \A s \in Ranks : group'[s].order = group[s].order
  PROVE  OrderShared'
BY DEF OrderShared

\* Steps after the address has been read, and those at the barrier, move the
\* program counter of one agent only.
LEMMA StoreInvMove ==
  ASSUME TypeInv, StoreInv, NEW r \in Ranks, pc[r] = "run",
         NEW label \in {"barrier", "last", "wait", "passed", "late"},
         Goto(r, label) \/ UNCHANGED group,
         UNCHANGED <<masterVars, inc, agentVars, order>>,
         kv' = [k \in Keys |-> kv'[k]],
         \A k \in 0 .. MaxRound :
           /\ Members(k)' \in Nat
           /\ Addr(k)' = Addr(k)
           /\ Port(k)' = Port(k)
  PROVE  StoreInv'
<1>1. /\ DOMAIN group' = Ranks
      /\ group' = [s \in Ranks |-> group'[s]]
      /\ \A s \in Ranks : s # r => group'[s] = group[s]
      /\ \/ group'[r] = group[r]
         \/ group'[r] = [at |-> label, order |-> group[r].order,
                         addr |-> group[r].addr, port |-> group[r].port]
  BY GotoFacts DEF StoreInv, StoreShape
<1>2. \A s \in Ranks : group'[s].order = group[s].order
  BY <1>1
<1>3. \A s \in Ranks : wround[s] \in 0 .. MaxRound
  BY DEF TypeInv, TypeOK
<1>4. round \in 0 .. MaxRound
  BY DEF TypeInv, TypeOK
<1> USE DEF StoreInv
<1>5. StoreShape'
  <2>1. ASSUME NEW s \in Ranks
        PROVE  group'[s] = [at |-> group'[s].at, order |-> group'[s].order,
                            addr |-> group'[s].addr, port |-> group'[s].port]
    <3>1. group[s] = [at |-> group[s].at, order |-> group[s].order,
                      addr |-> group[s].addr, port |-> group[s].port]
      BY DEF StoreShape
    <3>2. QED
      BY <1>1, <3>1
  <2>2. QED
    BY <1>1, <2>1 DEF StoreShape
<1>6. OrderShared'
  BY <1>2, OrderFrame DEF agentVars, masterVars
<1>7. \A k \in 0 .. MaxRound :
        /\ kv'[<<k, "MASTER_ADDR">>] = kv[<<k, "MASTER_ADDR">>]
        /\ kv'[<<k, "MASTER_PORT">>] = kv[<<k, "MASTER_PORT">>]
  BY DEF Addr, Port
<1>8. UNCHANGED <<pc, wround, round, rdzv, order, inc>>
  BY DEF agentVars, masterVars
<1>9. RoundPublished'
  BY <1>7, <1>8, RoundFrame
<1>10. ASSUME NEW s \in Ranks PROVE AgentStored(s)' /\ MasterSeen(s)'
  <2>1. CASE group'[s] = group[s]
    BY <1>3, <1>7, <1>8, <2>1, AgentFrame, MasterFrame DEF AgentPublished
  <2>2. CASE group'[s] # group[s]
    <3>1. s = r /\ group'[r].at = label /\ group'[r].order = group[r].order
      BY <1>1, <2>2
    <3>2. First(r)' = First(r)
      BY <3>1 DEF First
    <3>3. PublishedBy(wround[r], First(r))'
      <4>1. PublishedBy(wround[r], First(r))
        BY DEF AgentPublished, AgentStored
      <4>2. QED
        BY <1>3, <1>7, <1>8, <3>2, <4>1 DEF PublishedBy, Addr, Port
    <3>4. QED
      BY <3>1, <3>3 DEF AgentStored, MasterSeen
  <2>3. QED
    BY <2>1, <2>2
<1>11. QED
  BY <1>5, <1>6, <1>9, <1>10 DEF AgentPublished

\* An agent that stops takes its group with it.
LEMMA StoreInvLeave ==
  ASSUME TypeInv, StoreInv, NEW r \in Ranks, pc[r] = "run",
         NEW label,
         group' = [group EXCEPT ![r] = [NoGroup EXCEPT !.at = label]],
         ExitPod(r) \/ RestartWorkers(r),
         UNCHANGED <<masterVars, inc, order, kv>>
  PROVE  StoreInv'
<1>1. /\ pc'[r] \notin {"run", "poll"}
      /\ \A s \in Ranks : s # r =>
           UNCHANGED <<pc[s], world[s], wround[s], group[s]>>
  BY DEF ExitPod, RestartWorkers, TypeInv, TypeOK
<1> USE DEF StoreInv
<1>2. StoreShape'
  BY DEF StoreShape, NoGroup, Members
<1>3. OrderShared'
  BY <1>1 DEF OrderShared, masterVars
<1>4. RoundPublished'
  <2>1. \A s \in Ranks : pc'[s] = "poll" => pc[s] = "poll"
    BY <1>1
  <2>2. QED
    BY <2>1, RoundFrame DEF masterVars
<1>5. ASSUME NEW s \in Ranks PROVE AgentStored(s)' /\ MasterSeen(s)'
  <2>1. CASE s = r
    BY <1>1, <2>1 DEF AgentStored, MasterSeen
  <2>2. CASE s # r
    BY <1>1, <2>2, AgentFrame, MasterFrame DEF AgentPublished
  <2>3. QED
    BY <2>1, <2>2
<1>6. QED
  BY <1>2, <1>3, <1>4, <1>5 DEF AgentPublished

\* One of the two writes of _set_master_addr_port.  The other agents of the
\* round have the same first node, so that they neither publish themselves
\* nor have read an address that changes.
LEMMA StoreInvPublish ==
  ASSUME TypeInv, SafetyInv, StoreInv, NEW r \in Ranks, pc[r] = "run",
         First(r) = r,
         NEW name \in {"MASTER_ADDR", "MASTER_PORT"}, NEW value,
         KvSet(r, name, value),
         NEW label \in {"setport", "getaddr"}, Goto(r, label),
         UNCHANGED <<masterVars, inc, agentVars, order>>,
         PublishedBy(wround[r], r)',
         Addr(wround[r])' = Addr(wround[r]) \/ Addr(wround[r]) = Empty,
         label = "setport" =>
           Addr(wround[r])' = <<r, inc[r]>> /\ Port(wround[r])' = Empty
  PROVE  StoreInv'
<1> USE DEF StoreInv
<1>1. /\ DOMAIN group' = Ranks
      /\ group' = [s \in Ranks |-> group'[s]]
      /\ \A s \in Ranks : s # r => group'[s] = group[s]
      /\ group'[r] = [at |-> label, order |-> group[r].order,
                      addr |-> group[r].addr, port |-> group[r].port]
  BY GotoFacts
<1>2. /\ kv' = [k \in Keys |-> kv'[k]]
      /\ \A k \in 0 .. MaxRound, n \in Names :
           k # wround[r] \/ n # name => kv'[<<k, n>>] = kv[<<k, n>>]
  <2>1. name \in Names
    BY DEF Names
  <2>2. QED
    BY <2>1, KvUpdate
<1>3. \A k \in 0 .. MaxRound :
        /\ kv'[<<k, "members">>] = kv[<<k, "members">>]
        /\ k # wround[r] =>
             /\ kv'[<<k, "MASTER_ADDR">>] = kv[<<k, "MASTER_ADDR">>]
             /\ kv'[<<k, "MASTER_PORT">>] = kv[<<k, "MASTER_PORT">>]
  BY <1>2 DEF Names
<1>4. /\ \A s \in Ranks : wround[s] \in 0 .. MaxRound
      /\ round \in 0 .. MaxRound
      /\ wround[r] <= round
  BY DEF TypeInv, TypeOK, SafetyInv, WorldsCurrent
<1>5. \A s \in Ranks : group'[s].order = group[s].order
  BY <1>1
<1>6. UNCHANGED <<pc, wround, world, round, rdzv, order, inc>>
  BY DEF agentVars, masterVars
<1>7. \A s \in Ranks : pc[s] = "run" /\ wround[s] = wround[r] =>
        First(s) = r /\ First(s)' = r
  BY <1>5 DEF OrderShared, First
<1>8. wround[r] = round /\ rdzv # {} => order[1].rank = r
  BY DEF OrderShared, First
<1>9. StoreShape'
  <2>1. ASSUME NEW s \in Ranks
        PROVE  group'[s] = [at |-> group'[s].at, order |-> group'[s].order,
                            addr |-> group'[s].addr, port |-> group'[s].port]
    <3>1. group[s] = [at |-> group[s].at, order |-> group[s].order,
                      addr |-> group[s].addr, port |-> group[s].port]
      BY DEF StoreShape
    <3>2. QED
      BY <1>1, <3>1
  <2>2. QED
    BY <1>1, <1>2, <1>3, <2>1 DEF StoreShape, Members
<1>10. OrderShared'
  BY <1>5, <1>6, OrderFrame
<1>11. RoundPublished'
  <2>1. ASSUME NEW k \in 0 .. MaxRound, k > round
        PROVE  Unpublished(k)'
    <3>1. k # wround[r]
      BY <1>4, <2>1
    <3>2. /\ kv'[<<k, "MASTER_ADDR">>] = kv[<<k, "MASTER_ADDR">>]
          /\ kv'[<<k, "MASTER_PORT">>] = kv[<<k, "MASTER_PORT">>]
      BY <1>3, <3>1
    <3>3. Unpublished(k)
      BY <2>1 DEF RoundPublished
    <3>4. QED
      BY <3>2, <3>3 DEF Unpublished, Addr, Port
  <2>2. CASE wround[r] = round
    BY <1>6, <1>8, <2>1, <2>2 DEF RoundPublished
  <2>3. CASE wround[r] # round
    <3>1. /\ kv'[<<round, "MASTER_ADDR">>] = kv[<<round, "MASTER_ADDR">>]
          /\ kv'[<<round, "MASTER_PORT">>] = kv[<<round, "MASTER_PORT">>]
      BY <1>3, <1>4, <2>3
    <3>2. rdzv # {} => PublishedBy(round, order[1].rank)'
      BY <1>6, <3>1 DEF RoundPublished, PublishedBy, Addr, Port
    <3>3. Unpublished(round) => Unpublished(round)'
      BY <1>6, <3>1 DEF Unpublished, Addr, Port
    <3>4. QED
      BY <1>6, <2>1, <3>2, <3>3 DEF RoundPublished
  <2>4. QED
    BY <2>2, <2>3
<1>12. ASSUME NEW s \in Ranks PROVE AgentStored(s)'
  <2>1. CASE s = r
    <3>1. First(r)' = r
      BY <1>7
    <3>2. group'[r].at = label
      BY <1>1
    <3>3. inc'[r] = inc[r]
      BY <1>6
    <3>4. QED
      BY <2>1, <3>1, <3>2, <3>3 DEF AgentStored
  <2>2. CASE s # r /\ pc[s] = "run" /\ wround[s] = wround[r]
    <3>1. First(s) = r /\ group'[s] = group[s] /\ First(s)' = r
      BY <1>1, <1>7, <2>2
    <3>2. AgentStored(s)
      BY DEF AgentPublished
    <3>3. group[s].at \notin {"setaddr", "setport"}
      BY <2>2, <3>1, <3>2 DEF AgentStored
    <3>4. PublishedBy(wround[s], First(s))'
      BY <1>6, <2>2, <3>1
    <3>5. group[s].at = "getport" =>
            group[s].addr # Empty /\ group[s].addr = Addr(wround[s])'
      <4>1. group[s].at = "getport" =>
              group[s].addr # Empty /\ group[s].addr = Addr(wround[r])
        BY <2>2, <3>2 DEF AgentStored
      <4>2. Addr(wround[s])' = Addr(wround[r])'
        BY <1>6, <2>2
      <4>3. QED
        BY <4>1, <4>2
    <3>6. QED
      BY <3>1, <3>3, <3>4, <3>5 DEF AgentStored
  <2>3. CASE s # r /\ wround[s] # wround[r]
    <3>1. /\ group'[s] = group[s]
          /\ kv'[<<wround[s], "MASTER_ADDR">>] = kv[<<wround[s], "MASTER_ADDR">>]
          /\ kv'[<<wround[s], "MASTER_PORT">>] = kv[<<wround[s], "MASTER_PORT">>]
      BY <1>1, <1>3, <1>4, <2>3
    <3>2. QED
      BY <1>6, <3>1, AgentFrame DEF AgentPublished
  <2>4. CASE pc[s] # "run"
    BY <1>6, <2>4 DEF AgentStored
  <2>5. QED
    BY <2>1, <2>2, <2>3, <2>4
<1>13. ASSUME NEW s \in Ranks PROVE MasterSeen(s)'
  <2>1. CASE s = r
    BY <1>1, <2>1 DEF MasterSeen
  <2>2. CASE s # r
    BY <1>1, <1>6, <2>2, MasterFrame
  <2>3. QED
    BY <2>1, <2>2
<1>14. QED
  BY <1>9, <1>10, <1>11, <1>12, <1>13 DEF AgentPublished

LEMMA StoreInvSetAddr ==
  ASSUME TypeInv, SafetyInv, StoreInv, NEW r \in Ranks, SetMasterAddr(r)
  PROVE  StoreInv'
<1>1. /\ pc[r] = "run" /\ group[r].at = "setaddr" /\ Goto(r, "setport")
      /\ KvSet(r, "MASTER_ADDR", <<r, inc[r]>>)
      /\ UNCHANGED <<masterVars, inc, agentVars, order>>
  BY DEF SetMasterAddr, At, vars
<1>2. /\ First(r) = r /\ Unpublished(wround[r])
      /\ inc[r] \in 1 .. MaxIncarnation /\ wround[r] \in 0 .. MaxRound
  <2>1. AgentStored(r)
    BY DEF StoreInv, AgentPublished
  <2>2. First(r) = r /\ Unpublished(wround[r])
    BY <1>1, <2>1 DEF AgentStored
  <2>3. inc[r] \in 1 .. MaxIncarnation /\ wround[r] \in 0 .. MaxRound
    BY <1>1, BoundsAssumption DEF TypeInv, TypeOK, PodsNumbered
  <2>4. QED
    BY <2>2, <2>3
<1>3. /\ kv'[<<wround[r], "MASTER_ADDR">>] = <<r, inc[r]>>
      /\ \A k \in 0 .. MaxRound, n \in Names :
           k # wround[r] \/ n # "MASTER_ADDR" => kv'[<<k, n>>] = kv[<<k, n>>]
  <2>1. "MASTER_ADDR" \in Names
    BY DEF Names
  <2>2. StoreShape
    BY DEF StoreInv
  <2>3. KvSet(r, "MASTER_ADDR", <<r, inc[r]>>)
    BY <1>1
  <2>4. kv'[<<wround[r], "MASTER_ADDR">>] = <<r, inc[r]>>
    <3> DEFINE v == <<r, inc[r]>>
    <3>1. KvSet(r, "MASTER_ADDR", v)
      BY <2>3
    <3> HIDE DEF v
    <3>2. kv'[<<wround[r], "MASTER_ADDR">>] = v
      BY <2>1, <2>2, <3>1, KvUpdate
    <3>3. QED
      BY <3>2 DEF v
  <2>5. \A k \in 0 .. MaxRound, n \in Names :
          k # wround[r] \/ n # "MASTER_ADDR" => kv'[<<k, n>>] = kv[<<k, n>>]
    BY <2>1, <2>2, <2>3, KvUpdate, Zenon
  <2>6. QED
    BY <2>4, <2>5
<1>4. Addr(wround[r])' = <<r, inc[r]>> /\ Port(wround[r])' = Empty
  BY <1>1, <1>2, <1>3 DEF Names, Addr, Port, Unpublished, agentVars
<1>5. PublishedBy(wround[r], r)'
  BY <1>2, <1>4 DEF PublishedBy
<1>6. QED
  BY <1>1, <1>2, <1>4, <1>5, StoreInvPublish DEF Unpublished

LEMMA StoreInvSetPort ==
  ASSUME TypeInv, SafetyInv, StoreInv, NEW r \in Ranks, SetMasterPort(r)
  PROVE  StoreInv'
<1>1. /\ pc[r] = "run" /\ group[r].at = "setport" /\ Goto(r, "getaddr")
      /\ KvSet(r, "MASTER_PORT", <<r, inc[r], wround[r]>>)
      /\ UNCHANGED <<masterVars, inc, agentVars, order>>
  BY DEF SetMasterPort, At, vars
<1>2. /\ First(r) = r /\ Addr(wround[r]) = <<r, inc[r]>>
      /\ inc[r] \in 1 .. MaxIncarnation /\ wround[r] \in 0 .. MaxRound
  <2>1. AgentStored(r)
    BY DEF StoreInv, AgentPublished
  <2>2. First(r) = r /\ Addr(wround[r]) = <<r, inc[r]>>
    BY <1>1, <2>1 DEF AgentStored
  <2>3. inc[r] \in 1 .. MaxIncarnation /\ wround[r] \in 0 .. MaxRound
    BY <1>1, BoundsAssumption DEF TypeInv, TypeOK, PodsNumbered
  <2>4. QED
    BY <2>2, <2>3
<1>3. /\ kv'[<<wround[r], "MASTER_PORT">>] = <<r, inc[r], wround[r]>>
      /\ \A k \in 0 .. MaxRound, n \in Names :
           k # wround[r] \/ n # "MASTER_PORT" => kv'[<<k, n>>] = kv[<<k, n>>]
  <2>1. "MASTER_PORT" \in Names
    BY DEF Names
  <2>2. StoreShape
    BY DEF StoreInv
  <2>3. KvSet(r, "MASTER_PORT", <<r, inc[r], wround[r]>>)
    BY <1>1
  <2>4. kv'[<<wround[r], "MASTER_PORT">>] = <<r, inc[r], wround[r]>>
    <3> DEFINE v == <<r, inc[r], wround[r]>>
    <3>1. KvSet(r, "MASTER_PORT", v)
      BY <2>3
    <3> HIDE DEF v
    <3>2. kv'[<<wround[r], "MASTER_PORT">>] = v
      BY <2>1, <2>2, <3>1, KvUpdate
    <3>3. QED
      BY <3>2 DEF v
  <2>5. \A k \in 0 .. MaxRound, n \in Names :
          k # wround[r] \/ n # "MASTER_PORT" => kv'[<<k, n>>] = kv[<<k, n>>]
    BY <2>1, <2>2, <2>3, KvUpdate, Zenon
  <2>6. QED
    BY <2>4, <2>5
<1>4. /\ Addr(wround[r])' = <<r, inc[r]>>
      /\ Port(wround[r])' = <<r, inc[r], wround'[r]>>
  BY <1>1, <1>2, <1>3 DEF Names, Addr, Port, agentVars
<1>5. PublishedBy(wround[r], r)'
  BY <1>2, <1>4 DEF PublishedBy
<1>6. QED
  BY <1>1, <1>2, <1>4, <1>5, StoreInvPublish

\* The two reads of _get_master_addr_port.
LEMMA GetFacts ==
  ASSUME StoreShape, NEW r \in Ranks, GetMasterAddr(r) \/ GetMasterPort(r)
  PROVE  /\ \A s \in Ranks : s # r => group'[s] = group[s]
         /\ DOMAIN group' = Ranks /\ group' = [s \in Ranks |-> group'[s]]
         /\ group'[r] = [at |-> group'[r].at, order |-> group[r].order,
                         addr |-> group'[r].addr, port |-> group'[r].port]
         /\ \/ /\ group'[r].at = "getport" /\ Addr(wround[r]) # Empty
               /\ group'[r].addr = Addr(wround[r])
            \/ /\ group[r].at = "getport" /\ Port(wround[r]) # Empty
               /\ group'[r].at = "train"
               /\ group'[r].addr = group[r].addr
               /\ group'[r].port = Port(wround[r])
<1>0. group[r] = [at |-> group[r].at, order |-> group[r].order,
                  addr |-> group[r].addr, port |-> group[r].port]
  BY DEF StoreShape
<1>1. CASE GetMasterAddr(r)
  <2> DEFINE a == [group[r] EXCEPT !.at = "getport"]
  <2>1. a = [at |-> "getport", order |-> group[r].order,
             addr |-> group[r].addr, port |-> group[r].port]
    BY <1>0
  <2>2. /\ \A s \in Ranks : s # r => group'[s] = group[s]
        /\ DOMAIN group' = Ranks /\ group' = [s \in Ranks |-> group'[s]]
        /\ group'[r] = [a EXCEPT !.addr = Addr(wround[r])]
    BY <1>1 DEF GetMasterAddr, StoreShape, Addr, StoreKey
  <2> HIDE DEF a
  <2>3. group'[r] = [at |-> "getport", order |-> group[r].order,
                     addr |-> Addr(wround[r]), port |-> group[r].port]
    BY <2>1, <2>2
  <2>4. Addr(wround[r]) # Empty
    BY <1>1 DEF GetMasterAddr, KvHas, Addr, StoreKey
  <2>5. /\ group'[r].at = "getport"
        /\ group'[r].addr = Addr(wround[r])
    BY <2>3
  <2>6. group'[r] = [at |-> group'[r].at, order |-> group[r].order,
                     addr |-> group'[r].addr, port |-> group'[r].port]
    BY <2>3
  <2>7. QED
    BY <2>2, <2>4, <2>5, <2>6, Zenon
<1>2. CASE GetMasterPort(r)
  <2> DEFINE a == [group[r] EXCEPT !.at = "train"]
  <2>1. a = [at |-> "train", order |-> group[r].order,
             addr |-> group[r].addr, port |-> group[r].port]
    BY <1>0
  <2>2. /\ \A s \in Ranks : s # r => group'[s] = group[s]
        /\ DOMAIN group' = Ranks /\ group' = [s \in Ranks |-> group'[s]]
        /\ group'[r] = [a EXCEPT !.port = Port(wround[r])]
    BY <1>2 DEF GetMasterPort, StoreShape, Port, StoreKey
  <2> HIDE DEF a
  <2>3. group'[r] = [at |-> "train", order |-> group[r].order,
                     addr |-> group[r].addr, port |-> Port(wround[r])]
    BY <2>1, <2>2
  <2>4. group[r].at = "getport" /\ Port(wround[r]) # Empty
    BY <1>2 DEF GetMasterPort, At, KvHas, Port, StoreKey
  <2>5. /\ group'[r].at = "train"
        /\ group'[r].addr = group[r].addr /\ group'[r].port = Port(wround[r])
    BY <2>3
  <2>6. group'[r] = [at |-> group'[r].at, order |-> group[r].order,
                     addr |-> group'[r].addr, port |-> group'[r].port]
    BY <2>3
  <2>7. QED
    BY <2>2, <2>4, <2>5, <2>6, Zenon
<1>3. QED
  BY <1>1, <1>2

LEMMA StoreInvGet ==
  ASSUME TypeInv, StoreInv, NEW r \in Ranks, GetMasterAddr(r) \/ GetMasterPort(r)
  PROVE  StoreInv'
<1>2. pc[r] = "run" /\ UNCHANGED <<masterVars, inc, agentVars, order, kv>>
  BY DEF GetMasterAddr, GetMasterPort, At, vars
<1>3. /\ \A s \in Ranks : s # r => group'[s] = group[s]
      /\ DOMAIN group' = Ranks /\ group' = [s \in Ranks |-> group'[s]]
      /\ group'[r] = [at |-> group'[r].at, order |-> group[r].order,
                      addr |-> group'[r].addr, port |-> group'[r].port]
      /\ \/ /\ group'[r].at = "getport" /\ Addr(wround[r]) # Empty
            /\ group'[r].addr = Addr(wround[r])
         \/ /\ group[r].at = "getport" /\ Port(wround[r]) # Empty
            /\ group'[r].at = "train"
            /\ group'[r].addr = group[r].addr
            /\ group'[r].port = Port(wround[r])
  BY GetFacts DEF StoreInv
<1>4. UNCHANGED <<pc, wround, world, round, rdzv, order, inc, kv>>
  BY <1>2 DEF agentVars, masterVars
<1>5. \A s \in Ranks : group'[s].order = group[s].order
  BY <1>3
<1>6. StoreShape'
  <2>1. ASSUME NEW s \in Ranks
        PROVE  group'[s] = [at |-> group'[s].at, order |-> group'[s].order,
                            addr |-> group'[s].addr, port |-> group'[s].port]
    BY <1>3 DEF StoreInv, StoreShape
  <2>2. QED
    BY <1>3, <1>4, <2>1 DEF StoreInv, StoreShape, Members
<1>7. OrderShared'
  BY <1>4, <1>5, OrderFrame DEF StoreInv
<1>8. RoundPublished'
  BY <1>4, RoundFrame DEF StoreInv
<1>9. PICK i \in 1 .. MaxIncarnation :
        /\ Addr(wround[r]) \in {Empty, <<First(r), i>>}
        /\ Port(wround[r]) \in {Empty, <<First(r), i, wround[r]>>}
  BY <1>2 DEF StoreInv, AgentPublished, AgentStored, PublishedBy
<1>10. group[r].at = "getport" =>
         group[r].addr # Empty /\ group[r].addr = Addr(wround[r])
  BY <1>2 DEF StoreInv, AgentPublished, AgentStored
<1>11. AgentStored(r)'
  <2>1. First(r)' = First(r)
    BY <1>5 DEF First
  <2>2. PublishedBy(wround[r], First(r))'
    BY <1>4, <1>9, <2>1 DEF PublishedBy, Addr, Port
  <2>3. Addr(wround[r])' = Addr(wround[r])
    BY <1>4 DEF Addr
  <2>4. \/ /\ group'[r].at = "getport" /\ Addr(wround[r]) # Empty
           /\ group'[r].addr = Addr(wround[r])
        \/ group'[r].at = "train"
    BY <1>3
  <2>5. QED
    BY <2>2, <2>3, <2>4 DEF AgentStored
<1>12. MasterSeen(r)'
  <2>1. First(r)' = First(r)
    BY <1>5 DEF First
  <2>2. CASE group'[r].at = "getport"
    BY <2>2 DEF MasterSeen
  <2>3. CASE group'[r].at # "getport"
    <3>1. /\ group[r].at = "getport" /\ Port(wround[r]) # Empty
          /\ group'[r].addr = group[r].addr
          /\ group'[r].port = Port(wround[r])
      BY <1>3, <2>3
    <3>2. group[r].addr # Empty /\ group[r].addr = Addr(wround[r])
      BY <1>10, <3>1
    <3>3. /\ Addr(wround[r]) = <<First(r), i>>
          /\ Port(wround[r]) = <<First(r), i, wround[r]>>
      BY <1>9, <3>1, <3>2, Zenon
    <3>4. QED
      BY <1>4, <2>1, <3>1, <3>2, <3>3 DEF MasterSeen
  <2>4. QED
    BY <2>2, <2>3
<1>13. ASSUME NEW s \in Ranks, s # r PROVE AgentStored(s)' /\ MasterSeen(s)'
  BY <1>3, <1>4, <1>13, AgentFrame, MasterFrame DEF StoreInv, AgentPublished
<1>14. QED
  BY <1>6, <1>7, <1>8, <1>11, <1>12, <1>13 DEF StoreInv, AgentPublished

LEMMA StoreInvNext ==
  TypeInv /\ SafetyInv /\ StoreInv /\ [WgNext]_wgVars => StoreInv'
<1> SUFFICES ASSUME TypeInv, SafetyInv, StoreInv, [WgNext]_wgVars
             PROVE  StoreInv'
  OBVIOUS
<1>1. CASE RendezvousStep
  BY <1>1, StoreInvRdzv
<1>2. ASSUME NEW r \in Ranks, SetMasterAddr(r) \/ SetMasterPort(r)
      PROVE  StoreInv'
  BY <1>2, StoreInvSetAddr, StoreInvSetPort
<1>3. ASSUME NEW r \in Ranks, GetMasterAddr(r) \/ GetMasterPort(r)
      PROVE  StoreInv'
  BY <1>3, StoreInvGet
<1>4. ASSUME NEW r \in Ranks, StoreTimeout(r) PROVE StoreInv'
  <2>1. NoGroup = [NoGroup EXCEPT !.at = "none"]
    BY DEF NoGroup
  <2>2. /\ pc[r] = "run" /\ UNCHANGED <<masterVars, inc, order, kv>>
        /\ ExitPod(r) \/ RestartWorkers(r)
        /\ group' = [group EXCEPT ![r] = NoGroup]
    BY <1>4 DEF StoreTimeout, At
  <2>3. QED
    BY <2>1, <2>2, StoreInvLeave
<1>5. ASSUME NEW r \in Ranks, AgentSucceeds(r) PROVE StoreInv'
  BY <1>5, StoreInvLeave DEF AgentSucceeds, At
<1>6. ASSUME NEW r \in Ranks,
             WorkersSucceed(r) \/ BarrierPass(r) \/ BarrierTimeout(r)
      PROVE  StoreInv'
  <2>1. /\ pc[r] = "run" /\ UNCHANGED <<masterVars, inc, agentVars, order, kv>>
        /\ Goto(r, "barrier") \/ Goto(r, "passed") \/ Goto(r, "late")
    BY <1>6 DEF WorkersSucceed, BarrierPass, BarrierTimeout, At, vars
  <2>2. /\ kv' = [k \in Keys |-> kv'[k]]
        /\ \A k \in 0 .. MaxRound :
             Members(k)' \in Nat /\ Addr(k)' = Addr(k) /\ Port(k)' = Port(k)
    BY <2>1 DEF StoreInv, StoreShape, Members, Addr, Port
  <2>3. QED
    BY <2>1, <2>2, StoreInvMove
<1>7. ASSUME NEW r \in Ranks, BarrierAdd(r) PROVE StoreInv'
  <2>1. /\ pc[r] = "run" /\ UNCHANGED <<masterVars, inc, agentVars, order>>
        /\ KvSet(r, "members", kv[StoreKey(r, "members")] + 1)
        /\ Goto(r, "last") \/ Goto(r, "wait") \/ UNCHANGED group
    BY <1>7 DEF BarrierAdd, At, KvSet, vars
  <2>2. /\ kv' = [k \in Keys |-> kv'[k]]
        /\ kv'[<<wround[r], "members">>] = kv[StoreKey(r, "members")] + 1
        /\ \A k \in 0 .. MaxRound, n \in Names :
             k # wround[r] \/ n # "members" => kv'[<<k, n>>] = kv[<<k, n>>]
    <3>1. "members" \in Names /\ StoreShape
      BY DEF Names, StoreInv
    <3>2. QED
      BY <2>1, <3>1, KvUpdate
  <2>3. \A k \in 0 .. MaxRound :
          Members(k)' \in Nat /\ Addr(k)' = Addr(k) /\ Port(k)' = Port(k)
    <3>1. \A k \in 0 .. MaxRound : kv[<<k, "members">>] \in Nat
      BY DEF StoreInv, StoreShape, Members
    <3>2. wround[r] \in 0 .. MaxRound
      BY DEF TypeInv, TypeOK
    <3>3. kv[StoreKey(r, "members")] \in Nat
      BY <3>1, <3>2 DEF StoreKey
    <3>4. ASSUME NEW k \in 0 .. MaxRound
          PROVE  /\ kv'[<<k, "members">>] \in Nat
                 /\ kv'[<<k, "MASTER_ADDR">>] = kv[<<k, "MASTER_ADDR">>]
                 /\ kv'[<<k, "MASTER_PORT">>] = kv[<<k, "MASTER_PORT">>]
      <4>1. {"members", "MASTER_ADDR", "MASTER_PORT"} \subseteq Names
        BY DEF Names
      <4>2. QED
        BY <2>2, <3>1, <3>3, <4>1
    <3>5. QED
      BY <3>4 DEF Members, Addr, Port
  <2>4. QED
    BY <2>1, <2>2, <2>3, StoreInvMove
<1>8. ASSUME NEW r \in Ranks, BarrierLast(r) PROVE StoreInv'
  <2>1. /\ pc[r] = "run" /\ UNCHANGED <<masterVars, inc, agentVars, order>>
        /\ KvSet(r, "last", <<"val_ignored">>)
        /\ Goto(r, "wait")
    BY <1>8 DEF BarrierLast, At, vars
  <2>2. /\ kv' = [k \in Keys |-> kv'[k]]
        /\ \A k \in 0 .. MaxRound, n \in Names :
             k # wround[r] \/ n # "last" => kv'[<<k, n>>] = kv[<<k, n>>]
    <3>1. "last" \in Names /\ StoreShape
      BY DEF Names, StoreInv
    <3>2. QED
      BY <2>1, <3>1, KvUpdate
  <2>3. \A k \in 0 .. MaxRound :
          Members(k)' \in Nat /\ Addr(k)' = Addr(k) /\ Port(k)' = Port(k)
    BY <2>2 DEF StoreInv, StoreShape, Members, Addr, Port, Names
  <2>4. QED
    BY <2>1, <2>2, <2>3, StoreInvMove
<1>9. CASE UNCHANGED wgVars
  <2>1. UNCHANGED <<pc, wround, round, rdzv, inc, order, group, kv>>
    BY <1>9 DEF wgVars, vars, groupVars, masterVars, agentVars
  <2>2. StoreShape'
    BY <2>1 DEF StoreInv, StoreShape, Members
  <2>3. OrderShared'
    BY <2>1, OrderFrame DEF StoreInv
  <2>4. RoundPublished'
    BY <2>1, RoundFrame DEF StoreInv
  <2>5. ASSUME NEW s \in Ranks PROVE AgentStored(s)' /\ MasterSeen(s)'
    BY <2>1, AgentFrame, MasterFrame DEF StoreInv, AgentPublished
  <2>6. QED
    BY <2>2, <2>3, <2>4, <2>5 DEF StoreInv, AgentPublished
<1>10. QED
  BY <1>1, <1>2, <1>3, <1>4, <1>5, <1>6, <1>7, <1>8, <1>9
     DEF WgNext, GroupStep

LEMMA StoreInvInit == WgInit => StoreInv
<1> SUFFICES ASSUME WgInit PROVE StoreInv
  OBVIOUS
<1>1. StoreShape
  BY DEF WgInit, StoreShape, Members, Keys, NoGroup
<1>2. \A k \in 0 .. MaxRound : Unpublished(k)
  BY DEF WgInit, Unpublished, Addr, Port, Keys
<1>3. rdzv = {} /\ \A r \in Ranks : pc[r] = "off"
  BY DEF WgInit, Init
<1>4. QED
  BY <1>1, <1>2, <1>3 DEF StoreInv, OrderShared, RoundPublished,
     AgentPublished, AgentStored, MasterSeen

\* Every agent that trains uses the address and the port that one pod of the
\* first node of its world published in the agent's own round, for any number
\* of nodes, relaunches, rounds and faults.
THEOREM OneMaster == WgSpec => []SameMaster
<1>1. WgInit => TypeInv /\ SafetyInv
  BY TypeInvInit, SafetyInvInit DEF WgInit
<1>2. StoreInv => SameMaster
  BY DEF StoreInv, MasterSeen, SameMaster, At, First
<1>3. QED
  BY <1>1, <1>2, StoreInvInit, StoreInvNext, RdzvInvWgNext, PTL DEF WgSpec
=============================================================================
