----------------------------- MODULE WorkerGroup -----------------------------
(***************************************************************************)
(* From a completed round of the rendezvous to a worker group and its end. *)
(* The master sorts the world by access switches (DpTopologySorter), the   *)
(* agents number their workers (_assign_worker_ranks), exchange the        *)
(* address of the first node through the key-value store of the master     *)
(* (MasterKVStore, KVStoreService) and, when their workers have succeeded, *)
(* wait for each other at the exit barrier.                                *)
(*                                                                         *)
(* The module composes with Rendezvous: a step of the rendezvous resets    *)
(* the group of every agent that leaves its round.                         *)
(***************************************************************************)
EXTENDS Rendezvous, Sequences

CONSTANTS
  Asw,        \* the access switch of each pod
  Procs,      \* the training processes of each node
  MaxErrors   \* max_errors of _initialize_workers

ASSUME WorkerGroupAssumption ==
  /\ DOMAIN Asw = Ranks \X (1 .. MaxIncarnation)
  /\ Procs \in [Ranks -> Nat \ {0}]
  /\ MaxErrors \in Nat \ {0}

VARIABLES
  order,    \* _rdzv_nodes as the sorted dict that get_comm_world returns
  group,    \* the worker group of each agent
  errs,     \* err_cnt of _initialize_workers
  kv,       \* KVStoreService._store
  reached   \* the rounds in which an agent has reached the exit barrier

groupVars == <<order, group, errs, kv, reached>>
wgVars == <<vars, groupVars>>

Empty == <<>>
Keys == (0 .. MaxRound) \X {"MASTER_ADDR", "MASTER_PORT", "members", "last"}

\* Mutant: the keys of all rounds are the same.
StoreKeyAnyRound(r, name) == <<1, name>>

\* _get_store: the keys of an agent are prefixed with its round.
StoreKey(r, name) == <<wround[r], name>>

NoGroup == [at |-> "none", order |-> Empty, addr |-> Empty, port |-> Empty]

WgInit ==
  /\ Init
  /\ order = Empty
  /\ group = [r \in Ranks |-> NoGroup]
  /\ errs = [r \in Ranks |-> 0]
  /\ kv = [k \in Keys |-> IF k[2] = "members" THEN 0 ELSE Empty]
  /\ reached = {}

-----------------------------------------------------------------------------
(* Pure functions of the world.                                            *)

\* The waiting entries of the ranks S, lowest rank first.
Entries(S) == [i \in 1 .. Cardinality(S) |->
  LET r == CHOOSE x \in S : Cardinality({y \in S : y < x}) = i - 1
  IN  [rank |-> r, asw |-> Asw[<<r, waiting[r]>>]]]

\* DpTopologySorter.sort: the nodes of each switch together, the switches in
\* the order in which the world first names them, that of rank 0 before all.
TopologySort(nodes) ==
  LET asw0 == nodes[1].asw
      under(a) == SelectSeq(nodes, LAMBDA n : n.asw = a)
      isNew(i) == \A j \in 1 .. i - 1 : nodes[j].asw # nodes[i].asw
      sorted[i \in 0 .. Len(nodes)] ==
        IF i = 0 THEN under(asw0)
        ELSE sorted[i - 1] \o IF nodes[i].asw # asw0 /\ isNew(i)
                              THEN under(nodes[i].asw) ELSE <<>>
  IN  sorted[Len(nodes)]

\* The sorted dict: ranks in its order, with their switches.
SortedWorld(S) == TopologySort(Entries(S))

GroupRank(r) == CHOOSE i \in DOMAIN group[r].order : group[r].order[i].rank = r

ProcsOf(nodes) ==
  LET sum[i \in 0 .. Len(nodes)] ==
        IF i = 0 THEN 0 ELSE sum[i - 1] + Procs[nodes[i].rank]
  IN  sum[Len(nodes)]

\* Mutant: the workers of the agent itself are counted in the prefix.
GetRanksInclusive(nodes, idx) ==
  LET first == ProcsOf(SubSeq(nodes, 1, idx))
  IN  first .. first + Procs[nodes[idx].rank] - 1

\* _get_ranks: the global ranks of the workers of the idx-th node.  All nodes
\* have one role, so that the role ranks are the same.
GetRanks(nodes, idx) ==
  LET first == ProcsOf(SubSeq(nodes, 1, idx - 1))
  IN  first .. first + Procs[nodes[idx].rank] - 1

GlobalRanks(r) == GetRanks(group[r].order, GroupRank(r))

-----------------------------------------------------------------------------
(* The steps of the rendezvous.                                            *)

\* get_comm_world sorts the world it completes; a join unpublishes it.
OrderFollows ==
  order' = CASE rdzv' = {} -> Empty
             [] rdzv = {} /\ rdzv' # {} -> SortedWorld(rdzv')
             [] OTHER -> order

\* _rendezvous: the first node publishes its address, all read it.
NewGroup(r) ==
  [at |-> IF order'[1].rank = r THEN "setaddr" ELSE "getaddr",
   order |-> order', addr |-> Empty, port |-> Empty]

GroupFollows ==
  group' = [r \in Ranks |->
    CASE pc'[r] = "run" /\ pc[r] = "run" -> group[r]
      [] pc'[r] = "run" /\ pc[r] # "run" -> NewGroup(r)
      [] pc'[r] # "run" /\ group[r].at = "succeeded" -> group[r]
      [] OTHER -> NoGroup]

\* An agent in its loop of _invoke_run.
Training(r) == group[r].at = "train"

\* A pod that succeeded is not relaunched, and an agent that starts its
\* workers or waits at the barrier does not monitor them.
RendezvousStep ==
  /\ \/ \E r \in Ranks :
          \/ group[r].at # "succeeded" /\ LaunchPod(r)
          \/ ReportRdzvParams(r)
          \/ JoinRendezvous(r)
          \/ GetCommWorld(r)
          \/ PendTimeout(r)
          \/ JoinTimeout(r)
          \/ Training(r) /\ MonitorMembership(r)
          \/ Training(r) /\ WorkersFail(r)
          \/ Training(r) /\ ProcessFail(r)
          \/ Crash(r)
     \/ \E n \in exited : RemoveAliveNode(n)
     \/ Tick
  /\ OrderFollows /\ GroupFollows
  /\ errs' = [r \in Ranks |-> IF pc'[r] \in {"off", "new"} THEN 0 ELSE errs[r]]
  /\ UNCHANGED <<kv, reached>>

-----------------------------------------------------------------------------
(* The key-value store.  A set that is sent twice stores the same value.   *)

KvSet(r, name, value) == kv' = [kv EXCEPT ![StoreKey(r, name)] = value]

\* The answer is empty until the key is there, and the client asks again.
KvHas(r, name) == kv[StoreKey(r, name)] # Empty

At(r, label) == pc[r] = "run" /\ group[r].at = label
Goto(r, label) == group' = [group EXCEPT ![r].at = label]

\* _set_master_addr_port: two keys.  A port is chosen for each round.
SetMasterAddr(r) ==
  /\ At(r, "setaddr")
  /\ KvSet(r, "MASTER_ADDR", <<r, inc[r]>>)
  /\ Goto(r, "setport")
  /\ UNCHANGED <<vars, order, errs, reached>>

SetMasterPort(r) ==
  /\ At(r, "setport")
  /\ KvSet(r, "MASTER_PORT", <<r, inc[r], wround[r]>>)
  /\ Goto(r, "getaddr")
  /\ UNCHANGED <<vars, order, errs, reached>>

\* _get_master_addr_port, also by the first node.
GetMasterAddr(r) ==
  /\ At(r, "getaddr") /\ KvHas(r, "MASTER_ADDR")
  /\ group' = [group EXCEPT ![r].at = "getport",
                            ![r].addr = kv[StoreKey(r, "MASTER_ADDR")]]
  /\ UNCHANGED <<vars, order, errs, kv, reached>>

GetMasterPort(r) ==
  /\ At(r, "getport") /\ KvHas(r, "MASTER_PORT")
  /\ group' = [group EXCEPT ![r].at = "train",
                            ![r].port = kv[StoreKey(r, "MASTER_PORT")]]
  /\ errs' = [errs EXCEPT ![r] = 0]
  /\ UNCHANGED <<vars, order, kv, reached>>

\* _safe_get_master_addr_port gives up: _initialize_workers starts over with
\* a rendezvous, or raises after max_errors such errors.
StoreTimeout(r) ==
  /\ \/ At(r, "getaddr") /\ ~KvHas(r, "MASTER_ADDR")
     \/ At(r, "getport") /\ ~KvHas(r, "MASTER_PORT")
  /\ IF errs[r] + 1 < MaxErrors
     THEN /\ RestartWorkers(r) /\ UNCHANGED exited
          /\ errs' = [errs EXCEPT ![r] = @ + 1]
     ELSE ExitPod(r) /\ errs' = [errs EXCEPT ![r] = 0]
  /\ group' = [group EXCEPT ![r] = NoGroup]
  /\ UNCHANGED <<masterVars, alive, inc, faults, order, kv, reached>>

-----------------------------------------------------------------------------
(* The exit barrier of torch's store_util, on this store (external).       *)

\* The workers of r have finished, as do all workers of a world.
WorkersSucceed(r) ==
  /\ At(r, "train")
  /\ \A p \in world[r] :
       \/ <<wround[r], p>> \in reached
       \/ /\ pc[p] = "run" /\ wround[p] = wround[r]
          /\ group[p].at \in {"train", "barrier"}
  /\ Goto(r, "barrier")
  /\ UNCHANGED <<vars, order, errs, kv, reached>>

\* Mutant: the barrier waits for the other agents only.
BarrierSizeOthers(r) == Cardinality(world[r]) - 1

\* group_world_size of the worker group: len(world).
BarrierSize(r) == Cardinality(world[r])

\* store.add, which KVStoreService executes under its lock: who counts the
\* last member in tells the others.  When the reply is lost the client sends
\* the call again.
BarrierAdd(r) ==
  /\ At(r, "barrier")
  /\ kv' = [kv EXCEPT ![StoreKey(r, "members")] = @ + 1]
  /\ reached' = reached \cup {<<wround[r], r>>}
  /\ \/ /\ Goto(r, IF kv'[StoreKey(r, "members")] = BarrierSize(r)
                   THEN "last" ELSE "wait")
        /\ UNCHANGED vars
     \/ /\ faults < MaxFaults
        /\ faults' = faults + 1
        /\ UNCHANGED <<masterVars, alive, inc, agentVars, exited, group>>
  /\ UNCHANGED <<order, errs>>

BarrierLast(r) ==
  /\ At(r, "last")
  /\ KvSet(r, "last", <<"val_ignored">>)
  /\ Goto(r, "wait")
  /\ UNCHANGED <<vars, order, errs, reached>>

BarrierPass(r) ==
  /\ At(r, "wait") /\ KvHas(r, "last")
  /\ Goto(r, "passed")
  /\ UNCHANGED <<vars, order, errs, kv, reached>>

\* _dlrover_exit_barrier: the agent goes on when the barrier times out.
BarrierTimeout(r) ==
  /\ At(r, "wait")
  /\ Goto(r, "late")
  /\ UNCHANGED <<vars, order, errs, kv, reached>>

\* report_succeeded_exited and the end of the agent.
AgentSucceeds(r) ==
  /\ At(r, "passed") \/ At(r, "late")
  /\ ExitPod(r)
  /\ group' = [group EXCEPT ![r] = [NoGroup EXCEPT !.at = "succeeded"]]
  /\ UNCHANGED <<masterVars, alive, inc, faults, order, errs, kv, reached>>

-----------------------------------------------------------------------------
GroupStep(r) ==
  \/ SetMasterAddr(r) \/ SetMasterPort(r)
  \/ GetMasterAddr(r) \/ GetMasterPort(r) \/ StoreTimeout(r)
  \/ WorkersSucceed(r) \/ BarrierAdd(r) \/ BarrierLast(r)
  \/ BarrierPass(r) \/ BarrierTimeout(r) \/ AgentSucceeds(r)

WgNext == RendezvousStep \/ \E r \in Ranks : GroupStep(r)

WgSpec == WgInit /\ [][WgNext]_wgVars

-----------------------------------------------------------------------------
(* Properties.                                                             *)

\* An agent that trains uses the address and the port that one pod of the
\* first node of its world published in its own round, never the port of an
\* earlier round or half of a later one, however crashes, restarts and the
\* two writes of _set_master_addr_port interleave with the reads.
SameMaster ==
  \A r \in Ranks : At(r, "train") =>
    LET first == group[r].order[1].rank
    IN  \E i \in 1 .. MaxIncarnation :
          /\ group[r].addr = <<first, i>>
          /\ group[r].port = <<first, i, wround[r]>>

\* When all agents of a world train, their workers have the ranks 0, 1, ...
\* without a gap or a duplicate, and the workers under a switch have
\* consecutive ranks: each agent computes its part from its own copy.
RanksConsecutive ==
  \A r \in Ranks :
    At(r, "train")
    /\ (\A p \in world[r] : At(p, "train") /\ wround[p] = wround[r]) =>
      /\ UNION {GlobalRanks(p) : p \in world[r]}
           = 0 .. ProcsOf(group[r].order) - 1
      /\ \A p, q \in world[r] : p # q => GlobalRanks(p) \cap GlobalRanks(q) = {}
      /\ \A i, j, k \in DOMAIN group[r].order :
           /\ i < j /\ j < k
           /\ group[r].order[i].asw = group[r].order[k].asw
           => group[r].order[j].asw = group[r].order[i].asw

\* An agent passes the exit barrier only when the workers of all members of
\* its world have succeeded.
BarrierWaitsForAll ==
  \A r \in Ranks : At(r, "passed") =>
    \A p \in world[r] : <<wround[r], p>> \in reached

\* The exit barrier holds ("Waiting ... for other agents to finish"): an agent
\* passes it only when the workers of all members of its world have succeeded,
\* unless an add was counted twice because its reply was lost.
BarrierHolds ==
  \A r \in Ranks : At(r, "passed") =>
    LET arrived == {p \in Ranks : <<wround[r], p>> \in reached}
    IN  \/ world[r] \subseteq arrived
        \/ kv[StoreKey(r, "members")] > Cardinality(arrived)
=============================================================================
