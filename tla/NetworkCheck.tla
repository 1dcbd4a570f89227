---------------------------- MODULE NetworkCheck ----------------------------
(***************************************************************************)
(* The node health check of DLRover: the network-check rendezvous of the   *)
(* job master (NetworkCheckRendezvousManager), the agents that run two     *)
(* rounds of an allgather in small groups (NodeCheckElasticAgent and       *)
(* run_network_check), and the elastic-training rendezvous that the agents *)
(* enter afterwards.                                                       *)
(*                                                                         *)
(* min_nodes = max_nodes = the number of ranks (what auto_config sets), so *)
(* a round completes when every rank waits and waiting_timeout plays no    *)
(* part.  A node is bad (an allgather with it fails), slow (an allgather   *)
(* with it takes long) or healthy, until its pod is replaced.              *)
(***************************************************************************)
EXTENDS Integers, FiniteSets, Sequences, SequencesExt

CONSTANTS
  Ranks,             \* the node ranks of the job
  ExcludeStraggler,  \* --exclude-straggler
  Suspects,          \* the nodes one of which may be bad or slow at the start
  MaxPods,           \* pods per rank: 1 + max_relaunch_count
  MaxChecks,         \* bound on the completed network-check rounds
  MaxNetFaults       \* bound on crashes, restarts and nodes turning bad

ASSUME NetworkCheckAssumption ==
  /\ Ranks \subseteq Nat /\ IsFiniteSet(Ranks) /\ ExcludeStraggler \in BOOLEAN
  /\ Suspects \subseteq Ranks
  /\ {MaxPods, MaxChecks, MaxNetFaults} \subseteq Nat

VARIABLES
  \* the network-check manager
  nWaiting,    \* the ranks in _waiting_nodes
  nNodes,      \* the ranks in _rdzv_nodes
  nGroups,     \* _node_groups, a sequence of sets of ranks
  nRound,      \* _rdzv_round
  nStatus,     \* _node_status: a rank that reported is "ok" or "bad"
  nTimes,      \* _node_times: 0 for a rank that did not report
  nReported,   \* _reported_nodes
  nFault,      \* _fault_nodes
  nStraggler,  \* _straggler_nodes
  \* the elastic-training manager
  tWaiting,    \* the ranks in _waiting_nodes
  tNodes,      \* the ranks in _rdzv_nodes
  \* the agents
  apc,         \* what the agent is doing
  agroup,      \* the round, the group number and the members it checks with
  acheck,      \* the loop variables: attempt, round, success and the answers
  \* the environment
  bad, slow,   \* the bad and the slow nodes
  pods,        \* pods launched so far for each rank
  nfaults      \* faults injected so far

managerVars == <<nWaiting, nNodes, nGroups, nRound, nStatus, nTimes, nReported,
                 nFault, nStraggler>>
trainingVars == <<tWaiting, tNodes>>
netAgentVars == <<apc, agroup, acheck>>
netEnvVars == <<bad, slow, pods, nfaults>>
netVars == <<managerVars, trainingVars, netAgentVars, netEnvVars>>

FailedTime == 3600

NoGroup == [round |-> 0, index |-> 0, members |-> {}]

\* The state of run_network_check and of NodeCheckElasticAgent.run when the
\* first round of the first attempt begins.
FirstRound(attempt) ==
  [attempt |-> attempt, round |-> 0, success |-> FALSE, fault |-> {},
   straggler |-> {}]

NetInit ==
  /\ nWaiting = {} /\ nNodes = {} /\ nGroups = <<>> /\ nRound = 0
  /\ nStatus = [r \in Ranks |-> "none"]
  /\ nTimes = [r \in Ranks |-> 0]
  /\ nReported = {} /\ nFault = {} /\ nStraggler = {}
  /\ tWaiting = {} /\ tNodes = {}
  /\ apc = [r \in Ranks |-> "join"]
  /\ agroup = [r \in Ranks |-> NoGroup]
  /\ acheck = [r \in Ranks |-> FirstRound(0)]
  /\ bad \in SUBSET Suspects /\ slow \in SUBSET Suspects
  /\ Cardinality(bad) + Cardinality(slow) <= 1
  /\ pods = [r \in Ranks |-> 1]
  /\ nfaults = 0

-----------------------------------------------------------------------------
(* The manager's operators.                                                *)

\* s cut into pairs; a node left over goes to the last pair.
InPairs(s) ==
  LET h == Len(s) \div 2
      pair == [i \in 1 .. h |-> {s[2 * i - 1], s[2 * i]}]
  IN  IF Len(s) % 2 = 0 THEN pair
      ELSE IF h = 0 THEN <<{s[1]}>>
      ELSE [pair EXCEPT ![h] = @ \cup {s[Len(s)]}]

\* The first of s with the last, the second with the last but one, and so on;
\* a node left in the middle goes to the last pair.
FoldPairs(s) ==
  LET h == Len(s) \div 2
      pair == [i \in 1 .. h |-> {s[i], s[Len(s) + 1 - i]}]
  IN  IF Len(s) % 2 = 0 THEN pair
      ELSE IF h = 0 THEN <<{s[1]}>>
      ELSE [pair EXCEPT ![h] = @ \cup {s[h + 1]}]

\* The orders of S by time.  sorted() is stable, so nodes with equal times
\* come in the order of their reports, which can be any.
ByTime(S) ==
  {s \in SetToSeqs(S) :
     \A i, j \in 1 .. Len(s) : i < j => nTimes[s[i]] <= nTimes[s[j]]}

\* Mutant: the second round pairs neighbours in the order of times.
GroupNodesNeighbours(S) ==
  IF nRound % 2 = 0
  THEN {InPairs(SetToSortSeq(S, <))}
  ELSE {InPairs(s) : s \in ByTime({r \in S : nTimes[r] # 0})}

\* _group_nodes: the groupings of the nodes S it can return.
GroupNodes(S) ==
  IF nRound % 2 = 0
  THEN {InPairs(SetToSortSeq(S, <))}
  ELSE {FoldPairs(s) : s \in ByTime({r \in S : nTimes[r] # 0})}

\* The k-th smallest reported time, counted from 0.
KthTime(k) ==
  LET T == {r \in Ranks : nTimes[r] # 0}
  IN  CHOOSE t \in {nTimes[r] : r \in T} :
        /\ Cardinality({r \in T : nTimes[r] < t}) <= k
        /\ k < Cardinality({r \in T : nTimes[r] <= t})

\* _detect_stragglers: more than twice the median.
DetectStragglers ==
  LET m == Cardinality({r \in Ranks : nTimes[r] # 0})
      twice == IF m % 2 = 0 THEN KthTime(m \div 2) + KthTime(m \div 2 - 1)
               ELSE 2 * KthTime(m \div 2)
  IN  IF m = 0 THEN {} ELSE {r \in Ranks : nTimes[r] > twice}

\* get_comm_world when every rank waits: the nodes are grouped with the times
\* of the previous round, which an even round then forgets.
CompleteCheckRound ==
  /\ nRound < MaxChecks
  /\ nNodes' = nWaiting
  /\ nWaiting' = {}
  /\ nFault' = {} /\ nStraggler' = {} /\ nReported' = {}
  /\ nGroups' \in GroupNodes(nWaiting)
  /\ IF nRound % 2 = 0
     THEN /\ nStatus' = [r \in Ranks |-> "none"]
          /\ nTimes' = [r \in Ranks |-> 0]
     ELSE UNCHANGED <<nStatus, nTimes>>
  /\ nRound' = nRound + 1

\* Mutant: one report is enough.
AllReportedAny == nReported # {}

\* len(self._reported_nodes) >= len(self._rdzv_nodes)
AllReported == Cardinality(nReported) >= Cardinality(nNodes)

\* num_nodes_waiting(NETWORK_CHECK), with a node unit of 1.
NetNodesWaiting == Cardinality(nWaiting)

-----------------------------------------------------------------------------
(* The check, as the agent runs it.                                        *)

Goto(r, l) == apc' = [apc EXCEPT ![r] = l]

\* NetworkCheckRendezvousManager.join_rendezvous first clears the groups,
\* outside the lock.
JoinClearsGroups(r) ==
  /\ apc[r] = "join"
  /\ nGroups' = <<>>
  /\ Goto(r, "joining")
  /\ UNCHANGED <<nWaiting, nNodes, nRound, nStatus, nTimes, nReported, nFault,
                 nStraggler, trainingVars, agroup, acheck, netEnvVars>>

\* Mutant: the servicer does not clear the training waiting list.
JoinCheckKeepsTraining(r) ==
  /\ apc[r] = "joining"
  /\ nWaiting' = nWaiting \cup {r}
  /\ nNodes' = IF r \in nWaiting THEN nNodes ELSE {}
  /\ Goto(r, "poll")
  /\ UNCHANGED <<nGroups, nRound, nStatus, nTimes, nReported, nFault,
                 nStraggler, trainingVars, agroup, acheck, netEnvVars>>

\* ... then joins under the lock; the servicer clears the training list.
JoinCheck(r) ==
  /\ apc[r] = "joining"
  /\ nWaiting' = nWaiting \cup {r}
  /\ nNodes' = IF r \in nWaiting THEN nNodes ELSE {}
  /\ tWaiting' = {}
  /\ Goto(r, "poll")
  /\ UNCHANGED <<nGroups, nRound, nStatus, nTimes, nReported, nFault,
                 nStraggler, tNodes, agroup, acheck, netEnvVars>>

\* Mutant: the index of the group is not returned.
GroupOfNoIndex(r, groups, nodes) ==
  LET G == {i \in 1 .. Len(groups) : r \in groups[i]}
  IN  [round |-> nRound', index |-> 0,
       members |-> IF G # {} THEN groups[CHOOSE i \in G : TRUE] ELSE nodes]

\* What get_comm_world answers: the group of r, or the whole world as group 0.
GroupOf(r, groups, nodes) ==
  LET G == {i \in 1 .. Len(groups) : r \in groups[i]}
  IN  IF G # {} THEN LET i == CHOOSE i \in G : TRUE
                     IN  [round |-> nRound', index |-> i - 1,
                          members |-> groups[i]]
      ELSE [round |-> nRound', index |-> 0, members |-> nodes]

\* One iteration of next_rendezvous of the network check.
PollGroup(r) ==
  /\ apc[r] = "poll"
  /\ IF nGroups = <<>> /\ nWaiting = Ranks
     THEN CompleteCheckRound
     ELSE UNCHANGED managerVars
  /\ LET g == GroupOf(r, nGroups', nNodes')
     IN  IF r \in g.members
         THEN /\ agroup' = [agroup EXCEPT ![r] = g]
              /\ Goto(r, "check")
         ELSE UNCHANGED <<agroup, apc>>
  /\ UNCHANGED <<trainingVars, acheck, netEnvVars>>

\* All members run the check of the group, so the allgather completes.
GroupMeets(r) ==
  \A s \in agroup[r].members :
    agroup[s] = agroup[r] /\ apc[s] \in {"check", "fault", "straggler"}

\* A member of the group can no longer take part in the allgather.
PeerMissing(r) ==
  \E s \in agroup[r].members :
    /\ agroup[s] # agroup[r]
    /\ ~(apc[s] = "poll" /\ nRound = agroup[r].round /\ s \in nNodes)

\* _run_node_check: the outcome and the elapsed time of r.
CheckOutcome(r) ==
  IF GroupMeets(r) /\ agroup[r].members \cap bad = {}
  THEN {<<TRUE, IF agroup[r].members \cap slow = {} THEN 1 ELSE 3>>}
  ELSE IF GroupMeets(r) \/ PeerMissing(r) THEN {<<FALSE, FailedTime>>}
  ELSE {}

\* The check ends and report_network_check_result records it: a success
\* outlives a failure, the shortest time counts.
ReportCheck(r) ==
  /\ apc[r] = "check"
  /\ \E o \in CheckOutcome(r) :
       LET success == acheck[r].success \/ o[1] IN
       /\ acheck' = [acheck EXCEPT ![r].success = success]
       /\ nStatus' = [nStatus EXCEPT ![r] =
                        IF success \/ @ = "ok" THEN "ok" ELSE "bad"]
       /\ nTimes' = [nTimes EXCEPT ![r] =
                       IF @ # 0 /\ @ < o[2] THEN @ ELSE o[2]]
  /\ nReported' = nReported \cup {r}
  /\ Goto(r, "fault")
  /\ UNCHANGED <<nWaiting, nNodes, nGroups, nRound, nFault, nStraggler,
                 trainingVars, agroup, netEnvVars>>

\* The polls give up after 360 s, when every rank of the round that can report
\* has done so: it fetches its group within 5 s and checks for at most 300 s.
NeverReports ==
  \A s \in nNodes \ nReported :
    /\ ~(apc[s] = "poll" /\ s \notin nWaiting)
    /\ ~(apc[s] = "check" /\ agroup[s].round = nRound)

\* check_fault_node, once all nodes have reported.
CheckFaultNode ==
  LET fault == {r \in Ranks : nStatus[r] = "bad"} IN
  /\ nFault' = IF nFault = {} THEN fault ELSE nFault
  /\ nRound' = IF nFault = {} /\ fault = {} /\ DetectStragglers = {}
               THEN 2 * ((nRound + 1) \div 2)
               ELSE nRound

\* MasterClient.check_fault_node: it polls until all nodes have reported, or
\* gives up and takes the empty answer.
AskFaultNodes(r) ==
  /\ apc[r] = "fault"
  /\ IF nNodes # {} /\ AllReported
     THEN /\ CheckFaultNode
          /\ acheck' = [acheck EXCEPT ![r].fault = nFault']
     ELSE /\ NeverReports
          /\ acheck' = [acheck EXCEPT ![r].fault = {}]
          /\ UNCHANGED <<nFault, nRound>>
  /\ Goto(r, "straggler")
  /\ UNCHANGED <<nWaiting, nNodes, nGroups, nStatus, nTimes, nReported,
                 nStraggler, trainingVars, agroup, netEnvVars>>

\* The pod of r exits.
ExitCheck(r) ==
  /\ Goto(r, "off")
  /\ agroup' = [agroup EXCEPT ![r] = NoGroup]
  /\ acheck' = [acheck EXCEPT ![r] = FirstRound(0)]

\* NodeCheckElasticAgent.run returns: run_network_check makes a second attempt
\* after a failure, and nobody reads its result.
ReturnFromCheck(r) ==
  /\ agroup' = [agroup EXCEPT ![r] = NoGroup]
  /\ IF ~acheck[r].success /\ acheck[r].attempt = 0
     THEN /\ acheck' = [acheck EXCEPT ![r] = FirstRound(1)]
          /\ Goto(r, "join")
     ELSE /\ acheck' = [acheck EXCEPT ![r] = FirstRound(0)]
          /\ Goto(r, "tjoin")

\* The end of an iteration of NodeCheckElasticAgent.run: with at most three
\* running nodes a fault makes every agent exit, otherwise it sleeps 5 s.
EndOfCheckRound(r, stragglers) ==
  IF acheck[r].fault # {} \/ (stragglers # {} /\ ExcludeStraggler)
  THEN IF Cardinality({s \in Ranks : apc[s] # "off"}) <= 3
       THEN ExitCheck(r)
       ELSE /\ acheck' = [acheck EXCEPT ![r].straggler = stragglers]
            /\ agroup' = [agroup EXCEPT ![r] = NoGroup]
            /\ Goto(r, "sleep")
  ELSE ReturnFromCheck(r)

\* MasterClient.check_straggler, get_straggler and the end of the round.
AskStragglers(r) ==
  /\ apc[r] = "straggler"
  /\ IF AllReported
     THEN nStraggler' = IF nStraggler = {} THEN DetectStragglers ELSE nStraggler
     ELSE NeverReports /\ UNCHANGED nStraggler
  /\ EndOfCheckRound(r, nStraggler')
  /\ UNCHANGED <<nWaiting, nNodes, nGroups, nRound, nStatus, nTimes, nReported,
                 nFault, trainingVars, netEnvVars>>

\* An agent that has all it needs to leave its polling loop: it does so within
\* a second.
PollingDone(s) ==
  apc[s] \in {"fault", "straggler"} /\ AllReported

\* After the 5 s, longer than the 1 s between two polls: the second round, or
\* the verdict.
NextRound(r) ==
  /\ apc[r] = "sleep"
  /\ ~\E s \in Ranks : PollingDone(s)
  /\ IF acheck[r].round = 0
     THEN /\ acheck' = [acheck EXCEPT ![r].round = 1]
          /\ Goto(r, "join")
          /\ UNCHANGED agroup
     ELSE IF r \in acheck[r].fault
             \/ (ExcludeStraggler /\ r \in acheck[r].straggler)
     THEN ExitCheck(r)
     ELSE ReturnFromCheck(r)
  /\ UNCHANGED <<managerVars, trainingVars, netEnvVars>>

-----------------------------------------------------------------------------
(* The elastic-training rendezvous.                                        *)

JoinTraining(r) ==
  /\ apc[r] = "tjoin"
  /\ tWaiting' = tWaiting \cup {r}
  /\ tNodes' = IF r \in tWaiting THEN tNodes ELSE {}
  /\ Goto(r, "tpoll")
  /\ UNCHANGED <<managerVars, agroup, acheck, netEnvVars>>

\* Mutant: nodes that wait in the network check are not noticed.
PollTrainingStays(r) ==
  /\ apc[r] = "tpoll"
  /\ IF tNodes = {} /\ tWaiting = Ranks
     THEN tNodes' = Ranks /\ tWaiting' = {}
     ELSE UNCHANGED trainingVars
  /\ IF r \in tNodes' THEN Goto(r, "train") ELSE UNCHANGED apc
  /\ UNCHANGED <<managerVars, agroup, acheck, netEnvVars>>

\* One iteration of next_rendezvous: _check_network_rdzv leaves it for the
\* network check when nodes wait there, get_comm_world may complete the round.
PollTraining(r) ==
  /\ apc[r] = "tpoll"
  /\ IF NetNodesWaiting > 0
     THEN Goto(r, "join") /\ UNCHANGED trainingVars
     ELSE /\ IF tNodes = {} /\ tWaiting = Ranks
             THEN tNodes' = Ranks /\ tWaiting' = {}
             ELSE UNCHANGED trainingVars
          /\ IF r \in tNodes' THEN Goto(r, "train") ELSE UNCHANGED apc
  /\ UNCHANGED <<managerVars, agroup, acheck, netEnvVars>>

\* A training agent whose peers have left restarts its workers, which begins
\* with a network check.
RestartWithPeers(r) ==
  /\ apc[r] = "train"
  /\ \E s \in Ranks : apc[s] \notin {"train", "tpoll"}
  /\ Goto(r, "join")
  /\ UNCHANGED <<managerVars, trainingVars, agroup, acheck, netEnvVars>>

-----------------------------------------------------------------------------
(* Pods and faults.                                                        *)

\* Mutant: the relaunch limit is not checked.
RelaunchPodUnlimited(r) ==
  /\ apc[r] = "off"
  /\ ~\E s \in nNodes : apc[s] = "poll"
  /\ pods' = [pods EXCEPT ![r] = @ + 1]
  /\ bad' = bad \ {r} /\ slow' = slow \ {r}
  /\ Goto(r, "join")
  /\ UNCHANGED <<managerVars, trainingVars, agroup, acheck, nfaults>>

\* The pod of r is replaced by one on another, healthy host.  That takes longer
\* than the 5 s within which a member of a published round fetches its group.
RelaunchPod(r) ==
  /\ apc[r] = "off"
  /\ ~\E s \in nNodes : apc[s] = "poll"
  /\ pods[r] < MaxPods
  /\ pods' = [pods EXCEPT ![r] = @ + 1]
  /\ bad' = bad \ {r} /\ slow' = slow \ {r}
  /\ Goto(r, "join")
  /\ UNCHANGED <<managerVars, trainingVars, agroup, acheck, nfaults>>

\* The pod of r is killed while it checks.
CrashPod(r) ==
  /\ nfaults < MaxNetFaults
  /\ nfaults' = nfaults + 1
  /\ apc[r] = "check"
  /\ ExitCheck(r)
  /\ UNCHANGED <<managerVars, trainingVars, bad, slow, pods>>

\* A node breaks while it trains; its workers fail and are restarted.
NodeTurnsBad(r) ==
  /\ nfaults < MaxNetFaults
  /\ nfaults' = nfaults + 1
  /\ apc[r] = "train"
  /\ bad' = bad \cup {r}
  /\ Goto(r, "join")
  /\ UNCHANGED <<managerVars, trainingVars, agroup, acheck, slow, pods>>

NetAgentStep(r) ==
  \/ JoinClearsGroups(r)
  \/ JoinCheck(r)
  \/ PollGroup(r)
  \/ ReportCheck(r)
  \/ AskFaultNodes(r)
  \/ AskStragglers(r)
  \/ NextRound(r)
  \/ JoinTraining(r)
  \/ PollTraining(r)
  \/ RestartWithPeers(r)
  \/ RelaunchPod(r)

NetNext ==
  \E r \in Ranks : NetAgentStep(r) \/ CrashPod(r) \/ NodeTurnsBad(r)

NetSpec == NetInit /\ [][NetNext]_netVars

\* Agents run, time passes and the platform relaunches pods; faults need not
\* happen.
NetFairness == \A r \in Ranks : WF_netVars(NetAgentStep(r))

NetFairSpec == NetSpec /\ NetFairness

-----------------------------------------------------------------------------
(* Properties.                                                             *)

\* Every variable stays in its domain.
NetTypeOK ==
  /\ {nWaiting, nNodes, nReported, nFault, nStraggler, tWaiting, tNodes, bad,
      slow} \subseteq SUBSET Ranks
  /\ nGroups \in Seq(SUBSET Ranks)
  /\ nRound \in 0 .. MaxChecks + 1
  /\ nStatus \in [Ranks -> {"none", "ok", "bad"}]
  /\ nTimes \in [Ranks -> {0, 1, 3, FailedTime}]
  /\ apc \in [Ranks -> {"join", "joining", "poll", "check", "fault",
                        "straggler", "sleep", "tjoin", "tpoll", "train", "off"}]
  /\ agroup \in [Ranks -> [round : 0 .. MaxChecks + 1,
                           index : 0 .. Cardinality(Ranks),
                           members : SUBSET Ranks]]
  /\ acheck \in [Ranks -> [attempt : 0 .. 1, round : 0 .. 1, success : BOOLEAN,
                           fault : SUBSET Ranks, straggler : SUBSET Ranks]]
  /\ pods \in [Ranks -> 1 .. MaxPods]
  /\ nfaults \in 0 .. MaxNetFaults

\* The check makes node r exit although r is neither bad nor, with
\* --exclude-straggler, slow.
HealthyExit(r) ==
  /\ apc[r] \in {"straggler", "sleep"} /\ apc'[r] = "off"
  /\ r \notin bad /\ ~(ExcludeStraggler /\ r \in slow)

\* Two rounds of pairwise checks find the faulty node: as long as no pod
\* crashes in between, the check makes only a bad node, or with
\* --exclude-straggler a slow one, exit.
OnlyFaultyNodesExit ==
  [][nfaults = 0 => \A r \in Ranks : ~HealthyExit(r)]_netVars

\* The same whatever happens to pods: the verdict of the second round concerns
\* the nodes that failed in two rounds.
VerdictNeedsTwoFailures ==
  [][\A r \in Ranks : ~HealthyExit(r)]_netVars

\* No bad node gets through the check into the training rendezvous, as long as
\* at most one pod crashes.  (An answer that the agent gives up waiting for is
\* no fault node; a crash in each of the two attempts lets the bad node pass.)
BadNodesKeptOut ==
  nfaults <= 1 =>
    \A r \in Ranks : apc[r] \in {"tjoin", "tpoll", "train"} => r \notin bad

\* The agents that run a check in the same round and group, and so under the
\* same KV store prefix, check with the same members, as long as no pod
\* crashes (a rank without a time of the first round is in no group, and
\* checks with all nodes as group 0).
GroupAgreement ==
  nfaults = 0 => \A r, s \in Ranks :
    apc[r] = "check" /\ apc[s] = "check" /\ agroup[r].round = agroup[s].round
      /\ agroup[r].index = agroup[s].index => agroup[r] = agroup[s]

\* The world the training rendezvous publishes consists of agents that are
\* still in it: nobody it counted has left for the network check meanwhile.
TrainingWorldPresent ==
  [][tNodes' # {} /\ tNodes = {} =>
       \A r \in tNodes' : apc[r] = "tpoll"]_netVars

\* A faulty node is found and replaced and the job gets to train on all ranks,
\* unless a rank has used up its pods.
CheckedJobTrains ==
  <>(\/ \A r \in Ranks : apc[r] = "train"
     \/ \E r \in Ranks : apc[r] = "off" /\ pods[r] = MaxPods)
=============================================================================
