------------------------- MODULE NetworkCheckProofs --------------------------
(***************************************************************************)
(* A proof about the way from the network check into training, for every   *)
(* set of ranks, every faulty node and any number of rounds and faults.    *)
(*                                                                         *)
(* TrainingWorldPresent speaks of the step that publishes the training     *)
(* world.  LeaveInv adds why nobody has left when it happens: an agent     *)
(* leaves the training rendezvous only while nodes wait in the network     *)
(* check, and these go on waiting until it has joined them, which empties  *)
(* the list of the training rendezvous.                                    *)
(***************************************************************************)
EXTENDS NetworkCheck, FiniteSetTheorems, TLAPS

\* What the two managers and the agents keep true of each other.
LeaveInv ==
  /\ nWaiting \subseteq Ranks
  /\ DOMAIN apc = Ranks
  \* A world and a waiting list exclude each other.
  /\ tNodes # {} => tWaiting = {}
  /\ nNodes # {} => nWaiting = {}
  \* Who waits in the network check polls it.
  /\ \A r \in nWaiting : apc[r] = "poll"
  \* Groups exist only while nobody joins or waits.
  /\ nGroups # <<>> => nWaiting = {} /\ \A r \in Ranks : apc[r] # "joining"
  \* Who waits in the training rendezvous polls it, or is on its way to those
  \* who wait in the network check.
  /\ \A r \in tWaiting :
       /\ r \in Ranks
       /\ \/ apc[r] = "tpoll"
          \/ apc[r] \in {"join", "joining"} /\ nWaiting # {}

-----------------------------------------------------------------------------
\* get_comm_world of the training rendezvous publishes a world only when nobody
\* waits in the network check.
LEMMA NobodyWaits ==
  ASSUME nWaiting \subseteq Ranks
  PROVE  NetNodesWaiting > 0 <=> nWaiting # {}
<1>1. IsFiniteSet(nWaiting)
  BY FS_Subset, NetworkCheckAssumption
<1>2. Cardinality(nWaiting) \in Nat /\ (Cardinality(nWaiting) = 0 <=> nWaiting = {})
  BY <1>1, FS_CardinalityType, FS_EmptySet
<1> QED
  BY <1>2 DEF NetNodesWaiting

\* An agent that neither joins nor waits anywhere moves on to something else
\* than a wait.
LEMMA MovesOn ==
  ASSUME LeaveInv, NEW r \in Ranks, NEW l,
         apc[r] \notin {"poll", "join", "joining", "tpoll"},
         l \notin {"joining"}, Goto(r, l),
         UNCHANGED <<nWaiting, nNodes, nGroups, trainingVars>>
  PROVE  LeaveInv'
BY DEF LeaveInv, Goto, trainingVars

LEMMA LeaveInit ==
  ASSUME NetInit
  PROVE  LeaveInv
BY DEF NetInit, LeaveInv

\* No step of an agent, of the managers or of the environment breaks LeaveInv.
LEMMA LeaveNext ==
  ASSUME LeaveInv, NetNext
  PROVE  LeaveInv'
<1> PICK r \in Ranks : NetAgentStep(r) \/ CrashPod(r) \/ NodeTurnsBad(r)
  BY DEF NetNext
<1>1. CASE JoinClearsGroups(r)
  BY <1>1 DEF JoinClearsGroups, LeaveInv, Goto, trainingVars
<1>2. CASE JoinCheck(r)
  BY <1>2 DEF JoinCheck, LeaveInv, Goto
<1>3. CASE PollGroup(r)
  <2>1. CASE nGroups = <<>> /\ nWaiting = Ranks
    <3>1. \A s \in Ranks : apc[s] = "poll"
      BY <2>1 DEF LeaveInv
    <3>2. tWaiting = {}
      BY <3>1 DEF LeaveInv
    <3>3. nWaiting' = {} /\ UNCHANGED trainingVars
      BY <1>3, <2>1 DEF PollGroup, CompleteCheckRound
    <3>4. DOMAIN apc' = Ranks /\ \A s \in Ranks : apc'[s] # "joining"
      BY <1>3, <3>1 DEF PollGroup, Goto, LeaveInv
    <3> QED
      BY <3>2, <3>3, <3>4 DEF LeaveInv, trainingVars
  <2>2. CASE ~(nGroups = <<>> /\ nWaiting = Ranks)
    <3>1. UNCHANGED <<nWaiting, nNodes, nGroups, nRound, tWaiting, tNodes>>
      BY <1>3, <2>2 DEF PollGroup, managerVars, trainingVars
    <3>2. CASE UNCHANGED apc
      BY <3>1, <3>2 DEF LeaveInv
    <3>3. CASE Goto(r, "check") /\ r \in GroupOf(r, nGroups, nNodes).members
      <4>1. nGroups # <<>> \/ nNodes # {}
        BY <3>3 DEF GroupOf
      <4>2. nWaiting = {}
        BY <4>1 DEF LeaveInv
      <4>3. apc[r] = "poll"
        BY <1>3 DEF PollGroup
      <4> QED
        BY <3>1, <3>3, <4>2, <4>3 DEF LeaveInv, Goto
    <3> QED
      BY <1>3, <3>1, <3>2, <3>3 DEF PollGroup, GroupOf
  <2> QED
    BY <2>1, <2>2
<1>4. CASE ReportCheck(r)
  BY <1>4, MovesOn DEF ReportCheck, trainingVars
<1>5. CASE AskFaultNodes(r)
  BY <1>5, MovesOn DEF AskFaultNodes, trainingVars
<1>6. CASE AskStragglers(r)
  BY <1>6, MovesOn DEF AskStragglers, EndOfCheckRound, ReturnFromCheck,
                       ExitCheck, trainingVars
<1>7. CASE NextRound(r)
  BY <1>7, MovesOn DEF NextRound, ReturnFromCheck, ExitCheck, managerVars,
                       trainingVars
<1>8. CASE JoinTraining(r)
  BY <1>8 DEF JoinTraining, LeaveInv, Goto, managerVars
<1>9. CASE PollTraining(r)
  <2>1. apc[r] = "tpoll" /\ UNCHANGED <<nWaiting, nNodes, nGroups>>
    BY <1>9 DEF PollTraining, managerVars
  <2>2. CASE NetNodesWaiting > 0
    <3>1. nWaiting # {}
      BY <2>2, NobodyWaits DEF LeaveInv
    <3>2. Goto(r, "join") /\ UNCHANGED <<tWaiting, tNodes>>
      BY <1>9, <2>2 DEF PollTraining, trainingVars
    <3> QED
      BY <2>1, <3>1, <3>2 DEF LeaveInv, Goto
  <2>3. CASE ~(NetNodesWaiting > 0)
    <3>1. \/ tWaiting' = {}
          \/ UNCHANGED <<tWaiting, tNodes>> /\ tNodes = {}
      BY <1>9, <2>3 DEF PollTraining, trainingVars, LeaveInv
    <3>2. tNodes' = {} => UNCHANGED apc
      BY <1>9, <2>3 DEF PollTraining
    <3>3. Goto(r, "train") \/ UNCHANGED apc
      BY <1>9, <2>3 DEF PollTraining
    <3> QED
      BY <2>1, <3>1, <3>2, <3>3 DEF LeaveInv, Goto
  <2> QED
    BY <2>2, <2>3
<1>10. CASE RestartWithPeers(r)
  BY <1>10, MovesOn DEF RestartWithPeers, managerVars, trainingVars
<1>11. CASE RelaunchPod(r)
  BY <1>11, MovesOn DEF RelaunchPod, managerVars, trainingVars
<1>12. CASE CrashPod(r)
  BY <1>12, MovesOn DEF CrashPod, ExitCheck, managerVars, trainingVars
<1>13. CASE NodeTurnsBad(r)
  BY <1>13, MovesOn DEF NodeTurnsBad, managerVars, trainingVars
<1> QED
  BY <1>1, <1>2, <1>3, <1>4, <1>5, <1>6, <1>7, <1>8, <1>9, <1>10, <1>11, <1>12,
     <1>13 DEF NetAgentStep

-----------------------------------------------------------------------------
\* The training world that is published consists of agents that still wait for
\* it.
LEMMA PublishedPresent ==
  ASSUME LeaveInv, NetNext, tNodes = {}, tNodes' # {}
  PROVE  \A s \in tNodes' : apc[s] = "tpoll"
<1>1. PICK r \in Ranks : PollTraining(r)
  BY DEF NetNext, NetAgentStep, JoinClearsGroups, JoinCheck, PollGroup,
         ReportCheck, AskFaultNodes, AskStragglers, NextRound, JoinTraining,
         RestartWithPeers, RelaunchPod, CrashPod, NodeTurnsBad, trainingVars
<1>2. ~(NetNodesWaiting > 0) /\ tWaiting = Ranks /\ tNodes' = Ranks
  BY <1>1 DEF PollTraining, trainingVars
<1>3. nWaiting = {}
  BY <1>2, NobodyWaits DEF LeaveInv
<1> QED
  BY <1>2, <1>3 DEF LeaveInv

\* get_comm_world of the training rendezvous never counts an agent that
\* _check_network_rdzv has sent back to the network check.
THEOREM WorldPresent == NetSpec => TrainingWorldPresent
<1>1. NetInit => LeaveInv
  BY LeaveInit
<1>2. LeaveInv /\ [NetNext]_netVars => LeaveInv'
  <2>1. ASSUME LeaveInv, UNCHANGED netVars
        PROVE  LeaveInv'
    BY <2>1 DEF netVars, managerVars, trainingVars, netAgentVars, LeaveInv
  <2> QED
    BY <2>1, LeaveNext
<1>3. LeaveInv /\ [NetNext]_netVars =>
        [tNodes' # {} /\ tNodes = {} =>
           \A r \in tNodes' : apc[r] = "tpoll"]_netVars
  BY PublishedPresent
<1> QED
  BY <1>1, <1>2, <1>3, PTL DEF NetSpec, TrainingWorldPresent
=============================================================================
