------------------------------ MODULE PreCheck -------------------------------
(***************************************************************************)
(* The pre-check of a job before its training starts.  The main thread of  *)
(* the master runs the operators (DiagnosisMaster.pre_check), its thread   *)
(* _diagnose_job takes the actions of failed operators from the queue of   *)
(* diagnosis actions and executes them, and the agents wait for the        *)
(* verdict (wait_pre_check).  An alarm ends a pre-check that takes long,   *)
(* and the master may restart.                                             *)
(***************************************************************************)
EXTENDS Integers, Sequences, SequencesExt, FiniteSets

CONSTANTS
  WorkerCount,    \* the number of workers
  MaxNodeId,      \* bound on the node ids
  OpLists,        \* the values of pre_check_ops
  ConnRetries,    \* _get_check_retry_times
  MaxPreFaults,   \* bound on pods that fail, actions that expire and
                  \* restarts of the master
  PromptActions   \* actions are executed within the retry interval

ASSUME PreCheckAssumption ==
  /\ WorkerCount \in Nat \ {0} /\ MaxNodeId \in Nat /\ MaxNodeId >= WorkerCount - 1
  /\ ConnRetries \in Nat \ {0} /\ MaxPreFaults \in Nat
  /\ PromptActions \in BOOLEAN
  /\ OpLists \subseteq
       Seq([kind : {"scheduling", "connection"}, bypass : BOOLEAN])

VARIABLES
  ops,      \* the operators of the job
  status,   \* _pre_check_status
  main,     \* where the main thread is
  cur,      \* the operator that it runs
  retry,    \* the retries of the connection check
  torn,     \* a node was added to the dict that a check may be iterating over
  queue,    \* the actions for the master
  stopped,  \* the job stage is JOB_STOPPED
  node,     \* the nodes as the master knows them
  agent,    \* the agent in the pod of each node
  outcome,  \* how each operator ended since the last failed action
  ended,    \* how the pre-check ended
  preFaults

preVars == <<ops, status, main, cur, retry, torn, queue, stopped, node, agent,
             outcome, ended, preFaults>>
mainVars == <<status, main, cur, retry, outcome, ended>>

PreIds == 0 .. MaxNodeId
InPreCheck == main \in {"next", "check", "sleep"}
Fault == preFaults < MaxPreFaults /\ preFaults' = preFaults + 1

NoOutcome == [i \in DOMAIN ops |-> "none"]

NoNode == [status |-> "None"]
NewNode == [status |-> "Initial", created |-> FALSE, reported |-> FALSE,
            released |-> FALSE]
Known == {id \in PreIds : node[id] # NoNode}
Unreleased == {id \in Known : ~node[id].released}

-----------------------------------------------------------------------------
(* DiagnosisActionQueue, for the instance of the master.                   *)

\* add_action: an expired action in the queue makes it drop the new one.
AddAction(q, action) ==
  IF \E i \in DOMAIN q : q[i].expired THEN q ELSE Append(q, action)

Abortion == [type |-> "abort", id |-> -1, expired |-> FALSE]
Relaunch(id) == [type |-> "relaunch", id |-> id, expired |-> FALSE]

ActionExpires ==
  /\ Fault
  /\ \E i \in DOMAIN queue :
       /\ ~queue[i].expired
       /\ queue' = [queue EXCEPT ![i].expired = TRUE]
  /\ UNCHANGED <<ops, mainVars, torn, stopped, node, agent>>

-----------------------------------------------------------------------------
(* The operators.                                                          *)

Pending == {id \in Unreleased : node[id].status \in {"Initial", "Pending"}}

\* SchedulingPreCheckOperator.check of an allreduce job.  It fails when no node
\* is created in time or the oldest pending one is pending for too long; a
\* pending node that has no create_time yet hides the ones that time out.
Scheduled == Pending = {} /\ \E id \in Known : node[id].created
SchedulingTimesOut ==
  \/ \A id \in Known : ~node[id].created
  \/ Pending # {} /\ \A id \in Pending : node[id].created

\* ConnectionPreCheckOperator.check.
Silent == {id \in Known : node[id].status = "Running" /\ ~node[id].reported}

\* failed_actions
FailedActions(kind) ==
  IF kind = "scheduling" THEN <<Abortion>>
  ELSE [i \in 1 .. Cardinality(Silent) |-> Relaunch(SetToSeq(Silent)[i])]

-----------------------------------------------------------------------------
(* The main thread: DiagnosisMaster.pre_check.                             *)

LastOp == cur = Len(ops)

\* The verdict, however the loop over the operators ended.
Finish(how) ==
  /\ status' = "PASS" /\ main' = "run" /\ ended' = how
  /\ UNCHANGED cur

StartPreCheck ==
  /\ main = "start"
  /\ IF ops = <<>> THEN status' = "DISABLED" /\ main' = "run"
                   ELSE main' = "next" /\ UNCHANGED status
  /\ UNCHANGED <<ops, cur, retry, torn, queue, stopped, node, agent, outcome,
                 ended, preFaults>>

\* (mutant) The stage of the job is not looked at.
NextOpUnchecked ==
  /\ main = "next"
  /\ main' = "check" /\ retry' = 0 /\ torn' = FALSE
  /\ UNCHANGED <<ops, status, cur, queue, stopped, node, agent, outcome,
                 ended, preFaults>>

\* The loop over the operators looks whether the job was stopped.
NextOp ==
  /\ main = "next"
  /\ main' = IF stopped THEN "run" ELSE "check"
  /\ retry' = 0 /\ torn' = FALSE
  /\ UNCHANGED <<ops, status, cur, queue, stopped, node, agent, outcome,
                 ended, preFaults>>

\* The operator is done: the next one, or the verdict.
OpDone(how) ==
  /\ outcome' = [outcome EXCEPT ![cur] = how]
  /\ IF LastOp THEN Finish(how)
     ELSE /\ main' = "next" /\ cur' = cur + 1
          /\ UNCHANGED <<status, ended>>
  /\ UNCHANGED retry

OpSucceeds ==
  /\ main = "check"
  /\ IF ops[cur].kind = "scheduling" THEN Scheduled ELSE Silent = {}
  /\ OpDone("passed")
  /\ UNCHANGED <<ops, torn, queue, stopped, node, agent, preFaults>>

\* A connection check that found silent nodes sleeps and looks again.
RetryCheck ==
  /\ main = "check" /\ ops[cur].kind = "connection" /\ Silent # {}
  /\ retry + 1 < ConnRetries
  /\ retry' = retry + 1 /\ torn' = FALSE
  /\ UNCHANGED <<ops, status, main, cur, queue, stopped, node, agent, outcome,
                 ended, preFaults>>

OpFails ==
  /\ main = "check"
  /\ IF ops[cur].kind = "scheduling" THEN SchedulingTimesOut
     ELSE Silent # {} /\ retry + 1 = ConnRetries
  /\ IF ops[cur].bypass
     THEN /\ OpDone("bypass")
          /\ UNCHANGED queue
     ELSE /\ queue' = FoldLeft(AddAction, queue, FailedActions(ops[cur].kind))
          /\ main' = "sleep" /\ outcome' = NoOutcome
          /\ UNCHANGED <<status, cur, retry, ended>>
  /\ UNCHANGED <<ops, torn, stopped, node, agent, preFaults>>

\* The dict of nodes changed while the operator iterated over it.
OpRaises ==
  /\ main = "check" /\ torn
  /\ OpDone("error")
  /\ UNCHANGED <<ops, torn, queue, stopped, node, agent, preFaults>>

\* (mutant) The next operator follows a failed one.
WakeUpNext ==
  /\ main = "sleep" /\ (PromptActions => queue = <<>>)
  /\ IF LastOp THEN Finish("passed")
     ELSE main' = "next" /\ cur' = cur + 1 /\ UNCHANGED <<status, ended>>
  /\ UNCHANGED <<ops, retry, torn, queue, stopped, node, agent, outcome,
                 preFaults>>

\* After the retry interval all operators run again.
WakeUp ==
  /\ main = "sleep" /\ (PromptActions => queue = <<>>)
  /\ main' = "next" /\ cur' = 1
  /\ UNCHANGED <<ops, status, retry, torn, queue, stopped, node, agent, outcome,
                 ended, preFaults>>

\* (mutant) The status is left at CHECKING.
AlarmKeepsStatus ==
  /\ InPreCheck
  /\ main' = "run" /\ ended' = "alarm"
  /\ UNCHANGED <<ops, status, cur, retry, torn, queue, stopped, node, agent,
                 outcome, preFaults>>

\* SIGALRM: TimeoutException wherever the pre-check is.
Alarm ==
  /\ InPreCheck
  /\ Finish("alarm")
  /\ UNCHANGED <<ops, retry, torn, queue, stopped, node, agent, outcome,
                 preFaults>>

\* run: the main loop ends when the job was stopped.
MainLoopEnds ==
  /\ main = "run" /\ stopped
  /\ main' = "exited"
  /\ UNCHANGED <<ops, status, cur, retry, torn, queue, stopped, node, agent,
                 outcome, ended, preFaults>>

-----------------------------------------------------------------------------
(* The thread _diagnose_job.                                               *)

\* The manager relaunches a node: the old pod is removed.
RelaunchNodes(id) ==
  /\ \E new \in PreIds \ Known :
       /\ \A lower \in 0 .. new - 1 : lower \in Known
       /\ node' = [node EXCEPT ![id].status = "Failed", ![id].released = TRUE,
                               ![new] = NewNode]
  /\ agent' = [agent EXCEPT ![id] = "none"]
  /\ torn' = TRUE

\* No node is left to relaunch: the pod of a node that was diagnosed stays.
FailNode(id) ==
  /\ Known = PreIds
  /\ node' = [node EXCEPT ![id].status = "Failed"]
  /\ UNCHANGED <<agent, torn>>

\* process_diagnosis_action of a NodeAction.
ProcessNodeAction(id) ==
  IF id \in Unreleased /\ node[id].status \in {"Pending", "Running"}
  THEN RelaunchNodes(id) \/ FailNode(id)
  ELSE UNCHANGED <<node, agent, torn>>

\* next_action drops the expired ones up to the action that it returns.
DiagnoseJob ==
  /\ ~stopped /\ queue # <<>> /\ main # "exited"
  /\ LET live == {i \in DOMAIN queue : ~queue[i].expired}
         first == CHOOSE i \in live : \A j \in live : i <= j
     IN  IF live = {} THEN queue' = <<>> /\ UNCHANGED <<stopped, node, agent, torn>>
         ELSE /\ queue' = SubSeq(queue, first + 1, Len(queue))
              /\ IF queue[first].type = "abort"
                 THEN stopped' = TRUE /\ UNCHANGED <<node, agent, torn>>
                 ELSE ProcessNodeAction(queue[first].id) /\ UNCHANGED stopped
  /\ UNCHANGED <<ops, mainVars, preFaults>>

-----------------------------------------------------------------------------
(* The pods and the agents in them.                                        *)

CreateNode(id) ==
  /\ node[id] = NewNode
  /\ node' = [node EXCEPT ![id].status = "Pending", ![id].created = TRUE]
  /\ UNCHANGED <<ops, mainVars, torn, queue, stopped, agent, preFaults>>

\* The pod starts; the master hears of it later.
AgentStarts(id) ==
  /\ id \in Unreleased /\ node[id].status = "Pending" /\ agent[id] = "none"
  /\ agent' = [agent EXCEPT ![id] = "up"]
  /\ UNCHANGED <<ops, mainVars, torn, queue, stopped, node, preFaults>>

NodeRuns(id) ==
  /\ id \in Unreleased /\ node[id].status = "Pending" /\ agent[id] # "none"
  /\ node' = [node EXCEPT ![id].status = "Running"]
  /\ UNCHANGED <<ops, mainVars, torn, queue, stopped, agent, preFaults>>

\* A pod fails and the manager relaunches its node.
NodeFails(id) ==
  /\ Fault /\ main # "exited"
  /\ id \in Unreleased /\ node[id].status = "Running"
  /\ RelaunchNodes(id)
  /\ UNCHANGED <<ops, mainVars, queue, stopped>>

\* wait_pre_check reports once, whatever the status of the node is.
ReportWaiting(id) ==
  /\ agent[id] = "up" /\ main # "exited"
  /\ agent' = [agent EXCEPT ![id] = "waiting"]
  /\ node' = [node EXCEPT ![id].reported = TRUE]
  /\ UNCHANGED <<ops, mainVars, torn, queue, stopped, preFaults>>

\* The loop of wait_pre_check.
PollVerdict(id) ==
  /\ agent[id] = "waiting" /\ main # "exited"
  /\ status \in {"PASS", "DISABLED"}
  /\ agent' = [agent EXCEPT ![id] = "training"]
  /\ UNCHANGED <<ops, mainVars, torn, queue, stopped, node, preFaults>>

\* The master is gone: the calls of the agent fail.
AgentEnds(id) ==
  /\ agent[id] \notin {"none", "gone"} /\ main = "exited"
  /\ agent' = [agent EXCEPT ![id] = "gone"]
  /\ UNCHANGED <<ops, mainVars, torn, queue, stopped, node, preFaults>>

\* A new master pod: its context has the pods that it lists, and no more.
MasterRestarts ==
  /\ Fault /\ main # "exited"
  /\ status' = "CHECKING" /\ main' = "start" /\ cur' = 1 /\ retry' = 0
  /\ torn' = FALSE /\ queue' = <<>> /\ stopped' = FALSE
  /\ outcome' = NoOutcome /\ ended' = "no"
  /\ node' = [id \in PreIds |->
                IF id \in Known THEN [node[id] EXCEPT !.reported = FALSE]
                                ELSE NoNode]
  /\ UNCHANGED <<ops, agent>>

-----------------------------------------------------------------------------

PreInit ==
  /\ ops \in OpLists
  /\ status = "CHECKING" /\ main = "start" /\ cur = 1 /\ retry = 0
  /\ torn = FALSE /\ queue = <<>> /\ stopped = FALSE
  /\ node = [id \in PreIds |-> IF id < WorkerCount THEN NewNode ELSE NoNode]
  /\ agent = [id \in PreIds |-> "none"]
  /\ outcome = NoOutcome /\ ended = "no" /\ preFaults = 0

MainStep ==
  \/ StartPreCheck \/ NextOp \/ OpSucceeds \/ RetryCheck \/ OpFails
  \/ OpRaises \/ WakeUp \/ MainLoopEnds

PreNext ==
  \/ MainStep \/ Alarm \/ DiagnoseJob \/ ActionExpires \/ MasterRestarts
  \/ \E id \in PreIds :
       \/ CreateNode(id) \/ AgentStarts(id) \/ NodeRuns(id) \/ NodeFails(id)
       \/ ReportWaiting(id) \/ PollVerdict(id) \/ AgentEnds(id)

PreSpec == PreInit /\ [][PreNext]_preVars

\* The main thread and _diagnose_job keep running, the alarm goes off if the
\* pre-check does not end, and an agent polls every ten seconds.  Nothing is
\* assumed of the cluster, nor of an operator: a check may wait until the alarm.
PreFairness ==
  /\ WF_preVars(StartPreCheck \/ NextOp \/ WakeUp \/ MainLoopEnds)
  /\ WF_preVars(Alarm)
  /\ WF_preVars(DiagnoseJob)
  /\ WF_preVars(\E id \in PreIds : PollVerdict(id) \/ AgentEnds(id))

-----------------------------------------------------------------------------

\* When the operators end the pre-check, each of them has run since the last
\* failed action: "all the operators must re-check if any failed action is
\* executed" (comment in DiagnosisMaster.pre_check).
PassNeedsCleanRound ==
  ended \in {"passed", "bypass", "error"} =>
    \A i \in DOMAIN ops : outcome[i] # "none"

\* A job whose operators let it pass is not aborted by them any more: no
\* abortion of an earlier round is executed after the verdict that releases the
\* agents, and a job that was stopped gets no verdict.  (The alarm may race
\* with an abortion.)
PassedJobNotAborted == stopped => ended \in {"no", "alarm"}

\* The pre-check is over once an agent trains: a pod in which an agent trains
\* goes away by a fault or with the job, never by an action of a pre-check
\* operator.  (The alarm may race with such an action.)
TrainingNotDisturbed ==
  [][\A id \in PreIds :
       agent[id] = "training" /\ agent'[id] = "none"
         => preFaults' # preFaults \/ ended = "alarm"]_preVars

\* No agent waits for ever: it gets the verdict, or its pod or its master is
\* gone.  Holds also if an operator waits for a node that is never scheduled,
\* if the job is aborted, and if the master restarts (wait_pre_check).
PreCheckWaitEnds ==
  \A id \in PreIds : agent[id] = "waiting" ~> agent[id] # "waiting"
=============================================================================
