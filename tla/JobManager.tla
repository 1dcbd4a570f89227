----------------------------- MODULE JobManager -----------------------------
(***************************************************************************)
(* The job manager of the distributed master for an AllReduce job on       *)
(* Kubernetes: the node table of JobContext, the threads that change it    *)
(* (the pod monitor, the heartbeat monitor, the diagnosis loop, the RPC    *)
(* handlers), the callbacks that stop the job, and the main loop of        *)
(* DistributedJobMaster.run.  No dataset is registered, so task_manager    *)
(* neither finishes nor hangs.                                             *)
(*                                                                         *)
(* update_job_node stores a deep copy, so the node object a thread works   *)
(* on is its own once it has been stored: a thread reads the table before  *)
(* it takes the lock and goes on with what it read.                        *)
(***************************************************************************)
EXTENDS PodCluster

CONSTANTS
  MinNodes,         \* min_nodes of the training rendezvous
  MaxRelaunch,      \* max_relaunch_count of a worker
  Critical,         \* the critical workers of the job
  RemoveExited,     \* remove_exited_node
  Suspects,         \* the ranks whose pods may have trouble
  FailReasons,      \* the exit reasons a failing pod may have
  Scenarios         \* what may happen to the job: sequences of HappeningKinds

HappeningKinds ==
  {"fail", "evict", "hang",      \* of a pod
   "diagnose", "node_error",     \* verdicts of the diagnosis and of an agent
   "check",                      \* a node check that fails
   "service", "api",             \* calls to Kubernetes that fail
   "suspend", "master",          \* the job is suspended, the master replaced
   "finish"}                     \* training ends: the last of a scenario

ASSUME JobManagerAssumption ==
  /\ MinNodes \in 1 .. N /\ MaxRelaunch \in Nat
  /\ Critical \subseteq NodeRanks /\ Suspects \subseteq NodeRanks
  /\ RemoveExited \in BOOLEAN /\ FailReasons \subseteq ExitReasons
  /\ \A s \in Scenarios : ToSet(s) \subseteq HappeningKinds

VARIABLES
  table,     \* _job_nodes[worker]
  stage,     \* _job_stage, and _job_pre_status when it is suspended
  failed,    \* _failed_nodes
  avail,     \* _available_worker_num
  code,      \* _exit_code of the master
  main,      \* where the main loop is
  mpc,       \* where the monitor thread is
  batch,     \* the events _process_list_nodes has still to process
  listing,   \* the ids and ranks of the pods of the last list
  dead,      \* the dead-node events of the heartbeat thread
  thr,       \* what each thread is doing with an event
  scenario,  \* what happens in this behaviour, in this order
  happened   \* how much of it has happened

jobVars == <<table, stage, failed, avail, code>>
threadVars == <<main, mpc, batch, listing, dead, thr>>
fate == <<scenario, happened>>
allJobVars == <<clusterVars, jobVars, threadVars, fate>>

Threads == {"monitor", "heartbeat", "diagnosis", "rpc"}

Absent == [status |-> "Absent"]
Idle == [pc |-> "idle"]

Known == {id \in Ids : table[id] # Absent}
WithRank(r) == {id \in Known : table[id].rank = r}

\* A Node object.
NewNode(rank, max, critical) ==
  [status |-> "Initial", rank |-> rank, rcount |-> 0, max |-> max,
   relaunchable |-> TRUE, released |-> FALSE, reason |-> "",
   reported |-> "none", hb |-> FALSE, critical |-> critical]

\* _init_nodes
InitTable ==
  [id \in Ids |-> IF id < N THEN NewNode(id, MaxRelaunch, id \in Critical)
                  ELSE Absent]

\* start(): with a pod alive a recovered master does not launch workers.
StartPlan ==
  IF \E id \in Listed : PodStatus(pods[id]) \in {"Pending", "Running"}
  THEN <<>> ELSE ScaleUp(N)

JobInit ==
  /\ pods = [id \in Ids |-> NoPod]
  /\ createQ = StartPlan
  /\ watching = FALSE /\ stream = <<>>
  /\ table = InitTable
  /\ stage = [now |-> "init", before |-> "init"]
  /\ failed = {} /\ avail = N /\ code = 0
  /\ main = "top" /\ mpc = "list" /\ batch = <<>> /\ listing = {}
  /\ dead = {}
  /\ thr = [t \in Threads |-> Idle]
  /\ scenario \in Scenarios /\ happened = 0

\* It is the turn of kind in the scenario.
Turn(kind) == happened < Len(scenario) /\ scenario[happened + 1] = kind

Happens(kind) ==
  Turn(kind) /\ happened' = happened + 1 /\ UNCHANGED scenario

-----------------------------------------------------------------------------
(* The callbacks, and what they ask of the master.                         *)

\* request_stop of the master and of JobContext.
RequestStop(success) ==
  /\ code' = IF success THEN 0 ELSE 1
  /\ stage' = [stage EXCEPT !.now = "stopped"]

\* all_critical_node_completed in table T.
CriticalCompleted(T) ==
  \A id \in Ids : T[id] # Absent /\ T[id].critical =>
    T[id].status \notin AliveStatus

\* _stop_job_if_needed of AllReduceNodeHandlingCallback.
StopJobIfNeeded(node) ==
  LET exhausted == node.rcount >= node.max
      limit == IF N > node.max THEN N ELSE node.max
  IN  /\ avail' = IF exhausted THEN avail - 1 ELSE avail
      /\ IF \/ node.critical /\ (exhausted \/ node.reason = "Fatal")
            \/ Cardinality(failed') >= limit
            \/ avail' < MinNodes
         THEN RequestStop(FALSE)
         ELSE UNCHANGED <<code, stage>>

\* _process_node_events: on_node_started, on_node_succeeded, on_node_failed
\* and on_node_deleted.  T is the table with the new status.
Callbacks(flow, id, T) ==
  CASE flow.to = "Succeeded" ->
         /\ IF T[id].critical /\ CriticalCompleted(T) THEN RequestStop(TRUE)
            ELSE UNCHANGED <<code, stage>>
         /\ UNCHANGED <<failed, avail>>
    [] flow.to = "Failed" ->
         failed' = failed \cup {id} /\ StopJobIfNeeded(T[id])
    [] flow.to = "Deleted" /\ flow.from \notin ExitedStatus ->
         UNCHANGED failed /\ StopJobIfNeeded(T[id])
    [] OTHER -> UNCHANGED <<failed, avail, code, stage>>

\* _should_relaunch, after the callbacks.
ShouldRelaunch(node, flow) ==
  /\ flow.relaunch /\ node.relaunchable
  /\ stage'.now # "stopping"
  /\ node.reason \notin {"Fatal", "Relaunched", "OOM"}
  /\ node.reason # "Killed" => node.rcount < node.max

-----------------------------------------------------------------------------
(* _process_event, in the steps between which other threads run.           *)

\* Mutant: also the deletions that the manager itself decided on.
SkipsDeletionAll(ev) ==
  /\ ev.type = "DELETED" \/ ev.status = "Deleted"
  /\ Exists(ev.id) /\ pods[ev.id].phase = "Running" /\ ~pods[ev.id].deleting

\* The monitor skips the deletion of a pod that runs.
SkipsDeletion(ev) ==
  /\ ev.type = "DELETED" \/ ev.status = "Deleted"
  /\ ev.reason \notin {"DiagFail", "NoHeartbeat"}
  /\ Exists(ev.id) /\ pods[ev.id].phase = "Running" /\ ~pods[ev.id].deleting

\* The flow an event causes; a node that succeeded has none.
FlowOf(cur, ev) ==
  IF cur.status = "Succeeded" THEN {}
  ELSE GetNodeStateFlow(cur.status, ev.type, ev.status)

\* Up to the lock: thread t finds the node in table T and updates its info.
\* With no flow for what it found, it takes the lock only to leave.
ReadNode(t, ev, T) ==
  IF SkipsDeletion(ev) \/ T[ev.id] = Absent
  THEN table' = T /\ UNCHANGED thr
  ELSE LET cur == [T[ev.id] EXCEPT !.rcount = IF @ < ev.rcount THEN ev.rcount
                                              ELSE @,
                                   !.released = ev.released]
       IN  /\ table' = [T EXCEPT ![ev.id] = cur]
           /\ thr' = IF FlowOf(cur, ev) = {} THEN thr
                     ELSE [thr EXCEPT ![t] = [pc |-> "commit", ev |-> ev,
                                              cur |-> cur]]

\* Under the lock: the status, the callbacks and whether to relaunch.
CommitEvent(t) ==
  /\ thr[t].pc = "commit"
  /\ LET ev == thr[t].ev
         cur == thr[t].cur
         node == [cur EXCEPT !.status = ev.status, !.reason = ev.reason]
         T == [table EXCEPT ![ev.id] = node]
     IN  \E flow \in FlowOf(cur, ev) :
           /\ table' = T
           /\ Callbacks(flow, ev.id, T)
           /\ thr' = [thr EXCEPT ![t] =
                IF ShouldRelaunch(node, flow)
                THEN [pc |-> "relaunch", id |-> ev.id,
                      cur |-> [node EXCEPT !.rcount = @ + 1]]
                ELSE Idle]
  /\ UNCHANGED <<clusterVars, main, mpc, batch, listing, dead, fate>>

\* Mutant: the next id comes from the pods, not from the node table.
RelaunchNodeByPods(t) ==
  /\ thr[t].pc = "relaunch"
  /\ LET old == thr[t].id
         node == thr[t].cur
         new == IF Listed = {} THEN 0 ELSE Max(Listed) + 1
         release == RemoveExited /\ node.status \in ExitedStatus
     IN  /\ new <= MaxId
         /\ table' = [table EXCEPT
              ![new] = [node EXCEPT !.status = "Initial", !.hb = FALSE,
                          !.released = FALSE, !.relaunchable = TRUE,
                          !.reported = "none"],
              ![old] = [node EXCEPT !.relaunchable = FALSE,
                          !.released = @ \/ release]]
         /\ thr' = [thr EXCEPT ![t] =
              [pc |-> "scale", remove |-> IF RemoveExited THEN {old} ELSE {},
               launch |-> [id |-> new, rank |-> node.rank,
                           rcount |-> node.rcount]]]
  /\ UNCHANGED <<clusterVars, stage, failed, avail, code, main, mpc, batch,
                 listing, dead, fate>>

\* _relaunch_node and TrainingNodeManager.relaunch_node: a copy of the node
\* under the next id.  The old node is not relaunchable any more.
RelaunchNode(t) ==
  /\ thr[t].pc = "relaunch"
  /\ LET old == thr[t].id
         node == thr[t].cur
         new == Max(Known) + 1
         release == RemoveExited /\ node.status \in ExitedStatus
     IN  /\ new <= MaxId
         /\ table' = [table EXCEPT
              ![new] = [node EXCEPT !.status = "Initial", !.hb = FALSE,
                          !.released = FALSE, !.relaunchable = TRUE,
                          !.reported = "none"],
              ![old] = [node EXCEPT !.relaunchable = FALSE,
                          !.released = @ \/ release]]
         /\ thr' = [thr EXCEPT ![t] =
              [pc |-> "scale", remove |-> IF RemoveExited THEN {old} ELSE {},
               launch |-> [id |-> new, rank |-> node.rank,
                           rcount |-> node.rcount]]]
  /\ UNCHANGED <<clusterVars, stage, failed, avail, code, main, mpc, batch,
                 listing, dead, fate>>

\* _remove_nodes: a pod not yet created leaves the queue, others are deleted.
RemoveNodes(D) ==
  LET queued == {createQ[i].id : i \in 1 .. Len(createQ)}
  IN  /\ DeletePods(D \ queued)
      /\ createQ' = SelectSeq(createQ, LAMBDA l : l.id \notin D)

\* PodScaler.scale waits while the job is suspended, then removes nodes.
ScaleRemove(t) ==
  /\ thr[t].pc = "scale" /\ stage.now # "suspended"
  /\ RemoveNodes(thr[t].remove)
  /\ thr' = [thr EXCEPT ![t] = [pc |-> "launch", launch |-> thr[t].launch]]
  /\ UNCHANGED <<jobVars, main, mpc, batch, listing, dead, fate>>

\* PodScaler.scale waits until the queue is empty, then adds to it.
ScaleLaunch(t) ==
  /\ thr[t].pc = "launch"
  /\ createQ = <<>> \/ stage.now = "stopped"
  /\ createQ' = Append(createQ, thr[t].launch)
  /\ thr' = [thr EXCEPT ![t] = Idle]
  /\ UNCHANGED <<pods, watching, stream, jobVars, main, mpc, batch, listing, dead,
                 fate>>

\* PodScaler.scale drops a plan when it cannot read the ElasticJob.
ScaleSkipped(t) ==
  /\ thr[t].pc = "scale" /\ Happens("api")
  /\ thr' = [thr EXCEPT ![t] = Idle]
  /\ UNCHANGED <<clusterVars, jobVars, main, mpc, batch, listing, dead>>

-----------------------------------------------------------------------------
(* The monitor thread: PodWatcher.list, _process_list_nodes and the watch. *)

\* A list shows every pod.  It also deletes the pods that succeeded, and those
\* (late) whose agent reported success more than 600 seconds ago.
ListPods ==
  /\ mpc = "list" /\ thr["monitor"] = Idle
  /\ LET order == Ascending(Listed)
         type(id) == IF pods[id].deleting THEN "DELETED" ELSE "MODIFIED"
         succeeded == {id \in Listed : pods[id].phase = "Succeeded"}
     IN  /\ batch' = [i \in 1 .. Len(order) |->
                        PodEvent(type(order[i]), order[i], pods[order[i]])]
         /\ \E late \in SUBSET {id \in Listed \cap Known :
                                  table[id].reported = "succ"} :
              DeletePods(succeeded \cup late)
  /\ listing' = {[id |-> id, rank |-> pods[id].rank] : id \in Listed}
  /\ mpc' = "batch"
  /\ UNCHANGED <<createQ, jobVars, main, dead, thr, fate>>

\* The next pod of the list.  A pod the table does not have is added with the
\* status of the pod and the defaults of a Node object.
TakeListed ==
  /\ mpc = "batch" /\ thr["monitor"] = Idle /\ batch # <<>>
  /\ LET ev == Head(batch)
         added == [NewNode(ev.rank, 0, FALSE) EXCEPT
                     !.status = ev.status, !.reason = ev.reason,
                     !.rcount = ev.rcount]
         T == IF table[ev.id] = Absent /\ ev.status # "Deleted"
              THEN [table EXCEPT ![ev.id] = added] ELSE table
     IN  ReadNode("monitor", ev, T)
  /\ batch' = Tail(batch)
  /\ UNCHANGED <<clusterVars, stage, failed, avail, code, main, mpc, listing,
                 dead, fate>>

\* An event made by the manager itself from node id, with another status.
OwnEvent(id, status, reason, released) ==
  [type |-> "DELETED", id |-> id, rank |-> table[id].rank, status |-> status,
   reason |-> reason, rcount |-> table[id].rcount, released |-> released]

\* Mutant: a node not launched yet counts as gone too.
SweepNodesAll ==
  /\ mpc = "batch" /\ thr["monitor"] = Idle /\ batch = <<>>
  /\ LET missing == {id \in Known : ~table[id].released /\
                       \A l \in listing : l.id # id}
         gone == missing
         order == Ascending(gone)
         reason(id) == IF table[id].status = "Initial" THEN "Relaunched"
                       ELSE table[id].reason
     IN  batch' = [i \in 1 .. Len(order) |->
                     OwnEvent(order[i], "Deleted", reason(order[i]), TRUE)]
  /\ mpc' = "sweep"
  /\ UNCHANGED <<clusterVars, jobVars, main, listing, dead, thr, fate>>

\* The nodes whose pod is not in the list were deleted without an event; one
\* that was never launched counts as replaced if its rank has a later pod.
SweepNodes ==
  /\ mpc = "batch" /\ thr["monitor"] = Idle /\ batch = <<>>
  /\ LET missing == {id \in Known : ~table[id].released /\
                       \A l \in listing : l.id # id}
         replaced(id) == \E l \in listing : l.rank = table[id].rank /\ id < l.id
         gone == {id \in missing : table[id].status # "Initial" \/ replaced(id)}
         order == Ascending(gone)
         reason(id) == IF table[id].status = "Initial" THEN "Relaunched"
                       ELSE table[id].reason
     IN  batch' = [i \in 1 .. Len(order) |->
                     OwnEvent(order[i], "Deleted", reason(order[i]), TRUE)]
  /\ mpc' = "sweep"
  /\ UNCHANGED <<clusterVars, jobVars, main, listing, dead, thr, fate>>

TakeMissing ==
  /\ mpc = "sweep" /\ thr["monitor"] = Idle /\ batch # <<>>
  /\ ReadNode("monitor", Head(batch), table)
  /\ batch' = Tail(batch)
  /\ UNCHANGED <<clusterVars, stage, failed, avail, code, main, mpc, listing,
                 dead, fate>>

\* The watch starts at the present version of the pods: what happened since
\* the list shows in the next list only.
StartWatch ==
  /\ mpc = "sweep" /\ thr["monitor"] = Idle /\ batch = <<>>
  /\ watching' = TRUE /\ stream' = <<>>
  /\ mpc' = "watch" /\ listing' = {}
  /\ UNCHANGED <<pods, createQ, jobVars, main, batch, dead, thr, fate>>

TakeWatched ==
  /\ mpc = "watch" /\ thr["monitor"] = Idle /\ stream # <<>>
  /\ ReadNode("monitor", Head(stream), table)
  /\ stream' = Tail(stream)
  /\ UNCHANGED <<pods, createQ, watching, stage, failed, avail, code, main,
                 mpc, batch, listing, dead, fate>>

\* The stream ends after 60 seconds or with an error.
EndWatch ==
  /\ mpc = "watch" /\ thr["monitor"] = Idle
  /\ watching' = FALSE /\ stream' = <<>>
  /\ mpc' = "list"
  /\ UNCHANGED <<pods, createQ, jobVars, main, batch, listing, dead, thr,
                 fate>>

-----------------------------------------------------------------------------
(* The heartbeat thread, the diagnosis loop and the RPC handlers.          *)

\* The agent in the pod can be heard.
Beats(id) ==
  /\ Exists(id) /\ pods[id].phase = "Running" /\ pods[id].agent = "up"

\* _get_dead_node_event: no heartbeat for 600 seconds.
FindDeadNodes ==
  /\ dead = {} /\ thr["heartbeat"] = Idle
  /\ LET late == {id \in Known : table[id].hb /\ table[id].status = "Running"
                    /\ table[id].reported # "succ" /\ ~Beats(id)}
     IN  /\ late # {}
         /\ dead' = {OwnEvent(id, "Failed", "NoHeartbeat", table[id].released) :
                       id \in late}
         /\ failed' = failed \cup late
  /\ UNCHANGED <<clusterVars, table, stage, avail, code, main, mpc, batch,
                 listing, thr, fate>>

TakeDeadNode ==
  /\ thr["heartbeat"] = Idle
  /\ \E ev \in dead :
       /\ ReadNode("heartbeat", ev, table)
       /\ dead' = dead \ {ev}
  /\ UNCHANGED <<clusterVars, stage, failed, avail, code, main, mpc, batch,
                 listing, fate>>

\* _process_node_action: the diagnosis found the node abnormal.
DiagnoseNode(id) ==
  /\ thr["diagnosis"] = Idle /\ id \in Known /\ Happens("diagnose")
  /\ table[id].rank \in Suspects
  /\ ReadNode("diagnosis",
              OwnEvent(id, "Failed", "DiagFail", table[id].released), table)
  /\ UNCHANGED <<clusterVars, stage, failed, avail, code, main, mpc, batch,
                 listing, dead>>

\* handle_training_failure with NODE_ERROR, which the agent of a node that
\* failed the node check sends.  It does not take the lock.
HandleTrainingFailure(id) ==
  /\ thr["rpc"] = Idle /\ id \in Known /\ Beats(id) /\ Happens("node_error")
  /\ table[id].rank \in Suspects
  /\ IF table[id].released
     THEN UNCHANGED <<failed, thr>>
     ELSE /\ failed' = failed \cup {id}
          /\ thr' = IF table[id].relaunchable
                    THEN [thr EXCEPT !["rpc"] =
                            [pc |-> "relaunch", id |-> id, cur |-> table[id]]]
                    ELSE thr
  /\ UNCHANGED <<clusterVars, table, stage, avail, code, main, mpc, batch,
                 listing, dead>>

\* collect_node_heart_beat
CollectHeartbeat(id) ==
  /\ id \in Known /\ Beats(id) /\ ~table[id].hb
  /\ table' = [table EXCEPT ![id].hb = TRUE]
  /\ UNCHANGED <<clusterVars, stage, failed, avail, code, threadVars, fate>>

\* process_reported_node_event with SUCCEEDED_EXITED: the job is stopping.
ReportSucceeded(id) ==
  /\ id \in Known /\ Beats(id) /\ Turn("finish")
  /\ table' = [table EXCEPT ![id].reported = "succ"]
  /\ stage' = [stage EXCEPT !.now = "stopping"]
  /\ pods' = [pods EXCEPT ![id].agent = "done"]
  /\ UNCHANGED <<createQ, watching, stream, failed, avail, code, threadVars,
                 fate>>

\* process_reported_node_event with NODE_CHECK_FAILED.
ReportCheckFailed(id) ==
  /\ id \in Known /\ Beats(id) /\ table[id].reported = "none"
  /\ Happens("check")
  /\ table' = [table EXCEPT ![id].reported = "checkfailed"]
  /\ UNCHANGED <<clusterVars, stage, failed, avail, code, threadVars>>

-----------------------------------------------------------------------------
(* DistributedJobMaster.run.                                               *)

\* run() leaves the loop with exit code c; stop() then releases every node
\* and allows no relaunch, and the process ends.
Leave(c, T) ==
  /\ main' = "exited" /\ code' = c
  /\ table' = [id \in Ids |->
       IF T[id] = Absent THEN Absent
       ELSE [T[id] EXCEPT !.released = TRUE, !.relaunchable = FALSE,
                          !.critical = FALSE]]

\* is_request_stopped at the top of the loop.
SeeStop ==
  /\ main = "top" /\ stage.now = "stopped"
  /\ Leave(code, table)
  /\ UNCHANGED <<clusterVars, stage, failed, avail, mpc, batch, listing, dead,
                 thr, fate>>

\* is_all_initial_workers_node_check_failed
AllChecksFailed ==
  LET first == {id \in Known : id < N}
  IN  first # {} /\ \A id \in first : table[id].reported = "checkfailed"

\* find_pending_node_caused_training_hang, when the time is up: a node is
\* pending, and all are or fewer run than the rendezvous needs.
PendingTooLong ==
  LET pending == {id \in Known : ~table[id].released
                                 /\ table[id].status = "Pending"}
      running == {id \in Known : ~table[id].released
                                 /\ table[id].status = "Running"}
  IN  /\ pending # {}
      /\ Cardinality(pending) = N \/ Cardinality(running) < MinNodes

\* is_training_hang_by_insufficient_worker, when the time is up.
TooFewNodes ==
  LET available == {id \in Known : ~table[id].released
                                   /\ table[id].status \in AliveStatus}
  IN  available # {} /\ Cardinality(available) < MinNodes

\* should_early_stop
EarlyStop ==
  /\ main = "top" /\ stage.now # "stopped"
  /\ AllChecksFailed \/ PendingTooLong \/ TooFewNodes
  /\ stage' = [stage EXCEPT !.now = "stopped"]
  /\ Leave(1, table)
  /\ UNCHANGED <<clusterVars, failed, avail, mpc, batch, listing, dead, thr,
                 fate>>

\* all_nodes_exited in table T.
AllNodesExited(T) ==
  /\ \E id \in Known : T[id].status # "Initial"
  /\ \A id \in Known : T[id].released \/ T[id].status \notin AliveStatus

\* all_nodes_failed
AllNodesFailed(T) ==
  \A id \in Known : T[id].status \in {"Failed", "Deleted", "Initial"}

\* has_exited_worker
HasExitedWorker(T) ==
  \E id \in Known :
    \/ T[id].reason = "Fatal"
    \/ T[id].status = "Succeeded"
    \/ T[id].status = "Deleted" /\ T[id].reported = "succ"

\* wait_worker_restart
WaitWorkerRestart(T) ==
  \E id \in Known : T[id].reason = "Killed" /\ T[id].rcount < T[id].max

\* The rest of an iteration, after clear_exited_nodes has left table T.
Decide(T) ==
  IF AllNodesExited(T) /\ ~(~HasExitedWorker(T) /\ WaitWorkerRestart(T))
  THEN Leave(IF AllNodesFailed(T) THEN 1 ELSE code, T)
  ELSE main' = "top" /\ table' = T /\ UNCHANGED code

\* clear_exited_nodes: the pods of the nodes that exited are removed; scale()
\* waits for the queue here too.
ClearExitedNodes ==
  LET exited == {id \in Known : RemoveExited /\ ~table[id].released
                                /\ table[id].status \in ExitedStatus}
  IN  /\ main = "top" /\ stage.now # "stopped" /\ ~AllChecksFailed
      /\ IF exited = {}
         THEN Decide(table) /\ UNCHANGED clusterVars
         ELSE /\ stage.now # "suspended"
              /\ table' = [id \in Ids |-> IF id \in exited
                             THEN [table[id] EXCEPT !.released = TRUE]
                             ELSE table[id]]
              /\ RemoveNodes(exited)
              /\ main' = "scaling" /\ UNCHANGED code
      /\ UNCHANGED <<stage, failed, avail, mpc, batch, listing, dead, thr,
                     fate>>

AfterClearing ==
  /\ main = "scaling" /\ (createQ = <<>> \/ stage.now = "stopped")
  /\ Decide(table)
  /\ UNCHANGED <<clusterVars, stage, failed, avail, mpc, batch, listing, dead,
                 thr, fate>>

-----------------------------------------------------------------------------
(* The ElasticJob watcher, and a master that is replaced.                  *)

Suspend ==
  /\ stage.now \in {"init", "running"} /\ Happens("suspend")
  /\ stage' = [now |-> "suspended", before |-> stage.now]
  /\ UNCHANGED <<clusterVars, table, failed, avail, code, threadVars>>

Unsuspend ==
  /\ stage.now = "suspended"
  /\ stage' = [stage EXCEPT !.now = stage.before]
  /\ UNCHANGED <<clusterVars, table, failed, avail, code, threadVars, fate>>

\* The master pod is evicted and the ElasticJob controller starts a new one,
\* which has only the pods of the cluster.
ReplaceMaster ==
  /\ Happens("master")
  /\ createQ' = StartPlan
  /\ watching' = FALSE /\ stream' = <<>>
  /\ table' = InitTable
  /\ stage' = [now |-> "init", before |-> "init"]
  /\ failed' = {} /\ avail' = N /\ code' = 0
  /\ main' = "top" /\ mpc' = "list" /\ batch' = <<>> /\ listing' = {}
  /\ dead' = {} /\ thr' = [t \in Threads |-> Idle]
  /\ UNCHANGED pods

-----------------------------------------------------------------------------
Process(t) ==
  \/ CommitEvent(t) \/ RelaunchNode(t) \/ ScaleRemove(t) \/ ScaleLaunch(t)

Monitor ==
  ListPods \/ TakeListed \/ SweepNodes \/ TakeMissing \/ StartWatch
    \/ TakeWatched \/ EndWatch

MainLoop == SeeStop \/ EarlyStop \/ ClearExitedNodes \/ AfterClearing

\* What Kubernetes does of itself.
Kubernetes ==
  /\ CreatePod \/ \E id \in Ids : PodStarts(id) \/ PodSucceeds(id) \/ PodGone(id)
  /\ UNCHANGED <<jobVars, threadVars, fate>>

\* What happens to the cluster.
ClusterFault ==
  /\ \/ Happens("service") /\ ServiceFails
     \/ \E id \in {i \in Listed : pods[i].rank \in Suspects} :
          \/ Happens("fail") /\ \E reason \in FailReasons : PodFails(id, reason)
          \/ Happens("evict") /\ PodEvicted(id)
          \/ Happens("hang") /\ PodHangs(id)
  /\ UNCHANGED <<jobVars, threadVars>>

JobNext ==
  /\ main # "exited"
  /\ \/ Kubernetes \/ ClusterFault
     \/ \E t \in Threads : Process(t) \/ ScaleSkipped(t)
     \/ Monitor
     \/ FindDeadNodes \/ TakeDeadNode
     \/ \E id \in Ids : \/ DiagnoseNode(id) \/ HandleTrainingFailure(id)
                        \/ CollectHeartbeat(id) \/ ReportSucceeded(id)
                        \/ ReportCheckFailed(id)
     \/ MainLoop
     \/ Suspend \/ Unsuspend \/ ReplaceMaster

JobSpec == JobInit /\ [][JobNext]_allJobVars

\* The threads of the master run, Kubernetes creates, starts and removes pods,
\* and a suspended job is resumed.  Nothing is assumed of the main loop, of the
\* end of a watch or of the heartbeats.
JobFairness ==
  /\ WF_allJobVars(\E t \in Threads : Process(t))
  /\ WF_allJobVars(ListPods \/ TakeListed \/ SweepNodes \/ TakeMissing
                     \/ StartWatch \/ TakeWatched)
  /\ WF_allJobVars(FindDeadNodes \/ TakeDeadNode)
  /\ WF_allJobVars(Unsuspend)
  /\ WF_allJobVars(Kubernetes)

JobFairSpec == JobSpec /\ JobFairness

-----------------------------------------------------------------------------
(* Properties.                                                             *)

Queued(id) == \E i \in 1 .. Len(createQ) : createQ[i].id = id
Scaling(t) == thr[t].pc \in {"scale", "launch"}
Launching(id) == \E t \in Threads : Scaling(t) /\ thr[t].launch.id = id
Relaunching(r) ==
  \E t \in Threads : thr[t].pc = "relaunch" /\ thr[t].cur.rank = r

\* The scaler drops a plan when it cannot read the ElasticJob, and a replaced
\* master has only what the cluster shows.  A relaunched pod that is evicted
\* before the monitor sees it, between two watches, is never missed: the sweep
\* skips its node, which is still Initial.
LosesLaunches ==
  \/ ToSet(scenario) \cap {"api", "master"} # {}
  \/ \E i \in 2 .. Len(scenario) : scenario[i] = "evict"

\* The plan of a replaced master numbers its launches from the pods it finds:
\* the ids need not be those of its node table.
Replaced == "master" \in ToSet(scenario)

\* However the threads that relaunch interleave, an id is launched for one
\* node only: what is queued, what a thread is about to queue and what runs
\* each has its id and its rank in the node table of the master that started
\* the job, and no two launches of a master have one id.
LaunchesKnown ==
  /\ \A i \in 1 .. Len(createQ) :
       /\ \/ Replaced
          \/ /\ createQ[i].id \in Known
             /\ table[createQ[i].id].rank = createQ[i].rank
       /\ \A j \in 1 .. Len(createQ) :
            createQ[i].id = createQ[j].id => i = j
  /\ \A id \in Listed :
       Replaced \/ (id \in Known /\ table[id].rank = pods[id].rank)
  /\ \A t \in Threads : Scaling(t) =>
       /\ ~Queued(thr[t].launch.id)
       /\ \A u \in Threads :
            Scaling(u) /\ thr[t].launch.id = thr[u].launch.id => t = u

\* The job is ending, or the last node of the rank may not be relaunched.
GivenUp(r) ==
  \/ stage.now \in {"stopping", "stopped"}
  \/ LET last == table[Max(WithRank(r))]
     IN  /\ last.status \in {"Failed", "Deleted"}
         /\ \/ last.reason \in {"Fatal", "OOM"}
            \/ last.reason # "Relaunched" /\ last.rcount >= last.max

\* While the master runs, every rank of the job has a node that is up or whose
\* pod is on its way (queued, created, or in the hands of a thread), or a thread
\* is about to relaunch it, unless the code has a reason to give the rank up.
\* A rank that none of these holds of would never run again: no event comes.
NoRankForgotten ==
  main # "exited" /\ ~LosesLaunches =>
    \A r \in NodeRanks :
      \/ \E id \in WithRank(r) :
           \/ table[id].status \in {"Pending", "Running", "Succeeded"}
           \/ table[id].status = "Initial"
              /\ (Queued(id) \/ Exists(id) \/ Launching(id))
      \/ Relaunching(r)
      \/ GivenUp(r)

\* _relaunch_node: "Avoid repeatedly relaunching the node."  A thread relaunches
\* a node only while the node table says that it is relaunchable.
RelaunchedOnce ==
  [][\A t \in Threads :
       RelaunchNode(t) => table[thr[t].id].relaunchable]_allJobVars

\* Every rank has a pod that runs and whose agent does not hang, or is given up.
Staffed ==
  \A r \in NodeRanks :
    \/ GivenUp(r)
    \/ \E id \in Listed : /\ pods[id].rank = r /\ pods[id].phase = "Running"
                           /\ pods[id].agent # "hung"

\* Whatever happens to a pod, the threads of the master bring the job to a state
\* where every rank runs again, or end it: no wait (of scale() for its queue, of
\* a suspended job, for a heartbeat or a lost watch event) leaves it in between.
JobSettles == []<>(main = "exited" \/ LosesLaunches \/ Staffed)
=============================================================================
