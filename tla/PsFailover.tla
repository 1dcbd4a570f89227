----------------------------- MODULE PsFailover -----------------------------
(***************************************************************************)
(* Parameter servers and the trainers that use them: how the job master    *)
(* scales, migrates and relaunches parameter servers                       *)
(* (ParameterServerManager, PSTrainingAutoScaler), which addresses it      *)
(* serves to the trainers (_query_ps_nodes), and how the chief and the     *)
(* workers follow them (TensorflowFailover, FailoverClient, the hooks of   *)
(* estimator_util).                                                        *)
(*                                                                         *)
(* The table of nodes stores a deep copy at each update, while the lists   *)
(* of the manager keep the object they were given.  A list entry is        *)
(* therefore "live" (the object in the table), "held" (the one that the    *)
(* event handler works on) or "old" (a copy that nobody updates).          *)
(*                                                                         *)
(* SyncClient.join_sync reads `.success` of the boolean that MasterClient  *)
(* returns.  Both hooks raise there, so no trainer gets to the barrier and *)
(* no chief calls ready_for_ps_relaunch: _ps_cluster_changed stays true.   *)
(***************************************************************************)
EXTENDS NodeFlow, FiniteSets, SequencesExt

CONSTANTS
  NumPs,          \* parameter servers of the job
  MaxPsId,        \* bound on the node ids
  Trainers,       \* "chief" and the workers
  MaxPsRelaunch,  \* ps_relaunch_max_num
  MaxPsEvents     \* bound on the plans to execute, the pods that fail and the
                  \* creations that stall

ASSUME PsAssumption ==
  /\ NumPs \in Nat \ {0} /\ MaxPsId \in Nat /\ MaxPsId >= NumPs
  /\ "chief" \in Trainers
  /\ {MaxPsRelaunch, MaxPsEvents} \subseteq Nat

VARIABLES
  table,     \* JobContext: the PS node of each id
  pods,      \* the pod of each id
  events,    \* the statuses of the pod that the watcher has not handled
  held,      \* the ids of the failed nodes that are about to be relaunched
  migrated,  \* _migrated_ps_nodes: the entry for the new node, by old id
  dropped,   \* the ids of the live entries of _pre_dropped_ps
  training,  \* _training_ps_cluster
  next,      \* the addresses of _next_training_ps_cluster
  versions,  \* ElasticPsService: the global and the local cluster versions
  trainer,   \* the state and the TF_CONFIG of each trainer
  stopped,   \* the job has been asked to stop
  happened   \* the number of plans and faults so far

managerVars == <<table, migrated, dropped, training, next>>
psVars ==
  <<table, pods, events, held, migrated, dropped, training, next, versions,
    trainer, stopped, happened>>

PsIds == 0 .. MaxPsId
NoPs == [status |-> "None"]
NoRef == [obj |-> "none"]

\* A node that has just been made.  The service address is named after the id
\* that it was made for.
PsNode(rank, addr, rcount) ==
  [status |-> "Initial", rank |-> rank, addr |-> addr, rcount |-> rcount,
   released |-> FALSE, late |-> FALSE]

Exists(id) == table[id] # NoPs
Known == {id \in PsIds : Exists(id)}
Fresh == Cardinality(Known)
IsAlivePs(id) ==
  Exists(id) /\ table[id].status = "Running" /\ ~table[id].released
AlivePs == {id \in PsIds : IsAlivePs(id)}

\* The elements of a set of ids or ranks in increasing order.
Ascending(S) ==
  SelectSeq([i \in 1 .. MaxPsId + 1 |-> i - 1], LAMBDA x : x \in S)

LiveRef(id) == [obj |-> "live", id |-> id]
OldRef(id, node) ==
  [obj |-> "old", id |-> id, status |-> node.status, released |-> node.released]

\* What an entry says of its node.
RefStatus(ref) ==
  IF ref.obj = "old" THEN ref.status ELSE table[ref.id].status
RefReleased(ref) ==
  IF ref.obj = "old" THEN ref.released ELSE table[ref.id].released

\* update_job_node(node): the table gets a copy of the node, and the entries
\* that were of the object in the table no longer are.
Detached(ref, id, as) == IF ref = LiveRef(id) THEN as ELSE ref
DetachAll(id, as) ==
  /\ migrated' = [o \in PsIds |-> Detached(migrated[o], id, as)]
  /\ training' = [i \in 1 .. Len(training) |-> Detached(training[i], id, as)]
  /\ dropped' = dropped \ {id}

PsHappens == happened < MaxPsEvents /\ happened' = happened + 1

-----------------------------------------------------------------------------
(* The pods of the parameter servers (external).                           *)

\* The watcher reads each status, or only the last one when it lists the pods.
Emit(id, status) ==
  \E seen \in {Append(events[id], status), <<status>>} :
    events' = [events EXCEPT ![id] = seen]

CreatePs(id) ==
  /\ pods[id] = "None" /\ Exists(id)
  /\ pods' = [pods EXCEPT ![id] = "Pending"]
  /\ events' = [events EXCEPT ![id] = <<"Pending">>]
  /\ UNCHANGED <<managerVars, held, versions, trainer, stopped,
                 happened>>

PsPodRuns(id) ==
  /\ pods[id] = "Pending"
  /\ pods' = [pods EXCEPT ![id] = "Running"]
  /\ Emit(id, "Running")
  /\ UNCHANGED <<managerVars, held, versions, trainer, stopped,
                 happened>>

PsPodFails(id) ==
  /\ PsHappens
  /\ pods[id] = "Running"
  /\ pods' = [pods EXCEPT ![id] = "Failed"]
  /\ Emit(id, "Failed")
  /\ UNCHANGED <<managerVars, held, versions, trainer, stopped>>

\* No pod within seconds_to_wait_failed_ps: Node.timeout
PsCreationStalls(id) ==
  /\ PsHappens
  /\ pods[id] = "None" /\ Exists(id) /\ ~table[id].late
  /\ table' = [table EXCEPT ![id].late = TRUE]
  /\ UNCHANGED <<pods, events, held, migrated, dropped, training, next,
                 versions, trainer, stopped>>

TimedOut(id) == table[id].late /\ table[id].status = "Initial"

-----------------------------------------------------------------------------
(* DistributedJobManager: the events of the PS pods.                       *)

MayRelaunch(id) == table[id].rcount < MaxPsRelaunch

\* _process_event up to the end of its locked part.  A failure increments the
\* global version, and stops the job when the relaunches are used up.
HandlePsEvent(id) ==
  /\ events[id] # <<>>
  /\ events' = [events EXCEPT ![id] = Tail(@)]
  /\ LET status == Head(events[id])
         flow == GetNodeStateFlow(table[id].status, "MODIFIED", status)
         node == [table[id] EXCEPT !.status = status]
         failed == flow # {} /\ status = "Failed"
         relaunch == failed /\ MayRelaunch(id)
     IN  /\ table' = IF flow = {} THEN table ELSE [table EXCEPT ![id] = node]
         /\ IF relaunch
            THEN DetachAll(id, [obj |-> "held", id |-> id])
            ELSE DetachAll(id, OldRef(id, table'[id]))
         /\ held' = IF relaunch THEN held \cup {id} ELSE held
         /\ versions' = IF failed THEN [versions EXCEPT !.global = @ + 1]
                        ELSE versions
         /\ stopped' = (stopped \/ (failed /\ ~relaunch))
  /\ UNCHANGED <<pods, next, trainer, happened>>

\* _relaunch_node: the new node has the rank and the service of the old one,
\* whose entry in the training cluster it takes if the entry is of the very
\* object that the handler holds.
RelaunchAddrNew(id) == Fresh
RelaunchAddr(id) == table[id].addr
RelaunchPs(id) ==
  /\ id \in held /\ Fresh <= MaxPsId
  /\ held' = held \ {id}
  /\ LET old == [table[id] EXCEPT !.rcount = @ + 1, !.released = TRUE]
         heldRef == [obj |-> "held", id |-> id]
         first == SelectInSeq(training, LAMBDA ref : ref = heldRef)
     IN  /\ table' = [table EXCEPT
              ![id] = old,
              ![Fresh] = PsNode(old.rank, RelaunchAddr(id), old.rcount)]
         /\ training' =
              [i \in 1 .. Len(training) |->
                 IF i = first THEN LiveRef(Fresh)
                 ELSE IF training[i] = heldRef THEN OldRef(id, old)
                 ELSE training[i]]
         /\ migrated' =
              [o \in PsIds |-> IF migrated[o] = heldRef THEN OldRef(id, old)
                               ELSE migrated[o]]
  /\ UNCHANGED <<pods, events, dropped, next, versions, trainer, stopped,
                 happened>>

\* update_node_resource_usage, at each report of a PS.
ReportUsage(id) ==
  /\ pods[id] = "Running" /\ IsAlivePs(id)
  /\ DetachAll(id, OldRef(id, table[id]))
  /\ UNCHANGED <<table, pods, events, held, next, versions, trainer, stopped,
                 happened>>

-----------------------------------------------------------------------------
(* PSTrainingAutoScaler.execute_job_optimization_plan.  The plans are those *)
(* of a user, which come at any time; the periodic ones also wait until    *)
(* exist_migrated_ps_nodes is false.                                       *)

\* get_training_ps_cluster, which fills an empty training cluster first.
InitialCluster ==
  Ascending({id \in Known : /\ migrated[id] = NoRef
                            /\ ~table[id].released
                            /\ table[id].status \in AliveStatus})
FilledTraining ==
  IF training # <<>> THEN training
  ELSE [i \in 1 .. Len(InitialCluster) |-> LiveRef(InitialCluster[i])]
FilledNext ==
  IF training # <<>> THEN next
  ELSE next \o [i \in 1 .. Len(InitialCluster) |->
                  table[InitialCluster[i]].addr]
AliveNum ==
  Len(SelectSeq(FilledTraining,
                LAMBDA ref : ~RefReleased(ref) /\ RefStatus(ref) # "Failed"))

\* adjust_ps: _scale_up_ps gives the ranks after the alive ones, and
\* _scale_down_ps drops the running PS with the highest ids.
AdjustPs(count) ==
  /\ PsHappens
  /\ training' = FilledTraining
  /\ next' = FilledNext
  /\ IF count >= AliveNum
     THEN /\ Fresh + count - AliveNum - 1 <= MaxPsId
          /\ table' = [id \in PsIds |->
               IF id \in Fresh .. Fresh + count - AliveNum - 1
               THEN PsNode(AliveNum + id - Fresh, id, 0) ELSE table[id]]
          /\ UNCHANGED dropped
     ELSE /\ dropped' = {id \in AlivePs :
               Cardinality({o \in AlivePs : o > id}) < AliveNum - count}
          /\ UNCHANGED table
  /\ UNCHANGED <<pods, events, held, migrated, versions, trainer, stopped>>

\* _migrate_parameter_server
MigratePs(id) ==
  /\ PsHappens
  /\ IsAlivePs(id) /\ migrated[id] = NoRef /\ Fresh <= MaxPsId
  /\ table' = [table EXCEPT ![Fresh] = PsNode(table[id].rank, Fresh, 0)]
  /\ migrated' = [migrated EXCEPT ![id] = LiveRef(Fresh)]
  /\ UNCHANGED <<pods, events, held, dropped, training, next, versions,
                 trainer, stopped>>

-----------------------------------------------------------------------------
(* What the trainers ask.                                                  *)

\* The addresses of the nodes S by rank; of two with one rank the later wins.
ByRank(S) ==
  LET last(r) == Max({id \in S : table[id].rank = r})
      ranks == Ascending({table[id].rank : id \in S})
  IN  [i \in 1 .. Len(ranks) |-> table[last(ranks[i])].addr]

\* _wait_ps_node
WaitPsNode(id) ==
  /\ Exists(id) /\ ~table[id].released /\ ~TimedOut(id)
  /\ table[id].status \in {"Initial", "Pending"}
AllNewPsReady == \A id \in PsIds : ~WaitPsNode(id)

\* _pre_drop_migrated_ps: nothing until all new nodes run, as the entries of
\* _migrated_ps_nodes say.
PreDropped ==
  LET targets == {migrated[o] : o \in PsIds} \ {NoRef}
  IN  IF \A ref \in targets : RefStatus(ref) = "Running"
      THEN {id \in AlivePs : migrated[id] # NoRef /\ id \notin dropped}
      ELSE {}

\* get_next_training_ps_cluster.  The nodes dropped by _pre_drop_migrated_ps
\* are stored again, so that their entries are "old" after the call.
GetNext ==
  IF AllNewPsReady
  THEN /\ next' = ByRank(AlivePs \ (dropped \cup PreDropped))
       /\ training' = [i \in 1 .. Len(training) |->
            LET ref == training[i] IN
            IF ref.obj = "live" /\ ref.id \in PreDropped
            THEN OldRef(ref.id, table[ref.id]) ELSE ref]
  ELSE UNCHANGED <<next, training>>

HasPsFailure == \E id \in PsIds : Exists(id) /\ TimedOut(id)

\* get_ps_addrs, the TF_CONFIG of a trainer's pod.
GetPsAddrs ==
  ByRank({id \in Known : /\ migrated[id] = NoRef /\ ~table[id].released
                         /\ table[id].status \in AliveStatus
                         /\ ~TimedOut(id)})

-----------------------------------------------------------------------------
(* The trainers.                                                           *)

Become(t, state) == trainer' = [trainer EXCEPT ![t].state = state]

\* The number under which a trainer reports its version: `+1`, for a worker.
TaskId(t) == IF t = "chief" THEN 0 ELSE 1

\* FailoverClient.init_version of a trainer: the first time, it waits for a
\* global version.
InitVersion(t) ==
  /\ trainer[t].state = "init"
  /\ IF versions.worker[TaskId(t)] = 0
     THEN /\ versions' = [versions EXCEPT !.worker[TaskId(t)] = 1]
          /\ Become(t, "wait")
     ELSE /\ Become(t, "train")
          /\ UNCHANGED versions
  /\ UNCHANGED <<managerVars, pods, events, held, stopped,
                 happened>>

GotVersion(t) ==
  /\ trainer[t].state = "wait" /\ versions.global > 0
  /\ Become(t, "train")
  /\ UNCHANGED <<managerVars, pods, events, held, versions, stopped, happened>>

\* init_version of ps:0
PsInitVersion(id) ==
  /\ pods[id] = "Running" /\ table[id].rank = 0 /\ versions.ps = 0
  /\ versions' = [versions EXCEPT !.ps = 1, !.global = 1]
  /\ UNCHANGED <<managerVars, pods, events, held, trainer, stopped, happened>>

\* A round of the failover monitor.
MonitorPsKeepsEnv(t) ==
  /\ trainer[t].state = "train"
  /\ UNCHANGED <<table, pods, events, held, migrated, dropped, versions,
                 stopped, happened>>
  /\ GetNext
  /\ IF next' = trainer[t].addrs THEN UNCHANGED trainer ELSE Become(t, "leave")

MonitorPs(t) ==
  /\ trainer[t].state = "train"
  /\ UNCHANGED <<table, pods, events, held, migrated, dropped, versions,
                 stopped, happened>>
  /\ GetNext
  /\ trainer' =
       IF next' = trainer[t].addrs THEN trainer
       ELSE [trainer EXCEPT ![t] = [addrs |-> next',
               state |-> IF HasPsFailure THEN "exit" ELSE "leave"]]

\* The next hook of the session raises, the training thread ends and
\* TFKubernetesWorker.run starts again with the new TF_CONFIG.
LeaveSession(t) ==
  /\ trainer[t].state = "leave"
  /\ Become(t, "init")
  /\ UNCHANGED <<managerVars, pods, events, held, versions, stopped, happened>>

\* exit_from_recoverable_session: a new pod takes the place of the trainer's.
ReplaceTrainer(t) ==
  /\ trainer[t].state = "exit"
  /\ trainer' = [trainer EXCEPT ![t] = [state |-> "init", addrs |-> GetPsAddrs]]
  /\ UNCHANGED <<managerVars, pods, events, held, versions, stopped, happened>>

-----------------------------------------------------------------------------
PsInit(done) ==
  /\ table = [id \in PsIds |-> IF id < NumPs THEN PsNode(id, id, 0) ELSE NoPs]
  /\ pods = [id \in PsIds |-> "None"]
  /\ events = [id \in PsIds |-> <<>>]
  /\ held = {}
  /\ migrated = [id \in PsIds |-> NoRef]
  /\ dropped = {} /\ training = <<>> /\ next = <<>>
  /\ versions = [global |-> 0, ps |-> 0, worker |-> [i \in {0, 1} |-> 0]]
  /\ trainer = [t \in Trainers |->
                  [state |-> "init", addrs |-> [i \in 1 .. NumPs |-> i - 1]]]
  /\ stopped = FALSE /\ happened = done

PsPods == \E id \in PsIds :
  \/ CreatePs(id)
  \/ PsPodRuns(id)
  \/ PsInitVersion(id)

PsMaster == \E id \in PsIds :
  \/ HandlePsEvent(id)
  \/ RelaunchPs(id)

PsTrainer(t) ==
  \/ InitVersion(t)
  \/ GotVersion(t)
  \/ MonitorPs(t)
  \/ LeaveSession(t)
  \/ ReplaceTrainer(t)

PsEnvironment ==
  \/ \E id \in PsIds :
       \/ PsPodFails(id)
       \/ PsCreationStalls(id)
       \/ ReportUsage(id)
  \/ \E count \in 1 .. NumPs + 1 : AdjustPs(count)
  \/ \E id \in PsIds : MigratePs(id)

PsServers == ~stopped /\ (PsPods \/ PsMaster)
PsTrainers == ~stopped /\ \E t \in Trainers : PsTrainer(t)

PsNext == PsServers \/ PsTrainers \/ (~stopped /\ PsEnvironment)

PsSpec == PsInit(0) /\ [][PsNext]_psVars

\* Kubernetes and the watcher thread go on while they have work, and so do the
\* threads of the trainers.  That no pod and no trainer starves the others
\* follows: the work of each is finite once the plans and faults are.
PsFairness == WF_psVars(PsServers) /\ WF_psVars(PsTrainers)

PsFairSpec == PsSpec /\ PsFairness

-----------------------------------------------------------------------------
(* Properties.                                                             *)

Addresses(seq) == {seq[i] : i \in 1 .. Len(seq)}

\* Every address that the master serves, or that a trainer is configured with,
\* belongs to a node that is not released: no trainer connects to a service
\* whose PS is gone for good.
AddressesBacked ==
  LET used == Addresses(next) \cup
              UNION {Addresses(trainer[t].addrs) : t \in Trainers}
  IN  \A a \in used : \E id \in Known : table[id].addr = a /\ ~table[id].released

\* In the end all trainers train with the addresses that the master serves, a
\* running pod answers at each, and every rank that is not being dropped has
\* one.
PsJobSettles ==
  <>[](\/ stopped
       \/ /\ \A t \in Trainers : trainer[t] = [state |-> "train", addrs |-> next]
          /\ \A a \in Addresses(next) :
               \E id \in Known : table[id].addr = a /\ pods[id] = "Running"
          /\ \A r \in {table[id].rank : id \in Known} :
               LET nodes == {id \in Known : table[id].rank = r}
               IN  nodes \cap dropped = {} =>
                     \E id \in nodes : table[id].addr \in Addresses(next))

\* "Kill those old pods after the new training cluster is built."  In the end
\* no migrated PS runs next to the one that took its place.
ExistMigratedPsNodes == \E o \in PsIds : migrated[o] # NoRef
MigrationEnds == <>[](stopped \/ ~ExistMigratedPsNodes)
=============================================================================
