---------------------------- MODULE DataSharding ----------------------------
(***************************************************************************)
(* Dynamic data sharding: the master hands shards of a dataset to workers  *)
(* as tasks (BatchDatasetManager under TaskManager), workers fetch tasks   *)
(* and report them (ShardingClient over MasterClient), the tasks of a dead *)
(* worker are put back (TaskRescheduleCallback), and the undone shards can *)
(* be checkpointed and restored.                                           *)
(*                                                                         *)
(* A shard is the pair <<epoch, index>>: the code identifies it by its     *)
(* record range, which is the same in every epoch; the epoch is kept here  *)
(* so that the model can tell which work was done.  A task is a shard with *)
(* an id; ids are what workers and master exchange.                        *)
(*                                                                         *)
(* get_dataset_task and report_dataset_task hold TaskManager._lock.        *)
(* _get_shard_checkpoint, restore_dataset_from_checkpoint and the id       *)
(* collection of recover_tasks do not: their steps interleave with the     *)
(* locked operations, unless LockedReads asks what a lock would give.      *)
(***************************************************************************)
EXTENDS Integers, Sequences, FiniteSets

CONSTANTS
  Workers,         \* node ids; a relaunched worker has a new id
  NoWorker,        \* not a worker
  NumShards,       \* shards per epoch
  NumEpochs,       \* num_epochs, positive: the dataset is finite
  MaxTaskRetries,  \* _MAX_TASK_RETRIES, 3 in the code
  TaskType,        \* "training" or "evaluation"
  MaxFaults,       \* bound on crashes, errors, timeouts and lost replies
  MaxCheckpoints,  \* bound on the checkpoints taken
  LockedReads,     \* TRUE iff the unlocked operations are made to hold _lock
  LateRequests     \* TRUE iff a call may be handled after its caller died

ASSUME ShardsAssumption ==
  NumShards \in Nat \ {0} /\ NumEpochs \in Nat \ {0}

ASSUME WorkersAssumption == NoWorker \notin Workers

ASSUME BoundsAssumption ==
  /\ MaxTaskRetries \in Nat /\ MaxFaults \in Nat /\ MaxCheckpoints \in Nat
  /\ TaskType \in {"training", "evaluation"}
  /\ LockedReads \in BOOLEAN /\ LateRequests \in BOOLEAN

VARIABLES
  \* BatchDatasetManager
  todo,        \* self.todo, tasks in order
  doing,       \* self.doing, tasks with the node that fetched them
  nextId,      \* self._task_id
  epoch,       \* the splitter's epoch
  \* what the operations mean, not kept by the code
  done,        \* shards whose task was reported successful
  dropped,     \* shards given up after too many retries
  processed,   \* shards whose samples a worker has used up
  \* workers
  wstate,      \* what the worker is doing
  wtask,       \* the task it holds
  late,        \* the call of a dead worker the master has not handled
  \* the event thread: recover_tasks
  events,      \* dead workers whose exit event is not processed
  scan,        \* the worker whose tasks are being collected
  broken,      \* doing changed under that collection
  recovering,  \* collected ids still to be reported as failed
  \* checkpoint and restore
  ckpt,        \* the checkpoint being taken, or taken
  rst,         \* shards a running restore has still to append
  faults, ckpts

taskVars == <<todo, doing, nextId, epoch>>
ledgerVars == <<done, dropped, processed>>
workerVars == <<wstate, wtask, late>>
recoverVars == <<events, scan, broken, recovering>>
ckptVars == <<ckpt, rst, ckpts>>
vars == <<taskVars, ledgerVars, workerVars, recoverVars, ckptVars, faults>>

AllShards == (1 .. NumEpochs) \X (1 .. NumShards)

Tasks == [id : Nat, shard : AllShards, retry : 0 .. MaxTaskRetries]

DoingTasks ==
  [id : Nat, shard : AllShards, retry : 0 .. MaxTaskRetries, node : Workers]

\* What a worker knows of its task.
HeldTasks == [id : Nat, shard : AllShards]

\* Task.create_invalid_task: what an exhausted dataset answers.
InvalidTask == [id |-> -1, shard |-> <<0, 0>>]

NoCheckpoint ==
  [phase |-> "none", idx |-> 1, todo |-> <<>>, doing |-> <<>>, epoch |-> 0,
   done |-> {}, dropped |-> {}]

EpochFinished == epoch >= NumEpochs

\* Mutant: dispatched tasks are forgotten.
CompletedIgnoresDoing == EpochFinished /\ todo = <<>>

\* BatchDatasetManager.completed and TaskManager.finished.
Completed == EpochFinished /\ todo = <<>> /\ doing = {}

\* With LockedReads, the operations that take _lock wait for the others.
Free ==
  LockedReads =>
    scan = NoWorker /\ rst = <<>> /\ ckpt.phase \in {"none", "ready"}

-----------------------------------------------------------------------------
Init ==
  /\ todo = <<>> /\ doing = {} /\ nextId = 0 /\ epoch = 0
  /\ done = {} /\ dropped = {} /\ processed = {}
  /\ wstate = [w \in Workers |-> "off"]
  /\ wtask = [w \in Workers |-> InvalidTask]
  /\ late = [w \in Workers |-> "none"]
  /\ events = {} /\ scan = NoWorker /\ broken = FALSE /\ recovering = {}
  /\ ckpt = NoCheckpoint /\ rst = <<>>
  /\ faults = 0 /\ ckpts = 0

-----------------------------------------------------------------------------
(* The dataset manager's operations, as a change of the queues.            *)

\* create_shards and _create_todo_tasks when the queue is empty.
StartsEpoch == todo = <<>> /\ ~EpochFinished

NewTasks ==
  [k \in 1 .. NumShards |->
     [id |-> nextId + k - 1, shard |-> <<epoch + 1, k>>, retry |-> 0]]

Queue == IF StartsEpoch THEN NewTasks ELSE todo

\* A change of the doing dict under a running collection is remembered.
WatchScan == broken' = (scan # NoWorker /\ (broken \/ doing' # doing))

\* get_dataset_task on behalf of worker w.
Dispatch(w) ==
  /\ Free
  /\ epoch' = IF StartsEpoch THEN epoch + 1 ELSE epoch
  /\ nextId' = IF StartsEpoch THEN nextId + NumShards ELSE nextId
  /\ IF Queue = <<>>
     THEN todo' = todo /\ doing' = doing
     ELSE /\ todo' = Tail(Queue)
          /\ doing' = doing \cup
               {[id |-> Head(Queue).id, shard |-> Head(Queue).shard,
                 retry |-> Head(Queue).retry, node |-> w]}
  /\ WatchScan

\* Mutant: the retry bound is off by one.
RecoverTaskOnceMore(d) ==
  IF d.retry > MaxTaskRetries
  THEN todo' = todo /\ dropped' = dropped \cup {d.shard}
  ELSE /\ todo' = Append(todo, [id |-> d.id, shard |-> d.shard,
                                retry |-> d.retry + 1])
       /\ dropped' = dropped

\* recover_task: back to the end of the queue with the same id, or given up.
RecoverTask(d) ==
  IF d.retry + 1 > MaxTaskRetries
  THEN todo' = todo /\ dropped' = dropped \cup {d.shard}
  ELSE /\ todo' = Append(todo, [id |-> d.id, shard |-> d.shard,
                                retry |-> d.retry + 1])
       /\ dropped' = dropped

\* Mutant: doing.get instead of doing.pop when the task failed.
ReportTaskStatusKeeps(id, success) ==
  LET known == {d \in doing : d.id = id}
  IN  /\ doing' = IF success THEN doing \ known ELSE doing
      /\ done' = IF success THEN done \cup {d.shard : d \in known} ELSE done
      /\ IF success \/ known = {}
         THEN UNCHANGED <<todo, dropped>>
         ELSE \E d \in known : RecoverTask(d)
      /\ WatchScan

\* Mutant: a failed task is taken out of doing but not queued again.
ReportTaskStatusForgets(id, success) ==
  /\ doing' = {d \in doing : d.id # id}
  /\ done' = IF success
             THEN done \cup {d.shard : d \in {e \in doing : e.id = id}}
             ELSE done
  /\ UNCHANGED <<todo, dropped>>
  /\ WatchScan

\* report_task_status: an id that is not in doing is ignored.
ReportTaskStatus(id, success) ==
  LET known == {d \in doing : d.id = id}
  IN  /\ doing' = doing \ known
      /\ done' = IF success THEN done \cup {d.shard : d \in known} ELSE done
      /\ IF success \/ known = {}
         THEN UNCHANGED <<todo, dropped>>
         ELSE \E d \in known : RecoverTask(d)
      /\ WatchScan

-----------------------------------------------------------------------------
(* Workers.                                                                *)

\* A worker pod starts; a relaunch starts a worker with an unused id.
Launch(w) ==
  /\ wstate[w] = "off"
  /\ wstate' = [wstate EXCEPT ![w] = "idle"]
  /\ UNCHANGED <<taskVars, ledgerVars, wtask, late, recoverVars, ckptVars,
                 faults>>

\* ShardingClient.get_task: an empty shard ends the worker's data.
GetTask(w) ==
  /\ wstate[w] = "idle"
  /\ Dispatch(w)
  /\ IF Queue = <<>>
     THEN /\ wstate' = [wstate EXCEPT ![w] = "exited"]
          /\ UNCHANGED wtask
     ELSE /\ wstate' = [wstate EXCEPT ![w] = "busy"]
          /\ wtask' = [wtask EXCEPT ![w] =
                         [id |-> Head(Queue).id, shard |-> Head(Queue).shard]]
  /\ UNCHANGED <<ledgerVars, late, events, scan, recovering, ckptVars, faults>>

\* MasterClient.get_task: the reply is lost and the call is made again.
GetTaskReplyLost(w) ==
  /\ wstate[w] = "idle"
  /\ faults < MaxFaults
  /\ faults' = faults + 1
  /\ Dispatch(w)
  /\ UNCHANGED <<ledgerVars, workerVars, events, scan, recovering, ckptVars>>

\* The samples of the shard are used up; report_batch_done reports the task.
FinishTask(w) ==
  /\ wstate[w] = "busy"
  /\ wstate' = [wstate EXCEPT ![w] = "ok"]
  /\ processed' = processed \cup {wtask[w].shard}
  /\ UNCHANGED <<taskVars, done, dropped, wtask, late, recoverVars, ckptVars,
                 faults>>

\* report_all_task_error, or report_batch_done with an err_msg.
FailTask(w) ==
  /\ wstate[w] = "busy"
  /\ faults < MaxFaults
  /\ faults' = faults + 1
  /\ wstate' = [wstate EXCEPT ![w] = "err"]
  /\ UNCHANGED <<taskVars, ledgerVars, wtask, late, recoverVars, ckptVars>>

\* report_dataset_task handles the outstanding report of w.
ReportTask(w) ==
  /\ wstate[w] \in {"ok", "err"}
  /\ Free
  /\ ReportTaskStatus(wtask[w].id, wstate[w] = "ok")
  /\ wstate' = [wstate EXCEPT ![w] = "idle"]
  /\ wtask' = [wtask EXCEPT ![w] = InvalidTask]
  /\ UNCHANGED <<nextId, epoch, processed, late, events, scan, recovering,
                 ckptVars, faults>>

\* The reply is lost: MasterClient._report's retry sends the report again.
ReportReplyLost(w) ==
  /\ wstate[w] \in {"ok", "err"}
  /\ faults < MaxFaults
  /\ faults' = faults + 1
  /\ Free
  /\ ReportTaskStatus(wtask[w].id, wstate[w] = "ok")
  /\ UNCHANGED <<nextId, epoch, processed, workerVars, events, scan,
                 recovering, ckptVars>>

\* The call a worker has outstanding in each state.
OutstandingCall(s) ==
  CASE s = "idle" -> "get" [] s = "ok" -> "ok" [] s = "err" -> "err"
    [] OTHER -> "none"

\* The pod dies; a call it has made may still be on its way to the master.
Crash(w) ==
  /\ wstate[w] \in {"idle", "busy", "ok", "err"}
  /\ faults < MaxFaults
  /\ faults' = faults + 1
  /\ wstate' = [wstate EXCEPT ![w] = "dead"]
  /\ \E c \in {"none"} \cup
              (IF LateRequests THEN {OutstandingCall(wstate[w])} ELSE {}) :
       late' = [late EXCEPT ![w] = c]
  /\ events' = events \cup {w}
  /\ UNCHANGED <<taskVars, ledgerVars, wtask, scan, broken, recovering,
                 ckptVars>>

\* The master handles the get_task of a worker that has died.
LateGetTask(w) ==
  /\ late[w] = "get"
  /\ Dispatch(w)
  /\ late' = [late EXCEPT ![w] = "none"]
  /\ UNCHANGED <<ledgerVars, wstate, wtask, events, scan, recovering,
                 ckptVars, faults>>

\* The master handles the report of a worker that has died.
LateReport(w) ==
  /\ late[w] \in {"ok", "err"}
  /\ Free
  /\ ReportTaskStatus(wtask[w].id, late[w] = "ok")
  /\ late' = [late EXCEPT ![w] = "none"]
  /\ UNCHANGED <<nextId, epoch, processed, wstate, wtask, events, scan,
                 recovering, ckptVars, faults>>

-----------------------------------------------------------------------------
(* The master's own threads.                                               *)

\* TaskRescheduleCallback.on_node_failed and on_node_deleted:
\* recover_tasks starts to collect the ids of w's tasks.
RecoverScan(w) ==
  /\ w \in events
  /\ scan = NoWorker /\ recovering = {}
  /\ Free
  /\ events' = events \ {w}
  /\ scan' = w
  /\ UNCHANGED <<taskVars, ledgerVars, workerVars, broken, recovering,
                 ckptVars, faults>>

\* Mutant: only the first task of the worker is recovered.
RecoverCollectFirst ==
  /\ scan # NoWorker
  /\ recovering' = {d.id : d \in {e \in doing : e.node = scan
                        /\ \A f \in doing : f.node = scan => e.id <= f.id}}
  /\ scan' = NoWorker /\ broken' = FALSE
  /\ UNCHANGED <<taskVars, ledgerVars, workerVars, events, ckptVars, faults>>

RecoverCollect ==
  /\ scan # NoWorker
  /\ recovering' = {d.id : d \in {e \in doing : e.node = scan}}
  /\ scan' = NoWorker /\ broken' = FALSE
  /\ UNCHANGED <<taskVars, ledgerVars, workerVars, events, ckptVars, faults>>

\* "dictionary changed size during iteration": log_callback_exception logs
\* the RuntimeError and the event counts as processed.
RecoverRaises ==
  /\ scan # NoWorker /\ broken
  /\ scan' = NoWorker /\ broken' = FALSE
  /\ UNCHANGED <<taskVars, ledgerVars, workerVars, events, recovering,
                 ckptVars, faults>>

\* The loop over the collected ids: the owner of an id is not checked again.
RecoverReport(id) ==
  /\ id \in recovering
  /\ Free
  /\ ReportTaskStatus(id, FALSE)
  /\ recovering' = recovering \ {id}
  /\ UNCHANGED <<nextId, epoch, processed, workerVars, events, scan,
                 ckptVars, faults>>

\* Mutant: only workers that are still known to run are checked.
ReassignTimeoutTaskOfRunning(d) ==
  /\ TaskType = "evaluation"
  /\ d \in doing
  /\ Free
  /\ wstate[d.node] \notin {"exited", "dead"}
  /\ ReportTaskStatus(d.id, FALSE)
  /\ faults < MaxFaults
  /\ faults' = faults + 1
  /\ wstate' = [wstate EXCEPT ![d.node] = "dead"]
  /\ events' = events \cup {d.node}
  /\ UNCHANGED <<nextId, epoch, processed, wtask, late, scan, recovering,
                 ckptVars>>

\* _check_and_reassign_timeout_tasks: only evaluation tasks time out, and the
\* worker is removed.  A task of a live worker times out when it is too slow.
ReassignTimeoutTask(d) ==
  /\ TaskType = "evaluation"
  /\ d \in doing
  /\ Free
  /\ ReportTaskStatus(d.id, FALSE)
  /\ IF wstate[d.node] \in {"exited", "dead"}
     THEN UNCHANGED <<wstate, events, faults>>
     ELSE /\ faults < MaxFaults
          /\ faults' = faults + 1
          /\ wstate' = [wstate EXCEPT ![d.node] = "dead"]
          /\ events' = events \cup {d.node}
  /\ UNCHANGED <<nextId, epoch, processed, wtask, late, scan, recovering,
                 ckptVars>>

-----------------------------------------------------------------------------
(* Checkpoint and restore.                                                 *)

\* _get_shard_checkpoint: dataset.checkpoint() iterates over todo by index,
CheckpointBegin ==
  /\ ckpt.phase \in {"none", "ready"}
  /\ ckpts < MaxCheckpoints
  /\ Free
  /\ rst = <<>>
  /\ ckpts' = ckpts + 1
  /\ ckpt' = [NoCheckpoint EXCEPT !.phase = "todo"]
  /\ UNCHANGED <<taskVars, ledgerVars, workerVars, recoverVars, rst, faults>>

CheckpointTodo ==
  /\ ckpt.phase = "todo"
  /\ ckpt' = IF ckpt.idx <= Len(todo)
             THEN [ckpt EXCEPT !.todo = Append(@, todo[ckpt.idx].shard),
                               !.idx = @ + 1]
             ELSE [ckpt EXCEPT !.phase = "doing"]
  /\ UNCHANGED <<taskVars, ledgerVars, workerVars, recoverVars, rst, ckpts,
                 faults>>

\* Mutant: only the queued shards are saved.
CheckpointDoingSkipped ==
  /\ ckpt.phase = "doing"
  /\ ckpt' = [ckpt EXCEPT !.phase = "epoch"]
  /\ UNCHANGED <<taskVars, ledgerVars, workerVars, recoverVars, rst, ckpts,
                 faults>>

\* then over doing, in the order of the dict,
CheckpointDoing ==
  /\ ckpt.phase = "doing"
  /\ \E q \in [1 .. Cardinality(doing) -> doing] :
       /\ \A d \in doing : \E k \in DOMAIN q : q[k] = d
       /\ ckpt' = [ckpt EXCEPT !.phase = "epoch",
                               !.doing = [k \in DOMAIN q |-> q[k].shard]]
  /\ UNCHANGED <<taskVars, ledgerVars, workerVars, recoverVars, rst, ckpts,
                 faults>>

\* and reads the splitter's epoch last.
CheckpointEpoch ==
  /\ ckpt.phase = "epoch"
  /\ ckpt' = [ckpt EXCEPT !.phase = "ready", !.epoch = epoch, !.done = done,
                          !.dropped = dropped]
  /\ UNCHANGED <<taskVars, ledgerVars, workerVars, recoverVars, rst, ckpts,
                 faults>>

\* Mutant: the dispatched tasks survive a restore.
RestoreBeginKeepsDoing ==
  /\ ckpt.phase = "ready"
  /\ rst = <<>>
  /\ Free
  /\ epoch' = ckpt.epoch
  /\ todo' = <<>>
  /\ rst' = ckpt.doing \o ckpt.todo
  /\ done' = ckpt.done /\ dropped' = ckpt.dropped /\ processed' = ckpt.done
  /\ ckpt' = NoCheckpoint
  /\ UNCHANGED <<doing, nextId, workerVars, recoverVars, ckpts, faults>>

\* restore_checkpoint: epoch, empty queues, then one append per shard.  The
\* model that is restored with the shards knows what was done by then.
RestoreBegin ==
  /\ ckpt.phase = "ready"
  /\ rst = <<>>
  /\ Free
  /\ epoch' = ckpt.epoch
  /\ todo' = <<>> /\ doing' = {}
  /\ rst' = ckpt.doing \o ckpt.todo
  /\ done' = ckpt.done /\ dropped' = ckpt.dropped /\ processed' = ckpt.done
  /\ ckpt' = NoCheckpoint
  /\ UNCHANGED <<nextId, workerVars, recoverVars, ckpts, faults>>

\* Mutant: restored tasks are numbered from 0 again.
RestoreAppendReusesIds ==
  /\ rst # <<>>
  /\ todo' = Append(todo, [id |-> Len(todo), shard |-> Head(rst), retry |-> 0])
  /\ rst' = Tail(rst)
  /\ UNCHANGED <<doing, nextId, epoch, ledgerVars, workerVars, recoverVars,
                 ckpt, ckpts, faults>>

RestoreAppend ==
  /\ rst # <<>>
  /\ todo' = Append(todo, [id |-> nextId, shard |-> Head(rst), retry |-> 0])
  /\ nextId' = nextId + 1
  /\ rst' = Tail(rst)
  /\ UNCHANGED <<doing, epoch, ledgerVars, workerVars, recoverVars, ckpt,
                 ckpts, faults>>

-----------------------------------------------------------------------------
WorkerStep(w) ==
  \/ GetTask(w) \/ GetTaskReplyLost(w)
  \/ FinishTask(w) \/ FailTask(w)
  \/ ReportTask(w) \/ ReportReplyLost(w)
  \/ Launch(w) \/ Crash(w) \/ LateGetTask(w) \/ LateReport(w)

MasterStep ==
  \/ \E w \in Workers : RecoverScan(w)
  \/ RecoverCollect \/ RecoverRaises
  \/ \E id \in recovering : RecoverReport(id)
  \/ \E d \in doing : ReassignTimeoutTask(d)

CheckpointStep ==
  \/ CheckpointBegin \/ CheckpointTodo \/ CheckpointDoing \/ CheckpointEpoch
  \/ RestoreBegin \/ RestoreAppend

Next == (\E w \in Workers : WorkerStep(w)) \/ MasterStep \/ CheckpointStep

Spec == Init /\ [][Next]_vars

\* The threads of the master run, calls of live workers are answered, a
\* worker that has a task uses it up, and the timeout thread reaches a task
\* whose worker has gone: nothing resets _worker_start_task_time for it.
\* Faults, launches, checkpoints and late calls need not happen.
Fairness ==
  /\ \A w \in Workers :
       /\ WF_vars(GetTask(w)) /\ WF_vars(FinishTask(w))
       /\ WF_vars(ReportTask(w)) /\ WF_vars(RecoverScan(w))
  /\ WF_vars(RecoverCollect)
  /\ WF_vars(\E id \in recovering : RecoverReport(id))
  /\ WF_vars(\E d \in doing :
               wstate[d.node] \in {"exited", "dead"} /\ ReassignTimeoutTask(d))
  /\ WF_vars(CheckpointTodo) /\ WF_vars(CheckpointDoing)
  /\ WF_vars(CheckpointEpoch) /\ WF_vars(RestoreAppend)

FairSpec == Spec /\ Fairness

-----------------------------------------------------------------------------
(* Properties.                                                             *)

Checkpoints ==
  [phase : {"none", "todo", "doing", "epoch", "ready"}, idx : Nat \ {0},
   todo : Seq(AllShards), doing : Seq(AllShards), epoch : 0 .. NumEpochs,
   done : SUBSET AllShards, dropped : SUBSET AllShards]

\* Every variable stays in its domain: in particular the retry counts stay
\* within _MAX_TASK_RETRIES, and the epoch within num_epochs.
TypeOK ==
  /\ todo \in Seq(Tasks) /\ doing \subseteq DoingTasks
  /\ nextId \in Nat /\ epoch \in 0 .. NumEpochs
  /\ done \subseteq AllShards /\ dropped \subseteq AllShards
  /\ processed \subseteq AllShards
  /\ wstate \in [Workers ->
                   {"off", "idle", "busy", "ok", "err", "exited", "dead"}]
  /\ wtask \in [Workers -> HeldTasks \cup {InvalidTask}]
  /\ late \in [Workers -> {"none", "get", "ok", "err"}]
  /\ events \subseteq Workers /\ scan \in Workers \cup {NoWorker}
  /\ broken \in BOOLEAN /\ recovering \subseteq Nat
  /\ ckpt \in Checkpoints /\ rst \in Seq(AllShards)
  /\ faults \in 0 .. MaxFaults /\ ckpts \in 0 .. MaxCheckpoints

Elements(s) == {s[k] : k \in DOMAIN s}

TodoShards == {t.shard : t \in Elements(todo)}
DoingShards == {d.shard : d \in doing}
Outstanding == TodoShards \cup DoingShards \cup Elements(rst)
CreatedShards == (1 .. epoch) \X (1 .. NumShards)

\* A shard counts as done only if a worker used up its samples, since the
\* start or since the last restore: whatever reports arrive late, twice, or
\* for an id that was dispatched again, _update_completed_step is never
\* called for a shard nobody has processed.
DoneWasProcessed == done \subseteq processed

\* An id names one task: no id is queued twice, dispatched twice, or queued
\* while it is dispatched (report_task_status pops by id alone).
IdsUnique ==
  /\ \A j, k \in DOMAIN todo : todo[j].id = todo[k].id => j = k
  /\ \A d, e \in doing : d.id = e.id => d = e
  /\ \A k \in DOMAIN todo, d \in doing : todo[k].id # d.id

\* No shard of a started epoch disappears: it is queued, dispatched, done, or
\* given up after its retries.
Conserved == CreatedShards \subseteq Outstanding \cup done \cup dropped

\* finished() says "all tasks are done" only when every shard of every epoch
\* is done or was given up.
CompletedMeansAllDone ==
  Free /\ Completed => AllShards \subseteq done \cup dropped

\* "Checkpoint uncompleted shards": what a checkpoint leaves out of the
\* epochs it covers was done or given up by the time it was taken.
CheckpointComplete ==
  ckpt.phase = "ready" =>
    (1 .. ckpt.epoch) \X (1 .. NumShards)
      \subseteq Elements(ckpt.todo) \cup Elements(ckpt.doing)
                \cup ckpt.done \cup ckpt.dropped

\* The status of a shard as ShardLedger sees it.
ShardStatus ==
  [s \in AllShards |->
     IF s \in done THEN "done"
     ELSE IF s \in dropped THEN "dropped"
     ELSE IF s \in DoingShards THEN "doing"
     ELSE IF s \in TodoShards \cup Elements(rst) THEN "todo"
     ELSE "new"]

Ledger == INSTANCE ShardLedger WITH status <- ShardStatus

\* The manager implements the ledger: a shard is dispatched to one worker at
\* a time, a new epoch starts only when the queue has run empty, and a shard
\* that is done never comes back except through a restore.
ImplementsLedger == Ledger!Spec

\* "recover the shard if the worker fails": no shard is ever given up.
NoShardDropped == dropped = {}

\* "If a worker is terminated, Data Shard Manager moves uncompleted shards of
\* this worker back to the TODO queue from the DOING queue."
DeadWorkerTasksRecovered ==
  \A w \in Workers :
    wstate[w] = "dead" ~> ~\E d \in doing : d.node = w

\* A dispatched task does not stay dispatched for ever: it is reported,
\* recovered, or reassigned by the timeout thread.
DispatchedTaskReturns ==
  \A i \in 0 .. (NumShards * NumEpochs * (1 + MaxCheckpoints)) :
    (\E d \in doing : d.id = i) ~> ~\E d \in doing : d.id = i
=============================================================================
