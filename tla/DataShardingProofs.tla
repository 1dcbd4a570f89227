------------------------- MODULE DataShardingProofs -------------------------
(***************************************************************************)
(* Safety of dynamic data sharding for any number of workers, shards,      *)
(* epochs, retries, faults and checkpoints, with the unlocked operations   *)
(* interleaved as in the code.                                             *)
(***************************************************************************)
EXTENDS DataSharding, FiniteSetTheorems, TLAPS

-----------------------------------------------------------------------------
(* Types.                                                                  *)

\* A busy worker holds a real task, and the doing dict is finite.
Holds ==
  /\ \A w \in Workers :
       wstate[w] \in {"busy", "ok", "err"} =>
         wtask[w] \in HeldTasks
  /\ IsFiniteSet(doing)

TypeInv == TypeOK /\ Holds

LEMMA TypeInvInit == Init => TypeInv
<1> SUFFICES ASSUME Init PROVE TypeInv
  OBVIOUS
<1>1. ckpt \in Checkpoints
  BY ShardsAssumption DEF Init, Checkpoints, NoCheckpoint
<1>2. IsFiniteSet(doing)
  BY FS_EmptySet DEF Init
<1>3. wtask \in [Workers -> HeldTasks \cup {InvalidTask}]
  BY DEF Init
<1>4. todo \in Seq(Tasks) /\ rst \in Seq(AllShards)
  BY DEF Init
<1>5. nextId \in Nat /\ epoch \in 0 .. NumEpochs
      /\ faults \in 0 .. MaxFaults /\ ckpts \in 0 .. MaxCheckpoints
  BY ShardsAssumption, BoundsAssumption DEF Init
<1>6. Holds
  BY <1>2 DEF Init, Holds
<1>7. /\ doing \subseteq DoingTasks /\ done \subseteq AllShards
      /\ dropped \subseteq AllShards /\ processed \subseteq AllShards
      /\ events \subseteq Workers /\ recovering \subseteq Nat
      /\ scan \in Workers \cup {NoWorker} /\ broken \in BOOLEAN
  BY Zenon DEF Init
<1>8. /\ wstate \in [Workers -> {"off", "idle", "busy", "ok", "err",
                                 "exited", "dead"}]
      /\ late \in [Workers -> {"none", "get", "ok", "err"}]
  BY DEF Init
<1> QED
  BY <1>1, <1>3, <1>4, <1>5, <1>6, <1>7, <1>8 DEF TypeInv, TypeOK

LEMMA QueueType ==
  ASSUME TypeInv
  PROVE  /\ Queue \in Seq(Tasks)
         /\ StartsEpoch => epoch + 1 \in 0 .. NumEpochs
<1>1. StartsEpoch => epoch + 1 \in 1 .. NumEpochs
  BY ShardsAssumption DEF TypeInv, TypeOK, StartsEpoch, EpochFinished
<1>2. ASSUME StartsEpoch PROVE NewTasks \in Seq(Tasks)
  <2>1. \A k \in 1 .. NumShards :
          [id |-> nextId + k - 1, shard |-> <<epoch + 1, k>>, retry |-> 0]
            \in Tasks
    BY <1>1, <1>2, ShardsAssumption, BoundsAssumption
    DEF Tasks, AllShards, TypeInv, TypeOK
  <2> QED
    BY <2>1, ShardsAssumption DEF NewTasks
<1> QED
  BY <1>1, <1>2 DEF Queue, TypeInv, TypeOK

LEMMA DispatchType ==
  ASSUME TypeInv, NEW w \in Workers, Dispatch(w)
  PROVE  /\ todo' \in Seq(Tasks) /\ doing' \subseteq DoingTasks
         /\ nextId' \in Nat /\ epoch' \in 0 .. NumEpochs
         /\ broken' \in BOOLEAN /\ IsFiniteSet(doing')
         /\ Queue # <<>> => Head(Queue) \in Tasks
<1>1. Queue \in Seq(Tasks)
  BY QueueType
<1>2. nextId' \in Nat /\ epoch' \in 0 .. NumEpochs
  BY QueueType, ShardsAssumption DEF Dispatch, TypeInv, TypeOK
<1>3. broken' \in BOOLEAN
  BY DEF Dispatch, WatchScan
<1>4. CASE Queue = <<>>
  BY <1>2, <1>3, <1>4 DEF Dispatch, TypeInv, TypeOK, Holds
<1>5. CASE Queue # <<>>
  <2>1. Head(Queue) \in Tasks /\ Tail(Queue) \in Seq(Tasks)
    BY <1>1, <1>5
  <2> DEFINE d == [id |-> Head(Queue).id, shard |-> Head(Queue).shard,
                   retry |-> Head(Queue).retry, node |-> w]
  <2>2. d \in DoingTasks
    BY <2>1 DEF Tasks, DoingTasks
  <2>3. doing' = doing \cup {d} /\ todo' = Tail(Queue)
    BY <1>5 DEF Dispatch
  <2> HIDE DEF d
  <2>4. IsFiniteSet(doing \cup {d})
    BY FS_AddElement DEF TypeInv, Holds
  <2> QED
    BY <1>2, <1>3, <2>1, <2>2, <2>3, <2>4 DEF TypeInv, TypeOK
<1> QED
  BY <1>4, <1>5

LEMMA ReportType ==
  ASSUME TypeInv, NEW id, NEW success, ReportTaskStatus(id, success)
  PROVE  /\ todo' \in Seq(Tasks) /\ doing' \subseteq DoingTasks
         /\ done' \subseteq AllShards /\ dropped' \subseteq AllShards
         /\ broken' \in BOOLEAN /\ IsFiniteSet(doing')
<1> DEFINE known == {d \in doing : d.id = id}
<1>1. doing' = doing \ known /\ doing' \subseteq doing
  BY DEF ReportTaskStatus
<1>2. IsFiniteSet(doing')
  BY <1>1, FS_Subset DEF TypeInv, Holds
<1>3. \A d \in known : d \in DoingTasks
  BY DEF TypeInv, TypeOK
<1>4. \A d \in known : d.shard \in AllShards
  BY <1>3 DEF DoingTasks
<1>5. done' \subseteq AllShards
  BY <1>4 DEF ReportTaskStatus, TypeInv, TypeOK
<1>6. ASSUME NEW d \in known, RecoverTask(d)
      PROVE  todo' \in Seq(Tasks) /\ dropped' \subseteq AllShards
  <2>1. CASE d.retry + 1 > MaxTaskRetries
    BY <1>4, <1>6, <2>1 DEF RecoverTask, TypeInv, TypeOK
  <2>2. CASE ~(d.retry + 1 > MaxTaskRetries)
    <3> DEFINE t == [id |-> d.id, shard |-> d.shard, retry |-> d.retry + 1]
    <3>1. t \in Tasks
      BY <1>3, <2>2, BoundsAssumption DEF DoingTasks, Tasks
    <3>2. todo' = Append(todo, t) /\ dropped' = dropped
      BY <1>6, <2>2 DEF RecoverTask
    <3> HIDE DEF t
    <3> QED
      BY <3>1, <3>2 DEF TypeInv, TypeOK
  <2> QED
    BY <2>1, <2>2
<1>7. todo' \in Seq(Tasks) /\ dropped' \subseteq AllShards
  BY <1>6 DEF ReportTaskStatus, TypeInv, TypeOK
<1>8. broken' \in BOOLEAN
  BY DEF ReportTaskStatus, WatchScan
<1> QED
  BY <1>1, <1>2, <1>5, <1>7, <1>8 DEF TypeInv, TypeOK

LEMMA TypeInvNext == TypeInv /\ [Next]_vars => TypeInv'
<1> SUFFICES ASSUME TypeInv, [Next]_vars PROVE TypeInv'
  OBVIOUS
<1> USE BoundsAssumption
<1>1. ASSUME NEW w \in Workers, Launch(w) PROVE TypeInv'
  BY <1>1 DEF Launch, TypeInv, TypeOK, Holds, taskVars, ledgerVars,
              recoverVars, ckptVars
<1>2. ASSUME NEW w \in Workers, GetTask(w) PROVE TypeInv'
  <2>1. /\ todo' \in Seq(Tasks) /\ doing' \subseteq DoingTasks
        /\ nextId' \in Nat /\ epoch' \in 0 .. NumEpochs
        /\ broken' \in BOOLEAN /\ IsFiniteSet(doing')
        /\ Queue # <<>> => Head(Queue) \in Tasks
    BY <1>2, DispatchType DEF GetTask
  <2> DEFINE h == [id |-> Head(Queue).id, shard |-> Head(Queue).shard]
  <2>2. Queue # <<>> => h \in HeldTasks
    BY <2>1 DEF Tasks, HeldTasks
  <2>3. \/ /\ wstate' = [wstate EXCEPT ![w] = "exited"]
           /\ wtask' = wtask
        \/ /\ wstate' = [wstate EXCEPT ![w] = "busy"]
           /\ wtask' = [wtask EXCEPT ![w] = h] /\ h \in HeldTasks
    BY <1>2, <2>2 DEF GetTask
  <2> HIDE DEF h
  <2>4. /\ wstate' \in [Workers -> {"off", "idle", "busy", "ok", "err",
                                    "exited", "dead"}]
        /\ wtask' \in [Workers -> HeldTasks \cup {InvalidTask}]
        /\ \A v \in Workers :
             wstate'[v] \in {"busy", "ok", "err"} => wtask'[v] \in HeldTasks
    BY <2>3 DEF TypeInv, TypeOK, Holds
  <2> QED
    BY <1>2, <2>1, <2>4 DEF GetTask, TypeInv, TypeOK, Holds, ledgerVars,
                            ckptVars
<1>3. ASSUME NEW w \in Workers, GetTaskReplyLost(w) PROVE TypeInv'
  <2>1. /\ todo' \in Seq(Tasks) /\ doing' \subseteq DoingTasks
        /\ nextId' \in Nat /\ epoch' \in 0 .. NumEpochs
        /\ broken' \in BOOLEAN /\ IsFiniteSet(doing')
    BY <1>3, DispatchType DEF GetTaskReplyLost
  <2> QED
    BY <1>3, <2>1 DEF GetTaskReplyLost, TypeInv, TypeOK, Holds, ledgerVars,
                      workerVars, ckptVars
<1>4. ASSUME NEW w \in Workers, LateGetTask(w) PROVE TypeInv'
  <2>1. /\ todo' \in Seq(Tasks) /\ doing' \subseteq DoingTasks
        /\ nextId' \in Nat /\ epoch' \in 0 .. NumEpochs
        /\ broken' \in BOOLEAN /\ IsFiniteSet(doing')
    BY <1>4, DispatchType DEF LateGetTask
  <2> QED
    BY <1>4, <2>1 DEF LateGetTask, TypeInv, TypeOK, Holds, ledgerVars,
                      ckptVars
<1>5. ASSUME NEW w \in Workers, FinishTask(w) PROVE TypeInv'
  <2>1. wtask[w].shard \in AllShards
    BY <1>5 DEF FinishTask, TypeInv, Holds, HeldTasks
  <2> QED
    BY <1>5, <2>1 DEF FinishTask, TypeInv, TypeOK, Holds, taskVars,
                      recoverVars, ckptVars
<1>6. ASSUME NEW w \in Workers, FailTask(w) PROVE TypeInv'
  BY <1>6 DEF FailTask, TypeInv, TypeOK, Holds, taskVars, ledgerVars,
              recoverVars, ckptVars
<1>7. ASSUME NEW id, NEW success, ReportTaskStatus(id, success)
      PROVE  /\ todo' \in Seq(Tasks) /\ doing' \subseteq DoingTasks
             /\ done' \subseteq AllShards /\ dropped' \subseteq AllShards
             /\ broken' \in BOOLEAN /\ IsFiniteSet(doing')
  BY <1>7, ReportType
<1>8. ASSUME NEW w \in Workers, ReportTask(w) PROVE TypeInv'
  <2>1. ReportTaskStatus(wtask[w].id, wstate[w] = "ok")
    BY <1>8 DEF ReportTask
  <2> QED
    BY <1>7, <1>8, <2>1 DEF ReportTask, TypeInv, TypeOK, Holds, ckptVars
<1>9. ASSUME NEW w \in Workers, ReportReplyLost(w) PROVE TypeInv'
  <2>1. ReportTaskStatus(wtask[w].id, wstate[w] = "ok")
    BY <1>9 DEF ReportReplyLost
  <2> QED
    BY <1>7, <1>9, <2>1 DEF ReportReplyLost, TypeInv, TypeOK, Holds,
                            workerVars, ckptVars
<1>10. ASSUME NEW w \in Workers, LateReport(w) PROVE TypeInv'
  <2>1. ReportTaskStatus(wtask[w].id, late[w] = "ok")
    BY <1>10 DEF LateReport
  <2> QED
    BY <1>7, <1>10, <2>1 DEF LateReport, TypeInv, TypeOK, Holds, ckptVars
<1>11. ASSUME NEW w \in Workers, Crash(w) PROVE TypeInv'
  <2>1. OutstandingCall(wstate[w]) \in {"none", "get", "ok", "err"}
    BY <1>11 DEF OutstandingCall, Crash
  <2>2. late' \in [Workers -> {"none", "get", "ok", "err"}]
    BY <1>11, <2>1 DEF Crash, TypeInv, TypeOK
  <2> QED
    BY <1>11, <2>2 DEF Crash, TypeInv, TypeOK, Holds, taskVars, ledgerVars,
                       ckptVars
<1>12. ASSUME NEW w \in Workers, RecoverScan(w) PROVE TypeInv'
  BY <1>12 DEF RecoverScan, TypeInv, TypeOK, Holds, taskVars, ledgerVars,
               workerVars, ckptVars
<1>13. ASSUME RecoverCollect PROVE TypeInv'
  <2>1. recovering' \subseteq Nat
    BY <1>13 DEF RecoverCollect, TypeInv, TypeOK, DoingTasks
  <2> QED
    BY Zenon, <1>13, <2>1 DEF RecoverCollect, TypeInv, TypeOK, Holds, taskVars,
                       ledgerVars, workerVars, ckptVars
<1>14. ASSUME RecoverRaises PROVE TypeInv'
  BY Zenon, <1>14 DEF RecoverRaises, TypeInv, TypeOK, Holds, taskVars, ledgerVars,
               workerVars, ckptVars
<1>15. ASSUME NEW id \in recovering, RecoverReport(id) PROVE TypeInv'
  <2>1. ReportTaskStatus(id, FALSE)
    BY Zenon, <1>15 DEF RecoverReport
  <2> QED
    BY Zenon, <1>7, <1>15, <2>1 DEF RecoverReport, TypeInv, TypeOK, Holds,
                             workerVars, ckptVars
<1>16. ASSUME NEW d \in doing, ReassignTimeoutTask(d) PROVE TypeInv'
  <2>1. ReportTaskStatus(d.id, FALSE)
    BY Zenon, <1>16 DEF ReassignTimeoutTask
  <2>2. d.node \in Workers
    BY DEF TypeInv, TypeOK, DoingTasks
  <2>3. /\ wstate' \in [Workers -> {"off", "idle", "busy", "ok", "err",
                                    "exited", "dead"}]
        /\ \A v \in Workers :
             wstate'[v] \in {"busy", "ok", "err"} => wstate'[v] = wstate[v]
        /\ events' \subseteq Workers /\ faults' \in 0 .. MaxFaults
    BY <1>16, <2>2 DEF ReassignTimeoutTask, TypeInv, TypeOK
  <2> QED
    BY Zenon, <1>7, <1>16, <2>1, <2>3 DEF ReassignTimeoutTask, TypeInv, TypeOK,
                                   Holds, ckptVars
<1>17. ASSUME CheckpointStep PROVE TypeInv'
  <2>1. CASE CheckpointBegin
    <3>1. ckpt' = [phase |-> "todo", idx |-> 1, todo |-> <<>>,
                   doing |-> <<>>, epoch |-> 0, done |-> {}, dropped |-> {}]
      BY Zenon, <2>1 DEF CheckpointBegin, NoCheckpoint
    <3>2. ckpt' \in Checkpoints
      BY <3>1, ShardsAssumption DEF Checkpoints
    <3> QED
      BY <2>1, <3>2 DEF CheckpointBegin, TypeInv, TypeOK, Holds, taskVars,
                        ledgerVars, workerVars, recoverVars
  <2>2. CASE CheckpointTodo
    <3>1. ckpt \in Checkpoints /\ ckpt.idx \in Nat \ {0}
          /\ ckpt.todo \in Seq(AllShards) /\ todo \in Seq(Tasks)
      BY DEF TypeInv, TypeOK, Checkpoints
    <3>2. ASSUME ckpt.idx <= Len(todo) PROVE ckpt' \in Checkpoints
      <4> DEFINE s == todo[ckpt.idx].shard
      <4>1. todo[ckpt.idx] \in Tasks
        BY <3>1, <3>2
      <4>2. s \in AllShards
        BY Zenon, <4>1 DEF Tasks
      <4>3. ckpt' = [ckpt EXCEPT !.todo = Append(ckpt.todo, s),
                                 !.idx = ckpt.idx + 1]
        BY <2>2, <3>2 DEF CheckpointTodo
      <4> HIDE DEF s
      <4>4. Append(ckpt.todo, s) \in Seq(AllShards)
        BY <3>1, <4>2
      <4>5. ckpt' = [phase |-> ckpt.phase, idx |-> ckpt.idx + 1,
                     todo |-> Append(ckpt.todo, s), doing |-> ckpt.doing,
                     epoch |-> ckpt.epoch, done |-> ckpt.done,
                     dropped |-> ckpt.dropped]
        BY Zenon, <3>1, <4>3 DEF Checkpoints
      <4>6. ckpt.idx + 1 \in Nat \ {0}
        BY <3>1
      <4> QED
        BY <3>1, <4>4, <4>5, <4>6 DEF Checkpoints
    <3>3. ASSUME ~(ckpt.idx <= Len(todo)) PROVE ckpt' \in Checkpoints
      BY Zenon, <2>2, <3>1, <3>3 DEF CheckpointTodo, Checkpoints
    <3>4. ckpt' \in Checkpoints
      BY <3>2, <3>3
    <3> QED
      BY <2>2, <3>4 DEF CheckpointTodo, TypeInv, TypeOK, Holds, taskVars,
                        ledgerVars, workerVars, recoverVars
  <2>3. CASE CheckpointDoing
    <3>1. PICK q \in [1 .. Cardinality(doing) -> doing] :
            ckpt' = [ckpt EXCEPT !.phase = "epoch",
                                 !.doing = [k \in DOMAIN q |-> q[k].shard]]
      BY Zenon, <2>3 DEF CheckpointDoing
    <3>2. Cardinality(doing) \in Nat
      BY FS_CardinalityType DEF TypeInv, Holds
    <3>3. [k \in DOMAIN q |-> q[k].shard] \in Seq(AllShards)
      <4>1. \A k \in 1 .. Cardinality(doing) : q[k].shard \in AllShards
        BY DEF TypeInv, TypeOK, DoingTasks
      <4> QED
        BY <3>2, <4>1
    <3>4. ckpt' \in Checkpoints
      BY Zenon, <3>1, <3>3 DEF TypeInv, TypeOK, Checkpoints
    <3> QED
      BY <2>3, <3>4 DEF CheckpointDoing, TypeInv, TypeOK, Holds, taskVars,
                        ledgerVars, workerVars, recoverVars
  <2>4. CASE CheckpointEpoch
    <3>1. ckpt' \in Checkpoints
      BY Zenon, <2>4 DEF CheckpointEpoch, TypeInv, TypeOK, Checkpoints
    <3> QED
      BY <2>4, <3>1 DEF CheckpointEpoch, TypeInv, TypeOK, Holds, taskVars,
                        ledgerVars, workerVars, recoverVars
  <2>5. CASE RestoreBegin
    <3>1. /\ ckpt.doing \in Seq(AllShards) /\ ckpt.todo \in Seq(AllShards)
          /\ ckpt.epoch \in 0 .. NumEpochs
          /\ ckpt.done \subseteq AllShards /\ ckpt.dropped \subseteq AllShards
      BY DEF TypeInv, TypeOK, Checkpoints
    <3>2. rst' \in Seq(AllShards)
      BY <2>5, <3>1 DEF RestoreBegin
    <3>3. ckpt' \in Checkpoints
      BY <2>5, ShardsAssumption DEF RestoreBegin, Checkpoints, NoCheckpoint
    <3>4. todo' \in Seq(Tasks) /\ doing' \subseteq DoingTasks
          /\ IsFiniteSet(doing')
      BY <2>5, FS_EmptySet DEF RestoreBegin
    <3> QED
      BY <2>5, <3>1, <3>2, <3>3, <3>4
      DEF RestoreBegin, TypeInv, TypeOK, Holds, workerVars, recoverVars
  <2>6. CASE RestoreAppend
    <3> DEFINE t == [id |-> nextId, shard |-> Head(rst), retry |-> 0]
    <3>1. rst # <<>> /\ Head(rst) \in AllShards /\ Tail(rst) \in Seq(AllShards)
      BY <2>6 DEF RestoreAppend, TypeInv, TypeOK
    <3>2. t \in Tasks
      <4>1. nextId \in Nat /\ 0 \in 0 .. MaxTaskRetries
        BY BoundsAssumption DEF TypeInv, TypeOK
      <4> QED
        BY <3>1, <4>1 DEF Tasks
    <3>3. todo' = Append(todo, t) /\ rst' = Tail(rst)
      BY <2>6 DEF RestoreAppend
    <3> HIDE DEF t
    <3>4. todo' \in Seq(Tasks)
      BY <3>2, <3>3 DEF TypeInv, TypeOK
    <3> QED
      BY <2>6, <3>1, <3>3, <3>4
      DEF RestoreAppend, TypeInv, TypeOK, Holds, ledgerVars, workerVars,
          recoverVars
  <2> QED
    BY <1>17, <2>1, <2>2, <2>3, <2>4, <2>5, <2>6 DEF CheckpointStep
<1>18. CASE UNCHANGED vars
  BY <1>18 DEF vars, taskVars, ledgerVars, workerVars, recoverVars, ckptVars,
               TypeInv, TypeOK, Holds
<1> QED
  BY <1>1, <1>2, <1>3, <1>4, <1>5, <1>6, <1>8, <1>9, <1>10, <1>11, <1>12,
     <1>13, <1>14, <1>15, <1>16, <1>17, <1>18
  DEF Next, WorkerStep, MasterStep

\* The type invariant holds in every state, for all values of the constants.
THEOREM TypeCorrect == Spec => []TypeOK
<1>1. Spec => []TypeInv
  BY TypeInvInit, TypeInvNext, PTL DEF Spec
<1> QED
  BY <1>1, PTL DEF TypeInv

-----------------------------------------------------------------------------
(* Ids.  Entries are the tasks the manager knows; a step either keeps the  *)
(* id and the shard of an entry or makes one with a new id.                *)

Entries == Elements(todo) \cup doing

IdsBelow ==
  /\ \A x \in Entries : x.id < nextId
  /\ \A w \in Workers : wtask[w].id < nextId

IdInv == IdsBelow /\ IdsUnique

Inherited ==
  \A x \in Entries' :
    \/ \E y \in Entries : y.id = x.id /\ y.shard = x.shard
    \/ x.id >= nextId

LEMMA EntryTypes ==
  ASSUME TypeInv
  PROVE  /\ \A k \in DOMAIN todo : todo[k] \in Tasks /\ todo[k] \in Entries
         /\ \A x \in Entries : x.id \in Nat /\ x.shard \in AllShards
<1>1. \A k \in DOMAIN todo : todo[k] \in Tasks
  BY DEF TypeInv, TypeOK
<1>2. \A t \in Tasks : t.id \in Nat /\ t.shard \in AllShards
  BY DEF Tasks
<1>3. \A d \in doing : d.id \in Nat /\ d.shard \in AllShards
  BY DEF TypeInv, TypeOK, DoingTasks
<1> QED
  BY <1>1, <1>2, <1>3 DEF Entries, Elements

LEMMA QueueIds ==
  ASSUME TypeInv, IdInv, NEW n,
         n = IF StartsEpoch THEN nextId + NumShards ELSE nextId
  PROVE  /\ n \in Nat /\ n >= nextId
         /\ \A k \in DOMAIN Queue : Queue[k].id < n /\ Queue[k].id \in Nat
         /\ \A j, k \in DOMAIN Queue : Queue[j].id = Queue[k].id => j = k
         /\ \A k \in DOMAIN Queue, d \in doing : Queue[k].id # d.id
         /\ \A k \in DOMAIN Queue :
              \/ Queue[k] \in Entries
              \/ Queue[k].id >= nextId
<1>1. nextId \in Nat /\ NumShards \in Nat /\ doing \subseteq DoingTasks
      /\ todo \in Seq(Tasks)
  BY ShardsAssumption DEF TypeInv, TypeOK
<1>2. \A d \in doing : d.id \in Nat /\ d.id < nextId
  BY <1>1 DEF IdInv, IdsBelow, Entries, DoingTasks
<1>3. CASE StartsEpoch
  <2>1. /\ DOMAIN NewTasks = 1 .. NumShards
        /\ \A k \in 1 .. NumShards : NewTasks[k].id = nextId + k - 1
    BY DEF NewTasks
  <2>2. Queue = NewTasks /\ n = nextId + NumShards
    BY <1>3 DEF Queue
  <2> QED
    BY <1>1, <1>2, <2>1, <2>2
<1>4. CASE ~StartsEpoch
  <2>1. Queue = todo /\ n = nextId
    BY <1>4 DEF Queue
  <2>2. \A k \in DOMAIN todo : todo[k] \in Entries /\ todo[k].id \in Nat
    BY EntryTypes
  <2> QED
    BY <1>1, <2>1, <2>2 DEF IdInv, IdsBelow, IdsUnique
<1> QED
  BY <1>3, <1>4

LEMMA DispatchIds ==
  ASSUME TypeInv, IdInv, NEW w \in Workers, Dispatch(w)
  PROVE  /\ IdsUnique' /\ Inherited
         /\ \A x \in Entries' : x.id < nextId'
         /\ nextId' \in Nat /\ nextId <= nextId'
         /\ Queue # <<>> =>
              /\ Head(Queue).id \in Nat /\ Head(Queue).id < nextId'
              /\ \A x \in Entries' :
                   x.id = Head(Queue).id => x.shard = Head(Queue).shard
<1>1. Queue \in Seq(Tasks) /\ todo \in Seq(Tasks)
  BY QueueType DEF TypeInv, TypeOK
<1>2. /\ nextId' \in Nat /\ nextId <= nextId'
      /\ \A k \in DOMAIN Queue : Queue[k].id < nextId' /\ Queue[k].id \in Nat
      /\ \A j, k \in DOMAIN Queue : Queue[j].id = Queue[k].id => j = k
      /\ \A k \in DOMAIN Queue, d \in doing : Queue[k].id # d.id
      /\ \A k \in DOMAIN Queue :
           Queue[k] \in Entries \/ Queue[k].id >= nextId
  <2> DEFINE n == IF StartsEpoch THEN nextId + NumShards ELSE nextId
  <2>1. nextId' = n
    BY DEF Dispatch
  <2> HIDE DEF n
  <2>2. n = IF StartsEpoch THEN nextId + NumShards ELSE nextId
    BY DEF n
  <2>3. nextId \in Nat
    BY DEF TypeInv, TypeOK
  <2> QED
    BY <2>1, <2>2, <2>3, QueueIds
<1>3. \A d \in doing : d.id < nextId' /\ d.id \in Nat
  BY <1>2 DEF IdInv, IdsBelow, Entries, TypeInv, TypeOK, DoingTasks
<1>4. CASE Queue = <<>>
  <2>1. todo' = todo /\ doing' = doing
    BY <1>4 DEF Dispatch
  <2>2. Entries' = Entries
    BY <2>1 DEF Entries, Elements
  <2>3. \A x \in Entries : x.id \in Nat /\ x.id < nextId
    BY EntryTypes DEF IdInv, IdsBelow
  <2>4. nextId \in Nat
    BY DEF TypeInv, TypeOK
  <2> QED
    BY <1>2, <1>4, <2>1, <2>2, <2>3, <2>4 DEF IdInv, IdsUnique, Inherited
<1>5. CASE Queue # <<>>
  <2> DEFINE h == Head(Queue)
             d == [id |-> h.id, shard |-> h.shard, retry |-> h.retry,
                   node |-> w]
             T == Tail(Queue)
  <2>1. todo' = T /\ doing' = doing \cup {d}
    BY <1>5 DEF Dispatch
  <2>2. d.id = h.id /\ d.shard = h.shard
    OBVIOUS
  <2>3. /\ 1 \in DOMAIN Queue /\ h = Queue[1] /\ Len(Queue) \in Nat
        /\ DOMAIN T = 1 .. Len(Queue) - 1
        /\ \A k \in DOMAIN T : k + 1 \in DOMAIN Queue /\ T[k] = Queue[k + 1]
    BY <1>1, <1>5
  <2> HIDE DEF h, d, T
  <2>4. \A x \in Entries' :
          x = d \/ x \in doing \/ \E k \in DOMAIN T : x = T[k]
    BY <2>1 DEF Entries, Elements
  <2>5. IdsUnique'
    <3>1. \A j, k \in DOMAIN T : T[j].id = T[k].id => j = k
      BY <1>2, <2>3
    <3>2. \A k \in DOMAIN T : T[k].id # d.id
      BY <1>2, <2>2, <2>3
    <3>3. \A k \in DOMAIN T, e \in doing : T[k].id # e.id
      BY <1>2, <2>3
    <3>4. \A e \in doing : e.id # d.id
      BY <1>2, <2>2, <2>3
    <3> QED
      BY <2>1, <3>1, <3>2, <3>3, <3>4 DEF IdsUnique, IdInv
  <2>6. \A x \in Entries' : x.id < nextId'
    BY <1>2, <1>3, <2>2, <2>3, <2>4
  <2>7. Inherited
    <3>1. \A e \in doing : e \in Entries
      BY DEF Entries
    <3> QED
      BY <1>2, <2>2, <2>3, <2>4, <3>1 DEF Inherited
  <2>8. /\ h.id \in Nat /\ h.id < nextId'
        /\ \A x \in Entries' : x.id = h.id => x.shard = h.shard
    <3>1. \A k \in DOMAIN T : T[k].id # h.id
      BY <1>2, <2>3
    <3>2. \A e \in doing : e.id # h.id
      BY <1>2, <2>3
    <3> QED
      BY <1>2, <2>2, <2>3, <2>4, <3>1, <3>2
  <2> QED
    BY <1>2, <2>5, <2>6, <2>7, <2>8 DEF h
<1> QED
  BY <1>4, <1>5

LEMMA AppendFacts ==
  ASSUME NEW S, NEW q \in Seq(S), NEW e
  PROVE  /\ Len(q) \in Nat /\ DOMAIN q = 1 .. Len(q)
         /\ DOMAIN Append(q, e) = 1 .. Len(q) + 1
         /\ \A k \in DOMAIN q : Append(q, e)[k] = q[k]
         /\ Append(q, e)[Len(q) + 1] = e
OBVIOUS

LEMMA ReportIds ==
  ASSUME TypeInv, IdInv, NEW id, NEW success, ReportTaskStatus(id, success)
  PROVE  /\ IdsUnique'
         /\ \A x \in Entries' :
              \E y \in Entries : y.id = x.id /\ y.shard = x.shard
         /\ done' \subseteq done \cup {d.shard : d \in {e \in doing : e.id = id}}
         /\ ~success => done' = done
<1> DEFINE known == {d \in doing : d.id = id}
<1>1. doing' = doing \ known
  BY DEF ReportTaskStatus
<1>2. \/ todo' = todo
      \/ \E d \in known : \E r \in Nat :
           todo' = Append(todo, [id |-> d.id, shard |-> d.shard, retry |-> r])
  <2>1. \A d \in known : d.retry + 1 \in Nat
    BY BoundsAssumption DEF TypeInv, TypeOK, DoingTasks
  <2> QED
    BY Zenon, <2>1 DEF ReportTaskStatus, RecoverTask
<1>3. done' \subseteq done \cup {d.shard : d \in known} /\ (~success => done' = done)
  BY DEF ReportTaskStatus
<1>4. CASE todo' = todo
  BY <1>1, <1>3, <1>4 DEF IdInv, IdsUnique, Entries, Elements
<1>5. ASSUME NEW d \in known, NEW r \in Nat,
             todo' = Append(todo, [id |-> d.id, shard |-> d.shard, retry |-> r])
      PROVE  /\ IdsUnique'
             /\ \A x \in Entries' :
                  \E y \in Entries : y.id = x.id /\ y.shard = x.shard
  <2> DEFINE t == [id |-> d.id, shard |-> d.shard, retry |-> r]
  <2>1. t.id = d.id /\ t.shard = d.shard /\ todo' = Append(todo, t)
    BY <1>5
  <2> HIDE DEF t
  <2>2. /\ todo \in Seq(Tasks)
        /\ Len(todo) \in Nat /\ DOMAIN todo = 1 .. Len(todo)
        /\ DOMAIN todo' = 1 .. Len(todo) + 1
        /\ \A k \in DOMAIN todo : todo'[k] = todo[k]
        /\ todo'[Len(todo) + 1] = t
    <3>1. todo \in Seq(Tasks)
      BY DEF TypeInv, TypeOK
    <3> QED
      BY <2>1, <3>1, AppendFacts
  <2>3. \A k \in DOMAIN todo : todo[k].id # d.id
    BY DEF IdInv, IdsUnique
  <2>4. \A e \in doing' : e \in doing /\ e.id # d.id
    BY <1>1
  <2>5. \A k \in DOMAIN todo' : k \in DOMAIN todo \/ k = Len(todo) + 1
    BY <2>2
  <2>6. IdsUnique'
    <3>1. \A j, k \in DOMAIN todo' : todo'[j].id = todo'[k].id => j = k
      BY <2>1, <2>2, <2>3, <2>5 DEF IdInv, IdsUnique
    <3>2. \A e, f \in doing' : e.id = f.id => e = f
      BY <2>4 DEF IdInv, IdsUnique
    <3>3. \A k \in DOMAIN todo', e \in doing' : todo'[k].id # e.id
      BY <2>1, <2>2, <2>4, <2>5 DEF IdInv, IdsUnique
    <3> QED
      BY <3>1, <3>2, <3>3 DEF IdsUnique
  <2>7. \A x \in Entries' :
          x \in doing \/ x = t \/ \E k \in DOMAIN todo : x = todo[k]
    BY <2>2, <2>4, <2>5 DEF Entries, Elements
  <2>8. d \in Entries /\ (\A e \in doing : e \in Entries)
        /\ \A k \in DOMAIN todo : todo[k] \in Entries
    BY DEF Entries, Elements
  <2> QED
    BY <2>1, <2>6, <2>7, <2>8
<1> QED
  BY Zenon, <1>2, <1>3, <1>4, <1>5

-----------------------------------------------------------------------------
(* What a report means: the id a worker holds never names another shard,   *)
(* and a success on its way stands for a shard that was processed.         *)

OkReport(w) == wstate[w] = "ok" \/ late[w] = "ok"

Matches(w, x) ==
  x.id = wtask[w].id =>
    /\ x.shard = wtask[w].shard
    /\ OkReport(w) => x.shard \in processed

MatchInv == \A w \in Workers : \A x \in Entries : Matches(w, x)

LateInv == \A w \in Workers : late[w] # "none" => wstate[w] = "dead"

ReportInv == TypeInv /\ IdInv /\ LateInv /\ MatchInv /\ DoneWasProcessed

LEMMA ReportInvInit == Init => ReportInv
<1> SUFFICES ASSUME Init PROVE ReportInv
  OBVIOUS
<1>1. Entries = {} /\ DOMAIN todo = {}
  BY DEF Init, Entries, Elements
<1>2. \A w \in Workers : wtask[w].id < nextId
  BY DEF Init, InvalidTask
<1>3. IdInv
  BY <1>1, <1>2 DEF Init, IdInv, IdsBelow, IdsUnique
<1> QED
  BY <1>1, <1>3, TypeInvInit
  DEF Init, ReportInv, LateInv, MatchInv, DoneWasProcessed

\* Most steps leave the workers' tasks alone and turn no call into a success.
LEMMA MatchKept ==
  ASSUME ReportInv, Inherited, wtask' = wtask,
         processed \subseteq processed',
         \A w \in Workers : OkReport(w)' => OkReport(w)
  PROVE  MatchInv'
<1> SUFFICES ASSUME NEW w \in Workers, NEW x \in Entries',
                    x.id = wtask[w].id
             PROVE  /\ x.shard = wtask[w].shard
                    /\ OkReport(w) => x.shard \in processed
  BY DEF MatchInv, Matches
<1>1. wtask[w].id < nextId /\ nextId \in Nat
  BY DEF ReportInv, IdInv, IdsBelow, TypeInv, TypeOK
<1>2. wtask[w].id \in Int
  BY DEF ReportInv, TypeInv, TypeOK, HeldTasks, InvalidTask
<1>3. PICK y \in Entries : y.id = x.id /\ y.shard = x.shard
  BY <1>1, <1>2 DEF Inherited
<1> QED
  BY <1>3 DEF ReportInv, MatchInv, Matches

\* A step that leaves the entries alone.
LEMMA SameEntries ==
  ASSUME ReportInv, todo' = todo, doing' = doing, nextId' = nextId,
         wtask' = wtask
  PROVE  IdInv' /\ Inherited
<1>1. Entries' = Entries
  BY DEF Entries, Elements
<1> QED
  BY <1>1 DEF ReportInv, IdInv, IdsBelow, IdsUnique, Inherited

\* A report by id, whoever makes it.
LEMMA ReportKeepsIds ==
  ASSUME ReportInv, NEW id, NEW success, ReportTaskStatus(id, success),
         nextId' = nextId,
         \A w \in Workers : wtask'[w].id = wtask[w].id \/ wtask'[w].id = -1
  PROVE  /\ IdInv' /\ Inherited
         /\ done' \subseteq done \cup {d.shard : d \in {e \in doing : e.id = id}}
         /\ ~success => done' = done
<1>1. /\ IdsUnique'
      /\ \A x \in Entries' :
           \E y \in Entries : y.id = x.id /\ y.shard = x.shard
      /\ done' \subseteq done \cup {d.shard : d \in {e \in doing : e.id = id}}
      /\ ~success => done' = done
  BY ReportIds DEF ReportInv
<1>2. nextId \in Nat
  BY DEF ReportInv, TypeInv, TypeOK
<1>3. IdsBelow'
  BY <1>1, <1>2 DEF ReportInv, IdInv, IdsBelow
<1> QED
  BY <1>1, <1>3 DEF IdInv, Inherited

LEMMA DoneByWorker ==
  ASSUME ReportInv, NEW w \in Workers, NEW success, success => OkReport(w),
         processed' = processed,
         done' \subseteq done \cup
                 {d.shard : d \in {e \in doing : e.id = wtask[w].id}},
         ~success => done' = done, success \in BOOLEAN
  PROVE  DoneWasProcessed'
<1>1. \A d \in doing : d \in Entries
  BY DEF Entries
<1>2. CASE ~success
  BY <1>2 DEF ReportInv, DoneWasProcessed
<1>3. CASE success
  <2>1. \A d \in doing : d.id = wtask[w].id => d.shard \in processed
    BY <1>1, <1>3 DEF ReportInv, MatchInv, Matches
  <2> QED
    BY <2>1 DEF ReportInv, DoneWasProcessed
<1> QED
  BY <1>2, <1>3

-----------------------------------------------------------------------------
(* One lemma per action: the parts of ReportInv beyond TypeInv are kept.    *)

LEMMA GetTaskKept ==
  ASSUME ReportInv,
         NEW w \in Workers, GetTask(w)
  PROVE  IdInv' /\ LateInv' /\ MatchInv' /\ DoneWasProcessed'
<1>0. TypeInv /\ nextId \in Nat
  BY DEF ReportInv, TypeInv, TypeOK
<1>1. /\ IdsUnique' /\ Inherited
      /\ \A x \in Entries' : x.id < nextId'
      /\ nextId' \in Nat /\ nextId <= nextId'
      /\ Queue # <<>> =>
           /\ Head(Queue).id \in Nat /\ Head(Queue).id < nextId'
           /\ \A x \in Entries' :
                x.id = Head(Queue).id => x.shard = Head(Queue).shard
  BY DispatchIds DEF GetTask, ReportInv
<1>2. /\ processed' = processed /\ done' = done /\ late' = late
      /\ wstate[w] = "idle" /\ late[w] = "none"
      /\ \A v \in Workers : wtask[v].id \in Int /\ wtask[v].id < nextId
  BY DEF GetTask, ledgerVars, ReportInv, LateInv, IdInv, IdsBelow,
              TypeInv, TypeOK, HeldTasks, InvalidTask
<1>3. \/ wtask' = wtask /\ wstate' = [wstate EXCEPT ![w] = "exited"]
      \/ /\ Queue # <<>>
         /\ wtask' = [wtask EXCEPT ![w] =
                        [id |-> Head(Queue).id, shard |-> Head(Queue).shard]]
         /\ wstate' = [wstate EXCEPT ![w] = "busy"]
  BY DEF GetTask
<1>4. /\ wtask \in [Workers -> HeldTasks \cup {InvalidTask}]
      /\ wstate \in [Workers -> {"off", "idle", "busy", "ok", "err",
                                 "exited", "dead"}]
  BY <1>0 DEF TypeInv, TypeOK
<1>5. \A v \in Workers :
        v # w => wtask'[v] = wtask[v] /\ wstate'[v] = wstate[v]
  BY <1>3, <1>4
<1>6. wstate'[w] \in {"exited", "busy"}
  BY <1>3, <1>4
<1>7. \/ wtask'[w] = wtask[w]
      \/ /\ Queue # <<>> /\ wtask'[w].id = Head(Queue).id
         /\ wtask'[w].shard = Head(Queue).shard
  BY <1>3, <1>4
<1>8. IdInv'
  <2>1. \A v \in Workers : wtask'[v].id < nextId'
    BY <1>0, <1>1, <1>2, <1>5, <1>7
  <2> QED
    BY <1>1, <2>1 DEF IdInv, IdsBelow
<1>9. LateInv'
  BY <1>2, <1>5 DEF ReportInv, LateInv
<1>10. ASSUME NEW v \in Workers, wtask'[v] = wtask[v],
              OkReport(v)' => OkReport(v), NEW x \in Entries'
       PROVE  Matches(v, x)'
  <2>1. CASE x.id # wtask[v].id
    BY <1>10, <2>1 DEF Matches
  <2>2. CASE x.id = wtask[v].id
    <3>1. PICK y \in Entries : y.id = x.id /\ y.shard = x.shard
      BY <1>0, <1>1, <1>2, <2>2 DEF Inherited
    <3> QED
      BY <1>2, <1>10, <2>2, <3>1 DEF ReportInv, MatchInv, Matches
  <2> QED
    BY <2>1, <2>2
<1>11. ~OkReport(w)' /\ \A v \in Workers : OkReport(v)' => OkReport(v)
  BY <1>2, <1>5, <1>6 DEF OkReport
<1>12. MatchInv'
  <2>1. ASSUME NEW x \in Entries' PROVE Matches(w, x)'
    <3>1. CASE wtask'[w] = wtask[w]
      BY <1>10, <1>11, <3>1
    <3>2. CASE wtask'[w] # wtask[w]
      BY <1>1, <1>7, <1>11, <3>2 DEF Matches
    <3> QED
      BY <3>1, <3>2
  <2>2. ASSUME NEW v \in Workers, v # w, NEW x \in Entries'
        PROVE  Matches(v, x)'
    BY <1>5, <1>10, <1>11, <2>2
  <2> QED
    BY <2>1, <2>2 DEF MatchInv
<1> QED
  BY <1>2, <1>8, <1>9, <1>12 DEF ReportInv, DoneWasProcessed

LEMMA LostGetTaskKept ==
  ASSUME ReportInv,
         NEW w \in Workers, GetTaskReplyLost(w) \/ LateGetTask(w)
  PROVE  IdInv' /\ LateInv' /\ MatchInv' /\ DoneWasProcessed'
<1>0. TypeInv /\ nextId \in Nat
  BY DEF ReportInv, TypeInv, TypeOK
<1>1. /\ IdsUnique' /\ Inherited
      /\ \A x \in Entries' : x.id < nextId'
      /\ nextId' \in Nat /\ nextId <= nextId'
  BY DispatchIds DEF GetTaskReplyLost, LateGetTask, ReportInv
<1>2. /\ processed' = processed /\ done' = done /\ wtask' = wtask
      /\ wstate' = wstate /\ (late' = late \/ late' = [late EXCEPT ![w] = "none"])
  BY DEF GetTaskReplyLost, LateGetTask, ledgerVars, workerVars
<1>3. \A v \in Workers : wtask[v].id \in Int
  BY <1>0 DEF TypeInv, TypeOK, HeldTasks, InvalidTask
<1>4. IdInv'
  BY <1>0, <1>1, <1>2, <1>3 DEF ReportInv, IdInv, IdsBelow
<1>5. LateInv' /\ \A v \in Workers : OkReport(v)' => OkReport(v)
  BY <1>0, <1>2 DEF ReportInv, LateInv, OkReport, TypeInv, TypeOK
<1>6. MatchInv'
  BY <1>1, <1>2, <1>5, MatchKept
<1> QED
  BY <1>2, <1>4, <1>5, <1>6 DEF ReportInv, DoneWasProcessed

\* A step that leaves tasks and progress alone.
LEMMA UntouchedKept ==
  ASSUME ReportInv,
         todo' = todo, doing' = doing, nextId' = nextId, wtask' = wtask,
         processed' = processed, done' = done, LateInv',
         \A v \in Workers : OkReport(v)' => OkReport(v)
  PROVE  IdInv' /\ LateInv' /\ MatchInv' /\ DoneWasProcessed'
<1>1. IdInv' /\ Inherited
  BY SameEntries
<1>2. MatchInv'
  BY <1>1, MatchKept
<1> QED
  BY <1>1, <1>2 DEF ReportInv, DoneWasProcessed

LEMMA WorkerStateKept ==
  ASSUME ReportInv,
         NEW w \in Workers, Launch(w) \/ FailTask(w) \/ Crash(w)
  PROVE  IdInv' /\ LateInv' /\ MatchInv' /\ DoneWasProcessed'
<1>0. TypeInv /\ nextId \in Nat
  BY DEF ReportInv, TypeInv, TypeOK
<1>1. /\ todo' = todo /\ doing' = doing /\ nextId' = nextId
      /\ wtask' = wtask /\ processed' = processed /\ done' = done
  BY DEF Launch, FailTask, Crash, taskVars, ledgerVars
<1>2. /\ wstate \in [Workers -> {"off", "idle", "busy", "ok", "err",
                                 "exited", "dead"}]
      /\ late \in [Workers -> {"none", "get", "ok", "err"}]
  BY <1>0 DEF TypeInv, TypeOK
<1>3. CASE Launch(w) \/ FailTask(w)
  BY <1>1, <1>2, <1>3, UntouchedKept
  DEF Launch, FailTask, LateInv, OkReport, ReportInv
<1>4. CASE Crash(w)
  <2>1. PICK c \in {"none", OutstandingCall(wstate[w])} :
          late' = [late EXCEPT ![w] = c]
    BY Zenon, <1>4 DEF Crash
  <2>2. wstate' = [wstate EXCEPT ![w] = "dead"]
    BY <1>4 DEF Crash
  <2>3. c = "ok" => wstate[w] = "ok"
    BY <2>1, <1>4 DEF OutstandingCall, Crash
  <2>4. LateInv' /\ \A v \in Workers : OkReport(v)' => OkReport(v)
    BY <1>2, <2>1, <2>2, <2>3 DEF LateInv, OkReport, ReportInv
  <2> QED
    BY <1>1, <2>4, UntouchedKept
<1> QED
  BY <1>3, <1>4

LEMMA ScanKept ==
  ASSUME ReportInv,
         \/ \E w \in Workers : RecoverScan(w)
         \/ RecoverCollect \/ RecoverRaises
         \/ CheckpointBegin \/ CheckpointTodo \/ CheckpointDoing
         \/ CheckpointEpoch \/ UNCHANGED vars
  PROVE  IdInv' /\ LateInv' /\ MatchInv' /\ DoneWasProcessed'
<1>1. /\ todo' = todo /\ doing' = doing /\ nextId' = nextId
      /\ wtask' = wtask /\ processed' = processed /\ done' = done
      /\ wstate' = wstate /\ late' = late
  BY Zenon DEF RecoverScan, RecoverCollect, RecoverRaises, CheckpointBegin,
              CheckpointTodo, CheckpointDoing, CheckpointEpoch, vars,
              taskVars, ledgerVars, workerVars
<1> QED
  BY <1>1, UntouchedKept DEF LateInv, OkReport, ReportInv

LEMMA FinishTaskKept ==
  ASSUME ReportInv,
         NEW w \in Workers, FinishTask(w)
  PROVE  IdInv' /\ LateInv' /\ MatchInv' /\ DoneWasProcessed'
<1>0. TypeInv /\ nextId \in Nat
  BY DEF ReportInv, TypeInv, TypeOK
<1>1. /\ todo' = todo /\ doing' = doing /\ nextId' = nextId
      /\ wtask' = wtask /\ done' = done /\ late' = late
      /\ wstate[w] = "busy" /\ wstate' = [wstate EXCEPT ![w] = "ok"]
      /\ processed' = processed \cup {wtask[w].shard}
  BY DEF FinishTask, taskVars
<1>2. IdInv' /\ Inherited /\ Entries' = Entries
  BY <1>1, SameEntries DEF Entries, Elements
<1>3. LateInv' /\ \A v \in Workers : v # w => (OkReport(v)' => OkReport(v))
  BY <1>0, <1>1 DEF ReportInv, LateInv, OkReport, TypeInv, TypeOK
<1>4. \A v \in Workers : \A x \in Entries : Matches(v, x)
  BY DEF ReportInv, MatchInv
<1>5. MatchInv'
  <2>1. ASSUME NEW v \in Workers, NEW x \in Entries PROVE Matches(v, x)'
    <3>1. CASE v = w
      BY <1>1, <1>4, <2>1, <3>1 DEF Matches
    <3>2. CASE v # w
      <4>1. Matches(v, x) /\ (OkReport(v)' => OkReport(v))
        BY <1>3, <1>4, <2>1, <3>2
      <4> QED
        BY <1>1, <4>1 DEF Matches
    <3> QED
      BY <3>1, <3>2
  <2> QED
    BY <1>2, <2>1 DEF MatchInv
<1> QED
  BY <1>1, <1>2, <1>3, <1>5 DEF ReportInv, DoneWasProcessed

\* A report that a worker, or the call it left behind, makes of its task.
LEMMA WorkerReportKept ==
  ASSUME ReportInv,
         NEW w \in Workers, NEW success \in BOOLEAN,
         ReportTaskStatus(wtask[w].id, success), success => OkReport(w),
         nextId' = nextId, wtask' = wtask, processed' = processed,
         LateInv', \A v \in Workers : OkReport(v)' => OkReport(v)
  PROVE  IdInv' /\ LateInv' /\ MatchInv' /\ DoneWasProcessed'
<1>1. IdInv' /\ Inherited /\ (~success => done' = done)
      /\ done' \subseteq done \cup
            {d.shard : d \in {e \in doing : e.id = wtask[w].id}}
  BY ReportKeepsIds
<1>2. MatchInv'
  BY <1>1, MatchKept
<1>3. DoneWasProcessed'
  BY Zenon, <1>1, DoneByWorker
<1> QED
  BY <1>1, <1>2, <1>3

LEMMA ReportReplyLostKept ==
  ASSUME ReportInv,
         NEW w \in Workers, ReportReplyLost(w)
  PROVE  IdInv' /\ LateInv' /\ MatchInv' /\ DoneWasProcessed'
<1>1. /\ ReportTaskStatus(wtask[w].id, wstate[w] = "ok")
      /\ nextId' = nextId /\ wtask' = wtask /\ processed' = processed
      /\ late' = late /\ wstate' = wstate
  BY DEF ReportReplyLost, workerVars
<1>2. LateInv' /\ \A v \in Workers : OkReport(v)' => OkReport(v)
  BY <1>1 DEF ReportInv, LateInv, OkReport
<1>3. (wstate[w] = "ok") => OkReport(w)
  BY DEF OkReport
<1> QED
  BY Zenon, <1>1, <1>2, <1>3, WorkerReportKept

LEMMA LateReportKept ==
  ASSUME ReportInv,
         NEW w \in Workers, LateReport(w)
  PROVE  IdInv' /\ LateInv' /\ MatchInv' /\ DoneWasProcessed'
<1>0. TypeInv /\ nextId \in Nat
  BY DEF ReportInv, TypeInv, TypeOK
<1>1. /\ ReportTaskStatus(wtask[w].id, late[w] = "ok")
      /\ nextId' = nextId /\ wtask' = wtask /\ processed' = processed
      /\ late' = [late EXCEPT ![w] = "none"] /\ wstate' = wstate
  BY DEF LateReport
<1>2. LateInv' /\ \A v \in Workers : OkReport(v)' => OkReport(v)
  BY <1>0, <1>1 DEF ReportInv, LateInv, OkReport, TypeInv, TypeOK
<1>3. (late[w] = "ok") => OkReport(w)
  BY DEF OkReport
<1> QED
  BY Zenon, <1>1, <1>2, <1>3, WorkerReportKept

LEMMA ReportTaskKept ==
  ASSUME ReportInv,
         NEW w \in Workers, ReportTask(w)
  PROVE  IdInv' /\ LateInv' /\ MatchInv' /\ DoneWasProcessed'
<1>0. TypeInv /\ nextId \in Nat
  BY DEF ReportInv, TypeInv, TypeOK
<1>1. /\ ReportTaskStatus(wtask[w].id, wstate[w] = "ok")
      /\ nextId' = nextId /\ processed' = processed /\ late' = late
      /\ wstate' = [wstate EXCEPT ![w] = "idle"]
      /\ wtask' = [wtask EXCEPT ![w] = InvalidTask]
      /\ wstate[w] \in {"ok", "err"}
  BY DEF ReportTask
<1>2. /\ wtask \in [Workers -> HeldTasks \cup {InvalidTask}]
      /\ wstate \in [Workers -> {"off", "idle", "busy", "ok", "err",
                                 "exited", "dead"}]
  BY <1>0 DEF TypeInv, TypeOK
<1>3. /\ wtask'[w].id = -1
      /\ \A v \in Workers : v # w => wtask'[v] = wtask[v]
  BY <1>1, <1>2 DEF InvalidTask
<1>4. \A v \in Workers : wtask'[v].id = wtask[v].id \/ wtask'[v].id = -1
  BY <1>3
<1>5. IdInv' /\ Inherited /\ (~(wstate[w] = "ok") => done' = done)
      /\ done' \subseteq done \cup
            {d.shard : d \in {e \in doing : e.id = wtask[w].id}}
  BY Zenon, <1>1, <1>4, ReportKeepsIds
<1>6. LateInv' /\ \A v \in Workers : OkReport(v)' => OkReport(v)
  BY <1>1, <1>2 DEF ReportInv, LateInv, OkReport
<1>7. \A x \in Entries' : x.id # -1
  <2>1. \A y \in Entries : y.id \in Nat
    BY <1>0, EntryTypes
  <2> QED
    BY <1>0, <1>5, <2>1 DEF Inherited
<1>8. MatchInv'
  <2>1. ASSUME NEW v \in Workers, v # w, NEW x \in Entries'
        PROVE  Matches(v, x)'
    <3>1. wtask[v].id \in Int /\ wtask[v].id < nextId
      BY <1>2 DEF ReportInv, IdInv, IdsBelow, HeldTasks, InvalidTask
    <3>2. x.id = wtask[v].id =>
            \E y \in Entries : y.id = x.id /\ y.shard = x.shard
      BY <1>0, <1>5, <3>1 DEF Inherited
    <3>3. /\ wtask'[v] = wtask[v] /\ processed' = processed
          /\ OkReport(v)' => OkReport(v)
      BY <1>1, <1>3, <1>6, <2>1
    <3>4. ASSUME NEW y \in Entries, y.id = x.id, y.shard = x.shard
          PROVE  Matches(v, x)
      <4>1. Matches(v, y)
        BY DEF ReportInv, MatchInv
      <4> QED
        BY <3>4, <4>1 DEF Matches
    <3>5. Matches(v, x)
      BY <3>2, <3>4 DEF Matches
    <3> QED
      BY <3>3, <3>5 DEF Matches
  <2>2. ASSUME NEW x \in Entries' PROVE Matches(w, x)'
    BY <1>3, <1>7 DEF Matches
  <2> QED
    BY <2>1, <2>2 DEF MatchInv
<1>9. DoneWasProcessed'
  <2>1. (wstate[w] = "ok") => OkReport(w)
    BY DEF OkReport
  <2> QED
    BY Zenon, <1>1, <1>5, <2>1, DoneByWorker
<1> QED
  BY <1>5, <1>6, <1>8, <1>9

\* A failure the master reports in a worker's place.
LEMMA FailureReportKept ==
  ASSUME ReportInv,
         NEW id, ReportTaskStatus(id, FALSE), nextId' = nextId,
         wtask' = wtask, processed' = processed, LateInv',
         \A v \in Workers : OkReport(v)' => OkReport(v)
  PROVE  IdInv' /\ LateInv' /\ MatchInv' /\ DoneWasProcessed'
<1>1. IdInv' /\ Inherited /\ done' = done
  BY Zenon, ReportKeepsIds
<1>2. MatchInv'
  BY <1>1, MatchKept
<1> QED
  BY <1>1, <1>2 DEF ReportInv, DoneWasProcessed

LEMMA RecoverReportKept ==
  ASSUME ReportInv,
         NEW id \in recovering, RecoverReport(id)
  PROVE  IdInv' /\ LateInv' /\ MatchInv' /\ DoneWasProcessed'
<1>1. /\ ReportTaskStatus(id, FALSE)
      /\ nextId' = nextId /\ processed' = processed
      /\ wtask' = wtask /\ late' = late /\ wstate' = wstate
  BY Zenon DEF RecoverReport, workerVars
<1> QED
  BY Zenon, <1>1, FailureReportKept DEF ReportInv, LateInv, OkReport

LEMMA TimeoutKept ==
  ASSUME ReportInv,
         NEW d \in doing, ReassignTimeoutTask(d)
  PROVE  IdInv' /\ LateInv' /\ MatchInv' /\ DoneWasProcessed'
<1>0. TypeInv /\ nextId \in Nat
  BY DEF ReportInv, TypeInv, TypeOK
<1>1. /\ ReportTaskStatus(d.id, FALSE)
      /\ nextId' = nextId /\ processed' = processed
      /\ wtask' = wtask /\ late' = late
      /\ wstate' = wstate \/ wstate' = [wstate EXCEPT ![d.node] = "dead"]
  BY Zenon DEF ReassignTimeoutTask
<1>2. wstate \in [Workers -> {"off", "idle", "busy", "ok", "err",
                              "exited", "dead"}]
  BY <1>0 DEF TypeInv, TypeOK
<1>3. LateInv' /\ \A v \in Workers : OkReport(v)' => OkReport(v)
  BY <1>1, <1>2 DEF ReportInv, LateInv, OkReport
<1> QED
  BY Zenon, <1>1, <1>3, FailureReportKept

LEMMA RestoreBeginKept ==
  ASSUME ReportInv,
         RestoreBegin
  PROVE  IdInv' /\ LateInv' /\ MatchInv' /\ DoneWasProcessed'
<1>1. /\ todo' = <<>> /\ doing' = {} /\ nextId' = nextId
      /\ wtask' = wtask /\ late' = late /\ wstate' = wstate
      /\ done' = processed'
  BY DEF RestoreBegin, workerVars
<1>2. Entries' = {} /\ DOMAIN todo' = {}
  BY <1>1 DEF Entries, Elements
<1>3. IdInv'
  BY <1>1, <1>2 DEF ReportInv, IdInv, IdsBelow, IdsUnique
<1> QED
  BY <1>1, <1>2, <1>3 DEF ReportInv, LateInv, MatchInv, DoneWasProcessed

LEMMA RestoreAppendKept ==
  ASSUME ReportInv,
         RestoreAppend
  PROVE  IdInv' /\ LateInv' /\ MatchInv' /\ DoneWasProcessed'
<1>0. TypeInv /\ nextId \in Nat
  BY DEF ReportInv, TypeInv, TypeOK
<1> DEFINE t == [id |-> nextId, shard |-> Head(rst), retry |-> 0]
<1>1. /\ todo' = Append(todo, t) /\ doing' = doing /\ nextId' = nextId + 1
      /\ wtask' = wtask /\ late' = late /\ wstate' = wstate
      /\ processed' = processed /\ done' = done
  BY DEF RestoreAppend, ledgerVars, workerVars
<1>2. t.id = nextId
  OBVIOUS
<1> HIDE DEF t
<1>3. /\ Len(todo) \in Nat /\ DOMAIN todo = 1 .. Len(todo)
      /\ DOMAIN todo' = 1 .. Len(todo) + 1
      /\ \A k \in DOMAIN todo : todo'[k] = todo[k]
      /\ todo'[Len(todo) + 1] = t
  <2>1. todo \in Seq(Tasks)
    BY <1>0 DEF TypeInv, TypeOK
  <2> QED
    BY <1>1, <2>1, AppendFacts
<1>4. \A k \in DOMAIN todo' : k \in DOMAIN todo \/ k = Len(todo) + 1
  BY <1>3
<1>5. \A x \in Entries' : x \in Entries \/ x = t
  BY <1>1, <1>3, <1>4 DEF Entries, Elements
<1>6. \A x \in Entries : x.id \in Nat /\ x.id < nextId
  BY <1>0, EntryTypes DEF ReportInv, IdInv, IdsBelow
<1>7. Inherited
  BY <1>0, <1>2, <1>5 DEF Inherited
<1>8. IdInv'
  <2>1. \A k \in DOMAIN todo : todo[k] \in Entries
    BY <1>0, EntryTypes
  <2>2. \A d \in doing : d \in Entries
    BY DEF Entries
  <2>3. IdsUnique'
    <3>1. \A j, k \in DOMAIN todo' : todo'[j].id = todo'[k].id => j = k
      BY <1>0, <1>2, <1>3, <1>4, <1>6, <2>1 DEF ReportInv, IdInv, IdsUnique
    <3>2. \A k \in DOMAIN todo', d \in doing : todo'[k].id # d.id
      BY <1>0, <1>2, <1>3, <1>4, <1>6, <2>2 DEF ReportInv, IdInv, IdsUnique
    <3> QED
      BY <1>1, <3>1, <3>2 DEF ReportInv, IdInv, IdsUnique
  <2>4. \A w \in Workers : wtask[w].id \in Int
    BY <1>0 DEF TypeInv, TypeOK, HeldTasks, InvalidTask
  <2>5. \A w \in Workers : wtask[w].id < nextId
    BY DEF ReportInv, IdInv, IdsBelow
  <2> QED
    BY <1>0, <1>1, <1>2, <1>5, <1>6, <2>3, <2>4, <2>5
    DEF IdInv, IdsBelow
<1>9. LateInv' /\ \A v \in Workers : OkReport(v)' => OkReport(v)
  BY <1>1 DEF ReportInv, LateInv, OkReport
<1>10. MatchInv'
  BY <1>1, <1>7, <1>9, MatchKept
<1> QED
  BY <1>1, <1>8, <1>9, <1>10 DEF ReportInv, DoneWasProcessed

LEMMA ReportInvNext == ReportInv /\ [Next]_vars => ReportInv'
<1> SUFFICES ASSUME ReportInv, [Next]_vars PROVE ReportInv'
  OBVIOUS
<1>1. TypeInv'
  BY TypeInvNext DEF ReportInv
<1>2. IdInv' /\ LateInv' /\ MatchInv' /\ DoneWasProcessed'
  BY GetTaskKept, LostGetTaskKept, WorkerStateKept, ScanKept, FinishTaskKept,
     ReportReplyLostKept, LateReportKept, ReportTaskKept, RecoverReportKept,
     TimeoutKept, RestoreBeginKept, RestoreAppendKept
  DEF Next, WorkerStep, MasterStep, CheckpointStep
<1> QED
  BY <1>1, <1>2 DEF ReportInv

LEMMA ReportInvariant == Spec => []ReportInv
BY ReportInvInit, ReportInvNext, PTL DEF Spec

\* An id names one task, whatever is retried, restored or recovered.
THEOREM UniqueIds == Spec => []IdsUnique
<1>1. ReportInv => IdsUnique
  BY DEF ReportInv, IdInv
<1> QED
  BY <1>1, ReportInvariant, PTL

\* A shard counts as done only after a worker used it up: late, repeated and
\* misdirected reports never complete another shard.
THEOREM DoneProcessed == Spec => []DoneWasProcessed
<1>1. ReportInv => DoneWasProcessed
  BY DEF ReportInv
<1> QED
  BY <1>1, ReportInvariant, PTL
=============================================================================
