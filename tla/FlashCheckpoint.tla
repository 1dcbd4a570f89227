--------------------------- MODULE FlashCheckpoint ---------------------------
(***************************************************************************)
(* Flash checkpoint: training processes copy their state into shared       *)
(* memory under a SharedLock (CheckpointEngine), and the agent of each     *)
(* node persists the memory asynchronously (CommonDirCheckpointSaver with  *)
(* the base persist_to_storage, as Megatron-LM and DeepSpeed use it).      *)
(*                                                                         *)
(* One training process per shard; a shard is <<node, local rank>>.  Each  *)
(* agent has two threads that persist: "saver" (_sync_shm_to_storage,      *)
(* driven by SAVE events) and "bp" (save_shm_to_storage, submitted when    *)
(* the workers fail or the membership changes).  Node 0 commits: when all  *)
(* done files of a step exist it writes the step into the tracker file.    *)
(*                                                                         *)
(* The content of a memory buffer or a file is the step it holds and the   *)
(* restart of the job that produced it; Torn stands for bytes of more than *)
(* one state.  The number of shards of the job does not change.            *)
(***************************************************************************)
EXTENDS Integers, FiniteSets

CONSTANTS
  Nodes,             \* node ranks, 0 among them
  Local,             \* local ranks of a node that hold a shard, 0 among them
  MaxStep,           \* bound on the training steps that are checkpointed
  MaxFaults,         \* bound on crashes and membership changes
  SaveAtBreakpoint,  \* the settings of --save_at_breakpoint to consider
  Orderly            \* TRUE iff saves and restarts come at convenient times,
                     \* defined below

ASSUME NodesAssumption == 0 \in Nodes /\ IsFiniteSet(Nodes)
ASSUME LocalAssumption == 0 \in Local /\ IsFiniteSet(Local)
ASSUME BoundsAssumption ==
  /\ MaxStep \in Nat /\ MaxFaults \in Nat
  /\ SaveAtBreakpoint \subseteq BOOLEAN /\ Orderly \in BOOLEAN

VARIABLES
  \* training processes, by shard
  tpc,       \* what the process is doing
  tstep,     \* the step it has reached
  cached,    \* _cached_step, 0 for -1
  loaded,    \* the content it resumed from
  mapped,    \* TRUE iff its handler has attached the shared memory
  kind,      \* of the save in progress: "memory" or "storage"
  inc,       \* restarts of the job
  \* shared objects, by shard
  meta,      \* the SharedDict's CheckpointConfig: step and writing_shm
  shm,       \* the content of the shared memory
  lock,      \* TRUE iff the SharedLock is locked
  conn,      \* lock_acquired of the process's connection to the lock server
  eof,       \* a closed connection that had lock_acquired is not yet handled
  \* the agent and its saver, by node
  apc,       \* what the agent is doing
  queue,     \* the event queue, of size 1
  thr,       \* the persisting threads: pc and step
  sub,       \* where their _save_shard calls are
  pend,      \* submitted save_shm_to_storage calls, Never without the flag
  latest, writing, stop,   \* _latest_step, _writing_storage, _stop_commit
  pod,       \* the pod number, which makes the node id
  \* master and storage
  synced,    \* _save_ckpt_nodes of the rendezvous manager
  disk,      \* the files, by shard and step
  dirs,      \* the steps whose directory of done files exists
  done,      \* the done files, by step
  tracker,   \* the tracker file, 0 if missing
  faults

trainVars == <<tpc, tstep, cached, loaded, mapped, kind, inc>>
memVars == <<meta, shm>>
lockVars == <<lock, conn, eof>>
saverVars == <<thr, sub, latest, writing, stop>>
agentVars == <<apc, pend, pod>>
storeVars == <<synced, disk, dirs, done, tracker>>
vars == <<trainVars, memVars, lockVars, saverVars, agentVars, queue, storeVars,
          faults>>

Shards == Nodes \X Local
Steps == 1 .. MaxStep
Threads == Nodes \X {"saver", "bp"}
Pods == Nodes \X (1 .. MaxFaults + 1)

Content(st, i) == [step |-> st, inc |-> i]
Empty == Content(0, 0)
Torn == Content(0, 1)
NoMeta == [step |-> 0, writing |-> FALSE]
NoEvent == 0                 \* a SAVE event is the step to save
UpdateShard == -1
Idle == [pc |-> "idle", step |-> 0]
Never == -1
NoSub == [l \in Local |-> "none"]

-----------------------------------------------------------------------------
Init ==
  /\ tpc = [s \in Shards |-> IF s[2] = 0 THEN "init" ELSE "load"]
  /\ tstep = [s \in Shards |-> 0] /\ cached = [s \in Shards |-> 0]
  /\ loaded = [s \in Shards |-> Empty] /\ mapped = [s \in Shards |-> FALSE]
  /\ kind = "memory" /\ inc = 1
  /\ meta = [s \in Shards |-> NoMeta] /\ shm = [s \in Shards |-> Empty]
  /\ lock = [s \in Shards |-> FALSE] /\ conn = [s \in Shards |-> FALSE]
  /\ eof = [s \in Shards |-> FALSE]
  /\ apc = [n \in Nodes |-> "watch"] /\ queue = [n \in Nodes |-> NoEvent]
  /\ thr = [t \in Threads |-> Idle] /\ sub = [t \in Threads |-> NoSub]
  /\ \E b \in SaveAtBreakpoint : pend = [n \in Nodes |-> IF b THEN 0 ELSE Never]
  /\ latest = [n \in Nodes |-> 0]
  /\ writing = [n \in Nodes |-> FALSE] /\ stop = [n \in Nodes |-> FALSE]
  /\ pod = [n \in Nodes |-> 1]
  /\ synced = [p \in Pods |-> 0]
  /\ disk = [s \in Shards |-> [st \in Steps |-> Empty]]
  /\ dirs = {} /\ done = [st \in Steps |-> {}]
  /\ tracker = 0 /\ faults = 0

-----------------------------------------------------------------------------
(* Nothing in the code orders the saves and the restart of the processes   *)
(* with what the two threads of the agent are in the middle of.  With      *)
(* Orderly the schedule does, and the model shows what the code guarantees *)
(* then: the agent finds failed processes and resets the saver when no     *)
(* process of the node is writing its memory and the saver thread is not   *)
(* persisting; a process starts no save after that, nor between the two    *)
(* releases of the lock in _save_shard; and new processes load when both   *)
(* threads have left the memory.                                           *)

Persisting == {"check", "mkdir", "save"}

SaverAtRest(n) ==
  queue[n] <= NoEvent /\ thr[<<n, "saver">>].pc \notin Persisting

RestartInTime(n) ==
  Orderly => SaverAtRest(n) /\ \A l \in Local : tpc[<<n, l>>] # "writing"

SaveInTime(n) == Orderly => apc[n] = "watch"

LockInTime(s) ==
  Orderly => \A t \in Threads :
               t[1] = s[1] => sub[t][s[2]] \notin {"mark", "failing"}

LoadInTime ==
  Orderly => /\ \A t \in Threads : thr[t].pc \in {"idle", "commit"}
             /\ \A s \in Shards : ~eof[s]
             /\ \A n \in Nodes : pend[n] <= 0

-----------------------------------------------------------------------------
(* The training processes.                                                 *)

All(pc) == \A s \in Shards : tpc[s] = pc

\* _update_saver_config: local rank 0 puts an UPDATE_SHARD event.
UpdateSaverConfig(n) ==
  /\ tpc[<<n, 0>>] = "init"
  /\ queue[n] = NoEvent
  /\ queue' = [queue EXCEPT ![n] = UpdateShard]
  /\ tpc' = [tpc EXCEPT ![<<n, 0>>] = "load"]
  /\ UNCHANGED <<tstep, cached, loaded, mapped, kind, inc, memVars, lockVars,
                 saverVars, agentVars, storeVars, faults>>

\* (mutant) The steps of the other ranks are not compared.
LoadedFromMemoryAlone(s) ==
  /\ meta[s].step > 0
  /\ ~meta[s].writing

\* What process s resumes from: verify_all_rank_step_consistent compares the
\* steps, load_state_dict refuses a dirty memory, and then the storage.
LoadedFromMemory(s) ==
  /\ meta[s].step > 0
  /\ \A u \in Shards : meta[u].step = meta[s].step
  /\ ~meta[s].writing

Resume(s) ==
  IF LoadedFromMemory(s) THEN shm[s]
  ELSE IF tracker = 0 THEN Empty
  ELSE disk[s][tracker]

\* get_state_dict_from_memory and _load_from_storage; a collective operation.
Load ==
  /\ All("load")
  /\ LoadInTime
  /\ tpc' = [s \in Shards |-> "train"]
  /\ loaded' = [s \in Shards |-> Resume(s)]
  /\ tstep' = [s \in Shards |-> Resume(s).step]
  /\ cached' = [s \in Shards |-> 0]
  /\ mapped' = [s \in Shards |-> LoadedFromMemory(s)]
  /\ UNCHANGED <<kind, inc, memVars, lockVars, saverVars, agentVars, queue,
                 storeVars, faults>>

\* A step is trained and save_state_dict_to_memory tries to take the lock.
TryAcquire(s) ==
  /\ tpc[s] = "train"
  /\ tstep[s] < MaxStep
  /\ SaveInTime(s[1])
  /\ LockInTime(s)
  /\ tstep' = [tstep EXCEPT ![s] = @ + 1]
  /\ conn' = [conn EXCEPT ![s] = ~lock[s]]
  /\ lock' = [lock EXCEPT ![s] = TRUE]
  /\ tpc' = [tpc EXCEPT ![s] = "vote"]
  /\ UNCHANGED <<cached, loaded, mapped, kind, inc, memVars, eof, saverVars,
                 agentVars, queue, storeVars, faults>>

\* (mutant) Everyone writes when one rank has acquired its lock.
AllReduceAny ==
  /\ All("vote")
  /\ \/ /\ \E s \in Shards : conn[s]
        /\ tpc' = [s \in Shards |-> "write"]
        /\ kind' \in {"memory", "storage"}
        /\ UNCHANGED lockVars
     \/ /\ \A s \in Shards : ~conn[s]
        /\ tpc' = [s \in Shards |-> "train"]
        /\ lock' = [s \in Shards |-> lock[s] /\ ~conn[s]]
        /\ conn' = [s \in Shards |-> FALSE]
        /\ UNCHANGED <<kind, eof>>
  /\ UNCHANGED <<tstep, cached, loaded, mapped, inc, memVars, saverVars,
                 agentVars, queue, storeVars, faults>>

\* check_all_rank_ready: everyone writes, or those that acquired release.
AllReduce ==
  /\ All("vote")
  /\ \/ /\ \A s \in Shards : conn[s]
        /\ tpc' = [s \in Shards |-> "write"]
        /\ kind' \in {"memory", "storage"}
        /\ UNCHANGED lockVars
     \/ /\ \E s \in Shards : ~conn[s]
        /\ tpc' = [s \in Shards |-> "train"]
        /\ lock' = [s \in Shards |-> lock[s] /\ ~conn[s]]
        /\ conn' = [s \in Shards |-> FALSE]
        /\ UNCHANGED <<kind, eof>>
  /\ UNCHANGED <<tstep, cached, loaded, mapped, inc, memVars, saverVars,
                 agentVars, queue, storeVars, faults>>

\* A thread of the agent that is copying shard s gets bytes of two states.
Disturb(s) ==
  sub' = [t \in Threads |->
            IF t[1] = s[1] /\ sub[t][s[2]] = "write"
            THEN [sub[t] EXCEPT ![s[2]] = "torn"] ELSE sub[t]]

\* save_state_dict: until the copy ends the SharedDict has writing_shm, with
\* the step of the previous state unless this is the handler's first write.
StartWrite(s) ==
  /\ tpc[s] = "write"
  /\ SaveInTime(s[1])
  /\ tpc' = [tpc EXCEPT ![s] = "writing"]
  /\ meta' = [meta EXCEPT ![s] =
                [step |-> IF mapped[s] THEN @.step ELSE tstep[s],
                 writing |-> TRUE]]
  /\ shm' = [shm EXCEPT ![s] = Torn]
  /\ Disturb(s)
  /\ UNCHANGED <<tstep, cached, loaded, mapped, kind, inc, lockVars, thr,
                 latest, writing, stop, agentVars, queue, storeVars, faults>>

\* The copy ends, the new CheckpointConfig is set and the lock released.
FinishWrite(s) ==
  /\ tpc[s] = "writing"
  /\ shm' = [shm EXCEPT ![s] = Content(tstep[s], inc)]
  /\ meta' = [meta EXCEPT ![s] = [step |-> tstep[s], writing |-> FALSE]]
  /\ mapped' = [mapped EXCEPT ![s] = TRUE]
  /\ cached' = [cached EXCEPT ![s] = tstep[s]]
  /\ lock' = [lock EXCEPT ![s] = FALSE]
  /\ conn' = [conn EXCEPT ![s] = FALSE]
  /\ tpc' = [tpc EXCEPT ![s] = IF kind = "memory" THEN "train" ELSE "barrier"]
  /\ UNCHANGED <<tstep, loaded, kind, inc, eof, saverVars, agentVars, queue,
                 storeVars, faults>>

\* dist.barrier() of save_to_storage: local rank 0 notifies its agent.
Barrier ==
  /\ All("barrier")
  /\ tpc' = [s \in Shards |-> IF s[2] = 0 THEN "put" ELSE "train"]
  /\ UNCHANGED <<tstep, cached, loaded, mapped, kind, inc, memVars, lockVars,
                 saverVars, agentVars, queue, storeVars, faults>>

\* save_to_storage of a step that save_to_memory has cached.
SaveCached ==
  /\ All("train")
  /\ kind = "memory"
  /\ \A s \in Shards : cached[s] = tstep[s] /\ cached[s] > 0
  /\ kind' = "storage"
  /\ tpc' = [s \in Shards |-> IF s[2] = 0 THEN "put" ELSE "train"]
  /\ UNCHANGED <<tstep, cached, loaded, mapped, inc, memVars, lockVars,
                 saverVars, agentVars, queue, storeVars, faults>>

PutSaveEvent(n) ==
  /\ tpc[<<n, 0>>] = "put"
  /\ SaveInTime(n)
  /\ queue[n] = NoEvent
  /\ queue' = [queue EXCEPT ![n] = tstep[<<n, 0>>]]
  /\ tpc' = [tpc EXCEPT ![<<n, 0>>] = "train"]
  /\ UNCHANGED <<tstep, cached, loaded, mapped, kind, inc, memVars, lockVars,
                 saverVars, agentVars, storeVars, faults>>

-----------------------------------------------------------------------------
(* save_shm_to_storage and the loop of _sync_shm_to_storage.               *)

Start(t, pc, st) == thr' = [thr EXCEPT ![t] = [pc |-> pc, step |-> st]]

Goto(t, pc) == thr' = [thr EXCEPT ![t].pc = pc]

Finish(t) == thr' = [thr EXCEPT ![t] = Idle]

\* The saver thread takes an event.  UPDATE_SHARD sets global_shard_num, the
\* number of shards, which is the same for every restart here.
TakeEvent(n) ==
  /\ thr[<<n, "saver">>] = Idle
  /\ queue[n] # NoEvent
  /\ queue' = [queue EXCEPT ![n] = NoEvent]
  /\ IF queue[n] = UpdateShard
     THEN UNCHANGED thr
     ELSE Start(<<n, "saver">>, "check", queue[n])
  /\ UNCHANGED <<trainVars, memVars, lockVars, sub, latest, writing, stop,
                 agentVars, storeVars, faults>>

\* save_shm_to_storage starts: every local memory has a state of one step.
BreakpointBegin(n) ==
  /\ pend[n] > 0
  /\ thr[<<n, "bp">>] = Idle
  /\ pend' = [pend EXCEPT ![n] = @ - 1]
  /\ IF \E l \in Local : meta[<<n, l>>].step = 0
                         \/ meta[<<n, l>>].step # meta[<<n, 0>>].step
     THEN UNCHANGED thr
     ELSE Start(<<n, "bp">>, "sync", meta[<<n, 0>>].step)
  /\ UNCHANGED <<trainVars, memVars, lockVars, sub, latest, writing, stop, apc,
                 pod, queue, storeVars, faults>>

\* sync_ckpt_nodes on the master: the entries of old node ids are kept.
SyncCkptNodes(n) ==
  /\ thr[<<n, "bp">>].pc = "sync"
  /\ synced' = [synced EXCEPT ![<<n, pod[n]>>] = thr[<<n, "bp">>].step]
  /\ LET saved == {p \in Pods : synced'[p] # 0}
     IN  IF /\ \A p \in saved : synced'[p] = thr[<<n, "bp">>].step
            /\ Cardinality(saved) = Cardinality(Nodes)
         THEN Goto(<<n, "bp">>, "guard")
         ELSE UNCHANGED thr
  /\ UNCHANGED <<trainVars, memVars, lockVars, sub, latest, writing, stop,
                 agentVars, queue, disk, dirs, done, tracker, faults>>

\* The other nodes do not report the same step within the timeout.
SyncTimeout(n) ==
  /\ thr[<<n, "bp">>].pc = "sync"
  /\ synced[<<n, pod[n]>>] = thr[<<n, "bp">>].step
  /\ Finish(<<n, "bp">>)
  /\ stop' = [stop EXCEPT ![n] = TRUE]
  /\ UNCHANGED <<trainVars, memVars, lockVars, sub, latest, writing, agentVars,
                 queue, storeVars, faults>>

\* The rest of save_shm_to_storage: is the saver or a process at work?
BreakpointGuard(n) ==
  /\ thr[<<n, "bp">>].pc = "guard"
  /\ IF \/ writing[n]
        \/ \E l \in Local : lock[<<n, l>>]
        \/ thr[<<n, "bp">>].step <= latest[n]
     THEN Finish(<<n, "bp">>)
     ELSE Goto(<<n, "bp">>, "check")
  /\ UNCHANGED <<trainVars, memVars, lockVars, sub, latest, writing, stop,
                 agentVars, queue, storeVars, faults>>

-----------------------------------------------------------------------------
(* save_step_checkpoint and _save_shard.                                   *)

StepsConsistent(t) ==
  \A l \in Local : meta[<<t[1], l>>].step \in {0, thr[t].step}

\* _check_shard_step_consistence, which waits until it is satisfied or a
\* timeout passes.
CheckStep(t) ==
  /\ thr[t].pc = "check"
  /\ IF StepsConsistent(t)
     THEN /\ writing' = [writing EXCEPT ![t[1]] = TRUE]
          /\ Goto(t, "mkdir")
     ELSE Finish(t) /\ UNCHANGED writing
  /\ UNCHANGED <<trainVars, memVars, lockVars, sub, latest, stop, agentVars,
                 queue, storeVars, faults>>

\* _dist_make_dir: node 0 makes an empty directory, the others wait for it
\* or for a timeout.  Then the shards that have a state are submitted.
MakeDir(t) ==
  /\ thr[t].pc = "mkdir"
  /\ IF t[1] = 0
     THEN /\ dirs' = dirs \cup {thr[t].step}
          /\ done' = [done EXCEPT ![thr[t].step] = {}]
     ELSE UNCHANGED <<dirs, done>>
  /\ Goto(t, "save")
  /\ sub' = [sub EXCEPT ![t] =
               [l \in Local |->
                  IF meta[<<t[1], l>>].step = 0 THEN "none" ELSE "lock"]]
  /\ UNCHANGED <<trainVars, memVars, lockVars, latest, writing, stop,
                 agentVars, queue, synced, disk, tracker, faults>>

\* _save_shard takes the lock and compares the step.  load_state_dict gives
\* an empty dict when the memory is dirty; persist_to_storage then writes no
\* file and the call goes on.  The lock is released in both exits.
SaveShardBegin(t, l) ==
  LET s == <<t[1], l>>
      dirty == meta[s].writing
  IN  /\ sub[t][l] = "lock"
      /\ ~lock[s]
      /\ IF meta[s].step = thr[t].step /\ ~dirty
         THEN /\ lock' = [lock EXCEPT ![s] = TRUE]
              /\ disk' = [disk EXCEPT ![s][thr[t].step] = Torn]
              /\ sub' = [sub EXCEPT ![t][l] = "write"]
         ELSE /\ sub' = [sub EXCEPT ![t][l] =
                          IF meta[s].step = thr[t].step THEN "mark"
                          ELSE "failing"]
              /\ UNCHANGED <<lock, disk>>
      /\ UNCHANGED <<trainVars, memVars, conn, eof, thr, latest, writing, stop,
                     agentVars, queue, synced, dirs, done, tracker, faults>>

\* write_state_dict ends and the lock is released for the first time.
SaveShardWritten(t, l) ==
  LET s == <<t[1], l>>
  IN  /\ sub[t][l] \in {"write", "torn"}
      /\ disk' = [disk EXCEPT ![s][thr[t].step] =
                    IF sub[t][l] = "write" THEN shm[s] ELSE Torn]
      /\ lock' = [lock EXCEPT ![s] = FALSE]
      /\ sub' = [sub EXCEPT ![t][l] = "mark"]
      /\ UNCHANGED <<trainVars, memVars, conn, eof, thr, latest, writing, stop,
                     agentVars, queue, synced, dirs, done, tracker, faults>>

\* The done file is written, which fails without its directory, and the
\* finally clause releases the lock again, whoever holds it by now.
SaveShardEnd(t, l) ==
  LET s == <<t[1], l>>
      ok == sub[t][l] = "mark" /\ thr[t].step \in dirs
  IN  /\ sub[t][l] \in {"mark", "failing"}
      /\ done' = IF ok THEN [done EXCEPT ![thr[t].step] = @ \cup {s}] ELSE done
      /\ sub' = [sub EXCEPT ![t][l] = IF ok THEN "ok" ELSE "fail"]
      /\ lock' = [lock EXCEPT ![s] = FALSE]
      /\ UNCHANGED <<trainVars, memVars, conn, eof, thr, latest, writing, stop,
                     agentVars, queue, synced, disk, dirs, tracker, faults>>

\* The futures are collected.
Gather(t) ==
  /\ thr[t].pc = "save"
  /\ \A l \in Local : sub[t][l] \in {"none", "ok", "fail"}
  /\ sub' = [sub EXCEPT ![t] = NoSub]
  /\ \/ /\ \A l \in Local : sub[t][l] # "fail"
        /\ latest' = [latest EXCEPT ![t[1]] = thr[t].step]
        /\ IF t[1] = 0
           THEN /\ stop' = [stop EXCEPT ![0] = FALSE]
                /\ Goto(t, "commit")
                /\ UNCHANGED writing
           ELSE /\ writing' = [writing EXCEPT ![t[1]] = FALSE]
                /\ Finish(t)
                /\ UNCHANGED stop
     \/ /\ \E l \in Local : sub[t][l] = "fail"
        /\ writing' = [writing EXCEPT ![t[1]] = FALSE]
        /\ Finish(t)
        /\ UNCHANGED <<latest, stop>>
  /\ UNCHANGED <<trainVars, memVars, lockVars, agentVars, queue, storeVars,
                 faults>>

-----------------------------------------------------------------------------
(* commit_checkpoint, on node 0.                                           *)

EndCommit(t) ==
  /\ writing' = [writing EXCEPT ![t[1]] = FALSE]
  /\ Finish(t)

RemoveDir(st) ==
  /\ dirs' = dirs \ {st}
  /\ done' = [done EXCEPT ![st] = {}]

CommitStop(t) ==
  /\ thr[t].pc = "commit"
  /\ stop[t[1]]
  /\ EndCommit(t)
  /\ UNCHANGED <<trainVars, memVars, lockVars, sub, latest, stop, agentVars,
                 queue, storeVars, faults>>

\* (mutant) The done files are compared with the local shards.
CommitDoneLocal(t) ==
  /\ thr[t].pc = "commit"
  /\ ~stop[t[1]]
  /\ thr[t].step \in dirs
  /\ Cardinality(done[thr[t].step]) >= Cardinality(Local)
  /\ tracker' = thr[t].step
  /\ RemoveDir(thr[t].step)
  /\ EndCommit(t)
  /\ UNCHANGED <<trainVars, memVars, lockVars, sub, latest, stop, agentVars,
                 queue, synced, disk, faults>>

\* All done files are there: update_tracker_file and clean the stage dir.
CommitDone(t) ==
  /\ thr[t].pc = "commit"
  /\ ~stop[t[1]]
  /\ thr[t].step \in dirs
  /\ Cardinality(done[thr[t].step]) = Cardinality(Shards)
  /\ tracker' = thr[t].step
  /\ RemoveDir(thr[t].step)
  /\ EndCommit(t)
  /\ UNCHANGED <<trainVars, memVars, lockVars, sub, latest, stop, agentVars,
                 queue, synced, disk, faults>>

\* (mutant) The timeout is looked at only after a stop.
CommitTimeoutStopped(t) ==
  /\ thr[t].pc = "commit"
  /\ stop[t[1]]
  /\ thr[t].step \in dirs
  /\ Cardinality(done[thr[t].step]) # Cardinality(Shards)
  /\ RemoveDir(thr[t].step)
  /\ EndCommit(t)
  /\ UNCHANGED <<trainVars, memVars, lockVars, sub, latest, stop, agentVars,
                 queue, synced, disk, tracker, faults>>

\* The done files are not complete when the timeout passes.
CommitTimeout(t) ==
  /\ thr[t].pc = "commit"
  /\ ~stop[t[1]]
  /\ thr[t].step \in dirs
  /\ Cardinality(done[thr[t].step]) # Cardinality(Shards)
  /\ RemoveDir(thr[t].step)
  /\ EndCommit(t)
  /\ UNCHANGED <<trainVars, memVars, lockVars, sub, latest, stop, agentVars,
                 queue, synced, disk, tracker, faults>>

\* listdir raises because the other thread has removed the directory:
\* _writing_storage is not reset.
CommitRaises(t) ==
  /\ thr[t].pc = "commit"
  /\ ~stop[t[1]]
  /\ thr[t].step \notin dirs
  /\ Finish(t)
  /\ UNCHANGED <<trainVars, memVars, lockVars, sub, latest, writing, stop,
                 agentVars, queue, storeVars, faults>>

-----------------------------------------------------------------------------
(* Failures, restarts and the agents.                                      *)

\* The process of shard s is gone; the lock server will see EOF.
Gone(S) ==
  /\ tpc' = [s \in Shards |-> IF s \in S THEN "off" ELSE tpc[s]]
  /\ eof' = [s \in Shards |-> eof[s] \/ (s \in S /\ conn[s])]
  /\ conn' = [s \in Shards |-> conn[s] /\ s \notin S]

ProcessCrash(s) ==
  /\ apc[s[1]] = "watch"
  /\ tpc[s] # "off"
  /\ Orderly => tpc[s] # "writing"
  /\ faults < MaxFaults
  /\ faults' = faults + 1
  /\ Gone({s})
  /\ UNCHANGED <<tstep, cached, loaded, mapped, kind, inc, memVars, lock,
                 saverVars, agentVars, queue, storeVars>>

\* (mutant) The server forgets the lock of a closed connection.
ConnectionClosedKeepsLock(s) ==
  /\ eof[s]
  /\ eof' = [eof EXCEPT ![s] = FALSE]
  /\ UNCHANGED <<trainVars, memVars, lock, conn, saverVars, agentVars, queue,
                 storeVars, faults>>

\* _deal_shared_lock_msg: a closed connection releases what it acquired.
ConnectionClosed(s) ==
  /\ eof[s]
  /\ eof' = [eof EXCEPT ![s] = FALSE]
  /\ lock' = [lock EXCEPT ![s] = FALSE]
  /\ UNCHANGED <<trainVars, memVars, conn, saverVars, agentVars, queue,
                 storeVars, faults>>

\* (mutant) The failure is handled again by the next turn of the loop.
BeginRestartAgain(n) ==
  /\ apc[n] = "watch"
  /\ RestartInTime(n)
  /\ pend' = [pend EXCEPT ![n] = IF @ = Never THEN @ ELSE @ + 1]
  /\ apc' \in {apc, [apc EXCEPT ![n] = "reset"]}
  /\ UNCHANGED <<trainVars, memVars, lockVars, saverVars, pod, queue,
                 storeVars>>

\* _save_ckpt_to_storage is submitted, then _restart_workers begins.
BeginRestart(n) ==
  /\ apc[n] = "watch"
  /\ RestartInTime(n)
  /\ pend' = [pend EXCEPT ![n] = IF @ = Never THEN @ ELSE @ + 1]
  /\ apc' = [apc EXCEPT ![n] = "reset"]
  /\ UNCHANGED <<trainVars, memVars, lockVars, saverVars, pod, queue,
                 storeVars>>

\* _invoke_run sees FAILED workers: a process died, or a collective operation
\* with a dead one failed.
WorkersFailed(n) ==
  /\ \E s \in Shards : tpc[s] = "off"
  /\ BeginRestart(n)
  /\ UNCHANGED faults

\* _invoke_run sees nodes waiting for the rendezvous.
MembershipChanged(n) ==
  /\ faults < MaxFaults
  /\ faults' = faults + 1
  /\ BeginRestart(n)

\* (mutant) reset() does not stop a commit.
ResetKeepsCommitting(n) ==
  /\ apc[n] = "reset"
  /\ RestartInTime(n)
  /\ lock' = [s \in Shards |-> lock[s] /\ s[1] # n]
  /\ apc' = [apc EXCEPT ![n] = "stop"]
  /\ UNCHANGED <<trainVars, memVars, conn, eof, thr, sub, latest, writing, stop,
                 pend, pod, queue, storeVars, faults>>

\* AsyncCheckpointSaver.reset, before the workers are stopped.
Reset(n) ==
  /\ apc[n] = "reset"
  /\ RestartInTime(n)
  /\ stop' = [stop EXCEPT ![n] = TRUE]
  /\ lock' = [s \in Shards |-> lock[s] /\ s[1] # n]
  /\ apc' = [apc EXCEPT ![n] = "stop"]
  /\ UNCHANGED <<trainVars, memVars, conn, eof, thr, sub, latest, writing, pend,
                 pod, queue, storeVars, faults>>

StopWorkers(n) ==
  /\ apc[n] = "stop"
  /\ Gone({n} \X Local)
  /\ apc' = [apc EXCEPT ![n] = "rdzv"]
  /\ UNCHANGED <<tstep, cached, loaded, mapped, kind, inc, memVars, lock,
                 saverVars, pend, pod, queue, storeVars, faults>>

\* The pod of node n is killed and replaced by one with a new node id, an
\* empty shared memory and a new saver.
PodCrash(n) ==
  /\ faults < MaxFaults
  /\ faults' = faults + 1
  /\ pod' = [pod EXCEPT ![n] = @ + 1]
  /\ apc' = [apc EXCEPT ![n] = "rdzv"]
  /\ pend' = [pend EXCEPT ![n] = IF @ = Never THEN @ ELSE 0]
  /\ queue' = [queue EXCEPT ![n] = NoEvent]
  /\ tpc' = [s \in Shards |-> IF s[1] = n THEN "off" ELSE tpc[s]]
  /\ meta' = [s \in Shards |-> IF s[1] = n THEN NoMeta ELSE meta[s]]
  /\ shm' = [s \in Shards |-> IF s[1] = n THEN Empty ELSE shm[s]]
  /\ lock' = [s \in Shards |-> lock[s] /\ s[1] # n]
  /\ conn' = [s \in Shards |-> conn[s] /\ s[1] # n]
  /\ eof' = [s \in Shards |-> eof[s] /\ s[1] # n]
  /\ thr' = [t \in Threads |-> IF t[1] = n THEN Idle ELSE thr[t]]
  /\ sub' = [t \in Threads |-> IF t[1] = n THEN NoSub ELSE sub[t]]
  /\ latest' = [latest EXCEPT ![n] = 0]
  /\ writing' = [writing EXCEPT ![n] = FALSE]
  /\ stop' = [stop EXCEPT ![n] = FALSE]
  /\ UNCHANGED <<tstep, cached, loaded, mapped, kind, inc, storeVars>>

\* The rendezvous completes and every agent starts new training processes.
StartWorkers ==
  /\ \A n \in Nodes : apc[n] = "rdzv"
  /\ apc' = [n \in Nodes |-> "watch"]
  /\ inc' = inc + 1
  /\ tpc' = [s \in Shards |-> IF s[2] = 0 THEN "init" ELSE "load"]
  /\ UNCHANGED <<tstep, cached, loaded, mapped, kind, memVars, lockVars,
                 saverVars, pend, pod, queue, storeVars, faults>>

-----------------------------------------------------------------------------
TrainerStep ==
  \/ \E n \in Nodes : UpdateSaverConfig(n) \/ PutSaveEvent(n)
  \/ \E s \in Shards : TryAcquire(s) \/ StartWrite(s) \/ FinishWrite(s)
  \/ Load \/ AllReduce \/ Barrier \/ SaveCached

SaverStep(t) ==
  \/ CheckStep(t) \/ MakeDir(t) \/ Gather(t)
  \/ \E l \in Local : SaveShardBegin(t, l) \/ SaveShardWritten(t, l)
                       \/ SaveShardEnd(t, l)
  \/ CommitStop(t) \/ CommitDone(t) \/ CommitTimeout(t) \/ CommitRaises(t)

AgentStep(n) ==
  \/ TakeEvent(n) \/ BreakpointBegin(n) \/ SyncCkptNodes(n) \/ SyncTimeout(n)
  \/ BreakpointGuard(n) \/ WorkersFailed(n) \/ MembershipChanged(n) \/ Reset(n)
  \/ StopWorkers(n) \/ PodCrash(n)

Next ==
  \/ TrainerStep
  \/ \E t \in Threads : SaverStep(t)
  \/ \E n \in Nodes : AgentStep(n)
  \/ \E s \in Shards : ProcessCrash(s) \/ ConnectionClosed(s)
  \/ StartWorkers

Spec == Init /\ [][Next]_vars

\* Every thread and process that can take a step does; a failure, a change of
\* the membership and a save at a step already in memory need not happen.
Fairness ==
  /\ \A n \in Nodes :
       /\ WF_vars(UpdateSaverConfig(n)) /\ WF_vars(PutSaveEvent(n))
       /\ WF_vars(TakeEvent(n)) /\ WF_vars(BreakpointBegin(n))
       /\ WF_vars(SyncCkptNodes(n)) /\ WF_vars(SyncTimeout(n))
       /\ WF_vars(BreakpointGuard(n)) /\ WF_vars(WorkersFailed(n))
       /\ WF_vars(Reset(n)) /\ WF_vars(StopWorkers(n))
  /\ \A s \in Shards :
       /\ WF_vars(TryAcquire(s)) /\ WF_vars(StartWrite(s))
       /\ WF_vars(FinishWrite(s)) /\ WF_vars(ConnectionClosed(s))
  /\ WF_vars(Load) /\ WF_vars(AllReduce) /\ WF_vars(Barrier)
  /\ WF_vars(StartWorkers)
  /\ \A t \in Threads : WF_vars(SaverStep(t))

FairSpec == Spec /\ Fairness

-----------------------------------------------------------------------------
(* Properties.                                                             *)

Contents == [step : 0 .. MaxStep, inc : 0 .. MaxFaults + 1]

\* Every variable stays in its domain.
TypeOK ==
  /\ tpc \in [Shards -> {"off", "init", "load", "train", "vote", "write",
                          "writing", "barrier", "put"}]
  /\ tstep \in [Shards -> 0 .. MaxStep] /\ cached \in [Shards -> 0 .. MaxStep]
  /\ loaded \in [Shards -> Contents] /\ mapped \in [Shards -> BOOLEAN]
  /\ kind \in {"memory", "storage"} /\ inc \in 1 .. MaxFaults + 1
  /\ meta \in [Shards -> [step : 0 .. MaxStep, writing : BOOLEAN]]
  /\ shm \in [Shards -> Contents]
  /\ lock \in [Shards -> BOOLEAN] /\ conn \in [Shards -> BOOLEAN]
  /\ eof \in [Shards -> BOOLEAN]
  /\ apc \in [Nodes -> {"watch", "reset", "stop", "rdzv"}]
  /\ queue \in [Nodes -> -1 .. MaxStep]
  /\ thr \in [Threads -> [pc : {"idle", "sync", "guard", "check", "mkdir",
                                "save", "commit"}, step : 0 .. MaxStep]]
  /\ sub \in [Threads -> [Local -> {"none", "lock", "write", "torn", "mark",
                                    "failing", "ok", "fail"}]]
  /\ pend \in [Nodes -> Never .. MaxFaults] /\ latest \in [Nodes -> 0 .. MaxStep]
  /\ writing \in [Nodes -> BOOLEAN] /\ stop \in [Nodes -> BOOLEAN]
  /\ pod \in [Nodes -> 1 .. MaxFaults + 1]
  /\ synced \in [Pods -> 0 .. MaxStep]
  /\ disk \in [Shards -> [Steps -> Contents]]
  /\ dirs \subseteq Steps /\ done \in [Steps -> SUBSET Shards]
  /\ tracker \in 0 .. MaxStep /\ faults \in 0 .. MaxFaults

BreakpointOff == \A n \in Nodes : pend[n] = Never

\* Without --save_at_breakpoint, the step in the tracker file is a checkpoint
\* one can resume from: every shard has a complete file of that step.
TrackedComplete ==
  BreakpointOff /\ tracker # 0 =>
    \A s \in Shards : disk[s][tracker].step = tracker

\* Without --save_at_breakpoint, the files of the tracked step come from the
\* same run of the training processes: a commit does not outlive a restart.
TrackedOneRun ==
  BreakpointOff /\ tracker # 0 =>
    \A s, u \in Shards : disk[s][tracker].inc = disk[u][tracker].inc

\* Without --save_at_breakpoint, all training processes of a restart resume
\* from the same step; after the first restart also from the same run (the
\* memory of a step may later be of several runs, and only the steps are
\* compared).
ResumeAgreement ==
  BreakpointOff =>
    \A s, u \in Shards :
      {tpc[s], tpc[u]} \cap {"off", "init", "load"} = {} =>
        /\ loaded[s].step = loaded[u].step
        /\ inc <= 2 => loaded[s] = loaded[u]

\* A training process never writes the memory that a saver is reading.
MemoryExclusion ==
  \A s \in Shards : tpc[s] = "writing" =>
    \A t \in Threads : t[1] = s[1] => sub[t][s[2]] \notin {"write", "torn"}

\* A locked SharedLock always has someone who will release it: the process
\* that acquired it, the server that has seen its connection close, or a
\* _save_shard call.  No failure leaks the lock.
LocksOwned ==
  \A s \in Shards : lock[s] =>
    \/ conn[s] \/ eof[s]
    \/ \E t \in Threads : t[1] = s[1] /\ sub[t][s[2]] \in {"write", "torn"}

\* Processes that resumed from different steps are at different iterations and
\* their collective operations do not match.
Diverged == \E s, u \in Shards : loaded[s].step # loaded[u].step

\* A thread that persists a checkpoint returns, whatever fails meanwhile: it
\* waits for locks that are released and for done files with a timeout.
SaverReturns ==
  \A t \in Threads : thr[t].pc # "idle" ~> thr[t].pc = "idle" \/ Diverged

\* A process that saves a checkpoint goes back to training (or is stopped): it
\* skips the save, or waits only for what will happen.
TrainingResumes ==
  \A s \in Shards :
    tpc[s] \in {"vote", "write", "writing", "barrier", "put"}
      ~> tpc[s] \in {"train", "off"} \/ Diverged

\* Without --save_at_breakpoint the tracker file never goes back to an older
\* step.
TrackerMonotone ==
  [][BreakpointOff => tracker' >= tracker]_vars
=============================================================================
