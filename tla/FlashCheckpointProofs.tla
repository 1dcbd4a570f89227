----------------------- MODULE FlashCheckpointProofs -------------------------
(***************************************************************************)
(* No failure leaks a SharedLock, for any number of nodes and of local     *)
(* processes, any number of steps and failures, with and without saves at  *)
(* a breakpoint, in every schedule (NoLockLeaks); and in orderly ones a    *)
(* process never writes the memory that a saver reads (MemoryExclusive).   *)
(*                                                                         *)
(* LocksOwned is not inductive: whether an owner is lost depends on what   *)
(* the owner is doing.  LockInv adds that only a process in the middle of  *)
(* a save has lock_acquired on its connection (a process that trains or    *)
(* loads could not take the lock again without losing track of the first   *)
(* time), that no process is left when new ones are started, and that a    *)
(* thread has _save_shard calls only while it persists.                    *)
(***************************************************************************)
EXTENDS FlashCheckpoint, TLAPS

LockTypes ==
  /\ tpc \in [Shards -> {"off", "init", "load", "train", "vote", "write",
                          "writing", "barrier", "put"}]
  /\ apc \in [Nodes -> {"watch", "reset", "stop", "rdzv"}]
  /\ lock \in [Shards -> BOOLEAN] /\ conn \in [Shards -> BOOLEAN]
  /\ eof \in [Shards -> BOOLEAN]
  /\ sub \in [Threads -> [Local -> {"none", "lock", "write", "torn", "mark",
                                    "failing", "ok", "fail"}]]
  /\ thr = [t \in Threads |-> [pc |-> thr[t].pc, step |-> thr[t].step]]

\* Only a process that saves has lock_acquired on its connection.
ConnBusy ==
  \A s \in Shards : conn[s] => tpc[s] \in {"vote", "write", "writing"}

\* No training process is left when the agent waits in the rendezvous.
OffAtRdzv == \A s \in Shards : apc[s[1]] = "rdzv" => tpc[s] = "off"

\* A thread has _save_shard calls only while it persists.
SubAtRest == \A t \in Threads : thr[t].pc # "save" => sub[t] = NoSub

LockInv == LockTypes /\ ConnBusy /\ OffAtRdzv /\ SubAtRest /\ LocksOwned

lockInvVars == <<tpc, apc, lockVars, thr, sub>>

-----------------------------------------------------------------------------
\* What the writes to thr do.
LEMMA GotoThread ==
  ASSUME LockTypes, NEW t \in Threads, NEW pc, Goto(t, pc)
  PROVE  /\ thr' = [u \in Threads |-> [pc |-> thr'[u].pc, step |-> thr'[u].step]]
         /\ thr'[t].pc = pc
         /\ \A u \in Threads \ {t} : thr'[u] = thr[u]
<1> DEFINE after == [pc |-> pc, step |-> thr[t].step]
<1>1. thr = [u \in Threads |-> [pc |-> thr[u].pc, step |-> thr[u].step]]
  BY DEF LockTypes
<1>2. thr[t] = [pc |-> thr[t].pc, step |-> thr[t].step]
  BY <1>1
<1>3. [thr[t] EXCEPT !.pc = pc] = after
  BY <1>2
<1>4. thr' = [thr EXCEPT ![t] = after]
  BY <1>3, Zenon DEF Goto
<1> QED
  BY <1>1, <1>4

LEMMA FinishThread ==
  ASSUME LockTypes, NEW t \in Threads, Finish(t)
  PROVE  /\ thr' = [u \in Threads |-> [pc |-> thr'[u].pc, step |-> thr'[u].step]]
         /\ thr'[t].pc = "idle"
         /\ \A u \in Threads \ {t} : thr'[u] = thr[u]
BY Zenon DEF LockTypes, Finish, Idle

LEMMA StartThread ==
  ASSUME LockTypes, NEW t \in Threads, NEW pc, NEW st, Start(t, pc, st)
  PROVE  /\ thr' = [u \in Threads |-> [pc |-> thr'[u].pc, step |-> thr'[u].step]]
         /\ thr'[t].pc = pc
         /\ \A u \in Threads \ {t} : thr'[u] = thr[u]
BY Zenon DEF LockTypes, Start

\* A thread without _save_shard calls may go anywhere.
LEMMA ThreadMoves ==
  ASSUME LockInv, NEW t \in Threads, thr[t].pc # "save",
         thr' = [u \in Threads |-> [pc |-> thr'[u].pc, step |-> thr'[u].step]],
         \A u \in Threads \ {t} : thr'[u] = thr[u],
         UNCHANGED <<tpc, apc, lockVars, sub>>
  PROVE  LockInv'
BY DEF LockInv, LockTypes, ConnBusy, OffAtRdzv, SubAtRest, LocksOwned, NoSub,
       lockVars

\* A stuttering step.
LEMMA NothingMoves ==
  ASSUME LockInv, UNCHANGED lockInvVars
  PROVE  LockInv'
BY DEF LockInv, LockTypes, ConnBusy, OffAtRdzv, SubAtRest, LocksOwned, NoSub,
       lockInvVars, lockVars

\* A step of the processes that leaves the locks and the savers alone.
LEMMA ProcessesMove ==
  ASSUME LockInv,
         tpc' \in [Shards -> {"off", "init", "load", "train", "vote", "write",
                              "writing", "barrier", "put"}],
         ConnBusy', OffAtRdzv',
         UNCHANGED <<apc, lockVars, thr, sub>>
  PROVE  LockInv'
BY DEF LockInv, LockTypes, SubAtRest, LocksOwned, NoSub, lockVars

-----------------------------------------------------------------------------
(* The training processes.                                                 *)

\* A process that finds the lock taken leaves it to its owner.
LEMMA TryAcquireKeeps ==
  ASSUME LockInv, NEW s \in Shards, TryAcquire(s)
  PROVE  LockInv'
<1> USE DEF LockInv, TryAcquire
<1>1. /\ tpc' = [tpc EXCEPT ![s] = "vote"] /\ tpc[s] = "train"
      /\ conn' = [conn EXCEPT ![s] = ~lock[s]]
      /\ lock' = [lock EXCEPT ![s] = TRUE]
      /\ UNCHANGED <<apc, eof, thr, sub>>
  BY DEF saverVars, agentVars
<1>2. LockTypes'
  BY <1>1 DEF LockTypes
<1>3. ConnBusy' /\ OffAtRdzv'
  BY <1>1 DEF LockTypes, ConnBusy, OffAtRdzv
<1>4. SubAtRest'
  BY <1>1 DEF SubAtRest, NoSub
<1>5. ~conn[s]
  BY <1>1 DEF ConnBusy
<1>6. LocksOwned'
  <2> SUFFICES ASSUME NEW u \in Shards, lock'[u]
               PROVE  \/ conn'[u] \/ eof'[u]
                      \/ \E t \in Threads :
                           t[1] = u[1] /\ sub'[t][u[2]] \in {"write", "torn"}
    BY DEF LocksOwned
  <2>1. CASE u # s
    BY <1>1, <2>1 DEF LockTypes, LocksOwned
  <2>2. CASE u = s /\ lock[s]
    BY <1>1, <1>5, <2>2 DEF LocksOwned
  <2>3. CASE u = s /\ ~lock[s]
    <3>1. conn'[s] = ~lock[s]
      BY <1>1 DEF LockTypes
    <3> QED
      BY <2>3, <3>1, Zenon
  <2> QED
    BY <2>1, <2>2, <2>3
<1> QED
  BY <1>2, <1>3, <1>4, <1>6

\* Who acquired the lock keeps it for the write or releases it.
LEMMA AllReduceKeeps ==
  ASSUME LockInv, AllReduce
  PROVE  LockInv'
<1> USE DEF LockInv
<1>1. (\A s \in Shards : tpc[s] = "vote") /\ UNCHANGED <<apc, eof, thr, sub>>
  BY DEF AllReduce, All, lockVars, saverVars, agentVars
<1>2. CASE tpc' = [s \in Shards |-> "write"] /\ UNCHANGED <<lock, conn>>
  <2>1. ConnBusy' /\ OffAtRdzv'
    BY <1>1, <1>2 DEF ConnBusy, OffAtRdzv
  <2> QED
    BY <1>1, <1>2, <2>1, ProcessesMove DEF lockVars
<1>3. CASE /\ tpc' = [s \in Shards |-> "train"]
           /\ lock' = [s \in Shards |-> lock[s] /\ ~conn[s]]
           /\ conn' = [s \in Shards |-> FALSE]
  <2>1. LockTypes'
    BY <1>1, <1>3 DEF LockTypes
  <2>2. ConnBusy' /\ OffAtRdzv'
    BY <1>1, <1>3 DEF ConnBusy, OffAtRdzv
  <2>3. SubAtRest'
    BY <1>1 DEF SubAtRest, NoSub
  <2>4. LocksOwned'
    BY <1>1, <1>3, Zenon DEF LocksOwned
  <2> QED
    BY <2>1, <2>2, <2>3, <2>4
<1> QED
  BY <1>2, <1>3 DEF AllReduce, lockVars

\* A thread that copies the memory keeps its lock when it is disturbed.
LEMMA StartWriteKeeps ==
  ASSUME LockInv, NEW s \in Shards, StartWrite(s)
  PROVE  LockInv'
<1> USE DEF LockInv
<1>1. /\ tpc[s] = "write" /\ tpc' = [tpc EXCEPT ![s] = "writing"]
      /\ UNCHANGED <<apc, lock, conn, eof, thr>>
      /\ sub' = [t \in Threads |->
                   IF t[1] = s[1] /\ sub[t][s[2]] = "write"
                   THEN [sub[t] EXCEPT ![s[2]] = "torn"] ELSE sub[t]]
  BY DEF StartWrite, Disturb, lockVars, agentVars
<1>2. LockTypes'
  BY <1>1, Zenon DEF LockTypes
<1>3. ConnBusy' /\ OffAtRdzv'
  BY <1>1 DEF LockTypes, ConnBusy, OffAtRdzv
<1>4. s[2] \in Local
  BY DEF Shards
<1>5. SubAtRest'
  BY <1>1, <1>4 DEF SubAtRest, NoSub
<1>6. \A t \in Threads, l \in Local :
        sub[t][l] \in {"write", "torn"} => sub'[t][l] \in {"write", "torn"}
  BY <1>1, <1>4 DEF LockTypes
<1>7. LocksOwned'
  <2> SUFFICES ASSUME NEW u \in Shards, lock'[u]
               PROVE  \/ conn'[u] \/ eof'[u]
                      \/ \E t \in Threads :
                           t[1] = u[1] /\ sub'[t][u[2]] \in {"write", "torn"}
    BY DEF LocksOwned
  <2>1. u[2] \in Local
    BY DEF Shards
  <2> QED
    BY <1>1, <1>6, <2>1 DEF LocksOwned
<1> QED
  BY <1>2, <1>3, <1>5, <1>7

\* A finished write releases the lock.
LEMMA FinishWriteKeeps ==
  ASSUME LockInv, NEW s \in Shards, FinishWrite(s)
  PROVE  LockInv'
<1> USE DEF LockInv
<1>1. /\ tpc[s] = "writing"
      /\ tpc' = [tpc EXCEPT ![s] = IF kind = "memory" THEN "train" ELSE "barrier"]
      /\ lock' = [lock EXCEPT ![s] = FALSE]
      /\ conn' = [conn EXCEPT ![s] = FALSE]
      /\ UNCHANGED <<apc, eof, thr, sub>>
  BY DEF FinishWrite, saverVars, agentVars
<1>2. LockTypes'
  BY <1>1 DEF LockTypes
<1>3. ConnBusy' /\ OffAtRdzv'
  BY <1>1 DEF LockTypes, ConnBusy, OffAtRdzv
<1>4. SubAtRest'
  BY <1>1 DEF SubAtRest, NoSub
<1>5. LocksOwned'
  BY <1>1 DEF LockTypes, LocksOwned
<1> QED
  BY <1>2, <1>3, <1>4, <1>5

\* All steps of the training processes.
LEMMA TrainerStepKeeps ==
  ASSUME LockInv, TrainerStep
  PROVE  LockInv'
<1> USE DEF LockInv, saverVars, agentVars, lockVars
<1>1. ASSUME NEW n \in Nodes, UpdateSaverConfig(n) \/ PutSaveEvent(n)
      PROVE  LockInv'
  <2>1. <<n, 0>> \in Shards
    BY LocalAssumption DEF Shards
  <2>2. /\ tpc[<<n, 0>>] \in {"init", "put"}
        /\ \E pc \in {"load", "train"} : tpc' = [tpc EXCEPT ![<<n, 0>>] = pc]
        /\ UNCHANGED <<apc, lock, conn, eof, thr, sub>>
    BY <1>1 DEF UpdateSaverConfig, PutSaveEvent
  <2>3. tpc' \in [Shards -> {"off", "init", "load", "train", "vote", "write",
                             "writing", "barrier", "put"}]
    BY <2>1, <2>2 DEF LockTypes
  <2>4. ConnBusy' /\ OffAtRdzv'
    BY <2>1, <2>2, Zenon DEF LockTypes, ConnBusy, OffAtRdzv
  <2> QED
    BY <2>2, <2>3, <2>4, ProcessesMove
<1>2. ASSUME Load \/ Barrier \/ SaveCached
      PROVE  LockInv'
  <2>1. /\ \A s \in Shards : tpc[s] \in {"load", "barrier", "train"}
        /\ tpc' \in [Shards -> {"train", "put"}]
        /\ UNCHANGED <<apc, lock, conn, eof, thr, sub>>
    BY <1>2 DEF Load, Barrier, SaveCached, All
  <2>2. tpc' \in [Shards -> {"off", "init", "load", "train", "vote", "write",
                             "writing", "barrier", "put"}]
    BY <2>1
  <2>3. ConnBusy' /\ OffAtRdzv'
    BY <2>1 DEF ConnBusy, OffAtRdzv
  <2> QED
    BY <2>1, <2>2, <2>3, ProcessesMove
<1> QED
  BY <1>1, <1>2, TryAcquireKeeps, StartWriteKeeps, FinishWriteKeeps,
     AllReduceKeeps DEF TrainerStep

-----------------------------------------------------------------------------
(* The persisting threads.                                                 *)

\* A _save_shard call takes and releases the lock of its own shard only.
LEMMA SaveShardKeeps ==
  ASSUME LockInv, NEW t \in Threads, NEW l \in Local,
         SaveShardBegin(t, l) \/ SaveShardWritten(t, l) \/ SaveShardEnd(t, l)
  PROVE  LockInv'
<1> USE DEF LockInv, agentVars, trainVars
<1> DEFINE s == <<t[1], l>>
<1>1. /\ sub[t][l] # "none"
      /\ \E to \in {"write", "mark", "failing", "ok", "fail"} :
           /\ sub' = [sub EXCEPT ![t][l] = to]
           /\ \/ lock' = [lock EXCEPT ![s] = FALSE]
              \/ lock' = [lock EXCEPT ![s] = TRUE] /\ to = "write"
              \/ lock' = lock /\ ~lock[s]
      /\ UNCHANGED <<tpc, apc, conn, eof, thr>>
  BY DEF SaveShardBegin, SaveShardWritten, SaveShardEnd
<1>2. s \in Shards
  BY DEF Shards, Threads
<1>3. LockTypes'
  <2>1. lock' \in [Shards -> BOOLEAN]
    BY <1>1, <1>2, Zenon DEF LockTypes
  <2>2. sub' \in [Threads -> [Local -> {"none", "lock", "write", "torn", "mark",
                                      "failing", "ok", "fail"}]]
    BY <1>1 DEF LockTypes
  <2> QED
    BY <1>1, <2>1, <2>2 DEF LockTypes
<1>4. ConnBusy' /\ OffAtRdzv'
  BY <1>1 DEF ConnBusy, OffAtRdzv
<1>5. thr[t].pc = "save"
  BY <1>1 DEF SubAtRest, NoSub
<1>6. SubAtRest'
  BY <1>1, <1>5 DEF LockTypes, SubAtRest, NoSub
<1>7. LocksOwned'
  <2> SUFFICES ASSUME NEW u \in Shards, lock'[u]
               PROVE  \/ conn'[u] \/ eof'[u]
                      \/ \E v \in Threads :
                           v[1] = u[1] /\ sub'[v][u[2]] \in {"write", "torn"}
    BY DEF LocksOwned
  <2>1. CASE u = s
    <3>1. lock' = [lock EXCEPT ![s] = TRUE]
      BY <1>1, <1>2, <2>1 DEF LockTypes
    <3>2. sub' = [sub EXCEPT ![t][l] = "write"]
      BY <1>1, <1>2, <2>1, Zenon DEF LockTypes
    <3>3. sub'[t][l] = "write"
      BY <3>2 DEF LockTypes
    <3>4. t[1] = u[1] /\ u[2] = l
      BY <2>1
    <3> QED
      BY <3>3, <3>4
  <2>2. CASE u # s
    <3>1. lock[u]
      BY <1>1, <2>2 DEF LockTypes
    <3>2. u = <<u[1], u[2]>> /\ u[2] \in Local
      BY DEF Shards
    <3>3. ASSUME NEW v \in Threads, v[1] = u[1]
          PROVE  sub'[v][u[2]] = sub[v][u[2]]
      <4>1. v # t \/ u[2] # l
        BY <2>2, <3>2, <3>3
      <4> QED
        BY <1>1, <3>2, <4>1 DEF LockTypes
    <3> QED
      BY <1>1, <3>1, <3>3 DEF LocksOwned
  <2> QED
    BY <2>1, <2>2
<1> QED
  BY <1>3, <1>4, <1>6, <1>7

\* The calls are submitted when there are none, and forgotten when all of them
\* have returned.
LEMMA SubmitGatherKeeps ==
  ASSUME LockInv, NEW t \in Threads, MakeDir(t) \/ Gather(t)
  PROVE  LockInv'
<1> USE DEF LockInv, agentVars, lockVars, trainVars
<1>1. UNCHANGED <<tpc, apc, lock, conn, eof>>
  BY DEF MakeDir, Gather
<1>2. \A l \in Local : sub[t][l] \notin {"write", "torn"}
  BY DEF MakeDir, Gather, SubAtRest, NoSub
<1>3. /\ thr' = [u \in Threads |-> [pc |-> thr'[u].pc, step |-> thr'[u].step]]
      /\ \A u \in Threads \ {t} : thr'[u] = thr[u]
      /\ MakeDir(t) => thr'[t].pc = "save"
  BY GotoThread, FinishThread DEF MakeDir, Gather
<1>4. \E calls \in [Local -> {"none", "lock"}] :
        /\ sub' = [sub EXCEPT ![t] = calls]
        /\ thr'[t].pc = "save" \/ calls = NoSub
  <2>1. CASE MakeDir(t)
    <3> DEFINE calls == [l \in Local |->
                           IF meta[<<t[1], l>>].step = 0 THEN "none" ELSE "lock"]
    <3>1. calls \in [Local -> {"none", "lock"}]
      OBVIOUS
    <3>2. sub' = [sub EXCEPT ![t] = calls]
      BY <2>1 DEF MakeDir
    <3> QED
      BY <1>3, <2>1, <3>1, <3>2, Zenon
  <2>2. CASE Gather(t)
    <3>1. NoSub \in [Local -> {"none", "lock"}]
      BY DEF NoSub
    <3> QED
      BY <2>2, <3>1, Zenon DEF Gather
  <2> QED
    BY <2>1, <2>2
<1>5. LockTypes'
  BY <1>1, <1>3, <1>4 DEF LockTypes
<1>6. ConnBusy' /\ OffAtRdzv'
  BY <1>1 DEF ConnBusy, OffAtRdzv
<1>7. NoSub' = NoSub
  BY DEF NoSub
<1>8. SubAtRest'
  BY <1>3, <1>4, <1>7 DEF LockTypes, SubAtRest
<1>9. LocksOwned'
  <2> SUFFICES ASSUME NEW u \in Shards, lock'[u]
               PROVE  \/ conn'[u] \/ eof'[u]
                      \/ \E v \in Threads :
                           v[1] = u[1] /\ sub'[v][u[2]] \in {"write", "torn"}
    BY DEF LocksOwned
  <2>1. u[2] \in Local
    BY DEF Shards
  <2>2. \A v \in Threads :
          sub[v][u[2]] \in {"write", "torn"} => sub'[v] = sub[v]
    BY <1>2, <1>4, <2>1 DEF LockTypes
  <2> QED
    BY <1>1, <2>2 DEF LocksOwned
<1> QED
  BY <1>5, <1>6, <1>8, <1>9

\* All steps of a persisting thread.
LEMMA SaverStepKeeps ==
  ASSUME LockInv, NEW t \in Threads, SaverStep(t)
  PROVE  LockInv'
<1>1. ASSUME \/ CheckStep(t) \/ CommitStop(t) \/ CommitDone(t)
             \/ CommitTimeout(t) \/ CommitRaises(t)
      PROVE  LockInv'
  <2>1. thr[t].pc # "save" /\ UNCHANGED <<tpc, apc, lockVars, sub>>
    BY <1>1 DEF CheckStep, CommitStop, CommitDone, CommitTimeout, CommitRaises,
                agentVars, trainVars, lockVars
  <2>2. Finish(t) \/ Goto(t, "mkdir")
    BY <1>1, Zenon DEF CheckStep, CommitStop, CommitDone, CommitTimeout, CommitRaises,
                EndCommit
  <2>3. /\ thr' = [u \in Threads |-> [pc |-> thr'[u].pc, step |-> thr'[u].step]]
        /\ \A u \in Threads \ {t} : thr'[u] = thr[u]
    BY <2>2, GotoThread, FinishThread DEF LockInv
  <2> QED
    BY <2>1, <2>3, ThreadMoves
<1> QED
  BY <1>1, SaveShardKeeps, SubmitGatherKeeps DEF SaverStep

-----------------------------------------------------------------------------
(* Failures, restarts and the agents.                                      *)

\* The processes S end: a lock of theirs is left to the server.
LEMMA GoneKeeps ==
  ASSUME LockInv, NEW S \in SUBSET Shards, Gone(S), UNCHANGED <<lock, thr, sub>>,
         apc' \in [Nodes -> {"watch", "reset", "stop", "rdzv"}],
         \A s \in Shards \ S : apc'[s[1]] = apc[s[1]]
  PROVE  LockInv'
<1> USE DEF LockInv
<1>1. /\ tpc' = [s \in Shards |-> IF s \in S THEN "off" ELSE tpc[s]]
      /\ eof' = [s \in Shards |-> eof[s] \/ (s \in S /\ conn[s])]
      /\ conn' = [s \in Shards |-> conn[s] /\ s \notin S]
  BY DEF Gone
<1>2. LockTypes'
  <2>1. tpc' \in [Shards -> {"off", "init", "load", "train", "vote", "write",
                             "writing", "barrier", "put"}]
    BY <1>1 DEF LockTypes
  <2>2. conn' \in [Shards -> BOOLEAN] /\ eof' \in [Shards -> BOOLEAN]
    BY <1>1 DEF LockTypes
  <2> QED
    BY <2>1, <2>2 DEF LockTypes
<1>3. ConnBusy' /\ OffAtRdzv'
  BY <1>1, Zenon DEF ConnBusy, OffAtRdzv
<1>4. SubAtRest'
  BY DEF SubAtRest, NoSub
<1>5. LocksOwned'
  BY <1>1, Zenon DEF LocksOwned
<1> QED
  BY <1>2, <1>3, <1>4, <1>5

\* One process crashes.
LEMMA ProcessCrashKeeps ==
  ASSUME LockInv, NEW s \in Shards, ProcessCrash(s)
  PROVE  LockInv'
<1>1. Gone({s}) /\ UNCHANGED <<lock, thr, sub, apc>>
  BY Zenon DEF ProcessCrash, saverVars, agentVars
<1> QED
  BY <1>1, GoneKeeps DEF LockInv, LockTypes

\* The agent stops all its processes.
LEMMA StopWorkersKeeps ==
  ASSUME LockInv, NEW n \in Nodes, StopWorkers(n)
  PROVE  LockInv'
<1>1. /\ Gone({n} \X Local) /\ UNCHANGED <<lock, thr, sub>>
      /\ apc' = [apc EXCEPT ![n] = "rdzv"]
  BY DEF StopWorkers, saverVars
<1>2. {n} \X Local \in SUBSET Shards
  BY DEF Shards
<1>3. apc' \in [Nodes -> {"watch", "reset", "stop", "rdzv"}]
  BY <1>1 DEF LockInv, LockTypes
<1>4. \A s \in Shards \ ({n} \X Local) : apc'[s[1]] = apc[s[1]]
  BY <1>1 DEF LockInv, LockTypes, Shards
<1> QED
  BY <1>1, <1>2, <1>3, <1>4, GoneKeeps

\* The server releases the lock of a closed connection.
LEMMA ConnectionClosedKeeps ==
  ASSUME LockInv, NEW s \in Shards, ConnectionClosed(s)
  PROVE  LockInv'
<1> USE DEF LockInv
<1>1. /\ eof' = [eof EXCEPT ![s] = FALSE]
      /\ lock' = [lock EXCEPT ![s] = FALSE]
      /\ UNCHANGED <<tpc, apc, conn, thr, sub>>
  BY DEF ConnectionClosed, trainVars, saverVars, agentVars
<1>2. LockTypes'
  BY <1>1 DEF LockTypes
<1>3. ConnBusy' /\ OffAtRdzv' /\ SubAtRest'
  BY <1>1 DEF ConnBusy, OffAtRdzv, SubAtRest, NoSub
<1>4. LocksOwned'
  BY <1>1 DEF LockTypes, LocksOwned
<1> QED
  BY <1>2, <1>3, <1>4

\* AsyncCheckpointSaver.reset releases every lock of the node.
LEMMA ResetKeeps ==
  ASSUME LockInv, NEW n \in Nodes, Reset(n)
  PROVE  LockInv'
<1> USE DEF LockInv
<1>1. /\ lock' = [s \in Shards |-> lock[s] /\ s[1] # n]
      /\ apc' = [apc EXCEPT ![n] = "stop"]
      /\ UNCHANGED <<tpc, conn, eof, thr, sub>>
  BY DEF Reset, trainVars
<1>2. LockTypes'
  BY <1>1 DEF LockTypes
<1>3. ConnBusy' /\ SubAtRest'
  BY <1>1 DEF ConnBusy, SubAtRest, NoSub
<1>4. OffAtRdzv'
  BY <1>1 DEF LockTypes, OffAtRdzv, Shards
<1>5. LocksOwned'
  BY <1>1, Zenon DEF LocksOwned
<1> QED
  BY <1>2, <1>3, <1>4, <1>5

\* A new pod has new locks.
LEMMA PodCrashKeeps ==
  ASSUME LockInv, NEW n \in Nodes, PodCrash(n)
  PROVE  LockInv'
<1> USE DEF LockInv
<1>1. /\ apc' = [apc EXCEPT ![n] = "rdzv"]
      /\ tpc' = [s \in Shards |-> IF s[1] = n THEN "off" ELSE tpc[s]]
      /\ lock' = [s \in Shards |-> lock[s] /\ s[1] # n]
      /\ conn' = [s \in Shards |-> conn[s] /\ s[1] # n]
      /\ eof' = [s \in Shards |-> eof[s] /\ s[1] # n]
      /\ thr' = [t \in Threads |-> IF t[1] = n THEN Idle ELSE thr[t]]
      /\ sub' = [t \in Threads |-> IF t[1] = n THEN NoSub ELSE sub[t]]
  BY DEF PodCrash
<1>2. LockTypes'
  <2>1. tpc' \in [Shards -> {"off", "init", "load", "train", "vote", "write",
                             "writing", "barrier", "put"}]
        /\ apc' \in [Nodes -> {"watch", "reset", "stop", "rdzv"}]
    BY <1>1 DEF LockTypes
  <2>2. /\ lock' \in [Shards -> BOOLEAN] /\ conn' \in [Shards -> BOOLEAN]
        /\ eof' \in [Shards -> BOOLEAN]
    BY <1>1 DEF LockTypes
  <2>3. sub' \in [Threads -> [Local -> {"none", "lock", "write", "torn", "mark",
                                      "failing", "ok", "fail"}]]
    BY <1>1 DEF LockTypes, NoSub
  <2>4. thr' = [t \in Threads |-> [pc |-> thr'[t].pc, step |-> thr'[t].step]]
    BY <1>1 DEF LockTypes, Idle
  <2> QED
    BY <2>1, <2>2, <2>3, <2>4 DEF LockTypes
<1>3. ConnBusy'
  BY <1>1, Zenon DEF ConnBusy
<1>4. OffAtRdzv'
  BY <1>1 DEF LockTypes, OffAtRdzv, Shards
<1>5. SubAtRest'
  BY <1>1 DEF SubAtRest, NoSub, Idle
<1>6. LocksOwned'
  BY <1>1, Zenon DEF LocksOwned
<1> QED
  BY <1>2, <1>3, <1>4, <1>5, <1>6

\* New processes start without a lock.
LEMMA StartWorkersKeeps ==
  ASSUME LockInv, StartWorkers
  PROVE  LockInv'
<1> USE DEF LockInv
<1>1. /\ \A n \in Nodes : apc[n] = "rdzv"
      /\ apc' = [n \in Nodes |-> "watch"]
      /\ tpc' = [s \in Shards |-> IF s[2] = 0 THEN "init" ELSE "load"]
      /\ UNCHANGED <<lock, conn, eof, thr, sub>>
  BY DEF StartWorkers, lockVars, saverVars
<1>2. LockTypes'
  BY <1>1 DEF LockTypes
<1>3. \A s \in Shards : ~conn[s]
  BY <1>1 DEF ConnBusy, OffAtRdzv, Shards
<1>4. ConnBusy' /\ OffAtRdzv'
  BY <1>1, <1>3 DEF ConnBusy, OffAtRdzv, Shards
<1>5. SubAtRest' /\ LocksOwned'
  BY <1>1 DEF SubAtRest, NoSub, LocksOwned
<1> QED
  BY <1>2, <1>4, <1>5

\* All steps of an agent.
LEMMA AgentStepKeeps ==
  ASSUME LockInv, NEW n \in Nodes, AgentStep(n)
  PROVE  LockInv'
<1>1. <<n, "saver">> \in Threads /\ <<n, "bp">> \in Threads
  BY DEF Threads
<1>2. ASSUME \/ TakeEvent(n) \/ BreakpointBegin(n) \/ SyncCkptNodes(n)
             \/ SyncTimeout(n) \/ BreakpointGuard(n)
      PROVE  LockInv'
  <2>1. UNCHANGED <<tpc, apc, lockVars, sub>>
    BY <1>2 DEF TakeEvent, BreakpointBegin, SyncCkptNodes, SyncTimeout,
                BreakpointGuard, trainVars, agentVars
  <2>2. PICK t \in Threads :
          /\ thr[t].pc # "save"
          /\ \/ UNCHANGED thr \/ Finish(t)
             \/ \E pc \in {"guard", "check"} : Goto(t, pc)
             \/ \E pc \in {"check", "sync"}, st \in {queue[n], meta[<<n, 0>>].step} :
                  Start(t, pc, st)
    <3>1. CASE TakeEvent(n)
      <4>1. thr[<<n, "saver">>] = Idle
        BY <3>1, Zenon DEF TakeEvent
      <4>2. UNCHANGED thr \/ Start(<<n, "saver">>, "check", queue[n])
        BY <3>1 DEF TakeEvent
      <4>3. thr[<<n, "saver">>].pc # "save"
        BY <4>1 DEF Idle
      <4> QED
        BY <1>1, <4>2, <4>3, Zenon
    <3>2. CASE BreakpointBegin(n)
      <4>1. thr[<<n, "bp">>] = Idle
        BY <3>2 DEF BreakpointBegin
      <4>2. UNCHANGED thr \/ Start(<<n, "bp">>, "sync", meta[<<n, 0>>].step)
        BY <3>2 DEF BreakpointBegin
      <4>3. thr[<<n, "bp">>].pc # "save"
        BY <4>1 DEF Idle
      <4> QED
        BY <1>1, <4>2, <4>3
    <3>3. CASE SyncCkptNodes(n)
      BY <1>1, <3>3 DEF SyncCkptNodes
    <3>4. CASE SyncTimeout(n)
      BY <1>1, <3>4, Zenon DEF SyncTimeout
    <3>5. CASE BreakpointGuard(n)
      BY <1>1, <3>5 DEF BreakpointGuard
    <3> QED
      BY <1>2, <3>1, <3>2, <3>3, <3>4, <3>5, Zenon
  <2>3. /\ thr' = [u \in Threads |-> [pc |-> thr'[u].pc, step |-> thr'[u].step]]
        /\ \A u \in Threads \ {t} : thr'[u] = thr[u]
    BY <2>2, GotoThread, FinishThread, StartThread DEF LockInv, LockTypes
  <2> QED
    BY <2>1, <2>2, <2>3, ThreadMoves
<1>3. ASSUME WorkersFailed(n) \/ MembershipChanged(n)
      PROVE  LockInv'
  <2>1. /\ apc' = [apc EXCEPT ![n] = "reset"]
        /\ UNCHANGED <<tpc, lock, conn, eof, thr, sub>>
    BY <1>3 DEF WorkersFailed, MembershipChanged, BeginRestart, trainVars,
                lockVars, saverVars
  <2>2. LockTypes'
    BY <2>1 DEF LockInv, LockTypes
  <2>3. OffAtRdzv'
    BY <2>1 DEF LockInv, LockTypes, OffAtRdzv, Shards
  <2>4. ConnBusy' /\ SubAtRest' /\ LocksOwned'
    BY <2>1 DEF LockInv, ConnBusy, SubAtRest, NoSub, LocksOwned
  <2> QED
    BY <2>2, <2>3, <2>4 DEF LockInv
<1> QED
  BY <1>2, <1>3, ResetKeeps, StopWorkersKeeps, PodCrashKeeps DEF AgentStep

-----------------------------------------------------------------------------
\* Every step keeps LockInv.
LEMMA LockInvNext ==
  ASSUME LockInv, [Next]_vars
  PROVE  LockInv'
<1>1. CASE UNCHANGED vars
  BY <1>1, NothingMoves DEF vars, trainVars, agentVars, saverVars, lockInvVars
<1>2. CASE Next
  BY <1>2, TrainerStepKeeps, SaverStepKeeps, AgentStepKeeps,
     ProcessCrashKeeps, ConnectionClosedKeeps, StartWorkersKeeps DEF Next
<1> QED
  BY <1>1, <1>2

LEMMA LockInvInit ==
  ASSUME Init
  PROVE  LockInv
<1>1. LockTypes
  BY DEF Init, LockTypes, NoSub, Idle
<1>2. ConnBusy /\ LocksOwned
  BY DEF Init, ConnBusy, LocksOwned
<1>3. OffAtRdzv
  BY DEF Init, OffAtRdzv, Shards
<1>4. SubAtRest
  BY DEF Init, SubAtRest
<1> QED
  BY <1>1, <1>2, <1>3, <1>4 DEF LockInv

\* A locked SharedLock always has someone who will release it: no crash of a
\* process or a pod, no restart and no reset of a saver leaks the lock.
THEOREM NoLockLeaks == Spec => []LocksOwned
<1>1. LockInv => LocksOwned
  BY DEF LockInv
<1> QED
  BY <1>1, LockInvInit, LockInvNext, PTL DEF Spec

-----------------------------------------------------------------------------
(* Processes and savers use the shared memory in turn when saves and       *)
(* restarts come at convenient times.  MemInv adds to LockInv who holds    *)
(* the lock of a shard whose process is at work: the process that acquired *)
(* it, and then no saver is between the two releases of the lock, or the   *)
(* saver that reads the memory.                                            *)

\* The process of shard s takes part in the training and its agent watches it.
Live(s) == apc[s[1]] = "watch" /\ tpc[s] \notin {"off", "init", "load"}

\* A save at a breakpoint is to come, or is under way and not yet at its commit.
BpBusy(n) == pend[n] > 0 \/ thr[<<n, "bp">>].pc \notin {"idle", "commit"}

\* No save at a breakpoint uses the memory of a node whose processes train.
BpApart == \A s \in Shards : Live(s) => ~BpBusy(s[1])

\* An agent restarts no process that writes its memory, and a dirty memory is
\* being written.
WritingWatched ==
  \A s \in Shards : /\ tpc[s] = "writing" => apc[s[1]] = "watch"
                    /\ meta[s].writing => tpc[s] = "writing"

\* New processes do not start to train before the locks of old ones are free.
EofIdle == \A s \in Shards : eof[s] => tpc[s] \in {"off", "init", "load"}

\* A process writes with the lock that it acquired.
WriterConn == \A s \in Shards : tpc[s] \in {"write", "writing"} => conn[s]

\* The lock of a process at work is its own, and no saver is about to release it.
ConnHolds ==
  \A s \in Shards : Live(s) /\ conn[s] =>
    /\ lock[s]
    /\ \A t \in Threads : t[1] = s[1] =>
         sub[t][s[2]] \notin {"write", "torn", "mark", "failing"}

\* A saver that reads the memory of a process at work holds its lock.
ReaderHolds ==
  \A s \in Shards, t \in Threads :
    /\ Live(s) /\ t[1] = s[1]
    /\ sub[t][s[2]] \in {"write", "torn"}
    => lock[s]

MemTypes ==
  /\ pend \in [Nodes -> Int]
  /\ meta = [s \in Shards |-> meta[s]]

MemCore ==
  /\ MemTypes /\ BpApart /\ WritingWatched /\ EofIdle /\ WriterConn
  /\ ConnHolds /\ ReaderHolds

MemInv == LockInv /\ MemCore

\* A thread of the agent is the saver or the one of the breakpoint saves.
LEMMA ThreadKinds ==
  ASSUME NEW t \in Threads
  PROVE  /\ t[1] \in Nodes
         /\ t = <<t[1], "saver">> \/ t = <<t[1], "bp">>
BY DEF Threads

\* Only the saver thread works on a node whose processes train.
LEMMA SaverAlone ==
  ASSUME MemInv, NEW s \in Shards, Live(s), NEW t \in Threads, t[1] = s[1],
         NEW l \in Local, sub[t][l] # "none"
  PROVE  t = <<s[1], "saver">>
<1>1. thr[t].pc = "save"
  BY DEF MemInv, LockInv, SubAtRest, NoSub
<1>2. ~BpBusy(s[1])
  BY DEF MemInv, MemCore, BpApart
<1>3. t # <<s[1], "bp">>
  BY <1>1, <1>2 DEF BpBusy
<1> QED
  BY <1>3, ThreadKinds

\* A step of the threads that changes neither locks nor calls of _save_shard.
LEMMA MemThreadMoves ==
  ASSUME MemInv, UNCHANGED <<tpc, apc, lockVars, sub, meta>>,
         pend' \in [Nodes -> Int],
         \A n \in Nodes : BpBusy(n)' => BpBusy(n)
  PROVE  MemCore'
<1>1. UNCHANGED <<tpc, apc, lock, conn, eof, sub, meta>>
  BY DEF lockVars
<1>2. \A s \in Shards : s[1] \in Nodes
  BY DEF Shards
<1>3. MemTypes'
  BY <1>1 DEF MemInv, MemCore, MemTypes
<1>4. BpApart'
  BY <1>1, <1>2 DEF MemInv, MemCore, BpApart, Live
<1>5. WritingWatched' /\ EofIdle' /\ WriterConn'
  BY <1>1 DEF MemInv, MemCore, WritingWatched, EofIdle, WriterConn
<1>6. ConnHolds' /\ ReaderHolds'
  BY <1>1 DEF MemInv, MemCore, ConnHolds, ReaderHolds, Live
<1> QED
  BY <1>3, <1>4, <1>5, <1>6 DEF MemCore

\* A step of the processes that leaves locks, memory and threads alone.
LEMMA MemProcessesMove ==
  ASSUME MemInv, UNCHANGED <<apc, lockVars, sub, meta, thr, pend>>,
         \A s \in Shards :
           /\ tpc'[s] \in {"off", "init", "load"} <=>
                tpc[s] \in {"off", "init", "load"}
           /\ tpc'[s] = "writing" <=> tpc[s] = "writing"
           /\ tpc'[s] = "write" => conn[s]
  PROVE  MemCore'
<1>1. UNCHANGED <<apc, lock, conn, eof, sub, meta, thr, pend>>
  BY DEF lockVars
<1>2. \A s \in Shards : Live(s)' <=> Live(s)
  BY <1>1 DEF Live
<1>3. MemTypes'
  BY <1>1 DEF MemInv, MemCore, MemTypes
<1>4. BpApart'
  BY <1>1, <1>2 DEF MemInv, MemCore, BpApart, BpBusy
<1>5. WritingWatched' /\ EofIdle' /\ WriterConn'
  BY <1>1 DEF MemInv, MemCore, WritingWatched, EofIdle, WriterConn
<1>6. ConnHolds' /\ ReaderHolds'
  BY <1>1, <1>2 DEF MemInv, MemCore, ConnHolds, ReaderHolds
<1> QED
  BY <1>3, <1>4, <1>5, <1>6 DEF MemCore

\* Processes begin to train when the threads have left the memory.
LEMMA LoadMem ==
  ASSUME MemInv, Orderly, Load
  PROVE  MemCore'
<1>1. /\ \A s \in Shards : tpc[s] = "load"
      /\ tpc' = [s \in Shards |-> "train"]
      /\ UNCHANGED <<apc, lock, conn, eof, sub, meta, thr, pend>>
  BY DEF Load, All, memVars, lockVars, saverVars, agentVars
<1>2. /\ \A t \in Threads : thr[t].pc \in {"idle", "commit"}
      /\ \A s \in Shards : ~eof[s]
      /\ \A n \in Nodes : pend[n] <= 0
  BY DEF Load, LoadInTime
<1>3. \A n \in Nodes : ~BpBusy(n)
  BY <1>2 DEF BpBusy, Threads, MemInv, MemCore, MemTypes
<1>4. \A t \in Threads, l \in Local : sub[t][l] = "none"
  BY <1>2 DEF MemInv, LockInv, SubAtRest, NoSub
<1>5. \A s \in Shards : s[1] \in Nodes /\ s[2] \in Local
  BY DEF Shards
<1>6. MemTypes'
  BY <1>1 DEF MemInv, MemCore, MemTypes
<1>7. BpApart'
  BY <1>1, <1>3, <1>5 DEF BpApart, BpBusy
<1>8. WritingWatched' /\ EofIdle' /\ WriterConn'
  BY <1>1, <1>2 DEF MemInv, MemCore, WritingWatched, EofIdle, WriterConn
<1>9. ConnHolds'
  BY <1>1 DEF MemInv, LockInv, ConnBusy, ConnHolds
<1>10. ReaderHolds'
  BY <1>1, <1>4, <1>5 DEF ReaderHolds
<1> QED
  BY <1>6, <1>7, <1>8, <1>9, <1>10 DEF MemCore

\* The lock that a process finds free is not the one of a saver.
LEMMA TryAcquireMem ==
  ASSUME MemInv, Orderly, NEW s \in Shards, TryAcquire(s)
  PROVE  MemCore'
<1>1. /\ tpc[s] = "train" /\ tpc' = [tpc EXCEPT ![s] = "vote"]
      /\ conn' = [conn EXCEPT ![s] = ~lock[s]]
      /\ lock' = [lock EXCEPT ![s] = TRUE]
      /\ UNCHANGED <<apc, eof, sub, meta, thr, pend>>
  BY DEF TryAcquire, memVars, saverVars, agentVars
<1>2. /\ apc[s[1]] = "watch"
      /\ \A t \in Threads :
           t[1] = s[1] => sub[t][s[2]] \notin {"mark", "failing"}
  BY DEF TryAcquire, SaveInTime, LockInTime
<1>3. /\ \A u \in Shards : Live(u)' <=> Live(u)
      /\ Live(s)
  BY <1>1, <1>2 DEF Live, MemInv, LockInv, LockTypes
<1>4. /\ \A u \in Shards \ {s} : tpc'[u] = tpc[u] /\ conn'[u] = conn[u]
                                 /\ lock'[u] = lock[u]
      /\ tpc'[s] = "vote" /\ conn'[s] = ~lock[s] /\ lock'[s]
  BY <1>1 DEF MemInv, LockInv, LockTypes
<1>5. MemTypes'
  BY <1>1 DEF MemInv, MemCore, MemTypes
<1>6. BpApart'
  BY <1>1, <1>3 DEF MemInv, MemCore, BpApart, BpBusy
<1>7. WritingWatched' /\ EofIdle' /\ WriterConn'
  <2>1. WritingWatched'
    BY <1>1, <1>4 DEF MemInv, MemCore, WritingWatched
  <2>2. EofIdle'
    BY <1>1, <1>4, Zenon DEF MemInv, MemCore, EofIdle
  <2>3. WriterConn'
    BY <1>1, <1>4, Zenon DEF MemInv, MemCore, WriterConn
  <2> QED
    BY <2>1, <2>2, <2>3
<1>8. ConnHolds'
  <2> SUFFICES ASSUME NEW u \in Shards, Live(u)', conn'[u]
               PROVE  /\ lock'[u]
                      /\ \A t \in Threads : t[1] = u[1] =>
                           sub[t][u[2]] \notin {"write", "torn", "mark", "failing"}
    BY <1>1 DEF ConnHolds
  <2>1. CASE u = s
    BY <1>2, <1>3, <1>4, <2>1, Zenon DEF MemInv, MemCore, ReaderHolds
  <2>2. CASE u # s
    BY <1>3, <1>4, <2>2 DEF MemInv, MemCore, ConnHolds
  <2> QED
    BY <2>1, <2>2, Zenon
<1>9. ReaderHolds'
  BY <1>1, <1>3, <1>4, Zenon DEF MemInv, MemCore, ReaderHolds
<1> QED
  BY <1>5, <1>6, <1>7, <1>8, <1>9 DEF MemCore

\* Those that acquired their lock keep it for the write, or release their own.
LEMMA AllReduceMem ==
  ASSUME MemInv, AllReduce
  PROVE  MemCore'
<1>1. /\ \A s \in Shards : tpc[s] = "vote"
      /\ UNCHANGED <<apc, eof, sub, meta, thr, pend>>
  BY DEF AllReduce, All, memVars, lockVars, saverVars, agentVars
<1>2. CASE /\ \A s \in Shards : conn[s]
           /\ tpc' = [s \in Shards |-> "write"]
           /\ UNCHANGED lockVars
  BY <1>1, <1>2, MemProcessesMove
<1>3. CASE /\ tpc' = [s \in Shards |-> "train"]
           /\ lock' = [s \in Shards |-> lock[s] /\ ~conn[s]]
           /\ conn' = [s \in Shards |-> FALSE]
  <2>1. \A u \in Shards : Live(u)' <=> Live(u)
    BY <1>1, <1>3 DEF Live
  <2>2. MemTypes'
    BY <1>1 DEF MemInv, MemCore, MemTypes
  <2>3. BpApart'
    BY <1>1, <2>1 DEF MemInv, MemCore, BpApart, BpBusy
  <2>4. WritingWatched' /\ EofIdle' /\ WriterConn'
    BY <1>1, <1>3 DEF MemInv, MemCore, WritingWatched, EofIdle, WriterConn
  <2>5. ConnHolds'
    BY <1>3 DEF ConnHolds
  <2>6. ReaderHolds'
    BY <1>1, <1>3, <2>1, Zenon DEF MemInv, MemCore, ConnHolds, ReaderHolds
  <2> QED
    BY <2>2, <2>3, <2>4, <2>5, <2>6 DEF MemCore
<1> QED
  BY <1>2, <1>3 DEF AllReduce

\* A process that writes has its lock, and no thread reads.
LEMMA StartWriteMem ==
  ASSUME MemInv, Orderly, NEW s \in Shards, StartWrite(s)
  PROVE  MemCore' /\ sub' = sub
<1>1. /\ tpc[s] = "write" /\ tpc' = [tpc EXCEPT ![s] = "writing"]
      /\ UNCHANGED <<apc, lock, conn, eof, thr, pend>>
      /\ \E st : meta' = [meta EXCEPT ![s] = [step |-> st, writing |-> TRUE]]
      /\ apc[s[1]] = "watch"
  BY Zenon DEF StartWrite, SaveInTime, lockVars, agentVars
<1>2. Live(s) /\ conn[s]
  BY <1>1 DEF Live, MemInv, MemCore, WriterConn
<1>3. \A t \in Threads : ~(t[1] = s[1] /\ sub[t][s[2]] = "write")
  BY <1>2 DEF MemInv, MemCore, ConnHolds
<1>4. sub' = [t \in Threads |-> sub[t]]
  BY <1>3 DEF StartWrite, Disturb
<1>5. sub' = sub
  BY <1>4 DEF MemInv, LockInv, LockTypes
<1>6. /\ \A u \in Shards \ {s} : tpc'[u] = tpc[u] /\ meta'[u] = meta[u]
      /\ tpc'[s] = "writing" /\ meta'[s].writing
      /\ meta' = [u \in Shards |-> meta'[u]]
  <2>1. PICK st : meta' = [meta EXCEPT ![s] = [step |-> st, writing |-> TRUE]]
    BY <1>1, Zenon
  <2>2. meta = [u \in Shards |-> meta[u]]
    BY DEF MemInv, MemCore, MemTypes
  <2>3. /\ \A u \in Shards \ {s} : meta'[u] = meta[u]
        /\ meta'[s] = [step |-> st, writing |-> TRUE]
        /\ meta' = [u \in Shards |-> meta'[u]]
    BY <2>1, <2>2, Zenon
  <2> QED
    BY <1>1, <2>3 DEF MemInv, LockInv, LockTypes
<1>7. \A u \in Shards : Live(u)' <=> Live(u)
  BY <1>1, <1>6 DEF Live
<1>8. MemTypes'
  BY <1>1, <1>6 DEF MemInv, MemCore, MemTypes
<1>9. BpApart'
  BY <1>1, <1>7, Zenon DEF MemInv, MemCore, BpApart, BpBusy
<1>10. WritingWatched' /\ EofIdle' /\ WriterConn'
  BY <1>1, <1>2, <1>6 DEF MemInv, MemCore, WritingWatched, EofIdle, WriterConn
<1>11. ConnHolds' /\ ReaderHolds'
  BY <1>1, <1>5, <1>7 DEF MemInv, MemCore, ConnHolds, ReaderHolds
<1> QED
  BY <1>5, <1>8, <1>9, <1>10, <1>11 DEF MemCore

\* The lock that a finished write releases is its own.
LEMMA FinishWriteMem ==
  ASSUME MemInv, NEW s \in Shards, FinishWrite(s)
  PROVE  MemCore'
<1>1. /\ tpc[s] = "writing"
      /\ \E pc \in {"train", "barrier"} : tpc' = [tpc EXCEPT ![s] = pc]
      /\ lock' = [lock EXCEPT ![s] = FALSE]
      /\ conn' = [conn EXCEPT ![s] = FALSE]
      /\ \E st : meta' = [meta EXCEPT ![s] = [step |-> st, writing |-> FALSE]]
      /\ UNCHANGED <<apc, eof, sub, thr, pend>>
  BY Zenon DEF FinishWrite, saverVars, agentVars
<1>2. Live(s) /\ conn[s]
  BY <1>1 DEF Live, MemInv, MemCore, WriterConn, WritingWatched
<1>3. \A t \in Threads : t[1] = s[1] => sub[t][s[2]] \notin {"write", "torn"}
  BY <1>2 DEF MemInv, MemCore, ConnHolds
<1>4. /\ \A u \in Shards \ {s} : /\ tpc'[u] = tpc[u] /\ meta'[u] = meta[u]
                                 /\ lock'[u] = lock[u] /\ conn'[u] = conn[u]
      /\ tpc'[s] \in {"train", "barrier"} /\ ~meta'[s].writing /\ ~conn'[s]
      /\ meta' = [u \in Shards |-> meta'[u]]
  <2>1. PICK st : meta' = [meta EXCEPT ![s] = [step |-> st, writing |-> FALSE]]
    BY <1>1, Zenon
  <2>2. meta = [u \in Shards |-> meta[u]]
    BY DEF MemInv, MemCore, MemTypes
  <2>3. /\ \A u \in Shards \ {s} : meta'[u] = meta[u]
        /\ meta'[s] = [step |-> st, writing |-> FALSE]
        /\ meta' = [u \in Shards |-> meta'[u]]
    BY <2>1, <2>2, Zenon
  <2> QED
    BY <1>1, <2>3 DEF MemInv, LockInv, LockTypes
<1>5. \A u \in Shards : Live(u)' <=> Live(u)
  BY <1>1, <1>4 DEF Live
<1>6. MemTypes'
  BY <1>1, <1>4 DEF MemInv, MemCore, MemTypes
<1>7. BpApart'
  BY <1>1, <1>5, Zenon DEF MemInv, MemCore, BpApart, BpBusy
<1>8. EofIdle'
  <2>1. ~eof[s]
    BY <1>1 DEF MemInv, MemCore, EofIdle
  <2> QED
    BY <1>1, <1>4, <2>1 DEF MemInv, MemCore, EofIdle
<1>9. WritingWatched' /\ WriterConn'
  BY <1>1, <1>4 DEF MemInv, MemCore, WritingWatched, WriterConn
<1>10. ConnHolds'
  BY <1>1, <1>4, <1>5 DEF MemInv, MemCore, ConnHolds
<1>11. ReaderHolds'
  BY <1>1, <1>3, <1>4, <1>5 DEF MemInv, MemCore, ReaderHolds
<1> QED
  BY <1>6, <1>7, <1>8, <1>9, <1>10, <1>11 DEF MemCore

\* All steps of the training processes.
LEMMA TrainerStepMem ==
  ASSUME MemInv, Orderly, TrainerStep
  PROVE  MemCore'
<1>1. ASSUME NEW n \in Nodes, UpdateSaverConfig(n) \/ PutSaveEvent(n)
      PROVE  MemCore'
  <2>1. <<n, 0>> \in Shards
    BY LocalAssumption DEF Shards
  <2>2. /\ UNCHANGED <<apc, lockVars, sub, meta, thr, pend>>
        /\ \/ tpc[<<n, 0>>] = "init" /\ tpc' = [tpc EXCEPT ![<<n, 0>>] = "load"]
           \/ tpc[<<n, 0>>] = "put" /\ tpc' = [tpc EXCEPT ![<<n, 0>>] = "train"]
    BY <1>1 DEF UpdateSaverConfig, PutSaveEvent, memVars, saverVars, agentVars
  <2>3. \A s \in Shards :
          /\ tpc'[s] \in {"off", "init", "load"} <=>
               tpc[s] \in {"off", "init", "load"}
          /\ tpc'[s] = "writing" <=> tpc[s] = "writing"
          /\ tpc'[s] = "write" => conn[s]
    BY <2>1, <2>2, Zenon DEF MemInv, LockInv, LockTypes, MemCore, WriterConn
  <2> QED
    BY <2>2, <2>3, MemProcessesMove
<1>2. ASSUME Barrier \/ SaveCached
      PROVE  MemCore'
  <2>1. /\ UNCHANGED <<apc, lockVars, sub, meta, thr, pend>>
        /\ \A s \in Shards : tpc[s] \in {"barrier", "train"}
        /\ tpc' \in [Shards -> {"put", "train"}]
    BY <1>2 DEF Barrier, SaveCached, All, memVars, saverVars, agentVars
  <2> QED
    BY <2>1, MemProcessesMove
<1> QED
  BY <1>1, <1>2, LoadMem, TryAcquireMem, StartWriteMem, FinishWriteMem,
     AllReduceMem DEF TrainerStep

\* The first and the second release of the lock by _save_shard free no lock of
\* a process at work.
LEMMA SaveShardMem ==
  ASSUME MemInv, NEW t \in Threads, NEW l \in Local,
         SaveShardBegin(t, l) \/ SaveShardWritten(t, l) \/ SaveShardEnd(t, l)
  PROVE  MemCore'
<1> DEFINE s == <<t[1], l>>
<1>1. /\ sub[t][l] # "none"
      /\ \E to \in {"write", "mark", "failing", "ok", "fail"} :
           /\ sub' = [sub EXCEPT ![t][l] = to]
           /\ \/ /\ sub[t][l] \in {"write", "torn", "mark", "failing"}
                 /\ lock' = [lock EXCEPT ![s] = FALSE] /\ to # "write"
              \/ /\ lock' = [lock EXCEPT ![s] = TRUE] /\ to = "write"
                 /\ ~lock[s]
              \/ lock' = lock /\ ~lock[s] /\ to # "write"
      /\ UNCHANGED <<tpc, apc, conn, eof, thr, pend, meta>>
  BY Zenon DEF SaveShardBegin, SaveShardWritten, SaveShardEnd, memVars, agentVars,
         trainVars
<1>2. s \in Shards
  BY DEF Shards, Threads
<1>3. PICK to \in {"write", "mark", "failing", "ok", "fail"} :
        /\ sub' = [sub EXCEPT ![t][l] = to]
        /\ \/ /\ sub[t][l] \in {"write", "torn", "mark", "failing"}
              /\ lock' = [lock EXCEPT ![s] = FALSE] /\ to # "write"
           \/ /\ lock' = [lock EXCEPT ![s] = TRUE] /\ to = "write"
              /\ ~lock[s]
           \/ lock' = lock /\ ~lock[s] /\ to # "write"
  BY <1>1, Zenon
<1>4. /\ \A u \in Threads, k \in Local :
           (u # t \/ k # l) => sub'[u][k] = sub[u][k]
      /\ sub'[t][l] = to
  BY <1>3 DEF MemInv, LockInv, LockTypes
<1>5. /\ \A u \in Shards \ {s} : lock'[u] = lock[u]
      /\ to = "write" => lock'[s]
  BY <1>2, <1>3 DEF MemInv, LockInv, LockTypes
<1>6. \A u \in Shards : /\ Live(u)' <=> Live(u)
                        /\ u[2] \in Local /\ u = <<u[1], u[2]>>
  BY <1>1 DEF Live, Shards
<1>7. MemTypes'
  BY <1>1 DEF MemInv, MemCore, MemTypes
<1>8. BpApart'
  BY <1>1, <1>6 DEF MemInv, MemCore, BpApart, BpBusy
<1>9. WritingWatched' /\ EofIdle' /\ WriterConn'
  BY <1>1 DEF MemInv, MemCore, WritingWatched, EofIdle, WriterConn
<1>10. ConnHolds'
  <2> SUFFICES ASSUME NEW u \in Shards, Live(u), conn[u]
               PROVE  /\ lock'[u]
                      /\ \A v \in Threads : v[1] = u[1] =>
                           sub'[v][u[2]] \notin {"write", "torn", "mark", "failing"}
    BY <1>1, <1>6 DEF ConnHolds
  <2>1. /\ lock[u]
        /\ \A v \in Threads : v[1] = u[1] =>
             sub[v][u[2]] \notin {"write", "torn", "mark", "failing"}
    BY Zenon DEF MemInv, MemCore, ConnHolds
  <2>2. u # s
    <3> SUFFICES ASSUME u = s PROVE FALSE
      OBVIOUS
    <3>1. u[1] = t[1] /\ u[2] = l
      OBVIOUS
    <3> QED
      BY <1>3, <2>1, <3>1
  <2>3. \A v \in Threads : v[1] = u[1] => sub'[v][u[2]] = sub[v][u[2]]
    BY <1>4, <1>6, <2>2
  <2> QED
    BY <1>5, <2>1, <2>2, <2>3, Zenon
<1>11. ReaderHolds'
  <2> SUFFICES ASSUME NEW u \in Shards, Live(u), NEW v \in Threads, v[1] = u[1],
                      sub'[v][u[2]] \in {"write", "torn"}
               PROVE  lock'[u]
    BY <1>6 DEF ReaderHolds
  <2>1. CASE u # s
    <3>1. sub'[v][u[2]] = sub[v][u[2]]
      BY <1>4, <1>6, <2>1
    <3> QED
      BY <1>5, <2>1, <3>1, Zenon DEF MemInv, MemCore, ReaderHolds
  <2>2. CASE u = s /\ v = t
    <3>1. u[2] = l
      BY <2>2
    <3> QED
      BY <1>4, <1>5, <2>2, <3>1, Zenon
  <2>3. CASE u = s /\ v # t
    <3>1. u[1] = t[1] /\ u[2] = l
      BY <2>3
    <3>2. sub[v][l] # "none"
      BY <1>4, <2>3, <3>1, Zenon
    <3> QED
      BY <1>1, <2>3, <3>1, <3>2, SaverAlone
  <2> QED
    BY <2>1, <2>2, <2>3
<1> QED
  BY <1>7, <1>8, <1>9, <1>10, <1>11 DEF MemCore

\* The calls are submitted when there are none, and forgotten when all of them
\* have returned.
LEMMA SubmitGatherMem ==
  ASSUME MemInv, NEW t \in Threads, MakeDir(t) \/ Gather(t)
  PROVE  MemCore'
<1>1. UNCHANGED <<tpc, apc, lock, conn, eof, pend, meta>>
  BY Zenon DEF MakeDir, Gather, memVars, lockVars, trainVars, agentVars
<1>2. thr[t].pc \in {"mkdir", "save"}
  BY Zenon DEF MakeDir, Gather
<1>3. \A u \in Threads \ {t} : thr'[u] = thr[u]
  BY GotoThread, FinishThread DEF MakeDir, Gather, MemInv, LockInv
<1>4. \A n \in Nodes : BpBusy(n)' => BpBusy(n)
  BY <1>1, <1>2, <1>3 DEF BpBusy, Threads
<1>5. \E calls \in [Local -> {"none", "lock"}] : sub' = [sub EXCEPT ![t] = calls]
  <2>1. CASE MakeDir(t)
    <3> DEFINE calls == [k \in Local |->
                           IF meta[<<t[1], k>>].step = 0 THEN "none" ELSE "lock"]
    <3>1. calls \in [Local -> {"none", "lock"}]
      OBVIOUS
    <3>2. sub' = [sub EXCEPT ![t] = calls]
      BY <2>1 DEF MakeDir
    <3> QED
      BY <3>1, <3>2, Zenon
  <2>2. CASE Gather(t)
    <3>1. NoSub \in [Local -> {"none", "lock"}]
      BY DEF NoSub
    <3> QED
      BY <2>2, <3>1, Zenon DEF Gather
  <2> QED
    BY <2>1, <2>2
<1>6. \A u \in Threads, k \in Local :
        sub'[u][k] = sub[u][k] \/ sub'[u][k] \in {"none", "lock"}
  BY <1>5 DEF MemInv, LockInv, LockTypes
<1>7. \A u \in Shards : /\ Live(u)' <=> Live(u)
                        /\ u[1] \in Nodes /\ u[2] \in Local
  BY <1>1 DEF Live, Shards
<1>8. MemTypes'
  BY <1>1 DEF MemInv, MemCore, MemTypes
<1>9. BpApart'
  BY <1>4, <1>7 DEF MemInv, MemCore, BpApart
<1>10. WritingWatched' /\ EofIdle' /\ WriterConn'
  <2>1. WritingWatched'
    BY <1>1, Zenon DEF MemInv, MemCore, WritingWatched
  <2>2. EofIdle'
    BY <1>1, Zenon DEF MemInv, MemCore, EofIdle
  <2>3. WriterConn'
    BY <1>1, Zenon DEF MemInv, MemCore, WriterConn
  <2> QED
    BY <2>1, <2>2, <2>3
<1>11. ConnHolds' /\ ReaderHolds'
  <2>1. ConnHolds'
    BY <1>1, <1>6, <1>7, Zenon DEF MemInv, MemCore, ConnHolds
  <2>2. ReaderHolds'
    BY <1>1, <1>6, <1>7, Zenon DEF MemInv, MemCore, ReaderHolds
  <2> QED
    BY <2>1, <2>2
<1> QED
  BY <1>8, <1>9, <1>10, <1>11 DEF MemCore

\* All steps of a persisting thread.
LEMMA SaverStepMem ==
  ASSUME MemInv, NEW t \in Threads, SaverStep(t)
  PROVE  MemCore'
<1>1. ASSUME \/ CheckStep(t) \/ CommitStop(t) \/ CommitDone(t)
             \/ CommitTimeout(t) \/ CommitRaises(t)
      PROVE  MemCore'
  <2>1. UNCHANGED <<tpc, apc, lockVars, sub, meta, pend>>
    BY <1>1, Zenon DEF CheckStep, CommitStop, CommitDone, CommitTimeout, CommitRaises,
                agentVars, trainVars, memVars
  <2>2. \/ Finish(t)
        \/ thr[t].pc = "check" /\ Goto(t, "mkdir")
    BY <1>1, Zenon DEF CheckStep, CommitStop, CommitDone, CommitTimeout, CommitRaises,
                EndCommit
  <2>3. /\ \A u \in Threads \ {t} : thr'[u] = thr[u]
        /\ thr'[t].pc = "idle" \/ thr[t].pc = "check"
    BY <2>2, GotoThread, FinishThread DEF MemInv, LockInv
  <2>4. \A n \in Nodes : BpBusy(n)' => BpBusy(n)
    BY <2>1, <2>3 DEF BpBusy, Threads
  <2> QED
    BY <2>1, <2>4, MemThreadMoves DEF MemInv, MemCore, MemTypes
<1> QED
  BY <1>1, SaveShardMem, SubmitGatherMem DEF SaverStep

\* Processes S that do not write end.
LEMMA GoneMem ==
  ASSUME MemInv, NEW S \in SUBSET Shards, Gone(S),
         UNCHANGED <<lock, thr, sub, meta, pend>>,
         \A s \in S : tpc[s] # "writing",
         \A s \in Shards \ S : apc'[s[1]] = apc[s[1]]
  PROVE  MemCore'
<1>1. /\ tpc' = [s \in Shards |-> IF s \in S THEN "off" ELSE tpc[s]]
      /\ eof' = [s \in Shards |-> eof[s] \/ (s \in S /\ conn[s])]
      /\ conn' = [s \in Shards |-> conn[s] /\ s \notin S]
  BY DEF Gone
<1>2. \A u \in Shards : Live(u)' => Live(u) /\ u \notin S
  BY <1>1 DEF Live
<1>3. MemTypes'
  BY DEF MemInv, MemCore, MemTypes
<1>4. BpApart'
  BY <1>2 DEF MemInv, MemCore, BpApart, BpBusy
<1>5. WritingWatched'
  BY <1>1, Zenon DEF MemInv, MemCore, WritingWatched
<1>6. EofIdle' /\ WriterConn'
  <2>1. EofIdle'
    BY <1>1, Zenon DEF MemInv, MemCore, EofIdle
  <2>2. WriterConn'
    BY <1>1, Zenon DEF MemInv, MemCore, WriterConn
  <2> QED
    BY <2>1, <2>2
<1>7. ConnHolds' /\ ReaderHolds'
  <2>1. ConnHolds'
    BY <1>1, <1>2, Zenon DEF MemInv, MemCore, ConnHolds
  <2>2. ReaderHolds'
    BY <1>1, <1>2, Zenon DEF MemInv, MemCore, ReaderHolds
  <2> QED
    BY <2>1, <2>2
<1> QED
  BY <1>3, <1>4, <1>5, <1>6, <1>7 DEF MemCore

LEMMA ProcessCrashMem ==
  ASSUME MemInv, Orderly, NEW s \in Shards, ProcessCrash(s)
  PROVE  MemCore'
<1>1. /\ Gone({s}) /\ UNCHANGED <<lock, thr, sub, meta, pend, apc>>
      /\ tpc[s] # "writing"
  BY DEF ProcessCrash, memVars, saverVars, agentVars
<1> QED
  BY <1>1, GoneMem

LEMMA StopWorkersMem ==
  ASSUME MemInv, NEW n \in Nodes, StopWorkers(n)
  PROVE  MemCore'
<1>1. /\ apc[n] = "stop" /\ Gone({n} \X Local)
      /\ UNCHANGED <<lock, thr, sub, meta, pend>>
      /\ apc' = [apc EXCEPT ![n] = "rdzv"]
  BY DEF StopWorkers, memVars, saverVars
<1>2. {n} \X Local \in SUBSET Shards
  BY DEF Shards
<1>3. \A s \in {n} \X Local : tpc[s] # "writing"
  BY <1>1, <1>2 DEF MemInv, MemCore, WritingWatched
<1>4. \A s \in Shards \ ({n} \X Local) : apc'[s[1]] = apc[s[1]]
  BY <1>1 DEF MemInv, LockInv, LockTypes, Shards
<1> QED
  BY <1>1, <1>2, <1>3, <1>4, GoneMem

\* The server releases a lock whose process does not train.
LEMMA ConnectionClosedMem ==
  ASSUME MemInv, NEW s \in Shards, ConnectionClosed(s)
  PROVE  MemCore'
<1>1. /\ eof[s] /\ eof' = [eof EXCEPT ![s] = FALSE]
      /\ lock' = [lock EXCEPT ![s] = FALSE]
      /\ UNCHANGED <<tpc, apc, conn, thr, sub, meta, pend>>
  BY DEF ConnectionClosed, trainVars, saverVars, agentVars, memVars
<1>2. \A u \in Shards : Live(u)' => Live(u) /\ u # s
  BY <1>1 DEF Live, MemInv, MemCore, EofIdle
<1>3. \A u \in Shards : /\ eof'[u] => eof[u]
                        /\ u # s => lock'[u] = lock[u]
  BY <1>1, Zenon DEF MemInv, LockInv, LockTypes
<1>4. MemTypes'
  BY <1>1 DEF MemInv, MemCore, MemTypes
<1>5. BpApart'
  BY <1>1, <1>2 DEF MemInv, MemCore, BpApart, BpBusy
<1>6. WritingWatched' /\ EofIdle' /\ WriterConn'
  BY <1>1, <1>3 DEF MemInv, MemCore, WritingWatched, EofIdle, WriterConn
<1>7. ConnHolds' /\ ReaderHolds'
  <2>1. ConnHolds'
    BY <1>1, <1>2, <1>3, Zenon DEF MemInv, MemCore, ConnHolds
  <2>2. ReaderHolds'
    BY <1>1, <1>2, <1>3, Zenon DEF MemInv, MemCore, ReaderHolds
  <2> QED
    BY <2>1, <2>2
<1> QED
  BY <1>4, <1>5, <1>6, <1>7 DEF MemCore

\* An agent that begins a restart, or resets its saver, no longer watches.
LEMMA RestartMem ==
  ASSUME MemInv, Orderly, NEW n \in Nodes, BeginRestart(n) \/ Reset(n)
  PROVE  MemCore'
<1>1. /\ \E pc \in {"reset", "stop"} : apc' = [apc EXCEPT ![n] = pc]
      /\ \A l \in Local : tpc[<<n, l>>] # "writing"
      /\ UNCHANGED <<tpc, conn, eof, thr, sub, meta>>
      /\ UNCHANGED lock \/ lock' = [s \in Shards |-> lock[s] /\ s[1] # n]
  BY DEF BeginRestart, Reset, RestartInTime, trainVars, lockVars, saverVars,
         memVars
<1>2. \A s \in Shards : /\ s[1] \in Nodes /\ s[2] \in Local
                        /\ s = <<s[1], s[2]>>
  BY DEF Shards
<1>3. \A s \in Shards : /\ s[1] = n => apc'[s[1]] # "watch"
                        /\ s[1] # n => apc'[s[1]] = apc[s[1]] /\ lock'[s] = lock[s]
  BY <1>1, <1>2 DEF MemInv, LockInv, LockTypes
<1>4. \A u \in Shards : Live(u)' => Live(u) /\ u[1] # n
  BY <1>1, <1>3 DEF Live
<1>5. MemTypes'
  <2>1. pend' \in [Nodes -> Int]
    BY DEF MemInv, MemCore, MemTypes, BeginRestart, Reset
  <2> QED
    BY <1>1, <2>1 DEF MemInv, MemCore, MemTypes
<1>6. \A m \in Nodes \ {n} : pend'[m] = pend[m]
  BY DEF MemInv, MemCore, MemTypes, BeginRestart, Reset
<1>7. BpApart'
  BY <1>1, <1>2, <1>4, <1>6 DEF MemInv, MemCore, BpApart, BpBusy
<1>8. WritingWatched'
  BY <1>1, <1>2, <1>3 DEF MemInv, MemCore, WritingWatched
<1>9. EofIdle' /\ WriterConn'
  <2>1. EofIdle'
    BY <1>1, Zenon DEF MemInv, MemCore, EofIdle
  <2>2. WriterConn'
    BY <1>1, Zenon DEF MemInv, MemCore, WriterConn
  <2> QED
    BY <2>1, <2>2
<1>10. ConnHolds' /\ ReaderHolds'
  <2>1. ConnHolds'
    BY <1>1, <1>3, <1>4, Zenon DEF MemInv, MemCore, ConnHolds
  <2>2. ReaderHolds'
    BY <1>1, <1>3, <1>4, Zenon DEF MemInv, MemCore, ReaderHolds
  <2> QED
    BY <2>1, <2>2
<1> QED
  BY <1>5, <1>7, <1>8, <1>9, <1>10 DEF MemCore

\* A new pod has a new memory, new locks and no processes.
LEMMA PodCrashMem ==
  ASSUME MemInv, NEW n \in Nodes, PodCrash(n)
  PROVE  MemCore'
<1>1. /\ apc' = [apc EXCEPT ![n] = "rdzv"]
      /\ tpc' = [s \in Shards |-> IF s[1] = n THEN "off" ELSE tpc[s]]
      /\ meta' = [s \in Shards |-> IF s[1] = n THEN NoMeta ELSE meta[s]]
      /\ lock' = [s \in Shards |-> lock[s] /\ s[1] # n]
      /\ conn' = [s \in Shards |-> conn[s] /\ s[1] # n]
      /\ eof' = [s \in Shards |-> eof[s] /\ s[1] # n]
      /\ thr' = [t \in Threads |-> IF t[1] = n THEN Idle ELSE thr[t]]
      /\ sub' = [t \in Threads |-> IF t[1] = n THEN NoSub ELSE sub[t]]
      /\ pend' = [pend EXCEPT ![n] = IF @ = Never THEN @ ELSE 0]
  BY Zenon DEF PodCrash
<1>2. \A s \in Shards : s[1] \in Nodes
  BY DEF Shards
<1>3. \A u \in Shards : Live(u)' => Live(u) /\ u[1] # n
  BY <1>1, <1>2 DEF Live, MemInv, LockInv, LockTypes
<1>4. /\ \A m \in Nodes \ {n} : pend'[m] = pend[m]
      /\ pend' \in [Nodes -> Int]
  BY <1>1 DEF MemInv, MemCore, MemTypes
<1>5. MemTypes'
  BY <1>1, <1>4, Zenon DEF MemTypes
<1>6. BpApart'
  <2>1. \A m \in Nodes \ {n} : thr'[<<m, "bp">>] = thr[<<m, "bp">>]
    BY <1>1 DEF Threads
  <2> QED
    BY <1>2, <1>3, <1>4, <2>1, Zenon DEF MemInv, MemCore, BpApart, BpBusy
<1>7. WritingWatched'
  <2>1. \A s \in Shards : s[1] # n => apc'[s[1]] = apc[s[1]]
    BY <1>1, <1>2 DEF MemInv, LockInv, LockTypes
  <2> QED
    BY <1>1, <2>1 DEF MemInv, MemCore, WritingWatched, NoMeta
<1>8. EofIdle' /\ WriterConn'
  <2>1. EofIdle'
    BY <1>1, Zenon DEF MemInv, MemCore, EofIdle
  <2>2. WriterConn'
    BY <1>1, Zenon DEF MemInv, MemCore, WriterConn
  <2> QED
    BY <2>1, <2>2
<1>9. ConnHolds' /\ ReaderHolds'
  <2>1. ConnHolds'
    BY <1>1, <1>3, Zenon DEF MemInv, MemCore, ConnHolds
  <2>2. ReaderHolds'
    BY <1>1, <1>3, Zenon DEF MemInv, MemCore, ReaderHolds
  <2> QED
    BY <2>1, <2>2
<1> QED
  BY <1>5, <1>6, <1>7, <1>8, <1>9 DEF MemCore

\* New processes are not yet at work.
LEMMA StartWorkersMem ==
  ASSUME MemInv, StartWorkers
  PROVE  MemCore'
<1>1. /\ \A n \in Nodes : apc[n] = "rdzv"
      /\ tpc' = [s \in Shards |-> IF s[2] = 0 THEN "init" ELSE "load"]
      /\ UNCHANGED <<lock, conn, eof, thr, sub, pend, meta>>
  BY DEF StartWorkers, lockVars, saverVars, memVars
<1>2. \A s \in Shards : ~Live(s)' /\ tpc'[s] \in {"init", "load"}
  BY <1>1 DEF Live
<1>3. \A s \in Shards : ~meta[s].writing
  BY <1>1 DEF MemInv, LockInv, OffAtRdzv, Shards, MemCore, WritingWatched
<1> QED
  BY <1>1, <1>2, <1>3 DEF MemInv, MemCore, MemTypes, BpApart, WritingWatched,
                          EofIdle, WriterConn, ConnHolds, ReaderHolds

\* All steps of an agent.
LEMMA AgentStepMem ==
  ASSUME MemInv, Orderly, NEW n \in Nodes, AgentStep(n)
  PROVE  MemCore'
<1>1. ASSUME \/ TakeEvent(n) \/ BreakpointBegin(n) \/ SyncCkptNodes(n)
             \/ SyncTimeout(n) \/ BreakpointGuard(n)
      PROVE  MemCore'
  <2>1. UNCHANGED <<tpc, apc, lockVars, sub, meta>>
    BY <1>1, Zenon DEF TakeEvent, BreakpointBegin, SyncCkptNodes, SyncTimeout,
                BreakpointGuard, trainVars, agentVars, memVars
  <2>2. pend' \in [Nodes -> Int] /\ \A m \in Nodes : pend'[m] <= pend[m]
    <3>1. UNCHANGED pend \/ pend' = [pend EXCEPT ![n] = pend[n] - 1]
      BY <1>1, Zenon DEF TakeEvent, BreakpointBegin, SyncCkptNodes, SyncTimeout,
                  BreakpointGuard, agentVars
    <3>2. pend \in [Nodes -> Int]
      BY DEF MemInv, MemCore, MemTypes
    <3> QED
      BY <3>1, <3>2
  <2>3. /\ <<n, "saver">> \in Threads /\ <<n, "bp">> \in Threads
        /\ \A m \in Nodes : <<m, "bp">> \in Threads
    BY DEF Threads
  <2>4. CASE TakeEvent(n)
    <3>1. \A m \in Nodes : thr'[<<m, "bp">>] = thr[<<m, "bp">>]
      BY <2>3, <2>4, StartThread DEF TakeEvent, MemInv, LockInv
    <3>2. \A m \in Nodes : BpBusy(m)' => BpBusy(m)
      BY <2>2, <3>1 DEF BpBusy, MemInv, MemCore, MemTypes
    <3> QED
      BY <2>1, <2>2, <3>2, MemThreadMoves
  <2>5. CASE ~TakeEvent(n)
    <3>1. BpBusy(n)
      BY <1>1, <2>5, Zenon DEF BpBusy, BreakpointBegin, SyncCkptNodes, SyncTimeout,
                        BreakpointGuard
    <3>2. UNCHANGED thr \/ Finish(<<n, "bp">>)
          \/ (\E pc \in {"guard", "check"} : Goto(<<n, "bp">>, pc))
          \/ Start(<<n, "bp">>, "sync", meta[<<n, 0>>].step)
      BY <1>1, <2>5, Zenon DEF BreakpointBegin, SyncCkptNodes, SyncTimeout,
                        BreakpointGuard
    <3>3. \A u \in Threads \ {<<n, "bp">>} : thr'[u] = thr[u]
      BY <2>3, <3>2, GotoThread, FinishThread, StartThread DEF MemInv, LockInv
    <3>4. \A m \in Nodes : BpBusy(m)' => BpBusy(m)
      <4> SUFFICES ASSUME NEW m \in Nodes, m # n, BpBusy(m)'
                   PROVE  BpBusy(m)
        BY <3>1
      <4>1. thr'[<<m, "bp">>] = thr[<<m, "bp">>]
        BY <2>3, <3>3
      <4> QED
        BY <2>2, <4>1 DEF BpBusy, MemInv, MemCore, MemTypes
    <3> QED
      BY <2>1, <2>2, <3>4, MemThreadMoves
  <2> QED
    BY <2>4, <2>5
<1>2. ASSUME WorkersFailed(n) \/ MembershipChanged(n)
      PROVE  BeginRestart(n)
  BY <1>2 DEF WorkersFailed, MembershipChanged
<1> QED
  BY <1>1, <1>2, RestartMem, StopWorkersMem, PodCrashMem DEF AgentStep

LEMMA MemInvNext ==
  ASSUME MemInv, Orderly, [Next]_vars
  PROVE  MemInv'
<1>1. LockInv'
  BY LockInvNext DEF MemInv
<1>2. CASE UNCHANGED vars
  <2>1. UNCHANGED <<tpc, apc, lockVars, sub, meta, thr, pend>>
    BY <1>2 DEF vars, trainVars, memVars, saverVars, agentVars
  <2>2. \A s \in Shards : WriterConn => (tpc'[s] = "write" => conn[s])
    BY <2>1 DEF WriterConn
  <2> QED
    BY <1>1, <2>1, <2>2, MemProcessesMove DEF MemInv, MemCore
<1>3. CASE Next
  BY <1>1, <1>3, TrainerStepMem, SaverStepMem, AgentStepMem, ProcessCrashMem,
     ConnectionClosedMem, StartWorkersMem DEF Next, MemInv
<1> QED
  BY <1>2, <1>3

LEMMA MemInvInit ==
  ASSUME Init
  PROVE  MemInv
<1>1. LockInv
  BY LockInvInit
<1>2. MemTypes
  BY DEF Init, MemTypes, Never
<1>3. /\ \A s \in Shards : ~Live(s) /\ tpc[s] \in {"init", "load"} /\ ~eof[s]
                           /\ ~meta[s].writing
  BY DEF Init, Live, NoMeta
<1> QED
  BY <1>1, <1>2, <1>3, Zenon DEF MemInv, MemCore, BpApart, WritingWatched, EofIdle,
                          WriterConn, ConnHolds, ReaderHolds

\* A training process never writes the memory that a saver is reading, when
\* saves and restarts come at convenient times: with and without saves at a
\* breakpoint, the lock, the vote and the two releases in _save_shard keep them
\* apart.
THEOREM MemoryExclusive ==
  ASSUME Orderly
  PROVE  Spec => []MemoryExclusion
<1>1. MemInv /\ [Next]_vars => MemInv'
  BY MemInvNext
<1>2. MemInv => MemoryExclusion
  <2> SUFFICES ASSUME MemInv, NEW s \in Shards, tpc[s] = "writing",
                      NEW t \in Threads, t[1] = s[1]
               PROVE  sub[t][s[2]] \notin {"write", "torn"}
    BY DEF MemoryExclusion
  <2>1. Live(s) /\ conn[s]
    BY DEF MemInv, MemCore, Live, WritingWatched, WriterConn
  <2> QED
    BY <2>1 DEF MemInv, MemCore, ConnHolds
<1> QED
  BY <1>1, <1>2, MemInvInit, PTL DEF Spec
=============================================================================
