---------------------- MODULE DataShardingLedgerProofs ----------------------
(***************************************************************************)
(* With the unlocked operations under TaskManager._lock (LockedReads),     *)
(* dynamic data sharding loses no shard and implements ShardLedger, for    *)
(* any number of workers, shards, epochs, retries, faults and checkpoints. *)
(***************************************************************************)
EXTENDS DataShardingProofs

-----------------------------------------------------------------------------
(* The inductive invariant.  Every shard of a started epoch is in exactly  *)
(* one place, a checkpoint copies the queues while nobody changes them,    *)
(* and what it holds is never ahead of the manager.                        *)

Injective(q) == \A j, k \in DOMAIN q : q[j] = q[k] => j = k

ShardsOnce ==
  /\ \A j, k \in DOMAIN todo : todo[j].shard = todo[k].shard => j = k
  /\ \A d, e \in doing : d.shard = e.shard => d = e
  /\ Injective(rst)

ShardsOf(e) == (1 .. e) \X (1 .. NumShards)

Apart ==
  /\ TodoShards \cap DoingShards = {}
  /\ Elements(rst) \cap (TodoShards \cup DoingShards) = {}
  /\ Outstanding \cap (done \cup dropped) = {}
  /\ done \cap dropped = {}
  /\ Outstanding \cup done \cup dropped = ShardsOf(epoch)

Restoring == rst # <<>> => ckpt.phase = "none"

Copied(n) ==
  Len(ckpt.todo) = n /\ \A k \in 1 .. n : ckpt.todo[k] = todo[k].shard

Saving ==
  /\ ckpt.phase = "todo" => ckpt.idx <= Len(todo) + 1 /\ Copied(ckpt.idx - 1)
  /\ ckpt.phase \in {"doing", "epoch"} => Copied(Len(todo))
  /\ ckpt.phase = "epoch" =>
       Injective(ckpt.doing) /\ Elements(ckpt.doing) = DoingShards

CkptShards == Elements(ckpt.todo) \cup Elements(ckpt.doing)

Saved ==
  ckpt.phase = "ready" =>
    /\ Injective(ckpt.todo) /\ Injective(ckpt.doing)
    /\ Elements(ckpt.todo) \cap Elements(ckpt.doing) = {}
    /\ CkptShards \cap (ckpt.done \cup ckpt.dropped) = {}
    /\ CkptShards \cup ckpt.done \cup ckpt.dropped = ShardsOf(ckpt.epoch)
    /\ ckpt.done \subseteq done /\ ckpt.dropped \subseteq dropped
    /\ ckpt.epoch <= epoch

LedgerInv == ShardsOnce /\ Apart /\ Restoring /\ Saving /\ Saved

-----------------------------------------------------------------------------
(* Facts about the queues.                                                 *)

LEMMA TodoShardsDef ==
  ASSUME NEW s
  PROVE  s \in TodoShards <=> \E k \in DOMAIN todo : todo[k].shard = s
BY DEF TodoShards, Elements

LEMMA TypeFacts ==
  ASSUME TypeInv
  PROVE  /\ todo \in Seq(Tasks) /\ Len(todo) \in Nat /\ DOMAIN todo = 1 .. Len(todo)
         /\ rst \in Seq(AllShards) /\ epoch \in 0 .. NumEpochs
         /\ NumShards \in Nat \ {0} /\ NumEpochs \in Nat \ {0}
         /\ DoingShards \subseteq AllShards /\ TodoShards \subseteq AllShards
<1>1. /\ todo \in Seq(Tasks) /\ doing \subseteq DoingTasks
      /\ rst \in Seq(AllShards) /\ epoch \in 0 .. NumEpochs
  BY DEF TypeInv, TypeOK
<1>2. DoingShards \subseteq AllShards
  BY <1>1 DEF DoingShards, DoingTasks
<1>3. \A k \in DOMAIN todo : todo[k] \in Tasks
  BY <1>1
<1>4. \A t \in Tasks : t.shard \in AllShards
  BY DEF Tasks
<1>5. TodoShards \subseteq AllShards
  BY <1>3, <1>4, TodoShardsDef
<1>6. QED
  BY <1>1, <1>2, <1>5, ShardsAssumption

QueueShards == {Queue[k].shard : k \in DOMAIN Queue}

EpochOfQueue == IF StartsEpoch THEN epoch + 1 ELSE epoch

\* What the next dispatch finds in the queue.
LEMMA QueueFacts ==
  ASSUME TypeInv, ShardsOnce, Apart, rst = <<>>
  PROVE  /\ \A j, k \in DOMAIN Queue : Queue[j].shard = Queue[k].shard => j = k
         /\ QueueShards \cap DoingShards = {}
         /\ QueueShards \cap (done \cup dropped) = {}
         /\ QueueShards \cup DoingShards \cup done \cup dropped
              = ShardsOf(EpochOfQueue)
         /\ ~StartsEpoch => QueueShards = TodoShards
         /\ StartsEpoch => /\ QueueShards = {epoch + 1} \X (1 .. NumShards)
                           /\ TodoShards = {} /\ Queue # <<>>
<1>1. Elements(rst) = {}
  BY DEF Elements
<1>2. epoch \in Nat /\ NumShards \in Nat \ {0}
  BY TypeFacts
<1>3. TodoShards \cup DoingShards \cup done \cup dropped = ShardsOf(epoch)
      /\ TodoShards \cap (done \cup dropped) = {}
      /\ TodoShards \cap DoingShards = {}
  BY <1>1 DEF Apart, Outstanding
<1>4. CASE StartsEpoch
  <2>1. TodoShards = {}
    <3>1. DOMAIN todo = {}
      BY <1>4 DEF StartsEpoch
    <3>2. Elements(todo) = {}
      BY <3>1 DEF Elements
    <3>3. QED
      BY <3>2 DEF TodoShards
  <2>2. Queue = NewTasks /\ EpochOfQueue = epoch + 1
    BY <1>4 DEF Queue, EpochOfQueue
  <2>3. DOMAIN Queue = 1 .. NumShards
        /\ \A k \in 1 .. NumShards : Queue[k].shard = <<epoch + 1, k>>
    BY <2>2 DEF NewTasks
  <2>4. \A j, k \in DOMAIN Queue : Queue[j].shard = Queue[k].shard => j = k
    BY <2>3
  <2>5. QueueShards = {epoch + 1} \X (1 .. NumShards)
    <3>1. QueueShards = {<<epoch + 1, k>> : k \in 1 .. NumShards}
      BY <2>3 DEF QueueShards
    <3>2. {<<epoch + 1, k>> : k \in 1 .. NumShards} = {epoch + 1} \X (1 .. NumShards)
      OBVIOUS
    <3>3. QED
      BY <3>1, <3>2
  <2>6. ({epoch + 1} \X (1 .. NumShards)) \cap ShardsOf(epoch) = {}
    BY <1>2 DEF ShardsOf
  <2>7. ({epoch + 1} \X (1 .. NumShards)) \cup ShardsOf(epoch) = ShardsOf(epoch + 1)
    <3>1. 1 .. epoch + 1 = (1 .. epoch) \cup {epoch + 1}
      BY <1>2
    <3>2. QED
      BY <3>1 DEF ShardsOf
  <2>8. Queue # <<>>
    BY <1>2, <2>3
  <2>9. QED
    BY <1>3, <1>4, <2>1, <2>2, <2>4, <2>5, <2>6, <2>7, <2>8
<1>5. CASE ~StartsEpoch
  <2>1. Queue = todo /\ EpochOfQueue = epoch
    BY <1>5 DEF Queue, EpochOfQueue
  <2>2. QueueShards = TodoShards
    BY <2>1 DEF QueueShards, TodoShards, Elements
  <2>3. QED
    BY <1>3, <1>5, <2>1, <2>2 DEF ShardsOnce
<1>6. QED
  BY <1>4, <1>5

\* The operations that hold the lock find no checkpoint or restore under way.
LEMMA CkptFrame ==
  ASSUME Saving, Saved, UNCHANGED <<ckpt, rst>>,
         ckpt.phase \in {"none", "ready"},
         done \subseteq done', dropped \subseteq dropped', epoch <= epoch',
         epoch \in Nat, epoch' \in Nat, ckpt.epoch \in Nat
  PROVE  Saving' /\ Saved'
BY DEF Saving, Saved, CkptShards

LEMMA FreeFacts ==
  ASSUME LockedReads, Free
  PROVE  rst = <<>> /\ ckpt.phase \in {"none", "ready"} /\ Elements(rst) = {}
BY DEF Free, Elements

-----------------------------------------------------------------------------
(* A dispatch.                                                             *)

\* What every shard's status becomes when one shard moves.
LEMMA StatusMoves ==
  ASSUME NEW s \in AllShards, NEW v,
         \A t \in AllShards :
           ShardStatus'[t] = IF t = s THEN v ELSE ShardStatus[t]
  PROVE  ShardStatus' = [ShardStatus EXCEPT ![s] = v]
<1>1. DOMAIN ShardStatus = AllShards
  BY DEF ShardStatus
<1>2. ShardStatus' = [t \in AllShards |-> ShardStatus'[t]]
  BY DEF ShardStatus
<1>3. [ShardStatus EXCEPT ![s] = v]
        = [t \in AllShards |-> IF t = s THEN v ELSE ShardStatus[t]]
  BY <1>1
<1>4. QED
  BY <1>2, <1>3

LEMMA LedgerFrame ==
  ASSUME LedgerInv, UNCHANGED <<todo, doing, epoch, done, dropped, rst, ckpt>>
  PROVE  LedgerInv' /\ ShardStatus' = ShardStatus
<1>1. UNCHANGED <<TodoShards, DoingShards, Elements(rst), Outstanding, CkptShards>>
  BY DEF TodoShards, DoingShards, Elements, Outstanding, CkptShards
<1>2. ShardStatus' = ShardStatus
  BY <1>1 DEF ShardStatus
<1>3. ShardsOnce' /\ Apart' /\ Restoring'
  BY <1>1 DEF LedgerInv, ShardsOnce, Apart, Restoring
<1>4. Saving'
  BY <1>1 DEF LedgerInv, Saving, Copied
<1>5. Saved'
  BY <1>1 DEF LedgerInv, Saved
<1>6. QED
  BY <1>2, <1>3, <1>4, <1>5 DEF LedgerInv

\* A dispatch, as a change of where the shards are.
LEMMA DispatchMoves ==
  ASSUME TypeInv, ShardsOnce, NEW w \in Workers, Dispatch(w), Queue # <<>>,
         \A j, k \in DOMAIN Queue : Queue[j].shard = Queue[k].shard => j = k,
         QueueShards \cap DoingShards = {}, rst' = rst
  PROVE  \E s \in QueueShards :
           /\ TodoShards' = QueueShards \ {s}
           /\ DoingShards' = DoingShards \cup {s}
           /\ epoch' = EpochOfQueue
           /\ ShardsOnce'
<1> DEFINE h == Head(Queue)
           d == [id |-> h.id, shard |-> h.shard, retry |-> h.retry, node |-> w]
           T == Tail(Queue)
           s == h.shard
<1>1. todo' = T /\ doing' = doing \cup {d} /\ epoch' = EpochOfQueue
  BY DEF Dispatch, EpochOfQueue
<1>2. d.shard = s
  OBVIOUS
<1>3. Queue \in Seq(Tasks)
  BY QueueType
<1>4. /\ 1 \in DOMAIN Queue /\ h = Queue[1] /\ Len(Queue) \in Nat
      /\ DOMAIN Queue = 1 .. Len(Queue)
      /\ DOMAIN T = 1 .. Len(Queue) - 1
      /\ \A k \in DOMAIN T : k + 1 \in DOMAIN Queue /\ T[k] = Queue[k + 1]
  BY <1>3
<1>5. s = Queue[1].shard
  BY <1>4
<1> HIDE DEF h, d, T, s
<1>6. s \in QueueShards
  BY <1>4, <1>5 DEF QueueShards
<1>7. \A j, k \in DOMAIN T : T[j].shard = T[k].shard => j = k
  BY <1>4
<1>8. \A k \in DOMAIN T : T[k].shard # s
  BY <1>4, <1>5
<1>9. TodoShards' = {T[k].shard : k \in DOMAIN T}
  BY <1>1 DEF TodoShards, Elements
<1>10. {T[k].shard : k \in DOMAIN T} = QueueShards \ {s}
  <2>1. ASSUME NEW k \in DOMAIN Queue, Queue[k].shard # s
        PROVE  k - 1 \in DOMAIN T /\ T[k - 1] = Queue[k]
    <3>1. k # 1 /\ k \in Nat /\ k >= 1 /\ k <= Len(Queue)
      BY <1>4, <1>5, <2>1
    <3>2. k - 1 \in DOMAIN T
      BY <1>4, <3>1
    <3>3. T[k - 1] = Queue[(k - 1) + 1]
      BY <1>4, <3>2
    <3>4. QED
      BY <3>1, <3>2, <3>3
  <2>2. QED
    BY <1>4, <1>8, <2>1 DEF QueueShards
<1>11. DoingShards' = DoingShards \cup {s}
  BY <1>1, <1>2 DEF DoingShards
<1>12. ShardsOnce'
  <2>1. \A e \in doing : e.shard # s
    BY <1>6 DEF DoingShards
  <2>2. \A e, f \in doing' : e.shard = f.shard => e = f
    BY <1>1, <1>2, <2>1 DEF ShardsOnce
  <2>3. QED
    BY <1>1, <1>7, <2>2 DEF ShardsOnce, Injective
<1>13. QED
  BY <1>1, <1>6, <1>9, <1>10, <1>11, <1>12

LEMMA DispatchLedger ==
  ASSUME LockedReads, TypeInv, LedgerInv, NEW w \in Workers, Dispatch(w),
         UNCHANGED <<done, dropped, rst, ckpt>>
  PROVE  LedgerInv' /\ [Ledger!Next]_ShardStatus
<1>1. Free /\ ShardsOnce /\ Apart /\ Restoring /\ Saving /\ Saved
  BY DEF Dispatch, LedgerInv
<1>2. rst = <<>> /\ ckpt.phase \in {"none", "ready"} /\ Elements(rst) = {}
      /\ Elements(rst)' = {}
  BY <1>1, FreeFacts DEF Elements
<1>3. /\ \A j, k \in DOMAIN Queue : Queue[j].shard = Queue[k].shard => j = k
      /\ QueueShards \cap DoingShards = {}
      /\ QueueShards \cap (done \cup dropped) = {}
      /\ QueueShards \cup DoingShards \cup done \cup dropped
           = ShardsOf(EpochOfQueue)
      /\ ~StartsEpoch => QueueShards = TodoShards
      /\ StartsEpoch => /\ QueueShards = {epoch + 1} \X (1 .. NumShards)
                        /\ TodoShards = {} /\ Queue # <<>>
  BY <1>1, <1>2, QueueFacts
<1>4. CASE Queue = <<>>
  <2>1. UNCHANGED <<todo, doing, epoch>>
    BY <1>3, <1>4 DEF Dispatch
  <2>2. QED
    BY <2>1, LedgerFrame
<1>5. CASE Queue # <<>>
  <2>1. PICK s \in QueueShards :
          /\ TodoShards' = QueueShards \ {s}
          /\ DoingShards' = DoingShards \cup {s}
          /\ epoch' = EpochOfQueue
          /\ ShardsOnce'
    BY <1>1, <1>3, <1>5, DispatchMoves
  <2>2. Apart'
    BY <1>1, <1>2, <1>3, <2>1 DEF Apart, Outstanding
  <2>3. /\ epoch \in Nat /\ epoch' \in Nat /\ epoch <= epoch'
        /\ epoch' \in 0 .. NumEpochs /\ ckpt.epoch \in Nat
    BY <2>1, TypeFacts, QueueType DEF EpochOfQueue, TypeInv, TypeOK, Checkpoints
  <2>4. Saving' /\ Saved' /\ Restoring'
    BY <1>1, <1>2, <2>3, CkptFrame DEF Restoring
  <2>5. ShardsOf(EpochOfQueue) \subseteq AllShards
    BY <2>1, <2>3, ShardsAssumption DEF ShardsOf, AllShards
  <2>6. s \in AllShards
    BY <1>3, <2>5
  <2>7. CASE ~StartsEpoch
    <3>1. \A t \in AllShards :
            ShardStatus'[t] = IF t = s THEN "doing" ELSE ShardStatus[t]
      BY <1>2, <1>3, <2>1, <2>7 DEF ShardStatus
    <3>2. ShardStatus[s] = "todo"
      BY <1>3, <2>1, <2>6, <2>7 DEF ShardStatus
    <3>3. ShardStatus' = [ShardStatus EXCEPT ![s] = "doing"]
      BY <2>6, <3>1, StatusMoves
    <3>4. Ledger!Next
      BY <2>6, <3>2, <3>3 DEF Ledger!Next, Ledger!Dispatch, Ledger!Shards, AllShards
    <3>5. QED
      BY <2>1, <2>2, <2>4, <3>4 DEF LedgerInv
  <2>8. CASE StartsEpoch
    <3>1. s[1] = epoch + 1 /\ \A t \in AllShards : t \in QueueShards <=> t[1] = s[1]
      BY <1>3, <2>1, <2>8, ShardsAssumption DEF AllShards
    <3>2. DoingShards \cup done \cup dropped = ShardsOf(epoch)
      BY <1>1, <1>2, <1>3, <2>8 DEF Apart, Outstanding
    <3>3. \A t \in AllShards : t \in ShardsOf(epoch) <=> ~(t[1] >= s[1])
      BY <2>3, <3>1, ShardsAssumption DEF ShardsOf, AllShards
    <3>4. \A t \in AllShards : ShardStatus[t] # "todo"
      BY <1>2, <1>3, <2>8 DEF ShardStatus
    <3>5. \A t \in AllShards : ShardStatus[t] = "new" <=> t[1] >= s[1]
      BY <1>2, <1>3, <2>8, <3>2, <3>3 DEF ShardStatus
    <3>6. ShardStatus' = [t \in AllShards |->
            IF t = s THEN "doing" ELSE IF t[1] = s[1] THEN "todo" ELSE ShardStatus[t]]
      <4>1. \A t \in AllShards : ShardStatus'[t] =
              IF t = s THEN "doing" ELSE IF t[1] = s[1] THEN "todo" ELSE ShardStatus[t]
        BY <1>2, <1>3, <2>1, <2>8, <3>1 DEF ShardStatus
      <4>2. ShardStatus' = [t \in AllShards |-> ShardStatus'[t]]
        BY DEF ShardStatus
      <4>3. QED
        BY <4>1, <4>2
    <3>7. ShardStatus[s] = "new"
      BY <2>3, <2>6, <3>1, <3>5
    <3>8. Ledger!Next
      BY <2>6, <3>4, <3>5, <3>6, <3>7
      DEF Ledger!Next, Ledger!Dispatch, Ledger!Started, Ledger!Shards, AllShards
    <3>9. QED
      BY <2>1, <2>2, <2>4, <3>8 DEF LedgerInv
  <2>9. QED
    BY <2>7, <2>8
<1>6. QED
  BY <1>4, <1>5

-----------------------------------------------------------------------------
(* A report.                                                               *)

\* One shard leaves the dispatched ones for the queue, or for good.
LEMMA ReportMoves ==
  ASSUME TypeInv, IdsUnique, ShardsOnce, TodoShards \cap DoingShards = {},
         NEW id, NEW success \in BOOLEAN, ReportTaskStatus(id, success),
         NEW d \in doing, d.id = id, rst' = rst
  PROVE  /\ d.shard \in DoingShards
         /\ DoingShards' = DoingShards \ {d.shard}
         /\ ShardsOnce'
         /\ \/ /\ TodoShards' = TodoShards \cup {d.shard}
               /\ done' = done /\ dropped' = dropped
            \/ /\ TodoShards' = TodoShards
               /\ done' = done \cup {d.shard} /\ dropped' = dropped
            \/ /\ TodoShards' = TodoShards
               /\ done' = done /\ dropped' = dropped \cup {d.shard}
<1> DEFINE known == {e \in doing : e.id = id}
           s == d.shard
           t == [id |-> d.id, shard |-> s, retry |-> d.retry + 1]
<1>1. known = {d}
  BY DEF IdsUnique
<1>2. /\ doing' = doing \ {d}
      /\ success => done' = done \cup {s} /\ todo' = todo /\ dropped' = dropped
      /\ ~success => done' = done /\ RecoverTask(d)
  BY <1>1 DEF ReportTaskStatus
<1>3. ~success => \/ todo' = todo /\ dropped' = dropped \cup {s}
                  \/ todo' = Append(todo, t) /\ dropped' = dropped
  BY <1>2 DEF RecoverTask
<1>4. t.shard = s
  OBVIOUS
<1>5. s \in DoingShards
  BY DEF DoingShards
<1> HIDE DEF t
<1>6. DoingShards' = DoingShards \ {s}
  BY <1>2 DEF DoingShards, ShardsOnce
<1>7. \A e, f \in doing' : e.shard = f.shard => e = f
  BY <1>2 DEF ShardsOnce
<1>8. CASE /\ todo' = todo
           /\ \/ done' = done \cup {s} /\ dropped' = dropped
              \/ done' = done /\ dropped' = dropped \cup {s}
  <2>1. TodoShards' = TodoShards
    BY <1>8 DEF TodoShards, Elements
  <2>2. ShardsOnce'
    BY <1>7, <1>8 DEF ShardsOnce, Injective
  <2>3. QED
    BY <1>5, <1>6, <1>8, <2>1, <2>2
<1>9. CASE ~success /\ todo' = Append(todo, t) /\ dropped' = dropped
  <2>1. /\ Len(todo) \in Nat /\ DOMAIN todo = 1 .. Len(todo)
        /\ DOMAIN todo' = 1 .. Len(todo) + 1
        /\ \A k \in DOMAIN todo : todo'[k] = todo[k]
        /\ todo'[Len(todo) + 1] = t
    <3>1. todo \in Seq(Tasks)
      BY TypeFacts
    <3>2. QED
      BY <1>9, <3>1, AppendFacts
  <2>2. \A k \in DOMAIN todo' : k \in DOMAIN todo \/ k = Len(todo) + 1
    BY <2>1
  <2>3. Len(todo) + 1 \in DOMAIN todo' /\ \A k \in DOMAIN todo : k \in DOMAIN todo'
    BY <2>1
  <2>4. TodoShards' = TodoShards \cup {s}
    BY <1>4, <2>1, <2>2, <2>3 DEF TodoShards, Elements
  <2>5. \A k \in DOMAIN todo : todo[k].shard # s
    BY <1>5 DEF TodoShards, Elements
  <2>6. \A j, k \in DOMAIN todo' : todo'[j].shard = todo'[k].shard => j = k
    BY <1>4, <2>1, <2>2, <2>5 DEF ShardsOnce
  <2>7. ShardsOnce'
    BY <1>7, <2>6 DEF ShardsOnce, Injective
  <2>8. QED
    BY <1>2, <1>5, <1>6, <1>9, <2>4, <2>7
<1>10. QED
  BY <1>2, <1>3, <1>8, <1>9

LEMMA ReportLedger ==
  ASSUME LockedReads, Free, TypeInv, IdsUnique, LedgerInv,
         NEW id, NEW success \in BOOLEAN, ReportTaskStatus(id, success),
         UNCHANGED <<epoch, rst, ckpt>>
  PROVE  LedgerInv' /\ [Ledger!Next]_ShardStatus
<1>1. ShardsOnce /\ Apart /\ Restoring /\ Saving /\ Saved
  BY DEF LedgerInv
<1>2. rst = <<>> /\ ckpt.phase \in {"none", "ready"} /\ Elements(rst) = {}
      /\ Elements(rst)' = {}
  BY FreeFacts DEF Elements
<1>3. CASE ~\E d \in doing : d.id = id
  <2>1. {d \in doing : d.id = id} = {}
    BY <1>3
  <2>2. UNCHANGED <<todo, doing, done, dropped>>
    BY <2>1 DEF ReportTaskStatus
  <2>3. QED
    BY <2>2, LedgerFrame
<1>4. ASSUME NEW d \in doing, d.id = id
      PROVE  LedgerInv' /\ [Ledger!Next]_ShardStatus
  <2> DEFINE s == d.shard
  <2>1. /\ s \in DoingShards
        /\ DoingShards' = DoingShards \ {s}
        /\ ShardsOnce'
        /\ \/ /\ TodoShards' = TodoShards \cup {s}
              /\ done' = done /\ dropped' = dropped
           \/ /\ TodoShards' = TodoShards
              /\ done' = done \cup {s} /\ dropped' = dropped
           \/ /\ TodoShards' = TodoShards
              /\ done' = done /\ dropped' = dropped \cup {s}
    BY <1>1, <1>4, ReportMoves DEF Apart
  <2>2. s \in AllShards
    BY <2>1, TypeFacts
  <2> HIDE DEF s
  <2>3. Apart'
    BY <1>1, <1>2, <2>1 DEF Apart, Outstanding
  <2>4. epoch \in Nat /\ ckpt.epoch \in Nat
    BY TypeFacts DEF TypeInv, TypeOK, Checkpoints
  <2>5. Saving' /\ Saved' /\ Restoring'
    BY <1>1, <1>2, <2>1, <2>4, CkptFrame DEF Restoring
  <2>6. ASSUME NEW v \in {"todo", "done", "dropped"},
               \A t \in AllShards :
                 ShardStatus'[t] = IF t = s THEN v ELSE ShardStatus[t]
        PROVE  Ledger!Next
    <3>1. ShardStatus' = [ShardStatus EXCEPT ![s] = v]
      BY <2>2, <2>6, StatusMoves
    <3>2. ShardStatus[s] = "doing"
      BY <1>1, <2>1, <2>2 DEF ShardStatus, Apart, Outstanding
    <3>3. QED
      BY <2>2, <3>1, <3>2 DEF Ledger!Next, Ledger!Resolve, Ledger!Shards, AllShards
  <2>7. s \notin done /\ s \notin dropped /\ s \notin TodoShards
    BY <1>1, <2>1 DEF Apart, Outstanding
  <2>8. CASE TodoShards' = TodoShards \cup {s} /\ done' = done /\ dropped' = dropped
    <3>1. \A t \in AllShards :
            ShardStatus'[t] = IF t = s THEN "todo" ELSE ShardStatus[t]
      BY <1>2, <2>1, <2>7, <2>8 DEF ShardStatus
    <3>2. QED
      BY <2>1, <2>3, <2>5, <2>6, <3>1 DEF LedgerInv
  <2>9. CASE TodoShards' = TodoShards /\ done' = done \cup {s} /\ dropped' = dropped
    <3>1. \A t \in AllShards :
            ShardStatus'[t] = IF t = s THEN "done" ELSE ShardStatus[t]
      BY <1>2, <2>1, <2>7, <2>9 DEF ShardStatus
    <3>2. QED
      BY <2>1, <2>3, <2>5, <2>6, <3>1 DEF LedgerInv
  <2>10. CASE TodoShards' = TodoShards /\ done' = done /\ dropped' = dropped \cup {s}
    <3>1. \A t \in AllShards :
            ShardStatus'[t] = IF t = s THEN "dropped" ELSE ShardStatus[t]
      BY <1>2, <2>1, <2>7, <2>10 DEF ShardStatus
    <3>2. QED
      BY <2>1, <2>3, <2>5, <2>6, <3>1 DEF LedgerInv
  <2>11. QED
    BY <2>1, <2>8, <2>9, <2>10
<1>5. QED
  BY <1>3, <1>4

-----------------------------------------------------------------------------
(* A checkpoint.                                                           *)

LEMMA CheckpointFrame ==
  ASSUME LedgerInv, UNCHANGED <<todo, doing, epoch, done, dropped, rst>>,
         rst = <<>>, Saving', Saved'
  PROVE  LedgerInv' /\ ShardStatus' = ShardStatus
<1>1. UNCHANGED <<TodoShards, DoingShards, Elements(rst), Outstanding>>
  BY DEF TodoShards, DoingShards, Elements, Outstanding
<1>2. ShardStatus' = ShardStatus
  BY <1>1 DEF ShardStatus
<1>3. ShardsOnce' /\ Apart' /\ Restoring'
  BY <1>1 DEF LedgerInv, ShardsOnce, Apart, Restoring
<1>4. QED
  BY <1>2, <1>3 DEF LedgerInv

LEMMA CheckpointLedger ==
  ASSUME TypeInv, LedgerInv,
         CheckpointBegin \/ CheckpointTodo \/ CheckpointDoing \/ CheckpointEpoch
  PROVE  LedgerInv' /\ ShardStatus' = ShardStatus
<1>1. UNCHANGED <<todo, doing, epoch, done, dropped, rst>>
  BY Zenon DEF CheckpointBegin, CheckpointTodo, CheckpointDoing,
               CheckpointEpoch, taskVars, ledgerVars
<1>2. ckpt \in Checkpoints
  BY DEF TypeInv, TypeOK
<1>3. ckpt = [phase |-> ckpt.phase, idx |-> ckpt.idx, todo |-> ckpt.todo,
              doing |-> ckpt.doing, epoch |-> ckpt.epoch, done |-> ckpt.done,
              dropped |-> ckpt.dropped]
      /\ ckpt.idx \in Nat \ {0} /\ ckpt.todo \in Seq(AllShards)
      /\ ckpt.doing \in Seq(AllShards)
  BY <1>2 DEF Checkpoints
<1>4. ckpt.phase # "none" => rst = <<>>
  BY DEF LedgerInv, Restoring
<1>5. /\ todo \in Seq(Tasks) /\ Len(todo) \in Nat /\ DOMAIN todo = 1 .. Len(todo)
  BY TypeFacts
<1>6. CASE CheckpointBegin
  <2>1. ckpt'.phase = "todo" /\ ckpt'.idx = 1 /\ ckpt'.todo = <<>> /\ rst = <<>>
    BY <1>6 DEF CheckpointBegin, NoCheckpoint
  <2>2. Saving'
    BY <1>1, <1>5, <2>1 DEF Saving, Copied
  <2>3. Saved'
    BY <2>1 DEF Saved
  <2>4. QED
    BY <1>1, <2>1, <2>2, <2>3, CheckpointFrame
<1>7. CASE CheckpointTodo /\ ckpt.idx <= Len(todo)
  <2> DEFINE s == todo[ckpt.idx].shard
             q == Append(ckpt.todo, s)
  <2>1. ckpt.phase = "todo" /\ ckpt' = [ckpt EXCEPT !.todo = q, !.idx = ckpt.idx + 1]
    BY <1>7 DEF CheckpointTodo
  <2>2. /\ Len(ckpt.todo) = ckpt.idx - 1
        /\ \A k \in 1 .. ckpt.idx - 1 : ckpt.todo[k] = todo[k].shard
    BY <2>1 DEF LedgerInv, Saving, Copied
  <2>3. Len(q) = ckpt.idx /\ \A k \in 1 .. ckpt.idx : q[k] = todo[k].shard
    <3> HIDE DEF s
    <3>1. /\ q[Len(ckpt.todo) + 1] = s
          /\ \A k \in 1 .. Len(ckpt.todo) : q[k] = ckpt.todo[k]
          /\ Len(q) = Len(ckpt.todo) + 1
      BY <1>3
    <3>2. Len(q) = ckpt.idx /\ q[ckpt.idx] = s
          /\ \A k \in 1 .. ckpt.idx - 1 : q[k] = todo[k].shard
      BY <1>3, <2>2, <3>1
    <3> HIDE DEF q
    <3>3. \A k \in 1 .. ckpt.idx : k \in 1 .. ckpt.idx - 1 \/ k = ckpt.idx
      BY <1>3
    <3>4. QED
      BY <3>2, <3>3 DEF s
  <2> HIDE DEF s, q
  <2>4. ckpt'.phase = "todo" /\ ckpt'.idx = ckpt.idx + 1 /\ ckpt'.todo = q
    BY <1>3, <2>1
  <2>5. Saving'
    BY <1>1, <1>3, <1>5, <1>7, <2>3, <2>4 DEF Saving, Copied
  <2>6. Saved'
    BY <2>4 DEF Saved
  <2>7. QED
    BY <1>1, <1>4, <2>1, <2>5, <2>6, CheckpointFrame
<1>8. CASE CheckpointTodo /\ ~(ckpt.idx <= Len(todo))
  <2>1. ckpt.phase = "todo" /\ ckpt' = [ckpt EXCEPT !.phase = "doing"]
    BY <1>8 DEF CheckpointTodo
  <2>2. ckpt.idx <= Len(todo) + 1 /\ Copied(ckpt.idx - 1)
    BY <2>1 DEF LedgerInv, Saving
  <2>3. ckpt.idx - 1 = Len(todo)
    BY <1>3, <1>5, <1>8, <2>2
  <2>4. ckpt'.phase = "doing" /\ ckpt'.todo = ckpt.todo
    BY <1>3, <2>1
  <2>5. Saving'
    BY <1>1, <2>2, <2>3, <2>4 DEF Saving, Copied
  <2>6. Saved'
    BY <2>4 DEF Saved
  <2>7. QED
    BY <1>1, <1>4, <2>1, <2>5, <2>6, CheckpointFrame
<1>9. CASE CheckpointDoing
  <2>1. PICK q \in [1 .. Cardinality(doing) -> doing] :
          /\ \A d \in doing : \E k \in DOMAIN q : q[k] = d
          /\ ckpt' = [ckpt EXCEPT !.phase = "epoch",
                                  !.doing = [k \in DOMAIN q |-> q[k].shard]]
    BY Zenon, <1>9 DEF CheckpointDoing
  <2> DEFINE p == [k \in DOMAIN q |-> q[k].shard]
             n == Cardinality(doing)
  <2>2. IsFiniteSet(doing) /\ n \in Nat
    BY FS_CardinalityType DEF TypeInv, Holds
  <2>3. \A j, k \in DOMAIN q : q[j] = q[k] => j = k
    <3>1. IsFiniteSet(1 .. n) /\ Cardinality(1 .. n) = n
      BY <2>2, FS_Interval
    <3>2. q \in Surjection(1 .. n, doing)
      BY <2>1 DEF Surjection
    <3>3. q \in Injection(1 .. n, doing)
      BY <2>2, <3>1, <3>2, FS_SurjSameCardinalityImpliesInj
    <3>4. QED
      BY <3>3 DEF Injection, IsInjective
  <2>4. Injective(p)
    BY <2>3 DEF Injective, LedgerInv, ShardsOnce
  <2>5. Elements(p) = DoingShards
    BY <2>1 DEF Elements, DoingShards
  <2>6. ckpt.phase = "doing" /\ Copied(Len(todo))
    BY <1>9 DEF CheckpointDoing, LedgerInv, Saving
  <2>7. ckpt' = [ckpt EXCEPT !.phase = "epoch", !.doing = p]
    BY <2>1
  <2> HIDE DEF p
  <2>8. ckpt'.phase = "epoch" /\ ckpt'.todo = ckpt.todo /\ ckpt'.doing = p
    BY <1>3, <2>7
  <2>9. DoingShards' = DoingShards
    BY <1>1 DEF DoingShards
  <2>10. Saving'
    BY <1>1, <2>4, <2>5, <2>6, <2>8, <2>9 DEF Saving, Copied, Injective, Elements
  <2>11. Saved'
    BY <2>8 DEF Saved
  <2>12. QED
    BY <1>1, <1>4, <2>6, <2>10, <2>11, CheckpointFrame
<1>10. CASE CheckpointEpoch
  <2>1. /\ ckpt.phase = "epoch"
        /\ ckpt' = [ckpt EXCEPT !.phase = "ready", !.epoch = epoch, !.done = done,
                                !.dropped = dropped]
    BY <1>10 DEF CheckpointEpoch
  <2>2. /\ ckpt'.phase = "ready" /\ ckpt'.epoch = epoch /\ ckpt'.done = done
        /\ ckpt'.dropped = dropped /\ ckpt'.todo = ckpt.todo /\ ckpt'.doing = ckpt.doing
    BY <1>3, <2>1
  <2>3. /\ Len(ckpt.todo) = Len(todo)
        /\ \A k \in 1 .. Len(todo) : ckpt.todo[k] = todo[k].shard
        /\ Injective(ckpt.doing) /\ Elements(ckpt.doing) = DoingShards
    BY <2>1 DEF LedgerInv, Saving, Copied
  <2>4. DOMAIN ckpt.todo = DOMAIN todo
    BY <1>3, <1>5, <2>3
  <2>5. Elements(ckpt.todo) = TodoShards /\ Injective(ckpt.todo)
    BY <1>5, <2>3, <2>4 DEF Elements, TodoShards, Injective, LedgerInv, ShardsOnce
  <2>6. Elements(rst) = {}
    BY <1>4, <2>1 DEF Elements
  <2>7. Saving'
    BY <2>2 DEF Saving
  <2>8. /\ TodoShards \cap DoingShards = {}
        /\ (TodoShards \cup DoingShards) \cap (done \cup dropped) = {}
        /\ TodoShards \cup DoingShards \cup done \cup dropped = ShardsOf(epoch)
    BY <2>6 DEF LedgerInv, Apart, Outstanding
  <2>9. epoch <= epoch
    BY DEF TypeInv, TypeOK
  <2>10. Elements(ckpt.todo)' = TodoShards /\ Elements(ckpt.doing)' = DoingShards
         /\ Injective(ckpt.todo)' /\ Injective(ckpt.doing)'
    BY <2>2, <2>3, <2>5 DEF Elements, Injective
  <2>11. Saved'
    BY <1>1, <2>2, <2>8, <2>9, <2>10 DEF Saved, CkptShards, ShardsOf
  <2>12. QED
    BY <1>1, <1>4, <2>1, <2>7, <2>11, CheckpointFrame
<1>11. QED
  BY <1>6, <1>7, <1>8, <1>9, <1>10

-----------------------------------------------------------------------------
(* A restore.                                                              *)

LEMMA ConcatFacts ==
  ASSUME NEW S, NEW p \in Seq(S), NEW q \in Seq(S), Injective(p), Injective(q),
         Elements(p) \cap Elements(q) = {}
  PROVE  Elements(p \o q) = Elements(p) \cup Elements(q) /\ Injective(p \o q)
<1> DEFINE c == p \o q
<1>1. /\ Len(p) \in Nat /\ Len(q) \in Nat
      /\ DOMAIN p = 1 .. Len(p) /\ DOMAIN q = 1 .. Len(q)
      /\ DOMAIN c = 1 .. Len(p) + Len(q)
      /\ \A k \in DOMAIN p : c[k] = p[k]
      /\ \A k \in DOMAIN q : c[Len(p) + k] = q[k]
  OBVIOUS
<1> HIDE DEF c
<1>2. \A k \in DOMAIN c :
        k \in DOMAIN p \/ (k - Len(p) \in DOMAIN q /\ k = Len(p) + (k - Len(p)))
  BY <1>1
<1>3. /\ \A k \in DOMAIN p : k \in DOMAIN c /\ c[k] = p[k]
      /\ \A k \in DOMAIN q : Len(p) + k \in DOMAIN c /\ c[Len(p) + k] = q[k]
  BY <1>1
<1>4. Elements(c) = Elements(p) \cup Elements(q)
  BY <1>2, <1>3 DEF Elements
<1>5. ASSUME NEW j \in DOMAIN c, NEW k \in DOMAIN c, c[j] = c[k] PROVE j = k
  <2>1. \A i \in DOMAIN p, l \in DOMAIN q : p[i] # q[l]
    BY DEF Elements
  <2>2. CASE j \in DOMAIN p /\ k \in DOMAIN p
    BY <1>1, <1>5, <2>2 DEF Injective
  <2>3. CASE j - Len(p) \in DOMAIN q /\ k - Len(p) \in DOMAIN q
    <3>1. c[j] = q[j - Len(p)] /\ c[k] = q[k - Len(p)] /\ j \in Int /\ k \in Int
      BY <1>1, <2>3
    <3>2. j - Len(p) = k - Len(p)
      BY <1>5, <2>3, <3>1 DEF Injective
    <3>3. QED
      BY <1>1, <3>1, <3>2
  <2>4. ASSUME NEW i \in DOMAIN c, NEW l \in DOMAIN c,
               i \in DOMAIN p, l - Len(p) \in DOMAIN q
        PROVE  c[i] # c[l]
    <3>1. c[i] = p[i] /\ c[l] = q[l - Len(p)]
      BY <1>1, <2>4
    <3>2. QED
      BY <2>1, <2>4, <3>1
  <2>5. QED
    BY <1>2, <1>5, <2>2, <2>3, <2>4
<1>6. QED
  BY <1>4, <1>5 DEF c, Injective

LEMMA RestoreBeginLedger ==
  ASSUME TypeInv, LedgerInv, RestoreBegin
  PROVE  LedgerInv' /\ Ledger!Next
<1> DEFINE R == Elements(ckpt.doing) \cup Elements(ckpt.todo)
<1>1. /\ ckpt.phase = "ready" /\ todo' = <<>> /\ doing' = {}
      /\ epoch' = ckpt.epoch /\ rst' = ckpt.doing \o ckpt.todo
      /\ done' = ckpt.done /\ dropped' = ckpt.dropped /\ ckpt' = NoCheckpoint
  BY DEF RestoreBegin
<1>2. /\ Injective(ckpt.todo) /\ Injective(ckpt.doing)
      /\ Elements(ckpt.todo) \cap Elements(ckpt.doing) = {}
      /\ R \cap (ckpt.done \cup ckpt.dropped) = {}
      /\ R \cup ckpt.done \cup ckpt.dropped = ShardsOf(ckpt.epoch)
      /\ ckpt.done \subseteq done /\ ckpt.dropped \subseteq dropped
      /\ ckpt.epoch <= epoch
  BY <1>1 DEF LedgerInv, Saved, CkptShards
<1>3. /\ ckpt.doing \in Seq(AllShards) /\ ckpt.todo \in Seq(AllShards)
      /\ ckpt.epoch \in Nat /\ epoch \in 0 .. NumEpochs
  BY DEF TypeInv, TypeOK, Checkpoints
<1>4. Elements(rst)' = R /\ Injective(rst)'
  <2> DEFINE p == ckpt.doing
             q == ckpt.todo
  <2>1. /\ p \in Seq(AllShards) /\ q \in Seq(AllShards)
        /\ Injective(p) /\ Injective(q) /\ Elements(p) \cap Elements(q) = {}
    BY <1>2, <1>3
  <2> HIDE DEF p, q
  <2>2. Elements(p \o q) = Elements(p) \cup Elements(q) /\ Injective(p \o q)
    BY <2>1, ConcatFacts
  <2>3. QED
    BY <1>1, <2>2 DEF p, q, Elements, Injective
<1> HIDE DEF R
<1>5. TodoShards' = {} /\ DoingShards' = {} /\ DOMAIN todo' = {}
  BY <1>1 DEF TodoShards, DoingShards, Elements
<1>6. ShardsOnce'
  BY <1>1, <1>4, <1>5 DEF ShardsOnce
<1>7. done \cap dropped = {} /\ Outstanding \cup done \cup dropped = ShardsOf(epoch)
  BY DEF LedgerInv, Apart
<1>8. Apart'
  BY <1>1, <1>2, <1>4, <1>5, <1>7 DEF Apart, Outstanding, ShardsOf
<1>9. ckpt'.phase = "none"
  BY <1>1 DEF NoCheckpoint
<1>10. Restoring' /\ Saving' /\ Saved'
  BY <1>9 DEF Restoring, Saving, Saved
<1>11. ShardsOf(ckpt.epoch) \subseteq ShardsOf(epoch)
  BY <1>2, <1>3 DEF ShardsOf
<1>12. ShardStatus' \in [AllShards -> {"new", "todo", "done", "dropped"}]
  BY <1>5 DEF ShardStatus
<1>13. ASSUME NEW s \in AllShards
       PROVE  /\ ShardStatus'[s] \in {"done", "dropped"} =>
                   ShardStatus'[s] = ShardStatus[s]
              /\ ShardStatus[s] = "new" => ShardStatus'[s] = "new"
  <2>1. ShardStatus'[s] = IF s \in ckpt.done THEN "done"
                          ELSE IF s \in ckpt.dropped THEN "dropped"
                          ELSE IF s \in R THEN "todo" ELSE "new"
    BY <1>1, <1>4, <1>5 DEF ShardStatus
  <2>2. s \in done => ShardStatus[s] = "done"
    BY DEF ShardStatus
  <2>3. s \in dropped => ShardStatus[s] = "dropped"
    BY <1>7 DEF ShardStatus
  <2>4. ShardStatus[s] = "new" => s \notin ShardsOf(epoch)
    BY <1>7 DEF ShardStatus, Outstanding
  <2>5. QED
    BY <1>2, <1>11, <2>1, <2>2, <2>3, <2>4
<1>14. Ledger!Restore
  BY <1>12, <1>13 DEF Ledger!Restore, Ledger!Shards, AllShards
<1>15. QED
  BY <1>6, <1>8, <1>10, <1>14 DEF LedgerInv, Ledger!Next

LEMMA RestoreAppendLedger ==
  ASSUME TypeInv, LedgerInv, RestoreAppend
  PROVE  LedgerInv' /\ ShardStatus' = ShardStatus
<1> DEFINE h == Head(rst)
           t == [id |-> nextId, shard |-> h, retry |-> 0]
           T == Tail(rst)
<1>1. /\ rst # <<>> /\ todo' = Append(todo, t) /\ rst' = T
      /\ UNCHANGED <<doing, epoch, done, dropped, ckpt>>
  BY DEF RestoreAppend, ledgerVars
<1>2. t.shard = h
  OBVIOUS
<1>3. rst \in Seq(AllShards) /\ todo \in Seq(Tasks)
  BY TypeFacts
<1>4. /\ 1 \in DOMAIN rst /\ h = rst[1] /\ Len(rst) \in Nat
      /\ DOMAIN rst = 1 .. Len(rst) /\ DOMAIN T = 1 .. Len(rst) - 1
      /\ \A k \in DOMAIN T : k + 1 \in DOMAIN rst /\ T[k] = rst[k + 1]
  BY <1>1, <1>3
<1> HIDE DEF h, t, T
<1>5. /\ Len(todo) \in Nat /\ DOMAIN todo = 1 .. Len(todo)
      /\ DOMAIN todo' = 1 .. Len(todo) + 1
      /\ \A k \in DOMAIN todo : todo'[k] = todo[k]
      /\ todo'[Len(todo) + 1] = t
  BY <1>1, <1>3, AppendFacts
<1>6. \A j, k \in DOMAIN rst : rst[j] = rst[k] => j = k
  BY DEF LedgerInv, ShardsOnce, Injective
<1>7. h \in Elements(rst) /\ \A k \in DOMAIN T : T[k] # h
  BY <1>4, <1>6 DEF Elements
<1>8. Elements(rst)' = Elements(rst) \ {h}
  <2>1. ASSUME NEW k \in DOMAIN rst, rst[k] # h
        PROVE  k - 1 \in DOMAIN T /\ T[k - 1] = rst[k]
    <3>1. k # 1 /\ k \in Nat /\ k >= 1 /\ k <= Len(rst)
      BY <1>4, <2>1
    <3>2. k - 1 \in DOMAIN T
      BY <1>4, <3>1
    <3>3. T[k - 1] = rst[(k - 1) + 1]
      BY <1>4, <3>2
    <3>4. QED
      BY <3>1, <3>2, <3>3
  <2>2. Elements(T) = Elements(rst) \ {h}
    BY <1>4, <1>7, <2>1 DEF Elements
  <2>3. QED
    BY <1>1, <2>2 DEF Elements
<1>9. Injective(rst)'
  BY <1>1, <1>4, <1>6 DEF Injective
<1>10. \A k \in DOMAIN todo' : k \in DOMAIN todo \/ k = Len(todo) + 1
  BY <1>5
<1>11. Len(todo) + 1 \in DOMAIN todo' /\ \A k \in DOMAIN todo : k \in DOMAIN todo'
  BY <1>5
<1>12. TodoShards' = TodoShards \cup {h}
  BY <1>2, <1>5, <1>10, <1>11 DEF TodoShards, Elements
<1>13. DoingShards' = DoingShards
  BY <1>1 DEF DoingShards
<1>14. Apart
  BY DEF LedgerInv
<1>15. \A k \in DOMAIN todo : todo[k].shard # h
  BY <1>7, <1>14 DEF Apart, TodoShards, Elements
<1>16. ShardsOnce'
  <2>1. \A j, k \in DOMAIN todo' : todo'[j].shard = todo'[k].shard => j = k
    BY <1>2, <1>5, <1>10, <1>15 DEF LedgerInv, ShardsOnce
  <2>2. QED
    BY <1>1, <1>9, <2>1 DEF LedgerInv, ShardsOnce
<1>17. Apart'
  BY <1>1, <1>7, <1>8, <1>12, <1>13, <1>14 DEF Apart, Outstanding, ShardsOf
<1>18. ckpt.phase = "none"
  BY <1>1 DEF LedgerInv, Restoring
<1>19. Restoring' /\ Saving' /\ Saved'
  BY <1>1, <1>18 DEF Restoring, Saving, Saved
<1>20. \A s \in AllShards : ShardStatus'[s] = ShardStatus[s]
  BY <1>1, <1>7, <1>8, <1>12, <1>13, <1>14 DEF ShardStatus, Apart, Outstanding
<1>21. ShardStatus' = ShardStatus
  <2>1. /\ ShardStatus = [s \in AllShards |-> ShardStatus[s]]
        /\ ShardStatus' = [s \in AllShards |-> ShardStatus'[s]]
    BY DEF ShardStatus
  <2>2. QED
    BY <1>20, <2>1
<1>22. QED
  BY <1>16, <1>17, <1>19, <1>21 DEF LedgerInv

-----------------------------------------------------------------------------
(* All steps.                                                              *)

LEMMA LedgerInvNext ==
  ASSUME LockedReads, ReportInv, LedgerInv, [Next]_vars
  PROVE  LedgerInv' /\ [Ledger!Next]_ShardStatus
<1>1. TypeInv /\ IdsUnique
  BY DEF ReportInv, IdInv
<1>2. ASSUME NEW w \in Workers, GetTask(w) \/ GetTaskReplyLost(w) \/ LateGetTask(w)
      PROVE  LedgerInv' /\ [Ledger!Next]_ShardStatus
  <2>1. Dispatch(w) /\ UNCHANGED <<done, dropped, rst, ckpt>>
    BY <1>2 DEF GetTask, GetTaskReplyLost, LateGetTask, ledgerVars, ckptVars
  <2>2. QED
    BY <1>1, <2>1, DispatchLedger
<1>3. ASSUME NEW w \in Workers, ReportTask(w) \/ ReportReplyLost(w) \/ LateReport(w)
      PROVE  LedgerInv' /\ [Ledger!Next]_ShardStatus
  <2>1. /\ Free /\ UNCHANGED <<epoch, rst, ckpt>>
        /\ \E success \in BOOLEAN : ReportTaskStatus(wtask[w].id, success)
    BY Zenon, <1>3 DEF ReportTask, ReportReplyLost, LateReport, ckptVars
  <2>2. QED
    BY <1>1, <2>1, ReportLedger
<1>4. ASSUME NEW id \in recovering, RecoverReport(id)
      PROVE  LedgerInv' /\ [Ledger!Next]_ShardStatus
  <2>1. /\ Free /\ UNCHANGED <<epoch, rst, ckpt>>
        /\ \E success \in BOOLEAN : ReportTaskStatus(id, success)
    BY Zenon, <1>4 DEF RecoverReport, ckptVars
  <2>2. QED
    BY <1>1, <2>1, ReportLedger
<1>5. ASSUME NEW d \in doing, ReassignTimeoutTask(d)
      PROVE  LedgerInv' /\ [Ledger!Next]_ShardStatus
  <2>1. /\ Free /\ UNCHANGED <<epoch, rst, ckpt>>
        /\ \E success \in BOOLEAN : ReportTaskStatus(d.id, success)
    BY Zenon, <1>5 DEF ReassignTimeoutTask, ckptVars
  <2>2. QED
    BY <1>1, <2>1, ReportLedger
<1>6. CASE CheckpointStep
  BY <1>1, <1>6, CheckpointLedger, RestoreBeginLedger, RestoreAppendLedger
  DEF CheckpointStep
<1>7. CASE \/ \E w \in Workers : \/ FinishTask(w) \/ FailTask(w)
                                 \/ Launch(w) \/ Crash(w) \/ RecoverScan(w)
           \/ RecoverCollect \/ RecoverRaises \/ UNCHANGED vars
  <2>1. UNCHANGED <<todo, doing, epoch, done, dropped, rst, ckpt>>
    BY Zenon, <1>7 DEF FinishTask, FailTask, Launch, Crash, RecoverScan,
       RecoverCollect, RecoverRaises, vars, taskVars, ledgerVars, ckptVars
  <2>2. QED
    BY <2>1, LedgerFrame
<1>8. QED
  BY <1>2, <1>3, <1>4, <1>5, <1>6, <1>7 DEF Next, WorkerStep, MasterStep

LEMMA LedgerInvInit == Init => LedgerInv /\ Ledger!Init
<1> SUFFICES ASSUME Init PROVE LedgerInv /\ Ledger!Init
  OBVIOUS
<1>1. /\ DOMAIN todo = {} /\ DOMAIN rst = {} /\ doing = {} /\ done = {}
      /\ dropped = {} /\ epoch = 0 /\ rst = <<>> /\ ckpt.phase = "none"
  BY DEF Init, NoCheckpoint
<1>2. TodoShards = {} /\ DoingShards = {} /\ Elements(rst) = {}
  BY <1>1 DEF TodoShards, DoingShards, Elements
<1>3. ShardsOf(epoch) = {}
  BY <1>1 DEF ShardsOf
<1>4. LedgerInv
  BY <1>1, <1>2, <1>3 DEF LedgerInv, ShardsOnce, Apart, Restoring, Saving,
                          Saved, Injective, Outstanding
<1>5. Ledger!Init
  BY <1>1, <1>2 DEF Ledger!Init, Ledger!Shards, ShardStatus, AllShards
<1>6. QED
  BY <1>4, <1>5

LEMMA LedgerInvMeans ==
  ASSUME LockedReads, TypeInv, LedgerInv
  PROVE  Conserved /\ CompletedMeansAllDone /\ CheckpointComplete
<1>1. Conserved
  BY DEF LedgerInv, Apart, Conserved, CreatedShards, ShardsOf
<1>2. CheckpointComplete
  BY DEF LedgerInv, Saved, CkptShards, CheckpointComplete, ShardsOf
<1>3. ASSUME Free, Completed PROVE AllShards \subseteq done \cup dropped
  <2>1. Elements(rst) = {}
    BY <1>3, FreeFacts
  <2>2. epoch = NumEpochs /\ DOMAIN todo = {} /\ doing = {}
    BY <1>3, TypeFacts DEF Completed, EpochFinished
  <2>3. TodoShards = {} /\ DoingShards = {}
    BY <2>2 DEF TodoShards, DoingShards, Elements
  <2>4. QED
    BY <2>1, <2>2, <2>3 DEF LedgerInv, Apart, Outstanding, AllShards, ShardsOf
<1>4. QED
  BY <1>1, <1>2, <1>3 DEF CompletedMeansAllDone

LEMMA LedgerInvariant ==
  ASSUME LockedReads
  PROVE  Spec => [](ReportInv /\ LedgerInv)
<1>1. ReportInv /\ LedgerInv /\ [Next]_vars => LedgerInv'
  BY LedgerInvNext
<1>2. QED
  BY <1>1, LedgerInvInit, ReportInvInit, ReportInvNext, PTL DEF Spec

\* Under the lock no shard of a started epoch disappears: it is to do, with a
\* worker, done or given up, whatever crashes, lost replies, late reports and
\* restores come in between.
THEOREM NoShardLost ==
  ASSUME LockedReads
  PROVE  Spec => []Conserved
<1>1. ReportInv /\ LedgerInv => Conserved
  BY LedgerInvMeans DEF ReportInv
<1>2. QED
  BY <1>1, LedgerInvariant, PTL

\* Under the lock completed() is right when it says that all tasks are done.
THEOREM CompletionSound ==
  ASSUME LockedReads
  PROVE  Spec => []CompletedMeansAllDone
<1>1. ReportInv /\ LedgerInv => CompletedMeansAllDone
  BY LedgerInvMeans DEF ReportInv
<1>2. QED
  BY <1>1, LedgerInvariant, PTL

\* Under the lock a checkpoint of the dataset leaves out only shards that were
\* done or given up when it was taken.
THEOREM CheckpointKeepsAll ==
  ASSUME LockedReads
  PROVE  Spec => []CheckpointComplete
<1>1. ReportInv /\ LedgerInv => CheckpointComplete
  BY LedgerInvMeans DEF ReportInv
<1>2. QED
  BY <1>1, LedgerInvariant, PTL

\* Under the lock the dataset manager implements ShardLedger: a shard is with
\* one worker at a time, an epoch starts only when the queue is empty, and a
\* shard that is done comes back only by a restore.
THEOREM LedgerRefined ==
  ASSUME LockedReads
  PROVE  Spec => ImplementsLedger
<1>1. ReportInv /\ LedgerInv /\ [Next]_vars => LedgerInv' /\ [Ledger!Next]_ShardStatus
  BY LedgerInvNext
<1>2. Init => ReportInv /\ LedgerInv /\ Ledger!Init
  BY LedgerInvInit, ReportInvInit
<1>3. QED
  BY <1>1, <1>2, ReportInvNext, PTL DEF Spec, ImplementsLedger, Ledger!Spec
=============================================================================
