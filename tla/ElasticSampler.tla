--------------------------- MODULE ElasticSampler ----------------------------
(***************************************************************************)
(* ElasticDistributedSampler in the training loop that uses it: the ranks  *)
(* of a world draw their indices of an epoch batch by batch, the loop      *)
(* checkpoints its step and the state of the sampler, and after a crash a  *)
(* world of any size restores both.  The shuffle of an epoch depends on    *)
(* the seed and the epoch alone, so samples are named by their position    *)
(* in it.                                                                  *)
(***************************************************************************)
EXTENDS Integers, Sequences, FiniteSets, FiniteSetsExt

CONSTANTS
  SampleCounts,  \* the values of len(dataset)
  BatchSizes,    \* the values of the micro batch size
  Worlds,        \* the values of num_replicas
  EpochCount,    \* num_epochs of the loop
  MaxCrashes     \* bound on the crashes

ASSUME SamplerAssumption ==
  /\ SampleCounts \subseteq Nat \ {0} /\ BatchSizes \subseteq Nat \ {0}
  /\ Worlds \subseteq Nat \ {0} /\ EpochCount \in Nat \ {0}
  /\ MaxCrashes \in Nat

VARIABLES
  data,     \* the dataset and its loader
  world,    \* num_replicas
  restored, \* _epoch_checkpoint
  epoch,    \* the epoch of the sampler
  pos,      \* the batches drawn in this iteration of the sampler
  step,     \* train_step
  line,     \* what the model was trained on before this iteration
  saved,    \* the last checkpoint
  crashes

samplerVars == <<data, world, restored, epoch, pos, step, line, saved, crashes>>

Nothing == [epoch |-> -1, completed |-> 0]
Samples == 0 .. data.n - 1
CeilDivide(a, b) == (a + b - 1) \div b

\* (mutant) load_state_dict keeps the num_samples of the whole dataset.
NumSamplesOfDataset(left) ==
  IF data.drop /\ data.n % world # 0 THEN CeilDivide(data.n - world, world)
                                     ELSE CeilDivide(data.n, world)

\* num_samples for the samples left: _init_num_samples and load_state_dict.
NumSamplesOf(left) ==
  IF data.drop /\ left % world # 0 THEN CeilDivide(left - world, world)
                                   ELSE CeilDivide(left, world)
Completed == IF restored.epoch = epoch THEN restored.completed ELSE 0
NumSamples == NumSamplesOf(data.n - Completed)

\* total_size as the constructor of DistributedSampler sets it (external).
TotalSize == NumSamplesOf(data.n) * world

\* __iter__: the uncompleted indices, repeated from the front up to a multiple
\* of the world or cut to one; a rank takes every num_replicas-th of them.
IndexAt(i) ==
  IF data.drop THEN Completed + i ELSE Completed + (i % (data.n - Completed))
RankPositions(rank) ==
  {i \in 0 .. NumSamples * world - 1 : i < TotalSize /\ i % world = rank}

\* The positions of the batches that all ranks have drawn.
DrawnPositions ==
  {i \in UNION {RankPositions(r) : r \in 0 .. world - 1} :
     i \div world < pos * data.bs}
Drawn(s) == Cardinality({i \in DrawnPositions : IndexAt(i) = s})

Trained(s) == line.seen[s] + Drawn(s)

SamplerInit ==
  /\ data \in [n : SampleCounts, bs : BatchSizes, drop : BOOLEAN]
  /\ world \in Worlds
  /\ restored = Nothing /\ saved = Nothing
  /\ epoch = 0 /\ pos = 0 /\ step = 0 /\ crashes = 0
  /\ line = [seen |-> [s \in Samples |-> 0], worlds |-> {}, looped |-> FALSE]

IterationDone == pos * data.bs >= NumSamples

TrainStep ==
  /\ ~IterationDone
  /\ pos' = pos + 1 /\ step' = step + 1
  /\ UNCHANGED <<data, world, restored, epoch, line, saved, crashes>>

NextEpoch ==
  /\ IterationDone /\ epoch + 1 < EpochCount
  /\ epoch' = epoch + 1 /\ pos' = 0
  /\ line' = [line EXCEPT !.seen = [s \in Samples |-> 0],
                          !.worlds = @ \cup {world}]
  /\ UNCHANGED <<data, world, restored, step, saved, crashes>>

\* (mutant) Only the samples of one rank are counted.
CompletedNumOfRank == step * data.bs

\* state_dict(train_step, batch_size) and the step, after a training step.
CompletedNum == step * data.bs * world
SaveSampler ==
  /\ pos > 0
  /\ saved' = [epoch |-> epoch, completed |-> CompletedNum, step |-> step,
               line |-> [seen |-> [s \in Samples |-> Trained(s)],
                         worlds |-> line.worlds \cup {world},
                         looped |-> line.looped]]
  /\ UNCHANGED <<data, world, restored, epoch, pos, step, line, crashes>>

\* load_state_dict: the steps of earlier epochs are counted in completed_num.
Rewound(completed) ==
  IF completed > data.n THEN completed % data.n ELSE completed

\* The processes die and a world of w ranks restores what was saved.
CrashAndResume(w) ==
  /\ crashes < MaxCrashes
  /\ crashes' = crashes + 1
  /\ world' = w /\ pos' = 0
  /\ IF saved = Nothing
     THEN /\ epoch' = 0 /\ step' = 0 /\ restored' = Nothing
          /\ line' = [seen |-> [s \in Samples |-> 0], worlds |-> {},
                      looped |-> FALSE]
     ELSE /\ epoch' = saved.epoch /\ step' = saved.step
          /\ restored' = [epoch |-> saved.epoch,
                          completed |-> Rewound(saved.completed)]
          /\ line' = [saved.line EXCEPT
                        !.looped = @ \/ (saved.completed > data.n
                                         /\ saved.completed % data.n = 0)]
  /\ UNCHANGED <<data, saved>>

SamplerNext ==
  \/ TrainStep \/ NextEpoch \/ SaveSampler
  \/ \E w \in Worlds : CrashAndResume(w)

-----------------------------------------------------------------------------

\* One iteration of the samplers of a world, whatever its size, deals out the
\* samples that the checkpoint left: none of the completed ones, and each of
\* the others once, but for the padding or the cut, which is less than a world
\* (ElasticDistributedSampler.__iter__).
IterationDealsTheRest ==
  IterationDone =>
    /\ \A s \in Samples : s < Completed => Drawn(s) = 0
    /\ LET left == Completed .. data.n - 1
           dealt == MapThenSumSet(Drawn, left)
       IN  /\ data.drop  => \A s \in left : Drawn(s) <= 1
           /\ ~data.drop => \A s \in left : Drawn(s) >= 1
           /\ dealt - Cardinality(left) \in 1 - world .. world - 1

\* A job that crashes and resumes without a change of its world trains each
\* sample exactly once in an epoch, when the dataset is a whole number of
\* global batches: the checkpointed position is the one where the lost
\* iteration stopped.  (Left out: a lineage that resumed from the last step of
\* a later epoch, whose completed_num load_state_dict reduces to 0.)
ResumesWhereItStopped ==
  LET aligned == data.n % (data.bs * world) = 0
      sameWorld == line.worlds \subseteq {world}
  IN  IterationDone /\ aligned /\ sameWorld /\ ~line.looped
        => \A s \in Samples : Trained(s) = 1
=============================================================================
