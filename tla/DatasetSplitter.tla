--------------------------- MODULE DatasetSplitter ---------------------------
(***************************************************************************)
(* How the master cuts a dataset into shards: TableDatasetSplitter, which  *)
(* splits the epochs of a huge dataset into subepochs, and                 *)
(* TextDatasetSplitter, whose shards hold record indices.  Each call of    *)
(* create_shards hands out the shards of the next epoch or subepoch; a     *)
(* restarted master makes a new splitter and sets its epoch from the       *)
(* checkpoint of the dataset.                                              *)
(***************************************************************************)
EXTENDS Integers, Sequences, FiniteSets, Functions

CONSTANTS
  DatasetSizes,    \* the values of dataset_size
  ShardSizes,      \* the values of shard_size
  ShardLimits,     \* the values of max_shard_count
  MaxPasses        \* bound on num_epochs

ASSUME SplitterAssumption ==
  /\ DatasetSizes \subseteq Nat \ {0} /\ ShardSizes \subseteq Nat \ {0}
  /\ ShardLimits \subseteq Nat \ {0} /\ MaxPasses \in Nat

VARIABLES
  split,    \* the arguments of the splitter
  created,  \* epoch: the calls of create_shards so far
  shards,   \* _shards
  handed    \* how often each record was handed out

splitterVars == <<split, created, shards, handed>>

CeilDiv(a, b) == (a + b - 1) \div b

Splitters ==
  [kind : {"table", "text"}, size : DatasetSizes, shard : ShardSizes,
   limit : ShardLimits, passes : 0 .. MaxPasses, shuffle : BOOLEAN]

ShardCount == CeilDiv(split.size, split.shard)
Huge == split.kind = "table" /\ ShardCount > split.limit

\* _subepoch_num_per_epoch; a dataset that is not huge has one per epoch.
Subepochs == IF Huge THEN CeilDiv(ShardCount, split.limit) ELSE 1

\* num_epochs <= 0: shards without end.
EpochFinished == split.passes > 0 /\ created >= split.passes * Subepochs

GetEpoch == created \div Subepochs

\* _create_shards_with_range: whole shards and one with the records left.
RangeShardsWhole(first, last) ==
  [i \in 1 .. (last - first) \div split.shard |->
     first + (i - 1) * split.shard .. first + i * split.shard - 1]
RangeShards(first, last) ==
  LET whole == RangeShardsWhole(first, last)
      next == first + Len(whole) * split.shard
      left == (last - next) % split.shard
  IN  IF left = 0 THEN whole ELSE Append(whole, next .. next + left - 1)

\* The range of the subepoch: the last one of an epoch is short.
SubepochShards ==
  LET first == (created % Subepochs) * split.limit * split.shard
      end == first + split.limit * split.shard
  IN  RangeShards(first, IF end > split.size THEN split.size ELSE end)

Orders(n) == Bijection(1 .. n, 1 .. n)

\* random.shuffle of the shards.
Shuffled(s) ==
  IF split.shuffle THEN {[i \in DOMAIN s |-> s[p[i]]] : p \in Orders(Len(s))}
                   ELSE {s}

\* (mutant) The shards of a huge dataset are made once, too.
TableShardsStale ==
  Shuffled(IF shards # <<>> THEN shards
           ELSE IF Huge THEN SubepochShards ELSE RangeShards(0, split.size))

\* TableDatasetSplitter.create_shards: the shards of a dataset that is not
\* huge are made once and shuffled again in every epoch.
TableShards ==
  Shuffled(IF Huge THEN SubepochShards
           ELSE IF shards = <<>> THEN RangeShards(0, split.size) ELSE shards)

\* TextDatasetSplitter.create_shards: shard i takes the next of the record
\* indices, shuffled or not.  A client reads the range of a shard that has no
\* indices, so the two are the same without shuffling.
TextShards ==
  LET place(p) ==
        [i \in 1 .. ShardCount |->
           {p[k + 1] - 1 : k \in {k \in 0 .. split.size - 1 :
                                    k \div split.shard = i - 1}}]
  IN  IF split.shuffle THEN {place(p) : p \in Orders(split.size)}
                       ELSE {RangeShards(0, split.size)}

SplitterInit ==
  /\ split \in Splitters
  /\ created = 0 /\ shards = <<>>
  /\ handed = [r \in 0 .. split.size - 1 |-> 0]

\* get_task finds todo empty and the epochs not finished.
CreateShards ==
  /\ ~EpochFinished /\ created < MaxPasses * Subepochs
  /\ shards' \in (IF split.kind = "table" THEN TableShards ELSE TextShards)
  /\ created' = created + 1
  /\ handed' = [r \in DOMAIN handed |->
                  handed[r] + Cardinality({i \in DOMAIN shards' : r \in shards'[i]})]
  /\ UNCHANGED split

\* A new splitter with the epoch of the checkpoint.
RestoreSplitter ==
  /\ shards # <<>>
  /\ shards' = <<>>
  /\ UNCHANGED <<split, created, handed>>

SplitterNext == CreateShards \/ RestoreSplitter

-----------------------------------------------------------------------------

\* Each epoch hands out every record of the dataset exactly once, whether it is
\* one list of shards or several subepochs, with a short last shard or not,
\* shuffled or not, and with a restart of the master in between: after k whole
\* epochs each record was handed out k times, and within an epoch exactly the
\* records of its past subepochs are one ahead (create_shards, get_epoch).
EveryRecordOncePerEpoch ==
  \A r \in DOMAIN handed :
    handed[r] = GetEpoch
                + (IF r < (created % Subepochs) * split.limit * split.shard
                   THEN 1 ELSE 0)
=============================================================================
