---------------------------- MODULE MCComponents ----------------------------
(***************************************************************************)
(* Four parts of the system that do not interact, each checked alone: the  *)
(* pre-check, the dataset splitters, the sharding client and the sampler   *)
(* of a trainer.  A behaviour is one of the part it starts with; the       *)
(* others rest.                                                            *)
(***************************************************************************)
EXTENDS PreCheck, DatasetSplitter, ShardingClient, ElasticSampler

VARIABLE part

Op(k, b) == [kind |-> k, bypass |-> b]
MCOpLists ==
  {<<>>,
   <<Op("scheduling", FALSE), Op("connection", FALSE)>>,
   <<Op("scheduling", TRUE), Op("connection", FALSE)>>,
   <<Op("scheduling", FALSE), Op("connection", TRUE)>>}

\* One to three shards of one to four records.
MCShardLists == UNION {[1 .. n -> 1 .. 4] : n \in 1 .. 3}

\* The master has exited, so nothing that PreFairness asks for can happen.
PreCheckRests ==
  /\ ops = <<>> /\ status = "DISABLED" /\ main = "exited" /\ cur = 1
  /\ retry = 0 /\ torn = FALSE /\ queue = <<>> /\ stopped = TRUE
  /\ node = [id \in PreIds |-> NoNode]
  /\ agent = [id \in PreIds |-> "none"]
  /\ outcome = NoOutcome /\ ended = "no" /\ preFaults = 0

\* The other parts rest before their first step: nothing is fair about them.
SplitterRests ==
  /\ split = [kind |-> "table", size |-> 1, shard |-> 1, limit |-> 1,
              passes |-> 1, shuffle |-> FALSE]
  /\ created = 0 /\ shards = <<>> /\ handed = [r \in {0} |-> 0]

ClientRests ==
  /\ job = [sizes |-> <<1>>, batch |-> 1] /\ todo = <<1>> /\ fetched = NoTask
  /\ pending = <<>> /\ samples = <<>> /\ batch = <<>>
  /\ counts = <<0>> /\ trained = <<0>> /\ finished = {}
  /\ drained = FALSE /\ loop = "train" /\ callFaults = 0

SamplerRests ==
  /\ data = [n |-> 1, bs |-> 1, drop |-> FALSE] /\ world = 1
  /\ restored = Nothing /\ saved = Nothing
  /\ epoch = 0 /\ pos = 0 /\ step = 0 /\ crashes = 0
  /\ line = [seen |-> [s \in Samples |-> 0], worlds |-> {}, looped |-> FALSE]

MCInit ==
  \/ /\ part = "pre-check" /\ PreInit
     /\ SplitterRests /\ ClientRests /\ SamplerRests
  \/ /\ part = "splitter" /\ SplitterInit
     /\ PreCheckRests /\ ClientRests /\ SamplerRests
  \/ /\ part = "client" /\ ClientInit
     /\ PreCheckRests /\ SplitterRests /\ SamplerRests
  \/ /\ part = "sampler" /\ SamplerInit
     /\ PreCheckRests /\ SplitterRests /\ ClientRests

MCNext ==
  \/ /\ part = "pre-check" /\ PreNext
     /\ UNCHANGED <<part, splitterVars, clientVars, samplerVars>>
  \/ /\ part = "splitter" /\ SplitterNext
     /\ UNCHANGED <<part, preVars, clientVars, samplerVars>>
  \/ /\ part = "client" /\ ClientNext
     /\ UNCHANGED <<part, preVars, splitterVars, samplerVars>>
  \/ /\ part = "sampler" /\ SamplerNext
     /\ UNCHANGED <<part, preVars, splitterVars, clientVars>>

mcVars == <<part, preVars, splitterVars, clientVars, samplerVars>>

MCSpec == MCInit /\ [][MCNext]_mcVars /\ PreFairness
=============================================================================
