---------------------------- MODULE ShardLedger -----------------------------
(***************************************************************************)
(* What dynamic data sharding promises about each shard of a dataset,      *)
(* without queues, ids, workers or messages: a shard is started with its   *)
(* epoch, dispatched one at a time, and from then on comes back, is done   *)
(* or is given up.  Done is final, unless the dataset is restored.         *)
(***************************************************************************)
EXTENDS Integers

CONSTANTS NumShards, NumEpochs

VARIABLE status   \* of every shard <<epoch, index>>

Shards == (1 .. NumEpochs) \X (1 .. NumShards)

Init == status = [s \in Shards |-> "new"]

\* The shards of the next epoch are created when none is left to dispatch.
Started(e) ==
  /\ \A s \in Shards : status[s] # "todo"
  /\ \A s \in Shards : status[s] = "new" <=> s[1] >= e

Dispatch(s) ==
  \/ /\ status[s] = "todo"
     /\ status' = [status EXCEPT ![s] = "doing"]
  \/ /\ Started(s[1])
     /\ status[s] = "new"
     /\ status' = [t \in Shards |-> IF t = s THEN "doing"
                                    ELSE IF t[1] = s[1] THEN "todo"
                                    ELSE status[t]]

Resolve(s) ==
  /\ status[s] = "doing"
  /\ \E r \in {"todo", "done", "dropped"} :
       status' = [status EXCEPT ![s] = r]

\* A restore forgets progress, never invents it: what is done or dropped
\* after it was so before, and nothing is dispatched.
Restore ==
  /\ status' \in [Shards -> {"new", "todo", "done", "dropped"}]
  /\ \A s \in Shards :
       /\ status'[s] \in {"done", "dropped"} => status'[s] = status[s]
       /\ status[s] = "new" => status'[s] = "new"

Next == (\E s \in Shards : Dispatch(s) \/ Resolve(s)) \/ Restore

Spec == Init /\ [][Next]_status
=============================================================================
