--------------------------- MODULE ShardingClient ----------------------------
(***************************************************************************)
(* ShardingClient and IndexShardingClient of one trainer: a thread fetches *)
(* tasks and queues their samples, the training loop takes the samples in  *)
(* their order, and report_batch_done finds out from the number of records *)
(* of each batch which of the pending tasks are finished.  The reader of   *)
(* the TensorFlow trainer is such a thread, too, with the samples that its *)
(* generator has still to yield.  The master is a queue of tasks.          *)
(***************************************************************************)
EXTENDS Integers, Sequences, SequencesExt, FiniteSets

CONSTANTS
  ShardLists,     \* the sequences of shard sizes that a trainer may be given
  BatchRecords,   \* the values of batch_size
  MaxCallFaults   \* bound on the reports that fail

ASSUME ShardingClientAssumption ==
  /\ \A s \in ShardLists : \A i \in DOMAIN s : s[i] \in Nat \ {0}
  /\ BatchRecords \subseteq Nat \ {0} /\ MaxCallFaults \in Nat

VARIABLES
  job,        \* the shard sizes by task id, and batch_size
  todo,       \* the ids that the master has not dispatched
  fetched,    \* the answer to get_task that is not pending yet
  pending,    \* the ids in _pending_tasks, oldest first
  counts,     \* _reported_record_count
  samples,    \* _sample_queue: the task id of each sample
  drained,    \* the thread has queued None and ended
  batch,      \* the samples of the batch that is being trained
  loop,       \* where the training loop is
  trained,    \* how many samples of each task have been trained
  finished,   \* the ids that were reported as done
  callFaults  \* the reports that failed

clientVars == <<job, todo, fetched, pending, counts, samples, drained, batch,
                loop, trained, finished, callFaults>>

TaskIds == DOMAIN job.sizes
NoTask == 0

ClientInit ==
  /\ job \in [sizes : ShardLists, batch : BatchRecords]
  /\ todo = [i \in TaskIds |-> i]
  /\ fetched = NoTask
  /\ pending = <<>> /\ samples = <<>> /\ batch = <<>>
  /\ counts = [i \in TaskIds |-> 0]
  /\ trained = [i \in TaskIds |-> 0]
  /\ finished = {}
  /\ drained = FALSE /\ loop = "train" /\ callFaults = 0

-----------------------------------------------------------------------------
(* The thread of IndexShardingClient, _prefetch_sample_indices.            *)

\* get_task asks the master when the queue is empty.  Without a task the
\* thread queues None for the readers and ends.
FetchTask ==
  /\ samples = <<>> /\ fetched = NoTask /\ ~drained
  /\ IF todo = <<>>
     THEN drained' = TRUE /\ UNCHANGED <<todo, fetched>>
     ELSE fetched' = Head(todo) /\ todo' = Tail(todo) /\ UNCHANGED drained
  /\ UNCHANGED <<job, pending, counts, samples, batch, loop, trained, finished,
                 callFaults>>

\* The rest of get_task: the task is pending before its samples are queued.
QueueSamples ==
  /\ fetched # NoTask
  /\ pending' = Append(pending, fetched)
  /\ samples' = samples \o [i \in 1 .. job.sizes[fetched] |-> fetched]
  /\ fetched' = NoTask
  /\ UNCHANGED <<job, todo, counts, drained, batch, loop, trained, finished,
                 callFaults>>

-----------------------------------------------------------------------------
(* The training loop.                                                      *)

\* fetch_sample_index
FetchSample ==
  /\ loop = "train" /\ samples # <<>> /\ Len(batch) < job.batch
  /\ batch' = Append(batch, Head(samples))
  /\ samples' = Tail(samples)
  /\ UNCHANGED <<job, todo, fetched, pending, counts, drained, loop, trained,
                 finished, callFaults>>

\* A batch is trained when it is full, or short after the last sample.
TrainBatch ==
  /\ loop = "train" /\ batch # <<>>
  /\ Len(batch) = job.batch \/ (drained /\ samples = <<>>)
  /\ trained' = [i \in TaskIds |->
       trained[i] + Cardinality({k \in DOMAIN batch : batch[k] = i})]
  /\ batch' = <<>>
  /\ loop' = "report"
  /\ UNCHANGED <<job, todo, fetched, pending, counts, samples, drained,
                 finished, callFaults>>

\* (mutant) What a task leaves of the batch is not counted for the next one.
CountedWithoutRest ==
  FoldLeft(
    LAMBDA s, id :
      IF s.left = 0 THEN s
      ELSE IF s.counts[id] + s.left >= job.sizes[id]
      THEN [left |-> 0, counts |-> [s.counts EXCEPT ![id] = 0],
            done |-> Append(s.done, id)]
      ELSE [s EXCEPT !.left = 0, !.counts[id] = @ + s.left],
    [left |-> job.batch, counts |-> counts, done |-> <<>>],
    pending)

\* (mutant) The records that a task takes are counted for the next one, too.
CountedTwice ==
  FoldLeft(
    LAMBDA s, id :
      IF s.counts[id] + s.left >= job.sizes[id]
      THEN [left |-> s.counts[id] + s.left - job.sizes[id],
            counts |-> [s.counts EXCEPT ![id] = 0],
            done |-> Append(s.done, id)]
      ELSE [s EXCEPT !.counts[id] = @ + s.left],
    [left |-> job.batch, counts |-> counts, done |-> <<>>],
    pending)

\* The loop over the pending tasks in report_batch_done: left is what remains
\* of record_count, done the tasks to report in their order.
Counted ==
  FoldLeft(
    LAMBDA s, id :
      IF s.left = 0 THEN s
      ELSE IF s.counts[id] + s.left >= job.sizes[id]
      THEN [left |-> s.counts[id] + s.left - job.sizes[id],
            counts |-> [s.counts EXCEPT ![id] = 0],
            done |-> Append(s.done, id)]
      ELSE [s EXCEPT !.left = 0, !.counts[id] = @ + s.left],
    [left |-> job.batch, counts |-> counts, done |-> <<>>],
    pending)

Without(ids) == SelectSeq(pending, LAMBDA id : id \notin ToSet(ids))

\* report_batch_done, as the hooks call it: with batch_size, also after a
\* short batch.
ReportBatchDone ==
  /\ loop = "report"
  /\ counts' = Counted.counts
  /\ finished' = finished \cup ToSet(Counted.done)
  /\ pending' = Without(Counted.done)
  /\ loop' = "train"
  /\ UNCHANGED <<job, todo, fetched, samples, drained, batch, trained,
                 callFaults>>

\* The report of the k-th finished task fails: the exception leaves the loop,
\* what is left of the record count is lost, and the hook only logs it.
ReportFails ==
  /\ loop = "report"
  /\ callFaults < MaxCallFaults /\ callFaults' = callFaults + 1
  /\ \E k \in DOMAIN Counted.done :
       LET sent == SubSeq(Counted.done, 1, k - 1)
       IN  /\ counts' = [id \in TaskIds |->
                           IF id \in ToSet(sent) THEN 0 ELSE counts[id]]
           /\ finished' = finished \cup ToSet(sent)
           /\ pending' = Without(sent)
  /\ loop' = "train"
  /\ UNCHANGED <<job, todo, fetched, samples, drained, batch, trained>>

ClientNext ==
  FetchTask \/ QueueSamples \/ FetchSample \/ TrainBatch \/ ReportBatchDone
    \/ ReportFails

ClientSpec == ClientInit /\ [][ClientNext]_clientVars

-----------------------------------------------------------------------------
(* Properties.                                                             *)

\* A task is reported as done only when all its samples have been trained,
\* although the client only counts records: batches cross the boundaries of
\* tasks, several tasks are pending, the last batch may be shorter than what
\* is reported for it, and a report may fail.
ReportedTasksTrained ==
  \A id \in finished : trained[id] = job.sizes[id]

\* When the training loop has run out of samples, every task that the client
\* fetched has been reported, unless a report failed: a task that stays
\* pending is never done for the master.
NoTaskLeftPending ==
  drained /\ samples = <<>> /\ batch = <<>> /\ loop = "train"
    => pending = <<>> \/ callFaults > 0
=============================================================================
