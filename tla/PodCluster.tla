----------------------------- MODULE PodCluster -----------------------------
(***************************************************************************)
(* What the job master sees of its Kubernetes cluster: the pods, the queue *)
(* of pods to create (PodScaler), and the stream of pod events that the    *)
(* watcher reads (PodWatcher).  A node id names one pod.                   *)
(***************************************************************************)
EXTENDS NodeFlow, FiniteSets, SequencesExt

CONSTANTS
  N,     \* the number of workers of the job
  MaxId  \* bound on the node ids

ASSUME PodClusterAssumption == N \in Nat \ {0} /\ MaxId \in Nat /\ MaxId >= N

VARIABLES
  pods,      \* the pod of each id
  createQ,   \* _create_node_queue: what is to be created
  watching,  \* the watcher has an open stream
  stream     \* the pod events it has not read

clusterVars == <<pods, createQ, watching, stream>>

Ids == 0 .. MaxId
NodeRanks == 0 .. N - 1

NoPod == [phase |-> "None"]

\* A pod with the labels that the scaler gives it.  The agent in it is up, it
\* hangs, or it is done: it has reported that training succeeded.
Pod(launch) ==
  [phase |-> "Pending", deleting |-> FALSE, reason |-> "", agent |-> "up",
   rank |-> launch.rank, rcount |-> launch.rcount]

Exists(id) == pods[id] # NoPod
Listed == {id \in Ids : Exists(id)}
Alive(id) ==
  /\ Exists(id)
  /\ pods[id].phase \in {"Pending", "Running"}
  /\ ~pods[id].deleting

\* _convert_pod_yaml_to_node: a pod with a deletion timestamp is "Deleted"
\* whatever its phase, and only a terminal status has an exit reason.
PodStatus(pod) == IF pod.deleting THEN "Deleted" ELSE pod.phase
PodReason(pod) ==
  IF PodStatus(pod) \in ExitedStatus \cup {"Deleted"} THEN pod.reason ELSE ""

\* A node event made from a pod: a Node object built from the pod has the
\* default is_released.
PodEvent(type, id, pod) ==
  [type |-> type, id |-> id, rank |-> pod.rank, status |-> PodStatus(pod),
   reason |-> PodReason(pod), rcount |-> pod.rcount, released |-> FALSE]

Ascending(S) ==
  SelectSeq([i \in 1 .. MaxId + 1 |-> i - 1], LAMBDA id : id \in S)

Seen(events) == IF watching THEN stream \o events ELSE stream

\* The API server stores a new version of the pod and tells the watcher.
Change(id, pod) ==
  /\ pods' = [pods EXCEPT ![id] = pod]
  /\ stream' = Seen(<<PodEvent("MODIFIED", id, pod)>>)
  /\ UNCHANGED watching

-----------------------------------------------------------------------------
(* Kubernetes, as the code uses it (external).                             *)

PodStarts(id) ==
  /\ Alive(id) /\ pods[id].phase = "Pending"
  /\ Change(id, [pods[id] EXCEPT !.phase = "Running"])
  /\ UNCHANGED createQ

\* The container terminates.
PodFails(id, reason) ==
  /\ Alive(id) /\ pods[id].phase = "Running"
  /\ Change(id, [pods[id] EXCEPT !.phase = "Failed", !.reason = reason])
  /\ UNCHANGED createQ

PodSucceeds(id) ==
  /\ Alive(id) /\ pods[id].phase = "Running" /\ pods[id].agent = "done"
  /\ Change(id, [pods[id] EXCEPT !.phase = "Succeeded", !.reason = "Succeeded"])
  /\ UNCHANGED createQ

\* The host evicts the pod, or a user deletes it.
PodEvicted(id) ==
  /\ Alive(id)
  /\ Change(id, [pods[id] EXCEPT !.deleting = TRUE])
  /\ UNCHANGED createQ

\* The agent in the pod hangs.
PodHangs(id) ==
  /\ Alive(id) /\ pods[id].phase = "Running" /\ pods[id].agent = "up"
  /\ pods' = [pods EXCEPT ![id].agent = "hung"]
  /\ UNCHANGED <<createQ, watching, stream>>

\* A pod marked for deletion is gone, its container killed if it still ran.
PodGone(id) ==
  /\ Exists(id) /\ pods[id].deleting
  /\ pods' = [pods EXCEPT ![id] = NoPod]
  /\ LET reason == IF pods[id].reason = "" THEN "Killed" ELSE pods[id].reason
     IN  stream' = Seen(<<PodEvent("DELETED", id,
                                   [pods[id] EXCEPT !.reason = reason])>>)
  /\ UNCHANGED <<createQ, watching>>

-----------------------------------------------------------------------------
(* PodScaler.                                                              *)

\* k8sClient.delete_pod of the pods D: each gets a deletion timestamp.
DeletePods(D) ==
  LET hit == {id \in D : Exists(id) /\ ~pods[id].deleting}
      order == Ascending(hit)
      gone(id) == [pods[id] EXCEPT !.deleting = TRUE]
  IN  /\ pods' = [id \in Ids |-> IF id \in hit THEN gone(id) ELSE pods[id]]
      /\ stream' = Seen([i \in 1 .. Len(order) |->
                           PodEvent("MODIFIED", order[i], gone(order[i]))])
      /\ UNCHANGED watching

\* _create_pod_from_queue for the first of the queue.  A name that exists is
\* refused by the API server and the node goes back to the head of the queue.
CreatePod ==
  /\ createQ # <<>> /\ ~Exists(Head(createQ).id)
  /\ LET id == Head(createQ).id
         pod == Pod(Head(createQ))
     IN  /\ pods' = [pods EXCEPT ![id] = pod]
         /\ stream' = Seen(<<PodEvent("ADDED", id, pod)>>)
  /\ createQ' = Tail(createQ)
  /\ UNCHANGED watching

\* _create_service_for_pod fails: the pod just created is deleted and its
\* node goes back to the head of the queue.
ServiceFails ==
  /\ createQ # <<>> /\ ~Exists(Head(createQ).id)
  /\ LET id == Head(createQ).id
         pod == Pod(Head(createQ))
         gone == [pod EXCEPT !.deleting = TRUE]
     IN  /\ pods' = [pods EXCEPT ![id] = gone]
         /\ stream' = Seen(<<PodEvent("ADDED", id, pod),
                             PodEvent("MODIFIED", id, gone)>>)
  /\ UNCHANGED <<createQ, watching>>

\* _scale_up_pods of scale(): the pods missing to count get the ids after the
\* highest one in the cluster, and the ranks after the number of normal pods.
ScaleUp(count) ==
  LET normal == {id \in Listed :
                   pods[id].phase \in {"Pending", "Running", "Succeeded"}}
      first == IF Listed = {} THEN 0 ELSE Max(Listed) + 1
      missing == IF count > Cardinality(normal)
                 THEN count - Cardinality(normal) ELSE 0
  IN  [i \in 1 .. missing |->
         [id |-> first + i - 1, rank |-> Cardinality(normal) + i - 1,
          rcount |-> 0]]
=============================================================================
