------------------------------ MODULE NodeFlow ------------------------------
(***************************************************************************)
(* The status of a node in the job master, the transitions that a pod      *)
(* event may cause, and which of them ask for a new pod.                   *)
(***************************************************************************)
EXTENDS Integers

\* NodeStatus, without the values no code path of the job manager assigns.
NodeStatuses ==
  {"Initial", "Pending", "Running", "Succeeded", "Failed", "Deleted"}

AliveStatus == {"Initial", "Pending", "Running"}

\* Node.exited
ExitedStatus == {"Failed", "Succeeded"}

\* NodeExitReason; "" is a pod whose container has not terminated.
ExitReasons ==
  {"", "Killed", "OOM", "Fatal", "Unknown", "Hardware", "NoHeartbeat",
   "DiagFail", "Relaunched", "Succeeded"}

\* ALLOWED_TRANSITIONS
Allowed(from) ==
  CASE from = "Initial"   -> NodeStatuses
    [] from = "Pending"   -> NodeStatuses \ {"Initial"}
    [] from = "Running"   -> NodeStatuses \ {"Initial", "Pending"}
    [] from = "Succeeded" -> {"Succeeded", "Deleted"}
    [] from = "Failed"    -> {"Failed", "Deleted"}
    [] from = "Deleted"   -> {"Deleted"}

Updates == {"ADDED", "MODIFIED"}

Flow(from, to, events, phases, relaunch) ==
  [from |-> from, to |-> to, events |-> events, phases |-> phases,
   relaunch |-> relaunch]

\* NODE_STATE_FLOWS.  A flow to "Deleted" has no phase and takes any event
\* of its types, whatever the phase of the pod.
NodeStateFlows ==
  {Flow("Initial", "Pending", Updates, {"Pending"}, FALSE),
   Flow("Initial", "Running", Updates, {"Running"}, FALSE),
   Flow("Initial", "Failed", Updates, {"Failed"}, TRUE),
   Flow("Initial", "Deleted", {"DELETED"}, NodeStatuses, TRUE),
   Flow("Pending", "Running", Updates, {"Running"}, FALSE)}
  \cup
  {Flow(from, "Succeeded", Updates, {"Succeeded"}, FALSE) :
     from \in {"Pending", "Running"}}
  \cup
  {Flow(from, "Failed", Updates, {"Failed"}, TRUE) :
     from \in {"Pending", "Running"}}
  \cup
  {Flow(from, "Deleted", {"MODIFIED", "DELETED"}, NodeStatuses,
        from \in {"Pending", "Running"}) :
     from \in {"Pending", "Running", "Succeeded", "Failed"}}

\* The first flow in the order of the list: a flow with a phase comes before
\* the flow to "Deleted" of the same status.
FirstFlow(S) ==
  IF \E f \in S : f.to # "Deleted"
  THEN {f \in S : f.to # "Deleted"}
  ELSE S

\* get_node_state_flow: the flow as a set of at most one element.
GetNodeStateFlow(from, type, status) ==
  LET phase == IF type = "DELETED" /\ from = "Pending" THEN "Deleted"
               ELSE status
  IN  IF phase = from \/ phase \notin Allowed(from) THEN {}
      ELSE FirstFlow({f \in NodeStateFlows :
             f.from = from /\ type \in f.events /\ phase \in f.phases})
=============================================================================
