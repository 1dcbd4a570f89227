--------------------------- MODULE PreCheckProofs ----------------------------
(***************************************************************************)
(* Proofs about the pre-check, for every number of workers, list of        *)
(* operators, number of retries and number of faults.                      *)
(*                                                                         *)
(* The verdict.  PassNeedsCleanRound says nothing of the states before the *)
(* verdict, so RoundInv adds what the loop over the operators knows: those *)
(* before the current one have ended since the last failed action.         *)
(*                                                                         *)
(* The abortion.  AbortInv adds why no action outlives the round that put  *)
(* it into the queue: with PromptActions the queue is empty when a round   *)
(* begins, only a failed operator fills it, and that ends the round.       *)
(***************************************************************************)
EXTENDS PreCheck, TLAPS

Verdicts == {"passed", "bypass", "error"}

Rounds ==
  /\ ops \in Seq([kind : {"scheduling", "connection"}, bypass : BOOLEAN])
  /\ outcome \in [DOMAIN ops -> {"none"} \cup Verdicts]
  /\ main \in {"start", "next", "check", "sleep", "run", "exited"}
  /\ main \in {"start", "next", "check", "sleep"} => ended = "no"
  /\ main = "start" => cur = 1
  /\ main \in {"next", "check", "sleep"} => ops # <<>>
  /\ main \in {"next", "check"} =>
       /\ cur \in 1 .. Len(ops)
       /\ \A i \in 1 .. cur - 1 : outcome[i] # "none"

RoundInv == Rounds /\ PassNeedsCleanRound

AbortInv ==
  /\ main \in {"start", "next", "check"} => queue = <<>>
  /\ main \in {"start", "next", "check", "sleep"} => ended = "no"
  /\ main = "check" => ~stopped
  /\ ended \notin {"no", "alarm"} => queue = <<>> /\ ~stopped

-----------------------------------------------------------------------------
(* The verdict.                                                            *)

\* An operator that ends with a verdict ends the round or is followed by the
\* next operator.
LEMMA OpDoneRound ==
  ASSUME RoundInv, main = "check", NEW how \in Verdicts, OpDone(how), ops' = ops
  PROVE  RoundInv'
<1>1. /\ cur \in 1 .. Len(ops) /\ \A i \in 1 .. cur - 1 : outcome[i] # "none"
      /\ ops \in Seq([kind : {"scheduling", "connection"}, bypass : BOOLEAN])
      /\ outcome \in [DOMAIN ops -> {"none"} \cup Verdicts] /\ ended = "no"
      /\ ops # <<>>
  BY DEF RoundInv, Rounds
<1>2. DOMAIN ops = 1 .. Len(ops) /\ Len(ops) \in Nat
  BY <1>1
<1>3. outcome' = [outcome EXCEPT ![cur] = how]
  BY DEF OpDone
<1>4. outcome' \in [DOMAIN ops -> {"none"} \cup Verdicts]
  BY <1>1, <1>3
<1>5. \A i \in 1 .. cur : outcome'[i] # "none"
  BY <1>1, <1>2, <1>3 DEF Verdicts
<1>6. CASE cur = Len(ops)
  <2>1. main' = "run" /\ ended' = how
    BY <1>6 DEF OpDone, LastOp, Finish
  <2>2. PassNeedsCleanRound'
    BY <1>2, <1>5, <1>6 DEF PassNeedsCleanRound
  <2> QED
    BY <1>1, <1>4, <2>1, <2>2 DEF RoundInv, Rounds
<1>7. CASE cur # Len(ops)
  <2>1. main' = "next" /\ cur' = cur + 1 /\ ended' = ended
    BY <1>7 DEF OpDone, LastOp
  <2>2. cur' \in 1 .. Len(ops)
    <3>1. cur \in 1 .. Len(ops) /\ Len(ops) \in Nat /\ cur' = cur + 1
      BY <1>1, <1>2, <2>1
    <3> QED
      BY <1>7, <3>1
  <2>3. \A i \in 1 .. cur' - 1 : outcome'[i] # "none"
    BY <1>1, <1>2, <1>5, <2>1
  <2> QED
    BY <1>1, <1>4, <2>1, <2>2, <2>3 DEF RoundInv, Rounds, PassNeedsCleanRound
<1> QED
  BY <1>6, <1>7

\* A new round forgets how the operators ended.
LEMMA NoOutcomeRound ==
  ASSUME Rounds, outcome' = NoOutcome, ops' = ops
  PROVE  outcome' \in [DOMAIN ops' -> {"none"} \cup Verdicts]
BY DEF NoOutcome

\* The main thread keeps RoundInv.
LEMMA MainStepRound == RoundInv /\ MainStep => RoundInv'
<1> SUFFICES ASSUME RoundInv, MainStep PROVE RoundInv'
  OBVIOUS
<1>1. CASE StartPreCheck
  <2>1. CASE ops = <<>>
    BY <1>1, <2>1 DEF StartPreCheck, RoundInv, Rounds, PassNeedsCleanRound
  <2>2. CASE ops # <<>>
    <3>1. main' = "next" /\ cur' = 1 /\ ended' = "no" /\ ops' = ops
          /\ outcome' = outcome
      BY <1>1, <2>2 DEF StartPreCheck, RoundInv, Rounds
    <3>2. 1 \in 1 .. Len(ops)
      BY <2>2 DEF RoundInv, Rounds
    <3> QED
      BY <2>2, <3>1, <3>2 DEF RoundInv, Rounds, PassNeedsCleanRound
  <2> QED
    BY <2>1, <2>2
<1>2. CASE NextOp
  BY <1>2 DEF NextOp, RoundInv, Rounds, PassNeedsCleanRound
<1>3. CASE OpSucceeds
  BY <1>3, OpDoneRound DEF OpSucceeds, Verdicts
<1>4. CASE RetryCheck
  BY <1>4 DEF RetryCheck, RoundInv, Rounds, PassNeedsCleanRound
<1>5. CASE OpFails
  <2>1. CASE ops[cur].bypass
    BY <1>5, <2>1, OpDoneRound DEF OpFails, Verdicts
  <2>2. CASE ~ops[cur].bypass
    <3>1. main' = "sleep" /\ main = "check" /\ outcome' = NoOutcome
          /\ ops' = ops /\ ended' = ended
      BY <1>5, <2>2 DEF OpFails
    <3>2. outcome' \in [DOMAIN ops' -> {"none"} \cup Verdicts]
      BY <3>1, NoOutcomeRound DEF RoundInv
    <3> QED
      BY <3>1, <3>2 DEF RoundInv, Rounds, PassNeedsCleanRound
  <2> QED
    BY <2>1, <2>2
<1>6. CASE OpRaises
  BY <1>6, OpDoneRound DEF OpRaises, Verdicts
<1>7. CASE WakeUp
  <2>1. main' = "next" /\ cur' = 1 /\ main = "sleep" /\ ops' = ops
        /\ outcome' = outcome /\ ended' = ended
    BY <1>7 DEF WakeUp
  <2>2. 1 \in 1 .. Len(ops)
    BY <2>1 DEF RoundInv, Rounds
  <2> QED
    BY <2>1, <2>2 DEF RoundInv, Rounds, PassNeedsCleanRound
<1>8. CASE MainLoopEnds
  BY <1>8 DEF MainLoopEnds, RoundInv, Rounds, PassNeedsCleanRound
<1> QED
  BY <1>1, <1>2, <1>3, <1>4, <1>5, <1>6, <1>7, <1>8 DEF MainStep

\* What the other steps leave alone.
LEMMA OthersLeaveRound ==
  ASSUME \/ DiagnoseJob \/ ActionExpires
         \/ \E id \in PreIds :
              \/ CreateNode(id) \/ AgentStarts(id) \/ NodeRuns(id)
              \/ NodeFails(id) \/ ReportWaiting(id) \/ PollVerdict(id)
              \/ AgentEnds(id)
  PROVE  UNCHANGED <<ops, mainVars>>
BY DEF DiagnoseJob, ActionExpires, CreateNode, AgentStarts, NodeRuns,
       NodeFails, ReportWaiting, PollVerdict, AgentEnds

\* When the operators end the pre-check, each of them has run since the last
\* failed action (DiagnosisMaster.pre_check).
THEOREM VerdictNeedsCleanRound == PreSpec => []PassNeedsCleanRound
<1>1. PreInit => RoundInv
  BY PreCheckAssumption
  DEF PreInit, RoundInv, Rounds, PassNeedsCleanRound, NoOutcome
<1>2. RoundInv /\ [PreNext]_preVars => RoundInv'
  <2> SUFFICES ASSUME RoundInv, [PreNext]_preVars PROVE RoundInv'
    OBVIOUS
  <2>1. CASE MainStep
    BY <2>1, MainStepRound
  <2>2. CASE Alarm
    BY <2>2 DEF Alarm, Finish, InPreCheck, RoundInv, Rounds, PassNeedsCleanRound
  <2>3. CASE MasterRestarts
    <3>1. main' = "start" /\ cur' = 1 /\ ended' = "no" /\ ops' = ops
          /\ outcome' = NoOutcome
      BY <2>3 DEF MasterRestarts
    <3>2. outcome' \in [DOMAIN ops' -> {"none"} \cup Verdicts]
      BY <3>1, NoOutcomeRound DEF RoundInv
    <3> QED
      BY <3>1, <3>2 DEF RoundInv, Rounds, PassNeedsCleanRound
  <2>4. CASE UNCHANGED <<ops, mainVars>>
    BY <2>4 DEF mainVars, RoundInv, Rounds, PassNeedsCleanRound
  <2>5. CASE UNCHANGED preVars
    BY <2>4, <2>5 DEF preVars, mainVars
  <2> QED
    BY <2>1, <2>2, <2>3, <2>4, <2>5, OthersLeaveRound DEF PreNext
<1>3. RoundInv => PassNeedsCleanRound
  BY DEF RoundInv
<1> QED
  BY <1>1, <1>2, <1>3, PTL DEF PreSpec

-----------------------------------------------------------------------------
(* The abortion.                                                           *)

\* A step of the main thread keeps AbortInv: it fills the queue only to sleep.
LEMMA MainStepAbort ==
  ASSUME PromptActions, AbortInv, MainStep
  PROVE  AbortInv'
<1>1. CASE StartPreCheck
  BY <1>1 DEF StartPreCheck, AbortInv
<1>2. CASE NextOp
  BY <1>2 DEF NextOp, AbortInv
<1>3. ASSUME NEW how, main = "check", OpDone(how), UNCHANGED <<queue, stopped>>
      PROVE  AbortInv'
  BY <1>3 DEF OpDone, Finish, LastOp, AbortInv
<1>4. CASE OpSucceeds
  BY <1>3, <1>4 DEF OpSucceeds
<1>5. CASE RetryCheck
  BY <1>5 DEF RetryCheck, AbortInv
<1>6. CASE OpFails
  <2>1. CASE ops[cur].bypass
    BY <1>3, <1>6, <2>1 DEF OpFails
  <2>2. CASE ~ops[cur].bypass
    <3>1. main' = "sleep" /\ main = "check" /\ ended' = ended
          /\ stopped' = stopped
      BY <1>6, <2>2 DEF OpFails
    <3> QED
      BY <3>1 DEF AbortInv
  <2> QED
    BY <2>1, <2>2
<1>7. CASE OpRaises
  BY <1>3, <1>7 DEF OpRaises
<1>8. CASE WakeUp
  BY <1>8 DEF WakeUp, AbortInv
<1>9. CASE MainLoopEnds
  BY <1>9 DEF MainLoopEnds, AbortInv
<1> QED
  BY <1>1, <1>2, <1>4, <1>5, <1>6, <1>7, <1>8, <1>9 DEF MainStep

\* A job that the operators let pass is not aborted by them afterwards, if
\* failed actions are executed within the retry interval.
THEOREM PassedJobStays ==
  ASSUME PromptActions
  PROVE  PreSpec => []PassedJobNotAborted
<1>1. PreInit => AbortInv
  BY DEF PreInit, AbortInv
<1>2. AbortInv /\ [PreNext]_preVars => AbortInv'
  <2> SUFFICES ASSUME AbortInv, [PreNext]_preVars PROVE AbortInv'
    OBVIOUS
  <2>1. CASE MainStep
    BY <2>1, MainStepAbort
  <2>2. CASE Alarm
    BY <2>2 DEF Alarm, Finish, AbortInv
  <2>3. CASE DiagnoseJob
    <3>1. queue # <<>> /\ UNCHANGED <<main, ended>>
      BY <2>3 DEF DiagnoseJob, mainVars
    <3> QED
      BY <3>1 DEF AbortInv
  <2>4. CASE ActionExpires
    <3>1. queue # <<>> /\ UNCHANGED <<main, ended, stopped>>
      BY <2>4 DEF ActionExpires, mainVars
    <3> QED
      BY <3>1 DEF AbortInv
  <2>5. CASE MasterRestarts
    BY <2>5 DEF MasterRestarts, AbortInv
  <2>6. CASE UNCHANGED <<mainVars, queue, stopped>>
    BY <2>6 DEF mainVars, AbortInv
  <2>7. ASSUME NEW id \in PreIds,
               \/ CreateNode(id) \/ AgentStarts(id) \/ NodeRuns(id)
               \/ NodeFails(id) \/ ReportWaiting(id) \/ PollVerdict(id)
               \/ AgentEnds(id)
        PROVE  UNCHANGED <<mainVars, queue, stopped>>
    BY <2>7 DEF CreateNode, AgentStarts, NodeRuns, NodeFails, ReportWaiting,
                PollVerdict, AgentEnds
  <2>8. CASE UNCHANGED preVars
    BY <2>6, <2>8 DEF preVars, mainVars
  <2> QED
    BY <2>1, <2>2, <2>3, <2>4, <2>5, <2>6, <2>7, <2>8 DEF PreNext
<1>3. AbortInv => PassedJobNotAborted
  BY DEF AbortInv, PassedJobNotAborted
<1> QED
  BY <1>1, <1>2, <1>3, PTL DEF PreSpec
=============================================================================
