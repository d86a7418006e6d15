------------------------ MODULE DeploymentPipeline_proofs ------------------------
(***************************************************************************)
(* Proofs about DeploymentPipeline for any plan (the empty one and steps   *)
(* that are not watched included), any thresholds and any metrics.         *)
(*                                                                         *)
(* What DeploymentsAreEarned says of a completed deployment is true        *)
(* because of what is true at every await on the way: PInv says which      *)
(* locals are set there, which milestones lie behind, how far the current  *)
(* step was watched, and that a rollback request the workflow can still    *)
(* see keeps it away from verification.                                    *)
(***************************************************************************)
EXTENDS DeploymentPipeline, SequenceTheorems, TLAPS

BeforeRollout == {"absent", "staging", "smoke", "request", "waiting", "baseline"}
InStep        == {"traffic", "announce", "collect", "check"}
AfterRollout  == {"verify", "publish", "completed"}
AfterGate     == {"baseline"} \cup InStep \cup AfterRollout
Abandoned     == {"rollback", "publishRollback", "rolledBack", "cancelled"}

\* Which locals of run() are set at which await.
LocalsAreSet ==
    \A d \in Deployments :
        /\ pc[d] \in BeforeRollout => step[d] = 0
        /\ pc[d] \in InStep => step[d] \in 1 .. Len(Steps) /\ baseline[d] \in Baseline
        /\ pc[d] \in {"traffic", "announce"} => elapsed[d] = 0
        /\ pc[d] = "check" => health[d] \in Metrics

\* Which milestones lie behind which await.
MilestonesPassed ==
    \A d \in Deployments :
        /\ pc[d] \in {"smoke", "request", "waiting"} \cup AfterGate => "staged" \in marks[d]
        /\ pc[d] \in {"request", "waiting"} \cup AfterGate => "smoke" \in marks[d]
        /\ pc[d] \in AfterGate => Admitted(d)
        /\ pc[d] \in {"publish", "completed"} => "verified" \in marks[d]
        /\ pc[d] \notin Abandoned => "unhealthy" \notin marks[d]

\* Every step left behind was watched, and the one in progress as long as
\* elapsed says.
StepsWatched ==
    \A d \in Deployments :
        /\ pc[d] \in InStep => \A k \in 1 .. (step[d] - 1) : Watched(d, k)
        /\ pc[d] \in AfterRollout => \A k \in 1 .. Len(Steps) : Watched(d, k)
        /\ pc[d] \in InStep => verdicts[d][step[d]] * Interval >= elapsed[d]

\* A call in flight belongs to a cancelled workflow, which was entitled to it.
LateCallsEarned ==
    \A d \in Deployments :
        /\ late[d] # None => pc[d] = "cancelled"
        /\ late[d] # None /\ late[d] # 0 =>
              /\ Admitted(d) /\ "unhealthy" \notin marks[d]
              /\ \E k \in 1 .. Len(Steps) :
                    late[d] = Steps[k] /\ \A j \in 1 .. (k - 1) : Watched(d, j)

\* A deployment is completed, or announced as completed, at the end only.
CompletedAtTheEnd ==
    \A d \in Deployments :
        /\ status[d] = "completed" => pc[d] \in {"publish", "completed", "cancelled"}
        /\ <<"completed", d>> \in events => pc[d] = "completed"

\* A request that came in time is seen at a test ahead or has stopped the rollout.
RequestsSeen ==
    \A d \in Deployments :
        /\ heard[d] # "never" => asked[d] # None
        /\ heard[d] = "tested" => FlagTestAhead(d) \/ pc[d] \in Abandoned

PInv ==
    /\ TypeOK /\ LocalsAreSet /\ MilestonesPassed /\ StepsWatched /\ LateCallsEarned
    /\ CompletedAtTheEnd /\ RequestsSeen
    /\ CompletedIsEarned /\ RollbackHonouredInRollout /\ CancelledMeansStopped

USE DEF BeforeRollout, InStep, AfterRollout, AfterGate, Abandoned

\* The plan has some number of steps, each a percentage.
LEMMA LengthType == Len(Steps) \in Nat
  BY StepsAssumption

LEMMA ZeroInRange == 0 \in 0 .. Len(Steps) /\ 0 \in 0 .. 100
  BY LengthType

LEMMA Percentages == \A k \in 1 .. Len(Steps) : Steps[k] \in 1 .. 100
  BY StepsAssumption, ElementOfSeq

LEMMA NoneIsNoName == None \notin {"", "manual", "custom", "pending", "cancelled", "denied"}
  BY NoneAssumption DEF Requested, Decisions

LEMMA InitPInv == Init => PInv
<1> SUFFICES ASSUME Init PROVE PInv
  OBVIOUS
<1> USE LengthType, NoneIsNoName DEF Init
<1>1. TypeOK
  <2>1. verdicts \in [Deployments -> [1 .. Len(Steps) -> Nat]]
    OBVIOUS
  <2> QED BY <2>1, ZeroInRange DEF TypeOK, Pcs, Statuses, Moments
<1>2. LocalsAreSet /\ MilestonesPassed /\ StepsWatched
  BY DEF LocalsAreSet, MilestonesPassed, StepsWatched
<1>3. LateCallsEarned /\ CompletedAtTheEnd /\ RequestsSeen
  BY DEF LateCallsEarned, CompletedAtTheEnd, RequestsSeen
<1>4. CompletedIsEarned /\ RollbackHonouredInRollout /\ CancelledMeansStopped
  BY DEF CompletedIsEarned, RollbackHonouredInRollout, CancelledMeansStopped
<1> QED BY <1>1, <1>2, <1>3, <1>4 DEF PInv

\* The two criteria of check_rollback_criteria_activity together are the plan's
\* thresholds.
LEMMA CriteriaAreThresholds ==
  ASSUME NEW h \in Metrics, NEW b \in Baseline
  PROVE  Unhealthy(h, b) <=> (ErrorRateExceeded(h, b) \/ LatencyExceeded(h, b))
<1>1. Sigma * b.dev \in Nat /\ b.p95 * Multiplier \in Nat /\ b.mean \in Nat
  BY LimitsAssumption DEF Baseline
<1>2. h.error \in Nat /\ h.p95 \in Nat
  BY DEF Metrics
<1> QED BY <1>1, <1>2 DEF Unhealthy, ErrorRateExceeded, LatencyExceeded

\* One more healthy check is one more interval watched.
LEMMA OneMoreCheck ==
  ASSUME NEW v \in Nat, NEW e \in Nat, v * Interval >= e
  PROVE  (v + 1) * Interval >= e + Interval
<1>1. Interval \in Nat
  BY TimesAssumption
<1>2. ASSUME NEW i \in Nat, v * i >= e PROVE (v + 1) * i >= e + i
  <2>1. (v + 1) * i = v * i + i /\ v * i \in Nat
    OBVIOUS
  <2> QED BY <2>1, <1>2
<1> QED BY <1>1, <1>2

-----------------------------------------------------------------------------
(* Type correctness. *)

\* The type of what a step of run() moves.
FlowType ==
    /\ pc \in [Deployments -> Pcs] /\ status \in [Deployments -> Statuses]
    /\ step \in [Deployments -> 0 .. Len(Steps)] /\ elapsed \in [Deployments -> Nat]
    /\ reason \in [Deployments -> Reasons \cup {"custom", None}]

LEMMA MoveType ==
  ASSUME TypeOK, NEW d \in Deployments, NEW to \in Pcs, NEW st \in Statuses,
         Move(d, to, st), UNCHANGED <<step, elapsed, reason>>
  PROVE  FlowType'
  BY DEF TypeOK, FlowType, Move

LEMMA RollbackType ==
  ASSUME TypeOK, NEW d \in Deployments, NEW why \in Reasons \cup {"custom", None}, BeginRollback(d, why)
  PROVE  FlowType'
<1>1. "rollback" \in Pcs /\ "rolled_back" \in Statuses
  BY DEF Pcs, Statuses
<1> QED BY <1>1 DEF TypeOK, FlowType, BeginRollback, Move

LEMMA MarkType ==
  ASSUME TypeOK, NEW d \in Deployments, NEW m \in SUBSET Milestones, Mark(d, m)
  PROVE  marks' \in [Deployments -> SUBSET Milestones]
  BY DEF TypeOK, Mark

LEMMA AskedReasonType ==
  ASSUME TypeOK, NEW d \in Deployments, asked[d] # None
  PROVE  AskedReason(d) \in Reasons \cup {"custom", None}
  BY DEF TypeOK, AskedReason, Requested, Reasons

\* The percentage of the step in progress.
LEMMA StepPercentage ==
  ASSUME LocalsAreSet, NEW d \in Deployments, pc[d] \in InStep
  PROVE  Steps[step[d]] \in 0 .. 100
<1>1. step[d] \in 1 .. Len(Steps)
  BY DEF LocalsAreSet
<1>2. Steps[step[d]] \in 1 .. 100
  BY <1>1, Percentages
<1>3. \A x \in 1 .. 100 : x \in 0 .. 100
  OBVIOUS
<1> QED BY <1>2, <1>3

LEMMA EnterStepType ==
  ASSUME TypeOK, NEW d \in Deployments, NEW k \in Nat \ {0}, EnterStep(d, k)
  PROVE  FlowType'
<1>1. CASE Move(d, "verify", "verifying") /\ UNCHANGED <<step, elapsed, reason>>
  <2>1. "verify" \in Pcs /\ "verifying" \in Statuses
    BY DEF Pcs, Statuses
  <2> QED BY <1>1, <2>1, MoveType
<1>2. CASE asked[d] # None /\ BeginRollback(d, AskedReason(d))
  BY <1>2, AskedReasonType, RollbackType
<1>3. CASE /\ k <= Len(Steps)
           /\ Move(d, "traffic", IF Steps[k] <= 5 THEN "canary" ELSE "rolling_out")
           /\ step' = [step EXCEPT ![d] = k]
           /\ elapsed' = [elapsed EXCEPT ![d] = 0]
           /\ UNCHANGED reason
  <2>1. "traffic" \in Pcs /\ {"canary", "rolling_out"} \subseteq Statuses
    BY DEF Pcs, Statuses
  <2>2. k \in 0 .. Len(Steps)
    BY <1>3, LengthType
  <2> QED BY <1>3, <2>1, <2>2 DEF TypeOK, FlowType, Move
<1> QED BY <1>1, <1>2, <1>3 DEF EnterStep

LEMMA WatchType ==
  ASSUME TypeOK, NEW d \in Deployments, NEW spent \in Nat, Watch(d, spent)
  PROVE  FlowType'
<1>1. CASE spent >= MinDuration /\ EnterStep(d, step[d] + 1)
  <2>1. step[d] + 1 \in Nat \ {0}
    BY LengthType DEF TypeOK
  <2> QED BY <1>1, <2>1, EnterStepType
<1>2. CASE asked[d] # None /\ BeginRollback(d, AskedReason(d))
  BY <1>2, AskedReasonType, RollbackType
<1>3. CASE Move(d, "collect", status[d]) /\ elapsed' = [elapsed EXCEPT ![d] = spent] /\ UNCHANGED <<step, reason>>
  BY <1>3 DEF TypeOK, FlowType, Move, Pcs
<1> QED BY <1>1, <1>2, <1>3 DEF Watch

LEMMA NextType == PInv /\ [Next]_vars => TypeOK'
<1> SUFFICES ASSUME PInv, [Next]_vars PROVE TypeOK'
  OBVIOUS
<1> USE DEF PInv, TypeOK, workflow, signals, history
<1>1. ASSUME NEW d \in Deployments, NEW confident \in BOOLEAN, StartDeployment(d, confident) PROVE TypeOK'
  BY <1>1, LimitsAssumption DEF StartDeployment, Move, Pcs, Statuses
<1>2. ASSUME NEW d \in Deployments, StartFails(d) PROVE TypeOK'
  BY <1>2 DEF StartFails
<1>3. ASSUME NEW d \in Deployments, NEW why \in Requested, TriggerRollback(d, why) PROVE TypeOK'
  <2>1. Moment(d) \in Moments
    BY DEF Moment, Moments
  <2> QED BY <1>3, <2>1 DEF TriggerRollback
<1>4. ASSUME NEW d \in Deployments, NEW what \in Decisions, ApprovalReceived(d, what) PROVE TypeOK'
  BY <1>4 DEF ApprovalReceived
<1>5. ASSUME NEW d \in Deployments, CancelDeployment(d) PROVE TypeOK'
  <2>1. late' \in [Deployments -> (0 .. 100) \cup {None}]
    <3>1. pc[d] = "traffic" => Steps[step[d]] \in 0 .. 100
      BY StepPercentage
    <3> QED BY <1>5, <3>1, ZeroInRange DEF CancelDeployment
  <2> QED BY <1>5, <2>1 DEF CancelDeployment, Pcs, Ended
<1>6. ASSUME NEW d \in Deployments, LateCall(d) PROVE TypeOK'
  BY <1>6 DEF LateCall
<1>7. ASSUME ManagerRestarts PROVE TypeOK'
  BY <1>7 DEF ManagerRestarts
<1>8. ASSUME NEW d \in Deployments, DeployToStaging(d) PROVE TypeOK'
  <2>1. FlowType'
    BY <1>8, MoveType, RollbackType DEF DeployToStaging, Pcs, Statuses, Reasons
  <2>2. marks' \in [Deployments -> SUBSET Milestones]
    BY <1>8, MarkType DEF DeployToStaging, Milestones
  <2>3. events' \subseteq {"started", "stage_changed", "completed", "rolled_back"} \X Deployments
    BY <1>8 DEF DeployToStaging
  <2> QED BY <1>8, <2>1, <2>2, <2>3 DEF DeployToStaging, FlowType
<1>9. ASSUME NEW d \in Deployments, RunSmokeTests(d) PROVE TypeOK'
  <2>1. FlowType'
    BY <1>9, MoveType, RollbackType DEF RunSmokeTests, Pcs, Statuses, Reasons
  <2>2. marks' \in [Deployments -> SUBSET Milestones]
    BY <1>9, MarkType DEF RunSmokeTests, Milestones
  <2> QED BY <1>9, <2>1, <2>2 DEF RunSmokeTests, FlowType
<1>10. ASSUME NEW d \in Deployments, RequestApproval(d) PROVE TypeOK'
  BY <1>10 DEF RequestApproval, Move, Pcs
<1>11. ASSUME NEW d \in Deployments, ApprovalGate(d) PROVE TypeOK'
  <2>1. FlowType'
    BY <1>11, MoveType, RollbackType, AskedReasonType DEF ApprovalGate, Pcs, Reasons
  <2>2. marks' \in [Deployments -> SUBSET Milestones]
    BY <1>11, MarkType DEF ApprovalGate, Milestones
  <2> QED BY <1>11, <2>1, <2>2 DEF ApprovalGate, FlowType
<1>12. ASSUME NEW d \in Deployments, ApprovalTimeout(d) PROVE TypeOK'
  <2>1. FlowType'
    BY <1>12, RollbackType DEF ApprovalTimeout, Reasons
  <2> QED BY <1>12, <2>1 DEF ApprovalTimeout, FlowType
<1>13. ASSUME NEW d \in Deployments, CollectBaseline(d) PROVE TypeOK'
  <2>1. baseline' \in [Deployments -> Baseline \cup {None}]
    BY <1>13, BaselineAssumption DEF CollectBaseline
  <2>2. EnterStep(d, 1) /\ 1 \in Nat \ {0}
    BY <1>13 DEF CollectBaseline
  <2>3. FlowType'
    BY <2>2, EnterStepType
  <2> QED BY <1>13, <2>1, <2>3 DEF CollectBaseline, FlowType
<1>14. ASSUME NEW d \in Deployments, ShiftTraffic(d) PROVE TypeOK'
  <2>1. Steps[step[d]] \in 0 .. 100
    BY <1>14, StepPercentage DEF ShiftTraffic
  <2>2. traffic' \in [Deployments -> 0 .. 100]
    BY <1>14, <2>1 DEF ShiftTraffic
  <2> QED BY <1>14, <2>2 DEF ShiftTraffic, Move, Pcs
<1>15. ASSUME NEW d \in Deployments, PublishStageChanged(d) PROVE TypeOK'
  <2>1. FlowType'
    BY <1>15, WatchType DEF PublishStageChanged
  <2> QED BY <1>15, <2>1 DEF PublishStageChanged, FlowType
<1>16. ASSUME NEW d \in Deployments, CollectHealth(d) PROVE TypeOK'
  <2>1. health' \in [Deployments -> Metrics \cup {None}]
    <3>1. [error |-> 0, p95 |-> 0] \in Metrics
      BY DEF Metrics
    <3> QED BY <1>16, <3>1, MetricsAssumption DEF CollectHealth
  <2> QED BY <1>16, <2>1 DEF CollectHealth, Move, Pcs
<1>17. ASSUME NEW d \in Deployments, CheckRollbackCriteria(d) PROVE TypeOK'
  <2>1. FlowType'
    <3>1. elapsed[d] + Interval \in Nat
      BY TimesAssumption
    <3>2. CASE Watch(d, elapsed[d] + Interval)
      BY <3>1, <3>2, WatchType
    <3>3. CASE BeginRollback(d, "error_rate_exceeded") \/ BeginRollback(d, "latency_exceeded")
      BY <3>3, RollbackType DEF Reasons
    <3> QED BY <1>17, <3>2, <3>3 DEF CheckRollbackCriteria
  <2>2. verdicts' \in [Deployments -> [1 .. Len(Steps) -> Nat]]
    <3>1. step[d] \in 1 .. Len(Steps)
      BY <1>17 DEF CheckRollbackCriteria, LocalsAreSet
    <3>2. CASE UNCHANGED verdicts
      BY <3>2
    <3>3. CASE verdicts' = [verdicts EXCEPT ![d][step[d]] = @ + 1]
      BY <3>1, <3>3
    <3> QED BY <1>17, <3>2, <3>3 DEF CheckRollbackCriteria
  <2>3. marks' \in [Deployments -> SUBSET Milestones]
    BY <1>17, MarkType DEF CheckRollbackCriteria, Milestones
  <2> QED BY <1>17, <2>1, <2>2, <2>3 DEF CheckRollbackCriteria, FlowType
<1>18. ASSUME NEW d \in Deployments, RunAcceptanceVerification(d) PROVE TypeOK'
  <2>1. FlowType'
    BY <1>18, MoveType, RollbackType DEF RunAcceptanceVerification, Pcs, Statuses, Reasons
  <2>2. marks' \in [Deployments -> SUBSET Milestones]
    BY <1>18, MarkType DEF RunAcceptanceVerification, Milestones
  <2> QED BY <1>18, <2>1, <2>2 DEF RunAcceptanceVerification, FlowType
<1>19. ASSUME NEW d \in Deployments, PublishCompleted(d) PROVE TypeOK'
  <2>1. FlowType'
    BY <1>19, MoveType DEF PublishCompleted, Pcs, Ended
  <2>2. events' \subseteq {"started", "stage_changed", "completed", "rolled_back"} \X Deployments
    BY <1>19 DEF PublishCompleted
  <2> QED BY <1>19, <2>1, <2>2 DEF PublishCompleted, FlowType
<1>20. ASSUME NEW d \in Deployments, Rollback(d) PROVE TypeOK'
  <2>1. FlowType'
    BY <1>20, MoveType DEF Rollback, Pcs
  <2>2. traffic' \in [Deployments -> 0 .. 100]
    BY <1>20, ZeroInRange DEF Rollback
  <2> QED BY <1>20, <2>1, <2>2 DEF Rollback, FlowType
<1>21. ASSUME NEW d \in Deployments, PublishRolledBack(d) PROVE TypeOK'
  <2>1. FlowType'
    BY <1>21, MoveType DEF PublishRolledBack, Pcs, Ended
  <2>2. events' \subseteq {"started", "stage_changed", "completed", "rolled_back"} \X Deployments
    BY <1>21 DEF PublishRolledBack
  <2> QED BY <1>21, <2>1, <2>2 DEF PublishRolledBack, FlowType
<1>22. CASE UNCHANGED vars
  BY <1>22 DEF vars
<1> HIDE DEF PInv, TypeOK
<1> QED BY <1>1, <1>2, <1>3, <1>4, <1>5, <1>6, <1>7, <1>8, <1>9, <1>10, <1>11, <1>12, <1>13, <1>14,
        <1>15, <1>16, <1>17, <1>18, <1>19, <1>20, <1>21, <1>22, Zenon
        DEF Next, Run, Request

-----------------------------------------------------------------------------
(* The conjuncts of PInv, action by action. *)

\* Requests, restarts and late calls leave the workflows where they are.
Quiet ==
    /\ UNCHANGED <<workflow, history, events>>
    /\ \A d \in Deployments :
          late'[d] \in {late[d], None} /\ cached'[d] \in {cached[d], "pending", None}

LEMMA StepKinds ==
  ASSUME TypeOK, [Next]_vars
  PROVE  \/ Quiet
         \/ \E d \in Deployments :
               (\E confident \in BOOLEAN : StartDeployment(d, confident)) \/ CancelDeployment(d) \/ Run(d)
<1> USE DEF TypeOK, Quiet, signals
<1>1. ASSUME NEW d \in Deployments, StartFails(d) PROVE Quiet
  BY <1>1 DEF StartFails
<1>2. ASSUME NEW d \in Deployments, NEW why \in Requested, TriggerRollback(d, why) PROVE Quiet
  BY <1>2 DEF TriggerRollback
<1>3. ASSUME NEW d \in Deployments, NEW what \in Decisions, ApprovalReceived(d, what) PROVE Quiet
  BY <1>3 DEF ApprovalReceived
<1>4. ASSUME NEW d \in Deployments, LateCall(d) PROVE Quiet
  BY <1>4 DEF LateCall
<1>5. CASE ManagerRestarts
  BY <1>5 DEF ManagerRestarts
<1>6. CASE UNCHANGED vars
  BY <1>6 DEF vars, workflow, history
<1> HIDE DEF TypeOK, Quiet, signals
<1> QED BY <1>1, <1>2, <1>3, <1>4, <1>5, <1>6, Zenon DEF Next, Request

\* Where the health loop goes next, and with what.
WatchEffect(d, spent) ==
    /\ \A e \in Deployments \ {d} :
          pc'[e] = pc[e] /\ status'[e] = status[e] /\ step'[e] = step[e] /\ elapsed'[e] = elapsed[e]
    /\ status'[d] # "completed"
    /\ \/ /\ pc'[d] = "verify" /\ step[d] = Len(Steps) /\ spent >= MinDuration
          /\ step'[d] = step[d]
       \/ pc'[d] = "rollback" /\ asked[d] # None
       \/ /\ pc'[d] = "traffic" /\ step[d] < Len(Steps) /\ spent >= MinDuration
          /\ step'[d] = step[d] + 1 /\ elapsed'[d] = 0 /\ asked[d] = None
       \/ /\ pc'[d] = "collect" /\ spent < MinDuration
          /\ step'[d] = step[d] /\ elapsed'[d] = spent /\ asked[d] = None

LEMMA WatchOutcome ==
  ASSUME TypeOK, NEW d \in Deployments, NEW spent \in Nat, step[d] \in 1 .. Len(Steps),
         status[d] # "completed", Watch(d, spent)
  PROVE  WatchEffect(d, spent)
<1> USE LengthType DEF TypeOK, Move, BeginRollback, WatchEffect
<1>1. CASE spent >= MinDuration /\ EnterStep(d, step[d] + 1)
  BY <1>1 DEF EnterStep
<1>2. CASE asked[d] # None /\ BeginRollback(d, AskedReason(d))
  BY <1>2
<1>3. CASE /\ spent < MinDuration /\ asked[d] = None /\ Move(d, "collect", status[d])
           /\ elapsed' = [elapsed EXCEPT ![d] = spent] /\ UNCHANGED <<step, reason>>
  BY <1>3
<1> QED BY <1>1, <1>2, <1>3 DEF Watch

\* The same for a check that has been made: when it sends the workflow on, the
\* service was healthy.
LEMMA CheckOutcome ==
  ASSUME PInv, NEW d \in Deployments, CheckRollbackCriteria(d)
  PROVE  /\ pc[d] = "check" /\ step[d] \in 1 .. Len(Steps) /\ elapsed[d] + Interval \in Nat
         /\ \/ /\ Watch(d, elapsed[d] + Interval) /\ UNCHANGED marks
               /\ verdicts' = [verdicts EXCEPT ![d][step[d]] = @ + 1]
            \/ BeginRollback(d, "error_rate_exceeded") \/ BeginRollback(d, "latency_exceeded")
<1>1. pc[d] = "check" /\ step[d] \in 1 .. Len(Steps) /\ health[d] \in Metrics /\ baseline[d] \in Baseline
  BY DEF PInv, LocalsAreSet, CheckRollbackCriteria
<1>2. elapsed[d] + Interval \in Nat
  BY TimesAssumption DEF PInv, TypeOK
<1> QED BY <1>1, <1>2, CriteriaAreThresholds DEF CheckRollbackCriteria

LEMMA NextLocals == PInv /\ [Next]_vars => LocalsAreSet'
<1> SUFFICES ASSUME PInv, [Next]_vars PROVE LocalsAreSet'
  OBVIOUS
<1>0. TypeOK'
  BY NextType
<1> USE LengthType, <1>0 DEF PInv, TypeOK, LocalsAreSet, Move, BeginRollback
<1>1. CASE Quiet
  BY <1>1 DEF Quiet, workflow
<1>2. ASSUME NEW d \in Deployments, NEW confident \in BOOLEAN, StartDeployment(d, confident) PROVE LocalsAreSet'
  BY <1>2 DEF StartDeployment
<1>3. ASSUME NEW d \in Deployments, CancelDeployment(d) PROVE LocalsAreSet'
  BY <1>3 DEF CancelDeployment
<1>4. ASSUME NEW d \in Deployments, DeployToStaging(d) PROVE LocalsAreSet'
  BY <1>4 DEF DeployToStaging
<1>5. ASSUME NEW d \in Deployments, RunSmokeTests(d) PROVE LocalsAreSet'
  BY <1>5 DEF RunSmokeTests
<1>6. ASSUME NEW d \in Deployments, RequestApproval(d) PROVE LocalsAreSet'
  BY <1>6 DEF RequestApproval
<1>7. ASSUME NEW d \in Deployments, ApprovalGate(d) PROVE LocalsAreSet'
  BY <1>7 DEF ApprovalGate
<1>8. ASSUME NEW d \in Deployments, ApprovalTimeout(d) PROVE LocalsAreSet'
  BY <1>8 DEF ApprovalTimeout
<1>9. ASSUME NEW d \in Deployments, CollectBaseline(d) PROVE LocalsAreSet'
  <2>1. baseline'[d] \in Baseline
    BY <1>9, BaselineAssumption DEF CollectBaseline
  <2> QED BY <1>9, <2>1, SMTT(30) DEF CollectBaseline, EnterStep
<1>10. ASSUME NEW d \in Deployments, ShiftTraffic(d) PROVE LocalsAreSet'
  BY <1>10 DEF ShiftTraffic
<1>11. ASSUME NEW d \in Deployments, PublishStageChanged(d) PROVE LocalsAreSet'
  <2>1. step[d] \in 1 .. Len(Steps) /\ status[d] # "completed" /\ Watch(d, 0)
    BY <1>11 DEF PublishStageChanged, CompletedAtTheEnd
  <2>2. WatchEffect(d, 0)
    BY <2>1, WatchOutcome
  <2> QED BY <1>11, <2>1, <2>2 DEF PublishStageChanged, WatchEffect
<1>12. ASSUME NEW d \in Deployments, CollectHealth(d) PROVE LocalsAreSet'
  <2>1. health'[d] \in Metrics
    <3>1. [error |-> 0, p95 |-> 0] \in Metrics
      BY DEF Metrics
    <3> QED BY <1>12, <3>1, MetricsAssumption DEF CollectHealth
  <2> QED BY <1>12, <2>1 DEF CollectHealth
<1>13. ASSUME NEW d \in Deployments, CheckRollbackCriteria(d) PROVE LocalsAreSet'
  <2>1. CASE Watch(d, elapsed[d] + Interval)
    <3>1. status[d] # "completed" /\ UNCHANGED <<baseline, health>>
      BY <1>13 DEF CheckRollbackCriteria, CompletedAtTheEnd
    <3>2. pc[d] = "check" /\ step[d] \in 1 .. Len(Steps) /\ elapsed[d] + Interval \in Nat
      BY <1>13, CheckOutcome
    <3>3. WatchEffect(d, elapsed[d] + Interval)
      BY <2>1, <3>1, <3>2, WatchOutcome
    <3> QED BY <3>1, <3>2, <3>3, SMTT(30) DEF WatchEffect
  <2>2. CASE BeginRollback(d, "error_rate_exceeded") \/ BeginRollback(d, "latency_exceeded")
    BY <1>13, <2>2 DEF CheckRollbackCriteria
  <2> QED BY <1>13, <2>1, <2>2 DEF CheckRollbackCriteria
<1>14. ASSUME NEW d \in Deployments, RunAcceptanceVerification(d) PROVE LocalsAreSet'
  BY <1>14 DEF RunAcceptanceVerification
<1>15. ASSUME NEW d \in Deployments, PublishCompleted(d) PROVE LocalsAreSet'
  BY <1>15 DEF PublishCompleted
<1>16. ASSUME NEW d \in Deployments, Rollback(d) PROVE LocalsAreSet'
  BY <1>16 DEF Rollback
<1>17. ASSUME NEW d \in Deployments, PublishRolledBack(d) PROVE LocalsAreSet'
  BY <1>17 DEF PublishRolledBack
<1>18. TypeOK
  OBVIOUS
<1> HIDE DEF PInv, TypeOK, LocalsAreSet
<1> QED BY <1>1, <1>2, <1>3, <1>4, <1>5, <1>6, <1>7, <1>8, <1>9, <1>10, <1>11, <1>12, <1>13, <1>14,
        <1>15, <1>16, <1>17, <1>18, StepKinds, Zenon DEF Run

LEMMA NextMilestones == PInv /\ [Next]_vars => MilestonesPassed'
<1> SUFFICES ASSUME PInv, [Next]_vars PROVE MilestonesPassed'
  OBVIOUS
<1>0. TypeOK'
  BY NextType
<1> USE LengthType, <1>0 DEF PInv, TypeOK, MilestonesPassed, Admitted, Move, BeginRollback, Mark, history
<1>1. CASE Quiet
  BY <1>1 DEF Quiet, workflow
<1>2. ASSUME NEW d \in Deployments, NEW confident \in BOOLEAN, StartDeployment(d, confident) PROVE MilestonesPassed'
  BY <1>2 DEF StartDeployment
<1>3. ASSUME NEW d \in Deployments, CancelDeployment(d) PROVE MilestonesPassed'
  BY <1>3 DEF CancelDeployment
<1>4. ASSUME NEW d \in Deployments, DeployToStaging(d) PROVE MilestonesPassed'
  <2>1. CASE Move(d, "smoke", "smoke_testing") /\ Mark(d, {"staged"})
    BY <1>4, <2>1 DEF DeployToStaging
  <2>2. CASE BeginRollback(d, "smoke_test_failed") /\ UNCHANGED marks
    BY <1>4, <2>2 DEF DeployToStaging
  <2> QED BY <1>4, <2>1, <2>2 DEF DeployToStaging
<1>5. ASSUME NEW d \in Deployments, RunSmokeTests(d) PROVE MilestonesPassed'
  <2>1. CASE needs[d] /\ Move(d, "request", "awaiting_approval") /\ Mark(d, {"smoke"})
    BY <1>5, <2>1 DEF RunSmokeTests
  <2>2. CASE ~ needs[d] /\ Move(d, "baseline", status[d]) /\ Mark(d, {"smoke"})
    BY <1>5, <2>2 DEF RunSmokeTests
  <2>3. CASE BeginRollback(d, "smoke_test_failed") /\ UNCHANGED marks
    BY <1>5, <2>3 DEF RunSmokeTests
  <2> QED BY <1>5, <2>1, <2>2, <2>3 DEF RunSmokeTests
<1>6. ASSUME NEW d \in Deployments, RequestApproval(d) PROVE MilestonesPassed'
  BY <1>6 DEF RequestApproval
<1>7. ASSUME NEW d \in Deployments, ApprovalGate(d) PROVE MilestonesPassed'
  BY <1>7 DEF ApprovalGate
<1>8. ASSUME NEW d \in Deployments, ApprovalTimeout(d) PROVE MilestonesPassed'
  BY <1>8 DEF ApprovalTimeout
<1>9. ASSUME NEW d \in Deployments, CollectBaseline(d) PROVE MilestonesPassed'
  <2>1. pc' = [pc EXCEPT ![d] = "verify"] \/ pc' = [pc EXCEPT ![d] = "rollback"] \/ pc' = [pc EXCEPT ![d] = "traffic"]
    BY <1>9 DEF CollectBaseline, EnterStep
  <2>2. pc[d] = "baseline" /\ UNCHANGED <<needs, marks>>
    BY <1>9 DEF CollectBaseline
  <2>3. CASE pc' = [pc EXCEPT ![d] = "verify"] BY <2>2, <2>3
  <2>4. CASE pc' = [pc EXCEPT ![d] = "rollback"] BY <2>2, <2>4
  <2>5. CASE pc' = [pc EXCEPT ![d] = "traffic"] BY <2>2, <2>5
  <2> QED BY <2>1, <2>3, <2>4, <2>5
<1>10. ASSUME NEW d \in Deployments, ShiftTraffic(d) PROVE MilestonesPassed'
  BY <1>10 DEF ShiftTraffic
<1>11. ASSUME NEW d \in Deployments, PublishStageChanged(d) PROVE MilestonesPassed'
  <2>1. step[d] \in 1 .. Len(Steps) /\ status[d] # "completed" /\ Watch(d, 0)
    BY <1>11 DEF PublishStageChanged, CompletedAtTheEnd, LocalsAreSet
  <2>2. WatchEffect(d, 0)
    BY <2>1, WatchOutcome
  <2> QED BY <1>11, <2>1, <2>2 DEF PublishStageChanged, WatchEffect
<1>12. ASSUME NEW d \in Deployments, CollectHealth(d) PROVE MilestonesPassed'
  BY <1>12 DEF CollectHealth
<1>13. ASSUME NEW d \in Deployments, CheckRollbackCriteria(d) PROVE MilestonesPassed'
  <2>1. CASE /\ Watch(d, elapsed[d] + Interval) /\ UNCHANGED marks
             /\ verdicts' = [verdicts EXCEPT ![d][step[d]] = @ + 1]
    <3>1. status[d] # "completed"
      BY <1>13 DEF CheckRollbackCriteria, CompletedAtTheEnd
    <3>2. pc[d] = "check" /\ step[d] \in 1 .. Len(Steps) /\ elapsed[d] + Interval \in Nat
      BY <1>13, CheckOutcome
    <3>3. WatchEffect(d, elapsed[d] + Interval)
      BY <2>1, <3>1, <3>2, WatchOutcome
    <3> QED BY <1>13, <2>1, <3>2, <3>3 DEF CheckRollbackCriteria, WatchEffect
  <2>2. CASE BeginRollback(d, "error_rate_exceeded") \/ BeginRollback(d, "latency_exceeded")
    <3>1. pc' = [pc EXCEPT ![d] = "rollback"]
      BY <2>2
    <3>2. UNCHANGED needs /\ \A e \in Deployments \ {d} : marks'[e] = marks[e]
      BY <1>13 DEF CheckRollbackCriteria
    <3> QED BY <3>1, <3>2
  <2> QED BY <1>13, <2>1, <2>2, CheckOutcome
<1>14. ASSUME NEW d \in Deployments, RunAcceptanceVerification(d) PROVE MilestonesPassed'
  <2>1. CASE Move(d, "publish", "completed") /\ Mark(d, {"verified"})
    BY <1>14, <2>1 DEF RunAcceptanceVerification
  <2>2. CASE BeginRollback(d, "verification_failed") /\ UNCHANGED marks
    BY <1>14, <2>2 DEF RunAcceptanceVerification
  <2> QED BY <1>14, <2>1, <2>2 DEF RunAcceptanceVerification
<1>15. ASSUME NEW d \in Deployments, PublishCompleted(d) PROVE MilestonesPassed'
  BY <1>15 DEF PublishCompleted
<1>16. ASSUME NEW d \in Deployments, Rollback(d) PROVE MilestonesPassed'
  BY <1>16 DEF Rollback
<1>17. ASSUME NEW d \in Deployments, PublishRolledBack(d) PROVE MilestonesPassed'
  BY <1>17 DEF PublishRolledBack
<1>18. TypeOK
  OBVIOUS
<1> HIDE DEF PInv, TypeOK, MilestonesPassed
<1> QED BY <1>1, <1>2, <1>3, <1>4, <1>5, <1>6, <1>7, <1>8, <1>9, <1>10, <1>11, <1>12, <1>13, <1>14,
        <1>15, <1>16, <1>17, <1>18, StepKinds, Zenon DEF Run

\* Time watched is never negative.
LEMMA WatchedType ==
  ASSUME NEW v \in Nat
  PROVE  v * Interval \in Nat
<1>1. Interval \in Nat
  BY TimesAssumption
<1>2. \A i \in Nat : v * i \in Nat
  OBVIOUS
<1> QED BY <1>1, <1>2

LEMMA TransitiveNat ==
  ASSUME NEW a \in Nat, NEW b \in Nat, NEW c \in Nat, a >= b, b >= c
  PROVE  a >= c
  OBVIOUS

LEMMA NextWatched == PInv /\ [Next]_vars => StepsWatched'
<1> SUFFICES ASSUME PInv, [Next]_vars PROVE StepsWatched'
  OBVIOUS
<1>0. TypeOK'
  BY NextType
<1> USE LengthType, <1>0 DEF PInv, TypeOK, StepsWatched, Watched, Move, BeginRollback, history
<1>1. CASE Quiet
  BY <1>1 DEF Quiet, workflow
<1>2. ASSUME NEW d \in Deployments, NEW confident \in BOOLEAN, StartDeployment(d, confident) PROVE StepsWatched'
  BY <1>2 DEF StartDeployment
<1>3. ASSUME NEW d \in Deployments, CancelDeployment(d) PROVE StepsWatched'
  BY <1>3 DEF CancelDeployment
<1>4. ASSUME NEW d \in Deployments, DeployToStaging(d) PROVE StepsWatched'
  BY <1>4, ZenonT(30) DEF DeployToStaging
<1>5. ASSUME NEW d \in Deployments, RunSmokeTests(d) PROVE StepsWatched'
  BY <1>5, ZenonT(30) DEF RunSmokeTests
<1>6. ASSUME NEW d \in Deployments, RequestApproval(d) PROVE StepsWatched'
  BY <1>6 DEF RequestApproval
<1>7. ASSUME NEW d \in Deployments, ApprovalGate(d) PROVE StepsWatched'
  BY <1>7, ZenonT(30) DEF ApprovalGate
<1>8. ASSUME NEW d \in Deployments, ApprovalTimeout(d) PROVE StepsWatched'
  BY <1>8 DEF ApprovalTimeout
<1>9. ASSUME NEW d \in Deployments, CollectBaseline(d) PROVE StepsWatched'
  <2>1. UNCHANGED verdicts /\ pc[d] = "baseline" /\ step[d] = 0
    BY <1>9 DEF CollectBaseline, LocalsAreSet
  <2>2. \A k \in 1 .. Len(Steps) : verdicts[d][k] * Interval \in Nat
    BY WatchedType, ZenonT(30)
  <2>3. CASE 1 > Len(Steps) /\ pc' = [pc EXCEPT ![d] = "verify"] /\ UNCHANGED <<step, elapsed>>
    BY <2>1, <2>3
  <2>4. CASE BeginRollback(d, AskedReason(d))
    BY <1>9, <2>1, <2>4 DEF BeginRollback
  <2>5. CASE /\ pc' = [pc EXCEPT ![d] = "traffic"] /\ 1 <= Len(Steps)
             /\ step' = [step EXCEPT ![d] = 1] /\ elapsed' = [elapsed EXCEPT ![d] = 0]
    BY <2>1, <2>2, <2>5
  <2> QED BY <1>9, <2>3, <2>4, <2>5 DEF CollectBaseline, EnterStep, Move
<1>10. ASSUME NEW d \in Deployments, ShiftTraffic(d) PROVE StepsWatched'
  BY <1>10 DEF ShiftTraffic
<1>11. ASSUME NEW d \in Deployments, PublishStageChanged(d) PROVE StepsWatched'
  <2>1. step[d] \in 1 .. Len(Steps) /\ status[d] # "completed" /\ Watch(d, 0)
    BY <1>11 DEF PublishStageChanged, CompletedAtTheEnd, LocalsAreSet
  <2>2. WatchEffect(d, 0)
    BY <2>1, WatchOutcome
  <2>3. UNCHANGED verdicts /\ pc[d] = "announce"
    BY <1>11 DEF PublishStageChanged
  <2>4. \A k \in 1 .. Len(Steps) : verdicts[d][k] * Interval \in Nat
    BY WatchedType, ZenonT(30)
  <2>5. 0 >= MinDuration => Watched(d, step[d])
    BY <2>1, <2>4, TimesAssumption
  <2> QED BY <2>1, <2>2, <2>3, <2>4, <2>5, SMTT(30) DEF WatchEffect
<1>12. ASSUME NEW d \in Deployments, CollectHealth(d) PROVE StepsWatched'
  BY <1>12 DEF CollectHealth
<1>13. ASSUME NEW d \in Deployments, CheckRollbackCriteria(d) PROVE StepsWatched'
  <2>1. CASE /\ Watch(d, elapsed[d] + Interval) /\ UNCHANGED marks
             /\ verdicts' = [verdicts EXCEPT ![d][step[d]] = @ + 1]
    <3>1. status[d] # "completed"
      BY <1>13 DEF CheckRollbackCriteria, CompletedAtTheEnd
    <3>2. pc[d] = "check" /\ step[d] \in 1 .. Len(Steps) /\ elapsed[d] + Interval \in Nat
      BY <1>13, CheckOutcome
    <3>3. WatchEffect(d, elapsed[d] + Interval)
      BY <2>1, <3>1, <3>2, WatchOutcome
    <3>4. (verdicts[d][step[d]] + 1) * Interval >= elapsed[d] + Interval
      BY <3>2, OneMoreCheck
    <3>5. verdicts'[d][step[d]] * Interval >= elapsed[d] + Interval
      BY <2>1, <3>2, <3>4
    <3>6. \A k \in 1 .. Len(Steps) : verdicts'[d][k] * Interval \in Nat
      BY WatchedType, ZenonT(30)
    <3>7. \A k \in 1 .. (step[d] - 1) : Watched(d, k)'
      BY <2>1, <3>2
    <3>8. elapsed[d] + Interval >= MinDuration => verdicts'[d][step[d]] * Interval >= MinDuration
      BY <3>2, <3>5, <3>6, TransitiveNat, TimesAssumption
    <3>9. \A e \in Deployments \ {d} : verdicts'[e] = verdicts[e]
      BY <2>1
    <3>10. CASE pc'[d] \in {"traffic", "verify"}
      <4>1. verdicts'[d][step[d]] * Interval >= MinDuration /\ (pc'[d] = "traffic" => step'[d] = step[d] + 1 /\ elapsed'[d] = 0)
        BY <3>3, <3>8, <3>10 DEF WatchEffect
      <4>2. pc'[d] = "verify" => step[d] = Len(Steps)
        BY <3>3 DEF WatchEffect
      <4>3. \A k \in 1 .. step[d] : verdicts'[d][k] * Interval >= MinDuration
        <5>1. \A k \in 1 .. step[d] : k = step[d] \/ k \in 1 .. (step[d] - 1)
          BY <3>2
        <5> QED BY <3>7, <4>1, <5>1
      <4>4. \A e \in Deployments \ {d} : pc'[e] = pc[e] /\ step'[e] = step[e] /\ elapsed'[e] = elapsed[e]
        BY <3>3 DEF WatchEffect
      <4>5. CASE pc'[d] = "verify"
        BY <3>9, <4>2, <4>3, <4>4, <4>5
      <4>6. CASE pc'[d] = "traffic"
        <5>1. step'[d] \in 1 .. Len(Steps) /\ verdicts'[d][step'[d]] * Interval \in Nat
          BY <3>2, <3>3, <3>6, <4>6 DEF WatchEffect
        <5>2. verdicts'[d][step'[d]] * Interval >= elapsed'[d]
          BY <4>1, <4>6, <5>1
        <5>3. \A k \in 1 .. (step'[d] - 1) : Watched(d, k)'
          BY <3>2, <4>1, <4>3, <4>6
        <5>4. pc'[d] \notin AfterRollout
          BY <4>6
        <5> QED BY <3>9, <4>4, <5>2, <5>3, <5>4
      <4> QED BY <3>10, <4>5, <4>6
    <3>11. CASE pc'[d] = "collect"
      BY <3>2, <3>3, <3>5, <3>7, <3>9, <3>11, SMTT(30) DEF WatchEffect
    <3>12. CASE pc'[d] = "rollback"
      BY <3>3, <3>9, <3>12, ZenonT(30) DEF WatchEffect
    <3> QED BY <3>3, <3>10, <3>11, <3>12 DEF WatchEffect
  <2>2. CASE BeginRollback(d, "error_rate_exceeded") \/ BeginRollback(d, "latency_exceeded")
    <3>1. pc'[d] = "rollback" /\ \A e \in Deployments \ {d} : verdicts'[e] = verdicts[e]
      BY <1>13, <2>2 DEF CheckRollbackCriteria
    <3>2. \A e \in Deployments \ {d} : pc'[e] = pc[e] /\ step'[e] = step[e] /\ elapsed'[e] = elapsed[e]
      BY <2>2
    <3> QED BY <3>1, <3>2
  <2> QED BY <1>13, <2>1, <2>2, CheckOutcome
<1>14. ASSUME NEW d \in Deployments, RunAcceptanceVerification(d) PROVE StepsWatched'
  BY <1>14 DEF RunAcceptanceVerification
<1>15. ASSUME NEW d \in Deployments, PublishCompleted(d) PROVE StepsWatched'
  BY <1>15 DEF PublishCompleted
<1>16. ASSUME NEW d \in Deployments, Rollback(d) PROVE StepsWatched'
  BY <1>16 DEF Rollback
<1>17. ASSUME NEW d \in Deployments, PublishRolledBack(d) PROVE StepsWatched'
  BY <1>17 DEF PublishRolledBack
<1>18. TypeOK
  OBVIOUS
<1> HIDE DEF PInv, TypeOK, StepsWatched
<1> QED BY <1>1, <1>2, <1>3, <1>4, <1>5, <1>6, <1>7, <1>8, <1>9, <1>10, <1>11, <1>12, <1>13, <1>14,
        <1>15, <1>16, <1>17, <1>18, StepKinds, Zenon DEF Run

\* A step of one workflow leaves the others, and every request, alone.
Frame(d) ==
    /\ UNCHANGED <<asked, heard, cached, late, needs>>
    /\ \A e \in Deployments \ {d} :
          /\ pc'[e] = pc[e] /\ status'[e] = status[e] /\ step'[e] = step[e] /\ elapsed'[e] = elapsed[e]
          /\ marks'[e] = marks[e] /\ verdicts'[e] = verdicts[e]
          /\ <<"completed", e>> \in events' => <<"completed", e>> \in events

LEMMA RunFrame ==
  ASSUME PInv, NEW d \in Deployments, Run(d)
  PROVE  Open(d) /\ Frame(d)
<1> USE DEF PInv, TypeOK, Open, Ended, Frame, Move, BeginRollback, Mark, signals, history
<1>1. ASSUME DeployToStaging(d) PROVE Open(d) /\ Frame(d)
  BY <1>1 DEF DeployToStaging
<1>2. ASSUME RunSmokeTests(d) PROVE Open(d) /\ Frame(d)
  BY <1>2 DEF RunSmokeTests
<1>3. ASSUME RequestApproval(d) PROVE Open(d) /\ Frame(d)
  BY <1>3 DEF RequestApproval
<1>4. ASSUME ApprovalGate(d) PROVE Open(d) /\ Frame(d)
  BY <1>4 DEF ApprovalGate
<1>5. ASSUME ApprovalTimeout(d) PROVE Open(d) /\ Frame(d)
  BY <1>5 DEF ApprovalTimeout
<1>6. ASSUME CollectBaseline(d) PROVE Open(d) /\ Frame(d)
  BY <1>6 DEF CollectBaseline, EnterStep
<1>7. ASSUME ShiftTraffic(d) PROVE Open(d) /\ Frame(d)
  BY <1>7 DEF ShiftTraffic
<1>8. ASSUME PublishStageChanged(d) PROVE Open(d) /\ Frame(d)
  <2>1. step[d] \in 1 .. Len(Steps) /\ status[d] # "completed" /\ Watch(d, 0)
    BY <1>8 DEF PublishStageChanged, CompletedAtTheEnd, LocalsAreSet
  <2>2. WatchEffect(d, 0)
    BY <2>1, WatchOutcome
  <2> QED BY <1>8, <2>2 DEF PublishStageChanged, WatchEffect
<1>9. ASSUME CollectHealth(d) PROVE Open(d) /\ Frame(d)
  BY <1>9 DEF CollectHealth
<1>10. ASSUME CheckRollbackCriteria(d) PROVE Open(d) /\ Frame(d)
  <2>1. \A e \in Deployments \ {d} : marks'[e] = marks[e] /\ verdicts'[e] = verdicts[e]
    BY <1>10 DEF CheckRollbackCriteria
  <2>2. CASE Watch(d, elapsed[d] + Interval)
    <3>1. status[d] # "completed" /\ step[d] \in 1 .. Len(Steps) /\ elapsed[d] + Interval \in Nat
      BY <1>10, CheckOutcome DEF CheckRollbackCriteria, CompletedAtTheEnd
    <3>2. WatchEffect(d, elapsed[d] + Interval)
      BY <2>2, <3>1, WatchOutcome
    <3> QED BY <1>10, <2>1, <3>2 DEF CheckRollbackCriteria, WatchEffect
  <2>3. CASE BeginRollback(d, "error_rate_exceeded") \/ BeginRollback(d, "latency_exceeded")
    BY <1>10, <2>1, <2>3 DEF CheckRollbackCriteria
  <2> QED BY <1>10, <2>2, <2>3 DEF CheckRollbackCriteria
<1>11. ASSUME RunAcceptanceVerification(d) PROVE Open(d) /\ Frame(d)
  BY <1>11 DEF RunAcceptanceVerification
<1>12. ASSUME PublishCompleted(d) PROVE Open(d) /\ Frame(d)
  BY <1>12 DEF PublishCompleted
<1>13. ASSUME Rollback(d) PROVE Open(d) /\ Frame(d)
  BY <1>13 DEF Rollback
<1>14. ASSUME PublishRolledBack(d) PROVE Open(d) /\ Frame(d)
  BY <1>14 DEF PublishRolledBack
<1> QED BY Run(d), <1>1, <1>2, <1>3, <1>4, <1>5, <1>6, <1>7, <1>8, <1>9, <1>10, <1>11, <1>12, <1>13, <1>14, Zenon DEF Run

\* A step of a workflow completes it, or announces that, at the end only.
LEMMA RunEndings ==
  ASSUME PInv, NEW d \in Deployments, Run(d)
  PROVE  /\ status'[d] = "completed" => pc'[d] \in {"publish", "completed"}
         /\ <<"completed", d>> \in events' => pc'[d] = "completed"
<1> DEFINE Goal == /\ status'[d] = "completed" => pc'[d] \in {"publish", "completed"}
                   /\ <<"completed", d>> \in events' => pc'[d] = "completed"
<1> USE DEF PInv, TypeOK, CompletedAtTheEnd, Move, BeginRollback, signals, history
<1>1. ASSUME DeployToStaging(d) PROVE Goal
  BY <1>1 DEF DeployToStaging
<1>2. ASSUME RunSmokeTests(d) PROVE Goal
  BY <1>2 DEF RunSmokeTests
<1>3. ASSUME RequestApproval(d) PROVE Goal
  BY <1>3 DEF RequestApproval
<1>4. ASSUME ApprovalGate(d) PROVE Goal
  BY <1>4 DEF ApprovalGate
<1>5. ASSUME ApprovalTimeout(d) PROVE Goal
  BY <1>5 DEF ApprovalTimeout
<1>6. ASSUME CollectBaseline(d) PROVE Goal
  BY <1>6 DEF CollectBaseline, EnterStep
<1>7. ASSUME ShiftTraffic(d) PROVE Goal
  BY <1>7 DEF ShiftTraffic
<1>8. ASSUME PublishStageChanged(d) PROVE Goal
  <2>1. step[d] \in 1 .. Len(Steps) /\ status[d] # "completed" /\ Watch(d, 0)
    BY <1>8 DEF PublishStageChanged, LocalsAreSet
  <2>2. WatchEffect(d, 0)
    BY <2>1, WatchOutcome
  <2> QED BY <1>8, <2>2 DEF PublishStageChanged, WatchEffect
<1>9. ASSUME CollectHealth(d) PROVE Goal
  BY <1>9 DEF CollectHealth
<1>10. ASSUME CheckRollbackCriteria(d) PROVE Goal
  <2>1. CASE Watch(d, elapsed[d] + Interval)
    <3>1. status[d] # "completed" /\ step[d] \in 1 .. Len(Steps) /\ elapsed[d] + Interval \in Nat
      BY <1>10, CheckOutcome DEF CheckRollbackCriteria
    <3>2. WatchEffect(d, elapsed[d] + Interval)
      BY <2>1, <3>1, WatchOutcome
    <3> QED BY <1>10, <3>2 DEF CheckRollbackCriteria, WatchEffect
  <2>2. CASE BeginRollback(d, "error_rate_exceeded") \/ BeginRollback(d, "latency_exceeded")
    BY <1>10, <2>2 DEF CheckRollbackCriteria
  <2> QED BY <1>10, <2>1, <2>2 DEF CheckRollbackCriteria
<1>11. ASSUME RunAcceptanceVerification(d) PROVE Goal
  BY <1>11 DEF RunAcceptanceVerification
<1>12. ASSUME PublishCompleted(d) PROVE Goal
  BY <1>12 DEF PublishCompleted
<1>13. ASSUME Rollback(d) PROVE Goal
  BY <1>13 DEF Rollback
<1>14. ASSUME PublishRolledBack(d) PROVE Goal
  BY <1>14 DEF PublishRolledBack
<1> HIDE DEF Goal
<1>15. Goal
  BY Run(d), <1>1, <1>2, <1>3, <1>4, <1>5, <1>6, <1>7, <1>8, <1>9, <1>10, <1>11, <1>12, <1>13, <1>14, Zenon DEF Run
<1> QED BY <1>15 DEF Goal

\* Calls in flight.
LEMMA NextLate == PInv /\ [Next]_vars => LateCallsEarned'
<1> SUFFICES ASSUME PInv, [Next]_vars PROVE LateCallsEarned'
  OBVIOUS
<1> USE DEF LateCallsEarned, Admitted, Watched
<1>0. TypeOK /\ TypeOK'
  BY NextType DEF PInv
<1>1. CASE Quiet
  BY <1>0, <1>1 DEF Quiet, workflow, history, PInv, TypeOK
<1>2. ASSUME NEW d \in Deployments, NEW confident \in BOOLEAN, StartDeployment(d, confident) PROVE LateCallsEarned'
  BY <1>2 DEF StartDeployment, Move, history, PInv, TypeOK
<1>3. ASSUME NEW d \in Deployments, CancelDeployment(d) PROVE LateCallsEarned'
  <2>1. /\ UNCHANGED <<needs, marks, verdicts>> /\ pc'[d] = "cancelled"
        /\ \A e \in Deployments \ {d} : late'[e] = late[e] /\ pc'[e] = pc[e]
    BY <1>3 DEF CancelDeployment, history, PInv, TypeOK
  <2>2. CASE pc[d] = "traffic"
    <3>1. late'[d] = Steps[step[d]] /\ step[d] \in 1 .. Len(Steps)
      BY <1>3, <2>2 DEF CancelDeployment, PInv, TypeOK, LocalsAreSet
    <3>2. Admitted(d) /\ "unhealthy" \notin marks[d]
      BY <2>2 DEF PInv, MilestonesPassed
    <3>3. \A j \in 1 .. (step[d] - 1) : Watched(d, j)
      BY <2>2 DEF PInv, StepsWatched
    <3> QED BY <2>1, <3>1, <3>2, <3>3 DEF PInv
  <2>3. CASE pc[d] # "traffic"
    <3>1. late'[d] \in {0, None}
      BY <1>3, <2>3 DEF CancelDeployment, PInv, TypeOK
    <3> QED BY <2>1, <3>1 DEF PInv
  <2> QED BY <2>2, <2>3
<1>4. ASSUME NEW d \in Deployments, Run(d) PROVE LateCallsEarned'
  <2>1. Open(d) /\ Frame(d)
    BY <1>4, RunFrame
  <2>2. late'[d] = None
    BY <2>1 DEF Open, Ended, Frame, PInv
  <2> QED BY <2>1, <2>2 DEF Frame, PInv
<1> HIDE DEF LateCallsEarned
<1> QED BY <1>0, <1>1, <1>2, <1>3, <1>4, StepKinds, Zenon

\* Where deployments are completed, and with what behind them.
LEMMA NextCompleted == PInv /\ [Next]_vars => (CompletedAtTheEnd /\ CompletedIsEarned)'
<1> DEFINE Goal == (CompletedAtTheEnd /\ CompletedIsEarned)'
<1> SUFFICES ASSUME PInv, [Next]_vars PROVE Goal
  OBVIOUS
<1>0. TypeOK /\ TypeOK' /\ LocalsAreSet' /\ MilestonesPassed' /\ StepsWatched'
  BY NextType, NextLocals, NextMilestones, NextWatched DEF PInv
<1> USE DEF CompletedAtTheEnd, CompletedIsEarned, Admitted, Watched
<1>1. CASE Quiet
  BY <1>0, <1>1 DEF Quiet, workflow, history, PInv
<1>2. ASSUME NEW d \in Deployments, NEW confident \in BOOLEAN, StartDeployment(d, confident) PROVE Goal
  BY <1>2 DEF StartDeployment, Move, history, PInv, TypeOK
<1>3. ASSUME NEW d \in Deployments, CancelDeployment(d) PROVE Goal
  BY <1>3 DEF CancelDeployment, Open, Ended, history, PInv, TypeOK
<1>4. ASSUME NEW d \in Deployments, Run(d) PROVE Goal
  <2>1. Open(d) /\ Frame(d)
    BY <1>4, RunFrame
  <2>2. /\ status'[d] = "completed" => pc'[d] \in {"publish", "completed"}
        /\ <<"completed", d>> \in events' => pc'[d] = "completed"
    BY <1>4, RunEndings
  <2>3. pc'[d] \in {"publish", "completed"} =>
            /\ Admitted(d)' /\ "verified" \in marks'[d] /\ "unhealthy" \notin marks'[d]
            /\ \A k \in 1 .. Len(Steps) : Watched(d, k)'
    BY <1>0 DEF MilestonesPassed, StepsWatched
  <2> QED BY <2>1, <2>2, <2>3 DEF Frame, PInv
<1> HIDE DEF Goal
<1> QED BY <1>0, <1>1, <1>2, <1>3, <1>4, StepKinds, Zenon

\* A request a workflow can still see is seen, or there is a later test.
LEMMA RunSeesRequests ==
  ASSUME PInv, NEW d \in Deployments, Run(d), asked[d] # None, FlagTestAhead(d) \/ pc[d] \in Abandoned
  PROVE  FlagTestAhead(d)' \/ pc'[d] \in Abandoned
<1> DEFINE Goal == FlagTestAhead(d)' \/ pc'[d] \in Abandoned
<1> USE LengthType, TimesAssumption DEF PInv, TypeOK, LocalsAreSet, FlagTestAhead, Move, BeginRollback, signals, history
<1>1. ASSUME DeployToStaging(d) PROVE Goal
  BY <1>1 DEF DeployToStaging
<1>2. ASSUME RunSmokeTests(d) PROVE Goal
  BY <1>2 DEF RunSmokeTests
<1>3. ASSUME RequestApproval(d) PROVE Goal
  BY <1>3 DEF RequestApproval
<1>4. ASSUME ApprovalGate(d) PROVE Goal
  BY <1>4 DEF ApprovalGate
<1>5. ASSUME ApprovalTimeout(d) PROVE Goal
  BY <1>5 DEF ApprovalTimeout
<1>6. ASSUME CollectBaseline(d) PROVE Goal
  BY <1>6 DEF CollectBaseline, EnterStep
<1>7. ASSUME ShiftTraffic(d) PROVE Goal
  BY <1>7 DEF ShiftTraffic
<1>8. ASSUME PublishStageChanged(d) PROVE Goal
  <2>1. step[d] \in 1 .. Len(Steps) /\ status[d] # "completed" /\ Watch(d, 0)
    BY <1>8 DEF PublishStageChanged, CompletedAtTheEnd
  <2>2. WatchEffect(d, 0)
    BY <2>1, WatchOutcome
  <2> QED BY <1>8, <2>1, <2>2 DEF PublishStageChanged, WatchEffect
<1>9. ASSUME CollectHealth(d) PROVE Goal
  BY <1>9 DEF CollectHealth
<1>10. ASSUME CheckRollbackCriteria(d) PROVE Goal
  <2>1. CASE Watch(d, elapsed[d] + Interval)
    <3>1. status[d] # "completed" /\ pc[d] = "check" /\ step[d] \in 1 .. Len(Steps) /\ elapsed[d] + Interval \in Nat
      BY <1>10, CheckOutcome DEF CheckRollbackCriteria, CompletedAtTheEnd
    <3>2. WatchEffect(d, elapsed[d] + Interval)
      BY <2>1, <3>1, WatchOutcome
    <3> QED BY <3>1, <3>2 DEF WatchEffect
  <2>2. CASE BeginRollback(d, "error_rate_exceeded") \/ BeginRollback(d, "latency_exceeded")
    BY <2>2
  <2> QED BY <1>10, <2>1, <2>2 DEF CheckRollbackCriteria
<1>11. ASSUME RunAcceptanceVerification(d) PROVE Goal
  BY <1>11 DEF RunAcceptanceVerification
<1>12. ASSUME PublishCompleted(d) PROVE Goal
  BY <1>12 DEF PublishCompleted
<1>13. ASSUME Rollback(d) PROVE Goal
  BY <1>13 DEF Rollback
<1>14. ASSUME PublishRolledBack(d) PROVE Goal
  BY <1>14 DEF PublishRolledBack
<1> HIDE DEF Goal
<1>15. Goal
  BY Run(d), <1>1, <1>2, <1>3, <1>4, <1>5, <1>6, <1>7, <1>8, <1>9, <1>10, <1>11, <1>12, <1>13, <1>14, Zenon DEF Run
<1> QED BY <1>15 DEF Goal

LEMMA NextRequests == PInv /\ [Next]_vars => (RequestsSeen /\ RollbackHonouredInRollout)'
<1> DEFINE Goal == (RequestsSeen /\ RollbackHonouredInRollout)'
<1> SUFFICES ASSUME PInv, [Next]_vars PROVE Goal
  OBVIOUS
<1>0. TypeOK /\ TypeOK'
  BY NextType DEF PInv
<1> USE DEF RequestsSeen, RollbackHonouredInRollout
<1>1. ASSUME UNCHANGED <<workflow, asked, heard>> PROVE Goal
  BY <1>1 DEF workflow, PInv, FlagTestAhead
<1>2. ASSUME NEW d \in Deployments, NEW why \in Requested, TriggerRollback(d, why) PROVE Goal
  <2>1. UNCHANGED <<pc, status, step, elapsed, needs>> /\ why # None
    BY <1>2, NoneIsNoName DEF TriggerRollback, workflow, Requested
  <2>2. \A e \in Deployments \ {d} : heard'[e] = heard[e] /\ asked'[e] = asked[e]
    BY <1>2, <1>0 DEF TriggerRollback, TypeOK
  <2>3. asked'[d] = why /\ (heard'[d] = "tested" => heard[d] = "tested" \/ FlagTestAhead(d))
    BY <1>2, <1>0 DEF TriggerRollback, Moment, TypeOK
  <2>4. FlagTestAhead(d) => status[d] # "completed"
    BY DEF PInv, CompletedAtTheEnd, FlagTestAhead
  <2> QED BY <2>1, <2>2, <2>3, <2>4 DEF PInv, FlagTestAhead
<1>3. ASSUME NEW d \in Deployments, NEW confident \in BOOLEAN, StartDeployment(d, confident) PROVE Goal
  <2>1. heard[d] # "tested" /\ UNCHANGED <<asked, heard, step, elapsed>>
    BY <1>3 DEF StartDeployment, PInv, FlagTestAhead, signals
  <2>2. \A e \in Deployments \ {d} : pc'[e] = pc[e] /\ status'[e] = status[e] /\ needs'[e] = needs[e]
    BY <1>3, <1>0 DEF StartDeployment, Move, TypeOK
  <2> QED BY <2>1, <2>2 DEF PInv, FlagTestAhead
<1>4. ASSUME NEW d \in Deployments, CancelDeployment(d) PROVE Goal
  BY <1>4, <1>0 DEF CancelDeployment, PInv, FlagTestAhead, signals, TypeOK
<1>5. ASSUME NEW d \in Deployments, Run(d) PROVE Goal
  <2>1. Open(d) /\ Frame(d)
    BY <1>5, RunFrame
  <2>2. heard[d] = "tested" => FlagTestAhead(d)' \/ pc'[d] \in Abandoned
    BY <1>5, RunSeesRequests DEF PInv
  <2>3. status'[d] = "completed" => pc'[d] \in {"publish", "completed"}
    BY <1>5, RunEndings
  <2> QED BY <2>1, <2>2, <2>3 DEF Frame, FlagTestAhead, PInv
<1>6. \A d \in Deployments : StartFails(d) \/ LateCall(d) => UNCHANGED <<workflow, asked, heard>>
  BY DEF StartFails, LateCall, signals
<1>7. \A d \in Deployments : \A what \in Decisions : ApprovalReceived(d, what) => UNCHANGED <<workflow, asked, heard>>
  BY DEF ApprovalReceived
<1>8. ManagerRestarts \/ UNCHANGED vars => UNCHANGED <<workflow, asked, heard>>
  BY DEF ManagerRestarts, signals, vars, workflow
<1> HIDE DEF Goal
<1> QED BY <1>1, <1>2, <1>3, <1>4, <1>5, <1>6, <1>7, <1>8, Zenon DEF Next, Request

LEMMA NextCancelled == PInv /\ [Next]_vars => CancelledMeansStopped'
<1> SUFFICES ASSUME PInv, [Next]_vars PROVE CancelledMeansStopped'
  OBVIOUS
<1>0. TypeOK
  BY DEF PInv
<1> USE NoneIsNoName DEF CancelledMeansStopped
<1>1. CASE Quiet
  BY <1>1 DEF Quiet, workflow, PInv
<1>2. ASSUME NEW d \in Deployments, NEW confident \in BOOLEAN, StartDeployment(d, confident) PROVE CancelledMeansStopped'
  BY <1>2, <1>0 DEF StartDeployment, Move, PInv, TypeOK
<1>3. ASSUME NEW d \in Deployments, CancelDeployment(d) PROVE CancelledMeansStopped'
  BY <1>3, <1>0 DEF CancelDeployment, PInv, TypeOK
<1>4. ASSUME NEW d \in Deployments, Run(d) PROVE CancelledMeansStopped'
  <2>1. Open(d) /\ Frame(d)
    BY <1>4, RunFrame
  <2> QED BY <2>1 DEF Open, Ended, Frame, PInv
<1> HIDE DEF CancelledMeansStopped
<1> QED BY <1>0, <1>1, <1>2, <1>3, <1>4, StepKinds, Zenon

LEMMA NextPInv == PInv /\ [Next]_vars => PInv'
  BY NextType, NextLocals, NextMilestones, NextWatched, NextLate, NextCompleted, NextRequests, NextCancelled
  DEF PInv

-----------------------------------------------------------------------------
(* The theorems. *)

LEMMA Invariance == Spec => []PInv
  BY InitPInv, NextPInv, PTL DEF Spec

\* Whatever signals arrive, calls fail and API processes restart, a deployment
\* completes only after everything its plan asks for, never against a rollback
\* request the workflow could still see, and one reported as cancelled has
\* stopped (DeploymentWorkflow.run, PipelineManager).
THEOREM DeploymentsEarned == Spec => []DeploymentsAreEarned
<1>1. PInv => DeploymentsAreEarned
  BY DEF PInv, DeploymentsAreEarned
<1> QED BY <1>1, Invariance, PTL

\* Production traffic is raised only to a step of the plan, and only for a
\* deployment that was staged, tested, approved and healthy for the whole of
\* every earlier step, calls that land after a cancellation included.
THEOREM TrafficFollows == Spec => TrafficFollowsThePlan
<1>1. PInv /\ [Next]_vars => [TrafficStep]_vars
  <2> SUFFICES ASSUME PInv, [Next]_vars PROVE TrafficStep \/ UNCHANGED vars
    OBVIOUS
  <2>0. \A e \in Deployments : traffic[e] \in Nat
    <3>1. \A e \in Deployments : traffic[e] \in 0 .. 100
      BY DEF PInv, TypeOK
    <3>2. \A x \in 0 .. 100 : x \in Nat
      OBVIOUS
    <3> QED BY <3>1, <3>2
  <2>1. ASSUME UNCHANGED traffic PROVE TrafficStep
    BY <2>0, <2>1 DEF TrafficStep
  <2>2. ASSUME NEW d \in Deployments, ShiftTraffic(d) PROVE TrafficStep
    <3>1. /\ traffic'[d] \in {traffic[d], Steps[step[d]]}
          /\ \A e \in Deployments \ {d} : traffic'[e] = traffic[e]
      BY <2>2 DEF ShiftTraffic, PInv, TypeOK
    <3>3. pc[d] = "traffic" /\ step[d] \in 1 .. Len(Steps)
      BY <2>2 DEF ShiftTraffic, PInv, LocalsAreSet
    <3>4. Admitted(d) /\ "unhealthy" \notin marks[d] /\ \A j \in 1 .. (step[d] - 1) : Watched(d, j)
      BY <3>3 DEF PInv, MilestonesPassed, StepsWatched
    <3> QED BY <3>1, <2>0, <3>3, <3>4 DEF TrafficStep
  <2>3. ASSUME NEW d \in Deployments, Rollback(d) PROVE TrafficStep
    <3>1. /\ traffic'[d] \in {traffic[d], 0}
          /\ \A e \in Deployments \ {d} : traffic'[e] = traffic[e]
      BY <2>3 DEF Rollback, PInv, TypeOK
    <3> QED BY <2>0, <3>1 DEF TrafficStep
  <2>4. ASSUME NEW d \in Deployments, LateCall(d) PROVE TrafficStep
    <3>1. /\ late[d] # None /\ traffic'[d] = late[d]
          /\ \A e \in Deployments \ {d} : traffic'[e] = traffic[e]
      BY <2>4 DEF LateCall, PInv, TypeOK
    <3>3. traffic'[d] > traffic[d] => late[d] # 0
      BY <3>1, <2>0
    <3> QED BY <3>1, <2>0, <3>3 DEF TrafficStep, PInv, LateCallsEarned
  <2>5. \A d \in Deployments : (\E confident \in BOOLEAN : StartDeployment(d, confident)) \/ StartFails(d)
          \/ (\E why \in Requested : TriggerRollback(d, why)) \/ (\E what \in Decisions : ApprovalReceived(d, what))
          \/ CancelDeployment(d) => UNCHANGED traffic
    BY DEF StartDeployment, StartFails, TriggerRollback, ApprovalReceived, CancelDeployment
  <2>6. \A d \in Deployments : DeployToStaging(d) \/ RunSmokeTests(d) \/ RequestApproval(d) \/ ApprovalGate(d)
          \/ ApprovalTimeout(d) \/ CollectBaseline(d) \/ PublishStageChanged(d) \/ CollectHealth(d)
          \/ CheckRollbackCriteria(d) \/ RunAcceptanceVerification(d) \/ PublishCompleted(d)
          \/ PublishRolledBack(d) => UNCHANGED traffic
    BY DEF DeployToStaging, RunSmokeTests, RequestApproval, ApprovalGate, ApprovalTimeout, CollectBaseline,
           PublishStageChanged, CollectHealth, CheckRollbackCriteria, RunAcceptanceVerification,
           PublishCompleted, PublishRolledBack
  <2>7. ManagerRestarts => UNCHANGED traffic
    BY DEF ManagerRestarts
  <2> QED BY <2>1, <2>2, <2>3, <2>4, <2>5, <2>6, <2>7, Zenon DEF Next, Request, Run
<1> QED BY <1>1, Invariance, PTL DEF Spec, TrafficFollowsThePlan

=============================================================================
