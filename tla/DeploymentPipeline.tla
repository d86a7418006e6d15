-------------------------- MODULE DeploymentPipeline --------------------------
(***************************************************************************)
(* The deployment pipeline: DeploymentWorkflow (temporal/workflows.py),    *)
(* its activities (temporal/activities.py) and the PipelineManager that    *)
(* starts, cancels and signals it.                                         *)
(*                                                                         *)
(* A workflow runs without interruption from one await to the next, so     *)
(* every action is one activity (or one expired wait) together with the    *)
(* workflow code that follows it up to the next await:                     *)
(*                                                                         *)
(*   absent -> staging -> smoke -> [request -> waiting ->] baseline        *)
(*     -> (traffic -> announce -> (collect -> check)* )* -> verify         *)
(*     -> publish -> completed                                             *)
(*   anywhere -> rollback -> publishRollback -> rolledBack                 *)
(*   anywhere -> cancelled                                                 *)
(*                                                                         *)
(* Signals and cancellation arrive at any await.  Every activity catches   *)
(* its own exceptions, so a failed call is a result like another; a call   *)
(* whose answer is lost may have taken effect.  The stage and percentage   *)
(* get_state reports are those of Steps[step].                             *)
(***************************************************************************)
EXTENDS Naturals, Sequences

CONSTANTS
    Deployments,    \* identifiers new_deployment_id may return
    Steps,          \* traffic percentages of plan.rollout_steps, in order
    MinDuration,    \* RolloutStep.min_duration_seconds
    Interval,       \* RolloutStep.health_check_interval_seconds
    Healths,        \* metrics the deployed service may report
    Baselines,      \* metrics production may report
    DefaultBaseline,\* what is used when production does not answer
    Sigma,          \* rollback_error_sigma
    Multiplier,     \* rollback_latency_multiplier
    AlwaysAsk,      \* first_deploy_requires_human
    None

Metrics == [error : Nat, p95 : Nat]
Baseline == [mean : Nat, dev : Nat, p95 : Nat]

ASSUME StepsAssumption ==
    /\ Steps \in Seq(1 .. 100)
    /\ \A k \in 1 .. Len(Steps) : \A j \in 1 .. (k - 1) : Steps[j] < Steps[k]
ASSUME TimesAssumption    == MinDuration \in Nat /\ Interval \in Nat \ {0}
ASSUME MetricsAssumption  == Healths \subseteq Metrics
ASSUME BaselineAssumption == Baselines \subseteq Baseline /\ DefaultBaseline \in Baseline
ASSUME LimitsAssumption   == Sigma \in Nat /\ Multiplier \in Nat /\ AlwaysAsk \in BOOLEAN

\* What a rollback request may give as its reason: any string, so one that
\* RollbackReason knows, none at all, and one it does not know.
Requested == {"manual", "", "custom"}
Decisions == {"approved", "denied", "other"}
ASSUME NoneAssumption ==
    None \notin Metrics \cup Baseline \cup Nat \cup Requested \cup Decisions \cup {"pending", "cancelled"}

VARIABLES
    pc,         \* deployment -> the await its workflow is at
    status,     \* deployment -> _current_status
    step,       \* deployment -> index of the rollout step, 0 before the first
    elapsed,    \* deployment -> seconds watched in this step
    baseline,   \* deployment -> what the baseline activity returned
    health,     \* deployment -> the last metrics collected
    needs,      \* deployment -> needs_approval
    decision,   \* deployment -> _approval_decision, None before a signal
    asked,      \* deployment -> _rollback_reason once _rollback_requested
    reason,     \* deployment -> the reason it is rolled back for
    cached,     \* deployment -> status in PipelineManager._deployments
    traffic,    \* deployment -> percentage really routed to it
    late,       \* deployment -> percentage a call in flight may still set
    events,     \* <<kind, deployment>> on the event bus
    marks,      \* history: deployment -> milestones really passed
    verdicts,   \* history: deployment -> step -> healthy checks
    heard       \* history: deployment -> when the first rollback request came

workflow == <<pc, status, step, elapsed, baseline, health, needs, reason>>
signals  == <<decision, asked, heard>>
history  == <<marks, verdicts>>
vars == <<pc, status, step, elapsed, baseline, health, needs, decision, asked, reason, cached,
          traffic, late, events, marks, verdicts, heard>>

Ended   == {"completed", "rolledBack", "cancelled"}
Pcs     == {"absent", "staging", "smoke", "request", "waiting", "baseline", "traffic", "announce",
            "collect", "check", "verify", "publish", "rollback", "publishRollback"} \cup Ended
Statuses == {"pending", "staging", "smoke_testing", "awaiting_approval", "canary", "rolling_out",
             "verifying", "completed", "rolled_back"}
Reasons == {"manual", "error_rate_exceeded", "latency_exceeded", "smoke_test_failed",
            "verification_failed", "approval_denied"}
Milestones == {"staged", "smoke", "gate", "verified", "unhealthy"}

Open(d) == pc[d] \notin Ended \cup {"absent"}
Move(d, to, st) ==
    /\ pc' = [pc EXCEPT ![d] = to]
    /\ status' = [status EXCEPT ![d] = st]
Mark(d, m) == marks' = [marks EXCEPT ![d] = @ \cup m]

Init ==
    /\ pc = [d \in Deployments |-> "absent"]
    /\ status = [d \in Deployments |-> "pending"]
    /\ step = [d \in Deployments |-> 0]
    /\ elapsed = [d \in Deployments |-> 0]
    /\ baseline = [d \in Deployments |-> None]
    /\ health = [d \in Deployments |-> None]
    /\ needs = [d \in Deployments |-> FALSE]
    /\ decision = [d \in Deployments |-> None]
    /\ asked = [d \in Deployments |-> None]
    /\ reason = [d \in Deployments |-> None]
    /\ cached = [d \in Deployments |-> None]
    /\ traffic = [d \in Deployments |-> 0]
    /\ late = [d \in Deployments |-> None]
    /\ events = {}
    /\ marks = [d \in Deployments |-> {}]
    /\ verdicts = [d \in Deployments |-> [k \in 1 .. Len(Steps) |-> 0]]
    /\ heard = [d \in Deployments |-> "never"]

\* _do_rollback up to its first await.
BeginRollback(d, why) ==
    /\ Move(d, "rollback", "rolled_back")
    /\ reason' = [reason EXCEPT ![d] = why]
    /\ UNCHANGED <<step, elapsed>>

\* self._rollback_reason or RollbackReason.MANUAL.
AskedReason(d) == IF asked[d] = "" THEN "manual" ELSE asked[d]

\* The rollout loop: the next step, or what follows the last one.
EnterStep(d, k) ==
    \/ /\ k > Len(Steps)
       /\ Move(d, "verify", "verifying")
       /\ UNCHANGED <<step, elapsed, reason>>
    \/ /\ k <= Len(Steps) /\ asked[d] # None
       /\ BeginRollback(d, AskedReason(d))
    \/ /\ k <= Len(Steps) /\ asked[d] = None
       /\ Move(d, "traffic", IF Steps[k] <= 5 THEN "canary" ELSE "rolling_out")
       /\ step' = [step EXCEPT ![d] = k]
       /\ elapsed' = [elapsed EXCEPT ![d] = 0]
       /\ UNCHANGED reason

\* Fault: a step is left after its first check.
WatchShort(d, spent) ==
    \/ /\ spent > 0
       /\ EnterStep(d, step[d] + 1)
    \/ /\ spent = 0
       /\ Move(d, "collect", status[d])
       /\ UNCHANGED <<step, elapsed, reason>>

\* Fault: the flag is tested between steps only.
WatchUntested(d, spent) ==
    \/ /\ spent >= MinDuration
       /\ EnterStep(d, step[d] + 1)
    \/ /\ spent < MinDuration
       /\ Move(d, "collect", status[d])
       /\ elapsed' = [elapsed EXCEPT ![d] = spent]
       /\ UNCHANGED <<step, reason>>

\* The health loop: while elapsed < min_duration, test the flag and sleep.
Watch(d, spent) ==
    \/ /\ spent >= MinDuration
       /\ EnterStep(d, step[d] + 1)
    \/ /\ spent < MinDuration /\ asked[d] # None
       /\ BeginRollback(d, AskedReason(d))
    \/ /\ spent < MinDuration /\ asked[d] = None
       /\ Move(d, "collect", status[d])
       /\ elapsed' = [elapsed EXCEPT ![d] = spent]
       /\ UNCHANGED <<step, reason>>

-----------------------------------------------------------------------------
(* PipelineManager. *)

\* start_deployment, for an API request or an EVAL_COMPLETED with verdict PASS:
\* the state is cached, then the workflow is started.
StartDeployment(d, confident) ==
    /\ pc[d] = "absent" /\ cached[d] = None
    /\ cached' = [cached EXCEPT ![d] = "pending"]
    /\ needs' = [needs EXCEPT ![d] = AlwaysAsk \/ ~ confident]
    /\ Move(d, "staging", "staging")
    /\ UNCHANGED <<step, elapsed, baseline, health, reason, signals, traffic, late, events, history>>

\* Temporal does not answer: the deployment is cached, nothing runs.
StartFails(d) ==
    /\ pc[d] = "absent" /\ cached[d] = None
    /\ cached' = [cached EXCEPT ![d] = "pending"]
    /\ UNCHANGED <<workflow, signals, traffic, late, events, history>>

\* The workflow will still look at _rollback_requested: at the approval gate,
\* before every step and before every check.  A plan without steps, or whose last
\* step is not watched, is not tested there.
FlagTestAhead(d) ==
    \/ pc[d] \in {"request", "waiting"}
    \/ pc[d] \in {"staging", "smoke"} /\ needs[d]
    \/ pc[d] \in {"staging", "smoke", "baseline", "traffic", "announce", "collect", "check"}
       /\ step[d] < Len(Steps)
    \/ pc[d] \in {"traffic", "announce"} /\ MinDuration > 0
    \/ pc[d] \in {"collect", "check"} /\ elapsed[d] + Interval < MinDuration

Decided(d) == pc[d] \in {"publish", "rollback", "publishRollback"}
Moments == {"tested", "untested", "decided"}
Moment(d) ==
    CASE FlagTestAhead(d) -> "tested" [] Decided(d) -> "decided" [] OTHER -> "untested"

\* trigger_rollback signals rollback_requested; a second reason replaces the first.
TriggerRollback(d, why) ==
    /\ Open(d) /\ asked[d] # why
    /\ asked' = [asked EXCEPT ![d] = why]
    /\ heard' = [heard EXCEPT ![d] = IF @ = "never" THEN Moment(d) ELSE @]
    /\ UNCHANGED <<workflow, decision, cached, traffic, late, events, history>>

\* The approval_received signal; a later one replaces an earlier one.
ApprovalReceived(d, what) ==
    /\ Open(d) /\ decision[d] # what
    /\ decision' = [decision EXCEPT ![d] = what]
    /\ UNCHANGED <<workflow, asked, heard, cached, traffic, late, events, history>>

\* Fault: the workflow takes over a status DeploymentStatus does not have.
CancelDeploymentStatus(d) ==
    /\ Open(d)
    /\ Move(d, "cancelled", "cancelled")
    /\ UNCHANGED <<step, elapsed, baseline, health, needs, reason, signals, cached, traffic, late, events, history>>

\* Fault: the cached status is set although the workflow was already closed.
CancelDeploymentUnchecked(d) ==
    /\ pc[d] # "absent" /\ cached[d] = "pending"
    /\ cached' = [cached EXCEPT ![d] = "cancelled"]
    /\ pc' = [pc EXCEPT ![d] = IF Open(d) THEN "cancelled" ELSE @]
    /\ UNCHANGED <<status, step, elapsed, baseline, health, needs, reason, signals, traffic, late, events, history>>

\* cancel_deployment: the await the workflow is at raises CancelledError and
\* nothing catches it.  A traffic or rollback call that is being made goes on.
CancelDeployment(d) ==
    /\ Open(d)
    /\ pc' = [pc EXCEPT ![d] = "cancelled"]
    /\ cached' = [cached EXCEPT ![d] = IF @ = None THEN None ELSE "cancelled"]
    /\ late' = [late EXCEPT ![d] = CASE pc[d] = "traffic" -> Steps[step[d]]
                                     [] pc[d] = "rollback" -> 0
                                     [] OTHER -> None]
    /\ UNCHANGED <<status, step, elapsed, baseline, health, needs, reason, signals, traffic, events, history>>

LateCall(d) ==
    /\ late[d] # None
    /\ traffic' = [traffic EXCEPT ![d] = late[d]]
    /\ late' = [late EXCEPT ![d] = None]
    /\ UNCHANGED <<workflow, signals, cached, events, history>>

\* The API process is restarted with an empty cache; workflows go on.
ManagerRestarts ==
    /\ cached' = [d \in Deployments |-> None]
    /\ UNCHANGED <<workflow, signals, traffic, late, events, history>>

-----------------------------------------------------------------------------
(* The workflow. *)

\* Step 1.  An exception anywhere, the publication of DEPLOYMENT_STARTED
\* included, counts as a failed deployment.
DeployToStaging(d) ==
    /\ pc[d] = "staging"
    /\ \/ /\ Move(d, "smoke", "smoke_testing")
          /\ events' = events \cup {<<"started", d>>}
          /\ Mark(d, {"staged"})
          /\ UNCHANGED <<step, elapsed, reason>>
       \/ /\ BeginRollback(d, "smoke_test_failed")
          /\ UNCHANGED <<events, marks>>
    /\ UNCHANGED <<baseline, health, needs, signals, cached, traffic, late, verdicts>>

\* Step 2, and the condition of step 3.
RunSmokeTests(d) ==
    /\ pc[d] = "smoke"
    /\ \/ /\ Mark(d, {"smoke"})
          /\ \/ needs[d] /\ Move(d, "request", "awaiting_approval")
             \/ ~ needs[d] /\ Move(d, "baseline", status[d])
          /\ UNCHANGED <<step, elapsed, reason>>
       \/ /\ BeginRollback(d, "smoke_test_failed")
          /\ UNCHANGED marks
    /\ UNCHANGED <<baseline, health, needs, signals, cached, traffic, late, events, verdicts>>

\* Step 3: an escalation is raised; when that fails the workflow waits all the
\* same.
RequestApproval(d) ==
    /\ pc[d] = "request"
    /\ Move(d, "waiting", status[d])
    /\ UNCHANGED <<step, elapsed, reason, baseline, health, needs, signals, cached, traffic, late, events, history>>

\* The wait ends with a signal.  Only the decision "denied" denies.
ApprovalGate(d) ==
    /\ pc[d] = "waiting" /\ (decision[d] # None \/ asked[d] # None)
    /\ \/ /\ asked[d] # None
          /\ BeginRollback(d, AskedReason(d))
          /\ UNCHANGED marks
       \/ /\ asked[d] = None /\ decision[d] = "denied"
          /\ BeginRollback(d, "approval_denied")
          /\ UNCHANGED marks
       \/ /\ asked[d] = None /\ decision[d] # "denied"
          /\ Move(d, "baseline", status[d])
          /\ Mark(d, {"gate"})
          /\ UNCHANGED <<step, elapsed, reason>>
    /\ UNCHANGED <<baseline, health, needs, signals, cached, traffic, late, events, verdicts>>

\* Fault: the wait has no timeout.
ApprovalTimeoutNever(d) == FALSE /\ UNCHANGED vars

\* approval_timeout_minutes without a signal.
ApprovalTimeout(d) ==
    /\ pc[d] = "waiting" /\ decision[d] = None /\ asked[d] = None
    /\ BeginRollback(d, "approval_denied")
    /\ UNCHANGED <<baseline, health, needs, signals, cached, traffic, late, events, history>>

\* Step 4.
CollectBaseline(d) ==
    /\ pc[d] = "baseline"
    /\ \E b \in Baselines \cup {DefaultBaseline} : baseline' = [baseline EXCEPT ![d] = b]
    /\ EnterStep(d, 1)
    /\ UNCHANGED <<health, needs, signals, cached, traffic, late, events, history>>

\* Step 5 and 6: deploy_canary_activity up to 5 %, set_traffic_activity above.
\* The result is not looked at; a failed call may have taken effect.
ShiftTraffic(d) ==
    /\ pc[d] = "traffic"
    /\ \E pct \in {traffic[d], Steps[step[d]]} : traffic' = [traffic EXCEPT ![d] = pct]
    /\ Move(d, "announce", status[d])
    /\ UNCHANGED <<step, elapsed, reason, baseline, health, needs, signals, cached, late, events, history>>

\* stage_changed, then the health loop begins.  A failed publication is logged.
PublishStageChanged(d) ==
    /\ pc[d] = "announce"
    /\ events' \in {events, events \cup {<<"stage_changed", d>>}}
    /\ Watch(d, 0)
    /\ UNCHANGED <<baseline, health, needs, signals, cached, traffic, late, history>>

\* After the sleep.  A service that does not answer has all metrics zero.
CollectHealth(d) ==
    /\ pc[d] = "collect"
    /\ \E h \in Healths \cup {[error |-> 0, p95 |-> 0]} : health' = [health EXCEPT ![d] = h]
    /\ Move(d, "check", status[d])
    /\ UNCHANGED <<step, elapsed, reason, baseline, needs, signals, cached, traffic, late, events, history>>

\* Fault: off by one.
ErrorRateExceededLoose(h, b) == h.error > b.mean + Sigma * b.dev + 1

\* error_rate > mean + sigma * stddev.
ErrorRateExceeded(h, b) == h.error > b.mean + Sigma * b.dev

\* p95 > baseline p95 * multiplier.
LatencyExceeded(h, b) == h.p95 > b.p95 * Multiplier

\* What the checks are for, stated from the plan's thresholds.
Unhealthy(h, b) == ~ (h.error <= b.mean + Sigma * b.dev /\ h.p95 <= b.p95 * Multiplier)

CheckRollbackCriteria(d) ==
    LET h == health[d]
        b == baseline[d]
    IN
    /\ pc[d] = "check"
    /\ \/ /\ ErrorRateExceeded(h, b)
          /\ BeginRollback(d, "error_rate_exceeded")
       \/ /\ ~ ErrorRateExceeded(h, b) /\ LatencyExceeded(h, b)
          /\ BeginRollback(d, "latency_exceeded")
       \/ /\ ~ ErrorRateExceeded(h, b) /\ ~ LatencyExceeded(h, b)
          /\ Watch(d, elapsed[d] + Interval)
    /\ \/ /\ Unhealthy(h, b)
          /\ Mark(d, {"unhealthy"})
          /\ UNCHANGED verdicts
       \/ /\ ~ Unhealthy(h, b)
          /\ verdicts' = [verdicts EXCEPT ![d][step[d]] = @ + 1]
          /\ UNCHANGED marks
    /\ UNCHANGED <<baseline, health, needs, signals, cached, traffic, late, events>>

\* Step 7.
RunAcceptanceVerification(d) ==
    /\ pc[d] = "verify"
    /\ \/ /\ Move(d, "publish", "completed")
          /\ Mark(d, {"verified"})
          /\ UNCHANGED <<step, elapsed, reason>>
       \/ /\ BeginRollback(d, "verification_failed")
          /\ UNCHANGED marks
    /\ UNCHANGED <<baseline, health, needs, signals, cached, traffic, late, events, verdicts>>

\* Step 8.
PublishCompleted(d) ==
    /\ pc[d] = "publish"
    /\ events' \in {events, events \cup {<<"completed", d>>}}
    /\ Move(d, "completed", status[d])
    /\ UNCHANGED <<step, elapsed, reason, baseline, health, needs, signals, cached, traffic, late, history>>

\* rollback_activity: all traffic back to the previous version.  The result is
\* not looked at; a failed call may have taken effect.
Rollback(d) ==
    /\ pc[d] = "rollback"
    /\ \E pct \in {traffic[d], 0} : traffic' = [traffic EXCEPT ![d] = pct]
    /\ Move(d, "publishRollback", status[d])
    /\ UNCHANGED <<step, elapsed, reason, baseline, health, needs, signals, cached, late, events, history>>

\* A reason RollbackReason does not know raises, and nothing is published.
PublishRolledBack(d) ==
    /\ pc[d] = "publishRollback"
    /\ \/ UNCHANGED events
       \/ reason[d] \in Reasons /\ events' = events \cup {<<"rolled_back", d>>}
    /\ Move(d, "rolledBack", status[d])
    /\ UNCHANGED <<step, elapsed, reason, baseline, health, needs, signals, cached, traffic, late, history>>

Run(d) ==
    \/ DeployToStaging(d) \/ RunSmokeTests(d)
    \/ RequestApproval(d) \/ ApprovalGate(d) \/ ApprovalTimeout(d)
    \/ CollectBaseline(d) \/ ShiftTraffic(d) \/ PublishStageChanged(d)
    \/ CollectHealth(d) \/ CheckRollbackCriteria(d)
    \/ RunAcceptanceVerification(d) \/ PublishCompleted(d)
    \/ Rollback(d) \/ PublishRolledBack(d)

Request(d) ==
    \/ \E confident \in BOOLEAN : StartDeployment(d, confident)
    \/ StartFails(d)
    \/ \E why \in Requested : TriggerRollback(d, why)
    \/ \E what \in Decisions : ApprovalReceived(d, what)
    \/ CancelDeployment(d)

Next ==
    \/ \E d \in Deployments : Run(d) \/ Request(d) \/ LateCall(d)
    \/ ManagerRestarts

Spec == Init /\ [][Next]_vars

\* Temporal keeps running an open workflow: activities return or are run again,
\* timers fire.
FairSpec == Spec /\ \A d \in Deployments : WF_vars(Run(d))

-----------------------------------------------------------------------------
(* Properties. *)

\* Every variable has its type.
TypeOK ==
    /\ pc \in [Deployments -> Pcs]
    /\ status \in [Deployments -> Statuses]
    /\ step \in [Deployments -> 0 .. Len(Steps)]
    /\ elapsed \in [Deployments -> Nat]
    /\ baseline \in [Deployments -> Baseline \cup {None}]
    /\ health \in [Deployments -> Metrics \cup {None}]
    /\ needs \in [Deployments -> BOOLEAN]
    /\ decision \in [Deployments -> Decisions \cup {None}]
    /\ asked \in [Deployments -> Requested \cup {None}]
    /\ reason \in [Deployments -> Reasons \cup {"custom", None}]
    /\ cached \in [Deployments -> {"pending", "cancelled", None}]
    /\ traffic \in [Deployments -> 0 .. 100]
    /\ late \in [Deployments -> (0 .. 100) \cup {None}]
    /\ events \subseteq {"started", "stage_changed", "completed", "rolled_back"} \X Deployments
    /\ marks \in [Deployments -> SUBSET Milestones]
    /\ verdicts \in [Deployments -> [1 .. Len(Steps) -> Nat]]
    /\ heard \in [Deployments -> Moments \cup {"never"}]

\* A step of the plan was watched for its whole duration and was healthy at
\* every check.
Watched(d, k) == verdicts[d][k] * Interval >= MinDuration

\* What a deployment must have behind it before it takes production traffic.
Admitted(d) == {"staged", "smoke"} \subseteq marks[d] /\ (needs[d] => "gate" \in marks[d])

\* A deployment that is, or was announced as, completed was staged, passed its
\* smoke tests and its approval gate if it needed one, was healthy at every check
\* of every rollout step for that step's whole duration, and was verified:
\* whatever signals arrive, and whichever calls fail (workflows.py run).
CompletedIsEarned ==
    \A d \in Deployments :
        status[d] = "completed" \/ <<"completed", d>> \in events =>
            /\ Admitted(d) /\ "verified" \in marks[d] /\ "unhealthy" \notin marks[d]
            /\ \A k \in 1 .. Len(Steps) : Watched(d, k)

\* Production traffic reaches a deployment only after staging, smoke tests and
\* approval, and is raised to a step of the plan only when every earlier step was
\* watched and healthy, calls that land after a cancellation included
\* (workflows.py, the rollout loop).
TrafficStep ==
    \A d \in Deployments :
       traffic'[d] > traffic[d] =>
           /\ Admitted(d) /\ "unhealthy" \notin marks[d]
           /\ \E k \in 1 .. Len(Steps) :
                 traffic'[d] = Steps[k] /\ \A j \in 1 .. (k - 1) : Watched(d, j)
TrafficFollowsThePlan == [][TrafficStep]_vars

\* A rollback requested while the workflow still tests the flag prevents
\* completion, whichever await the signal arrives at (workflows.py:206,227,278).
RollbackHonouredInRollout ==
    \A d \in Deployments : heard[d] = "tested" => status[d] # "completed"

\* A deployment the API reports as cancelled does not run on: its workflow was
\* open when the request was accepted and has ended (cancel_deployment).
CancelledMeansStopped ==
    \A d \in Deployments : cached[d] = "cancelled" => pc[d] = "cancelled"

\* Every deployment that starts ends: nobody has to answer the approval request,
\* and no health loop goes on for ever (workflows.py:197,277).
EveryDeploymentEnds ==
    []<>(\A d \in Deployments : pc[d] \in {"absent"} \cup Ended)

\* What the rollback endpoint says: a rollback accepted for a deployment in
\* progress rolls it back.
RollbackIsHonoured ==
    \A d \in Deployments : status[d] = "completed" => heard[d] \in {"never", "decided"}

\* A deployment completes only after everything its plan asks for, never against a rollback
\* request the workflow could still see, and one reported as cancelled has stopped.
DeploymentsAreEarned ==
    /\ TypeOK
    /\ CompletedIsEarned
    /\ RollbackHonouredInRollout
    /\ CancelledMeansStopped
=============================================================================
