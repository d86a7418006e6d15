------------------------------ MODULE MCDelivery ------------------------------
(***************************************************************************)
(* The components a spec passes through on its way to a commit, checked    *)
(* side by side in one run: a behaviour is a behaviour of the part in      *)
(* focus, the others stay in their initial states.                         *)
(***************************************************************************)
EXTENDS MCDeploymentPipeline, CodingAgent, EvaluationEngine, TaskOrchestration, LlmClient, ModelRouter,
        ApiGateway, SpecEngine, AgentBus

VARIABLE focus

Coding == {"repository", "workflows", "attempts", "runs"}
Evaluating == {"evaluation", "evaluations", "summaries"}
Planning == {"graph", "orchestration"}
Routing == {"routing", "policy"}
Gateway == {"limit", "forward"}
Messaging == {"agents", "group"}

MCBackends == <<"b1", "b2">>

\* The canary and the last step.
MCPlan == <<5, 100>>

\* Where two parties are alike, the one that crashes or asks.
OneFlow == CHOOSE g \in Flows : TRUE
OneCall == CHOOSE c \in BusCalls : TRUE

\* A workflow that shares the repository tests its code once; "attempts" follows one that tests again.
FirstAttempts == \A g \in Flows : run'[g].attempt = 0

\* One evaluation is a request or a workflow, the other a request: they share the report of a task.
OthersByRoute == \A e \in Evaluations \ {CHOOSE e \in Evaluations : TRUE} : ~evaluation'[e].temporal

\* The keys are alike: the first request that is counted carries this one.
OneKeyFirst ==
    LET one == CHOOSE key \in Keys : TRUE
    IN \A key \in Keys : admitted'[key] # <<>> => admitted'[one] # <<>>

\* The measured baseline is the one assumed when nothing can be measured.
MCMeasured == {MCDefault}

\* The tokens a routed request reports: none, or some of both kinds.
ReportedTokens == routed'.request.input = routed'.request.output

\* Agents on the bus: one caller makes requests and there are fewer messages; a queue group is
\* followed with one caller that publishes and on one connection.
OneAsks ==
    /\ Len(stream') < MaxBusMessages
    /\ \A l \in QueueGroup : listener'[l].at = "none"
    /\ \A c \in BusCalls \ {OneCall} : busCall'[c].at # "asking"
GroupOnly ==
    /\ connects' <= 1
    /\ \A c \in BusCalls : busCall'[c].at = "idle" \/ (c = OneCall /\ busCall'[c].at = "publishing")
    /\ \A l \in Listeners \ QueueGroup : listener'[l].at = "none"

\* A spec without a flaw and one with two.
MCDraftShapes ==
    {[intent |-> TRUE, criteria |-> "described", questions |-> FALSE],
     [intent |-> FALSE, criteria |-> "blank", questions |-> TRUE]}

\* Two requests that fit the token bucket and one that never will.
MCPrompts ==
    {[model |-> "claude-opus-4", input |-> 1, max |-> 1], [model |-> "other", input |-> 1, max |-> 2],
     [model |-> "claude-haiku-3", input |-> 3, max |-> 2]}

ServiceConfig == [failFast |-> TRUE, llm |-> FALSE, criteria |-> 0, baseline |-> 0]

MCInit ==
    /\ focus \in Coding \cup Evaluating \cup Planning \cup Routing \cup Gateway \cup Messaging \cup {"llm", "deployment", "specs"}
    /\ focus # "summaries" => pytest = CHOOSE r \in PytestRuns : TRUE
    /\ focus # "evaluation" => evalConfig = ServiceConfig
    /\ focus # "orchestration" => wired = TRUE
    /\ Init /\ AgentInit /\ EvaluationInit /\ OrchestrationInit /\ LlmInit /\ RouterInit
    /\ GatewayInit /\ SpecInit /\ BusInit
    /\ evalConfig.llm <=> evalConfig.criteria > 0
    /\ evalConfig.llm <=> evalConfig.baseline > 0

\* What is not in focus stays.
OthersStay ==
    /\ UNCHANGED focus
    /\ focus # "deployment" => UNCHANGED vars
    /\ focus \notin Coding => UNCHANGED agentVars
    /\ focus \notin Evaluating => UNCHANGED evalVars
    /\ focus \notin Planning => UNCHANGED orchestrationVars
    /\ focus \notin Routing => UNCHANGED routerVars
    /\ focus # "llm" => UNCHANGED llmVars
    /\ focus \notin Gateway => UNCHANGED gatewayVars
    /\ focus # "specs" => UNCHANGED specVars
    /\ focus \notin Messaging => UNCHANGED busVars

MCNext ==
    \/ focus = "deployment" /\ Next /\ OthersStay
    \/ focus = "attempts" /\ RepositoryNext({OneFlow}) /\ OthersStay
    \/ focus = "repository" /\ RepositoryNext(Loops \cup {OneFlow}) /\ FirstAttempts /\ UNCHANGED repoState /\ OthersStay
    \/ focus = "workflows" /\ (\E g \in Flows : AgentStep(g)) /\ FirstAttempts /\ OthersStay
    \/ focus = "workflows" /\ run[OneFlow].pc \notin GitSteps /\ WorkerCrash(OneFlow) /\ OthersStay  \* those in git: "repository"
    \/ focus = "runs" /\ RunStoreNext /\ OthersStay
    \/ focus = "evaluation" /\ EvaluationSteps({CHOOSE e \in Evaluations : TRUE}) /\ OthersStay
    \/ focus = "evaluations" /\ EvaluationNext /\ OthersByRoute /\ OthersStay
    \/ focus = "graph" /\ GraphNext /\ OthersStay
    \/ focus = "orchestration" /\ OrchestrationNext /\ OthersStay
    \/ focus = "llm" /\ LlmNext /\ OthersStay
    \/ focus = "routing" /\ RoutingNext /\ ReportedTokens /\ OthersStay
    \/ focus = "policy" /\ PolicyNext /\ OthersStay
    \/ focus = "limit" /\ LimitNext(CHOOSE slot \in Slots : TRUE) /\ OneKeyFirst /\ OthersStay
    \/ focus = "forward" /\ ForwardNext(CHOOSE key \in Keys : TRUE) /\ OthersStay
    \/ focus = "specs" /\ SpecNext /\ OthersStay
    \/ focus = "agents" /\ BusNext /\ OneAsks /\ OthersStay
    \/ focus = "group" /\ BusNext /\ GroupOnly /\ OthersStay

mcVars == <<vars, agentVars, evalVars, orchestrationVars, llmVars, routerVars,
            gatewayVars, specVars, busVars, focus>>

MCFairness ==
    /\ \A d \in Deployments : WF_vars(focus = "deployment" /\ Run(d))
    /\ \A l \in Loops : WF_agentVars(focus = "repository" /\ AgentStep(l))
    /\ WF_orchestrationVars(focus = "orchestration" /\ OrchestrationNext)
    /\ WF_llmVars(focus = "llm" /\ Tick)
    /\ \A c \in Callers : WF_llmVars(focus = "llm" /\ CallerStep(c))
    /\ \A slot \in Slots :
        /\ WF_gatewayVars(focus = "forward" /\ SlotStep(slot))
        /\ WF_gatewayVars(focus = "limit" /\ Attempt(slot, "ok", TRUE))
    /\ \A l \in Listeners :
        /\ WF_busVars(focus \in Messaging /\ ListenerStep(l))
        /\ \A i \in 1 .. MaxBusMessages : WF_busVars(focus \in Messaging /\ JetStreamSends(l, i))

MCSpec == MCInit /\ [][MCNext]_mcVars /\ MCFairness

\* What no step may do: raise the traffic of a deployment before its plan allows it; move a task that
\* failed to a weaker model, or take it back from a person, on a report for the task's own tier.
DeliverySteps == [][TrafficStep /\ FailureStep]_mcVars

\* Everything that is started ends: deployments, coding loops, orchestrations, calls of the
\* language model, requests to the gateway, and messages on the agents' bus with a handler.
DeliveryEnds ==
    /\ EveryDeploymentEnds
    /\ LoopsEnd
    /\ OrchestrationEnds
    /\ CallsEnd
    /\ GatewayAnswers
    /\ MessagesReachHandlers
=============================================================================
