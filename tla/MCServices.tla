------------------------------ MODULE MCServices ------------------------------
(***************************************************************************)
(* Components that share no state with each other, checked side by side in *)
(* one run: a behaviour is a behaviour of the part in focus, the others    *)
(* stay in their initial states.                                           *)
(***************************************************************************)
EXTENDS EventBus, HumanInterface, ExecutionSandbox, ServiceLifecycle, KnowledgeMemory, FailureTaxonomy, SecurityImmune,
        CodebaseIndex, DashboardHooks

CONSTANTS c1, c2

VARIABLE focus

\* c1 gives up at the first failure, c2 as the default of the subscriber says.
MCMaxRetries == [c \in {c1, c2} |-> IF c = c1 THEN 1 ELSE 3]

AllServices ==
    {WorldStateLedgerService, EconomicGovernorService, FailureTaxonomyService, SecurityImmuneService,
     DeploymentPipelineService, HumanInterfaceService, KnowledgeMemoryService, TaskGraphService,
     CodingAgentService, EvaluationService, SpecEngineService, CommBusService, CodingAgentWorker}

Bus == {"bus", "letters"}
Human == {"gates", "gateflow", "escalations", "sockets", "rulings"}
Sandbox == {"docker", "microvm"}
Knowledge == {"compression", "learning", "strategy", "working", "acquisition"}
Taxonomy == {"failures", "postmortem"}
Dashboard == {"polling", "live"}
Codebase == {"chunks", "indices", "embeddings"}
Security == {"scans", "triage", "scanflow", "reports", "monitoring", "names"}

\* The bus: "bus" has two read loops and nobody reprocessing, "letters" one loop and the operators.
\* Gates: votes on the row in "gates", the workflow's signals in "gateflow"; they share no state but
\* the number of approvals required.
MCInit ==
    /\ focus \in Human \cup Sandbox \cup {"lifecycle"} \cup Bus \cup Knowledge \cup Taxonomy \cup Security
                  \cup Codebase \cup Dashboard
    /\ source \in IF focus = "chunks" THEN Sources ELSE {<<>>}
    /\ names \in IF focus = "names" THEN PackageNames \X PackageNames ELSE {<<<<>>, <<>>>>}
    /\ focus \notin Dashboard => visible = FALSE
    /\ focus # "lifecycle" => service = CommBusService
    /\ focus \notin Taxonomy => taxonomy = [threshold |-> 70, llm |-> TRUE]
    /\ focus \notin Security \ {"names"} => gateMode = [enforce |-> TRUE, block |-> TRUE]
    /\ Init /\ HumanInit /\ SandboxInit /\ LifeInit /\ KnowledgeInit /\ TaxonomyInit /\ SecurityInit
    /\ CodebaseInit /\ DashboardInit

\* One caller comes by every path, the other delivers events.
OthersByEvent ==
    \A c \in Callers \ {CHOOSE c \in Callers : TRUE} : caller'[c].at = "idle" \/ caller'[c].via = "event"

\* What is not in focus stays.
OthersStay ==
    /\ UNCHANGED focus
    /\ focus \notin Bus => UNCHANGED vars
    /\ focus \notin Human => UNCHANGED humanVars
    /\ focus \notin Sandbox => UNCHANGED sandboxVars
    /\ focus # "lifecycle" => UNCHANGED lifeVars
    /\ focus \notin Knowledge => UNCHANGED knowledgeVars
    /\ focus \notin Taxonomy => UNCHANGED taxonomyVars
    /\ focus \notin Security => UNCHANGED securityVars
    /\ focus \notin Codebase => UNCHANGED codebaseVars
    /\ focus \notin Dashboard => UNCHANGED dashboardVars

MCNext ==
    \/ focus = "bus" /\ Next /\ UNCHANGED ops /\ OthersStay
    \/ focus = "letters" /\ Next /\ pc'[c1] # "dead" /\ pc'[c2] = "read" /\ OthersStay
    \/ focus = "gates" /\ GateNext /\ UNCHANGED gateflow /\ OthersStay
    \/ focus = "gateflow" /\ GateNext /\ UNCHANGED call /\ OthersStay
    \/ focus = "escalations" /\ EscalationNext /\ OthersStay
    \/ focus = "sockets" /\ SocketNext /\ OthersStay
    \/ focus = "rulings" /\ (\E d \in EscalationDecisions : AskWhetherToEscalate(d)) /\ OthersStay
    \/ focus = "docker" /\ (DockerNext \/ SandboxCrashes) /\ OthersStay
    \/ focus = "microvm" /\ (FirecrackerNext \/ SandboxCrashes) /\ OthersStay
    \/ focus = "lifecycle" /\ LifeNext /\ OthersStay
    \/ focus = "compression" /\ CompressionNext /\ OthersStay
    \/ focus = "learning" /\ LearningNext /\ OthersStay
    \/ focus = "strategy" /\ StrategyNext /\ OthersStay
    \/ focus = "working" /\ WorkingNext /\ OthersStay
    \/ focus = "acquisition" /\ AcquisitionNext /\ OthersStay
    \/ focus = "failures" /\ ClassificationNext /\ OthersByEvent /\ OthersStay
    \/ focus = "postmortem" /\ PostMortemNext /\ OthersStay
    \/ focus = "scans" /\ ScanRoutesNext /\ OthersStay
    \/ focus = "triage" /\ TriageNext /\ (policies' = 0 \/ scans' = <<>>) /\ OthersStay  \* policies are not read
    \/ focus = "scanflow" /\ ScanFlowNext /\ OthersStay
    \/ focus = "reports" /\ reported = Nothing /\ ReportsNext /\ OthersStay
    \/ focus = "monitoring" /\ (\E succeeds \in BOOLEAN : MonitoringTurn(succeeds)) /\ OthersStay
    \/ focus = "indices" /\ IndexNext /\ OthersStay
    \/ focus = "embeddings" /\ EmbedNext /\ OthersStay
    \/ focus = "polling" /\ (PollNext \/ SocketStep) /\ toggles' <= 1 /\ OthersStay
    \/ focus = "live" /\ LiveNext /\ OthersStay

mcVars == <<vars, humanVars, sandboxVars, lifeVars, knowledgeVars, taxonomyVars, securityVars,
            codebaseVars, dashboardVars, focus>>
MCFairness ==
    /\ HumanFairness
    /\ WF_dashboardVars(focus \in Dashboard /\ SocketStep)
    /\ \A c \in Consumers : WF_vars(focus = "bus" /\ Consume(c)) /\ WF_vars(focus = "bus" /\ Start(c))
    /\ WF_vars(focus = "letters" /\ Consume(c1)) /\ WF_vars(focus = "letters" /\ Start(c1))

MCSpec == MCInit /\ [][MCNext]_mcVars /\ MCFairness

\* What no step may do: sweep an active container, evict a younger entry before an older one,
\* take back a person's triage, show an answer older than the newest request.
ServiceSteps == [][SweepStep /\ EvictionStep /\ TriageStep /\ DisplayStep]_mcVars

\* What has to happen in the end: messages get to a consumer, timed escalations are resolved, a
\* visible page is connected again.
ServicesProgress ==
    /\ MessagesAreDelivered
    /\ TimedEscalationsEnd
    /\ BadgeReturns
=============================================================================
