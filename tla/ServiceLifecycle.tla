--------------------------- MODULE ServiceLifecycle ---------------------------
(***************************************************************************)
(* How every service of ARCHITECT starts and stops: the lifespan function  *)
(* of its service.py, the clients its dependencies.py creates on first use *)
(* and closes in cleanup(), the Temporal worker of its temporal/worker.py. *)
(*                                                                         *)
(* A service is the sequence of its start-up steps, the sequence in which  *)
(* shutdown closes things, and what its background tasks use:              *)
(*                                                                         *)
(*   open    made during start-up, no connection yet, cannot fail          *)
(*   lazy    made by the first request that needs it, if one does          *)
(*   try     may fail, which is logged, or be configured away: the service *)
(*           runs without it                                               *)
(*   then    the same, and only when the step before it succeeded          *)
(*   spawn   a task; an exception inside it is only seen when it is awaited*)
(*   loop    a task that catches everything but its cancellation           *)
(***************************************************************************)
EXTENDS Integers, Sequences

CONSTANT Services    \* a set of records as below

VARIABLES
    service,  \* the one that is running
    phase,    \* starting, serving, stopping, stopped; raised: shutdown gave up
    at,       \* next step of start-up or shutdown
    open,     \* what is open, or running
    made,     \* everything start-up has opened or set running
    dead      \* tasks that ended with an exception

lifeVars == <<service, phase, at, open, made, dead>>

Step(does, what) == [does |-> does, what |-> what]
BackgroundTasks == {"subscriber", "worker", "monitor", "eviction"}

\* The workers, by what their activities work with.
FailureWorkerUses    == {"db", "llm"}
SecurityWorkerUses   == {}
GovernorWorkerUses   == {"db"}
DeploymentWorkerUses == {"publisher"}
LedgerWorkerUses     == {"db", "redis", "publisher"}

WorldStateLedgerService ==
    [name |-> "world-state-ledger",
     up   |-> <<Step("open", "db"), Step("open", "redis"), Step("open", "publisher"), Step("try", "worker")>>,
     down |-> <<"worker", "publisher", "redis", "db">>,
     uses |-> [worker |-> LedgerWorkerUses]]

EconomicGovernorService ==
    [name |-> "economic-governor",
     up   |-> <<Step("open", "db"), Step("open", "publisher"), Step("try", "subscriber"),
                Step("loop", "monitor"), Step("spawn", "worker")>>,
     down |-> <<"worker", "monitor", "subscriber", "publisher", "db">>,
     uses |-> [subscriber |-> {"db", "publisher"}, monitor |-> {"db", "publisher"}, worker |-> GovernorWorkerUses]]

FailureTaxonomyService ==
    [name |-> "failure-taxonomy",
     up   |-> <<Step("open", "db"), Step("open", "publisher"), Step("try", "llm"),
                Step("try", "subscriber"), Step("spawn", "worker")>>,
     down |-> <<"worker", "subscriber", "publisher", "llm", "db">>,
     uses |-> [subscriber |-> {"db", "publisher", "llm"}, worker |-> FailureWorkerUses]]

SecurityImmuneService ==
    [name |-> "security-immune",
     up   |-> <<Step("open", "publisher"), Step("try", "subscriber"), Step("spawn", "worker")>>,
     down |-> <<"worker", "subscriber", "publisher">>,
     uses |-> [subscriber |-> {}, worker |-> SecurityWorkerUses]]

\* Fault: the publisher is closed while the handlers still run.
DeploymentPipelineServiceHasty ==
    [name |-> "deployment-pipeline",
     up   |-> <<Step("open", "publisher"), Step("try", "subscriber"), Step("spawn", "worker")>>,
     down |-> <<"publisher", "worker", "subscriber">>,
     uses |-> [subscriber |-> {}, worker |-> DeploymentWorkerUses]]

DeploymentPipelineService ==
    [name |-> "deployment-pipeline",
     up   |-> <<Step("open", "publisher"), Step("try", "subscriber"), Step("spawn", "worker")>>,
     down |-> <<"worker", "subscriber", "publisher">>,
     uses |-> [subscriber |-> {}, worker |-> DeploymentWorkerUses]]

HumanInterfaceService ==
    [name |-> "human-interface",
     up   |-> <<Step("open", "publisher"), Step("open", "http"), Step("open", "db"), Step("try", "subscriber")>>,
     down |-> <<"subscriber", "publisher", "http", "db">>,
     uses |-> [subscriber |-> {}]]

\* Fault: the eviction loop is not cancelled.
KnowledgeMemoryServiceLoops ==
    [name |-> "knowledge-memory",
     up   |-> <<Step("try", "db"), Step("then", "subscriber"), Step("loop", "eviction")>>,
     down |-> <<"subscriber">>,
     uses |-> [subscriber |-> {"db"}, eviction |-> {}]]

\* No store, no subscriber.  The engine is not disposed.
KnowledgeMemoryService ==
    [name |-> "knowledge-memory",
     up   |-> <<Step("try", "db"), Step("then", "subscriber"), Step("loop", "eviction")>>,
     down |-> <<"eviction", "subscriber">>,
     uses |-> [subscriber |-> {"db"}, eviction |-> {}]]

\* The session factory of the scheduler is made on first use and kept.
TaskGraphService ==
    [name |-> "task-graph-engine", up |-> <<Step("lazy", "db"), Step("lazy", "publisher")>>,
     down |-> <<"publisher">>, uses |-> <<>>]

CodingAgentService ==
    [name |-> "coding-agent",
     up   |-> <<Step("lazy", "llm"), Step("lazy", "sandbox"), Step("lazy", "publisher")>>,
     down |-> <<"publisher", "sandbox", "llm">>, uses |-> <<>>]

EvaluationService ==
    [name |-> "evaluation-engine", up |-> <<Step("lazy", "sandbox"), Step("lazy", "publisher")>>,
     down |-> <<"publisher", "sandbox">>, uses |-> <<>>]

SpecEngineService ==
    [name |-> "spec-engine", up |-> <<Step("lazy", "llm")>>, down |-> <<"llm">>, uses |-> <<>>]

CommBusService ==
    [name |-> "agent-comm-bus", up |-> <<Step("lazy", "nats")>>, down |-> <<"nats">>, uses |-> <<>>]

\* Fault: the clients are closed while the activities still run.
CodingAgentWorkerHasty ==
    [name |-> "coding-agent-worker",
     up   |-> <<Step("open", "llm"), Step("open", "sandbox"), Step("spawn", "worker")>>,
     down |-> <<"llm", "sandbox", "worker">>, uses |-> [worker |-> {"llm", "sandbox"}]]

\* The standalone worker: its run is awaited, and its clients are closed in the
\* finally clause of that await.
CodingAgentWorker ==
    [name |-> "coding-agent-worker",
     up   |-> <<Step("open", "llm"), Step("open", "sandbox"), Step("spawn", "worker")>>,
     down |-> <<"worker", "llm", "sandbox">>, uses |-> [worker |-> {"llm", "sandbox"}]]

ClosesInFinally == {"coding-agent-worker"}

\* The services of the repository.
ASSUME LifeAssumption ==
    Services \subseteq
        {WorldStateLedgerService, EconomicGovernorService, FailureTaxonomyService, SecurityImmuneService,
         DeploymentPipelineService, HumanInterfaceService, KnowledgeMemoryService, TaskGraphService,
         CodingAgentService, EvaluationService, SpecEngineService, CommBusService, CodingAgentWorker}

-----------------------------------------------------------------------------
LifeInit ==
    /\ service \in Services
    /\ phase = "starting" /\ at = 1 /\ open = {} /\ made = {} /\ dead = {}

\* The step at which start-up, or the set of requests that create clients, is.
StartStep ==
    LET step == service.up[at] IN
    /\ phase = "starting" /\ at <= Len(service.up)
    /\ \/ /\ step.does = "then" => service.up[at - 1].what \in open
          /\ open' = open \cup {step.what} /\ made' = made \cup {step.what}
       \/ /\ step.does \in {"try", "then", "lazy"}
          /\ UNCHANGED <<open, made>>
    /\ at' = at + 1
    /\ UNCHANGED <<service, phase, dead>>

Yield ==
    /\ phase = "starting" /\ at > Len(service.up)
    /\ phase' = "serving"
    /\ UNCHANGED <<service, at, open, made, dead>>

\* The connection of a worker fails, or its run does: nobody notices.
Breakable == {step.what : step \in {service.up[i] : i \in {j \in 1 .. Len(service.up) :
                    service.up[j].does = "spawn" \/ service.up[j].what = "worker"}}}

TaskDies(task) ==
    /\ task \in open \cap Breakable
    /\ open' = open \ {task} /\ dead' = dead \cup {task}
    /\ UNCHANGED <<service, phase, at, made>>

\* For the standalone worker, the end of its run, whatever ended it.
BeginShutdown ==
    /\ phase = "serving"
    /\ phase' = "stopping" /\ at' = 1
    /\ UNCHANGED <<service, open, made, dead>>

\* Closing what was never opened is skipped.  Awaiting a task that has failed
\* raises its exception, of which only CancelledError is suppressed: what comes
\* after is left out, but for a finally clause, after which it goes on.
StopStep ==
    /\ phase = "stopping" /\ at <= Len(service.down)
    /\ \/ /\ service.down[at] \in dead /\ service.name \notin ClosesInFinally
          /\ phase' = "raised"
          /\ UNCHANGED <<at, open>>
       \/ /\ service.down[at] \notin dead \/ service.name \in ClosesInFinally
          /\ open' = open \ {service.down[at]}
          /\ at' = at + 1
          /\ UNCHANGED phase
    /\ UNCHANGED <<service, made, dead>>

Stopped ==
    /\ phase = "stopping" /\ at > Len(service.down)
    /\ phase' = IF service.name \in ClosesInFinally /\ dead # {} THEN "raised" ELSE "stopped"
    /\ UNCHANGED <<service, at, open, made, dead>>

LifeNext == StartStep \/ Yield \/ BeginShutdown \/ StopStep \/ Stopped \/ \E task \in BackgroundTasks : TaskDies(task)
LifeSpec == LifeInit /\ [][LifeNext]_lifeVars

-----------------------------------------------------------------------------
(* Properties. *)

\* Whatever could not be started or died on the way, no background task runs with
\* a client it works with already closed, one that start-up may do without included
\* (the order of shutdown in lifespan and run_worker).
ConsumersStopFirst ==
    \A task \in open \cap BackgroundTasks : service.uses[task] \cap made \subseteq open

\* A shutdown that ran to its end has left no task of the service behind.
StoppedMeansQuiet == phase = "stopped" => open \cap BackgroundTasks = {}

\* Whatever start-up step failed and whichever task died, shutdown stops what uses a client
\* before it closes the client, and leaves nothing running once it has come to its end.
ShutdownIsOrderly ==
    /\ ConsumersStopFirst
    /\ StoppedMeansQuiet
=============================================================================
