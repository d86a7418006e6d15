--------------------------- MODULE TaskOrchestration ---------------------------
(***************************************************************************)
(* The task graph engine around its scheduler: specs become tasks, the     *)
(* tasks the graph shared by all requests, and a Temporal workflow walks   *)
(* through the tasks of one spec.  In this repository the activities the   *)
(* workflow asks for the next task and the budget are placeholders; with   *)
(* wired they do what their docstrings promise of a deployment.            *)
(***************************************************************************)
EXTENDS Naturals, Sequences, FiniteSets, FiniteSetsExt

CONSTANTS
    MaxModules, \* bound on the modules of a spec
    TaskNames,  \* names an LLM may give to tasks
    MaxSubmits  \* bound on POST /tasks/submit

ASSUME OrchestrationAssumption == MaxModules \in Nat /\ IsFiniteSet(TaskNames)

VARIABLES
    dag,        \* the graph of the service: [nodes, edges]
    submits,    \* specs submitted so far
    answer,     \* the answer to the last one
    wired,      \* whether the workflow's activities are more than placeholders
    orch,       \* the workflow
    taskStatus  \* tasks table: task -> status

orchestrationVars == <<dag, submits, answer, wired, orch, taskStatus>>

-----------------------------------------------------------------------------
\* TaskDecomposer: tasks with the tasks they depend on

CreateImplementationTask(m) == [id |-> <<m, "impl">>, dependencies |-> {}]
CreateTestTask(impl) == [id |-> <<impl.id[1], "test">>, dependencies |-> {impl.id}]
CreateReviewTaskEarly(impl, test) == [id |-> <<impl.id[1], "review">>, dependencies |-> {impl.id}]
CreateReviewTask(impl, test) == [id |-> <<impl.id[1], "review">>, dependencies |-> {impl.id, test.id}]

\* A spec without modules is one module.
DeterministicDecompose(modules) ==
    UNION {LET impl == CreateImplementationTask(m)
               test == CreateTestTask(impl)
           IN {impl, test, CreateReviewTask(impl, test)} : m \in 1..(IF modules = 0 THEN 1 ELSE modules)}

\* The LLM names tasks and what they depend on; every name gets one id, unknown names are dropped.
LLMAnswers == UNION {[names -> SUBSET TaskNames] : names \in SUBSET TaskNames}
LLMDecompose(k, raw) ==
    {[id |-> <<k, n>>, dependencies |-> {<<k, d>> : d \in raw[n] \cap DOMAIN raw}] : n \in DOMAIN raw}

-----------------------------------------------------------------------------
\* TaskDAG

AddTasks(graph, tasks) == [graph EXCEPT !.nodes = @ \cup {t.id : t \in tasks}]
AddDependencies(graph, tasks) ==
    [graph EXCEPT !.edges = @ \cup UNION {{<<d, t.id>> : d \in t.dependencies} : t \in tasks}]

Predecessors(graph, n) == {e[1] : e \in {e \in graph.edges : e[2] = n}}

GetReadyTasks(graph, completed) == {n \in graph.nodes \ completed : Predecessors(graph, n) \subseteq completed}

\* networkx: a cycle is a set of nodes each with a predecessor in the set.
Cyclic(graph) == \E s \in SUBSET graph.nodes : s # {} /\ \A n \in s : Predecessors(graph, n) \cap s # {}

SelfLoops(graph) == \E e \in graph.edges : e[1] = e[2]

GetExecutionOrderNaive(graph) == IF SelfLoops(graph) THEN "circular" ELSE "accepted"

\* get_execution_order raises for a graph with a cycle.
GetExecutionOrder(graph) == IF Cyclic(graph) THEN "circular" ELSE "accepted"

-----------------------------------------------------------------------------
\* POST /tasks/submit, after the decomposer's answer one step of the event loop

Submit(tasks) ==
    LET graph == AddDependencies(AddTasks(dag, tasks), tasks)
    IN dag' = graph /\ answer' = GetExecutionOrder(graph)

SubmitSpec ==
    /\ submits < MaxSubmits
    /\ submits' = submits + 1
    /\ \/ \E raw \in LLMAnswers : Submit(LLMDecompose(submits, raw))
       \/ Submit({[id |-> <<submits, t.id>>, dependencies |-> {<<submits, d>> : d \in t.dependencies}] :
                     t \in DeterministicDecompose(1)})
    /\ UNCHANGED <<wired, orch, taskStatus>>

\* Two tasks of the same name share an id: add_task raises at the second, the ones before it stay in
\* the graph and no edge is added.
SubmitDuplicate ==
    /\ submits < MaxSubmits
    /\ submits' = submits + 1
    /\ \E names \in (SUBSET TaskNames) \ {{}} : dag' = [dag EXCEPT !.nodes = @ \cup {<<submits, n>> : n \in names}]
    /\ answer' = "duplicate"
    /\ UNCHANGED <<wired, orch, taskStatus>>

\* The answer of the LLM is no JSON.
SubmitInvalid ==
    /\ submits < MaxSubmits
    /\ submits' = submits + 1
    /\ answer' = "invalid"
    /\ UNCHANGED <<dag, wired, orch, taskStatus>>

GraphNext == SubmitSpec \/ SubmitDuplicate \/ SubmitInvalid

-----------------------------------------------------------------------------
\* TaskOrchestrationWorkflow and its activities

RunStatuses == {"pending", "running", "completed", "failed"}

OrchestrationInit ==
    /\ dag = [nodes |-> {}, edges |-> {}]
    /\ submits = 0 /\ answer = "none"
    /\ wired \in BOOLEAN
    /\ orch = [pc |-> "decompose", iteration |-> 0, task |-> <<>>, outcome |-> "none", completed |-> {},
               failed |-> {}, exhausted |-> FALSE]
    /\ taskStatus = <<>>

OrchTasks == DOMAIN taskStatus
Walk(step) == orch' = step /\ UNCHANGED <<dag, submits, answer, wired>>

DecomposeSpec ==
    /\ orch.pc = "decompose"
    /\ \E modules \in 0..MaxModules :
           taskStatus' = [t \in {d.id : d \in DeterministicDecompose(modules)} |-> "pending"]
    /\ Walk([orch EXCEPT !.pc = "loop"])

MaxIterations == 4 * Cardinality(OrchTasks)

\* The condition of the while loop.
LoopGoesOn ==
    /\ Cardinality(orch.completed) + Cardinality(orch.failed) < Cardinality(OrchTasks)
    /\ orch.iteration < MaxIterations

EndLoop == orch.pc = "loop" /\ ~LoopGoesOn /\ Walk([orch EXCEPT !.pc = "ended"]) /\ UNCHANGED taskStatus

CheckBudget ==
    /\ orch.pc = "loop" /\ LoopGoesOn
    /\ \E exhausted \in IF wired THEN BOOLEAN ELSE {FALSE} :
           Walk([orch EXCEPT !.iteration = @ + 1, !.exhausted = exhausted,
                             !.pc = IF exhausted THEN "ended" ELSE "schedule"])
    /\ UNCHANGED taskStatus

\* The tasks whose dependencies are done, by the tasks table; a wired scheduler hands out one of them
\* or none, when another instance holds its lock or its claim.
DependenciesOf(t) == (CHOOSE d \in DeterministicDecompose(MaxModules) : d.id = t).dependencies
SchedulableTasks ==
    {t \in OrchTasks : taskStatus[t] = "pending" /\ \A d \in DependenciesOf(t) : taskStatus[d] = "completed"}

ScheduleNextTask ==
    /\ orch.pc = "schedule"
    /\ wired
    /\ \E t \in SchedulableTasks : Walk([orch EXCEPT !.pc = "start", !.task = t])
    /\ UNCHANGED taskStatus

NoTaskStops ==
    /\ orch.pc = "schedule"
    /\ Walk([orch EXCEPT !.pc = "ended"])
    /\ UNCHANGED taskStatus

NoTaskUncounted ==
    /\ orch.pc = "schedule"
    /\ Walk([orch EXCEPT !.iteration = @ - 1, !.pc = IF orch.failed # {} THEN "ended" ELSE "loop"])
    /\ UNCHANGED taskStatus

\* No task: stop if one has failed, otherwise sleep and look again.
NoTask ==
    /\ orch.pc = "schedule"
    /\ Walk([orch EXCEPT !.pc = IF orch.failed # {} THEN "ended" ELSE "loop"])
    /\ UNCHANGED taskStatus

MarkTaskRunning ==
    /\ orch.pc = "start"
    /\ taskStatus' = [taskStatus EXCEPT ![orch.task] = "running"]
    /\ Walk([orch EXCEPT !.pc = "execute"])

\* The activity returns a verdict, or raises after the attempts of its retry policy.
ExecuteTask ==
    /\ orch.pc = "execute"
    /\ \E outcome \in {"pass", "fail_soft", "fail_hard", "raised"} :
           Walk([orch EXCEPT !.pc = "record", !.outcome = outcome])
    /\ UNCHANGED taskStatus

RecordResultTwice ==
    /\ orch.pc = "record"
    /\ taskStatus' = [taskStatus EXCEPT ![orch.task] = IF orch.outcome = "pass" THEN "completed" ELSE "pending"]
    /\ Walk([orch EXCEPT !.pc = "loop",
                         !.completed = IF orch.outcome = "pass" THEN @ \cup {orch.task} ELSE @,
                         !.failed = IF orch.outcome = "pass" THEN @ ELSE @ \cup {orch.task}])

\* A soft failure is recorded like a hard one: the task is not tried again.
RecordResult ==
    /\ orch.pc = "record"
    /\ taskStatus' = [taskStatus EXCEPT ![orch.task] = IF orch.outcome = "pass" THEN "completed" ELSE "failed"]
    /\ Walk([orch EXCEPT !.pc = "loop",
                         !.completed = IF orch.outcome = "pass" THEN @ \cup {orch.task} ELSE @,
                         !.failed = IF orch.outcome = "pass" THEN @ ELSE @ \cup {orch.task}])

OrchestrationNext ==
    DecomposeSpec \/ EndLoop \/ CheckBudget \/ ScheduleNextTask \/ NoTask \/ MarkTaskRunning \/ ExecuteTask \/ RecordResult

OrchestrationSpec == OrchestrationInit /\ [][GraphNext \/ OrchestrationNext]_orchestrationVars

-----------------------------------------------------------------------------
\* The variables keep their types; the workflow's bookkeeping agrees with the tasks table: no task is
\* both completed and failed, so its counts add up to what was done.
OrchestrationTypeOK ==
    /\ dag.edges \subseteq dag.nodes \X dag.nodes
    /\ \A t \in OrchTasks : taskStatus[t] \in RunStatuses
    /\ orch.completed = {t \in OrchTasks : taskStatus[t] = "completed"}
    /\ orch.failed = {t \in OrchTasks : taskStatus[t] = "failed"}
    /\ orch.iteration <= MaxIterations

\* The workflow gives up on unfinished tasks only for a reason it can state: the budget, a failed
\* task, or the bound on its iterations (workflows.py).
StopsForAReason ==
    orch.pc = "ended" =>
        \/ orch.completed \cup orch.failed = OrchTasks
        \/ orch.exhausted \/ orch.failed # {} \/ orch.iteration = MaxIterations

\* A review is only run on an implementation and tests that were completed (decomposer.py).
ReviewsSeeFinishedWork ==
    \A t \in OrchTasks :
        t[2] = "review" /\ taskStatus[t] # "pending" =>
            taskStatus[<<t[1], "impl">>] = "completed" /\ taskStatus[<<t[1], "test">>] = "completed"

\* Completing ready tasks again and again, starting from none.
CompletableFrom(graph) ==
    LET after[k \in 0..Cardinality(graph.nodes)] ==
            IF k = 0 THEN {} ELSE after[k - 1] \cup GetReadyTasks(graph, after[k - 1])
    IN after[Cardinality(graph.nodes)]

\* When a spec was accepted, everything in the shared graph can be completed: get_ready_tasks reaches
\* every task, whatever earlier, refused specs left in the graph.
AcceptedSpecsCanFinish == answer = "accepted" => CompletableFrom(dag) = dag.nodes

\* The workflow ends, also when no task ever becomes ready: its iterations are bounded.
OrchestrationEnds == []<>(orch.pc \in {"decompose", "ended"})

\* An accepted plan can be carried out to its end whatever refused specs left behind, in the
\* order its dependencies ask for, and the workflow gives up on it only for a reason.
PlansCanFinish ==
    /\ OrchestrationTypeOK
    /\ StopsForAReason
    /\ ReviewsSeeFinishedWork
    /\ AcceptedSpecsCanFinish
=============================================================================
