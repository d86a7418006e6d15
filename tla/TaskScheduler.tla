----------------------------- MODULE TaskScheduler -----------------------------
(***************************************************************************)
(* Horizontally scaled task schedulers: TaskScheduler (scheduler.py), its  *)
(* in-memory TaskDAG (graph.py) and the Redis-backed                       *)
(* DistributedSchedulerLock (distributed_lock.py) over the tasks table     *)
(* (architect_db, task_repo.py).                                           *)
(*                                                                         *)
(* Every instance has its own copy of the graph.  What the instances share *)
(* is in Redis (the scheduling lock, one claim key per task, the set of    *)
(* completed tasks) and in the database (status).  Each `await` on Redis   *)
(* or on the database is a point where others run:                         *)
(*                                                                         *)
(*   schedule_and_claim  idle -> wait -> locked -> claim -> persist        *)
(*                         -> deliver | nothing | error -> idle            *)
(*   mark_completed      sadd -> del -> completed -> none                  *)
(*   mark_failed, should_retry    failed -> none,  pending -> none         *)
(***************************************************************************)
EXTENDS Naturals, FiniteSets

CONSTANTS
    Instances,      \* scheduler processes, one schedule_and_claim at a time each
    Tasks,
    Deps,           \* task -> the tasks it waits for
    Priority,       \* task -> priority
    MaxRetries,     \* TaskBudget.max_retries
    MaxCrashes,     \* bound: process crashes in a behaviour
    None

ASSUME DepsAssumption     == Deps \in [Tasks -> SUBSET Tasks]
ASSUME PriorityAssumption == Priority \in [Tasks -> Nat]
ASSUME LimitsAssumption   == MaxRetries \in Nat /\ MaxCrashes \in Nat
ASSUME NoneAssumption     == None \notin Instances \cup Tasks

VARIABLES
    status,     \* instance -> task -> status in its TaskDAG
    attempt,    \* instance -> task -> current_attempt in its TaskDAG
    done,       \* instance -> its _completed set
    lock,       \* architect:scheduler:lock, with the instance that set it
    claims,     \* architect:scheduler:claimed:*
    completed,  \* architect:scheduler:completed
    db,         \* task -> status in the tasks table
    pc,         \* instance -> where its schedule_and_claim is
    pick,       \* instance -> the task it is about to claim
    write,      \* instance -> task -> what a lifecycle call has yet to write
    up,         \* instances that are running
    handed,     \* <<instance, task>>: given to an agent that has not finished
    finished,   \* tasks some agent has completed
    crashes

memory == <<status, attempt, done>>
shared == <<lock, claims, completed>>
ghosts == <<handed, finished>>
vars == <<status, attempt, done, lock, claims, completed, db, pc, pick, write, up, handed,
          finished, crashes>>

Statuses == {"pending", "running", "completed", "failed"}
Pcs      == {"idle", "wait", "locked", "claim", "persist", "deliver", "nothing", "error"}
Writes   == {"none", "sadd", "del", "completed", "failed", "pending", "syncAdd", "syncDel"}

\* Fault: tasks whose predecessors are still running are returned too.
ReadyTasksEarly(seen) == Tasks \ seen

\* TaskDAG.get_ready_tasks: not completed, all predecessors completed.  The
\* status of the task plays no part.
ReadyTasks(seen) == {t \in Tasks \ seen : Deps[t] \subseteq seen}

\* schedule_next: the highest priority among the ready tasks.
Best(ready) == {t \in ready : \A u \in ready : Priority[u] <= Priority[t]}

\* _VALID_TRANSITIONS, for the transitions the scheduler makes.
ValidTransition(from, to) ==
    <<from, to>> \in {<<"pending", "running">>, <<"running", "completed">>,
                      <<"running", "failed">>, <<"failed", "pending">>}

\* Every instance has loaded the same graph, with nothing done yet.
Init ==
    /\ status = [i \in Instances |-> [t \in Tasks |-> "pending"]]
    /\ attempt = [i \in Instances |-> [t \in Tasks |-> 0]]
    /\ done = [i \in Instances |-> {}]
    /\ lock = None
    /\ claims = {}
    /\ completed = {}
    /\ db = [t \in Tasks |-> "pending"]
    /\ pc = [i \in Instances |-> "idle"]
    /\ pick = [i \in Instances |-> None]
    /\ write = [i \in Instances |-> [t \in Tasks |-> "none"]]
    /\ up = Instances
    /\ handed = {}
    /\ finished = {}
    /\ crashes = 0

Goto(i, step) == pc' = [pc EXCEPT ![i] = step]

\* An in-memory transition of task t, followed by the writes that start at w.
Transition(i, t, to, w) ==
    /\ ValidTransition(status[i][t], to)
    /\ status' = [status EXCEPT ![i][t] = to]
    /\ write' = [write EXCEPT ![i][t] = w]

-----------------------------------------------------------------------------
(* schedule_and_claim. *)

\* An agent asks for work.  load_from_db has finished.
BeginSchedule(i) ==
    /\ i \in up /\ pc[i] = "idle"
    /\ \A t \in Tasks : write[i][t] \notin {"syncAdd", "syncDel"}
    /\ Goto(i, "wait")
    /\ UNCHANGED <<memory, shared, db, pick, write, up, ghosts, crashes>>

\* SET lock "1" NX EX 30.
AcquireLock(i) ==
    /\ pc[i] = "wait" /\ lock = None
    /\ lock' = i
    /\ Goto(i, "locked")
    /\ UNCHANGED <<memory, claims, completed, db, pick, write, up, ghosts, crashes>>

\* Five seconds of retries: RuntimeError.  Nothing was acquired.
LockTimesOut(i) ==
    /\ pc[i] = "wait" /\ lock # None
    /\ Goto(i, "idle")
    /\ UNCHANGED <<memory, shared, db, pick, write, up, ghosts, crashes>>

\* SMEMBERS completed, merged into _completed, then schedule_next.
PickTask(i) ==
    /\ pc[i] = "locked"
    /\ done' = [done EXCEPT ![i] = @ \cup completed]
    /\ \/ /\ ReadyTasks(done'[i]) = {}
          /\ Goto(i, "nothing")
          /\ UNCHANGED pick
       \/ /\ \E t \in Best(ReadyTasks(done'[i])) : pick' = [pick EXCEPT ![i] = t]
          /\ Goto(i, "claim")
    /\ UNCHANGED <<status, attempt, shared, db, write, up, ghosts, crashes>>

\* The claim key exists: nothing is returned, whatever else is ready.
ClaimRefused(i) ==
    /\ pc[i] = "claim" /\ pick[i] \in claims
    /\ Goto(i, "nothing")
    /\ UNCHANGED <<memory, shared, db, pick, write, up, ghosts, crashes>>

\* The claim is won but the task is not PENDING in this instance's graph:
\* mark_running raises InvalidTransitionError and the claim stays.
ClaimInvalid(i) ==
    /\ pc[i] = "claim" /\ pick[i] \notin claims
    /\ ~ ValidTransition(status[i][pick[i]], "running")
    /\ claims' = claims \cup {pick[i]}
    /\ Goto(i, "error")
    /\ UNCHANGED <<memory, lock, completed, db, pick, write, up, ghosts, crashes>>

\* Fault: the claim is granted without looking at the key.
ClaimWonUnchecked(i) ==
    LET t == pick[i]
    IN  /\ pc[i] = "claim"
        /\ ValidTransition(status[i][t], "running")
        /\ claims' = claims \cup {t}
        /\ status' = [status EXCEPT ![i][t] = "running"]
        /\ attempt' = [attempt EXCEPT ![i][t] = @ + 1]
        /\ handed' = handed \cup {<<i, t>>}
        /\ Goto(i, "persist")
        /\ UNCHANGED <<done, lock, completed, db, pick, write, up, finished, crashes>>

\* SET claimed NX succeeds; mark_running up to its database write.
ClaimWon(i) ==
    LET t == pick[i]
    IN  /\ pc[i] = "claim" /\ t \notin claims
        /\ ValidTransition(status[i][t], "running")
        /\ claims' = claims \cup {t}
        /\ status' = [status EXCEPT ![i][t] = "running"]
        /\ attempt' = [attempt EXCEPT ![i][t] = @ + 1]
        /\ handed' = handed \cup {<<i, t>>}
        /\ Goto(i, "persist")
        /\ UNCHANGED <<done, lock, completed, db, pick, write, up, finished, crashes>>

\* update_status(RUNNING).  The attempt number is not part of the update.
PersistRunning(i) ==
    /\ pc[i] = "persist"
    /\ db' = [db EXCEPT ![pick[i]] = "running"]
    /\ Goto(i, "deliver")
    /\ UNCHANGED <<memory, shared, pick, write, up, ghosts, crashes>>

\* finally: DEL lock, whoever holds it by now; then the call returns a task,
\* returns None, or raises.
ReleaseLock(i) ==
    /\ pc[i] \in {"deliver", "nothing", "error"}
    /\ lock' = None
    /\ pick' = [pick EXCEPT ![i] = None]
    /\ Goto(i, "idle")
    /\ UNCHANGED <<memory, claims, completed, db, write, up, ghosts, crashes>>

-----------------------------------------------------------------------------
(* Lifecycle calls.  A caller makes them one after another for one task. *)

\* The calls made earlier about this task have returned.
AtRest(i, t) ==
    /\ i \in up /\ write[i][t] = "none"
    /\ ~ (pick[i] = t /\ pc[i] \in {"persist", "deliver"})

\* mark_completed, up to its first await.
MarkCompleted(i, t) ==
    /\ AtRest(i, t)
    /\ Transition(i, t, "completed", "sadd")
    /\ done' = [done EXCEPT ![i] = @ \cup {t}]
    /\ handed' = handed \ {<<i, t>>}
    /\ finished' = finished \cup {t}
    /\ UNCHANGED <<attempt, shared, db, pc, pick, up, crashes>>

\* mark_failed, up to its database write.  The claim is not given back.
MarkFailed(i, t) ==
    /\ AtRest(i, t)
    /\ Transition(i, t, "failed", "failed")
    /\ handed' = handed \ {<<i, t>>}
    /\ UNCHANGED <<attempt, done, shared, db, pc, pick, up, finished, crashes>>

\* The attempts made so far against the task's budget.
RetryAllowed(i, t) == attempt[i][t] < MaxRetries

\* should_retry, when it answers TRUE.
ShouldRetry(i, t) ==
    /\ AtRest(i, t)
    /\ RetryAllowed(i, t)
    /\ Transition(i, t, "pending", "pending")
    /\ UNCHANGED <<attempt, done, shared, db, pc, pick, up, ghosts, crashes>>

\* Fault: the claim key is deleted before the task enters the completed set.
AddCompletedAfterDelete(i, t) ==
    /\ write[i][t] \in {"sadd", "syncAdd"}
    /\ claims' = claims \ {t}
    /\ write' = [write EXCEPT ![i][t] = IF @ = "sadd" THEN "completed" ELSE "none"]
    /\ UNCHANGED <<memory, lock, completed, db, pc, pick, up, ghosts, crashes>>

\* DistributedSchedulerLock.mark_completed: SADD completed ...
AddCompleted(i, t) ==
    /\ write[i][t] \in {"sadd", "syncAdd"}
    /\ completed' = completed \cup {t}
    /\ write' = [write EXCEPT ![i][t] = IF @ = "sadd" THEN "del" ELSE "syncDel"]
    /\ UNCHANGED <<memory, lock, claims, db, pc, pick, up, ghosts, crashes>>

\* ... then DEL claimed.
DropClaim(i, t) ==
    /\ write[i][t] \in {"del", "syncDel"}
    /\ claims' = claims \ {t}
    /\ write' = [write EXCEPT ![i][t] = IF @ = "del" THEN "completed" ELSE "none"]
    /\ UNCHANGED <<memory, lock, completed, db, pc, pick, up, ghosts, crashes>>

\* TaskRepository.update_status of mark_completed, mark_failed or should_retry.
PersistStatus(i, t) ==
    /\ write[i][t] \in Statuses
    /\ db' = [db EXCEPT ![t] = write[i][t]]
    /\ write' = [write EXCEPT ![i][t] = "none"]
    /\ UNCHANGED <<memory, shared, pc, pick, up, ghosts, crashes>>

-----------------------------------------------------------------------------
(* Time and failures. *)

\* The lock's 30 s are over: Redis drops it while its holder is still inside.
LockExpires ==
    /\ lock # None
    /\ lock' = None
    /\ UNCHANGED <<memory, claims, completed, db, pc, pick, write, up, ghosts, crashes>>

\* The claim's 3600 s are over, whether or not the task still runs.
ClaimExpires(t) ==
    /\ t \in claims
    /\ claims' = claims \ {t}
    /\ UNCHANGED <<memory, lock, completed, db, pc, pick, write, up, ghosts, crashes>>

\* A process dies and its agents lose their work, although a late report about
\* a task that was running stays possible; nothing in Redis is cleaned up.
Crash(i) ==
    /\ i \in up /\ crashes < MaxCrashes
    /\ up' = up \ {i}
    /\ Goto(i, "idle")
    /\ pick' = [pick EXCEPT ![i] = None]
    /\ write' = [write EXCEPT ![i] = [t \in Tasks |-> "none"]]
    /\ handed' = {h \in handed : h[1] # i}
    /\ crashes' = crashes + 1
    /\ UNCHANGED <<memory, shared, db, finished>>

\* It starts again: load_from_db rebuilds the graph and the completed set, and
\* begins to tell Redis of every completed task.  The tasks table has
\* current_attempt as it was inserted.
Restart(i) ==
    /\ i \notin up
    /\ up' = up \cup {i}
    /\ status' = [status EXCEPT ![i] = db]
    /\ attempt' = [attempt EXCEPT ![i] = [t \in Tasks |-> 0]]
    /\ done' = [done EXCEPT ![i] = {t \in Tasks : db[t] = "completed"}]
    /\ write' = [write EXCEPT ![i] = [t \in Tasks |->
                    IF db[t] = "completed" THEN "syncAdd" ELSE "none"]]
    /\ UNCHANGED <<shared, db, pc, pick, ghosts, crashes>>

-----------------------------------------------------------------------------
Schedule(i) ==
    \/ BeginSchedule(i) \/ AcquireLock(i) \/ LockTimesOut(i) \/ PickTask(i)
    \/ ClaimRefused(i) \/ ClaimInvalid(i) \/ ClaimWon(i) \/ PersistRunning(i) \/ ReleaseLock(i)

Lifecycle(i, t) ==
    \/ MarkCompleted(i, t) \/ MarkFailed(i, t) \/ ShouldRetry(i, t)
    \/ AddCompleted(i, t) \/ DropClaim(i, t) \/ PersistStatus(i, t)

\* No crash, and every task is over within the hour its claim lives.
SteadyNext ==
    \/ \E i \in Instances : Schedule(i) \/ \E t \in Tasks : Lifecycle(i, t)
    \/ LockExpires

Next ==
    \/ SteadyNext
    \/ \E i \in Instances : Crash(i) \/ Restart(i)
    \/ \E t \in Tasks : ClaimExpires(t)

SteadySpec == Init /\ [][SteadyNext]_vars

Spec == Init /\ [][Next]_vars

-----------------------------------------------------------------------------
(* Properties. *)

\* Every variable has its type, and an instance remembers a task exactly while
\* it is claiming it.
TypeOK ==
    /\ status \in [Instances -> [Tasks -> Statuses]]
    /\ attempt \in [Instances -> [Tasks -> Nat]]
    /\ done \in [Instances -> SUBSET Tasks]
    /\ lock \in Instances \cup {None}
    /\ claims \subseteq Tasks /\ completed \subseteq Tasks
    /\ db \in [Tasks -> Statuses]
    /\ pc \in [Instances -> Pcs]
    /\ pick \in [Instances -> Tasks \cup {None}]
    /\ \A i \in Instances : pc[i] \in {"idle", "wait", "locked"} => pick[i] = None
    /\ \A i \in Instances : pc[i] \in {"claim", "persist", "deliver"} => pick[i] # None
    /\ write \in [Instances -> [Tasks -> Writes]]
    /\ up \subseteq Instances
    /\ handed \subseteq Instances \X Tasks
    /\ finished \subseteq Tasks
    /\ crashes \in Nat

\* As long as no process has crashed no task is with two agents at once, although
\* the scheduling lock may expire under its holder and be deleted by an instance
\* that no longer owns it.
OneAgentPerTask ==
    crashes = 0 => \A h, g \in handed : h[2] = g[2] => h = g

\* A task is given to an agent only when agents have completed everything it
\* depends on, whatever the instance remembered, read from Redis or reloaded.
DependenciesFirst ==
    \A h \in handed : Deps[h[2]] \subseteq finished

\* If no task fails, every task of the graph is completed, in spite of lock
\* expiry and of instances that keep picking a task another one has claimed.
AllTasksComplete == <>[](completed = Tasks)

\* COMPLETED is a terminal status.
CompletedIsTerminal ==
    [][\A t \in Tasks : db[t] = "completed" => db'[t] = "completed"]_vars
=============================================================================
