--------------------------- MODULE MCTaskScheduler ----------------------------
(* Small instances of TaskScheduler for TLC. *)
EXTENDS TaskScheduler, TLC

CONSTANTS a, b

\* Two tasks, one waiting for the other.
MCChain == (a :> {}) @@ (b :> {a})
MCChainPriority == (a :> 1) @@ (b :> 1)

\* Nothing times out and nothing fails but the tasks themselves.
PromptNext ==
    \E i \in Instances : Schedule(i) \/ \E t \in Tasks : Lifecycle(i, t)

PromptSpec == Init /\ [][PromptNext]_vars

\* No task fails: agents keep asking for work and finish what they are given.
SuccessNext ==
    \/ \E i \in Instances :
          \/ Schedule(i)
          \/ \E t \in Tasks : MarkCompleted(i, t) \/ AddCompleted(i, t) \/ DropClaim(i, t) \/ PersistStatus(i, t)
    \/ LockExpires

\* Agents finish what they were given; nobody finishes what nobody has.
AgentFinishes(i, t) == <<i, t>> \in handed /\ MarkCompleted(i, t)

SchedulingFairness ==
    \A i \in Instances :
        /\ WF_vars(BeginSchedule(i))
        /\ SF_vars(AcquireLock(i)) /\ WF_vars(PickTask(i))
        /\ WF_vars(ClaimRefused(i)) /\ WF_vars(ClaimInvalid(i)) /\ WF_vars(ClaimWon(i))
        /\ WF_vars(PersistRunning(i)) /\ WF_vars(ReleaseLock(i))
        /\ \A t \in Tasks :
              /\ WF_vars(AgentFinishes(i, t)) /\ WF_vars(AddCompleted(i, t))
              /\ WF_vars(DropClaim(i, t)) /\ WF_vars(PersistStatus(i, t))

SuccessSpec == Init /\ [][SuccessNext]_vars /\ SchedulingFairness

\* Crashes and restarts at every step, with tasks that do not fail; what a dead
\* process left in Redis expires.
CrashNext ==
    \/ SuccessNext
    \/ \E i \in Instances : Crash(i) \/ Restart(i)
    \/ up # Instances /\ \E t \in Tasks : ClaimExpires(t)

\* Failing tasks without crashes, or crashes without failing tasks.
SteadyOrCrashSpec == Init /\ [][(crashes = 0 /\ SteadyNext) \/ CrashNext]_vars

InstanceSymmetry == Permutations(Instances)
=============================================================================
