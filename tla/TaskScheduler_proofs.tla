------------------------ MODULE TaskScheduler_proofs ---------------------------
(***************************************************************************)
(* Proofs about TaskScheduler, for any number of instances and tasks, any  *)
(* dependencies and priorities, any retry budget.                          *)
(***************************************************************************)
EXTENDS TaskScheduler, TLAPS

-----------------------------------------------------------------------------
(* Type correctness. *)

LEMMA InitType == Init => TypeOK
  BY NoneAssumption DEF Init, TypeOK, Statuses, Pcs, Writes

LEMMA NextType == TypeOK /\ [Next]_vars => TypeOK'
<1> SUFFICES ASSUME TypeOK, [Next]_vars PROVE TypeOK'
  OBVIOUS
<1> USE NoneAssumption, LimitsAssumption DEF TypeOK, memory, shared, ghosts, Goto, Statuses, Pcs, Writes
<1>1. ASSUME NEW i \in Instances, BeginSchedule(i) PROVE TypeOK'
  BY <1>1 DEF BeginSchedule
<1>2. ASSUME NEW i \in Instances, AcquireLock(i) PROVE TypeOK'
  BY <1>2 DEF AcquireLock
<1>3. ASSUME NEW i \in Instances, LockTimesOut(i) PROVE TypeOK'
  BY <1>3 DEF LockTimesOut
<1>4. ASSUME NEW i \in Instances, PickTask(i) PROVE TypeOK'
  <2>1. done' \in [Instances -> SUBSET Tasks]
    BY <1>4 DEF PickTask
  <2>2. Best(ReadyTasks(done'[i])) \subseteq Tasks
    BY DEF Best, ReadyTasks
  <2>3. CASE Goto(i, "nothing") /\ UNCHANGED pick
    BY <1>4, <2>1, <2>3 DEF PickTask
  <2>4. ASSUME NEW t \in Tasks, pick' = [pick EXCEPT ![i] = t], Goto(i, "claim") PROVE TypeOK'
    BY <1>4, <2>1, <2>4 DEF PickTask
  <2> QED BY <1>4, <2>2, <2>3, <2>4, Zenon DEF PickTask
<1>5. ASSUME NEW i \in Instances, ClaimRefused(i) PROVE TypeOK'
  BY <1>5 DEF ClaimRefused
<1>6. ASSUME NEW i \in Instances, ClaimInvalid(i) PROVE TypeOK'
  BY <1>6 DEF ClaimInvalid
<1>7. ASSUME NEW i \in Instances, ClaimWon(i) PROVE TypeOK'
  <2>1. pick[i] \in Tasks
    BY <1>7 DEF ClaimWon
  <2> QED BY <1>7, <2>1 DEF ClaimWon
<1>8. ASSUME NEW i \in Instances, PersistRunning(i) PROVE TypeOK'
  <2>1. pick[i] \in Tasks
    BY <1>8 DEF PersistRunning
  <2> QED BY <1>8, <2>1 DEF PersistRunning
<1>9. ASSUME NEW i \in Instances, ReleaseLock(i) PROVE TypeOK'
  BY <1>9 DEF ReleaseLock
<1>10. ASSUME NEW i \in Instances, NEW t \in Tasks, MarkCompleted(i, t) PROVE TypeOK'
  BY <1>10 DEF MarkCompleted, Transition, AtRest
<1>11. ASSUME NEW i \in Instances, NEW t \in Tasks, MarkFailed(i, t) PROVE TypeOK'
  BY <1>11 DEF MarkFailed, Transition, AtRest
<1>12. ASSUME NEW i \in Instances, NEW t \in Tasks, ShouldRetry(i, t) PROVE TypeOK'
  BY <1>12 DEF ShouldRetry, Transition, AtRest
<1>13. ASSUME NEW i \in Instances, NEW t \in Tasks, AddCompleted(i, t) PROVE TypeOK'
  BY <1>13 DEF AddCompleted
<1>14. ASSUME NEW i \in Instances, NEW t \in Tasks, DropClaim(i, t) PROVE TypeOK'
  BY <1>14 DEF DropClaim
<1>15. ASSUME NEW i \in Instances, NEW t \in Tasks, PersistStatus(i, t) PROVE TypeOK'
  BY <1>15 DEF PersistStatus
<1>16. CASE LockExpires
  BY <1>16 DEF LockExpires
<1>17. ASSUME NEW t \in Tasks, ClaimExpires(t) PROVE TypeOK'
  BY <1>17 DEF ClaimExpires
<1>18. ASSUME NEW i \in Instances, Crash(i) PROVE TypeOK'
  BY <1>18 DEF Crash
<1>19. ASSUME NEW i \in Instances, Restart(i) PROVE TypeOK'
  BY <1>19 DEF Restart
<1>20. CASE UNCHANGED vars
  BY <1>20 DEF vars
<1> QED
  BY <1>1, <1>2, <1>3, <1>4, <1>5, <1>6, <1>7, <1>8, <1>9, <1>10, <1>11, <1>12, <1>13, <1>14,
     <1>15, <1>16, <1>17, <1>18, <1>19, <1>20, Zenon
     DEF Next, SteadyNext, Schedule, Lifecycle

\* Every variable keeps its type through expiry, crashes and restarts.
THEOREM TypeCorrect == Spec => []TypeOK
  BY InitType, NextType, PTL DEF Spec
-----------------------------------------------------------------------------
(* Dependencies first.  Everything an instance can take for completed, in    *)
(* its memory, in Redis, in the database or still on its way to them, has    *)
(* been completed by an agent.                                               *)

Completing == {"sadd", "del", "completed", "syncAdd", "syncDel"}

CompletionsAreReal ==
    /\ \A i \in Instances : done[i] \subseteq finished
    /\ completed \subseteq finished
    /\ \A t \in Tasks : db[t] = "completed" => t \in finished
    /\ \A i \in Instances, t \in Tasks : write[i][t] \in Completing => t \in finished

PickIsReady ==
    \A i \in Instances : pc[i] = "claim" => Deps[pick[i]] \subseteq finished

ReadyToStart ==
    \A i \in Instances, t \in Tasks : <<i, t>> \in handed => Deps[t] \subseteq finished

DInv == TypeOK /\ CompletionsAreReal /\ PickIsReady /\ ReadyToStart

LEMMA InitDInv == Init => DInv
  BY InitType DEF Init, DInv, CompletionsAreReal, PickIsReady, ReadyToStart, Completing

LEMMA NextDInv == DInv /\ [Next]_vars => DInv'
<1> SUFFICES ASSUME DInv, [Next]_vars PROVE DInv'
  OBVIOUS
<1>0. TypeOK'
  BY NextType DEF DInv
<1> DEFINE Goal == (CompletionsAreReal /\ PickIsReady /\ ReadyToStart)'
<1> SUFFICES Goal
  BY <1>0 DEF DInv
<1> USE NoneAssumption, <1>0
    DEF DInv, TypeOK, memory, shared, ghosts, Goto, CompletionsAreReal, PickIsReady, ReadyToStart, Completing
<1>1. ASSUME NEW i \in Instances, BeginSchedule(i) PROVE Goal
  BY <1>1 DEF BeginSchedule
<1>2. ASSUME NEW i \in Instances, AcquireLock(i) PROVE Goal
  BY <1>2 DEF AcquireLock
<1>3. ASSUME NEW i \in Instances, LockTimesOut(i) PROVE Goal
  BY <1>3 DEF LockTimesOut
<1>4. ASSUME NEW i \in Instances, PickTask(i) PROVE Goal
  <2>1. done' = [done EXCEPT ![i] = @ \cup completed] /\ done'[i] \subseteq finished
    BY <1>4 DEF PickTask
  <2>2. \A t \in Best(ReadyTasks(done'[i])) : t \in Tasks /\ Deps[t] \subseteq finished
    BY <2>1 DEF Best, ReadyTasks
  <2>3. CASE Goto(i, "nothing") /\ UNCHANGED pick
    BY <1>4, <2>1, <2>3 DEF PickTask
  <2>4. ASSUME NEW t \in Tasks, Deps[t] \subseteq finished,
               pick' = [pick EXCEPT ![i] = t], Goto(i, "claim")
        PROVE Goal
    BY <1>4, <2>1, <2>4 DEF PickTask
  <2>5. \/ Goto(i, "nothing") /\ UNCHANGED pick
        \/ \E t \in Best(ReadyTasks(done'[i])) : pick' = [pick EXCEPT ![i] = t] /\ Goto(i, "claim")
    BY <1>4, Zenon DEF PickTask
  <2> HIDE DEF Goal
  <2> QED BY <2>2, <2>3, <2>4, <2>5, Zenon
<1>5. ASSUME NEW i \in Instances, ClaimRefused(i) PROVE Goal
  BY <1>5 DEF ClaimRefused
<1>6. ASSUME NEW i \in Instances, ClaimInvalid(i) PROVE Goal
  BY <1>6 DEF ClaimInvalid
<1>7. ASSUME NEW i \in Instances, ClaimWon(i) PROVE Goal
  <2>1. pick[i] \in Tasks /\ Deps[pick[i]] \subseteq finished
    BY <1>7 DEF ClaimWon
  <2> QED BY <1>7, <2>1 DEF ClaimWon
<1>8. ASSUME NEW i \in Instances, PersistRunning(i) PROVE Goal
  BY <1>8 DEF PersistRunning
<1>9. ASSUME NEW i \in Instances, ReleaseLock(i) PROVE Goal
  BY <1>9 DEF ReleaseLock
<1>10. ASSUME NEW i \in Instances, NEW t \in Tasks, MarkCompleted(i, t) PROVE Goal
  BY <1>10 DEF MarkCompleted, Transition, AtRest
<1>11. ASSUME NEW i \in Instances, NEW t \in Tasks, MarkFailed(i, t) PROVE Goal
  BY <1>11 DEF MarkFailed, Transition, AtRest
<1>12. ASSUME NEW i \in Instances, NEW t \in Tasks, ShouldRetry(i, t) PROVE Goal
  BY <1>12 DEF ShouldRetry, Transition, AtRest
<1>13. ASSUME NEW i \in Instances, NEW t \in Tasks, AddCompleted(i, t) PROVE Goal
  BY <1>13 DEF AddCompleted
<1>14. ASSUME NEW i \in Instances, NEW t \in Tasks, DropClaim(i, t) PROVE Goal
  BY <1>14 DEF DropClaim
<1>15. ASSUME NEW i \in Instances, NEW t \in Tasks, PersistStatus(i, t) PROVE Goal
  BY <1>15 DEF PersistStatus
<1>16. CASE LockExpires
  BY <1>16 DEF LockExpires
<1>17. ASSUME NEW t \in Tasks, ClaimExpires(t) PROVE Goal
  BY <1>17 DEF ClaimExpires
<1>18. ASSUME NEW i \in Instances, Crash(i) PROVE Goal
  BY <1>18 DEF Crash
<1>19. ASSUME NEW i \in Instances, Restart(i) PROVE Goal
  BY <1>19 DEF Restart
<1>20. CASE UNCHANGED vars
  BY <1>20 DEF vars
<1> QED
  BY <1>1, <1>2, <1>3, <1>4, <1>5, <1>6, <1>7, <1>8, <1>9, <1>10, <1>11, <1>12, <1>13, <1>14,
     <1>15, <1>16, <1>17, <1>18, <1>19, <1>20, Zenon
     DEF Next, SteadyNext, Schedule, Lifecycle

LEMMA DInvImplies == DInv => DependenciesFirst
<1> SUFFICES ASSUME DInv, NEW h \in handed PROVE Deps[h[2]] \subseteq finished
  BY DEF DependenciesFirst
<1>1. h = <<h[1], h[2]>> /\ h[1] \in Instances /\ h[2] \in Tasks
  BY DEF DInv, TypeOK
<1> QED BY <1>1 DEF DInv, ReadyToStart

\* No task reaches an agent before agents have completed everything it depends
\* on: neither stale completed sets, nor lock and claim expiry, nor crashes and
\* reloads from the database break the order.
THEOREM DependenciesRespected == Spec => []DependenciesFirst
<1>1. Spec => []DInv
  BY InitDInv, NextDInv, PTL DEF Spec
<1> QED BY <1>1, DInvImplies, PTL

-----------------------------------------------------------------------------
(* One agent per task, while claims outlive tasks and nothing crashes.  The  *)
(* scheduling lock plays no part: the claim key alone is what excludes.      *)

\* The instance whose claim on t is still needed.
Holds(i, t) == <<i, t>> \in handed \/ write[i][t] \in {"sadd", "del"}

HolderHasClaim == \A i \in Instances, t \in Tasks : Holds(i, t) => t \in claims

OneHolder == \A i, j \in Instances, t \in Tasks : Holds(i, t) /\ Holds(j, t) => i = j

HandedIsRunning ==
    \A i \in Instances, t \in Tasks : <<i, t>> \in handed <=> status[i][t] = "running"

ReporterIsDone ==
    \A i \in Instances, t \in Tasks : write[i][t] \in {"sadd", "del"} => status[i][t] = "completed"

NoReload ==
    /\ up = Instances
    /\ \A i \in Instances, t \in Tasks : write[i][t] \notin {"syncAdd", "syncDel"}

HInv == TypeOK /\ HolderHasClaim /\ OneHolder /\ HandedIsRunning /\ ReporterIsDone /\ NoReload

LEMMA InitHInv == Init => HInv
  BY InitType DEF Init, HInv, HolderHasClaim, OneHolder, HandedIsRunning, ReporterIsDone, NoReload, Holds

LEMMA NextHInv == HInv /\ [SteadyNext]_vars => HInv'
<1> SUFFICES ASSUME HInv, [SteadyNext]_vars PROVE HInv'
  OBVIOUS
<1>0. TypeOK'
  BY NextType DEF HInv, Next
<1> DEFINE Goal == (HolderHasClaim /\ OneHolder /\ HandedIsRunning /\ ReporterIsDone /\ NoReload)'
<1> SUFFICES Goal
  BY <1>0 DEF HInv
<1> USE NoneAssumption, <1>0
    DEF HInv, TypeOK, memory, shared, ghosts, Goto, HolderHasClaim, OneHolder, HandedIsRunning, ReporterIsDone, NoReload, Holds
<1>1. ASSUME NEW i \in Instances, BeginSchedule(i) PROVE Goal
  BY <1>1 DEF BeginSchedule
<1>2. ASSUME NEW i \in Instances, AcquireLock(i) PROVE Goal
  BY <1>2 DEF AcquireLock
<1>3. ASSUME NEW i \in Instances, LockTimesOut(i) PROVE Goal
  BY <1>3 DEF LockTimesOut
<1>4. ASSUME NEW i \in Instances, PickTask(i) PROVE Goal
  BY <1>4 DEF PickTask
<1>5. ASSUME NEW i \in Instances, ClaimRefused(i) PROVE Goal
  BY <1>5 DEF ClaimRefused
<1>6. ASSUME NEW i \in Instances, ClaimInvalid(i) PROVE Goal
  BY <1>6 DEF ClaimInvalid
<1>7. ASSUME NEW i \in Instances, ClaimWon(i) PROVE Goal
  <2>1. pick[i] \in Tasks /\ pick[i] \notin claims
    BY <1>7 DEF ClaimWon
  <2>2. status[i][pick[i]] = "pending"
    BY <1>7, <2>1 DEF ClaimWon, ValidTransition
  <2> QED BY <1>7, <2>1, <2>2 DEF ClaimWon
<1>8. ASSUME NEW i \in Instances, PersistRunning(i) PROVE Goal
  BY <1>8 DEF PersistRunning
<1>9. ASSUME NEW i \in Instances, ReleaseLock(i) PROVE Goal
  BY <1>9 DEF ReleaseLock
<1>10. ASSUME NEW i \in Instances, NEW t \in Tasks, MarkCompleted(i, t) PROVE Goal
  <2>1. status[i][t] = "running" /\ <<i, t>> \in handed
    BY <1>10 DEF MarkCompleted, Transition, ValidTransition
  <2> QED BY <1>10, <2>1 DEF MarkCompleted, Transition
<1>11. ASSUME NEW i \in Instances, NEW t \in Tasks, MarkFailed(i, t) PROVE Goal
  <2>1. status[i][t] = "running"
    BY <1>11 DEF MarkFailed, Transition, ValidTransition
  <2> QED BY <1>11, <2>1 DEF MarkFailed, Transition
<1>12. ASSUME NEW i \in Instances, NEW t \in Tasks, ShouldRetry(i, t) PROVE Goal
  <2>1. status[i][t] = "failed"
    BY <1>12 DEF ShouldRetry, Transition, ValidTransition
  <2> QED BY <1>12, <2>1 DEF ShouldRetry, Transition
<1>13. ASSUME NEW i \in Instances, NEW t \in Tasks, AddCompleted(i, t) PROVE Goal
  BY <1>13 DEF AddCompleted
<1>14. ASSUME NEW i \in Instances, NEW t \in Tasks, DropClaim(i, t) PROVE Goal
  <2>1. write[i][t] = "del" /\ <<i, t>> \notin handed
    BY <1>14 DEF DropClaim
  <2>2. write'[i][t] = "completed"
    BY <1>14, <2>1 DEF DropClaim
  <2>3. \A j \in Instances : ~ Holds(j, t)'
    BY <1>14, <2>1, <2>2 DEF DropClaim
  <2> QED BY <1>14, <2>1, <2>3 DEF DropClaim
<1>15. ASSUME NEW i \in Instances, NEW t \in Tasks, PersistStatus(i, t) PROVE Goal
  BY <1>15 DEF PersistStatus
<1>16. CASE LockExpires
  BY <1>16 DEF LockExpires
<1>17. CASE UNCHANGED vars
  BY <1>17 DEF vars
<1> QED
  BY <1>1, <1>2, <1>3, <1>4, <1>5, <1>6, <1>7, <1>8, <1>9, <1>10, <1>11, <1>12, <1>13, <1>14,
     <1>15, <1>16, <1>17, Zenon
     DEF SteadyNext, Schedule, Lifecycle

LEMMA HInvImplies == HInv => OneAgentPerTask
<1> SUFFICES ASSUME HInv, NEW h \in handed, NEW g \in handed, h[2] = g[2] PROVE h = g
  BY DEF OneAgentPerTask
<1>1. h = <<h[1], h[2]>> /\ h[1] \in Instances /\ h[2] \in Tasks
  BY DEF HInv, TypeOK
<1>2. g = <<g[1], g[2]>> /\ g[1] \in Instances
  BY DEF HInv, TypeOK
<1> QED BY <1>1, <1>2, Zenon DEF HInv, OneHolder, Holds

\* However many instances there are and however often the scheduling lock
\* expires under its holder, or is deleted by an instance that lost it, no task
\* is with two agents at once.
THEOREM MutualExclusion == SteadySpec => []OneAgentPerTask
<1>1. SteadySpec => []HInv
  BY InitHInv, NextHInv, PTL DEF SteadySpec
<1> QED BY <1>1, HInvImplies, PTL
=============================================================================
