--------------------------- MODULE EconomicGovernor ---------------------------
(***************************************************************************)
(* The budget side of the Economic Governor: BudgetTracker                 *)
(* (budget_tracker.py) under its asyncio lock, the Monitor that feeds it   *)
(* from the event bus and polls it (monitor.py), the Enforcer              *)
(* (enforcer.py), the HTTP endpoint and the BudgetAllocationWorkflow       *)
(* (temporal/), with crashes and restarts from the last snapshot.          *)
(*                                                                         *)
(* One process, many coroutines.  What runs between two awaits is one      *)
(* action; a coroutine that holds the lock across an await keeps the       *)
(* others out:                                                             *)
(*                                                                         *)
(*   bus        idle -> record -> [persist ->] [snapshot -> publish        *)
(*                -> [publishPause]] -> idle, one message at a time        *)
(*   monitor    idle -> [snapshot -> publish -> [publishPause]] -> idle    *)
(*   client     idle -> record -> [persist] -> idle                        *)
(*   allocator  idle -> check -> refused | record -> [persist] -> allowed  *)
(***************************************************************************)
EXTENDS Integers, FiniteSets

CONSTANTS
    Clients,        \* concurrent POST /budget/record-consumption requests
    Allocators,     \* BudgetAllocationWorkflow executions
    Amounts,        \* tokens one call reports
    Budgets,        \* values total_tokens may be configured to
    Alert, Restrict, Halt,  \* thresholds, in hundredths of a percent
    MaxCalls,       \* bound: calls in a behaviour
    MaxCrashes,     \* bound: crashes in a behaviour
    Bus, Monitor, None

ASSUME AmountsAssumption == Amounts \subseteq Nat
ASSUME BudgetsAssumption == Budgets \subseteq Nat \ {0} /\ Budgets # {}
ASSUME ThresholdsAssumption ==
    /\ Alert \in 0 .. 10000 /\ Restrict \in 0 .. 10000 /\ Halt \in 0 .. 10000
    /\ Alert <= Restrict /\ Restrict <= Halt
ASSUME BoundsAssumption == MaxCalls \in Nat /\ MaxCrashes \in Nat
ASSUME ProcsAssumption ==
    /\ Bus # Monitor /\ {Bus, Monitor, None} \cap (Clients \cup Allocators) = {}
    /\ None \notin {Bus, Monitor} /\ Clients \cap Allocators = {}

Procs  == Clients \cup Allocators \cup {Bus, Monitor}
Levels == {"none", "alert", "restrict", "halt"}
Snapshots == [consumed : Nat, level : Levels]
ASSUME RowsAssumption == None \notin Snapshots

VARIABLES
    allocated,  \* _allocated_tokens
    consumed,   \* _consumed_tokens
    level,      \* _enforcement_level
    lock,       \* the coroutine holding _lock across an await
    db,         \* the latest budget_records row, None when there is none
    pc,         \* coroutine -> the await it is at
    amount,     \* coroutine -> tokens it reports
    seen,       \* coroutine -> the level it was returned
    snap,       \* coroutine -> the record it is about to write
    announced,  \* history: <<event, level>> published since the beginning
    lost,       \* history: what did not reach the row or come back from it
    calls, crashes

tracker == <<allocated, consumed, level, lock>>
locals  == <<pc, amount, seen, snap>>
history == <<announced, lost>>
vars == <<allocated, consumed, level, lock, db, pc, amount, seen, snap, announced, lost, calls, crashes>>

Pcs == {"idle", "check", "refused", "record", "persist", "allowed", "snapshot", "publish", "publishPause"}

Rank(l) == CASE l = "none" -> 0 [] l = "alert" -> 1 [] l = "restrict" -> 2 [] l = "halt" -> 3

\* consumed_pct: the share of the budget, rounded to two decimals.
ConsumedPct(used, total) == (20000 * used + total) \div (2 * total)

\* _compute_enforcement_level.
ComputeLevel(used, total) ==
    LET pct == ConsumedPct(used, total) IN
    CASE pct >= Halt -> "halt"
      [] pct < Halt /\ pct >= Restrict -> "restrict"
      [] pct < Restrict /\ pct >= Alert -> "alert"
      [] OTHER -> "none"

Init ==
    /\ allocated \in Budgets
    /\ consumed = 0
    /\ level = "none"
    /\ lock = None
    /\ db = None
    /\ pc = [p \in Procs |-> "idle"]
    /\ amount = [p \in Procs |-> 0]
    /\ seen = [p \in Procs |-> "none"]
    /\ snap = [p \in Procs |-> None]
    /\ announced = {}
    /\ lost = {}
    /\ calls = 0
    /\ crashes = 0

Goto(p, step) == pc' = [pc EXCEPT ![p] = step]

\* Where a call goes once its consumption is recorded: the bus handlers enforce
\* every level but NONE, the endpoint and the workflow only return it.
Recorded(p, l) ==
    CASE p = Bus /\ l # "none" -> "snapshot"
      [] p \in Allocators      -> "allowed"
      [] OTHER                 -> "idle"

-----------------------------------------------------------------------------
(* Consumption. *)

\* A message (AGENT_COMPLETED, ROUTING_DECISION), a request or a workflow starts.
BeginCall(p, tokens) ==
    /\ p # Monitor /\ pc[p] = "idle" /\ calls < MaxCalls
    /\ calls' = calls + 1
    /\ amount' = [amount EXCEPT ![p] = tokens]
    /\ Goto(p, IF p \in Allocators THEN "check" ELSE "record")
    /\ UNCHANGED <<tracker, db, seen, snap, history, crashes>>

\* check_budget_for_task.
CheckBudgetForTask(p) ==
    /\ pc[p] = "check" /\ lock = None
    /\ Goto(p, IF allocated - consumed >= amount[p] /\ level # "halt" THEN "record" ELSE "refused")
    /\ UNCHANGED <<tracker, db, amount, seen, snap, history, calls, crashes>>

\* Fault: the lock is released before the snapshot is written.
RecordConsumptionUnlocked(p) ==
    LET used == consumed + amount[p]
        new  == ComputeLevel(used, allocated)
    IN
    /\ pc[p] = "record" /\ lock = None
    /\ consumed' = used
    /\ level' = new
    /\ seen' = [seen EXCEPT ![p] = new]
    /\ snap' = [snap EXCEPT ![p] = IF new # level THEN [consumed |-> used, level |-> new] ELSE None]
    /\ Goto(p, IF new # level THEN "persist" ELSE Recorded(p, new))
    /\ UNCHANGED <<allocated, lock, db, amount, history, calls, crashes>>

\* record_consumption: the snapshot is made, and written under the lock, when
\* the level changed.
RecordConsumption(p) ==
    LET used == consumed + amount[p]
        new  == ComputeLevel(used, allocated)
    IN
    /\ pc[p] = "record" /\ lock = None
    /\ consumed' = used
    /\ level' = new
    /\ seen' = [seen EXCEPT ![p] = new]
    /\ \/ /\ new # level
          /\ lock' = p
          /\ snap' = [snap EXCEPT ![p] = [consumed |-> used, level |-> new]]
          /\ Goto(p, "persist")
       \/ /\ new = level
          /\ Goto(p, Recorded(p, new))
          /\ UNCHANGED <<lock, snap>>
    /\ UNCHANGED <<allocated, db, amount, history, calls, crashes>>

\* Fault: nothing is written.
PersistSnapshotSkipped(p) ==
    /\ pc[p] = "persist"
    /\ Goto(p, Recorded(p, seen[p]))
    /\ snap' = [snap EXCEPT ![p] = None]
    /\ lock' = IF lock = p THEN None ELSE lock
    /\ UNCHANGED <<allocated, consumed, level, db, amount, seen, history, calls, crashes>>

\* Fault: an exception leaves the lock taken.
PersistSnapshotKeepsLock(p) ==
    /\ pc[p] = "persist"
    /\ Goto(p, Recorded(p, seen[p]))
    /\ snap' = [snap EXCEPT ![p] = None]
    /\ \/ db' = snap[p] /\ lost' = lost /\ lock' = None
       \/ db' = db /\ lost' = lost \cup {"write"} /\ lock' = lock
    /\ UNCHANGED <<allocated, consumed, level, amount, seen, announced, calls, crashes>>

\* _persist_snapshot: a failure is logged and nothing more.
PersistSnapshot(p) ==
    /\ pc[p] = "persist"
    /\ \/ db' = snap[p] /\ UNCHANGED lost
       \/ lost' = lost \cup {"write"} /\ UNCHANGED db
    /\ lock' = IF lock = p THEN None ELSE lock
    /\ snap' = [snap EXCEPT ![p] = None]
    /\ Goto(p, Recorded(p, seen[p]))
    /\ UNCHANGED <<allocated, consumed, level, amount, seen, announced, calls, crashes>>

-----------------------------------------------------------------------------
(* Enforcement. *)

\* One turn of the monitoring loop: threshold_crossed under the lock, which does
\* nothing while the level is the one due.  The level it sets is not written to
\* the database.
Poll ==
    LET new == ComputeLevel(consumed, allocated) IN
    /\ pc[Monitor] = "idle" /\ lock = None
    /\ level' = new
    /\ \/ /\ new # level
          /\ seen' = [seen EXCEPT ![Monitor] = new]
          /\ Goto(Monitor, IF new = "none" THEN "idle" ELSE "snapshot")
       \/ new = level /\ UNCHANGED <<seen, pc>>
    /\ UNCHANGED <<allocated, consumed, lock, db, amount, snap, history, calls, crashes>>

\* _enforce_if_needed waits for the lock to take its snapshot.
TakeSnapshot(p) ==
    /\ pc[p] = "snapshot" /\ lock = None
    /\ Goto(p, "publish")
    /\ UNCHANGED <<tracker, db, amount, seen, snap, history, calls, crashes>>

EventFor(l) ==
    CASE l = "alert" -> "threshold_alert" [] l = "restrict" -> "tier_downgrade" [] l = "halt" -> "halt"

\* enforce_alert, enforce_halt and the first half of enforce_restrict.
Enforce(p) ==
    /\ pc[p] = "publish"
    /\ announced' = announced \cup {<<EventFor(seen[p]), seen[p]>>}
    /\ Goto(p, IF seen[p] = "restrict" THEN "publishPause" ELSE "idle")
    /\ UNCHANGED <<tracker, db, amount, seen, snap, lost, calls, crashes>>

\* The second half of enforce_restrict.
PauseTasks(p) ==
    /\ pc[p] = "publishPause"
    /\ announced' = announced \cup {<<"task_paused", "restrict">>}
    /\ Goto(p, "idle")
    /\ UNCHANGED <<tracker, db, amount, seen, snap, lost, calls, crashes>>

\* Fault: a refused publication is tried again, without end.
EnforceRetries(p) ==
    /\ pc[p] \in {"publish", "publishPause"}
    /\ Goto(p, "snapshot")
    /\ UNCHANGED <<tracker, db, amount, seen, snap, history, calls, crashes>>

\* The event bus refuses a publication: the exception ends the handler, or the
\* turn of the monitoring loop.
EnforceFails(p) ==
    /\ pc[p] \in {"publish", "publishPause"}
    /\ Goto(p, "idle")
    /\ UNCHANGED <<tracker, db, amount, seen, snap, history, calls, crashes>>

\* Fault: the total is not restored, only the level.
RestoredLevelOnly == 0

\* The row load_persisted_state restores the total and the level from.
Restored == IF db = None THEN 0 ELSE db.consumed
RestoredLevel == IF db = None THEN "none" ELSE db.level

\* Fault: the service starts without load_persisted_state.
CrashForgets ==
    /\ crashes < MaxCrashes
    /\ crashes' = crashes + 1
    /\ allocated' \in {b \in Budgets : b <= allocated}
    /\ consumed' = 0 /\ level' = "none" /\ lock' = None
    /\ pc' = [p \in Procs |-> IF p \notin Allocators THEN "idle"
                              ELSE IF pc[p] = "persist" THEN "record" ELSE pc[p]]
    /\ amount' = [p \in Procs |-> IF p \in Allocators THEN amount[p] ELSE 0]
    /\ seen' = [p \in Procs |-> "none"]
    /\ snap' = [p \in Procs |-> None]
    /\ UNCHANGED <<db, history, calls>>

\* The process dies and is started again, perhaps with a smaller budget:
\* load_persisted_state.  When the row cannot be read the tracker starts afresh.
\* A level only the monitoring loop has found is in no row.  Messages being
\* handled are not delivered again; the activity of an allocation is.
Crash ==
    /\ crashes < MaxCrashes
    /\ crashes' = crashes + 1
    /\ allocated' \in {b \in Budgets : b <= allocated}
    /\ \/ /\ consumed' = Restored /\ level' = RestoredLevel
          /\ lost' = lost \cup {x \in {"level"} : lock = None /\ level # RestoredLevel}
       \/ /\ consumed' = 0 /\ level' = "none"
          /\ lost' = lost \cup {"read"}
    /\ lock' = None
    /\ pc' = [p \in Procs |-> IF p \notin Allocators THEN "idle"
                              ELSE IF pc[p] = "persist" THEN "record" ELSE pc[p]]
    /\ amount' = [p \in Procs |-> IF p \in Allocators THEN amount[p] ELSE 0]
    /\ seen' = [p \in Procs |-> "none"]
    /\ snap' = [p \in Procs |-> None]
    /\ UNCHANGED <<db, announced, calls>>

\* What a coroutine does next when nothing fails.
Continue(p) ==
    \/ CheckBudgetForTask(p) \/ RecordConsumption(p) \/ PersistSnapshot(p)
    \/ TakeSnapshot(p) \/ Enforce(p) \/ PauseTasks(p)

Calls == \E p \in Procs : Continue(p) \/ \E tokens \in Amounts : BeginCall(p, tokens)

Next ==
    \/ Calls
    \/ Poll
    \/ \E p \in Procs : EnforceFails(p)
    \/ Crash

Spec == Init /\ [][Next]_vars

\* The event loop runs every coroutine that can go on, and asyncio.Lock serves
\* those that wait for it in turn.
Fairness == WF_vars(Poll) /\ \A p \in Procs : SF_vars(Continue(p))

FairSpec == Spec /\ Fairness

\* Nothing crashes and the event bus works.
ReliableSpec == Init /\ [][Calls \/ Poll]_vars /\ Fairness

-----------------------------------------------------------------------------
(* Properties. *)

\* Every variable has its type, and whoever holds the lock is writing a snapshot.
TypeOK ==
    /\ allocated \in Budgets /\ consumed \in Nat /\ level \in Levels
    /\ lock \in Procs \cup {None}
    /\ lock # None => pc[lock] = "persist"
    /\ db \in Snapshots \cup {None}
    /\ pc \in [Procs -> Pcs]
    /\ amount \in [Procs -> Nat]
    /\ seen \in [Procs -> Levels]
    /\ snap \in [Procs -> Snapshots \cup {None}]
    /\ \A p \in Procs : pc[p] = "persist" => snap[p] # None
    /\ announced \subseteq {"threshold_alert", "tier_downgrade", "halt", "task_paused"} \X Levels
    /\ lost \subseteq {"write", "read", "level"} /\ calls \in 0 .. MaxCalls /\ crashes \in 0 .. MaxCrashes

\* No level is announced that consumption does not warrant, and a crash does not
\* take it back: the total the governor knows still warrants every level it has
\* announced, unless a snapshot could not be written or read.  The row is committed
\* before the level is returned, so before it is enforced (record_consumption,
\* Monitor).
AnnouncedLevelsSurvive ==
    lost \subseteq {"level"} => \A a \in announced : Rank(a[2]) <= Rank(ComputeLevel(consumed, allocated))

\* The row a restart reads never goes back to a smaller total or a weaker level,
\* although several coroutines write rows: snapshots are written in the order
\* they were taken (record_consumption awaits the write under the lock).  Only a
\* restart that could not read the row may put a smaller one after it.
SnapshotStep ==
    "read" \notin lost /\ db' # db /\ db # None =>
       db'.consumed >= db.consumed /\ Rank(db'.level) >= Rank(db.level)
SnapshotsNeverGoBack == [][SnapshotStep]_vars

\* Once BUDGET_HALT is on the bus no allocation is granted, crashes or not, unless
\* a snapshot could not be written or read, or a level that only the monitoring
\* loop had found was forgotten in a crash (check_budget_for_task).
AllocationStep ==
    \A p \in Allocators :
       lost = {} /\ <<"halt", "halt">> \in announced => ~ (pc[p] = "check" /\ pc'[p] = "record")
HaltStopsAllocation == [][AllocationStep]_vars

\* Every call returns: nobody waits for the tracker's lock for ever, failed
\* snapshot writes and crashes included.
CallsReturn ==
    \A p \in Procs : []<>(pc[p] \in {"idle", "refused", "allowed"})

\* What the enforcer's description says: when the tracker detects that consumption
\* crosses a threshold, the enforcer acts; here for the halt.
HaltIsAnnounced == (level = "halt") ~> (<<"halt", "halt">> \in announced)

\* The tracker keeps its types and its lock discipline, and the level that was announced is the
\* level a restart still enforces.
BudgetLevelsHold ==
    /\ TypeOK
    /\ AnnouncedLevelsSurvive

\* No step takes a snapshot back to less consumption or grants an allocation after the halt.
BudgetStepsAreAllowed == [][SnapshotStep /\ AllocationStep]_vars
=============================================================================
