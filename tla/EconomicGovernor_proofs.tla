------------------------ MODULE EconomicGovernor_proofs ------------------------
(***************************************************************************)
(* Proofs about EconomicGovernor for any number of requests, allocations   *)
(* and crashes, any budgets and any thresholds.                            *)
(*                                                                         *)
(* What BudgetLevelsHold says of announced levels is kept up by the row in *)
(* the database: GInv says that everything announced, or about to be, is   *)
(* warranted by the total in the row, that a level above that exists only  *)
(* while its snapshot is being written under the lock, and that levels     *)
(* only rise between two restarts.                                         *)
(***************************************************************************)
EXTENDS EconomicGovernor, TLAPS

Enforcing == {"snapshot", "publish", "publishPause"}

\* The level due to the total a restart would find.
LevelOfRow == ComputeLevel(Restored, allocated)

\* Only the bus handlers and the monitoring loop enforce, and they know what.
EnforcersKnow ==
    \A p \in Procs :
        /\ pc[p] \in Enforcing => p \in {Bus, Monitor} /\ seen[p] # "none"
        /\ pc[p] = "publishPause" => seen[p] = "restrict"

\* Whoever writes a snapshot holds the lock, and writes what is so.
WritersHoldTheLock ==
    \A p \in Procs :
        pc[p] = "persist" =>
            /\ lock = p /\ snap[p] = [consumed |-> consumed, level |-> level]
            /\ seen[p] = level /\ level = ComputeLevel(consumed, allocated)

\* A level is never above the one due, in the row or in memory; the row is never
\* ahead of memory, and a level below the one due is one the row came with.
LevelsAreDue ==
    /\ Rank(level) <= Rank(ComputeLevel(consumed, allocated))
    /\ db # None => Rank(db.level) <= Rank(ComputeLevel(db.consumed, allocated))
    /\ "read" \notin lost =>
          /\ Restored <= consumed
          /\ level = ComputeLevel(consumed, allocated) \/ consumed = Restored

\* What is announced, or about to be, is warranted by the row.
AnnouncedInRow ==
    lost \subseteq {"level"} =>
        /\ \A a \in announced : Rank(a[2]) <= Rank(LevelOfRow)
        /\ \A p \in Procs : pc[p] \in Enforcing => Rank(seen[p]) <= Rank(LevelOfRow)
        /\ lock = None => Rank(level) <= Rank(LevelOfRow)

\* Once a halt is announced, or about to be, the level stays.
HaltSeen ==
    <<"halt", "halt">> \in announced \/ \E p \in Procs : pc[p] \in Enforcing /\ seen[p] = "halt"
HaltStays == lost = {} /\ HaltSeen => level = "halt" /\ lock = None

GInv ==
    /\ TypeOK /\ EnforcersKnow /\ WritersHoldTheLock /\ LevelsAreDue /\ AnnouncedInRow /\ HaltStays

USE DEF Enforcing

-----------------------------------------------------------------------------
(* Shares of a budget. *)

LEMMA RankType == \A l \in Levels : Rank(l) \in 0 .. 3 /\ (Rank(l) = 0 <=> l = "none") /\ (Rank(l) = 3 <=> l = "halt")
  BY DEF Levels, Rank

\* Integer division, from below.
LEMMA DivisionBound ==
  ASSUME NEW n \in Nat, NEW d \in Nat, d > 0
  PROVE  n \div d \in Nat /\ d * (n \div d) <= n
  OBVIOUS

LEMMA DivisionLargest ==
  ASSUME NEW n \in Nat, NEW d \in Nat, d > 0, NEW q \in Nat, d * q <= n
  PROVE  q <= n \div d
  OBVIOUS

LEMMA ProductMonotone ==
  ASSUME NEW a \in Nat, NEW b \in Nat, NEW c \in Nat, a <= b
  PROVE  a * c <= b * c
  OBVIOUS

\* More tokens used, or fewer allocated, are never a smaller share.
LEMMA ShareMonotone ==
  ASSUME NEW u \in Nat, NEW v \in Nat, NEW s \in Nat \ {0}, NEW t \in Nat \ {0}, u <= v, t <= s
  PROVE  ConsumedPct(u, s) \in Nat /\ ConsumedPct(v, t) \in Nat /\ ConsumedPct(u, s) <= ConsumedPct(v, t)
<1> DEFINE q == (20000 * u + s) \div (2 * s)
<1>1. s \in Nat /\ t \in Nat /\ s > 0 /\ t > 0
  OBVIOUS
<1>2. q \in Nat /\ (2 * s) * q <= 20000 * u + s
  BY <1>1, DivisionBound
<1>3. (20000 * v + t) \div (2 * t) \in Nat
  BY <1>1, DivisionBound
<1> HIDE DEF q
<1>4. (2 * t) * q <= 20000 * v + t
  <2>1. CASE q = 0
    BY <1>1, <2>1
  <2>2. CASE q > 0
    <3> DEFINE c == 2 * q - 1
    <3>1. c \in Nat
      BY <1>2, <2>2
    <3>2. (2 * s) * q = s * c + s /\ (2 * t) * q = t * c + t
      BY <1>1, <1>2
    <3> HIDE DEF c
    <3>3. s * c \in Nat /\ t * c \in Nat /\ t * c <= s * c
      BY <1>1, <3>1, ProductMonotone
    <3>4. s * c <= 20000 * u
      BY <1>1, <1>2, <3>2, <3>3
    <3> QED BY <1>1, <3>2, <3>3, <3>4
  <2> QED BY <1>2, <2>1, <2>2
<1>5. q <= (20000 * v + t) \div (2 * t)
  BY <1>1, <1>2, <1>4, DivisionLargest
<1> QED BY <1>2, <1>3, <1>5 DEF q, ConsumedPct

LEMMA LevelType ==
  ASSUME NEW u, NEW t
  PROVE  ComputeLevel(u, t) \in Levels
  BY DEF ComputeLevel, Levels

\* Nor are they a weaker level.
LEMMA LevelMonotone ==
  ASSUME NEW u \in Nat, NEW v \in Nat, NEW s \in Nat \ {0}, NEW t \in Nat \ {0}, u <= v, t <= s
  PROVE  Rank(ComputeLevel(u, s)) <= Rank(ComputeLevel(v, t))
<1> DEFINE x == ConsumedPct(u, s)
           y == ConsumedPct(v, t)
<1>1. x \in Nat /\ y \in Nat /\ x <= y
  BY ShareMonotone
<1>2. Alert \in Nat /\ Restrict \in Nat /\ Halt \in Nat
  BY ThresholdsAssumption
<1>3. /\ ComputeLevel(u, s) = (CASE x >= Halt -> "halt" [] x < Halt /\ x >= Restrict -> "restrict"
                                 [] x < Restrict /\ x >= Alert -> "alert" [] OTHER -> "none")
      /\ ComputeLevel(v, t) = (CASE y >= Halt -> "halt" [] y < Halt /\ y >= Restrict -> "restrict"
                                 [] y < Restrict /\ y >= Alert -> "alert" [] OTHER -> "none")
  BY DEF ComputeLevel
<1> HIDE DEF x, y
<1> QED BY <1>1, <1>2, <1>3, ThresholdsAssumption DEF Rank
-----------------------------------------------------------------------------
(* Type correctness. *)

LEMMA ProcsDistinct ==
  /\ Bus \in Procs /\ Monitor \in Procs /\ None \notin Procs /\ Bus # Monitor
  /\ Bus \notin Allocators /\ Monitor \notin Allocators
  BY ProcsAssumption DEF Procs

LEMMA InitGInv == Init => GInv
<1> SUFFICES ASSUME Init PROVE GInv
  OBVIOUS
<1> USE ProcsDistinct, BudgetsAssumption, BoundsAssumption DEF Init
<1>1. TypeOK
  <2>1. 0 \in 0 .. MaxCalls /\ 0 \in 0 .. MaxCrashes
    OBVIOUS
  <2> QED BY <2>1 DEF TypeOK, Pcs, Levels
<1>2. EnforcersKnow /\ WritersHoldTheLock /\ HaltStays
  BY DEF EnforcersKnow, WritersHoldTheLock, HaltStays, HaltSeen
<1>3. Restored = 0 /\ Rank(level) = 0
  BY DEF Restored, Rank
<1>4. Rank(ComputeLevel(consumed, allocated)) \in Nat /\ Rank(LevelOfRow) \in Nat
  BY LevelType, RankType DEF LevelOfRow
<1>5. LevelsAreDue /\ AnnouncedInRow
  BY <1>3, <1>4 DEF LevelsAreDue, AnnouncedInRow
<1> QED BY <1>1, <1>2, <1>5 DEF GInv

LEMMA RecordedType ==
  ASSUME NEW p, NEW l
  PROVE  Recorded(p, l) \in {"snapshot", "allowed", "idle"} /\ (Recorded(p, l) = "snapshot" <=> p = Bus /\ l # "none")
  BY ProcsDistinct DEF Recorded

LEMMA NextType == GInv /\ [Next]_vars => TypeOK'
<1> SUFFICES ASSUME GInv, [Next]_vars PROVE TypeOK'
  OBVIOUS
<1> USE ProcsDistinct, BoundsAssumption DEF GInv, TypeOK, tracker, history, Goto
<1>1. ASSUME NEW p \in Procs, NEW tokens \in Amounts, BeginCall(p, tokens) PROVE TypeOK'
  <2>1. calls' \in 0 .. MaxCalls
    BY <1>1 DEF BeginCall
  <2>2. tokens \in Nat
    BY AmountsAssumption
  <2> QED BY <1>1, <2>1, <2>2 DEF BeginCall, Pcs
<1>2. ASSUME NEW p \in Procs, CheckBudgetForTask(p) PROVE TypeOK'
  BY <1>2 DEF CheckBudgetForTask, Pcs
<1>3. ASSUME NEW p \in Procs, RecordConsumption(p) PROVE TypeOK'
  <2> DEFINE used == consumed + amount[p]
             new  == ComputeLevel(used, allocated)
  <2>1. used \in Nat /\ new \in Levels
    BY LevelType
  <2>2. [consumed |-> used, level |-> new] \in Snapshots
    BY <2>1 DEF Snapshots
  <2>3. [consumed |-> used, level |-> new] # None
    BY <2>2, RowsAssumption
  <2>4. /\ consumed' = used /\ level' = new /\ seen' = [seen EXCEPT ![p] = new] /\ pc[p] = "record" /\ lock = None
        /\ UNCHANGED <<allocated, db, amount, announced, lost, calls, crashes>>
    BY <1>3 DEF RecordConsumption
  <2> HIDE DEF used, new
  <2>5. CASE /\ lock' = p /\ snap' = [snap EXCEPT ![p] = [consumed |-> used, level |-> new]]
             /\ pc' = [pc EXCEPT ![p] = "persist"]
    BY <2>1, <2>2, <2>3, <2>4, <2>5 DEF Pcs
  <2>6. CASE pc' = [pc EXCEPT ![p] = Recorded(p, new)] /\ UNCHANGED <<lock, snap>>
    BY <2>1, <2>4, <2>6, RecordedType DEF Pcs
  <2> QED BY <1>3, <2>5, <2>6 DEF RecordConsumption, used, new
<1>4. ASSUME NEW p \in Procs, PersistSnapshot(p) PROVE TypeOK'
  <2>1. snap[p] \in Snapshots /\ pc[p] = "persist" /\ lock = p
    BY <1>4 DEF PersistSnapshot, WritersHoldTheLock
  <2>2. lost' \subseteq {"write", "read", "level"} /\ db' \in Snapshots \cup {None}
    BY <1>4, <2>1 DEF PersistSnapshot
  <2> QED BY <1>4, <2>1, <2>2, RecordedType DEF PersistSnapshot, Pcs
<1>5. ASSUME NEW p \in Procs, TakeSnapshot(p) PROVE TypeOK'
  BY <1>5 DEF TakeSnapshot, Pcs
<1>6. ASSUME NEW p \in Procs, Enforce(p) PROVE TypeOK'
  <2>1. seen[p] \in {"alert", "restrict", "halt"}
    BY <1>6 DEF Enforce, EnforcersKnow, Levels
  <2>2. EventFor(seen[p]) \in {"threshold_alert", "tier_downgrade", "halt"}
    BY <2>1 DEF EventFor
  <2>3. announced' \subseteq {"threshold_alert", "tier_downgrade", "halt", "task_paused"} \X Levels
    BY <1>6, <2>2 DEF Enforce
  <2> QED BY <1>6, <2>3 DEF Enforce, Pcs
<1>7. ASSUME NEW p \in Procs, PauseTasks(p) PROVE TypeOK'
  <2>1. announced' \subseteq {"threshold_alert", "tier_downgrade", "halt", "task_paused"} \X Levels
    BY <1>7 DEF PauseTasks, Levels
  <2> QED BY <1>7, <2>1 DEF PauseTasks, Pcs
<1>8. ASSUME NEW p \in Procs, EnforceFails(p) PROVE TypeOK'
  BY <1>8 DEF EnforceFails, Pcs
<1>9. CASE Poll
  BY <1>9, LevelType DEF Poll, Pcs
<1>10. CASE Crash
  <2>1. consumed' \in Nat /\ level' \in Levels
    BY <1>10 DEF Crash, Restored, RestoredLevel, Snapshots, Levels
  <2>2. lost' \subseteq {"write", "read", "level"}
    BY <1>10 DEF Crash
  <2>5. crashes' \in 0 .. MaxCrashes
    BY <1>10 DEF Crash
  <2>3. pc' \in [Procs -> Pcs] /\ \A p \in Procs : pc'[p] # "persist"
    BY <1>10 DEF Crash, Pcs
  <2>4. amount' \in [Procs -> Nat] /\ seen' \in [Procs -> Levels] /\ snap' \in [Procs -> Snapshots \cup {None}]
    BY <1>10 DEF Crash, Levels
  <2> QED BY <1>10, <2>1, <2>2, <2>3, <2>4, <2>5 DEF Crash
<1>11. CASE UNCHANGED vars
  BY <1>11 DEF vars
<1> HIDE DEF GInv, TypeOK
<1> QED BY <1>1, <1>2, <1>3, <1>4, <1>5, <1>6, <1>7, <1>8, <1>9, <1>10, <1>11, Zenon DEF Next, Calls, Continue

-----------------------------------------------------------------------------
(* The conjuncts of GInv, action by action. *)

LEMMA NextKnow == GInv /\ [Next]_vars => (EnforcersKnow /\ WritersHoldTheLock)'
<1> SUFFICES ASSUME GInv, [Next]_vars PROVE (EnforcersKnow /\ WritersHoldTheLock)'
  OBVIOUS
<1>0. TypeOK'
  BY NextType
<1> USE ProcsDistinct, <1>0 DEF GInv, TypeOK, EnforcersKnow, WritersHoldTheLock, tracker, history, Goto
<1>1. ASSUME NEW p \in Procs, NEW tokens \in Amounts, BeginCall(p, tokens) PROVE (EnforcersKnow /\ WritersHoldTheLock)'
  BY <1>1 DEF BeginCall
<1>2. ASSUME NEW p \in Procs, CheckBudgetForTask(p) PROVE (EnforcersKnow /\ WritersHoldTheLock)'
  BY <1>2 DEF CheckBudgetForTask
<1>3. ASSUME NEW p \in Procs, RecordConsumption(p) PROVE (EnforcersKnow /\ WritersHoldTheLock)'
  <2> DEFINE used == consumed + amount[p]
             new  == ComputeLevel(used, allocated)
  <2>1. /\ consumed' = used /\ level' = new /\ seen' = [seen EXCEPT ![p] = new] /\ pc[p] = "record" /\ lock = None
        /\ UNCHANGED allocated
    BY <1>3 DEF RecordConsumption
  <2>2. \A q \in Procs : pc[q] # "persist"
    BY <2>1
  <2> HIDE DEF used, new
  <2>3. CASE /\ lock' = p /\ snap' = [snap EXCEPT ![p] = [consumed |-> used, level |-> new]]
             /\ pc' = [pc EXCEPT ![p] = "persist"]
    BY <2>1, <2>2, <2>3 DEF used, new
  <2>4. CASE pc' = [pc EXCEPT ![p] = Recorded(p, new)] /\ UNCHANGED <<lock, snap>>
    BY <2>1, <2>2, <2>4, RecordedType
  <2> QED BY <1>3, <2>3, <2>4 DEF RecordConsumption, used, new
<1>4. ASSUME NEW p \in Procs, PersistSnapshot(p) PROVE (EnforcersKnow /\ WritersHoldTheLock)'
  <2>1. lock = p /\ lock' = None /\ UNCHANGED seen /\ pc' = [pc EXCEPT ![p] = Recorded(p, seen[p])]
    BY <1>4 DEF PersistSnapshot
  <2>2. \A q \in Procs : pc'[q] # "persist"
    BY <2>1, RecordedType
  <2> QED BY <2>1, <2>2, RecordedType
<1>5. ASSUME NEW p \in Procs, TakeSnapshot(p) PROVE (EnforcersKnow /\ WritersHoldTheLock)'
  BY <1>5 DEF TakeSnapshot
<1>6. ASSUME NEW p \in Procs, Enforce(p) PROVE (EnforcersKnow /\ WritersHoldTheLock)'
  BY <1>6 DEF Enforce
<1>7. ASSUME NEW p \in Procs, PauseTasks(p) PROVE (EnforcersKnow /\ WritersHoldTheLock)'
  BY <1>7 DEF PauseTasks
<1>8. ASSUME NEW p \in Procs, EnforceFails(p) PROVE (EnforcersKnow /\ WritersHoldTheLock)'
  BY <1>8 DEF EnforceFails
<1>9. CASE Poll
  <2>1. lock = None /\ \A q \in Procs : pc[q] # "persist"
    BY <1>9 DEF Poll
  <2> QED BY <1>9, <2>1 DEF Poll
<1>10. CASE Crash
  BY <1>10 DEF Crash
<1>11. CASE UNCHANGED vars
  BY <1>11 DEF vars
<1> HIDE DEF GInv, TypeOK, EnforcersKnow, WritersHoldTheLock
<1> QED BY <1>1, <1>2, <1>3, <1>4, <1>5, <1>6, <1>7, <1>8, <1>9, <1>10, <1>11, Zenon DEF Next, Calls, Continue

\* What is due to two totals of which one is larger, and to two budgets of which
\* one is smaller.
LEMMA DueGrows ==
  ASSUME TypeOK, NEW u \in Nat, NEW v \in Nat, u <= v
  PROVE  Rank(ComputeLevel(u, allocated)) <= Rank(ComputeLevel(v, allocated))
<1>1. allocated \in Nat \ {0} /\ allocated <= allocated
  BY BudgetsAssumption DEF TypeOK
<1> QED BY <1>1, LevelMonotone

LEMMA DueGrowsAtRestart ==
  ASSUME TypeOK, Crash, NEW u \in Nat
  PROVE  Rank(ComputeLevel(u, allocated)) <= Rank(ComputeLevel(u, allocated'))
<1>1. allocated \in Nat \ {0} /\ allocated' \in Nat \ {0} /\ allocated' <= allocated /\ u <= u
  BY BudgetsAssumption DEF TypeOK, Crash
<1> QED BY <1>1, LevelMonotone

LEMMA RowType ==
  ASSUME TypeOK
  PROVE  /\ Restored \in Nat /\ RestoredLevel \in Levels
         /\ db # None => db.consumed \in Nat /\ db.level \in Levels /\ Restored = db.consumed /\ RestoredLevel = db.level
         /\ db = None => Restored = 0 /\ RestoredLevel = "none"
  BY DEF TypeOK, Restored, RestoredLevel, Snapshots, Levels

LEMMA RankOrder ==
  ASSUME NEW k \in Levels, NEW l \in Levels
  PROVE  /\ Rank(k) \in Nat /\ Rank(l) \in Nat
         /\ k = "none" => Rank(k) <= Rank(l)
         /\ k = "halt" /\ Rank(k) <= Rank(l) => l = "halt"
  BY RankType

LEMMA NextDue == GInv /\ [Next]_vars => LevelsAreDue'
<1> SUFFICES ASSUME GInv, [Next]_vars PROVE LevelsAreDue'
  OBVIOUS
<1>0. TypeOK /\ TypeOK'
  BY NextType DEF GInv
<1> USE <1>0 DEF GInv, LevelsAreDue, tracker, history
<1>1. ASSUME NEW p \in Procs, NEW tokens \in Amounts, BeginCall(p, tokens) PROVE LevelsAreDue'
  BY <1>1 DEF BeginCall, Restored
<1>2. ASSUME NEW p \in Procs, CheckBudgetForTask(p) PROVE LevelsAreDue'
  BY <1>2 DEF CheckBudgetForTask, Restored
<1>3. ASSUME NEW p \in Procs, RecordConsumption(p) PROVE LevelsAreDue'
  <2>1. consumed' = consumed + amount[p] /\ level' = ComputeLevel(consumed', allocated) /\ UNCHANGED <<allocated, db, lost>>
    BY <1>3 DEF RecordConsumption
  <2>2. consumed \in Nat /\ amount[p] \in Nat /\ Restored \in Nat /\ UNCHANGED Restored
    BY <2>1, RowType DEF TypeOK, Restored
  <2>3. Restored <= consumed => Restored <= consumed'
    BY <2>1, <2>2
  <2>4. Rank(level') \in Nat
    BY RankType DEF TypeOK
  <2> QED BY <2>1, <2>2, <2>3, <2>4
<1>4. ASSUME NEW p \in Procs, PersistSnapshot(p) PROVE LevelsAreDue'
  <2>1. /\ snap[p] = [consumed |-> consumed, level |-> level] /\ level = ComputeLevel(consumed, allocated)
        /\ UNCHANGED <<allocated, consumed, level>>
    BY <1>4 DEF PersistSnapshot, WritersHoldTheLock
  <2>2. CASE db' = snap[p] /\ UNCHANGED lost
    <3>1. db' # None /\ db'.consumed = consumed /\ db'.level = level
      BY <1>4, <2>1, <2>2 DEF PersistSnapshot, TypeOK
    <3>2. Restored' = consumed
      BY <3>1 DEF Restored
    <3>3. consumed \in Nat /\ Rank(level) \in Nat
      BY RankType DEF TypeOK
    <3> QED BY <2>1, <3>1, <3>2, <3>3
  <2>3. CASE UNCHANGED db /\ lost' = lost \cup {"write"}
    <3>1. UNCHANGED Restored
      BY <2>3 DEF Restored
    <3> QED BY <2>1, <2>3, <3>1
  <2> QED BY <1>4, <2>2, <2>3 DEF PersistSnapshot
<1>5. ASSUME NEW p \in Procs, TakeSnapshot(p) PROVE LevelsAreDue'
  BY <1>5 DEF TakeSnapshot, Restored
<1>6. ASSUME NEW p \in Procs, Enforce(p) PROVE LevelsAreDue'
  BY <1>6 DEF Enforce, Restored
<1>7. ASSUME NEW p \in Procs, PauseTasks(p) PROVE LevelsAreDue'
  BY <1>7 DEF PauseTasks, Restored
<1>8. ASSUME NEW p \in Procs, EnforceFails(p) PROVE LevelsAreDue'
  BY <1>8 DEF EnforceFails, Restored
<1>9. CASE Poll
  <2>1. level' = ComputeLevel(consumed, allocated) /\ UNCHANGED <<allocated, consumed, db, lost>>
    BY <1>9 DEF Poll
  <2>2. UNCHANGED Restored /\ Rank(level') \in Nat
    BY <2>1, RankType DEF TypeOK, Restored
  <2> QED BY <2>1, <2>2
<1>10. CASE Crash
  <2>1. UNCHANGED <<db, Restored, RestoredLevel>>
    BY <1>10 DEF Crash, Restored, RestoredLevel
  <2>2. db # None => Rank(db.level) <= Rank(ComputeLevel(db.consumed, allocated'))
    <3>1. ASSUME db # None PROVE Rank(db.level) <= Rank(ComputeLevel(db.consumed, allocated'))
      <4>1. db.consumed \in Nat /\ db.level \in Levels
        BY <3>1, RowType
      <4>2. Rank(ComputeLevel(db.consumed, allocated)) <= Rank(ComputeLevel(db.consumed, allocated'))
        BY <1>10, <4>1, DueGrowsAtRestart
      <4> QED BY <3>1, <4>1, <4>2, LevelType, RankOrder
    <3> QED BY <3>1
  <2>3. CASE consumed' = Restored /\ level' = RestoredLevel
    <3>1. Rank(RestoredLevel) <= Rank(ComputeLevel(Restored, allocated'))
      BY <2>2, RowType, LevelType, RankOrder
    <3>2. Restored \in Nat
      BY RowType
    <3> QED BY <2>1, <2>2, <2>3, <3>1, <3>2
  <2>4. CASE consumed' = 0 /\ level' = "none" /\ lost' = lost \cup {"read"}
    <3>1. Rank("none") <= Rank(ComputeLevel(consumed', allocated'))
      BY LevelType, RankOrder DEF Levels
    <3> QED BY <2>1, <2>2, <2>4, <3>1
  <2> QED BY <1>10, <2>3, <2>4 DEF Crash
<1>11. CASE UNCHANGED vars
  BY <1>11 DEF vars, Restored
<1> HIDE DEF GInv, LevelsAreDue
<1> QED BY <1>1, <1>2, <1>3, <1>4, <1>5, <1>6, <1>7, <1>8, <1>9, <1>10, <1>11, Zenon DEF Next, Calls, Continue

LEMMA NextAnnounced == GInv /\ [Next]_vars => AnnouncedInRow'
<1> SUFFICES ASSUME GInv, [Next]_vars PROVE AnnouncedInRow'
  OBVIOUS
<1>0. TypeOK /\ TypeOK'
  BY NextType DEF GInv
<1> USE <1>0 DEF GInv, AnnouncedInRow, tracker, history, Goto
<1>1. ASSUME NEW p \in Procs, NEW tokens \in Amounts, BeginCall(p, tokens) PROVE AnnouncedInRow'
  <2>1. UNCHANGED <<allocated, level, lock, db, lost, seen>> /\ UNCHANGED LevelOfRow
    BY <1>1 DEF BeginCall, LevelOfRow, Restored
  <2>2. announced' = announced /\ \A q \in Procs : pc'[q] \in Enforcing => pc[q] \in Enforcing
    BY <1>1 DEF BeginCall, TypeOK
  <2> QED BY <2>1, <2>2
<1>2. ASSUME NEW p \in Procs, CheckBudgetForTask(p) PROVE AnnouncedInRow'
  <2>1. UNCHANGED <<allocated, level, lock, db, lost, seen>> /\ UNCHANGED LevelOfRow
    BY <1>2 DEF CheckBudgetForTask, LevelOfRow, Restored
  <2>2. announced' = announced /\ \A q \in Procs : pc'[q] \in Enforcing => pc[q] \in Enforcing
    BY <1>2 DEF CheckBudgetForTask, TypeOK
  <2> QED BY <2>1, <2>2
<1>3. ASSUME NEW p \in Procs, RecordConsumption(p) PROVE AnnouncedInRow'
  <2>1. UNCHANGED <<allocated, db, lost, announced, LevelOfRow>> /\ lock = None
    BY <1>3 DEF RecordConsumption, LevelOfRow, Restored
  <2>2. \A q \in Procs \ {p} : pc'[q] = pc[q] /\ seen'[q] = seen[q]
    BY <1>3 DEF RecordConsumption, TypeOK
  <2>3. CASE lock' = p /\ pc'[p] = "persist"
    BY <2>1, <2>2, <2>3, ProcsDistinct
  <2>4. CASE lock' = None /\ level' = level /\ seen'[p] = level
    BY <2>1, <2>2, <2>4
  <2> QED BY <1>3, <2>1, <2>3, <2>4 DEF RecordConsumption, TypeOK
<1>4. ASSUME NEW p \in Procs, PersistSnapshot(p) PROVE AnnouncedInRow'
  <2>1. /\ snap[p] = [consumed |-> consumed, level |-> level] /\ level = ComputeLevel(consumed, allocated)
        /\ seen[p] = level /\ UNCHANGED <<allocated, consumed, level, seen, announced>>
        /\ \A q \in Procs \ {p} : pc'[q] = pc[q]
    BY <1>4 DEF PersistSnapshot, WritersHoldTheLock, TypeOK
  <2>2. CASE db' = snap[p] /\ UNCHANGED lost
    <3>1. Restored' = consumed
      BY <1>4, <2>1, <2>2 DEF PersistSnapshot, TypeOK, Restored
    <3>2. LevelOfRow' = ComputeLevel(consumed, allocated)
      BY <2>1, <3>1 DEF LevelOfRow
    <3>3. SUFFICES ASSUME lost \subseteq {"level"} PROVE AnnouncedInRow'
      BY <2>2
    <3>4. Restored \in Nat /\ consumed \in Nat /\ Restored <= consumed
      BY <3>3, RowType DEF TypeOK, LevelsAreDue
    <3>5. Rank(LevelOfRow) <= Rank(LevelOfRow')
      BY <3>2, <3>4, DueGrows DEF LevelOfRow
    <3>6. LevelOfRow \in Levels /\ LevelOfRow' \in Levels
      BY LevelType DEF LevelOfRow
    <3>7. \A l \in Levels : Rank(l) <= Rank(LevelOfRow) => Rank(l) <= Rank(LevelOfRow')
      BY <3>5, <3>6, RankOrder
    <3>8. \A x \in announced : x[2] \in Levels
      BY DEF TypeOK
    <3>9. \A q \in Procs : seen[q] \in Levels /\ Rank(level) <= Rank(LevelOfRow')
      BY <2>1, <3>2, <3>6, RankOrder DEF TypeOK
    <3> QED BY <2>1, <3>3, <3>7, <3>8, <3>9
  <2>3. CASE lost' = lost \cup {"write"}
    BY <2>3
  <2> QED BY <1>4, <2>2, <2>3 DEF PersistSnapshot
<1>5. ASSUME NEW p \in Procs, TakeSnapshot(p) PROVE AnnouncedInRow'
  <2>1. UNCHANGED <<allocated, level, lock, db, lost, seen>> /\ UNCHANGED LevelOfRow
    BY <1>5 DEF TakeSnapshot, LevelOfRow, Restored
  <2>2. announced' = announced /\ \A q \in Procs : pc'[q] \in Enforcing => pc[q] \in Enforcing
    BY <1>5 DEF TakeSnapshot, TypeOK
  <2> QED BY <2>1, <2>2
<1>6. ASSUME NEW p \in Procs, Enforce(p) PROVE AnnouncedInRow'
  <2>1. UNCHANGED <<allocated, level, lock, db, lost, seen>> /\ UNCHANGED LevelOfRow
    BY <1>6 DEF Enforce, LevelOfRow, Restored
  <2>2. /\ pc[p] \in Enforcing /\ announced' = announced \cup {<<EventFor(seen[p]), seen[p]>>}
        /\ \A q \in Procs : pc'[q] \in Enforcing => pc[q] \in Enforcing
    BY <1>6 DEF Enforce, TypeOK
  <2> QED BY <2>1, <2>2
<1>7. ASSUME NEW p \in Procs, PauseTasks(p) PROVE AnnouncedInRow'
  <2>1. UNCHANGED <<allocated, level, lock, db, lost, seen>> /\ UNCHANGED LevelOfRow
    BY <1>7 DEF PauseTasks, LevelOfRow, Restored
  <2>2. /\ pc[p] \in Enforcing /\ seen[p] = "restrict" /\ announced' = announced \cup {<<"task_paused", "restrict">>}
        /\ \A q \in Procs : pc'[q] \in Enforcing => pc[q] \in Enforcing
    BY <1>7 DEF PauseTasks, TypeOK, EnforcersKnow
  <2> QED BY <2>1, <2>2
<1>8. ASSUME NEW p \in Procs, EnforceFails(p) PROVE AnnouncedInRow'
  <2>1. UNCHANGED <<allocated, level, lock, db, lost, seen>> /\ UNCHANGED LevelOfRow
    BY <1>8 DEF EnforceFails, LevelOfRow, Restored
  <2>2. announced' = announced /\ \A q \in Procs : pc'[q] \in Enforcing => pc[q] \in Enforcing
    BY <1>8 DEF EnforceFails, TypeOK
  <2> QED BY <2>1, <2>2
<1>9. CASE Poll
  <2>1. /\ UNCHANGED <<allocated, consumed, db, lost, announced, lock, LevelOfRow>>
        /\ lock = None /\ level' = ComputeLevel(consumed, allocated)
        /\ \A q \in Procs \ {Monitor} : pc'[q] = pc[q] /\ seen'[q] = seen[q]
    BY <1>9 DEF Poll, LevelOfRow, Restored, TypeOK
  <2>2. CASE level' = level /\ UNCHANGED <<seen, pc>>
    BY <2>1, <2>2
  <2>3. CASE level' # level /\ seen'[Monitor] = level'
    <3>1. lost \subseteq {"level"} => level' = LevelOfRow
      BY <2>1, <2>3 DEF LevelsAreDue, LevelOfRow
    <3>2. Rank(LevelOfRow) \in Nat
      BY LevelType, RankType DEF LevelOfRow
    <3> QED BY <2>1, <2>3, <3>1, <3>2
  <2> QED BY <1>9, <2>2, <2>3, ProcsDistinct DEF Poll, TypeOK
<1>10. CASE Crash
  <2>1. UNCHANGED <<db, Restored, announced>> /\ \A q \in Procs : pc'[q] \notin Enforcing
    <3>1. \A q \in Allocators \cap Procs : pc[q] \notin Enforcing
      BY ProcsDistinct DEF EnforcersKnow
    <3> QED BY <1>10, <3>1 DEF Crash, Restored, TypeOK
  <2>2. SUFFICES ASSUME lost' \subseteq {"level"} PROVE AnnouncedInRow'
    OBVIOUS
  <2>3. lost \subseteq {"level"} /\ level' = RestoredLevel
    <3>1. "read" \notin lost' /\ lost \subseteq lost'
      BY <1>10, <2>2 DEF Crash
    <3> QED BY <1>10, <2>2, <3>1 DEF Crash
  <2>4. Rank(LevelOfRow) <= Rank(LevelOfRow')
    <3>1. Restored \in Nat
      BY RowType
    <3> QED BY <1>10, <2>1, <3>1, DueGrowsAtRestart DEF LevelOfRow
  <2>5. LevelOfRow \in Levels /\ LevelOfRow' \in Levels
    BY LevelType DEF LevelOfRow
  <2>6. \A l \in Levels : Rank(l) <= Rank(LevelOfRow) => Rank(l) <= Rank(LevelOfRow')
    BY <2>4, <2>5, RankOrder
  <2>7. \A x \in announced : x[2] \in Levels
    BY DEF TypeOK
  <2>8. Rank(RestoredLevel) <= Rank(LevelOfRow)
    BY RowType, LevelType, RankOrder DEF LevelsAreDue, LevelOfRow
  <2>9. RestoredLevel \in Levels
    BY RowType
  <2> QED BY <2>1, <2>3, <2>6, <2>7, <2>8, <2>9
<1>11. CASE UNCHANGED vars
  BY <1>11 DEF vars, LevelOfRow, Restored
<1> HIDE DEF GInv, AnnouncedInRow
<1> QED BY <1>1, <1>2, <1>3, <1>4, <1>5, <1>6, <1>7, <1>8, <1>9, <1>10, <1>11, Zenon DEF Next, Calls, Continue

LEMMA NextHalt == GInv /\ [Next]_vars => HaltStays'
<1> SUFFICES ASSUME GInv, [Next]_vars PROVE HaltStays'
  OBVIOUS
<1>0. TypeOK /\ TypeOK'
  BY NextType DEF GInv
<1> USE <1>0 DEF GInv, HaltStays, tracker, history, Goto
<1>1. ASSUME NEW p \in Procs, NEW tokens \in Amounts, BeginCall(p, tokens) PROVE HaltStays'
  <2>1. UNCHANGED <<level, lock, lost, seen>>
    BY <1>1 DEF BeginCall
  <2>2. HaltSeen' => HaltSeen
    BY <1>1, <2>1 DEF BeginCall, HaltSeen, TypeOK
  <2> QED BY <2>1, <2>2
<1>2. ASSUME NEW p \in Procs, CheckBudgetForTask(p) PROVE HaltStays'
  <2>1. UNCHANGED <<level, lock, lost, seen>>
    BY <1>2 DEF CheckBudgetForTask
  <2>2. HaltSeen' => HaltSeen
    BY <1>2, <2>1 DEF CheckBudgetForTask, HaltSeen, TypeOK
  <2> QED BY <2>1, <2>2
<1>3. ASSUME NEW p \in Procs, RecordConsumption(p) PROVE HaltStays'
  <2> DEFINE new == ComputeLevel(consumed + amount[p], allocated)
  <2>1. lock = None /\ level' = new /\ UNCHANGED <<lost, announced>> /\ seen'[p] = new
    BY <1>3 DEF RecordConsumption, TypeOK
  <2>2. \A q \in Procs \ {p} : pc'[q] = pc[q] /\ seen'[q] = seen[q]
    BY <1>3 DEF RecordConsumption, TypeOK
  <2>3. new \in Levels /\ level \in Levels
    BY LevelType DEF TypeOK
  <2>4. level = "halt" => new = "halt"
    <3>1. consumed \in Nat /\ consumed + amount[p] \in Nat /\ consumed <= consumed + amount[p]
      BY DEF TypeOK
    <3>2. Rank(ComputeLevel(consumed, allocated)) <= Rank(new)
      BY <3>1, DueGrows
    <3>3. ComputeLevel(consumed, allocated) \in Levels
      BY LevelType
    <3> QED BY <2>3, <3>2, <3>3, RankOrder DEF LevelsAreDue
  <2> HIDE DEF new
  <2>5. CASE lock' = p /\ pc'[p] = "persist" /\ new # level
    BY <2>1, <2>2, <2>4, <2>5 DEF HaltSeen
  <2>6. CASE lock' = None /\ new = level
    BY <2>1, <2>2, <2>6 DEF HaltSeen
  <2> QED BY <1>3, <2>1, <2>5, <2>6 DEF RecordConsumption, TypeOK, new
<1>4. ASSUME NEW p \in Procs, PersistSnapshot(p) PROVE HaltStays'
  <2>1. /\ lock = p /\ lock' = None /\ seen[p] = level /\ UNCHANGED <<level, seen, announced>> /\ lost \subseteq lost'
        /\ \A q \in Procs \ {p} : pc'[q] = pc[q]
    BY <1>4 DEF PersistSnapshot, WritersHoldTheLock, TypeOK
  <2>2. HaltSeen' => HaltSeen \/ level = "halt"
    BY <2>1 DEF HaltSeen
  <2>3. lost' = {} => lost = {}
    BY <2>1
  <2> QED BY <2>1, <2>2, <2>3
<1>5. ASSUME NEW p \in Procs, TakeSnapshot(p) PROVE HaltStays'
  <2>1. UNCHANGED <<level, lock, lost, seen>>
    BY <1>5 DEF TakeSnapshot
  <2>2. HaltSeen' => HaltSeen
    BY <1>5, <2>1 DEF TakeSnapshot, HaltSeen, TypeOK
  <2> QED BY <2>1, <2>2
<1>6. ASSUME NEW p \in Procs, Enforce(p) PROVE HaltStays'
  <2>1. UNCHANGED <<level, lock, lost, seen>>
    BY <1>6 DEF Enforce
  <2>2. pc[p] \in Enforcing /\ announced' = announced \cup {<<EventFor(seen[p]), seen[p]>>}
    BY <1>6 DEF Enforce
  <2>3. \A q \in Procs : pc'[q] \in Enforcing => pc[q] \in Enforcing
    BY <1>6 DEF Enforce, TypeOK
  <2>4. HaltSeen' => HaltSeen
    BY <2>1, <2>2, <2>3 DEF HaltSeen
  <2> QED BY <2>1, <2>4
<1>7. ASSUME NEW p \in Procs, PauseTasks(p) PROVE HaltStays'
  <2>1. UNCHANGED <<level, lock, lost, seen>>
    BY <1>7 DEF PauseTasks
  <2>2. announced' = announced \cup {<<"task_paused", "restrict">>}
    BY <1>7 DEF PauseTasks
  <2>3. \A q \in Procs : pc'[q] \in Enforcing => pc[q] \in Enforcing
    BY <1>7 DEF PauseTasks, TypeOK
  <2>4. HaltSeen' => HaltSeen
    BY <2>1, <2>2, <2>3 DEF HaltSeen
  <2> QED BY <2>1, <2>4
<1>8. ASSUME NEW p \in Procs, EnforceFails(p) PROVE HaltStays'
  <2>1. UNCHANGED <<level, lock, lost, seen>>
    BY <1>8 DEF EnforceFails
  <2>2. HaltSeen' => HaltSeen
    BY <1>8, <2>1 DEF EnforceFails, HaltSeen, TypeOK
  <2> QED BY <2>1, <2>2
<1>9. CASE Poll
  <2>1. /\ UNCHANGED <<lost, announced, lock>> /\ lock = None /\ level' = ComputeLevel(consumed, allocated)
        /\ \A q \in Procs \ {Monitor} : pc'[q] = pc[q] /\ seen'[q] = seen[q]
    BY <1>9 DEF Poll, TypeOK
  <2>2. level = "halt" => level' = "halt"
    BY <2>1, LevelType, RankOrder DEF LevelsAreDue, TypeOK
  <2>3. pc'[Monitor] \in Enforcing => seen'[Monitor] = level' \/ (pc[Monitor] \in Enforcing /\ seen'[Monitor] = seen[Monitor])
    BY <1>9, ProcsDistinct DEF Poll, TypeOK
  <2>4. HaltSeen' => HaltSeen \/ level' = "halt"
    BY <2>1, <2>3 DEF HaltSeen
  <2> QED BY <2>1, <2>2, <2>4
<1>10. CASE Crash
  <2>1. UNCHANGED announced /\ lock' = None /\ \A q \in Procs : pc'[q] \notin Enforcing
    <3>1. \A q \in Allocators \cap Procs : pc[q] \notin Enforcing
      BY ProcsDistinct DEF EnforcersKnow
    <3> QED BY <1>10, <3>1 DEF Crash, TypeOK
  <2>2. SUFFICES ASSUME lost' = {}, HaltSeen' PROVE HaltStays'
    OBVIOUS
  <2>3. HaltSeen /\ lost = {} /\ level' = RestoredLevel /\ (lock = None => level = RestoredLevel)
    BY <1>10, <2>1, <2>2 DEF Crash, HaltSeen
  <2> QED BY <2>1, <2>3
<1>11. CASE UNCHANGED vars
  BY <1>11 DEF vars, HaltSeen
<1> HIDE DEF GInv, HaltStays, HaltSeen
<1> QED BY <1>1, <1>2, <1>3, <1>4, <1>5, <1>6, <1>7, <1>8, <1>9, <1>10, <1>11, Zenon DEF Next, Calls, Continue

LEMMA NextGInv == GInv /\ [Next]_vars => GInv'
  BY NextType, NextKnow, NextDue, NextAnnounced, NextHalt DEF GInv

-----------------------------------------------------------------------------
(* The theorems. *)

LEMMA Invariance == Spec => []GInv
  BY InitGInv, NextGInv, PTL DEF Spec

\* Whatever crashes, and however requests, messages, allocations and polls
\* interleave: the lock is held by whoever writes a snapshot, and the total the
\* governor knows still warrants every level it has announced, unless a snapshot
\* could not be written or read (BudgetTracker, Monitor, Enforcer).
THEOREM LevelsHold == Spec => []BudgetLevelsHold
<1>1. GInv => BudgetLevelsHold
  <2> SUFFICES ASSUME GInv PROVE AnnouncedLevelsSurvive
    BY DEF GInv, BudgetLevelsHold
  <2> SUFFICES ASSUME lost \subseteq {"level"}, NEW a \in announced
               PROVE  Rank(a[2]) <= Rank(ComputeLevel(consumed, allocated))
    BY DEF AnnouncedLevelsSurvive
  <2>1. TypeOK /\ a[2] \in Levels
    BY DEF GInv, TypeOK
  <2>2. Restored \in Nat /\ consumed \in Nat /\ Restored <= consumed
    BY <2>1, RowType DEF GInv, TypeOK, LevelsAreDue
  <2>3. Rank(LevelOfRow) <= Rank(ComputeLevel(consumed, allocated))
    BY <2>1, <2>2, DueGrows DEF LevelOfRow
  <2>4. LevelOfRow \in Levels /\ ComputeLevel(consumed, allocated) \in Levels
    BY LevelType DEF LevelOfRow
  <2>5. Rank(a[2]) <= Rank(LevelOfRow)
    BY DEF GInv, AnnouncedInRow
  <2> QED BY <2>1, <2>3, <2>4, <2>5, RankOrder
<1> QED BY <1>1, Invariance, PTL

\* No step puts a row of less consumption or of a weaker level after another,
\* unless the row could not be read, and none grants an allocation once a halt is
\* announced, unless the level was lost (record_consumption, check_budget_for_task).
THEOREM StepsAllowed == Spec => BudgetStepsAreAllowed
<1>1. GInv /\ [Next]_vars => [SnapshotStep /\ AllocationStep]_vars
  <2> SUFFICES ASSUME GInv, [Next]_vars PROVE SnapshotStep /\ AllocationStep
    OBVIOUS
  <2>0. TypeOK
    BY DEF GInv
  <2>1. ASSUME NEW p \in Procs, PersistSnapshot(p) PROVE SnapshotStep
    <3> SUFFICES ASSUME "read" \notin lost, db' # db, db # None
                 PROVE  db'.consumed >= db.consumed /\ Rank(db'.level) >= Rank(db.level)
      BY DEF SnapshotStep
    <3>1. /\ db' = [consumed |-> consumed, level |-> level] /\ level = ComputeLevel(consumed, allocated)
      BY <2>1 DEF PersistSnapshot, GInv, WritersHoldTheLock
    <3>2. db.consumed \in Nat /\ db.level \in Levels /\ consumed \in Nat /\ db.consumed <= consumed
      BY <2>0, RowType DEF GInv, LevelsAreDue, TypeOK
    <3>3. Rank(ComputeLevel(db.consumed, allocated)) <= Rank(level)
      BY <2>0, <3>1, <3>2, DueGrows
    <3>4. Rank(db.level) <= Rank(ComputeLevel(db.consumed, allocated))
      BY DEF GInv, LevelsAreDue
    <3>5. Rank(db.level) <= Rank(level)
      BY <2>0, <3>2, <3>3, <3>4, LevelType, RankOrder DEF TypeOK
    <3>6. Rank(db.level) \in Nat /\ Rank(level) \in Nat
      BY <2>0, <3>2, RankOrder DEF TypeOK
    <3> QED BY <3>1, <3>2, <3>5, <3>6
  <2>2. ASSUME UNCHANGED db PROVE SnapshotStep
    BY <2>2 DEF SnapshotStep
  <2>3. ASSUME NEW p \in Procs, CheckBudgetForTask(p) PROVE AllocationStep
    <3>1. lost = {} /\ <<"halt", "halt">> \in announced => pc' = [pc EXCEPT ![p] = "refused"]
      BY <2>3 DEF CheckBudgetForTask, GInv, HaltStays, HaltSeen, Goto
    <3> QED BY <2>0, <3>1 DEF AllocationStep, TypeOK, Procs
  <2>4. ASSUME \A q \in Allocators : pc[q] = "check" => pc'[q] = "check" PROVE AllocationStep
    BY <2>4 DEF AllocationStep
  <2>5. ASSUME NEW p \in Procs, NEW tokens \in Amounts, BeginCall(p, tokens)
        PROVE  UNCHANGED db /\ \A q \in Allocators : pc[q] = "check" => pc'[q] = "check"
    BY <2>0, <2>5 DEF BeginCall, TypeOK, Goto, Procs
  <2>6. ASSUME NEW p \in Procs, RecordConsumption(p)
        PROVE  UNCHANGED db /\ \A q \in Allocators : pc[q] = "check" => pc'[q] = "check"
    BY <2>0, <2>6 DEF RecordConsumption, TypeOK, Goto, Procs
  <2>7. ASSUME NEW p \in Procs, PersistSnapshot(p)
        PROVE  \A q \in Allocators : pc[q] = "check" => pc'[q] = "check"
    BY <2>0, <2>7 DEF PersistSnapshot, TypeOK, Goto, Procs
  <2>8. ASSUME NEW p \in Procs, TakeSnapshot(p) \/ Enforce(p) \/ PauseTasks(p) \/ EnforceFails(p)
        PROVE  UNCHANGED db /\ \A q \in Allocators : pc[q] = "check" => pc'[q] = "check"
    BY <2>0, <2>8 DEF TakeSnapshot, Enforce, PauseTasks, EnforceFails, TypeOK, Goto, Procs
  <2>9. ASSUME Poll
        PROVE  UNCHANGED db /\ \A q \in Allocators : pc[q] = "check" => pc'[q] = "check"
    BY <2>0, <2>9 DEF Poll, TypeOK, Goto, Procs
  <2>10. ASSUME Crash
         PROVE  UNCHANGED db /\ \A q \in Allocators : pc[q] = "check" => pc'[q] = "check"
    BY <2>0, <2>10 DEF Crash, TypeOK, Procs
  <2>11. \A p \in Procs : CheckBudgetForTask(p) => UNCHANGED db
    BY DEF CheckBudgetForTask
  <2>12. CASE UNCHANGED vars
    BY <2>2, <2>4, <2>12 DEF vars
  <2> QED BY <2>1, <2>2, <2>3, <2>4, <2>5, <2>6, <2>7, <2>8, <2>9, <2>10, <2>11, <2>12, Zenon
          DEF Next, Calls, Continue
<1> QED BY <1>1, Invariance, PTL DEF Spec, BudgetStepsAreAllowed
=============================================================================
