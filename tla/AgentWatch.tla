------------------------------ MODULE AgentWatch ------------------------------
(***************************************************************************)
(* What the Economic Governor keeps about agents: the efficiency scorer    *)
(* (efficiency_scorer.py) with its cached leaderboard and the rows it is   *)
(* restored from, and the spin detector (spin_detector.py) whose findings  *)
(* the enforcer publishes, both fed by the TASK_COMPLETED and TASK_FAILED  *)
(* handlers of the monitor.  Nothing is awaited under either lock, so a    *)
(* handler runs in one step up to the publication of a kill; the message   *)
(* is acknowledged after it.  One that is not stays pending for good: the  *)
(* read loop takes new messages only.                                      *)
(*                                                                         *)
(* Quality is counted in units of 1/Unit, the precision rows are kept in.  *)
(***************************************************************************)
EXTENDS Integers, Sequences, FiniteSets

CONSTANTS
    Agents, WatchedTasks,
    TokenCounts,       \* tokens a message may report
    Unit,              \* 10000 for round(_, 4); even
    SpinRetries,       \* spin_max_retries
    MaxStreaks,        \* _MAX_TRACKED
    MaxEvents,         \* bound: messages in a behaviour
    MaxRestarts        \* bound: restarts of the service

ASSUME WatchAssumption ==
    /\ IsFiniteSet(Agents) /\ TokenCounts \subseteq Nat /\ Unit \in Nat
    /\ SpinRetries \in Nat \ {0} /\ MaxStreaks \in Nat \ {0}

VARIABLES
    stats,      \* _agents: the agents in the order they were first seen
    board,      \* {_cached_leaderboard}, or {} when there is none
    streaks,    \* _state of the detector, least recently touched first
    rows,       \* the latest agent_efficiency_scores row of each agent
    message,    \* the message being handled: [phase, event]
    unacked,    \* how many messages were taken and never acknowledged
    exact,      \* history: agent -> its record without any rounding
    exactRows,  \* history: agent -> the record its row was computed from
    runs,       \* history: <<agent, task>> -> failures without a diff since the last diff
    forgotten,  \* history: pairs the detector dropped to make room
    kills,      \* history: kills published, with the run at that time
    events, restarts

scoring == <<stats, board, exact>>
storage == <<rows, exactRows>>
spinning == <<streaks, runs, forgotten, kills>>
watchVars == <<scoring, storage, spinning, message, unacked, events, restarts>>

NoMessage == [phase |-> "none"]
Unknown == [completed |-> 0, failed |-> 0, quality |-> 0, tokens |-> 0]
PairOf(event) == <<event.agent, event.task>>
Pairs == Agents \X WatchedTasks

KnownAgents == {stats[i].agent : i \in DOMAIN stats}
Position(a) == CHOOSE i \in DOMAIN stats : stats[i].agent = a

-----------------------------------------------------------------------------
(* EfficiencyScorer *)

Tally(record, event) ==
    [completed |-> record.completed + (IF event.kind = "completed" THEN 1 ELSE 0),
     failed |-> record.failed + (IF event.kind = "failed" THEN 1 ELSE 0),
     quality |-> record.quality + (IF event.kind = "failed" THEN 0 ELSE IF event.pass THEN Unit ELSE Unit \div 2),
     tokens |-> record.tokens + event.tokens]

\* record_task_completed and record_task_failed, with _get_or_create.
RecordTask(event) ==
    LET a == event.agent
        old == IF a \in KnownAgents THEN stats[Position(a)].record ELSE Unknown
        entry == [agent |-> a, record |-> Tally(old, event)]
    IN IF a \in KnownAgents THEN [stats EXCEPT ![Position(a)] = entry] ELSE Append(stats, entry)

AtLeastOne(n) == IF n > 0 THEN n ELSE 1

\* A quotient rounded to whole units.
Rounded(x, y) == (2 * x + y) \div (2 * y)

Average(r) == IF r.completed > 0 THEN Rounded(r.quality, r.completed) ELSE 0

\* Quality per token, as a fraction.
Numerator(r) == IF r.completed > 0 THEN r.quality ELSE 0
Denominator(r) == AtLeastOne(r.tokens)
Better(r, s) == Numerator(r) * Denominator(s) > Numerator(s) * Denominator(r)

\* The stable descending sort: before an entry come the better ones and the equal ones seen earlier.
RankOf(list, i) ==
    1 + Cardinality({j \in DOMAIN list : \/ Better(list[j].record, list[i].record)
                                         \/ j < i /\ ~Better(list[i].record, list[j].record)})

\* compute_scores: scores are relative to the best, or to 1 when nobody has any.
Leaderboard(list) ==
    LET top == CHOOSE i \in DOMAIN list : RankOf(list, i) = 1
        score(r) == IF Numerator(list[top].record) = 0 THEN 0
                    ELSE Rounded(Unit * Numerator(r) * Denominator(list[top].record),
                                 Denominator(r) * Numerator(list[top].record))
    IN [i \in DOMAIN list |->
          [agent |-> list[i].agent, rank |-> RankOf(list, i), score |-> score(list[i].record),
           completed |-> list[i].record.completed, failed |-> list[i].record.failed,
           quality |-> Average(list[i].record), tokens |-> list[i].record.tokens]]

\* get_agent_score: from the cached leaderboard if there is one.
GetAgentScore(a) ==
    LET current == IF board # {} THEN CHOOSE b \in board : TRUE ELSE Leaderboard(stats)
        found == {i \in DOMAIN current : current[i].agent = a}
    IN IF found = {} THEN [agent |-> a, rank |-> Len(current) + 1, score |-> 0,
                           completed |-> 0, failed |-> 0, quality |-> 0, tokens |-> 0]
       ELSE current[CHOOSE i \in found : TRUE]

-----------------------------------------------------------------------------
(* SpinDetector.record_retry *)

Streak(pair) ==
    LET at == {i \in DOMAIN streaks : streaks[i].pair = pair}
    IN IF at = {} THEN 0 ELSE streaks[CHOOSE i \in at : TRUE].count

\* The entries of a list at some positions, in order: a dictionary without some of its keys.
EntriesAt(list, positions) ==
    [i \in 1 .. Cardinality(positions) |->
        list[CHOOSE j \in positions : Cardinality({k \in positions : k <= j}) = i]]

OtherStreaks(pair) == EntriesAt(streaks, {i \in DOMAIN streaks : streaks[i].pair # pair})

\* Fault: a retry with a diff does not end the streak.
RecordRetryKeeps(event) ==
    LET pair == PairOf(event)
        rest == OtherStreaks(pair)
        added == Append(rest, [pair |-> pair, count |-> Streak(pair) + 1])
    IN IF event.diff THEN streaks ELSE IF Len(added) > MaxStreaks THEN Tail(added) ELSE added
\* Fault: no pair ever makes room.
RecordRetryUnbounded(event) ==
    LET pair == PairOf(event)
        rest == OtherStreaks(pair)
    IN IF event.diff THEN rest ELSE Append(rest, [pair |-> pair, count |-> Streak(pair) + 1])
\* A retry with a diff forgets the pair, another counts and becomes the latest; the oldest
\* pair makes room.
RecordRetry(event) ==
    LET pair == PairOf(event)
        rest == OtherStreaks(pair)
        added == Append(rest, [pair |-> pair, count |-> Streak(pair) + 1])
    IN IF event.diff THEN rest ELSE IF Len(added) > MaxStreaks THEN Tail(added) ELSE added

\* Fault: one retry more is allowed.
IsSpinningLate(event) == ~event.diff /\ Streak(PairOf(event)) >= SpinRetries
IsSpinning(event) == ~event.diff /\ Streak(PairOf(event)) + 1 >= SpinRetries

\* SpinDetector.reset, for a task that is given to another agent.
ResetAgent(agent) ==
    /\ message = NoMessage
    /\ streaks' = EntriesAt(streaks, {i \in DOMAIN streaks : streaks[i].pair[1] # agent})
    /\ runs' = [pair \in Pairs |-> IF pair[1] = agent THEN 0 ELSE runs[pair]]
    /\ UNCHANGED <<scoring, storage, forgotten, kills, message, unacked, events, restarts>>

-----------------------------------------------------------------------------
(* Monitor *)

Failures == [kind : {"failed"}, agent : Agents, task : WatchedTasks, diff : BOOLEAN, tokens : TokenCounts]
Completions == [kind : {"completed"}, agent : Agents, pass : BOOLEAN, tokens : TokenCounts]

\* A message is published and read by the group.
Deliver(event) ==
    /\ message = NoMessage /\ events < MaxEvents
    /\ events' = events + 1
    /\ message' = [phase |-> "handle", event |-> event]
    /\ runs' = IF event.kind = "completed" THEN runs
               ELSE [runs EXCEPT ![PairOf(event)] = IF event.diff THEN 0 ELSE @ + 1]
    /\ UNCHANGED <<scoring, storage, streaks, forgotten, kills, unacked, restarts>>

\* Fault: the leaderboard survives a failed task.
DropBoardIfCompleted(event) == board' = IF event.kind = "failed" THEN board ELSE {}
DropBoard(event) == board' = {}

\* handle_task_completed; handle_task_failed up to the kill.
HandleTask ==
    LET event == message.event IN
    /\ message.phase = "handle"
    /\ stats' = RecordTask(event)
    /\ DropBoard(event)
    /\ exact' = [exact EXCEPT ![event.agent] = Tally(@, event)]
    /\ IF event.kind = "completed"
       THEN /\ message' = [message EXCEPT !.phase = "ack"]
            /\ UNCHANGED <<streaks, forgotten>>
       ELSE /\ streaks' = RecordRetry(event)
            /\ forgotten' = forgotten \cup (
                 {streaks[i].pair : i \in {j \in DOMAIN streaks : \A k \in DOMAIN streaks' : streaks'[k].pair # streaks[j].pair}}
                 \ {PairOf(event)})
            /\ message' = [message EXCEPT !.phase = IF IsSpinning(event) THEN "kill" ELSE "ack"]
    /\ UNCHANGED <<storage, runs, kills, unacked, events, restarts>>

\* Enforcer.kill_spinning_agent; its record in the database may be missing, which is only logged.
KillSpinningAgent ==
    /\ message.phase = "kill"
    /\ kills' = kills \cup {[pair |-> PairOf(message.event), run |-> runs[PairOf(message.event)]]}
    /\ message' = [message EXCEPT !.phase = "ack"]
    /\ UNCHANGED <<scoring, storage, streaks, runs, forgotten, unacked, events, restarts>>

AckMessage ==
    /\ message.phase = "ack"
    /\ message' = NoMessage
    /\ UNCHANGED <<scoring, storage, spinning, unacked, events, restarts>>

\* The kill cannot be published, or the acknowledgement fails.
LeaveUnacked ==
    /\ message.phase \in {"kill", "ack"}
    /\ message' = NoMessage
    /\ unacked' = unacked + 1
    /\ UNCHANGED <<scoring, storage, spinning, events, restarts>>

\* The leaderboard is asked for: by the route, by an activity.
ComputeScores ==
    /\ board' = {Leaderboard(stats)}
    /\ UNCHANGED <<stats, exact, storage, spinning, message, unacked, events, restarts>>

Row(entry) == [completed |-> entry.completed, failed |-> entry.failed,
               quality |-> entry.quality, tokens |-> entry.tokens]

\* The polling loop: compute_scores and persist_scores; a failed write is only logged.
PersistScores(written) ==
    /\ board' = {Leaderboard(stats)}
    /\ IF written
       THEN /\ rows' = [a \in DOMAIN rows \cup KnownAgents |->
                          IF a \in KnownAgents THEN Row(Leaderboard(stats)[Position(a)]) ELSE rows[a]]
            /\ exactRows' = [a \in Agents |-> IF a \in KnownAgents THEN exact[a] ELSE exactRows[a]]
       ELSE UNCHANGED storage
    /\ UNCHANGED <<stats, exact, spinning, message, unacked, events, restarts>>

\* Fault: the average is taken for the sum.
RestoredAverage(row) == row
RestoredRecord(row) == [row EXCEPT !.quality = @ * AtLeastOne(row.completed)]

\* A set in any order.
Orders(S) == {order \in [1 .. Cardinality(S) -> S] : \A a \in S : \E i \in DOMAIN order : order[i] = a}

\* The service stops and starts: load_persisted_scores reads the rows in any order, the
\* streaks are gone, a message under way is left unacknowledged.  If the rows cannot be read
\* the scorer starts afresh.
RestartGovernor(read) ==
    /\ restarts < MaxRestarts
    /\ restarts' = restarts + 1
    /\ \E order \in Orders(IF read THEN DOMAIN rows ELSE {}) :
          stats' = [i \in DOMAIN order |-> [agent |-> order[i], record |-> RestoredRecord(rows[order[i]])]]
    /\ exact' = IF read THEN exactRows ELSE [a \in Agents |-> Unknown]
    /\ board' = {}
    /\ streaks' = <<>>
    /\ message' = NoMessage
    /\ unacked' = IF message = NoMessage THEN unacked ELSE unacked + 1
    /\ UNCHANGED <<storage, runs, forgotten, kills, events>>

WatchInit ==
    /\ stats = <<>>
    /\ board = {}
    /\ exact = [a \in Agents |-> Unknown]
    /\ rows = [a \in {} |-> Unknown]
    /\ exactRows = [a \in Agents |-> Unknown]
    /\ streaks = <<>>
    /\ runs = [pair \in Pairs |-> 0]
    /\ forgotten = {}
    /\ kills = {}
    /\ message = NoMessage
    /\ unacked = 0 /\ events = 0 /\ restarts = 0

MessageStep == HandleTask \/ KillSpinningAgent \/ AckMessage

\* Scores: messages of both kinds about one task, acknowledged as they should be; a failed
\* task has cost tokens.
ScoreNext(task) ==
    \/ \E event \in Completions \cup {f \in Failures : f.diff /\ f.task = task /\ f.tokens # 0} : Deliver(event)
    \/ MessageStep
    \/ ComputeScores
    \/ \E written \in BOOLEAN : PersistScores(written)
    \/ \E read \in BOOLEAN : RestartGovernor(read)

\* Spinning: failed tasks of one agent, some of them never acknowledged.
SpinNext(agent) ==
    \/ \E event \in {f \in Failures : f.agent = agent /\ f.tokens = 0} : Deliver(event)
    \/ MessageStep
    \/ LeaveUnacked
    \/ ResetAgent(agent)
    \/ \E read \in BOOLEAN : RestartGovernor(read)

\* Both at once, about any agents and tasks.
WatchNext ==
    \/ \E event \in Completions \cup Failures : Deliver(event)
    \/ MessageStep
    \/ LeaveUnacked
    \/ \E agent \in Agents : ResetAgent(agent)
    \/ ComputeScores
    \/ \E written \in BOOLEAN : PersistScores(written)
    \/ \E read \in BOOLEAN : RestartGovernor(read)

WatchSpec == WatchInit /\ [][WatchNext]_watchVars

-----------------------------------------------------------------------------
\* The detector never tracks more pairs than it may and every agent is listed once.
WatchTypeOK ==
    /\ Len(streaks) <= MaxStreaks
    /\ \A i \in DOMAIN streaks : streaks[i] \in [pair : Pairs, count : Nat \ {0}]
    /\ Cardinality(KnownAgents) = Len(stats) /\ KnownAgents \subseteq Agents
    /\ \A i \in DOMAIN stats : stats[i].record \in [completed : Nat, failed : Nat, quality : Nat, tokens : Nat]
    /\ DOMAIN rows \subseteq Agents
    /\ message.phase \in {"none", "handle", "kill", "ack"}

\* An agent is killed for spinning only after spin_max_retries failures of one task without a
\* diff between them: what was forgotten, reset or lost to a restart only delays it.
KillsAreJustified == \A k \in kills : k.run >= SpinRetries

\* An agent that spins is killed, as long as the detector did not have to forget it, the
\* service did not restart and no message was left unacknowledged.
SpinnersAreKilled ==
    message = NoMessage /\ unacked = 0 /\ restarts = 0 =>
        \A pair \in Pairs : runs[pair] >= SpinRetries /\ pair \notin forgotten => \E k \in kills : k.pair = pair

\* get_agent_score answers from a cached leaderboard what a computed one would say now, an
\* agent that nobody knows included.
LookupsAreFresh ==
    \A a \in Agents :
        GetAgentScore(a) = LET fresh == Leaderboard(stats)
                               at == {i \in DOMAIN fresh : fresh[i].agent = a}
                           IN IF at # {} THEN fresh[CHOOSE i \in at : TRUE]
                              ELSE [agent |-> a, rank |-> Len(stats) + 1, score |-> 0,
                                    completed |-> 0, failed |-> 0, quality |-> 0, tokens |-> 0]

\* A restart loses what was not persisted and nothing else: counts and tokens are exact, the
\* quality, which goes through a rounded average, is off by half a unit per task and restart.
RestoredScoresAreClose ==
    \A i \in DOMAIN stats :
        LET r == stats[i].record  e == exact[stats[i].agent] IN
        /\ r.completed = e.completed /\ r.failed = e.failed /\ r.tokens = e.tokens
        /\ 2 * (r.quality - e.quality) \in -(restarts * r.completed) .. restarts * r.completed

\* Agents are judged by what they did: killed for spinning when they spin and only then, scored
\* by their own record, through forgotten streaks, lost kills, caching and restarts.
AgentsAreJudgedFairly ==
    /\ WatchTypeOK
    /\ KillsAreJustified
    /\ SpinnersAreKilled
    /\ LookupsAreFresh
    /\ RestoredScoresAreClose
=============================================================================
