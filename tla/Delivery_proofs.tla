---------------------------- MODULE Delivery_proofs ----------------------------
(***************************************************************************)
(* Proofs about the coding agents, for any number of loops, workflows,     *)
(* files, retries and crashes: what is committed to the shared repository  *)
(* was cleared, what is reported is there, no accepted update is lost.     *)
(*                                                                         *)
(* Agents share a working tree and an index, and git commit takes the      *)
(* whole index.  So that an agent's hash holds its work is not inductive:  *)
(* the invariant follows a file that only one agent wrote from the working *)
(* tree (TreeHoldsTheWork) over the index (IndexHoldsTheWork) to the       *)
(* commit (HeadHoldsTheWork).  It rests on agents that have begun to write *)
(* neither generating nor testing again (WritersHaveTested), however often *)
(* Temporal repeats their commit.                                          *)
(*                                                                         *)
(* And about the message bus they talk over: the counters are sizes of     *)
(* sets of positions of the stream, so each step is shown to add one       *)
(* position to such a set or none (CountersInv), and each callback to      *)
(* acknowledge what it returned from (ListenersInv).                       *)
(*                                                                         *)
(* And about the plans they work on: a graph without cycles can be         *)
(* completed, because each round completes at least one more task          *)
(* (AcyclicGraphsFinish), and the workflow's books are an invariant of     *)
(* their own (WorkflowInv).                                                *)
(*                                                                         *)
(* And about what their work is judged by: one report for each request that *)
(* came to its end, with the layers it ran and the worst of their verdicts *)
(* (EvaluationInv); a summary line of passed and skipped tests only is     *)
(* parsed as it was printed (ParsedIsPrinted).                             *)
(*                                                                         *)
(* And about the code they are shown: the scan over the lines of a file    *)
(* finds the first one that closes a block (FoundBy), so blocks nest; the  *)
(* store of indices is in the order of the last storing, and what it has let *)
(* go is older than all of it (IndexStoreInv); a call's embeddings are there *)
(* when it is done and not before (EmbedInv).                              *)
(***************************************************************************)
EXTENDS CodingAgent, AgentBus, TaskOrchestration, EvaluationEngine, CodebaseIndex,
        SequenceTheorems, FiniteSetTheorems, WellFoundedInduction, TLAPS

\* Before the acceptance of the tests, and from then on until the commit is
\* reported: the files and the revision are final.
Unsettled == {"plan", "generate", "test", "fix"}
Settled == {"write", "read", "propose"} \cup GitSteps

\* What holds of one agent's run: attempts and revisions go together, the hash
\* is set once, at the end of the commit, and only a workflow updates the ledger.
RunIsConsistent(a, r) ==
    /\ r.pc \in {"plan", "generate", "fix"} => r.rev <= r.attempt
    /\ r.rev <= r.attempt + 1
    /\ r.pc \in {"test", "fix"} \cup Settled => r.rev >= 1
    /\ r.pc \in Unsettled \cup {"write"} \cup GitSteps => r.hash = 0
    /\ r.pc \in {"read", "propose"} => r.hash # 0 /\ a \in Flows

RunsAreConsistent ==
    /\ run \in [Agents -> AgentRun]
    /\ \A a \in Agents : RunIsConsistent(a, run[a])

\* What an agent is about to commit was accepted by its sandbox run.
SettledIsCleared == \A a \in Agents : run[a].pc \in Settled => Content(a) \in cleared

\* Only cleared revisions are written, added and committed (CommittedWasCleared, by position).
TreesAreCleared ==
    /\ \A p \in Paths : worktree[p] \in {Nothing} \cup cleared
    /\ \A p \in Paths : index[p] \in {Nothing} \cup cleared
    /\ \A i \in 1 .. Len(commits) : \A p \in Paths : commits[i][p] \in {Nothing} \cup cleared

\* Only an agent that was settled has written, only its own files, and all of
\* them before it adds them.
WritersHaveTested ==
    \A a \in Agents :
        /\ \A p \in Paths : a \in writers[p] => p \in run[a].files /\ run[a].pc \notin Unsettled
        /\ run[a].pc \in GitSteps => \A p \in run[a].files : a \in writers[p]

\* Nobody but its one writer touches a file in the working tree, ...
TreeHoldsTheWork ==
    \A a \in Agents, p \in Paths : writers[p] = {a} => worktree[p] = Content(a)

\* ... once added, in the index, whoever adds and commits in between, ...
IndexHoldsTheWork ==
    \A a \in Agents : run[a].pc \in {"gitcommit", "revparse"} =>
        \A p \in run[a].files : writers[p] = {a} => index[p] = Content(a)

\* ... and once committed, in HEAD.
HeadHoldsTheWork ==
    \A a \in Agents : run[a].pc = "revparse" =>
        /\ Len(commits) > 0
        /\ \A p \in run[a].files : writers[p] = {a} => commits[Len(commits)][p] = Content(a)

HashesAreCommits == \A a \in Agents : run[a].hash <= Len(commits)

TreeTypes ==
    /\ worktree \in Trees /\ index \in Trees /\ commits \in Seq(Trees)
    /\ writers \in [Paths -> SUBSET Agents]

TreeInv ==
    /\ RunsAreConsistent /\ TreeTypes
    /\ SettledIsCleared /\ TreesAreCleared
    /\ WritersHaveTested /\ TreeHoldsTheWork /\ IndexHoldsTheWork /\ HeadHoldsTheWork
    /\ HashesAreCommits /\ ReportedHashHoldsTheWork

\* The ledger holds 0 or the hash of a workflow.
LedgerInv == repoState \in 0 .. Len(commits) /\ AcceptedUpdatesCount

\* The run store is the end of what was recorded, and not a short one.
StoreInv ==
    /\ runStore \in Seq(Agents \cup Nat) /\ recorded \in Seq(Agents \cup Nat)
    /\ Len(runStore) <= Len(recorded) /\ Len(runStore) <= RunCapacity
    /\ Len(runStore) = Len(recorded) \/ Len(runStore) >= RunCapacity - (RunCapacity \div 2)
    /\ \A i \in 1 .. Len(runStore) : runStore[i] = recorded[Len(recorded) - Len(runStore) + i]

AInv == TreeInv /\ LedgerInv /\ StoreInv

-----------------------------------------------------------------------------
(* The steps of one agent that leave the repository alone. *)

\* The agent moves on with the files, the revision and the hash it has.
MovesOn(a, r) ==
    /\ r \in AgentRun /\ RunIsConsistent(a, r)
    /\ run' = [run EXCEPT ![a] = r]
    /\ r.files = run[a].files /\ r.rev = run[a].rev /\ r.hash = run[a].hash
    /\ r.pc \in Settled => run[a].pc \in Settled
    /\ r.pc \in Unsettled => run[a].pc \in Unsettled
    /\ r.pc \notin GitSteps
    /\ UNCHANGED <<repoVars, cleared>>

LEMMA MovesOnKeeps ==
  ASSUME TreeInv, NEW a \in Agents, NEW r, MovesOn(a, r)
  PROVE  TreeInv'
<1> USE DEF TreeInv, MovesOn, repoVars
<1>1. RunsAreConsistent'
  BY DEF RunsAreConsistent
<1>2. TreeTypes' /\ TreesAreCleared'
  BY DEF TreeTypes, TreesAreCleared
<1>3. SettledIsCleared'
  BY DEF SettledIsCleared, RunsAreConsistent, Content
<1>4. WritersHaveTested'
  BY DEF WritersHaveTested, RunsAreConsistent
<1>5. TreeHoldsTheWork'
  BY DEF TreeHoldsTheWork, RunsAreConsistent, Content
<1>6. IndexHoldsTheWork'
  BY DEF IndexHoldsTheWork, RunsAreConsistent, Content, GitSteps
<1>7. HeadHoldsTheWork'
  BY DEF HeadHoldsTheWork, RunsAreConsistent, Content, GitSteps
<1>8. HashesAreCommits' /\ ReportedHashHoldsTheWork'
  BY DEF HashesAreCommits, ReportedHashHoldsTheWork, RunsAreConsistent, Content
<1> QED BY <1>1, <1>2, <1>3, <1>4, <1>5, <1>6, <1>7, <1>8 DEF TreeInv

LEMMA PlanMoves == ASSUME TreeInv, NEW a \in Agents, Plan(a) PROVE TreeInv'
<1>1. MovesOn(a, [run[a] EXCEPT !.pc = "generate"])
  BY DEF Plan, GoTo, MovesOn, TreeInv, RunsAreConsistent, RunIsConsistent, AgentRun, Settled, Unsettled, GitSteps
<1> QED BY <1>1, MovesOnKeeps

LEMMA RaiseMoves == ASSUME TreeInv, NEW a \in Agents, Raise(a) PROVE TreeInv'
<1>1. MovesOn(a, [run[a] EXCEPT !.pc = "raised"])
  BY DEF Raise, GoTo, MovesOn, TreeInv, RunsAreConsistent, RunIsConsistent, AgentRun, Settled, Unsettled, GitSteps, RunEnded
<1> QED BY <1>1, MovesOnKeeps

LEMMA RefusalMoves ==
  ASSUME TreeInv, NEW a \in Agents, run[a].pc \in {"write"} \cup GitSteps, RetriesLeft(a),
         run' = [run EXCEPT ![a] = CommitFails(a)], UNCHANGED <<repoVars, cleared>>
  PROVE  TreeInv'
<1>1. run[a] \in AgentRun /\ RunIsConsistent(a, run[a]) /\ run \in [Agents -> AgentRun]
  BY DEF TreeInv, RunsAreConsistent
<1>2. CASE a \in Loops
  <2>1. MovesOn(a, [run[a] EXCEPT !.pc = "publish"])
    BY <1>1, <1>2 DEF CommitFails, MovesOn, RunIsConsistent, AgentRun, Settled, Unsettled, GitSteps
  <2> QED BY <2>1, MovesOnKeeps
<1>3. CASE a \notin Loops
  <2>1. run[a].tries + 1 \in 0 .. MaxCommitTries
    BY <1>1, <1>3, RetriesAssumption DEF RetriesLeft, Agents, AgentRun
  <2>2. MovesOn(a, [run[a] EXCEPT !.pc = "write", !.tries = @ + 1])
    BY <1>1, <1>3, <2>1 DEF CommitFails, MovesOn, RunIsConsistent, AgentRun, Settled, Unsettled, GitSteps
  <2> QED BY <2>2, MovesOnKeeps
<1> QED BY <1>2, <1>3

LEMMA EndingMoves ==
  ASSUME TreeInv, NEW a \in Agents,
         \/ PublishRunCompleted(a) \/ ExecuteReturns(a) \/ WorldStateFails(a)
  PROVE  TreeInv'
<1> DEFINE r(pc) == [run[a] EXCEPT !.pc = pc]
<1>1. run[a] \in AgentRun /\ RunIsConsistent(a, run[a]) /\ run \in [Agents -> AgentRun]
  BY DEF TreeInv, RunsAreConsistent
<1>2. CASE PublishRunCompleted(a)
  <2>1. MovesOn(a, r("record"))
    BY <1>1, <1>2 DEF PublishRunCompleted, GoTo, MovesOn, RunIsConsistent, AgentRun, Settled, Unsettled, GitSteps
  <2> QED BY <2>1, MovesOnKeeps
<1>3. CASE ExecuteReturns(a) \/ WorldStateFails(a)
  <2>1. MovesOn(a, r("done"))
    BY <1>1, <1>3 DEF ExecuteReturns, WorldStateFails, GoTo, MovesOn, RunIsConsistent, AgentRun, Settled,
                      Unsettled, GitSteps, RunEnded
  <2> QED BY <2>1, MovesOnKeeps
<1> QED BY <1>2, <1>3

LEMMA ReadMoves ==
  ASSUME TreeInv, LedgerInv, NEW a \in Agents, ReadWorldState(a)
  PROVE  TreeInv'
<1>1. run[a] \in AgentRun /\ RunIsConsistent(a, run[a]) /\ run \in [Agents -> AgentRun]
  BY DEF TreeInv, RunsAreConsistent
<1>2. repoState \in Nat
  BY DEF TreeInv, TreeTypes, LedgerInv
<1>3. MovesOn(a, [run[a] EXCEPT !.pc = "propose", !.old = repoState])
  BY <1>1, <1>2 DEF ReadWorldState, MovesOn, RunIsConsistent, AgentRun, Settled, Unsettled, GitSteps
<1> QED BY <1>3, MovesOnKeeps

LEMMA ProposalMoves == ASSUME TreeInv, NEW a \in Agents, CommitProposal(a) PROVE TreeInv'
<1>1. run[a] \in AgentRun /\ RunIsConsistent(a, run[a]) /\ run \in [Agents -> AgentRun]
  BY DEF TreeInv, RunsAreConsistent
<1>2. MovesOn(a, [run[a] EXCEPT !.pc = "done", !.accepted = repoState = run[a].old])
  BY <1>1 DEF CommitProposal, MovesOn, RunIsConsistent, AgentRun, Settled, Unsettled, GitSteps, RunEnded
<1> QED BY <1>2, MovesOnKeeps

LEMMA CrashMoves == ASSUME TreeInv, NEW a \in Agents, WorkerCrash(a) PROVE TreeInv'
<1>1. run[a] \in AgentRun /\ RunIsConsistent(a, run[a]) /\ run \in [Agents -> AgentRun]
  BY DEF TreeInv, RunsAreConsistent
<1>2. CASE run[a].pc \in GitSteps
  <2>1. run[a].tries + 1 \in 0 .. MaxCommitTries
    BY <1>1, <1>2, RetriesAssumption DEF WorkerCrash, AgentRun, GitSteps
  <2>2. MovesOn(a, [run[a] EXCEPT !.pc = "write", !.tries = @ + 1])
    BY <1>1, <1>2, <2>1 DEF WorkerCrash, MovesOn, RunIsConsistent, AgentRun, Settled, Unsettled, GitSteps
  <2> QED BY <2>2, MovesOnKeeps
<1>3. CASE run[a].pc \notin GitSteps
  <2>1. MovesOn(a, [run[a] EXCEPT !.pc = "read"])
    BY <1>1, <1>3 DEF WorkerCrash, GoTo, MovesOn, RunIsConsistent, AgentRun, Settled, Unsettled, GitSteps
  <2> QED BY <2>1, MovesOnKeeps
<1> QED BY <1>2, <1>3

-----------------------------------------------------------------------------
(* The steps that make the work: generating, testing. *)

\* New files and a new revision, for an agent that has not begun to write.
LEMMA NewWorkKeeps ==
  ASSUME TreeInv, NEW a \in Agents, NEW r \in AgentRun, RunIsConsistent(a, r),
         run[a].pc \in Unsettled, r.pc = "test",
         run' = [run EXCEPT ![a] = r], UNCHANGED <<repoVars, cleared>>
  PROVE  TreeInv'
<1> USE DEF TreeInv, repoVars
<1>1. RunsAreConsistent'
  BY DEF RunsAreConsistent
<1>2. TreeTypes' /\ TreesAreCleared'
  BY DEF TreeTypes, TreesAreCleared
<1>3. r.hash = 0
  BY DEF RunIsConsistent, Unsettled
<1>4. \A p \in Paths : a \notin writers[p]
  BY DEF WritersHaveTested
<1>5. SettledIsCleared'
  BY DEF SettledIsCleared, RunsAreConsistent, Content, Settled, GitSteps
<1>6. WritersHaveTested'
  BY <1>4 DEF WritersHaveTested, RunsAreConsistent, GitSteps
<1>7. TreeHoldsTheWork'
  BY <1>4 DEF TreeHoldsTheWork, RunsAreConsistent, Content
<1>8. IndexHoldsTheWork' /\ HeadHoldsTheWork'
  BY DEF IndexHoldsTheWork, HeadHoldsTheWork, RunsAreConsistent, Content
<1>9. HashesAreCommits' /\ ReportedHashHoldsTheWork'
  BY <1>3, LenProperties DEF HashesAreCommits, ReportedHashHoldsTheWork, RunsAreConsistent, Content, TreeTypes
<1> QED BY <1>1, <1>2, <1>5, <1>6, <1>7, <1>8, <1>9 DEF TreeInv

LEMMA GenerateKeeps == ASSUME TreeInv, NEW a \in Agents, Generate(a) PROVE TreeInv'
<1>1. run[a] \in AgentRun /\ RunIsConsistent(a, run[a]) /\ run \in [Agents -> AgentRun]
  BY DEF TreeInv, RunsAreConsistent
<1>2. PICK files \in SUBSET Paths :
        run' = [run EXCEPT ![a].pc = "test", ![a].files = files, ![a].rev = @ + 1]
  BY DEF Generate, ParsedAnswers
<1> DEFINE r == [run[a] EXCEPT !.pc = "test", !.files = files, !.rev = @ + 1]
<1>3. run[a].rev \in Nat /\ run[a].rev <= run[a].attempt /\ run[a].attempt <= AgentRetries
  BY <1>1, RetriesAssumption DEF Generate, RunIsConsistent, AgentRun
<1>4. run[a].rev + 1 \in 0 .. AgentRetries + 1 /\ run[a].rev + 1 >= 1
  BY <1>1, <1>3, RetriesAssumption DEF AgentRun
<1>5. r \in AgentRun
  BY <1>1, <1>4 DEF AgentRun
<1>6. RunIsConsistent(a, r)
  BY <1>1, <1>3, <1>4, RetriesAssumption DEF RunIsConsistent, AgentRun, Settled, Unsettled, GitSteps, Generate
<1>7. run' = [run EXCEPT ![a] = r]
  BY <1>1, <1>2
<1>8. r.pc = "test"
  BY <1>1 DEF AgentRun
<1> QED BY <1>5, <1>6, <1>7, <1>8, NewWorkKeeps DEF Generate, Unsettled

LEMMA FixKeeps == ASSUME TreeInv, NEW a \in Agents, FixErrors(a) PROVE TreeInv'
<1>1. run[a] \in AgentRun /\ RunIsConsistent(a, run[a]) /\ run \in [Agents -> AgentRun]
  BY DEF TreeInv, RunsAreConsistent
<1>2. PICK fixed \in SUBSET Paths :
        run' = [run EXCEPT ![a].pc = "test",
                           ![a].files = IF fixed = {} THEN @ ELSE fixed,
                           ![a].rev = IF fixed = {} THEN @ ELSE @ + 1]
  BY DEF FixErrors, ParsedAnswers
<1>3. run[a].pc = "fix"
  BY DEF FixErrors
<1>4. /\ run[a].rev \in Nat /\ run[a].attempt \in Nat /\ run[a].attempt <= AgentRetries
      /\ run[a].rev <= run[a].attempt /\ run[a].rev >= 1 /\ run[a].hash = 0
  <2>1. run[a].rev \in Nat /\ run[a].attempt \in Nat /\ run[a].attempt <= AgentRetries
    BY <1>1, RetriesAssumption DEF AgentRun
  <2> QED BY <1>1, <1>3, <2>1 DEF RunIsConsistent, Unsettled
<1>5. CASE fixed = {}
  <2> DEFINE r == [run[a] EXCEPT !.pc = "test"]
  <2>1. r \in AgentRun
    BY <1>1 DEF AgentRun
  <2>2. RunIsConsistent(a, r)
    BY <1>1, <1>4 DEF RunIsConsistent, AgentRun, Settled, Unsettled, GitSteps, FixErrors
  <2>3. run' = [run EXCEPT ![a] = r]
    <3>1. run' = [run EXCEPT ![a] = [[[run[a] EXCEPT !.pc = "test"] EXCEPT !.files = run[a].files] EXCEPT !.rev = run[a].rev]]
      BY <1>1, <1>2, <1>5
    <3>2. [[[run[a] EXCEPT !.pc = "test"] EXCEPT !.files = run[a].files] EXCEPT !.rev = run[a].rev] = r
      BY <1>1 DEF AgentRun
    <3> QED BY <3>1, <3>2
  <2>4. r.pc = "test"
    BY <1>1 DEF AgentRun
  <2> QED BY <2>1, <2>2, <2>3, <2>4, NewWorkKeeps DEF FixErrors, Unsettled
<1>6. CASE fixed # {}
  <2> DEFINE r == [run[a] EXCEPT !.pc = "test", !.files = fixed, !.rev = @ + 1]
  <2>1. run[a].rev + 1 \in 0 .. AgentRetries + 1
    BY <1>4, RetriesAssumption
  <2>2. r \in AgentRun /\ r.pc = "test" /\ r.rev = run[a].rev + 1 /\ r.attempt = run[a].attempt /\ r.hash = run[a].hash
    BY <1>1, <2>1 DEF AgentRun
  <2>3. run' = [run EXCEPT ![a] = r]
    BY <1>1, <1>2, <1>6
  <2> HIDE DEF r
  <2>4. RunIsConsistent(a, r)
    BY <1>4, <2>2 DEF RunIsConsistent, Settled, GitSteps
  <2> QED BY <1>3, <2>2, <2>3, <2>4, NewWorkKeeps DEF FixErrors, Unsettled
<1> QED BY <1>5, <1>6

\* Where AfterTest leads, with what it leaves alone.
LEMMA AfterTestIsConsistent ==
  ASSUME NEW a \in Agents, run[a] \in AgentRun, RunIsConsistent(a, run[a]), run[a].pc = "test", NEW ok \in BOOLEAN
  PROVE  LET r == AfterTest(a, ok)
         IN  /\ r \in AgentRun /\ RunIsConsistent(a, r)
             /\ r.files = run[a].files /\ r.rev = run[a].rev /\ r.hash = run[a].hash
             /\ r.pc \notin GitSteps /\ (r.pc \in Settled => ok)
<1>1. CASE ok
  BY <1>1 DEF AfterTest, RunIsConsistent, AgentRun, Settled, Unsettled, GitSteps
<1>2. CASE ~ok /\ run[a].attempt < AgentRetries
  <2>1. run[a].attempt + 1 \in 0 .. AgentRetries /\ run[a].rev <= run[a].attempt + 1 /\ run[a].rev \in Nat /\ run[a].attempt \in Nat
    BY <1>2, RetriesAssumption DEF AgentRun, RunIsConsistent
  <2> DEFINE pc == IF a \in Loops THEN "fix" ELSE "generate"
             r == [run[a] EXCEPT !.pc = pc, !.attempt = @ + 1]
  <2>2. pc \in {"fix", "generate"}
    OBVIOUS
  <2>3. AfterTest(a, ok) = r
    BY <1>2 DEF AfterTest
  <2> HIDE DEF pc
  <2>4. r \in AgentRun /\ r.pc = pc /\ r.attempt = run[a].attempt + 1
        /\ r.files = run[a].files /\ r.rev = run[a].rev /\ r.hash = run[a].hash
    BY <2>1, <2>2 DEF AgentRun
  <2> HIDE DEF r
  <2>5. RunIsConsistent(a, r)
    BY <2>1, <2>2, <2>4 DEF RunIsConsistent, Settled, Unsettled, GitSteps
  <2> QED BY <1>2, <2>2, <2>3, <2>4, <2>5 DEF Settled, GitSteps
<1>3. CASE ~ok /\ ~(run[a].attempt < AgentRetries)
  BY <1>3 DEF AfterTest, RunIsConsistent, AgentRun, Settled, Unsettled, GitSteps, RunEnded
<1> QED BY <1>1, <1>2, <1>3

\* What an agent accepts showed it no failure: an exit code to a workflow, output to a loop.
LEMMA AcceptedShowedNoFailure ==
  ASSUME NEW a, NEW result, Accepted(a, result)
  PROVE  ~ ShowsFailure(a, result)
<1>1. \A k \in DOMAIN result : result[k] \in Range(result)
  BY DEF Range
<1>2. CASE a \in Loops
  BY <1>1, <1>2 DEF Accepted, CollectErrors, ShowsFailure
<1>3. CASE a \notin Loops
  BY <1>1, <1>3 DEF Accepted, AllPassed, ShowsFailure
<1> QED BY <1>2, <1>3

LEMMA TestKeeps == ASSUME TreeInv, NEW a \in Agents, TestInSandbox(a) PROVE TreeInv'
<1>1. run[a] \in AgentRun /\ RunIsConsistent(a, run[a]) /\ run \in [Agents -> AgentRun]
  BY DEF TreeInv, RunsAreConsistent
<1>2. PICK ok \in BOOLEAN :
        /\ run' = [run EXCEPT ![a] = AfterTest(a, ok)]
        /\ cleared \subseteq cleared' /\ (ok => Content(a) \in cleared')
  <2>1. PICK result :
          /\ run' = [run EXCEPT ![a] = AfterTest(a, Accepted(a, result))]
          /\ cleared' = IF ShowsFailure(a, result) THEN cleared ELSE cleared \cup {Content(a)}
    BY DEF TestInSandbox
  <2>2. Accepted(a, result) \in BOOLEAN /\ (Accepted(a, result) => ~ ShowsFailure(a, result))
    BY AcceptedShowedNoFailure DEF Accepted, CollectErrors, AllPassed
  <2> QED BY <2>1, <2>2
<1> DEFINE r == AfterTest(a, ok)
<1>3. /\ r \in AgentRun /\ RunIsConsistent(a, r)
      /\ r.files = run[a].files /\ r.rev = run[a].rev /\ r.hash = run[a].hash
      /\ r.pc \notin GitSteps /\ (r.pc \in Settled => ok)
  BY <1>1, AfterTestIsConsistent DEF TestInSandbox
<1>4. run' = [run EXCEPT ![a] = r] /\ UNCHANGED repoVars /\ run[a].pc = "test"
  BY <1>2 DEF TestInSandbox
<1>5. cleared \subseteq cleared' /\ (ok => Content(a) \in cleared')
  BY <1>2
<1> HIDE DEF r
<1> USE DEF TreeInv, repoVars
<1>6. RunsAreConsistent'
  BY <1>1, <1>3, <1>4 DEF RunsAreConsistent
<1>7. TreeTypes'
  BY <1>4 DEF TreeTypes
<1>8. TreesAreCleared'
  BY <1>4, <1>5 DEF TreesAreCleared
<1>9. \A p \in Paths : a \notin writers[p]
  BY <1>4 DEF WritersHaveTested, Unsettled
<1>10. SettledIsCleared'
  BY <1>1, <1>3, <1>4, <1>5 DEF SettledIsCleared, Content
<1>11. WritersHaveTested'
  BY <1>1, <1>3, <1>4, <1>9 DEF WritersHaveTested
<1>12. TreeHoldsTheWork'
  BY <1>1, <1>3, <1>4 DEF TreeHoldsTheWork, Content
<1>13. IndexHoldsTheWork' /\ HeadHoldsTheWork'
  BY <1>1, <1>3, <1>4 DEF IndexHoldsTheWork, HeadHoldsTheWork, Content, GitSteps
<1>14. HashesAreCommits' /\ ReportedHashHoldsTheWork'
  BY <1>1, <1>3, <1>4 DEF HashesAreCommits, ReportedHashHoldsTheWork, Content
<1> QED BY <1>6, <1>7, <1>8, <1>10, <1>11, <1>12, <1>13, <1>14 DEF TreeInv

-----------------------------------------------------------------------------
(* The commit: writing, adding, committing, asking for the hash. *)

\* A step to the next command of the commit.
LEMMA GoOnIsConsistent ==
  ASSUME RunsAreConsistent, NEW a \in Agents, run[a].pc \in {"write"} \cup GitSteps, NEW pc \in GitSteps, GoTo(a, pc)
  PROVE  /\ RunsAreConsistent'
         /\ run'[a].pc = pc /\ run'[a].files = run[a].files /\ run'[a].rev = run[a].rev
         /\ run'[a].hash = 0 /\ run[a].hash = 0
         /\ \A b \in Agents : b # a => run'[b] = run[b]
         /\ \A b \in Agents : Content(b)' = Content(b)
<1>1. run[a] \in AgentRun /\ RunIsConsistent(a, run[a]) /\ run \in [Agents -> AgentRun]
  BY DEF RunsAreConsistent
<1> DEFINE r == [run[a] EXCEPT !.pc = pc]
<1>2. r \in AgentRun /\ r.pc = pc /\ r.files = run[a].files /\ r.rev = run[a].rev
      /\ r.hash = run[a].hash /\ r.attempt = run[a].attempt
  BY <1>1 DEF AgentRun
<1>3. run' = [run EXCEPT ![a] = r]
  BY <1>1 DEF GoTo
<1> HIDE DEF r
<1>4. run[a].hash = 0 /\ run[a].rev >= 1 /\ run[a].rev <= run[a].attempt + 1
  BY <1>1 DEF RunIsConsistent, Settled
<1>5. RunIsConsistent(a, r)
  BY <1>2, <1>4 DEF RunIsConsistent, Unsettled, Settled, GitSteps
<1>6. RunsAreConsistent'
  BY <1>1, <1>2, <1>3, <1>5 DEF RunsAreConsistent
<1> QED BY <1>1, <1>2, <1>3, <1>4, <1>6 DEF Content

LEMMA ContentIsType ==
  ASSUME RunsAreConsistent, NEW a \in Agents, run[a].pc \in Settled
  PROVE  Content(a) \in Agents \X (1 .. AgentRetries + 1)
<1>1. run[a].rev \in 1 .. AgentRetries + 1
  BY RetriesAssumption DEF RunsAreConsistent, RunIsConsistent, AgentRun
<1> QED BY <1>1 DEF Content

LEMMA RunFilesArePaths == ASSUME RunsAreConsistent PROVE \A a \in Agents : run[a].files \subseteq Paths
BY DEF RunsAreConsistent, AgentRun

LEMMA WriteKeeps == ASSUME TreeInv, NEW a \in Agents, WriteFiles(a) PROVE TreeInv'
<1>1. RunsAreConsistent /\ run[a].pc = "write" /\ GoTo(a, "add")
  BY DEF TreeInv, WriteFiles
<1>2. /\ RunsAreConsistent'
      /\ run'[a].pc = "add" /\ run'[a].files = run[a].files /\ run'[a].hash = 0
      /\ \A b \in Agents : b # a => run'[b] = run[b]
      /\ \A b \in Agents : Content(b)' = Content(b)
  BY <1>1, GoOnIsConsistent DEF GitSteps
<1>3. Content(a) \in Agents \X (1 .. AgentRetries + 1) /\ Content(a) \in cleared
  BY <1>1, ContentIsType DEF Settled, TreeInv, SettledIsCleared
<1>4. /\ worktree' = [p \in Paths |-> IF p \in run[a].files THEN Content(a) ELSE worktree[p]]
      /\ writers' = [p \in Paths |-> IF p \in run[a].files THEN writers[p] \cup {a} ELSE writers[p]]
      /\ UNCHANGED <<index, commits, cleared>>
  BY DEF WriteFiles
<1>5. /\ worktree \in Trees /\ index \in Trees /\ commits \in Seq(Trees)
      /\ writers \in [Paths -> SUBSET Agents] /\ run[a].files \subseteq Paths
  BY DEF TreeInv, TreeTypes, RunsAreConsistent, AgentRun
<1>6. TreeTypes'
  <2>1. worktree' \in Trees
    BY <1>3, <1>4, <1>5 DEF Trees
  <2>2. Trees' = Trees
    BY DEF Trees
  <2> QED BY <1>4, <1>5, <2>1, <2>2 DEF TreeTypes
<1>7. TreesAreCleared'
  BY <1>3, <1>4 DEF TreeInv, TreesAreCleared
<1>8. SettledIsCleared'
  BY <1>1, <1>2, <1>3, <1>4 DEF TreeInv, SettledIsCleared, Settled
<1>9. WritersHaveTested'
  <2>1. \A b \in Agents, p \in Paths : b \in writers'[p] <=> b \in writers[p] \/ (b = a /\ p \in run[a].files)
    BY <1>4, <1>5
  <2>2. ASSUME NEW b \in Agents
        PROVE  /\ \A p \in Paths : b \in writers'[p] => p \in run'[b].files /\ run'[b].pc \notin Unsettled
               /\ run'[b].pc \in GitSteps => \A p \in run'[b].files : b \in writers'[p]
    <3>1. CASE b = a
      BY <1>1, <1>2, <1>5, <2>1, <3>1 DEF TreeInv, WritersHaveTested, Unsettled
    <3>2. CASE b # a
      <4>1. run'[b] = run[b] /\ run[b].files \subseteq Paths
        BY <1>1, <1>2, <3>2, RunFilesArePaths
      <4> QED BY <2>1, <3>2, <4>1 DEF TreeInv, WritersHaveTested
    <3> QED BY <3>1, <3>2
  <2> QED BY <2>2 DEF WritersHaveTested
<1>10. TreeHoldsTheWork'
  BY <1>2, <1>4, <1>5 DEF TreeInv, TreeHoldsTheWork
<1>11. IndexHoldsTheWork'
  BY <1>2, <1>4, <1>5, RunFilesArePaths DEF TreeInv, IndexHoldsTheWork
<1>12. HeadHoldsTheWork'
  BY <1>2, <1>4, <1>5, RunFilesArePaths DEF TreeInv, HeadHoldsTheWork
<1>13. HashesAreCommits'
  BY <1>2, <1>4, <1>5, LenProperties DEF TreeInv, HashesAreCommits
<1>14. ReportedHashHoldsTheWork'
  BY <1>2, <1>4, <1>5, RunFilesArePaths DEF TreeInv, ReportedHashHoldsTheWork
<1> QED BY <1>2, <1>6, <1>7, <1>8, <1>9, <1>10, <1>11, <1>12, <1>13, <1>14 DEF TreeInv

LEMMA AddKeeps == ASSUME TreeInv, NEW a \in Agents, GitAdd(a) PROVE TreeInv'
<1>1. RunsAreConsistent /\ run[a].pc = "add" /\ GoTo(a, "gitcommit")
  BY DEF TreeInv, GitAdd
<1>2. /\ RunsAreConsistent'
      /\ run'[a].pc = "gitcommit" /\ run'[a].files = run[a].files /\ run'[a].hash = 0
      /\ \A b \in Agents : b # a => run'[b] = run[b]
      /\ \A b \in Agents : Content(b)' = Content(b)
  BY <1>1, GoOnIsConsistent DEF GitSteps
<1>3. /\ index' = [p \in Paths |-> IF p \in run[a].files THEN worktree[p] ELSE index[p]]
      /\ UNCHANGED <<worktree, commits, writers, cleared>>
  BY DEF GitAdd
<1>4. /\ worktree \in Trees /\ index \in Trees /\ commits \in Seq(Trees)
      /\ writers \in [Paths -> SUBSET Agents]
  BY DEF TreeInv, TreeTypes
<1>5. TreeTypes'
  <2>1. index' \in Trees
    BY <1>3, <1>4 DEF Trees
  <2>2. Trees' = Trees
    BY DEF Trees
  <2> QED BY <1>3, <1>4, <2>1, <2>2 DEF TreeTypes
<1>6. TreesAreCleared'
  BY <1>3 DEF TreeInv, TreesAreCleared
<1>7. SettledIsCleared'
  BY <1>1, <1>2, <1>3 DEF TreeInv, SettledIsCleared, Settled, GitSteps
<1>8. WritersHaveTested'
  BY <1>1, <1>2, <1>3 DEF TreeInv, WritersHaveTested, Unsettled, GitSteps
<1>9. TreeHoldsTheWork'
  BY <1>2, <1>3 DEF TreeInv, TreeHoldsTheWork
<1>10. IndexHoldsTheWork'
  <2> SUFFICES ASSUME NEW b \in Agents, run'[b].pc \in {"gitcommit", "revparse"}, NEW p \in run'[b].files, writers[p] = {b}
               PROVE  index'[p] = Content(b)
    BY <1>2, <1>3 DEF IndexHoldsTheWork
  <2>1. p \in Paths
    BY <1>2, RunFilesArePaths DEF TreeInv
  <2>2. CASE b = a
    BY <1>2, <1>3, <2>1, <2>2 DEF TreeInv, TreeHoldsTheWork
  <2>3. CASE b # a
    <3>1. p \notin run[a].files
      BY <1>1, <2>3 DEF TreeInv, WritersHaveTested, GitSteps
    <3> QED BY <1>2, <1>3, <2>1, <2>3, <3>1 DEF TreeInv, IndexHoldsTheWork
  <2> QED BY <2>2, <2>3
<1>11. HeadHoldsTheWork'
  BY <1>2, <1>3 DEF TreeInv, HeadHoldsTheWork
<1>12. HashesAreCommits'
  BY <1>2, <1>3, <1>4, LenProperties DEF TreeInv, HashesAreCommits
<1>13. ReportedHashHoldsTheWork'
  BY <1>2, <1>3 DEF TreeInv, ReportedHashHoldsTheWork
<1> QED BY <1>2, <1>5, <1>6, <1>7, <1>8, <1>9, <1>10, <1>11, <1>12, <1>13 DEF TreeInv

LEMMA CommitKeeps == ASSUME TreeInv, NEW a \in Agents, GitCommit(a) PROVE TreeInv'
<1>1. RunsAreConsistent /\ run[a].pc = "gitcommit" /\ GoTo(a, "revparse")
  BY DEF TreeInv, GitCommit
<1>2. /\ RunsAreConsistent'
      /\ run'[a].pc = "revparse" /\ run'[a].files = run[a].files /\ run'[a].hash = 0
      /\ \A b \in Agents : b # a => run'[b] = run[b]
      /\ \A b \in Agents : Content(b)' = Content(b)
  BY <1>1, GoOnIsConsistent DEF GitSteps
<1>3. commits' = Append(commits, index) /\ UNCHANGED <<worktree, index, writers, cleared>>
  BY DEF GitCommit
<1>4. /\ worktree \in Trees /\ index \in Trees /\ commits \in Seq(Trees)
      /\ writers \in [Paths -> SUBSET Agents]
  BY DEF TreeInv, TreeTypes
<1>5. /\ commits' \in Seq(Trees) /\ Len(commits) \in Nat /\ Len(commits') = Len(commits) + 1
      /\ \A i \in 1 .. Len(commits) : commits'[i] = commits[i]
      /\ commits'[Len(commits) + 1] = index
  BY <1>3, <1>4, AppendProperties, LenProperties
<1>6. TreeTypes'
  <2>1. Trees' = Trees
    BY DEF Trees
  <2> QED BY <1>3, <1>4, <1>5, <2>1 DEF TreeTypes
<1>7. TreesAreCleared'
  <2>1. ASSUME NEW i \in 1 .. Len(commits'), NEW p \in Paths PROVE commits'[i][p] \in {Nothing} \cup cleared
    <3>1. CASE i <= Len(commits)
      BY <1>5, <3>1 DEF TreeInv, TreesAreCleared
    <3>2. CASE i = Len(commits) + 1
      BY <1>5, <3>2 DEF TreeInv, TreesAreCleared
    <3> QED BY <1>5, <3>1, <3>2
  <2> QED BY <1>3, <2>1 DEF TreeInv, TreesAreCleared
<1>8. SettledIsCleared'
  BY <1>1, <1>2, <1>3 DEF TreeInv, SettledIsCleared, Settled, GitSteps
<1>9. WritersHaveTested'
  BY <1>1, <1>2, <1>3 DEF TreeInv, WritersHaveTested, Unsettled, GitSteps
<1>10. TreeHoldsTheWork'
  BY <1>2, <1>3 DEF TreeInv, TreeHoldsTheWork
<1>11. IndexHoldsTheWork'
  BY <1>1, <1>2, <1>3 DEF TreeInv, IndexHoldsTheWork
<1>12. HeadHoldsTheWork'
  <2>1. commits'[Len(commits')] = index
    BY <1>5
  <2> QED BY <1>1, <1>2, <1>3, <1>5, <2>1 DEF TreeInv, HeadHoldsTheWork, IndexHoldsTheWork
<1>13. HashesAreCommits'
  <2>1. \A b \in Agents : run'[b].hash \in Nat /\ (run'[b] = run[b] \/ run'[b].hash = 0)
    BY <1>2 DEF RunsAreConsistent, AgentRun
  <2>2. \A b \in Agents : run[b].hash <= Len(commits)
    BY DEF TreeInv, HashesAreCommits
  <2> QED BY <1>5, <2>1, <2>2 DEF HashesAreCommits
<1>14. ReportedHashHoldsTheWork'
  <2> SUFFICES ASSUME NEW b \in Agents, run'[b].hash # 0, NEW p \in run'[b].files, writers[p] = {b}
               PROVE  commits'[run'[b].hash][p] = Content(b)
    BY <1>2, <1>3 DEF ReportedHashHoldsTheWork
  <2>1. run'[b] = run[b]
    BY <1>2
  <2>2. run[b].hash \in 1 .. Len(commits)
    <3>1. run[b].hash \in Nat /\ run[b].hash <= Len(commits) /\ run[b].hash # 0
      BY <2>1 DEF TreeInv, RunsAreConsistent, AgentRun, HashesAreCommits
    <3> QED BY <1>5, <3>1
  <2> QED BY <1>5, <2>1, <2>2 DEF TreeInv, ReportedHashHoldsTheWork
<1> QED BY <1>2, <1>6, <1>7, <1>8, <1>9, <1>10, <1>11, <1>12, <1>13, <1>14 DEF TreeInv

\* The end of a commit: the hash, and where a loop or a workflow goes on.
LEMMA RevParseIsConsistent ==
  ASSUME RunsAreConsistent, NEW a \in Agents, commits \in Seq(Trees), Len(commits) > 0, RevParse(a)
  PROVE  /\ RunsAreConsistent'
         /\ run'[a].pc \in {"publish", "read"} /\ run'[a].files = run[a].files
         /\ run'[a].hash = Len(commits) /\ run[a].hash = 0
         /\ \A b \in Agents : b # a => run'[b] = run[b]
         /\ \A b \in Agents : Content(b)' = Content(b)
<1>1. /\ run[a] \in AgentRun /\ RunIsConsistent(a, run[a]) /\ run \in [Agents -> AgentRun]
      /\ run[a].pc = "revparse"
  BY DEF RunsAreConsistent, RevParse
<1> DEFINE pc == IF a \in Loops THEN "publish" ELSE "read"
           r == [run[a] EXCEPT !.pc = pc, !.hash = Len(commits)]
<1>2. pc \in {"publish", "read"} /\ (pc = "read" => a \in Flows)
  BY DEF Agents
<1>3. Len(commits) \in Nat
  BY LenProperties
<1>4. run' = [run EXCEPT ![a] = r]
  BY <1>1 DEF RevParse
<1> HIDE DEF pc
<1>5. r \in AgentRun /\ r.pc = pc /\ r.files = run[a].files /\ r.rev = run[a].rev
      /\ r.hash = Len(commits) /\ r.attempt = run[a].attempt
  BY <1>1, <1>2, <1>3 DEF AgentRun
<1> HIDE DEF r
<1>6. run[a].hash = 0 /\ run[a].rev >= 1 /\ run[a].rev <= run[a].attempt + 1
  BY <1>1 DEF RunIsConsistent, Settled, GitSteps
<1>7. RunIsConsistent(a, r)
  BY <1>2, <1>3, <1>5, <1>6 DEF RunIsConsistent, Unsettled, Settled, GitSteps
<1>8. RunsAreConsistent'
  BY <1>1, <1>4, <1>5, <1>7 DEF RunsAreConsistent
<1> QED BY <1>1, <1>2, <1>4, <1>5, <1>6, <1>8 DEF Content

LEMMA RevParseKeeps == ASSUME TreeInv, NEW a \in Agents, RevParse(a) PROVE TreeInv'
<1>1. RunsAreConsistent /\ run[a].pc = "revparse" /\ UNCHANGED <<worktree, index, commits, writers, cleared>>
  BY DEF TreeInv, RevParse, repoVars
<1>2. commits \in Seq(Trees) /\ Len(commits) > 0 /\ Len(commits) \in Nat
  BY <1>1, LenProperties DEF TreeInv, TreeTypes, HeadHoldsTheWork
<1>3. /\ RunsAreConsistent'
      /\ run'[a].pc \in {"publish", "read"} /\ run'[a].files = run[a].files
      /\ run'[a].hash = Len(commits)
      /\ \A b \in Agents : b # a => run'[b] = run[b]
      /\ \A b \in Agents : Content(b)' = Content(b)
  BY <1>1, <1>2, RevParseIsConsistent
<1>4. TreeTypes' /\ TreesAreCleared'
  BY <1>1 DEF TreeInv, TreeTypes, TreesAreCleared, Trees
<1>5. SettledIsCleared'
  BY <1>1, <1>3 DEF TreeInv, SettledIsCleared, Settled, GitSteps
<1>6. WritersHaveTested'
  BY <1>1, <1>3 DEF TreeInv, WritersHaveTested, Unsettled, GitSteps
<1>7. TreeHoldsTheWork'
  BY <1>1, <1>3 DEF TreeInv, TreeHoldsTheWork
<1>8. IndexHoldsTheWork' /\ HeadHoldsTheWork'
  BY <1>1, <1>3 DEF TreeInv, IndexHoldsTheWork, HeadHoldsTheWork
<1>9. HashesAreCommits'
  BY <1>1, <1>2, <1>3 DEF TreeInv, HashesAreCommits
<1>10. ReportedHashHoldsTheWork'
  BY <1>1, <1>3 DEF TreeInv, ReportedHashHoldsTheWork, HeadHoldsTheWork
<1> QED BY <1>3, <1>4, <1>5, <1>6, <1>7, <1>8, <1>9, <1>10 DEF TreeInv

-----------------------------------------------------------------------------
(* The ledger. *)

\* A hash once set stays, and commits are only added.
HashesStay ==
    /\ \A b \in Agents : run[b].hash # 0 => run'[b].hash = run[b].hash
    /\ Len(commits') \in Nat /\ Len(commits) \in Nat /\ Len(commits) <= Len(commits')

LEMMA LedgerUntouched ==
  ASSUME LedgerInv, HashesStay, UNCHANGED repoState, \A b \in Agents : run'[b].accepted => run[b].accepted
  PROVE  LedgerInv'
BY DEF LedgerInv, HashesStay, AcceptedUpdatesCount, Agents

\* A workflow's update: the ledger holds its hash, or what it held.
LEMMA LedgerUpdated ==
  ASSUME LedgerInv, TreeInv, HashesStay, NEW a \in Flows, run[a].hash # 0,
         \/ repoState' = run[a].hash
         \/ repoState' = repoState /\ \A b \in Agents : run'[b].accepted => run[b].accepted
  PROVE  LedgerInv'
<1>1. CASE repoState' = run[a].hash
  <2>1. a \in Agents /\ run[a].hash \in Nat /\ run[a].hash <= Len(commits)
    BY DEF TreeInv, RunsAreConsistent, AgentRun, HashesAreCommits, Agents
  <2>2. repoState' \in 0 .. Len(commits')
    BY <1>1, <2>1 DEF HashesStay
  <2>3. run'[a].hash = repoState'
    BY <1>1, <2>1 DEF HashesStay
  <2> QED BY <1>1, <2>2, <2>3 DEF LedgerInv, AcceptedUpdatesCount
<1>2. CASE repoState' = repoState /\ \A b \in Agents : run'[b].accepted => run[b].accepted
  BY <1>2, LedgerUntouched
<1> QED BY <1>1, <1>2

\* The steps that leave the ledger alone.
LEMMA LedgerKeptByAgent ==
  ASSUME TreeInv, LedgerInv, NEW a \in Agents, AgentStep(a), ~ CommitProposal(a), ~ WorldStateFails(a)
  PROVE  LedgerInv'
<1>1. run[a] \in AgentRun /\ RunIsConsistent(a, run[a]) /\ run \in [Agents -> AgentRun]
  BY DEF TreeInv, RunsAreConsistent
<1>2. commits \in Seq(Trees) /\ index \in Trees /\ Len(commits) \in Nat
  BY LenProperties DEF TreeInv, TreeTypes
<1>3. UNCHANGED repoState
  BY DEF AgentStep, Plan, Generate, TestInSandbox, FixErrors, CallFails, Raise, RefuseCommit, WriteFiles, GitAdd,
         GitCommit, GitFails, RevParse, PublishRunCompleted, PublishFails, ExecuteReturns, ReadWorldState
<1>4. Len(commits') \in Nat /\ Len(commits) <= Len(commits')
  <2>1. CASE GitCommit(a)
    <3>1. Len(commits') = Len(commits) + 1
      BY <1>2, <2>1, AppendProperties DEF GitCommit
    <3> QED BY <1>2, <3>1
  <2>2. CASE ~ GitCommit(a)
    <3>1. commits' = commits
      BY <2>2 DEF AgentStep, Plan, Generate, TestInSandbox, FixErrors, CallFails, Raise, RefuseCommit, WriteFiles, GitAdd,
         GitFails, RevParse, PublishRunCompleted, PublishFails, ExecuteReturns, ReadWorldState, repoVars
    <3> QED BY <1>2, <3>1
  <2> QED BY <2>1, <2>2
<1> DEFINE Same == run'[a].accepted = run[a].accepted /\ run'[a].hash = run[a].hash
                   /\ \A b \in Agents : b # a => run'[b] = run[b]
<1>5. Same \/ RevParse(a)
  <2>1. \A pc : GoTo(a, pc) => Same
    BY <1>1 DEF GoTo, AgentRun
  <2>2. CASE Plan(a) \/ CallFails(a) \/ WriteFiles(a) \/ GitAdd(a) \/ GitCommit(a) \/ PublishRunCompleted(a)
             \/ PublishFails(a) \/ ExecuteReturns(a)
    BY <2>1, <2>2 DEF Plan, CallFails, Raise, WriteFiles, GitAdd, GitCommit, PublishRunCompleted, PublishFails,
       ExecuteReturns
  <2>3. CASE Generate(a)
    BY <1>1, <2>3 DEF Generate, AgentRun
  <2>4. CASE FixErrors(a)
    <3>1. PICK fixed : run' = [run EXCEPT ![a].pc = "test",
                                          ![a].files = IF fixed = {} THEN @ ELSE fixed,
                                          ![a].rev = IF fixed = {} THEN @ ELSE @ + 1]
      BY <2>4 DEF FixErrors
    <3>2. CASE fixed = {}
      BY <1>1, <3>1, <3>2 DEF AgentRun
    <3>3. CASE fixed # {}
      BY <1>1, <3>1, <3>3 DEF AgentRun
    <3> QED BY <3>2, <3>3
  <2>5. CASE TestInSandbox(a)
    <3>1. PICK ok : run' = [run EXCEPT ![a] = AfterTest(a, ok)]
      BY <2>5 DEF TestInSandbox
    <3>2. AfterTest(a, ok).accepted = run[a].accepted /\ AfterTest(a, ok).hash = run[a].hash
      BY <1>1 DEF AfterTest, AgentRun
    <3> QED BY <1>1, <3>1, <3>2
  <2>6. CASE RefuseCommit(a) \/ GitFails(a)
    <3>1. run' = [run EXCEPT ![a] = CommitFails(a)]
      BY <2>6 DEF RefuseCommit, GitFails
    <3>2. CommitFails(a).accepted = run[a].accepted /\ CommitFails(a).hash = run[a].hash
      BY <1>1 DEF CommitFails, AgentRun
    <3> QED BY <1>1, <3>1, <3>2
  <2>7. CASE ReadWorldState(a)
    BY <1>1, <2>7 DEF ReadWorldState, AgentRun
  <2> QED BY <2>2, <2>3, <2>4, <2>5, <2>6, <2>7 DEF AgentStep
<1>6. CASE Same
  <2>1. HashesStay
    BY <1>2, <1>4, <1>6 DEF HashesStay
  <2> QED BY <1>3, <1>6, <2>1, LedgerUntouched
<1>7. CASE RevParse(a)
  <2>1. run[a].hash = 0
    BY <1>1, <1>7 DEF RunIsConsistent, RevParse, GitSteps
  <2>2. run'[a].accepted = run[a].accepted /\ \A b \in Agents : b # a => run'[b] = run[b]
    BY <1>1, <1>7 DEF RevParse, AgentRun
  <2>3. HashesStay
    BY <1>2, <1>4, <2>1, <2>2 DEF HashesStay
  <2> QED BY <1>3, <2>2, <2>3, LedgerUntouched
<1> QED BY <1>5, <1>6, <1>7

LEMMA LedgerKeptByUpdate ==
  ASSUME TreeInv, LedgerInv, NEW a \in Agents, CommitProposal(a) \/ WorldStateFails(a) \/ WorkerCrash(a)
  PROVE  LedgerInv'
<1>1. run[a] \in AgentRun /\ RunIsConsistent(a, run[a]) /\ run \in [Agents -> AgentRun]
  BY DEF TreeInv, RunsAreConsistent
<1>2. Len(commits) \in Nat /\ commits' = commits
  BY LenProperties DEF TreeInv, TreeTypes, CommitProposal, WorldStateFails, WorkerCrash, repoVars
<1>3. run'[a].hash = run[a].hash /\ \A b \in Agents : b # a => run'[b] = run[b]
  BY <1>1 DEF CommitProposal, WorldStateFails, WorkerCrash, GoTo, AgentRun
<1>4. HashesStay
  BY <1>2, <1>3 DEF HashesStay
<1>5. CASE CommitProposal(a)
  <2>1. a \in Flows /\ run[a].hash # 0
    BY <1>1, <1>5 DEF CommitProposal, RunIsConsistent
  <2>2. CASE repoState = run[a].old
    BY <1>4, <1>5, <2>1, <2>2, LedgerUpdated DEF CommitProposal, Proposed
  <2>3. CASE repoState # run[a].old
    <3>1. run'[a].accepted = FALSE /\ repoState' = repoState
      BY <1>1, <1>5, <2>3 DEF CommitProposal, Proposed, AgentRun
    <3> QED BY <1>3, <1>4, <3>1, LedgerUntouched
  <2> QED BY <2>2, <2>3
<1>6. CASE WorldStateFails(a) \/ WorkerCrash(a)
  <2>1. run'[a].accepted = run[a].accepted
    BY <1>1, <1>6 DEF WorldStateFails, WorkerCrash, GoTo, AgentRun
  <2>2. CASE repoState' = repoState
    BY <1>3, <1>4, <2>1, <2>2, LedgerUntouched
  <2>3. CASE repoState' # repoState
    <3>1. run[a].pc = "propose" /\ repoState' = run[a].hash
      BY <1>6, <2>3 DEF WorldStateFails, WorkerCrash, Proposed, GitSteps
    <3>2. run[a].hash # 0 /\ a \in Flows
      BY <1>1, <3>1 DEF RunIsConsistent
    <3> QED BY <1>4, <3>1, <3>2, LedgerUpdated
  <2> QED BY <2>2, <2>3
<1> QED BY <1>5, <1>6

-----------------------------------------------------------------------------
(* The run store. *)

\* store is the end of all.
IsEndOf(store, all) ==
    /\ Len(store) <= Len(all)
    /\ \A i \in 1 .. Len(store) : store[i] = all[Len(all) - Len(store) + i]

LEMMA HalfOfCapacity ==
  /\ RunCapacity \in Nat /\ RunCapacity \div 2 \in Nat
  /\ RunCapacity \div 2 >= 1 /\ RunCapacity \div 2 < RunCapacity
BY CapacityAssumption

\* Pruning leaves room for one more, and the newer half.
LEMMA PrunedIsRecent ==
  ASSUME NEW S, NEW store \in Seq(S), NEW all \in Seq(S), IsEndOf(store, all), Len(store) <= RunCapacity,
         Len(store) = Len(all) \/ Len(store) >= RunCapacity - (RunCapacity \div 2)
  PROVE  LET kept == Pruned(store)
         IN  /\ kept \in Seq(S) /\ IsEndOf(kept, all) /\ Len(kept) < RunCapacity
             /\ Len(kept) = Len(all) \/ Len(kept) >= RunCapacity - (RunCapacity \div 2)
<1>1. Len(store) \in Nat /\ Len(all) \in Nat
  BY LenProperties
<1>2. CASE Len(store) < RunCapacity
  <2>1. Pruned(store) = store
    BY <1>1, <1>2, HalfOfCapacity DEF Pruned
  <2> QED BY <1>2, <2>1
<1>3. CASE Len(store) >= RunCapacity
  <2> DEFINE m == RunCapacity \div 2
             kept == SubSeq(store, m + 1, RunCapacity)
  <2>1. m \in Nat /\ m >= 1 /\ m < RunCapacity /\ RunCapacity \in Nat
    BY HalfOfCapacity
  <2>2. Len(store) = RunCapacity /\ Pruned(store) = kept
    BY <1>1, <1>3, <2>1 DEF Pruned
  <2> HIDE DEF m
  <2>3. \A i \in m + 1 .. RunCapacity : store[i] \in S
    BY <2>1, <2>2, ElementOfSeq
  <2>4. /\ kept \in Seq(S) /\ Len(kept) = RunCapacity - m
        /\ \A i \in 1 .. RunCapacity - m : kept[i] = store[m + i]
    <3>1. m + 1 \in Int /\ RunCapacity \in Int /\ m + 1 <= RunCapacity
      BY <2>1
    <3>2. /\ kept \in Seq(S)
          /\ Len(kept) = IF m + 1 <= RunCapacity THEN RunCapacity - (m + 1) + 1 ELSE 0
          /\ \A i \in 1 .. RunCapacity - (m + 1) + 1 : kept[i] = store[m + 1 + i - 1]
      BY <2>3, <3>1, SubSeqProperties
    <3> HIDE DEF kept
    <3>3. RunCapacity - (m + 1) + 1 = RunCapacity - m
      BY <2>1
    <3>4. ASSUME NEW i \in 1 .. RunCapacity - m PROVE kept[i] = store[m + i]
      <4>1. kept[i] = store[m + 1 + i - 1]
        BY <3>2, <3>3
      <4>2. m + 1 + i - 1 = m + i
        BY <2>1
      <4> QED BY <4>1, <4>2
    <3>5. Len(kept) = RunCapacity - m
      BY <3>1, <3>2, <3>3
    <3> QED BY <3>2, <3>4, <3>5
  <2> HIDE DEF kept
  <2>5. IsEndOf(kept, all)
    <3>1. Len(kept) <= Len(all)
      BY <1>1, <2>1, <2>2, <2>4 DEF IsEndOf
    <3>2. ASSUME NEW i \in 1 .. Len(kept) PROVE kept[i] = all[Len(all) - Len(kept) + i]
      <4>1. kept[i] = store[m + i] /\ m + i \in 1 .. Len(store)
        BY <2>1, <2>2, <2>4
      <4>2. store[m + i] = all[Len(all) - Len(store) + (m + i)]
        BY <4>1 DEF IsEndOf
      <4>3. Len(all) - Len(store) + (m + i) = Len(all) - Len(kept) + i
        BY <1>1, <2>1, <2>2, <2>4
      <4> QED BY <4>1, <4>2, <4>3
    <3> QED BY <3>1, <3>2 DEF IsEndOf
  <2> QED BY <2>1, <2>2, <2>4, <2>5 DEF m
<1> QED BY <1>1, <1>2, <1>3, HalfOfCapacity

LEMMA RecordKeepsStore ==
  ASSUME StoreInv, NEW id \in Agents \cup Nat, RecordRun(id)
  PROVE  StoreInv'
<1> DEFINE S == Agents \cup Nat
           kept == Pruned(runStore)
<1>1. runStore \in Seq(S) /\ recorded \in Seq(S) /\ IsEndOf(runStore, recorded)
  BY DEF StoreInv, IsEndOf
<1>2. /\ kept \in Seq(S) /\ IsEndOf(kept, recorded) /\ Len(kept) < RunCapacity
      /\ Len(kept) = Len(recorded) \/ Len(kept) >= RunCapacity - (RunCapacity \div 2)
  BY <1>1, PrunedIsRecent DEF StoreInv
<1>3. runStore' = Append(kept, id) /\ recorded' = Append(recorded, id)
  BY DEF RecordRun
<1> HIDE DEF kept
<1> HIDE DEF S
<1>4. id \in S
  BY DEF S
<1>5. /\ runStore' \in Seq(S) /\ Len(runStore') = Len(kept) + 1
      /\ \A i \in 1 .. Len(kept) : runStore'[i] = kept[i]
      /\ runStore'[Len(kept) + 1] = id
  BY <1>2, <1>3, <1>4, AppendProperties
<1>6. /\ recorded' \in Seq(S) /\ Len(recorded') = Len(recorded) + 1
      /\ \A i \in 1 .. Len(recorded) : recorded'[i] = recorded[i]
      /\ recorded'[Len(recorded) + 1] = id
  BY <1>1, <1>3, <1>4, AppendProperties
<1>7. Len(kept) \in Nat /\ Len(recorded) \in Nat /\ Len(kept) <= Len(recorded)
  BY <1>1, <1>2, LenProperties DEF IsEndOf
<1>8. ASSUME NEW i \in 1 .. Len(runStore')
      PROVE  runStore'[i] = recorded'[Len(recorded') - Len(runStore') + i]
  <2>1. Len(recorded') - Len(runStore') + i = Len(recorded) - Len(kept) + i
    BY <1>5, <1>6, <1>7
  <2>2. CASE i <= Len(kept)
    <3>1. i \in 1 .. Len(kept) /\ Len(recorded) - Len(kept) + i \in 1 .. Len(recorded)
      BY <1>7, <2>2
    <3> QED BY <1>2, <1>5, <1>6, <2>1, <3>1 DEF IsEndOf
  <2>3. CASE i > Len(kept)
    <3>1. i = Len(kept) + 1 /\ Len(recorded) - Len(kept) + i = Len(recorded) + 1
      BY <1>5, <1>7, <2>3
    <3> QED BY <1>5, <1>6, <2>1, <3>1
  <2> QED BY <1>7, <2>2, <2>3
<1>9. Len(runStore') <= RunCapacity /\ Len(runStore') <= Len(recorded')
      /\ (Len(runStore') = Len(recorded') \/ Len(runStore') >= RunCapacity - (RunCapacity \div 2))
  BY <1>2, <1>5, <1>6, <1>7, HalfOfCapacity
<1> QED BY <1>5, <1>6, <1>8, <1>9 DEF StoreInv, S

LEMMA StoreKept ==
  ASSUME StoreInv, NEW a \in Agents, AgentStep(a) \/ WorkerCrash(a)
  PROVE  StoreInv'
<1>1. CASE ExecuteReturns(a)
  BY <1>1, RecordKeepsStore DEF ExecuteReturns
<1>2. CASE ~ ExecuteReturns(a)
  <2>1. UNCHANGED storeVars
    BY <1>2 DEF AgentStep, Plan, Generate, TestInSandbox, FixErrors, CallFails, Raise, RefuseCommit, WriteFiles, GitAdd,
         GitCommit, GitFails, RevParse, PublishRunCompleted, PublishFails, ReadWorldState, CommitProposal,
         WorldStateFails, WorkerCrash
  <2> QED BY <2>1 DEF StoreInv, storeVars
<1> QED BY <1>1, <1>2

LEMMA StoreHoldsTheRecent == ASSUME StoreInv PROVE RecentRunsAreKept
<1> DEFINE recent == RunCapacity - (RunCapacity \div 2)
           n == Len(recorded)
           from == IF n > recent THEN n - recent + 1 ELSE 1
           k == Len(runStore)
           S == Agents \cup Nat
<1>1. n \in Nat /\ k \in Nat /\ k <= n /\ recorded \in Seq(S) /\ runStore \in Seq(S)
  BY LenProperties DEF StoreInv
<1>2. recent \in Nat /\ (k = n \/ k >= recent)
  BY HalfOfCapacity DEF StoreInv
<1>3. \A i \in 1 .. k : runStore[i] = recorded[n - k + i]
  BY DEF StoreInv
<1>4. from \in 1 .. n + 1 /\ n - k < from
  BY <1>1, <1>2
<1> HIDE DEF from
<1> HIDE DEF recent
<1> HIDE DEF S
<1>5. \A i \in from .. n : recorded[i] \in S
  BY <1>1, <1>4, ElementOfSeq
<1> DEFINE newest == SubSeq(recorded, from, n)
<1>6. /\ newest \in Seq(S)
      /\ Len(newest) = IF from <= n THEN n - from + 1 ELSE 0
      /\ \A i \in 1 .. n - from + 1 : newest[i] = recorded[from + i - 1]
  BY <1>1, <1>4, <1>5, SubSeqProperties
<1> HIDE DEF newest
<1>7. Range(newest) = {newest[i] : i \in 1 .. Len(newest)} /\ Range(runStore) = {runStore[i] : i \in 1 .. k}
  BY <1>1, <1>6, RangeEquality
<1>8. ASSUME NEW i \in 1 .. Len(newest) PROVE \E j \in 1 .. k : newest[i] = runStore[j]
  <2>1. i \in 1 .. n - from + 1
    BY <1>1, <1>4, <1>6
  <2> DEFINE j == from + i - 1 - (n - k)
  <2>2. j \in 1 .. k /\ n - k + j = from + i - 1
    BY <1>1, <1>4, <2>1
  <2>3. runStore[j] = recorded[n - k + j] /\ newest[i] = recorded[from + i - 1]
    BY <1>3, <1>6, <2>1, <2>2
  <2> QED BY <2>2, <2>3
<1>9. Range(newest) \subseteq Range(runStore)
  BY <1>7, <1>8
<1> QED BY <1>9 DEF RecentRunsAreKept, newest, from, recent

-----------------------------------------------------------------------------
(* The invariant, and what it says to the outside. *)

LEMMA AInvInit == AgentInit => AInv
<1> SUFFICES ASSUME AgentInit PROVE AInv
  OBVIOUS
<1> DEFINE r == [pc |-> "plan", files |-> {}, rev |-> 0, attempt |-> 0, hash |-> 0, old |-> 0,
                 accepted |-> FALSE, tries |-> 0]
<1>1. r \in AgentRun
  BY RetriesAssumption DEF AgentRun
<1>2. r.pc = "plan" /\ r.rev = 0 /\ r.attempt = 0 /\ r.hash = 0 /\ r.accepted = FALSE /\ r.files = {}
  OBVIOUS
<1>3. run = [a \in Agents |-> r]
  BY DEF AgentInit
<1> HIDE DEF r
<1>4. RunsAreConsistent
  BY <1>1, <1>2, <1>3 DEF RunsAreConsistent, RunIsConsistent, Settled, GitSteps
<1>5. /\ worktree = [p \in Paths |-> Nothing] /\ index = worktree /\ commits = <<>> /\ repoState = 0
      /\ runStore = <<>> /\ recorded = <<>> /\ writers = [p \in Paths |-> {}]
  BY DEF AgentInit
<1>6. TreeTypes /\ Len(commits) = 0
  BY <1>5, EmptySeq DEF TreeTypes, Trees
<1>7. TreesAreCleared /\ SettledIsCleared /\ WritersHaveTested
  BY <1>2, <1>3, <1>5, <1>6 DEF TreesAreCleared, SettledIsCleared, WritersHaveTested, Settled, GitSteps
<1>8. TreeHoldsTheWork /\ IndexHoldsTheWork /\ HeadHoldsTheWork /\ HashesAreCommits /\ ReportedHashHoldsTheWork
  BY <1>2, <1>3, <1>5, <1>6 DEF TreeHoldsTheWork, IndexHoldsTheWork, HeadHoldsTheWork, HashesAreCommits,
     ReportedHashHoldsTheWork
<1>9. LedgerInv
  BY <1>2, <1>3, <1>5, <1>6 DEF LedgerInv, AcceptedUpdatesCount, Agents
<1>10. StoreInv
  BY <1>5, EmptySeq, HalfOfCapacity DEF StoreInv
<1> QED BY <1>4, <1>6, <1>7, <1>8, <1>9, <1>10 DEF AInv, TreeInv

LEMMA TreeStep ==
  ASSUME AInv, NEW a \in Agents, AgentStep(a) \/ WorkerCrash(a)
  PROVE  TreeInv'
<1>1. TreeInv /\ LedgerInv
  BY DEF AInv
<1>2. CASE Plan(a)
  BY <1>1, <1>2, PlanMoves
<1>3. CASE Generate(a)
  BY <1>1, <1>3, GenerateKeeps
<1>4. CASE TestInSandbox(a)
  BY <1>1, <1>4, TestKeeps
<1>5. CASE FixErrors(a)
  BY <1>1, <1>5, FixKeeps
<1>6. CASE CallFails(a) \/ PublishFails(a)
  BY <1>1, <1>6, RaiseMoves DEF CallFails, PublishFails
<1>7. CASE RefuseCommit(a) \/ GitFails(a)
  BY <1>1, <1>7, RefusalMoves DEF RefuseCommit, GitFails, GitSteps
<1>8. CASE WriteFiles(a)
  BY <1>1, <1>8, WriteKeeps
<1>9. CASE GitAdd(a)
  BY <1>1, <1>9, AddKeeps
<1>10. CASE GitCommit(a)
  BY <1>1, <1>10, CommitKeeps
<1>11. CASE RevParse(a)
  BY <1>1, <1>11, RevParseKeeps
<1>12. CASE PublishRunCompleted(a) \/ ExecuteReturns(a) \/ WorldStateFails(a)
  BY <1>1, <1>12, EndingMoves
<1>13. CASE ReadWorldState(a)
  BY <1>1, <1>13, ReadMoves
<1>14. CASE CommitProposal(a)
  BY <1>1, <1>14, ProposalMoves
<1>15. CASE WorkerCrash(a)
  BY <1>1, <1>15, CrashMoves
<1> QED BY <1>2, <1>3, <1>4, <1>5, <1>6, <1>7, <1>8, <1>9, <1>10, <1>11, <1>12, <1>13, <1>14, <1>15 DEF AgentStep

LEMMA AInvNext == AInv /\ [RepositoryNext(Agents) \/ RunStoreNext]_agentVars => AInv'
<1> SUFFICES ASSUME AInv, [RepositoryNext(Agents) \/ RunStoreNext]_agentVars PROVE AInv'
  OBVIOUS
<1>1. ASSUME NEW a \in Agents, AgentStep(a) \/ WorkerCrash(a) PROVE AInv'
  <2>1. TreeInv'
    BY <1>1, TreeStep
  <2>2. LedgerInv'
    BY <1>1, LedgerKeptByAgent, LedgerKeptByUpdate DEF AInv
  <2>3. StoreInv'
    BY <1>1, StoreKept DEF AInv
  <2> QED BY <2>1, <2>2, <2>3 DEF AInv
<1>2. CASE RunStoreNext
  <2>1. UNCHANGED <<run, repoVars, repoState, cleared>> /\ RecordRun(Len(recorded))
    BY <1>2 DEF RunStoreNext, ExecuteAnother
  <2>2. Len(recorded) \in Nat
    BY LenProperties DEF AInv, StoreInv
  <2>3. StoreInv'
    BY <2>1, <2>2, RecordKeepsStore DEF AInv
  <2>4. TreeInv' /\ LedgerInv'
    BY <2>1 DEF AInv, TreeInv, LedgerInv, repoVars, RunsAreConsistent, TreeTypes, Trees, SettledIsCleared, Content,
       TreesAreCleared, WritersHaveTested, TreeHoldsTheWork, IndexHoldsTheWork, HeadHoldsTheWork, HashesAreCommits,
       ReportedHashHoldsTheWork, AcceptedUpdatesCount
  <2> QED BY <2>3, <2>4 DEF AInv
<1>3. CASE UNCHANGED agentVars
  BY <1>3 DEF agentVars, AInv, TreeInv, LedgerInv, StoreInv, RunsAreConsistent, TreeTypes, Trees, SettledIsCleared, Content,
     TreesAreCleared, WritersHaveTested, TreeHoldsTheWork, IndexHoldsTheWork, HeadHoldsTheWork, HashesAreCommits,
     ReportedHashHoldsTheWork, AcceptedUpdatesCount
<1> QED BY <1>1, <1>2, <1>3 DEF RepositoryNext

LEMMA AInvSays == AInv => WorkIsKept
<1> SUFFICES ASSUME AInv PROVE WorkIsKept
  OBVIOUS
<1>1. commits \in Seq(Trees) /\ worktree \in Trees /\ index \in Trees
  BY DEF AInv, TreeInv, TreeTypes
<1>2. Range(commits) = {commits[i] : i \in 1 .. Len(commits)} /\ Range(commits) \subseteq Trees
  BY <1>1, RangeEquality, RangeOfSeq
<1>3. AgentTypeOK
  BY <1>1, <1>2 DEF AInv, TreeInv, RunsAreConsistent, LedgerInv, StoreInv, AgentTypeOK
<1>4. CommittedWasCleared
  BY <1>2 DEF AInv, TreeInv, TreesAreCleared, CommittedWasCleared
<1>5. RecentRunsAreKept
  BY StoreHoldsTheRecent DEF AInv
<1> QED BY <1>3, <1>4, <1>5 DEF AInv, TreeInv, LedgerInv, WorkIsKept

-----------------------------------------------------------------------------
\* Whatever agents interleave in the repository, however often their commits are
\* retried and their workers crash, what is committed is a revision the sandbox answered for and
\* that showed its agent no failure (no exit code to a workflow, no output of a failing command
\* to a loop; no claim that a command ran), a reported hash holds the work it is reported for, the ledger's hash is a workflow's,
\* and the newer runs are found (GitCommitter.commit, update_world_state, _run_store).
THEOREM DeliveryIsKept == AgentSpec => []WorkIsKept
<1>1. AInv => WorkIsKept
  BY AInvSays
<1> QED BY AInvInit, AInvNext, <1>1, PTL DEF AgentSpec

-----------------------------------------------------------------------------
(* The agent bus: what is acknowledged was handled, what is counted is stored. *)

StoredMessages == [type : MessageTypes, valid : BOOLEAN]

\* The positions of s that are counted but for those in u, under one type and in all.
CountedOfType(s, u, t) == {i \in DOMAIN s : s[i].type = t /\ s[i].valid /\ i \notin u}
CountedOfAny(s, u) == {i \in DOMAIN s : s[i].valid /\ i \notin u}

Calls == {NoCall} \cup [at : {"publishing", "asking"}, type : MessageTypes]

\* The counters, for a finite list of subscriptions; only a message that is
\* there can be one whose publisher got no answer.
CountersInv ==
    /\ stream \in Seq(StoredMessages) /\ replied \in Nat
    /\ unsure \subseteq 1 .. Len(stream) /\ rpcs \subseteq 1 .. Len(stream)
    /\ busStats \in [published : Nat, received : Nat, active : Nat, byType : [MessageTypes -> Nat]]
    /\ subscriptions \subseteq Listeners /\ IsFiniteSet(subscriptions)
    /\ busStats.active = Cardinality(subscriptions)
    /\ connection \in {"down", "up", "closing"}
    /\ busCall \in [BusCalls -> Calls]
    /\ StatsMatchTheStream

\* A callback handles a message that could be read, and acknowledges it after
\* its handler returned from it.
ListenersInv ==
    /\ listener \in [Listeners -> [at : {"none", "subscribing", "idle", "handling", "acking"},
                                   queue : Seq(1 .. Len(stream)), message : 0 .. Len(stream)]]
    /\ acks \in [Consumers -> SUBSET (1 .. Len(stream))] /\ returned \in [Consumers -> SUBSET Nat]
    /\ sent \in [Consumers -> SUBSET (1 .. Len(stream))]
    /\ AckedIsHandled
    /\ \A l \in Listeners :
        /\ listener[l].at \in {"handling", "acking"} =>
              listener[l].message # 0 /\ stream[listener[l].message].valid
        /\ listener[l].at = "acking" => listener[l].message \in returned[Consumer(l)]

BInv == CountersInv /\ ListenersInv

LEMMA CountsAreFinite ==
  ASSUME NEW s \in Seq(StoredMessages), NEW u, NEW t
  PROVE  IsFiniteSet(CountedOfType(s, u, t)) /\ IsFiniteSet(CountedOfAny(s, u))
<1>1. Len(s) \in Nat /\ DOMAIN s = 1 .. Len(s)
  BY LenProperties
<1>2. IsFiniteSet(1 .. Len(s))
  BY <1>1, FS_Interval
<1> QED BY <1>1, <1>2, FS_Subset DEF CountedOfType, CountedOfAny

\* A message that is stored and can be read adds one to a count, unless its publisher
\* is unsure.
OneMoreCounted(s, m, u, t) ==
    /\ Len(s) + 1 \notin CountedOfType(s, u, t) /\ Len(s) + 1 \notin CountedOfAny(s, u)
    /\ CountedOfType(Append(s, m), u \cup {Len(s) + 1}, t) = CountedOfType(s, u, t)
    /\ CountedOfAny(Append(s, m), u \cup {Len(s) + 1}) = CountedOfAny(s, u)
    /\ m.type = t => CountedOfType(Append(s, m), u, t) = CountedOfType(s, u, t) \cup {Len(s) + 1}
    /\ m.type # t => CountedOfType(Append(s, m), u, t) = CountedOfType(s, u, t)
    /\ CountedOfAny(Append(s, m), u) = CountedOfAny(s, u) \cup {Len(s) + 1}

LEMMA CountsAfterAppend ==
  ASSUME NEW s \in Seq(StoredMessages), NEW m \in StoredMessages, m.valid, NEW u \in SUBSET (1 .. Len(s)), NEW t
  PROVE  OneMoreCounted(s, m, u, t)
<1> DEFINE n == Len(s) + 1
           longer == Append(s, m)
<1>1. Len(s) \in Nat /\ DOMAIN s = 1 .. Len(s)
  BY LenProperties
<1>2. /\ longer \in Seq(StoredMessages) /\ Len(longer) = n /\ longer[n] = m
      /\ \A i \in 1 .. Len(s) : longer[i] = s[i]
  BY AppendProperties
<1>3. DOMAIN longer = 1 .. n
  BY <1>2, LenProperties
<1> HIDE DEF longer
<1>6. 1 .. n = (1 .. Len(s)) \cup {n} /\ n \notin 1 .. Len(s)
  BY <1>1
<1> HIDE DEF n
<1>7. n \notin CountedOfType(s, u, t) /\ n \notin CountedOfAny(s, u)
  BY <1>1, <1>6 DEF CountedOfType, CountedOfAny
<1>8. CountedOfType(longer, u \cup {n}, t) = CountedOfType(s, u, t)
  BY <1>1, <1>2, <1>3, <1>6 DEF CountedOfType
<1>9. CountedOfAny(longer, u \cup {n}) = CountedOfAny(s, u)
  BY <1>1, <1>2, <1>3, <1>6 DEF CountedOfAny
<1>10. /\ m.type = t => CountedOfType(longer, u, t) = CountedOfType(s, u, t) \cup {n}
       /\ m.type # t => CountedOfType(longer, u, t) = CountedOfType(s, u, t)
  BY <1>1, <1>2, <1>3, <1>6 DEF CountedOfType
<1>11. CountedOfAny(longer, u) = CountedOfAny(s, u) \cup {n}
  BY <1>1, <1>2, <1>3, <1>6 DEF CountedOfAny
<1> QED BY <1>7, <1>8, <1>9, <1>10, <1>11 DEF n, longer, OneMoreCounted

LEMMA UnreadableIsNotCounted ==
  ASSUME NEW s \in Seq(StoredMessages), NEW m \in StoredMessages, ~ m.valid, NEW u, NEW t
  PROVE  /\ CountedOfType(Append(s, m), u, t) = CountedOfType(s, u, t)
         /\ CountedOfAny(Append(s, m), u) = CountedOfAny(s, u)
<1> DEFINE n == Len(s) + 1
           longer == Append(s, m)
<1>1. Len(s) \in Nat /\ DOMAIN s = 1 .. Len(s)
  BY LenProperties
<1>2. /\ longer \in Seq(StoredMessages) /\ Len(longer) = n /\ longer[n] = m
      /\ \A i \in 1 .. Len(s) : longer[i] = s[i]
  BY AppendProperties
<1>3. DOMAIN longer = 1 .. n
  BY <1>2, LenProperties
<1>4. 1 .. n = (1 .. Len(s)) \cup {n} /\ n \notin 1 .. Len(s)
  BY <1>1
<1> HIDE DEF longer, n
<1>5. CountedOfType(longer, u, t) = CountedOfType(s, u, t)
  BY <1>1, <1>2, <1>3, <1>4 DEF CountedOfType
<1>6. CountedOfAny(longer, u) = CountedOfAny(s, u)
  BY <1>1, <1>2, <1>3, <1>4 DEF CountedOfAny
<1> QED BY <1>5, <1>6 DEF longer

LEMMA StatsAreCounts ==
  StatsMatchTheStream <=>
    /\ \A type \in MessageTypes : busStats.byType[type] = Cardinality(CountedOfType(stream, unsure \cup rpcs, type))
    /\ busStats.published = replied + Cardinality(CountedOfAny(stream, unsure))
<1> DEFINE settled == {i \in DOMAIN stream : stream[i].valid /\ i \notin unsure}
<1>1. settled = CountedOfAny(stream, unsure)
  BY DEF CountedOfAny
<1>2. ASSUME NEW type
      PROVE  {i \in settled \ rpcs : stream[i].type = type} = CountedOfType(stream, unsure \cup rpcs, type)
  BY DEF CountedOfType
<1>3. StatsMatchTheStream <=>
        /\ \A type \in MessageTypes : busStats.byType[type] = Cardinality({i \in settled \ rpcs : stream[i].type = type})
        /\ busStats.published = replied + Cardinality(settled)
  BY DEF StatsMatchTheStream
<1> QED BY <1>1, <1>2, <1>3

\* What leaves the stream and the counters of messages alone.
LEMMA CountsUntouched ==
  ASSUME StatsMatchTheStream, UNCHANGED <<stream, unsure, rpcs, replied>>,
         busStats'.published = busStats.published, busStats'.byType = busStats.byType
  PROVE  StatsMatchTheStream'
BY DEF StatsMatchTheStream

LEMMA StatsAreCountsNext ==
  ASSUME \A type \in MessageTypes : busStats'.byType[type] = Cardinality(CountedOfType(stream', unsure' \cup rpcs', type)),
         busStats'.published = replied' + Cardinality(CountedOfAny(stream', unsure'))
  PROVE  StatsMatchTheStream'
<1> DEFINE settled == {i \in DOMAIN stream' : stream'[i].valid /\ i \notin unsure'}
<1>1. settled = CountedOfAny(stream', unsure')
  BY DEF CountedOfAny
<1>2. ASSUME NEW type
      PROVE  {i \in settled \ rpcs' : stream'[i].type = type} = CountedOfType(stream', unsure' \cup rpcs', type)
  BY DEF CountedOfType
<1>3. StatsMatchTheStream' <=>
        /\ \A type \in MessageTypes : busStats'.byType[type] = Cardinality({i \in settled \ rpcs' : stream'[i].type = type})
        /\ busStats'.published = replied' + Cardinality(settled)
  BY DEF StatsMatchTheStream
<1> QED BY <1>1, <1>2, <1>3

LEMMA StrangerKeepsCounters == ASSUME CountersInv, StrangerPublishes PROVE CountersInv'
<1>1. PICK type \in MessageTypes : stream' = Append(stream, [type |-> type, valid |-> FALSE])
  BY DEF StrangerPublishes, Stored
<1> DEFINE m == [type |-> type, valid |-> FALSE]
<1>2. stream \in Seq(StoredMessages) /\ m \in StoredMessages /\ ~ m.valid
  BY DEF CountersInv, StoredMessages
<1> HIDE DEF m
<1>3. stream' = Append(stream, m) /\ UNCHANGED <<busStats, unsure, rpcs, replied, connection, subscriptions, busCall>>
  BY <1>1 DEF m, StrangerPublishes, callerState
<1>4. Len(stream') = Len(stream) + 1 /\ stream' \in Seq(StoredMessages) /\ Len(stream) \in Nat
  BY <1>2, <1>3, AppendProperties, LenProperties
<1>5. ASSUME NEW t, NEW u
      PROVE  /\ CountedOfType(stream', u, t) = CountedOfType(stream, u, t)
             /\ CountedOfAny(stream', u) = CountedOfAny(stream, u)
  BY <1>2, <1>3, UnreadableIsNotCounted
<1>6. StatsMatchTheStream'
  <2>1. \A type_1 \in MessageTypes :
          busStats'.byType[type_1] = Cardinality(CountedOfType(stream', unsure' \cup rpcs', type_1))
    BY <1>3, <1>5, StatsAreCounts DEF CountersInv
  <2>2. busStats'.published = replied' + Cardinality(CountedOfAny(stream', unsure'))
    BY <1>3, <1>5, StatsAreCounts DEF CountersInv
  <2> QED BY <2>1, <2>2, StatsAreCountsNext
<1> QED BY <1>2, <1>3, <1>4, <1>6 DEF CountersInv

\* One message more that can be read: it counts in all if its sender knows of it, and under its
\* type if it is no request besides.
LEMMA StoringKeepsCounts ==
  ASSUME CountersInv, NEW m \in StoredMessages, m.valid, m.type \in MessageTypes, stream' = Append(stream, m),
         NEW sure \in BOOLEAN, NEW request \in BOOLEAN, replied' = replied,
         unsure' = IF sure THEN unsure ELSE unsure \cup {Len(stream) + 1},
         rpcs' = IF request THEN rpcs \cup {Len(stream) + 1} ELSE rpcs,
         busStats'.published = IF sure THEN busStats.published + 1 ELSE busStats.published,
         busStats'.byType = IF sure /\ ~ request THEN [busStats.byType EXCEPT ![m.type] = @ + 1] ELSE busStats.byType
  PROVE  /\ StatsMatchTheStream' /\ stream' \in Seq(StoredMessages)
         /\ unsure' \subseteq 1 .. Len(stream') /\ rpcs' \subseteq 1 .. Len(stream')
<1> DEFINE n == Len(stream) + 1
           before == unsure \cup rpcs
<1>1. /\ stream \in Seq(StoredMessages) /\ unsure \in SUBSET (1 .. Len(stream)) /\ before \in SUBSET (1 .. Len(stream))
      /\ rpcs \in SUBSET (1 .. Len(stream)) /\ replied \in Nat /\ Len(stream) \in Nat
      /\ busStats \in [published : Nat, received : Nat, active : Nat, byType : [MessageTypes -> Nat]]
  BY LenProperties DEF CountersInv
<1>2. stream' \in Seq(StoredMessages) /\ Len(stream') = n
  BY <1>1, AppendProperties
<1>3. unsure' \subseteq 1 .. Len(stream') /\ rpcs' \subseteq 1 .. Len(stream')
  <2>1. 1 .. Len(stream') = (1 .. Len(stream)) \cup {Len(stream) + 1}
    BY <1>1, <1>2
  <2> QED BY <1>1, <2>1
<1>4. /\ \A t \in MessageTypes : busStats.byType[t] = Cardinality(CountedOfType(stream, before, t))
      /\ busStats.published = replied + Cardinality(CountedOfAny(stream, unsure))
  BY StatsAreCounts DEF CountersInv
<1>5. unsure' \cup rpcs' = IF sure /\ ~ request THEN before ELSE before \cup {n}
  OBVIOUS
<1> HIDE DEF n, before
<1>6. ASSUME NEW t
      PROVE  OneMoreCounted(stream, m, before, t) /\ OneMoreCounted(stream, m, unsure, t)
  BY <1>1, CountsAfterAppend
<1>7. ASSUME NEW t, NEW u
      PROVE  IsFiniteSet(CountedOfType(stream, u, t)) /\ IsFiniteSet(CountedOfAny(stream, u))
  BY <1>1, CountsAreFinite
<1>8. ASSUME NEW t \in MessageTypes
      PROVE  busStats'.byType[t] = Cardinality(CountedOfType(stream', unsure' \cup rpcs', t))
  <2> DEFINE counted == CountedOfType(stream, before, t)
  <2>1. IsFiniteSet(counted) /\ n \notin counted /\ busStats.byType[t] = Cardinality(counted)
    BY <1>4, <1>6, <1>7 DEF OneMoreCounted, n
  <2>2. CASE sure /\ ~ request /\ m.type = t
    <3>1. CountedOfType(stream', unsure' \cup rpcs', t) = counted \cup {n}
      BY <1>5, <1>6, <2>2 DEF OneMoreCounted, n
    <3>2. Cardinality(counted \cup {n}) = Cardinality(counted) + 1
      BY <2>1, FS_AddElement
    <3>3. busStats'.byType[t] = busStats.byType[t] + 1
      BY <1>1, <2>2
    <3> QED BY <2>1, <3>1, <3>2, <3>3
  <2>3. CASE ~ (sure /\ ~ request /\ m.type = t)
    <3>1. CountedOfType(stream', unsure' \cup rpcs', t) = counted
      BY <1>5, <1>6, <2>3 DEF OneMoreCounted, n
    <3>2. busStats'.byType[t] = busStats.byType[t]
      BY <1>1, <2>3
    <3> QED BY <2>1, <3>1, <3>2
  <2> QED BY <2>2, <2>3
<1>9. busStats'.published = replied' + Cardinality(CountedOfAny(stream', unsure'))
  <2> DEFINE counted == CountedOfAny(stream, unsure)
  <2>1. IsFiniteSet(counted) /\ n \notin counted /\ Cardinality(counted) \in Nat
    BY <1>6, <1>7, FS_CardinalityType DEF OneMoreCounted, n
  <2>2. CASE sure
    <3>1. CountedOfAny(stream', unsure') = counted \cup {n}
      BY <1>6, <2>2 DEF OneMoreCounted, n
    <3>2. Cardinality(counted \cup {n}) = Cardinality(counted) + 1
      BY <2>1, FS_AddElement
    <3>3. busStats'.published = busStats.published + 1
      BY <2>2
    <3> HIDE DEF counted
    <3>4. busStats.published = replied + Cardinality(counted)
      BY <1>4 DEF counted
    <3>5. replied \in Nat /\ Cardinality(counted) \in Nat
      BY <1>1, <2>1
    <3>6. busStats'.published = replied + (Cardinality(counted) + 1)
      BY <3>3, <3>4, <3>5
    <3> QED BY <3>1, <3>2, <3>6
  <2>3. CASE ~ sure
    <3>1. CountedOfAny(stream', unsure') = counted
      BY <1>6, <2>3 DEF OneMoreCounted, n
    <3> QED BY <1>4, <2>3, <3>1
  <2> QED BY <2>2, <2>3
<1> QED BY <1>2, <1>3, <1>8, <1>9, StatsAreCountsNext

LEMMA PublishKeepsCounters ==
  ASSUME CountersInv, NEW c \in BusCalls, NEW stored \in BOOLEAN, NEW answered \in BOOLEAN,
         PublishReturns(c, stored, answered)
  PROVE  CountersInv'
<1> DEFINE m == [type |-> busCall[c].type, valid |-> TRUE]
           type == busCall[c].type
           Stats == [published : Nat, received : Nat, active : Nat, byType : [MessageTypes -> Nat]]
<1>1. busCall[c] \in Calls /\ busCall[c].at = "publishing"
  BY DEF CountersInv, PublishReturns
<1>2. type \in MessageTypes
  BY <1>1 DEF Calls, NoCall
<1>3. m \in StoredMessages /\ m.valid /\ m.type = type
  BY <1>2 DEF StoredMessages
<1>4. /\ answered => stored
      /\ stream' = IF stored THEN Append(stream, m) ELSE stream
      /\ busStats' = IF answered THEN [busStats EXCEPT !.published = @ + 1, !.byType[type] = @ + 1] ELSE busStats
      /\ unsure' = IF stored /\ ~answered THEN unsure \cup {Len(stream) + 1} ELSE unsure
      /\ busCall' = [busCall EXCEPT ![c] = NoCall]
      /\ UNCHANGED <<connection, subscriptions, rpcs, replied>>
  BY DEF PublishReturns, Stored, Counted
<1> HIDE DEF m
<1>5. busStats \in Stats
  BY DEF CountersInv
<1>6. /\ busStats' \in Stats /\ busStats'.active = busStats.active
      /\ busStats'.published = IF answered THEN busStats.published + 1 ELSE busStats.published
      /\ busStats'.byType = IF answered THEN [busStats.byType EXCEPT ![m.type] = @ + 1] ELSE busStats.byType
  <2>1. CASE answered
    <3> DEFINE types == [busStats.byType EXCEPT ![type] = busStats.byType[type] + 1]
    <3>1. types \in [MessageTypes -> Nat] /\ busStats.published + 1 \in Nat
      BY <1>2, <1>5
    <3>2. busStats' = [[busStats EXCEPT !.published = busStats.published + 1] EXCEPT !.byType = types]
      BY <1>4, <1>5, <2>1
    <3>3. types = [busStats.byType EXCEPT ![m.type] = @ + 1]
      BY <1>3
    <3> HIDE DEF types
    <3>4. /\ busStats' \in Stats /\ busStats'.active = busStats.active
          /\ busStats'.published = busStats.published + 1 /\ busStats'.byType = types
      BY <1>5, <3>1, <3>2
    <3> QED BY <2>1, <3>3, <3>4
  <2>2. CASE ~ answered
    <3>1. busStats' = busStats
      BY <1>4, <2>2
    <3> QED BY <1>5, <2>2, <3>1
  <2> QED BY <2>1, <2>2
<1>7. /\ StatsMatchTheStream' /\ stream' \in Seq(StoredMessages)
      /\ unsure' \subseteq 1 .. Len(stream') /\ rpcs' \subseteq 1 .. Len(stream')
  <2>1. CASE ~ stored
    <3>1. UNCHANGED <<stream, unsure, rpcs, replied, busStats>>
      BY <1>4, <2>1
    <3> QED BY <3>1, CountsUntouched DEF CountersInv
  <2>2. CASE stored
    <3> DEFINE request == FALSE
    <3>1. /\ stream' = Append(stream, m) /\ replied' = replied /\ m.type \in MessageTypes
          /\ unsure' = IF answered THEN unsure ELSE unsure \cup {Len(stream) + 1}
          /\ rpcs' = IF request THEN rpcs \cup {Len(stream) + 1} ELSE rpcs
      BY <1>2, <1>3, <1>4, <2>2
    <3>2. busStats'.byType = IF answered /\ ~ request THEN [busStats.byType EXCEPT ![m.type] = @ + 1] ELSE busStats.byType
      BY <1>6
    <3>3. request \in BOOLEAN
      OBVIOUS
    <3> HIDE DEF request
    <3> QED BY <1>3, <1>6, <3>1, <3>2, <3>3, StoringKeepsCounts
  <2> QED BY <2>1, <2>2
<1>8. busCall' \in [BusCalls -> Calls]
  BY <1>4 DEF CountersInv, Calls
<1> QED BY <1>4, <1>6, <1>7, <1>8 DEF CountersInv

LEMMA RequestKeepsCounters ==
  ASSUME CountersInv, NEW c \in BusCalls, NEW stored \in BOOLEAN, NEW reply, RequestReturns(c, stored, reply)
  PROVE  CountersInv'
<1> DEFINE m == [type |-> busCall[c].type, valid |-> TRUE]
           answered == reply # "timeout"
           Stats == [published : Nat, received : Nat, active : Nat, byType : [MessageTypes -> Nat]]
<1>1. /\ busStats \in Stats /\ replied \in Nat /\ busCall \in [BusCalls -> Calls] /\ busCall[c].at = "asking"
  BY DEF CountersInv, RequestReturns
<1>2. m \in StoredMessages /\ m.valid /\ m.type \in MessageTypes
  <2>1. busCall[c] \in Calls
    BY <1>1
  <2>2. busCall[c].type \in MessageTypes
    BY <1>1, <2>1 DEF Calls, NoCall
  <2> QED BY <2>2 DEF StoredMessages
<1>3. /\ stream' = IF stored THEN Append(stream, m) ELSE stream
      /\ rpcs' = IF stored THEN rpcs \cup {Len(stream) + 1} ELSE rpcs
      /\ unsure' = IF stored /\ ~answered THEN unsure \cup {Len(stream) + 1} ELSE unsure
      /\ replied' = IF answered /\ ~stored THEN replied + 1 ELSE replied
      /\ busCall' = [busCall EXCEPT ![c] = NoCall]
      /\ UNCHANGED <<connection, subscriptions>>
  BY DEF RequestReturns, Stored
<1>4. /\ busStats' \in Stats /\ busStats'.active = busStats.active /\ busStats'.byType = busStats.byType
      /\ busStats'.published = IF answered THEN busStats.published + 1 ELSE busStats.published
  <2>1. PICK published, received :
          /\ busStats' = [[busStats EXCEPT !.published = published] EXCEPT !.received = received]
          /\ published = IF reply = "timeout" THEN busStats.published ELSE busStats.published + 1
          /\ received \in {busStats.received, busStats.received + 1}
    <3>1. CASE reply = "timeout"
      <4>1. busStats' = [[busStats EXCEPT !.published = busStats.published] EXCEPT !.received = busStats.received]
        BY <1>1, <3>1 DEF RequestReturns, AnswerCounted
      <4> QED BY <3>1, <4>1
    <3>2. CASE reply # "timeout"
      <4> DEFINE received == IF reply = "valid" THEN busStats.received + 1 ELSE busStats.received
      <4>1. busStats' = [[busStats EXCEPT !.published = busStats.published + 1] EXCEPT !.received = received]
        BY <1>1, <3>2 DEF RequestReturns, AnswerCounted
      <4>2. received \in {busStats.received, busStats.received + 1}
        OBVIOUS
      <4> HIDE DEF received
      <4> QED BY <3>2, <4>1, <4>2
    <3> QED BY <3>1, <3>2
  <2>2. published \in Nat /\ received \in Nat
    BY <1>1, <2>1
  <2> QED BY <1>1, <2>1, <2>2
<1> HIDE DEF m
<1>5. /\ StatsMatchTheStream' /\ stream' \in Seq(StoredMessages)
      /\ unsure' \subseteq 1 .. Len(stream') /\ rpcs' \subseteq 1 .. Len(stream')
  <2>1. CASE stored
    <3>1. /\ stream' = Append(stream, m) /\ replied' = replied
          /\ unsure' = IF answered THEN unsure ELSE unsure \cup {Len(stream) + 1}
          /\ rpcs' = IF stored THEN rpcs \cup {Len(stream) + 1} ELSE rpcs
          /\ busStats'.byType = IF answered /\ ~ stored THEN [busStats.byType EXCEPT ![m.type] = @ + 1] ELSE busStats.byType
      BY <1>3, <1>4, <2>1
    <3>2. answered \in BOOLEAN
      OBVIOUS
    <3> HIDE DEF answered
    <3> QED BY <1>2, <1>4, <3>1, <3>2, StoringKeepsCounts
  <2>2. CASE ~ stored
    <3>1. UNCHANGED <<stream, unsure, rpcs>>
      BY <1>3, <2>2
    <3>2. busStats'.published = replied' + Cardinality(CountedOfAny(stream', unsure'))
      <4>1. busStats.published = replied + Cardinality(CountedOfAny(stream, unsure))
        BY StatsAreCounts DEF CountersInv
      <4>2. Cardinality(CountedOfAny(stream, unsure)) \in Nat
        BY CountsAreFinite, FS_CardinalityType DEF CountersInv
      <4> QED BY <1>1, <1>3, <1>4, <2>2, <3>1, <4>1, <4>2
    <3>3. \A t \in MessageTypes : busStats'.byType[t] = Cardinality(CountedOfType(stream', unsure' \cup rpcs', t))
      BY <1>4, <3>1, StatsAreCounts DEF CountersInv
    <3>4. StatsMatchTheStream'
      BY <3>2, <3>3, StatsAreCountsNext
    <3> QED BY <3>1, <3>4 DEF CountersInv
  <2> QED BY <2>1, <2>2
<1>6. busCall' \in [BusCalls -> Calls] /\ replied' \in Nat
  BY <1>1, <1>3 DEF Calls
<1> QED BY <1>3, <1>4, <1>5, <1>6 DEF CountersInv

\* The steps that do not touch what is counted.
LEMMA OthersKeepCounters ==
  ASSUME CountersInv, UNCHANGED <<stream, unsure, rpcs, replied, busStats, subscriptions>>,
         connection' \in {"down", "up", "closing"}, busCall' \in [BusCalls -> Calls]
  PROVE  CountersInv'
<1>1. StatsMatchTheStream'
  BY CountsUntouched DEF CountersInv
<1> QED BY <1>1 DEF CountersInv

LEMMA CallbackKeepsCounters == ASSUME CountersInv, NEW l \in Listeners, Callback(l) PROVE CountersInv'
<1>1. /\ busStats \in [published : Nat, received : Nat, active : Nat, byType : [MessageTypes -> Nat]]
      /\ UNCHANGED <<connection, stream, subscriptions, unsure, rpcs, replied, busCall>>
  BY DEF CountersInv, Callback, callerState
<1>2. busStats' = [busStats EXCEPT !.received = busStats.received + 1] \/ busStats' = busStats
  BY DEF Callback
<1>3. /\ busStats' \in [published : Nat, received : Nat, active : Nat, byType : [MessageTypes -> Nat]]
      /\ busStats'.published = busStats.published /\ busStats'.byType = busStats.byType
      /\ busStats'.active = busStats.active
  BY <1>1, <1>2
<1>4. StatsMatchTheStream'
  BY <1>1, <1>3, CountsUntouched DEF CountersInv
<1> QED BY <1>1, <1>3, <1>4 DEF CountersInv

LEMMA SubscribeKeepsCounters ==
  ASSUME CountersInv, NEW l \in Listeners, SubscribeReturns(l)
  PROVE  CountersInv'
<1>1. /\ busStats \in [published : Nat, received : Nat, active : Nat, byType : [MessageTypes -> Nat]]
      /\ UNCHANGED <<connection, stream, unsure, rpcs, replied, busCall>>
      /\ subscriptions' = subscriptions \cup {l} /\ IsFiniteSet(subscriptions) /\ subscriptions \subseteq Listeners
      /\ busStats' = [busStats EXCEPT !.active = Cardinality(subscriptions')]
  BY DEF CountersInv, SubscribeReturns, callerState
<1>2. IsFiniteSet(subscriptions') /\ Cardinality(subscriptions') \in Nat
  <2>1. IsFiniteSet(subscriptions \cup {l})
    BY <1>1, FS_AddElement
  <2> QED BY <1>1, <2>1, FS_CardinalityType
<1>3. /\ busStats' \in [published : Nat, received : Nat, active : Nat, byType : [MessageTypes -> Nat]]
      /\ busStats'.published = busStats.published /\ busStats'.byType = busStats.byType
      /\ busStats'.active = Cardinality(subscriptions')
  BY <1>1, <1>2
<1>4. StatsMatchTheStream'
  BY <1>1, <1>3, CountsUntouched DEF CountersInv
<1> QED BY <1>1, <1>2, <1>3, <1>4 DEF CountersInv

LEMMA CloseKeepsCounters == ASSUME CountersInv, BeginClose PROVE CountersInv'
<1>1. /\ busStats \in [published : Nat, received : Nat, active : Nat, byType : [MessageTypes -> Nat]]
      /\ UNCHANGED <<stream, unsure, rpcs, replied, busCall>> /\ connection' = "closing" /\ subscriptions' = {}
      /\ busStats' = [busStats EXCEPT !.active = 0]
  BY DEF CountersInv, BeginClose, NoneActive, callerState
<1>2. IsFiniteSet(subscriptions') /\ Cardinality(subscriptions') = 0
  BY <1>1, FS_EmptySet
<1>3. /\ busStats' \in [published : Nat, received : Nat, active : Nat, byType : [MessageTypes -> Nat]]
      /\ busStats'.published = busStats.published /\ busStats'.byType = busStats.byType
      /\ busStats'.active = 0
  BY <1>1
<1>4. StatsMatchTheStream'
  BY <1>1, <1>3, CountsUntouched DEF CountersInv
<1> QED BY <1>1, <1>2, <1>3, <1>4 DEF CountersInv

LEMMA LongerQueue ==
  ASSUME NEW S, NEW T, S \subseteq T, NEW q \in Seq(S)
  PROVE  q \in Seq(T)
<1>1. Len(q) \in Nat /\ q \in [1 .. Len(q) -> S]
  BY LenProperties
<1> QED BY <1>1

\* A stream that grows keeps its messages where they are.
LEMMA GrowthKeepsListeners ==
  ASSUME CountersInv, ListenersInv, UNCHANGED <<listener, sent, acks, returned>>,
         stream' = stream \/ \E m \in StoredMessages : stream' = Append(stream, m)
  PROVE  ListenersInv'
<1>1. stream \in Seq(StoredMessages) /\ Len(stream) \in Nat
  BY LenProperties DEF CountersInv
<1>2. /\ Len(stream') \in Nat /\ Len(stream) <= Len(stream')
      /\ \A i \in 1 .. Len(stream) : stream'[i] = stream[i]
  <2>1. CASE stream' = stream
    BY <1>1, <2>1
  <2>2. ASSUME NEW m \in StoredMessages, stream' = Append(stream, m)
        PROVE  /\ Len(stream') \in Nat /\ Len(stream) <= Len(stream')
               /\ \A i \in 1 .. Len(stream) : stream'[i] = stream[i]
    <3>1. Len(stream') = Len(stream) + 1 /\ \A i \in 1 .. Len(stream) : stream'[i] = stream[i]
      BY <1>1, <2>2, AppendProperties
    <3> QED BY <1>1, <3>1
  <2> QED BY <2>1, <2>2
<1> DEFINE S == 1 .. Len(stream)
           T == 1 .. Len(stream')
<1>3. S \subseteq T /\ 0 .. Len(stream) \subseteq 0 .. Len(stream')
  BY <1>1, <1>2
<1> DEFINE At == {"none", "subscribing", "idle", "handling", "acking"}
<1>4. listener' \in [Listeners -> [at : At, queue : Seq(T), message : 0 .. Len(stream')]]
  <2>1. listener \in [Listeners -> [at : At, queue : Seq(S), message : 0 .. Len(stream)]]
    BY DEF ListenersInv
  <2> HIDE DEF S, T, At
  <2>2. ASSUME NEW r \in [at : At, queue : Seq(S), message : 0 .. Len(stream)]
        PROVE  r \in [at : At, queue : Seq(T), message : 0 .. Len(stream')]
    <3>1. r.queue \in Seq(T)
      BY <1>3, LongerQueue
    <3> QED BY <1>3, <3>1
  <2> QED BY <2>1, <2>2
<1>5. acks' \in [Consumers -> SUBSET T] /\ sent' \in [Consumers -> SUBSET T] /\ returned' \in [Consumers -> SUBSET Nat]
  BY <1>3 DEF ListenersInv
<1>6. AckedIsHandled'
  BY <1>2 DEF ListenersInv, AckedIsHandled
<1>7. \A l \in Listeners :
        /\ listener'[l].at \in {"handling", "acking"} =>
              listener'[l].message # 0 /\ stream'[listener'[l].message].valid
        /\ listener'[l].at = "acking" => listener'[l].message \in returned'[Consumer(l)]
  <2> TAKE l \in Listeners
  <2>1. listener'[l].at \in {"handling", "acking"} => listener[l].message \in 1 .. Len(stream)
    BY <1>1 DEF ListenersInv
  <2> QED BY <1>2, <2>1 DEF ListenersInv
<1> QED BY <1>4, <1>5, <1>6, <1>7 DEF ListenersInv

\* A listener's consumer is one, and is only its own if the listener names no queue group.
LEMMA OwnConsumer ==
  ASSUME NEW l \in Listeners
  PROVE  /\ Consumer(l) \in Consumers
         /\ l \notin QueueGroup => \A k \in Listeners : Consumer(k) = Consumer(l) => k = l
BY DEF Consumer, Consumers

\* A step of one subscription: its record is r, and its consumer has acknowledged a, returned from
\* b and been sent e.  Only a consumer of one subscription forgets.
OneSubscriptionMoves(l, r, a, b, e) ==
    /\ UNCHANGED stream /\ listener' = [listener EXCEPT ![l] = r]
    /\ r \in [at : {"none", "subscribing", "idle", "handling", "acking"},
              queue : Seq(1 .. Len(stream)), message : 0 .. Len(stream)]
    /\ a \in SUBSET (1 .. Len(stream)) /\ acks' = [acks EXCEPT ![Consumer(l)] = a]
    /\ b \in SUBSET Nat /\ returned' = [returned EXCEPT ![Consumer(l)] = b]
    /\ e \in SUBSET (1 .. Len(stream)) /\ sent' = [sent EXCEPT ![Consumer(l)] = e]
    /\ returned[Consumer(l)] \subseteq b \/ l \notin QueueGroup
    /\ a \subseteq b /\ \A i \in a : stream[i].valid
    /\ r.at \in {"handling", "acking"} => r.message # 0 /\ stream[r.message].valid
    /\ r.at = "acking" => r.message \in b

\* What its consumer acknowledges was handled and could be read.
LEMMA OneListener ==
  ASSUME ListenersInv, NEW l \in Listeners, NEW r, NEW a, NEW b, NEW e, OneSubscriptionMoves(l, r, a, b, e)
  PROVE  ListenersInv'
<1>1. /\ listener' \in [Listeners -> [at : {"none", "subscribing", "idle", "handling", "acking"},
                                      queue : Seq(1 .. Len(stream)), message : 0 .. Len(stream)]]
      /\ acks' \in [Consumers -> SUBSET (1 .. Len(stream))] /\ returned' \in [Consumers -> SUBSET Nat]
      /\ sent' \in [Consumers -> SUBSET (1 .. Len(stream))]
  BY DEF ListenersInv, OneSubscriptionMoves
<1>2. /\ \A k \in Listeners : listener'[k] = IF k = l THEN r ELSE listener[k]
      /\ \A d \in Consumers : /\ acks'[d] = IF d = Consumer(l) THEN a ELSE acks[d]
                              /\ returned'[d] = IF d = Consumer(l) THEN b ELSE returned[d]
  BY DEF ListenersInv, OneSubscriptionMoves
<1>3. AckedIsHandled'
  BY <1>2 DEF ListenersInv, AckedIsHandled, OneSubscriptionMoves
<1>4. ASSUME NEW k \in Listeners
      PROVE  /\ listener'[k].at \in {"handling", "acking"} =>
                   listener'[k].message # 0 /\ stream'[listener'[k].message].valid
             /\ listener'[k].at = "acking" => listener'[k].message \in returned'[Consumer(k)]
  <2>1. CASE k = l
    BY <1>2, <2>1, OwnConsumer DEF OneSubscriptionMoves
  <2>2. CASE k # l
    <3>1. returned[Consumer(k)] \subseteq returned'[Consumer(k)]
      <4>1. Consumer(k) \in Consumers
        BY OwnConsumer
      <4>2. CASE Consumer(k) # Consumer(l)
        BY <1>2, <4>1, <4>2
      <4>3. CASE Consumer(k) = Consumer(l)
        <5>1. l \in QueueGroup
          BY <2>2, <4>3, OwnConsumer
        <5> QED BY <1>2, <4>1, <4>3, <5>1 DEF OneSubscriptionMoves
      <4> QED BY <4>2, <4>3
    <3>2. listener'[k] = listener[k]
      BY <1>2, <2>2
    <3>3. /\ listener[k].at \in {"handling", "acking"} =>
                listener[k].message # 0 /\ stream[listener[k].message].valid
          /\ listener[k].at = "acking" => listener[k].message \in returned[Consumer(k)]
      BY DEF ListenersInv
    <3>4. stream' = stream
      BY DEF OneSubscriptionMoves
    <3> QED BY <3>1, <3>2, <3>3, <3>4
  <2> QED BY <2>1, <2>2
<1>5. stream' = stream
  BY DEF OneSubscriptionMoves
<1> QED BY <1>1, <1>3, <1>4, <1>5 DEF ListenersInv

LEMMA OneRecord ==
  ASSUME ListenersInv, UNCHANGED <<stream, sent, acks, returned>>, NEW l \in Listeners,
         NEW r \in [at : {"none", "subscribing", "idle", "handling", "acking"},
                    queue : Seq(1 .. Len(stream)), message : 0 .. Len(stream)],
         listener' = [listener EXCEPT ![l] = r],
         r.at \in {"handling", "acking"} => r.message # 0 /\ stream[r.message].valid,
         r.at = "acking" => r.message \in returned[Consumer(l)]
  PROVE  ListenersInv'
<1>1. /\ acks[Consumer(l)] \in SUBSET (1 .. Len(stream)) /\ returned[Consumer(l)] \in SUBSET Nat
      /\ sent[Consumer(l)] \in SUBSET (1 .. Len(stream)) /\ acks[Consumer(l)] \subseteq returned[Consumer(l)]
      /\ \A i \in acks[Consumer(l)] : stream[i].valid
  BY OwnConsumer DEF ListenersInv, AckedIsHandled
<1>2. /\ acks' = [acks EXCEPT ![Consumer(l)] = acks[Consumer(l)]]
      /\ returned' = [returned EXCEPT ![Consumer(l)] = returned[Consumer(l)]]
      /\ sent' = [sent EXCEPT ![Consumer(l)] = sent[Consumer(l)]]
  BY DEF ListenersInv
<1>3. OneSubscriptionMoves(l, r, acks[Consumer(l)], returned[Consumer(l)], sent[Consumer(l)])
  BY <1>1, <1>2 DEF OneSubscriptionMoves
<1> QED BY <1>3, OneListener

LEMMA IdleRecord ==
  ASSUME NEW A, NEW Q, NEW M, "idle" \in A, 0 \in M, NEW x \in [at : A, queue : Q, message : M]
  PROVE  /\ [x EXCEPT !.at = "idle", !.message = 0] \in [at : A, queue : Q, message : M]
         /\ [x EXCEPT !.at = "idle", !.message = 0].at = "idle"
OBVIOUS

LEMMA BackToIdle ==
  ASSUME ListenersInv, NEW l \in Listeners
  PROVE  [listener EXCEPT ![l].at = "idle", ![l].message = 0] =
         [listener EXCEPT ![l] = [listener[l] EXCEPT !.at = "idle", !.message = 0]]
BY DEF ListenersInv

LEMMA ListenerStepKeepsListeners ==
  ASSUME CountersInv, ListenersInv, NEW l \in Listeners,
         \/ BeginSubscribe(l) \/ SubscribeReturns(l) \/ SubscribeFails(l)
         \/ \E i \in 1 .. MaxBusMessages : JetStreamSends(l, i)
         \/ ListenerStep(l)
  PROVE  ListenersInv'
<1> DEFINE now == listener[l]
           Records == [at : {"none", "subscribing", "idle", "handling", "acking"},
                       queue : Seq(1 .. Len(stream)), message : 0 .. Len(stream)]
<1>1. /\ now \in Records /\ acks[Consumer(l)] \in SUBSET (1 .. Len(stream)) /\ returned[Consumer(l)] \in SUBSET Nat
      /\ sent[Consumer(l)] \in SUBSET (1 .. Len(stream))
  BY OwnConsumer DEF ListenersInv
<1>2. /\ acks[Consumer(l)] \subseteq returned[Consumer(l)] /\ \A i \in acks[Consumer(l)] : stream[i].valid
      /\ now.at \in {"handling", "acking"} => now.message # 0 /\ stream[now.message].valid
      /\ now.at = "acking" => now.message \in returned[Consumer(l)]
  BY OwnConsumer DEF ListenersInv, AckedIsHandled
<1>3. Len(stream) \in Nat /\ DOMAIN stream = 1 .. Len(stream)
  BY LenProperties DEF CountersInv
<1>5. Silent \in Records /\ Silent.at = "none" /\ Silent.queue = <<>> /\ Silent.message = 0
  <2>1. <<>> \in Seq(1 .. Len(stream)) /\ 0 \in 0 .. Len(stream)
    BY <1>3
  <2> QED BY <2>1 DEF Silent
<1> HIDE DEF now
<1>6. CASE BeginSubscribe(l)
  <2> DEFINE r == [Silent EXCEPT !.at = "subscribing"]
  <2>1. listener' = [listener EXCEPT ![l] = r] /\ UNCHANGED <<stream, sent, acks, returned>>
    BY <1>6 DEF BeginSubscribe, consumerState
  <2>2. r \in Records /\ r.at = "subscribing"
    <3>1. r = [at |-> "subscribing", queue |-> Silent.queue, message |-> Silent.message]
      BY DEF Silent
    <3> QED BY <1>5, <3>1
  <2> HIDE DEF r
  <2> QED BY <1>2, <2>1, <2>2, OneRecord
<1>7. CASE SubscribeReturns(l)
  <2> DEFINE r == [now EXCEPT !.at = "idle"]
  <2>1. listener' = [listener EXCEPT ![l] = r] /\ UNCHANGED stream
    <3>1. listener' = [listener EXCEPT ![l].at = "idle"] /\ UNCHANGED stream
      BY <1>7 DEF SubscribeReturns
    <3> QED BY <3>1 DEF now
  <2>2. r \in Records /\ r.at = "idle"
    BY <1>1
  <2> HIDE DEF r
  <2>3. CASE l \in QueueGroup
    <3>1. UNCHANGED <<sent, acks, returned>>
      BY <1>7, <2>3 DEF SubscribeReturns
    <3> QED BY <1>2, <2>1, <2>2, <3>1, OneRecord
  <2>4. CASE l \notin QueueGroup
    <3>1. /\ acks' = [acks EXCEPT ![Consumer(l)] = {}] /\ returned' = [returned EXCEPT ![Consumer(l)] = {}]
          /\ sent' = [sent EXCEPT ![Consumer(l)] = {}]
      BY <1>7, <2>4 DEF SubscribeReturns
    <3>2. {} \in SUBSET (1 .. Len(stream)) /\ {} \in SUBSET Nat
      OBVIOUS
    <3>3. OneSubscriptionMoves(l, r, {}, {}, {})
      BY <2>1, <2>2, <2>4, <3>1, <3>2 DEF OneSubscriptionMoves
    <3> QED BY <3>3, OneListener
  <2> QED BY <2>3, <2>4
<1>8. CASE SubscribeFails(l)
  <2>1. listener' = [listener EXCEPT ![l] = Silent] /\ UNCHANGED <<stream, sent, acks, returned>>
    BY <1>8 DEF SubscribeFails, consumerState
  <2> DEFINE r == Silent
  <2>2. r \in Records /\ r.at = "none" /\ listener' = [listener EXCEPT ![l] = r]
    BY <1>5, <2>1
  <2> HIDE DEF r
  <2> QED BY <1>2, <2>1, <2>2, OneRecord
<1>9. ASSUME NEW i \in 1 .. MaxBusMessages, JetStreamSends(l, i) PROVE ListenersInv'
  <2> DEFINE r == [now EXCEPT !.queue = Append(now.queue, i)]
             e == sent[Consumer(l)] \cup {i}
  <2>1. /\ listener' = [listener EXCEPT ![l] = r] /\ UNCHANGED <<stream, acks, returned>> /\ i \in 1 .. Len(stream)
        /\ sent' = [sent EXCEPT ![Consumer(l)] = e]
    BY <1>3, <1>9 DEF JetStreamSends, now
  <2>2. Append(now.queue, i) \in Seq(1 .. Len(stream))
    BY <1>1, <2>1, AppendProperties
  <2>3. r \in Records /\ r.at = now.at /\ r.message = now.message /\ e \in SUBSET (1 .. Len(stream))
    BY <1>1, <2>1, <2>2
  <2> DEFINE a == acks[Consumer(l)]
             b == returned[Consumer(l)]
  <2>4. /\ acks' = [acks EXCEPT ![Consumer(l)] = a] /\ returned' = [returned EXCEPT ![Consumer(l)] = b]
        /\ a \in SUBSET (1 .. Len(stream)) /\ b \in SUBSET Nat /\ a \subseteq b /\ \A k \in a : stream[k].valid
        /\ returned[Consumer(l)] \subseteq b
    BY <1>1, <1>2, <2>1 DEF ListenersInv
  <2>5. /\ r.at \in {"handling", "acking"} => r.message # 0 /\ stream[r.message].valid
        /\ r.at = "acking" => r.message \in b
    BY <1>2, <2>3
  <2> HIDE DEF r, e, a, b
  <2>6. OneSubscriptionMoves(l, r, a, b, e)
    <3>1. /\ UNCHANGED stream /\ listener' = [listener EXCEPT ![l] = r] /\ r \in Records
          /\ e \in SUBSET (1 .. Len(stream)) /\ sent' = [sent EXCEPT ![Consumer(l)] = e]
      BY <2>1, <2>3
    <3> QED BY <2>4, <2>5, <3>1 DEF OneSubscriptionMoves
  <2> QED BY <2>6, OneListener
<1>10. CASE Callback(l)
  <2>1. /\ now.queue \in Seq(1 .. Len(stream)) /\ now.queue # <<>> /\ now.at = "idle"
        /\ UNCHANGED <<stream, sent, acks, returned>>
    BY <1>1, <1>10 DEF Callback, consumerState, now
  <2> DEFINE i == Head(now.queue)
             rest == Tail(now.queue)
  <2>2. i \in 1 .. Len(stream) /\ rest \in Seq(1 .. Len(stream))
    BY <2>1, HeadTailProperties
  <2>3. CASE stream[i].valid
    <3> DEFINE r == [at |-> "handling", queue |-> rest, message |-> i]
    <3>1. listener' = [listener EXCEPT ![l] = r]
      BY <1>10, <2>3 DEF Callback, now
    <3>2. r \in Records /\ r.at = "handling" /\ r.message = i /\ i # 0
      BY <1>3, <2>2
    <3> HIDE DEF r, i, rest
    <3> QED BY <1>2, <2>1, <2>3, <3>1, <3>2, OneRecord
  <2>4. CASE ~ stream[i].valid
    <3> DEFINE r == [now EXCEPT !.queue = rest]
    <3>1. listener' = [listener EXCEPT ![l] = r]
      BY <1>10, <2>4 DEF Callback, AfterUnreadable, now
    <3>2. r \in Records /\ r.at = "idle"
      BY <1>1, <2>1, <2>2
    <3> HIDE DEF r, i, rest
    <3> QED BY <1>2, <2>1, <3>1, <3>2, OneRecord
  <2> QED BY <2>3, <2>4
<1>11. CASE HandlerReturns(l)
  <2> DEFINE r == [now EXCEPT !.at = "acking"]
             b == returned[Consumer(l)] \cup {now.message}
  <2>1. /\ listener' = [listener EXCEPT ![l] = r] /\ UNCHANGED <<stream, sent, acks>> /\ now.at = "handling"
        /\ returned' = [returned EXCEPT ![Consumer(l)] = b]
    BY <1>11 DEF HandlerReturns, now
  <2>2. r \in Records /\ r.at = "acking" /\ r.message = now.message /\ b \in SUBSET Nat
    BY <1>1, <1>3
  <2>3. acks[Consumer(l)] \subseteq b /\ now.message \in b /\ returned[Consumer(l)] \subseteq b
    BY <1>2
  <2> DEFINE a == acks[Consumer(l)]
             e == sent[Consumer(l)]
  <2>4. /\ acks' = [acks EXCEPT ![Consumer(l)] = a] /\ sent' = [sent EXCEPT ![Consumer(l)] = e]
        /\ a \in SUBSET (1 .. Len(stream)) /\ e \in SUBSET (1 .. Len(stream)) /\ a \subseteq b
        /\ \A k \in a : stream[k].valid
    BY <1>1, <1>2, <2>1, <2>3 DEF ListenersInv
  <2>5. r.message # 0 /\ stream[r.message].valid /\ r.message \in b
    BY <1>2, <2>1, <2>2, <2>3
  <2> HIDE DEF r, b, a, e
  <2>6. OneSubscriptionMoves(l, r, a, b, e)
    BY <2>1, <2>2, <2>3, <2>4, <2>5 DEF OneSubscriptionMoves
  <2> QED BY <2>6, OneListener
<1>12. CASE HandlerRaises(l)
  <2> DEFINE r == [now EXCEPT !.at = "idle", !.message = 0]
  <2>1. listener' = [listener EXCEPT ![l] = r] /\ UNCHANGED <<stream, sent, acks, returned>>
    <3>1. listener' = [listener EXCEPT ![l].at = "idle", ![l].message = 0] /\ UNCHANGED <<stream, sent, acks, returned>>
      BY <1>12 DEF HandlerRaises, AcksAfterFailure
    <3> QED BY <3>1, BackToIdle DEF now
  <2>2. r \in Records /\ r.at = "idle"
    <3>1. 0 \in 0 .. Len(stream)
      BY <1>3
    <3> QED BY <1>1, <3>1, IdleRecord
  <2> HIDE DEF r
  <2> QED BY <1>2, <2>1, <2>2, OneRecord
<1>13. CASE Acks(l)
  <2> DEFINE r == [now EXCEPT !.at = "idle", !.message = 0]
             a == acks[Consumer(l)] \cup {now.message}
  <2>1. /\ listener' = [listener EXCEPT ![l] = r] /\ UNCHANGED <<stream, sent, returned>> /\ now.at = "acking"
        /\ acks' = [acks EXCEPT ![Consumer(l)] = a]
    <3>1. /\ listener' = [listener EXCEPT ![l].at = "idle", ![l].message = 0] /\ UNCHANGED <<stream, sent, returned>>
          /\ now.at = "acking" /\ acks' = [acks EXCEPT ![Consumer(l)] = a]
      BY <1>13 DEF Acks, now
    <3> QED BY <3>1, BackToIdle DEF now
  <2>2. r \in Records /\ r.at = "idle"
    <3>1. 0 \in 0 .. Len(stream)
      BY <1>3
    <3> QED BY <1>1, <3>1, IdleRecord
  <2>3. now.message \in 1 .. Len(stream) /\ stream[now.message].valid /\ now.message \in returned[Consumer(l)]
    BY <1>1, <1>2, <1>3, <2>1
  <2>4. a \in SUBSET (1 .. Len(stream)) /\ a \subseteq returned[Consumer(l)] /\ \A i \in a : stream[i].valid
    BY <1>1, <1>2, <2>3
  <2> DEFINE b == returned[Consumer(l)]
             e == sent[Consumer(l)]
  <2>5. /\ returned' = [returned EXCEPT ![Consumer(l)] = b] /\ sent' = [sent EXCEPT ![Consumer(l)] = e]
        /\ b \in SUBSET Nat /\ e \in SUBSET (1 .. Len(stream)) /\ a \subseteq b
        /\ returned[Consumer(l)] \subseteq b /\ r.at \notin {"handling", "acking"}
    BY <1>1, <2>1, <2>2, <2>4 DEF ListenersInv
  <2> HIDE DEF r, a, b, e
  <2>6. OneSubscriptionMoves(l, r, a, b, e)
    BY <2>1, <2>2, <2>4, <2>5 DEF OneSubscriptionMoves
  <2> QED BY <2>6, OneListener
<1> QED BY <1>6, <1>7, <1>8, <1>9, <1>10, <1>11, <1>12, <1>13 DEF ListenerStep

LEMMA SilenceKeepsListeners ==
  ASSUME CountersInv, ListenersInv, BeginClose \/ FinishClose
  PROVE  ListenersInv'
<1>1. UNCHANGED <<stream, sent, acks, returned>>
      /\ listener' \in [Listeners -> {Silent} \cup {listener[l] : l \in Listeners}]
      /\ \A l \in Listeners : listener'[l] \in {Silent, listener[l]}
  BY DEF BeginClose, FinishClose, consumerState
<1>2. Len(stream) \in Nat
  BY LenProperties DEF CountersInv
<1>3. Silent \in [at : {"none", "subscribing", "idle", "handling", "acking"},
                  queue : Seq(1 .. Len(stream)), message : 0 .. Len(stream)]
      /\ Silent.at = "none"
  BY <1>2 DEF Silent
<1>4. listener' \in [Listeners -> [at : {"none", "subscribing", "idle", "handling", "acking"},
                                   queue : Seq(1 .. Len(stream)), message : 0 .. Len(stream)]]
  BY <1>1, <1>3 DEF ListenersInv
<1>5. \A l \in Listeners :
        /\ listener'[l].at \in {"handling", "acking"} =>
              listener'[l].message # 0 /\ stream[listener'[l].message].valid
        /\ listener'[l].at = "acking" => listener'[l].message \in returned[Consumer(l)]
  <2> TAKE l \in Listeners
  <2>1. CASE listener'[l] = Silent
    BY <1>3, <2>1
  <2>2. CASE listener'[l] = listener[l]
    BY <2>2 DEF ListenersInv
  <2> QED BY <1>1, <2>1, <2>2
<1> QED BY <1>1, <1>4, <1>5 DEF ListenersInv, AckedIsHandled

LEMMA BusStepKeeps == ASSUME BInv, [BusNext]_busVars PROVE BInv'
<1>1. CountersInv /\ ListenersInv
  BY DEF BInv
<1>2. CASE UNCHANGED busVars
  BY <1>2 DEF busVars, callerState, consumerState, listenerState, BInv, CountersInv, ListenersInv, StatsMatchTheStream, AckedIsHandled
<1>3. CASE Connect
  <2>1. CountersInv'
    BY <1>1, <1>3, OthersKeepCounters DEF Connect, callerState, CountersInv
  <2>2. ListenersInv'
    BY <1>1, <1>3, GrowthKeepsListeners DEF Connect, listenerState, consumerState
  <2> QED BY <2>1, <2>2 DEF BInv
<1>4. CASE BeginClose
  BY <1>1, <1>4, CloseKeepsCounters, SilenceKeepsListeners DEF BInv
<1>5. CASE FinishClose
  <2>1. CountersInv'
    BY <1>1, <1>5, OthersKeepCounters DEF FinishClose, callerState, CountersInv
  <2> QED BY <1>1, <1>5, <2>1, SilenceKeepsListeners DEF BInv
<1>6. CASE StrangerPublishes
  <2>1. \E m \in StoredMessages : stream' = Append(stream, m)
    BY <1>6 DEF StrangerPublishes, Stored, StoredMessages
  <2>2. ListenersInv'
    BY <1>1, <1>6, <2>1, GrowthKeepsListeners DEF StrangerPublishes, listenerState, consumerState
  <2> QED BY <1>1, <1>6, <2>2, StrangerKeepsCounters DEF BInv
<1>7. ASSUME NEW c \in BusCalls, NEW type \in MessageTypes, BeginPublish(c, type) PROVE BInv'
  <2>1. busCall' \in [BusCalls -> Calls]
    BY <1>1, <1>7 DEF BeginPublish, CountersInv, Calls
  <2>2. CountersInv'
    BY <1>1, <1>7, <2>1, OthersKeepCounters DEF BeginPublish, CountersInv
  <2>3. ListenersInv'
    BY <1>1, <1>7, GrowthKeepsListeners DEF BeginPublish, listenerState, consumerState
  <2> QED BY <2>2, <2>3 DEF BInv
<1>8. ASSUME NEW c \in BusCalls, NEW stored \in BOOLEAN, NEW answered \in BOOLEAN,
             PublishReturns(c, stored, answered)
      PROVE  BInv'
  <2>1. CountersInv'
    BY <1>1, <1>8, PublishKeepsCounters
  <2>2. stream' = stream \/ \E m \in StoredMessages : stream' = Append(stream, m)
    <3>1. busCall[c] \in Calls /\ busCall[c].at = "publishing"
      BY <1>1, <1>8 DEF CountersInv, PublishReturns
    <3>2. busCall[c].type \in MessageTypes
      BY <3>1 DEF Calls, NoCall
    <3> QED BY <1>8, <3>2 DEF PublishReturns, Stored, StoredMessages
  <2>3. ListenersInv'
    BY <1>1, <1>8, <2>2, GrowthKeepsListeners DEF PublishReturns, listenerState, consumerState
  <2> QED BY <2>1, <2>3 DEF BInv
<1>9. ASSUME NEW c \in BusCalls, NEW type \in MessageTypes, BeginRequest(c, type) PROVE BInv'
  <2>1. busCall' \in [BusCalls -> Calls]
    BY <1>1, <1>9 DEF BeginRequest, CountersInv, Calls
  <2>2. CountersInv'
    BY <1>1, <1>9, <2>1, OthersKeepCounters DEF BeginRequest, CountersInv
  <2>3. ListenersInv'
    BY <1>1, <1>9, GrowthKeepsListeners DEF BeginRequest, listenerState, consumerState
  <2> QED BY <2>2, <2>3 DEF BInv
<1>10. ASSUME NEW c \in BusCalls, NEW stored \in BOOLEAN, NEW reply \in {"valid", "invalid", "timeout"},
              RequestReturns(c, stored, reply)
       PROVE  BInv'
  <2>1. CountersInv'
    BY <1>1, <1>10, RequestKeepsCounters
  <2>2. stream' = stream \/ \E m \in StoredMessages : stream' = Append(stream, m)
    <3>1. busCall[c] \in Calls /\ busCall[c].at = "asking"
      BY <1>1, <1>10 DEF CountersInv, RequestReturns
    <3>2. busCall[c].type \in MessageTypes
      BY <3>1 DEF Calls, NoCall
    <3> QED BY <1>10, <3>2 DEF RequestReturns, Stored, StoredMessages
  <2>3. ListenersInv'
    BY <1>1, <1>10, <2>2, GrowthKeepsListeners DEF RequestReturns, listenerState, consumerState
  <2> QED BY <2>1, <2>3 DEF BInv
<1>11. ASSUME NEW l \in Listeners,
              \/ BeginSubscribe(l) \/ SubscribeReturns(l) \/ SubscribeFails(l)
              \/ \E i \in 1 .. MaxBusMessages : JetStreamSends(l, i)
              \/ ListenerStep(l)
       PROVE  BInv'
  <2>1. ListenersInv'
    BY <1>1, <1>11, ListenerStepKeepsListeners
  <2>2. CASE SubscribeReturns(l)
    BY <1>1, <2>1, <2>2, SubscribeKeepsCounters DEF BInv
  <2>3. CASE Callback(l)
    BY <1>1, <2>1, <2>3, CallbackKeepsCounters DEF BInv
  <2>4. CASE ~ SubscribeReturns(l) /\ ~ Callback(l)
    <3>1. UNCHANGED <<stream, unsure, rpcs, replied, busStats, subscriptions, connection, busCall>>
      BY <1>11, <2>4 DEF BeginSubscribe, SubscribeFails, JetStreamSends, ListenerStep, HandlerReturns,
                         HandlerRaises, Acks, callerState
    <3>2. CountersInv'
      BY <1>1, <3>1, OthersKeepCounters DEF CountersInv
    <3> QED BY <2>1, <3>2 DEF BInv
  <2> QED BY <2>2, <2>3, <2>4
<1> QED BY <1>2, <1>3, <1>4, <1>5, <1>6, <1>7, <1>8, <1>9, <1>10, <1>11 DEF BusNext

LEMMA BusInitHolds == BusInit => BInv
<1> SUFFICES ASSUME BusInit PROVE BInv
  OBVIOUS
<1>1. stream = <<>> /\ Len(stream) = 0 /\ DOMAIN stream = {} /\ stream \in Seq(StoredMessages)
  BY DEF BusInit
<1>2. IsFiniteSet(subscriptions) /\ Cardinality(subscriptions) = 0 /\ Cardinality({}) = 0
  BY FS_EmptySet DEF BusInit
<1>3. (\A t : CountedOfType(stream, unsure \cup rpcs, t) = {}) /\ CountedOfAny(stream, unsure) = {}
  BY <1>1 DEF CountedOfType, CountedOfAny
<1>4. busStats \in [published : Nat, received : Nat, active : Nat, byType : [MessageTypes -> Nat]]
  BY DEF BusInit
<1>5. StatsMatchTheStream
  <2>1. ASSUME NEW t \in MessageTypes PROVE busStats.byType[t] = Cardinality(CountedOfType(stream, unsure \cup rpcs, t))
    <3>1. CountedOfType(stream, unsure \cup rpcs, t) = {}
      BY <1>3
    <3>2. busStats.byType[t] = 0
      BY DEF BusInit
    <3> QED BY <1>2, <3>1, <3>2
  <2>2. busStats.published = replied + Cardinality(CountedOfAny(stream, unsure))
    <3>1. busStats.published = 0 /\ replied = 0
      BY DEF BusInit
    <3> QED BY <1>2, <1>3, <3>1
  <2> QED BY <2>1, <2>2, StatsAreCounts
<1>6. CountersInv
  BY <1>1, <1>2, <1>4, <1>5 DEF BusInit, CountersInv, Calls, NoCall
<1>7. ListenersInv
  <2>1. (\A l \in Listeners : listener[l] = Silent) /\ \A c \in Consumers : acks[c] = {} /\ returned[c] = {}
    BY DEF BusInit
  <2>2. Silent \in [at : {"none", "subscribing", "idle", "handling", "acking"},
                    queue : Seq(1 .. Len(stream)), message : 0 .. Len(stream)] /\ Silent.at = "none"
    BY <1>1 DEF Silent
  <2>3. /\ listener \in [Listeners -> [at : {"none", "subscribing", "idle", "handling", "acking"},
                                       queue : Seq(1 .. Len(stream)), message : 0 .. Len(stream)]]
        /\ acks \in [Consumers -> SUBSET (1 .. Len(stream))] /\ returned \in [Consumers -> SUBSET Nat]
        /\ sent \in [Consumers -> SUBSET (1 .. Len(stream))]
    BY <2>2 DEF BusInit
  <2> QED BY <2>1, <2>2, <2>3 DEF ListenersInv, AckedIsHandled
<1> QED BY <1>6, <1>7 DEF BInv

\* AcksAreEarned for any number of calls, subscriptions, queue groups' members and messages: a
\* message is acknowledged after a handler of that consumer returned from it and if it could be
\* read; by_type counts the publications in the stream that were answered for, total_published
\* those and the requests that were answered (MessageBus.subscribe, publish, request).
THEOREM AcksEarned == BusSpec => []AcksAreEarned
<1>1. BInv => AcksAreEarned
  <2> SUFFICES ASSUME BInv PROVE AcksAreEarned
    OBVIOUS
  <2>1. CountersInv /\ ListenersInv
    BY DEF BInv
  <2>2. Len(stream) \in Nat /\ DOMAIN stream = 1 .. Len(stream)
    BY <2>1, LenProperties DEF CountersInv
  <2>3. \A c \in BusCalls : busCall[c].at \in {"idle", "publishing", "asking"}
    BY <2>1 DEF CountersInv, Calls, NoCall
  <2>4. BusTypeOK
    BY <2>1, <2>2, <2>3 DEF BusTypeOK, CountersInv, ListenersInv
  <2> QED BY <2>1, <2>4 DEF AcksAreEarned, CountersInv, ListenersInv
<1> QED BY <1>1, BusInitHolds, BusStepKeeps, PTL DEF BusSpec

-----------------------------------------------------------------------------

LEMMA LeastOf ==
  ASSUME NEW S, S \subseteq Nat, S # {}
  PROVE  \E x \in S : \A y \in S : x <= y
<1> DEFINE Less == OpToRel(<, Nat)
<1>1. \A x, y \in Nat : x < y => <<x, y>> \in Less
  BY DEF OpToRel
<1>2. IsWellFoundedOn(Less, Nat)
  BY NatLessThanWellFounded
<1> HIDE DEF Less
<1>3. \E x \in S : \A y \in S : ~ (<<y, x>> \in Less)
  BY <1>2, WFMin
<1>4. PICK x \in S : \A y \in S : ~ (<<y, x>> \in Less)
  BY <1>3
<1>5. \A y \in S : ~ (y < x)
  BY <1>1, <1>4
<1> QED
  BY <1>4, <1>5

-----------------------------------------------------------------------------
\* The shared graph.

\* after[k]: what is completed once everything that is ready was completed k times.
Rounds(graph, after, n) ==
  /\ DOMAIN after = 0 .. n
  /\ \A k \in 0 .. n : after[k] = IF k = 0 THEN {} ELSE after[k - 1] \cup GetReadyTasks(graph, after[k - 1])

LEMMA RoundsExist ==
  ASSUME NEW graph, NEW n \in Nat
  PROVE  \E after : Rounds(graph, after, n)
<1> DEFINE Bad == {m \in Nat : ~ \E after : Rounds(graph, after, m)}
<1>1. SUFFICES ASSUME Bad # {} PROVE FALSE OBVIOUS
<1>2. PICK m \in Bad : \A y \in Bad : m <= y BY <1>1, LeastOf
<1>3. CASE m = 0
  <2> DEFINE after == [k \in 0 .. 0 |-> {}]
  <2>1. Rounds(graph, after, 0) BY DEF Rounds
  <2> QED BY <2>1, <1>2, <1>3
<1>4. CASE m # 0
  <2>1. m \in Nat /\ m - 1 \in Nat /\ m - 1 < m BY <1>2, <1>4
  <2>2. m - 1 \notin Bad BY <2>1, <1>2
  <2>3. PICK old : Rounds(graph, old, m - 1) BY <2>1, <2>2
  <2> DEFINE new == old[m - 1] \cup GetReadyTasks(graph, old[m - 1])
             after == [k \in 0 .. m |-> IF k = m THEN new ELSE old[k]]
  <2> HIDE DEF new
  <2>4. DOMAIN after = 0 .. m OBVIOUS
  <2>5. \A k \in 0 .. m - 1 : k \in 0 .. m /\ k # m /\ after[k] = old[k] BY <2>1
  <2>6. m \in 0 .. m /\ after[m] = new BY <2>1
  <2> HIDE DEF after
  <2>7. ASSUME NEW k \in 0 .. m
        PROVE  after[k] = IF k = 0 THEN {} ELSE after[k - 1] \cup GetReadyTasks(graph, after[k - 1])
    <3>1. CASE k = m
      <4>1. m - 1 \in 0 .. m - 1 BY <2>1
      <4>2. after[m - 1] = old[m - 1] BY <4>1, <2>5
      <4> QED BY <3>1, <4>2, <2>6, <1>4 DEF new
    <3>2. CASE k # m
      <4>1. k \in 0 .. m - 1 BY <3>2, <2>1
      <4>2. CASE k = 0 BY <4>1, <4>2, <2>3, <2>5 DEF Rounds
      <4>3. CASE k # 0
        <5>1. k - 1 \in 0 .. m - 1 BY <4>1, <4>3
        <5>2. after[k] = old[k] /\ after[k - 1] = old[k - 1] BY <4>1, <5>1, <2>5
        <5> QED BY <4>1, <4>3, <5>2, <2>3 DEF Rounds
      <4> QED BY <4>2, <4>3
    <3> QED BY <3>1, <3>2
  <2>8. Rounds(graph, after, m) BY <2>4, <2>7 DEF Rounds
  <2> QED BY <2>8, <1>2
<1> QED BY <1>3, <1>4

\* CompletableFrom is the last of such rounds.
LEMMA CompletableIs ==
  ASSUME NEW graph, Cardinality(graph.nodes) \in Nat
  PROVE  \E after : /\ Rounds(graph, after, Cardinality(graph.nodes))
                    /\ CompletableFrom(graph) = after[Cardinality(graph.nodes)]
<1> DEFINE n == Cardinality(graph.nodes)
           body(g, k) == IF k = 0 THEN {} ELSE g[k - 1] \cup GetReadyTasks(graph, g[k - 1])
           after == CHOOSE g : g = [k \in 0 .. n |-> body(g, k)]
<1>1. CompletableFrom(graph) = after[n] BY DEF CompletableFrom
<1> HIDE DEF n
<1>2. PICK g0 : Rounds(graph, g0, n) BY RoundsExist DEF n
<1>3. PICK g1 : g1 = [k \in 0 .. n |-> g0[k]] OBVIOUS
<1>4. g1 = [k \in 0 .. n |-> body(g1, k)]
  <2>1. \A k \in 0 .. n : g1[k] = g0[k] BY <1>3
  <2>2. \A k \in 0 .. n : k # 0 => k - 1 \in 0 .. n BY DEF n
  <2>3. ASSUME NEW k \in 0 .. n PROVE g0[k] = body(g1, k)
    <3>1. CASE k = 0 BY <3>1, <1>2 DEF Rounds
    <3>2. CASE k # 0
      <4>1. g1[k - 1] = g0[k - 1] BY <3>2, <2>1, <2>2
      <4> QED BY <3>2, <4>1, <1>2 DEF Rounds
    <3> QED BY <3>1, <3>2
  <2> HIDE DEF body
  <2> QED BY <1>3, <2>3
<1>5. after = [k \in 0 .. n |-> body(after, k)]
  <2> HIDE DEF body
  <2> QED BY <1>4
<1> HIDE DEF after
<1>6. Rounds(graph, after, n)
  <2>1. DOMAIN after = 0 .. n BY <1>5
  <2>2. \A k \in 0 .. n : after[k] = body(after, k)
    <3> HIDE DEF body
    <3> QED BY <1>5
  <2> QED BY <2>1, <2>2 DEF Rounds
<1> QED BY <1>1, <1>6 DEF n

\* Without a cycle something is ready as long as something is left.
LEMMA SomethingIsReady ==
  ASSUME NEW graph, graph.edges \subseteq graph.nodes \X graph.nodes, ~ Cyclic(graph),
         NEW done \in SUBSET graph.nodes, done # graph.nodes
  PROVE  GetReadyTasks(graph, done) # {}
<1> DEFINE left == graph.nodes \ done
<1>1. left \in SUBSET graph.nodes /\ left # {} OBVIOUS
<1> HIDE DEF left
<1>2. PICK n \in left : Predecessors(graph, n) \cap left = {} BY <1>1 DEF Cyclic
<1>3. Predecessors(graph, n) \subseteq graph.nodes BY DEF Predecessors
<1>4. Predecessors(graph, n) \subseteq done BY <1>2, <1>3 DEF left
<1>5. n \in GetReadyTasks(graph, done) BY <1>2, <1>4 DEF GetReadyTasks, left
<1> QED BY <1>5

\* Everything in a graph without cycles can be completed.
LEMMA AcyclicGraphsFinish ==
  ASSUME NEW graph, IsFiniteSet(graph.nodes), graph.edges \subseteq graph.nodes \X graph.nodes, ~ Cyclic(graph)
  PROVE  CompletableFrom(graph) = graph.nodes
<1> DEFINE n == Cardinality(graph.nodes)
<1>1. n \in Nat BY FS_CardinalityType
<1>2. PICK after : Rounds(graph, after, n) /\ CompletableFrom(graph) = after[n] BY <1>1, CompletableIs
<1> HIDE DEF n
<1> DEFINE Grown(k) == /\ after[k] \in SUBSET graph.nodes
                       /\ after[k] = graph.nodes \/ (Cardinality(after[k]) \in Nat /\ Cardinality(after[k]) >= k)
           Bad == {k \in 0 .. n : ~ Grown(k)}
<1>3. Bad = {}
  <2> SUFFICES ASSUME Bad # {} PROVE FALSE OBVIOUS
  <2>0. Bad \subseteq Nat BY <1>1
  <2>1. PICK k \in Bad : \A y \in Bad : k <= y BY <2>0, LeastOf
  <2>2. k \in 0 .. n /\ ~ Grown(k) BY <2>1
  <2>3. CASE k = 0
    <3>1. after[0] = {} BY <2>2, <2>3, <1>2 DEF Rounds
    <3>2. Cardinality({}) = 0 BY FS_EmptySet
    <3> QED BY <2>2, <2>3, <3>1, <3>2
  <2>4. CASE k # 0
    <3> DEFINE before == after[k - 1]
               ready == GetReadyTasks(graph, before)
               now == after[k]
    <3>1. k - 1 \in 0 .. n /\ k - 1 < k /\ k \in Nat BY <1>1, <2>2, <2>4
    <3>2. Grown(k - 1) BY <3>1, <2>1
    <3>3. now = before \cup ready BY <2>2, <2>4, <1>2 DEF Rounds
    <3>4. before \in SUBSET graph.nodes BY <3>2
    <3>5. ready \subseteq graph.nodes /\ ready \cap before = {} BY DEF GetReadyTasks
    <3>6. before = graph.nodes \/ (Cardinality(before) \in Nat /\ Cardinality(before) >= k - 1) BY <3>2
    <3>7. now \in SUBSET graph.nodes BY <3>3, <3>4, <3>5
    <3>8. before # graph.nodes => ready # {} BY <3>4, SomethingIsReady
    <3>9. IsFiniteSet(now) /\ Cardinality(now) \in Nat BY <3>7, FS_Subset, FS_CardinalityType
    <3> HIDE DEF before, ready, now
    <3>10. CASE before = graph.nodes
      <4>1. now = graph.nodes BY <3>3, <3>7, <3>10
      <4> QED BY <4>1, <2>2 DEF now
    <3>11. CASE before # graph.nodes
      <4>1. before \subseteq now /\ before # now BY <3>3, <3>5, <3>8, <3>11
      <4>2. Cardinality(before) <= Cardinality(now) /\ Cardinality(before) # Cardinality(now)
        BY <4>1, <3>9, FS_Subset
      <4>3. Cardinality(now) >= k BY <4>2, <3>1, <3>6, <3>9, <3>11
      <4> QED BY <4>3, <3>7, <3>9, <2>2 DEF now
    <3> QED BY <3>10, <3>11
  <2> QED BY <2>3, <2>4
<1>4. n \in 0 .. n BY <1>1
<1>5. Grown(n) BY <1>3, <1>4
<1>6. after[n] = graph.nodes
  <2> SUFFICES ASSUME after[n] # graph.nodes PROVE FALSE OBVIOUS
  <2>1. after[n] \in SUBSET graph.nodes /\ Cardinality(after[n]) >= n /\ Cardinality(after[n]) \in Nat BY <1>5
  <2>2. Cardinality(after[n]) <= n /\ Cardinality(after[n]) # n BY <2>1, FS_Subset DEF n
  <2> QED BY <2>1, <2>2, <1>1
<1> QED BY <1>2, <1>6

\* The shared graph: finite, its edges between its tasks, without cycles after a spec was accepted.
GraphInv ==
    /\ dag = [nodes |-> dag.nodes, edges |-> dag.edges]
    /\ IsFiniteSet(dag.nodes)
    /\ dag.edges \subseteq dag.nodes \X dag.nodes
    /\ answer = "accepted" => ~ Cyclic(dag)

\* The decomposer's tasks: three to a module, the review after the other two.
Kinds == {"impl", "test", "review"}
Modules(m) == 1 .. (IF m = 0 THEN 1 ELSE m)
IdsOf(tasks) == {t.id : t \in tasks}

LEMMA DecomposedTasks ==
  ASSUME NEW m \in Nat
  PROVE  /\ \A t \in DeterministicDecompose(m) :
              /\ t = [id |-> t.id, dependencies |-> t.dependencies]
              /\ t.id \in Modules(m) \X Kinds
              /\ t.dependencies \subseteq IdsOf(DeterministicDecompose(m))
              /\ t.id[2] = "review" => t.dependencies = {<<t.id[1], "impl">>, <<t.id[1], "test">>}
         /\ IdsOf(DeterministicDecompose(m)) = Modules(m) \X Kinds
<1> DEFINE I(k) == [id |-> <<k, "impl">>, dependencies |-> {}]
           T(k) == [id |-> <<k, "test">>, dependencies |-> {<<k, "impl">>}]
           R(k) == [id |-> <<k, "review">>, dependencies |-> {<<k, "impl">>, <<k, "test">>}]
           DD == DeterministicDecompose(m)
<1>1. DD = UNION {{I(k), T(k), R(k)} : k \in Modules(m)}
  BY DEF DeterministicDecompose, CreateImplementationTask, CreateTestTask, CreateReviewTask, Modules
<1>2. \A t : t \in DD <=> \E k \in Modules(m) : t \in {I(k), T(k), R(k)}
  BY <1>1
<1> HIDE DEF DD
<1>3. \A k \in Modules(m) : I(k) \in DD /\ T(k) \in DD /\ R(k) \in DD BY <1>2
<1>4. \A k \in Modules(m) : <<k, "impl">> \in IdsOf(DD) /\ <<k, "test">> \in IdsOf(DD) /\ <<k, "review">> \in IdsOf(DD)
  <2> TAKE k \in Modules(m)
  <2>1. I(k).id = <<k, "impl">> /\ T(k).id = <<k, "test">> /\ R(k).id = <<k, "review">> OBVIOUS
  <2> HIDE DEF I, T, R
  <2> QED BY <1>3, <2>1 DEF IdsOf
<1>5. ASSUME NEW t \in DD
      PROVE  /\ t = [id |-> t.id, dependencies |-> t.dependencies]
             /\ t.id \in Modules(m) \X Kinds
             /\ t.dependencies \subseteq IdsOf(DD)
             /\ t.id[2] = "review" => t.dependencies = {<<t.id[1], "impl">>, <<t.id[1], "test">>}
  <2>1. PICK k \in Modules(m) : t \in {I(k), T(k), R(k)} BY <1>2
  <2> USE <1>4 DEF Kinds
  <2>2. CASE t = I(k) BY <2>2
  <2>3. CASE t = T(k) BY <2>3
  <2>4. CASE t = R(k) BY <2>4
  <2> QED BY <2>1, <2>2, <2>3, <2>4
<1>6. IdsOf(DD) = Modules(m) \X Kinds
  <2>1. IdsOf(DD) \subseteq Modules(m) \X Kinds BY <1>5 DEF IdsOf
  <2>2. ASSUME NEW e \in Modules(m) \X Kinds PROVE e \in IdsOf(DD)
    <3>1. PICK k \in Modules(m), kind \in Kinds : e = <<k, kind>> OBVIOUS
    <3> QED BY <3>1, <1>4 DEF Kinds
  <2> QED BY <2>1, <2>2
<1> QED BY <1>5, <1>6 DEF DD

LEMMA FewModules ==
  ASSUME NEW m \in Nat
  PROVE  IsFiniteSet(Modules(m) \X Kinds)
<1>1. IsFiniteSet(Kinds)
  <2>1. IsFiniteSet({"impl"}) /\ IsFiniteSet({"test"}) /\ IsFiniteSet({"review"}) BY FS_Singleton
  <2>2. IsFiniteSet({"impl"} \cup {"test"}) BY <2>1, FS_Union
  <2>3. IsFiniteSet(({"impl"} \cup {"test"}) \cup {"review"}) BY <2>1, <2>2, FS_Union
  <2>4. Kinds = ({"impl"} \cup {"test"}) \cup {"review"} BY DEF Kinds
  <2> QED BY <2>3, <2>4
<1>2. \A n \in Nat : IsFiniteSet(1 .. n) BY FS_Interval
<1>3. IsFiniteSet(Modules(m)) BY <1>2 DEF Modules
<1> QED BY <1>1, <1>3, FS_Product

LEMMA SubmitKeeps ==
  ASSUME GraphInv, NEW tasks, IsFiniteSet(IdsOf(tasks)),
         \A t \in tasks : t.dependencies \subseteq IdsOf(tasks),
         Submit(tasks)
  PROVE  GraphInv'
<1> DEFINE nodes == dag.nodes \cup IdsOf(tasks)
           edges == dag.edges \cup UNION {{<<d, t.id>> : d \in t.dependencies} : t \in tasks}
           graph == [nodes |-> nodes, edges |-> edges]
<1>1. AddTasks(dag, tasks) = [nodes |-> nodes, edges |-> dag.edges]
  BY DEF AddTasks, GraphInv, IdsOf
<1>2. AddDependencies(AddTasks(dag, tasks), tasks) = graph
  <2> HIDE DEF nodes
  <2> QED BY <1>1 DEF AddDependencies
<1>3. dag' = graph /\ answer' = GetExecutionOrder(graph) BY <1>2 DEF Submit
<1>4. IsFiniteSet(nodes) BY FS_Union DEF GraphInv
<1>5. edges \subseteq nodes \X nodes
  <2>1. \A t \in tasks : t.id \in IdsOf(tasks) BY DEF IdsOf
  <2>2. \A t \in tasks : \A d \in t.dependencies : <<d, t.id>> \in nodes \X nodes BY <2>1
  <2>3. dag.edges \subseteq nodes \X nodes BY DEF GraphInv
  <2> QED BY <2>2, <2>3
<1> HIDE DEF nodes, edges
<1>6. dag' = graph /\ dag'.nodes = nodes /\ dag'.edges = edges BY <1>3
<1>7. answer' = "accepted" => ~ Cyclic(dag)'
  <2>1. answer' = "accepted" => ~ Cyclic(graph) BY <1>3 DEF GetExecutionOrder
  <2>2. Cyclic(dag)' <=> Cyclic(graph) BY <1>3 DEF Cyclic, Predecessors
  <2> QED BY <2>1, <2>2
<1> QED BY <1>4, <1>5, <1>6, <1>7 DEF GraphInv

LEMMA GraphStep ==
  ASSUME GraphInv, [GraphNext \/ OrchestrationNext]_orchestrationVars
  PROVE  GraphInv'
<1> USE OrchestrationAssumption
<1>1. CASE SubmitSpec
  <2>1. CASE \E raw \in LLMAnswers : Submit(LLMDecompose(submits, raw))
    <3>1. PICK raw \in LLMAnswers : Submit(LLMDecompose(submits, raw)) BY <2>1
    <3>2. DOMAIN raw \subseteq TaskNames BY DEF LLMAnswers
    <3> DEFINE tasks == LLMDecompose(submits, raw)
    <3>3. \A t : t \in tasks <=>
             \E n \in DOMAIN raw : t = [id |-> <<submits, n>>, dependencies |-> {<<submits, d>> : d \in raw[n] \cap DOMAIN raw}]
      BY DEF LLMDecompose
    <3> HIDE DEF tasks
    <3>4. \A n \in DOMAIN raw : <<submits, n>> \in IdsOf(tasks)
      <4> TAKE n \in DOMAIN raw
      <4> DEFINE t == [id |-> <<submits, n>>, dependencies |-> {<<submits, d>> : d \in raw[n] \cap DOMAIN raw}]
      <4>1. t \in tasks BY <3>3
      <4>2. t.id = <<submits, n>> OBVIOUS
      <4> HIDE DEF t
      <4> QED BY <4>1, <4>2 DEF IdsOf
    <3>5. \A t \in tasks : t.dependencies \subseteq IdsOf(tasks) BY <3>3, <3>4
    <3>6. IdsOf(tasks) \subseteq {submits} \X TaskNames BY <3>2, <3>3 DEF IdsOf
    <3>7. IsFiniteSet({submits} \X TaskNames) BY FS_Singleton, FS_Product
    <3>8. IsFiniteSet(IdsOf(tasks)) BY <3>6, <3>7, FS_Subset
    <3>9. Submit(tasks) BY <3>1 DEF tasks
    <3> QED BY <3>5, <3>8, <3>9, SubmitKeeps
  <2>2. CASE Submit({[id |-> <<submits, t.id>>, dependencies |-> {<<submits, d>> : d \in t.dependencies}] :
                     t \in DeterministicDecompose(1)})
    <3> DEFINE DD == DeterministicDecompose(1)
               Renamed(t) == [id |-> <<submits, t.id>>, dependencies |-> {<<submits, d>> : d \in t.dependencies}]
               tasks == {Renamed(t) : t \in DD}
    <3>1. \A t \in DD : t.id \in Modules(1) \X Kinds /\ t.dependencies \subseteq IdsOf(DD) BY DecomposedTasks
    <3> HIDE DEF DD
    <3>2. \A t \in DD : Renamed(t) \in tasks /\ Renamed(t).id = <<submits, t.id>>
                        /\ Renamed(t).dependencies = {<<submits, d>> : d \in t.dependencies}
      OBVIOUS
    <3> HIDE DEF Renamed
    <3>3. IdsOf(tasks) = {<<submits, t.id>> : t \in DD} BY <3>2 DEF IdsOf
    <3>4. \A i \in IdsOf(DD) : <<submits, i>> \in IdsOf(tasks) BY <3>3 DEF IdsOf
    <3>5. \A u \in tasks : u.dependencies \subseteq IdsOf(tasks)
      <4> TAKE u \in tasks
      <4>1. PICK t \in DD : u = Renamed(t) OBVIOUS
      <4> QED BY <4>1, <3>1, <3>2, <3>4
    <3>6. IdsOf(tasks) \subseteq {submits} \X (Modules(1) \X Kinds) BY <3>1, <3>3
    <3>7. IsFiniteSet({submits} \X (Modules(1) \X Kinds)) BY FewModules, FS_Singleton, FS_Product
    <3>8. IsFiniteSet(IdsOf(tasks)) BY <3>6, <3>7, FS_Subset
    <3>9. Submit(tasks) BY <2>2 DEF DD, Renamed
    <3> HIDE DEF tasks
    <3> QED BY <3>5, <3>8, <3>9, SubmitKeeps
  <2> QED BY <1>1, <2>1, <2>2 DEF SubmitSpec
<1>2. CASE SubmitDuplicate
  <2>1. PICK names \in SUBSET TaskNames : dag' = [dag EXCEPT !.nodes = @ \cup {<<submits, n>> : n \in names}]
    BY <1>2 DEF SubmitDuplicate
  <2> DEFINE more == {<<submits, n>> : n \in names}
  <2>2. dag' = [nodes |-> dag.nodes \cup more, edges |-> dag.edges] BY <2>1 DEF GraphInv
  <2>3. more \subseteq {submits} \X TaskNames OBVIOUS
  <2>4. IsFiniteSet({submits} \X TaskNames) BY FS_Singleton, FS_Product
  <2>5. IsFiniteSet(more) BY <2>3, <2>4, FS_Subset
  <2> HIDE DEF more
  <2>6. IsFiniteSet(dag.nodes \cup more) BY <2>5, FS_Union DEF GraphInv
  <2>7. answer' # "accepted" BY <1>2 DEF SubmitDuplicate
  <2> QED BY <2>2, <2>6, <2>7 DEF GraphInv
<1>3. CASE SubmitInvalid
  BY <1>3 DEF SubmitInvalid, GraphInv
<1>4. CASE UNCHANGED <<dag, answer>>
  BY <1>4 DEF GraphInv, Cyclic, Predecessors
<1>5. OrchestrationNext => UNCHANGED <<dag, answer>>
  BY DEF OrchestrationNext, DecomposeSpec, EndLoop, CheckBudget, ScheduleNextTask, NoTask, MarkTaskRunning,
         ExecuteTask, RecordResult, Walk
<1> QED BY <1>1, <1>2, <1>3, <1>4, <1>5 DEF GraphNext, orchestrationVars

-----------------------------------------------------------------------------
\* The workflow.

WorkflowSteps == {"decompose", "loop", "schedule", "start", "execute", "record", "ended"}
Workflows ==
    [pc : WorkflowSteps, iteration : Nat, task : {<<>>} \cup (Nat \X Kinds),
     outcome : {"none", "pass", "fail_soft", "fail_hard", "raised"},
     completed : SUBSET (Nat \X Kinds), failed : SUBSET (Nat \X Kinds), exhausted : BOOLEAN]

TasksAreOneDecomposition == OrchTasks = {} \/ \E m \in 0 .. MaxModules : OrchTasks = Modules(m) \X Kinds

\* What is run next was ready, and still is: nobody else writes the tasks table.
TheTaskIsReady ==
    /\ orch.pc = "start" => orch.task \in SchedulableTasks
    /\ orch.pc \in {"execute", "record"} => orch.task \in OrchTasks /\ taskStatus[orch.task] = "running"

BooksAgree ==
    /\ \A t \in OrchTasks : taskStatus[t] \in RunStatuses
    /\ orch.completed = {t \in OrchTasks : taskStatus[t] = "completed"}
    /\ orch.failed = {t \in OrchTasks : taskStatus[t] = "failed"}
    /\ orch.iteration <= MaxIterations

WorkflowInv ==
    /\ orch \in Workflows
    /\ orch.pc = "decompose" => orch.iteration = 0 /\ orch.completed = {} /\ orch.failed = {}
    /\ TasksAreOneDecomposition
    /\ TheTaskIsReady
    /\ BooksAgree
    /\ StopsForAReason
    /\ ReviewsSeeFinishedWork

LEMMA ReviewsWaitForBoth ==
  ASSUME NEW m \in 0 .. MaxModules, NEW k \in Modules(m)
  PROVE  DependenciesOf(<<k, "review">>) = {<<k, "impl">>, <<k, "test">>}
<1> USE OrchestrationAssumption
<1> DEFINE DD == DeterministicDecompose(MaxModules)
<1>1. k \in Modules(MaxModules) BY DEF Modules
<1>2. <<k, "review">> \in IdsOf(DD) BY <1>1, DecomposedTasks DEF Kinds
<1>3. \A d \in DD : d.id[2] = "review" => d.dependencies = {<<d.id[1], "impl">>, <<d.id[1], "test">>}
  BY DecomposedTasks
<1>4. DependenciesOf(<<k, "review">>) = (CHOOSE d \in DD : d.id = <<k, "review">>).dependencies
  BY DEF DependenciesOf
<1> HIDE DEF DD
<1>5. \E d \in DD : d.id = <<k, "review">> BY <1>2 DEF IdsOf
<1> DEFINE d == CHOOSE d \in DD : d.id = <<k, "review">>
<1>6. d \in DD /\ d.id = <<k, "review">> BY <1>5
<1> HIDE DEF d
<1>7. d.dependencies = {<<k, "impl">>, <<k, "test">>} BY <1>3, <1>6
<1> QED BY <1>4, <1>7 DEF d

LEMMA TasksAreFinite ==
  ASSUME TasksAreOneDecomposition
  PROVE  /\ IsFiniteSet(OrchTasks) /\ Cardinality(OrchTasks) \in Nat /\ MaxIterations \in Nat
         /\ OrchTasks \subseteq Nat \X Kinds
<1> USE OrchestrationAssumption
<1>1. IsFiniteSet(OrchTasks)
  BY FewModules, FS_EmptySet DEF TasksAreOneDecomposition
<1>2. \A m \in 0 .. MaxModules : Modules(m) \subseteq Nat BY DEF Modules
<1>3. OrchTasks \subseteq Nat \X Kinds BY <1>2 DEF TasksAreOneDecomposition
<1>4. Cardinality(OrchTasks) \in Nat BY <1>1, FS_CardinalityType
<1> QED BY <1>1, <1>3, <1>4 DEF MaxIterations

\* Completed and failed tasks that are as many as the tasks are all of them.
LEMMA AllAreDone ==
  ASSUME WorkflowInv, ~ (Cardinality(orch.completed) + Cardinality(orch.failed) < Cardinality(OrchTasks))
  PROVE  orch.completed \cup orch.failed = OrchTasks
<1> DEFINE C == orch.completed
           F == orch.failed
           T == OrchTasks
<1>1. C \subseteq T /\ F \subseteq T /\ C \cap F = {} BY DEF WorkflowInv, BooksAgree
<1>2. IsFiniteSet(T) /\ Cardinality(T) \in Nat BY TasksAreFinite DEF WorkflowInv
<1>3. ~ (Cardinality(C) + Cardinality(F) < Cardinality(T)) OBVIOUS
<1> HIDE DEF C, F, T
<1>4. IsFiniteSet(C) /\ IsFiniteSet(F) BY <1>1, <1>2, FS_Subset
<1>5. Cardinality(C) \in Nat /\ Cardinality(F) \in Nat BY <1>4, FS_CardinalityType
<1>6. Cardinality(C \cup F) = Cardinality(C) + Cardinality(F)
  <2>1. Cardinality(C \cup F) = Cardinality(C) + Cardinality(F) - Cardinality(C \cap F) BY <1>4, FS_Union
  <2>2. Cardinality(C \cap F) = 0 BY <1>1, FS_EmptySet
  <2> QED BY <2>1, <2>2, <1>5
<1>7. C \cup F \in SUBSET T BY <1>1
<1>8. Cardinality(C \cup F) <= Cardinality(T) /\ (Cardinality(T) = Cardinality(C \cup F) => T = C \cup F)
  BY <1>2, <1>7, FS_Subset
<1>9. C \cup F = T BY <1>2, <1>3, <1>5, <1>6, <1>8
<1> QED BY <1>9 DEF C, F, T

LEMMA WorkflowStep ==
  ASSUME WorkflowInv, [GraphNext \/ OrchestrationNext]_orchestrationVars
  PROVE  WorkflowInv'
<1> USE OrchestrationAssumption
<1>0. /\ IsFiniteSet(OrchTasks) /\ Cardinality(OrchTasks) \in Nat /\ MaxIterations \in Nat
      /\ OrchTasks \subseteq Nat \X Kinds
  BY TasksAreFinite DEF WorkflowInv
<1>f. orch = [pc |-> orch.pc, iteration |-> orch.iteration, task |-> orch.task, outcome |-> orch.outcome,
              completed |-> orch.completed, failed |-> orch.failed, exhausted |-> orch.exhausted]
  BY DEF WorkflowInv, Workflows
<1>a. ASSUME UNCHANGED taskStatus
      PROVE  /\ OrchTasks' = OrchTasks /\ MaxIterations' = MaxIterations
             /\ TasksAreOneDecomposition' = TasksAreOneDecomposition
             /\ SchedulableTasks' = SchedulableTasks
             /\ ReviewsSeeFinishedWork' = ReviewsSeeFinishedWork
  <2>1. OrchTasks' = OrchTasks BY <1>a DEF OrchTasks
  <2>2. MaxIterations' = MaxIterations /\ TasksAreOneDecomposition' = TasksAreOneDecomposition
    BY <2>1 DEF MaxIterations, TasksAreOneDecomposition
  <2>3. SchedulableTasks' = SchedulableTasks BY <1>a, <2>1 DEF SchedulableTasks, DependenciesOf
  <2>4. ReviewsSeeFinishedWork' = ReviewsSeeFinishedWork BY <1>a, <2>1 DEF ReviewsSeeFinishedWork
  <2> QED BY <2>1, <2>2, <2>3, <2>4
<1>1. CASE DecomposeSpec
  <2>1. PICK m \in 0 .. MaxModules :
           taskStatus' = [t \in {d.id : d \in DeterministicDecompose(m)} |-> "pending"]
    BY <1>1 DEF DecomposeSpec
  <2>2. m \in Nat OBVIOUS
  <2>3. taskStatus' = [t \in Modules(m) \X Kinds |-> "pending"] BY <2>1, <2>2, DecomposedTasks DEF IdsOf
  <2>4. OrchTasks' = Modules(m) \X Kinds /\ \A t \in OrchTasks' : taskStatus'[t] = "pending" BY <2>3 DEF OrchTasks
  <2>5. orch.pc = "decompose" /\ orch' = [orch EXCEPT !.pc = "loop"] BY <1>1 DEF DecomposeSpec, Walk
  <2>6. orch' \in Workflows /\ orch'.pc = "loop" /\ orch'.iteration = 0 /\ orch'.completed = {} /\ orch'.failed = {}
    BY <2>5 DEF WorkflowInv, Workflows, WorkflowSteps
  <2>7. TasksAreOneDecomposition' BY <2>4 DEF TasksAreOneDecomposition
  <2>8. IsFiniteSet(Modules(m) \X Kinds) BY <2>2, FewModules
  <2>9. MaxIterations' \in Nat BY <2>4, <2>8, FS_CardinalityType DEF MaxIterations
  <2>10. BooksAgree' BY <2>4, <2>6, <2>9 DEF BooksAgree, RunStatuses
  <2>11. TheTaskIsReady' /\ StopsForAReason' BY <2>6 DEF TheTaskIsReady, StopsForAReason
  <2>12. ReviewsSeeFinishedWork' BY <2>4 DEF ReviewsSeeFinishedWork
  <2> QED BY <2>6, <2>7, <2>10, <2>11, <2>12 DEF WorkflowInv
<1>2. CASE EndLoop
  <2>1. orch' = [orch EXCEPT !.pc = "ended"] /\ UNCHANGED taskStatus /\ ~ LoopGoesOn BY <1>2 DEF EndLoop, Walk
  <2>2. orch' \in Workflows /\ orch'.pc = "ended" /\ orch'.iteration = orch.iteration /\ orch'.completed = orch.completed
        /\ orch'.failed = orch.failed
    BY <2>1 DEF WorkflowInv, Workflows, WorkflowSteps
  <2>3. orch.iteration \in Nat /\ orch.iteration <= MaxIterations BY DEF WorkflowInv, Workflows, BooksAgree
  <2>4. orch.completed \cup orch.failed = OrchTasks \/ orch.iteration = MaxIterations
    BY <2>1, <2>3, <1>0, AllAreDone DEF LoopGoesOn
  <2>5. StopsForAReason' BY <2>1, <2>2, <2>4, <1>a DEF StopsForAReason
  <2>6. BooksAgree' BY <2>1, <2>2, <1>a DEF WorkflowInv, BooksAgree
  <2>7. TheTaskIsReady' BY <2>2 DEF TheTaskIsReady
  <2> QED BY <2>1, <2>2, <2>5, <2>6, <2>7, <1>a DEF WorkflowInv
<1>3. CASE CheckBudget
  <2>1. PICK exhausted \in BOOLEAN :
           orch' = [orch EXCEPT !.iteration = @ + 1, !.exhausted = exhausted,
                                !.pc = IF exhausted THEN "ended" ELSE "schedule"]
    BY <1>3 DEF CheckBudget, Walk
  <2>2. UNCHANGED taskStatus /\ LoopGoesOn BY <1>3 DEF CheckBudget
  <2>3. orch.iteration \in Nat BY DEF WorkflowInv, Workflows
  <2>4. /\ orch'.pc = (IF exhausted THEN "ended" ELSE "schedule") /\ orch'.iteration = orch.iteration + 1
        /\ orch'.completed = orch.completed /\ orch'.failed = orch.failed /\ orch'.exhausted = exhausted
    BY <2>1, <1>f
  <2> DEFINE step == IF exhausted THEN "ended" ELSE "schedule"
  <2>s. step \in WorkflowSteps BY DEF WorkflowSteps
  <2>t. orch' = [orch EXCEPT !.iteration = @ + 1, !.exhausted = exhausted, !.pc = step] BY <2>1
  <2> HIDE DEF step
  <2>u. orch' = [pc |-> step, iteration |-> orch.iteration + 1, task |-> orch.task, outcome |-> orch.outcome,
                 completed |-> orch.completed, failed |-> orch.failed, exhausted |-> exhausted]
    BY <2>t, <1>f
  <2>5. orch' \in Workflows
    <3>1. /\ orch.task \in {<<>>} \cup (Nat \X Kinds) /\ orch.completed \in SUBSET (Nat \X Kinds)
          /\ orch.outcome \in {"none", "pass", "fail_soft", "fail_hard", "raised"}
          /\ orch.failed \in SUBSET (Nat \X Kinds) /\ orch.iteration + 1 \in Nat
      BY <2>3 DEF WorkflowInv, Workflows
    <3> QED BY <3>1, <2>s, <2>u DEF Workflows
  <2>6. orch'.iteration <= MaxIterations BY <2>2, <2>3, <2>4, <1>0 DEF LoopGoesOn
  <2>7. StopsForAReason' BY <2>4 DEF StopsForAReason
  <2>8. BooksAgree' BY <2>2, <2>4, <2>6, <1>a DEF WorkflowInv, BooksAgree
  <2>9. TheTaskIsReady' BY <2>4 DEF TheTaskIsReady
  <2> QED BY <2>2, <2>4, <2>5, <2>7, <2>8, <2>9, <1>a DEF WorkflowInv
<1>4. CASE ScheduleNextTask
  <2>1. PICK t \in SchedulableTasks : orch' = [orch EXCEPT !.pc = "start", !.task = t] BY <1>4 DEF ScheduleNextTask, Walk
  <2>2. UNCHANGED taskStatus BY <1>4 DEF ScheduleNextTask
  <2>3. t \in Nat \X Kinds BY <1>0 DEF SchedulableTasks
  <2>4. /\ orch'.pc = "start" /\ orch'.iteration = orch.iteration /\ orch'.task = t
        /\ orch'.completed = orch.completed /\ orch'.failed = orch.failed
    BY <2>1, <1>f
  <2>5. orch' \in Workflows BY <2>1, <2>3 DEF WorkflowInv, Workflows, WorkflowSteps
  <2>6. BooksAgree' BY <2>2, <2>4, <1>a DEF WorkflowInv, BooksAgree
  <2>7. TheTaskIsReady' BY <2>2, <2>4, <1>a DEF TheTaskIsReady
  <2>8. StopsForAReason' BY <2>4 DEF StopsForAReason
  <2> QED BY <2>2, <2>4, <2>5, <2>6, <2>7, <2>8, <1>a DEF WorkflowInv
<1>5. CASE NoTask
  <2>1. orch' = [orch EXCEPT !.pc = IF orch.failed # {} THEN "ended" ELSE "loop"] /\ UNCHANGED taskStatus
    BY <1>5 DEF NoTask, Walk
  <2>2. /\ orch' \in Workflows /\ orch'.pc = (IF orch.failed # {} THEN "ended" ELSE "loop")
        /\ orch'.iteration = orch.iteration /\ orch'.completed = orch.completed /\ orch'.failed = orch.failed
    BY <2>1 DEF WorkflowInv, Workflows, WorkflowSteps
  <2>3. BooksAgree' BY <2>1, <2>2, <1>a DEF WorkflowInv, BooksAgree
  <2>4. TheTaskIsReady' BY <2>2 DEF TheTaskIsReady
  <2>5. StopsForAReason' BY <2>2 DEF StopsForAReason
  <2> QED BY <2>1, <2>2, <2>3, <2>4, <2>5, <1>a DEF WorkflowInv
<1>6. CASE MarkTaskRunning
  <2>1. orch.pc = "start" /\ taskStatus' = [taskStatus EXCEPT ![orch.task] = "running"]
        /\ orch' = [orch EXCEPT !.pc = "execute"]
    BY <1>6 DEF MarkTaskRunning, Walk
  <2>2. /\ orch' \in Workflows /\ orch'.pc = "execute" /\ orch'.task = orch.task
        /\ orch'.iteration = orch.iteration /\ orch'.completed = orch.completed /\ orch'.failed = orch.failed
    BY <2>1 DEF WorkflowInv, Workflows, WorkflowSteps
  <2>3. orch.task \in OrchTasks /\ taskStatus[orch.task] = "pending"
        /\ \A d \in DependenciesOf(orch.task) : taskStatus[d] = "completed"
    BY <2>1 DEF WorkflowInv, TheTaskIsReady, SchedulableTasks
  <2> DEFINE task == orch.task
  <2> HIDE DEF task
  <2>4. OrchTasks' = OrchTasks /\ \A t \in OrchTasks : taskStatus'[t] = IF t = task THEN "running" ELSE taskStatus[t]
    BY <2>1 DEF task, OrchTasks
  <2>5. TasksAreOneDecomposition' /\ MaxIterations' = MaxIterations
    BY <2>4 DEF WorkflowInv, TasksAreOneDecomposition, MaxIterations
  <2>6. BooksAgree' BY <2>2, <2>3, <2>4, <2>5 DEF WorkflowInv, BooksAgree, RunStatuses, task
  <2>7. TheTaskIsReady' BY <2>2, <2>3, <2>4 DEF TheTaskIsReady, task
  <2>8. StopsForAReason' BY <2>2 DEF StopsForAReason
  <2>9. ReviewsSeeFinishedWork'
    <3> SUFFICES ASSUME NEW t \in OrchTasks, t[2] = "review", taskStatus'[t] # "pending"
                 PROVE  taskStatus'[<<t[1], "impl">>] = "completed" /\ taskStatus'[<<t[1], "test">>] = "completed"
      BY <2>4 DEF ReviewsSeeFinishedWork
    <3>1. PICK m \in 0 .. MaxModules : OrchTasks = Modules(m) \X Kinds
      BY DEF WorkflowInv, TasksAreOneDecomposition
    <3>2. t[1] \in Modules(m) /\ t = <<t[1], "review">> BY <3>1
    <3>3. <<t[1], "impl">> \in OrchTasks /\ <<t[1], "test">> \in OrchTasks BY <3>1, <3>2 DEF Kinds
    <3>4. taskStatus[<<t[1], "impl">>] = "completed" /\ taskStatus[<<t[1], "test">>] = "completed"
      <4>1. CASE t = task
        <5>1. DependenciesOf(t) = {<<t[1], "impl">>, <<t[1], "test">>} BY <3>2, ReviewsWaitForBoth
        <5> QED BY <5>1, <2>3, <4>1 DEF task
      <4>2. CASE t # task
        <5>1. taskStatus[t] # "pending" BY <2>4, <4>2
        <5> QED BY <5>1 DEF WorkflowInv, ReviewsSeeFinishedWork
      <4> QED BY <4>1, <4>2
    <3> QED BY <3>3, <3>4, <2>3, <2>4 DEF task
  <2> QED BY <2>2, <2>5, <2>6, <2>7, <2>8, <2>9 DEF WorkflowInv
<1>7. CASE ExecuteTask
  <2>1. PICK outcome \in {"pass", "fail_soft", "fail_hard", "raised"} :
           orch' = [orch EXCEPT !.pc = "record", !.outcome = outcome]
    BY <1>7 DEF ExecuteTask, Walk
  <2>2. UNCHANGED taskStatus /\ orch.pc = "execute" BY <1>7 DEF ExecuteTask
  <2>4. /\ orch'.pc = "record" /\ orch'.iteration = orch.iteration /\ orch'.task = orch.task
        /\ orch'.completed = orch.completed /\ orch'.failed = orch.failed
    BY <2>1, <1>f
  <2>5. orch' \in Workflows BY <2>1 DEF WorkflowInv, Workflows, WorkflowSteps
  <2>6. BooksAgree' BY <2>2, <2>4, <1>a DEF WorkflowInv, BooksAgree
  <2>7. TheTaskIsReady' BY <2>2, <2>4, <1>a DEF WorkflowInv, TheTaskIsReady
  <2>8. StopsForAReason' BY <2>4 DEF StopsForAReason
  <2> QED BY <2>2, <2>4, <2>5, <2>6, <2>7, <2>8, <1>a DEF WorkflowInv
<1>8. CASE RecordResult
  <2> DEFINE task == orch.task
             passed == orch.outcome = "pass"
             status == IF passed THEN "completed" ELSE "failed"
             done == IF passed THEN orch.completed \cup {task} ELSE orch.completed
             lost == IF passed THEN orch.failed ELSE orch.failed \cup {task}
  <2>1. orch.pc = "record" /\ taskStatus' = [taskStatus EXCEPT ![task] = status]
        /\ orch' = [orch EXCEPT !.pc = "loop", !.completed = done, !.failed = lost]
    BY <1>8 DEF RecordResult, Walk
  <2>2. task \in OrchTasks /\ taskStatus[task] = "running" BY <2>1 DEF WorkflowInv, TheTaskIsReady
  <2>3. done \in SUBSET (Nat \X Kinds) /\ lost \in SUBSET (Nat \X Kinds)
    BY <2>2, <1>0 DEF WorkflowInv, Workflows
  <2>4. /\ done = IF passed THEN orch.completed \cup {task} ELSE orch.completed
        /\ lost = IF passed THEN orch.failed ELSE orch.failed \cup {task}
        /\ status = IF passed THEN "completed" ELSE "failed"
    OBVIOUS
  <2> HIDE DEF task, passed, status, done, lost
  <2>5. OrchTasks' = OrchTasks /\ \A t \in OrchTasks : taskStatus'[t] = IF t = task THEN status ELSE taskStatus[t]
    BY <2>1 DEF OrchTasks
  <2>6. orch'.pc = "loop" /\ orch'.iteration = orch.iteration /\ orch'.completed = done /\ orch'.failed = lost
    BY <2>1, <1>f
  <2>7. orch' \in Workflows BY <2>1, <2>3 DEF WorkflowInv, Workflows, WorkflowSteps
  <2>8. TasksAreOneDecomposition' /\ MaxIterations' = MaxIterations
    BY <2>5 DEF WorkflowInv, TasksAreOneDecomposition, MaxIterations
  <2>9. BooksAgree'
    <3>1. done = {t \in OrchTasks : taskStatus'[t] = "completed"}
      BY <2>2, <2>4, <2>5 DEF WorkflowInv, BooksAgree
    <3>2. lost = {t \in OrchTasks : taskStatus'[t] = "failed"}
      BY <2>2, <2>4, <2>5 DEF WorkflowInv, BooksAgree
    <3>3. \A t \in OrchTasks : taskStatus'[t] \in RunStatuses
      BY <2>4, <2>5 DEF WorkflowInv, BooksAgree, RunStatuses
    <3> QED BY <3>1, <3>2, <3>3, <2>5, <2>6, <2>8 DEF WorkflowInv, BooksAgree
  <2>10. TheTaskIsReady' /\ StopsForAReason' BY <2>6 DEF TheTaskIsReady, StopsForAReason
  <2>11. ReviewsSeeFinishedWork'
    <3> SUFFICES ASSUME NEW t \in OrchTasks, t[2] = "review", taskStatus'[t] # "pending"
                 PROVE  taskStatus'[<<t[1], "impl">>] = "completed" /\ taskStatus'[<<t[1], "test">>] = "completed"
      BY <2>5 DEF ReviewsSeeFinishedWork
    <3>1. PICK m \in 0 .. MaxModules : OrchTasks = Modules(m) \X Kinds
      BY <2>2 DEF WorkflowInv, TasksAreOneDecomposition
    <3>2. <<t[1], "impl">> \in OrchTasks /\ <<t[1], "test">> \in OrchTasks BY <3>1 DEF Kinds
    <3>3. taskStatus[t] # "pending" BY <2>2, <2>5
    <3>4. taskStatus[<<t[1], "impl">>] = "completed" /\ taskStatus[<<t[1], "test">>] = "completed"
      BY <3>3 DEF WorkflowInv, ReviewsSeeFinishedWork
    <3> QED BY <3>2, <3>4, <2>2, <2>5
  <2> QED BY <2>6, <2>7, <2>8, <2>9, <2>10, <2>11 DEF WorkflowInv
<1>9. CASE UNCHANGED <<orch, taskStatus>>
  BY <1>9, <1>a DEF WorkflowInv, TheTaskIsReady, BooksAgree, StopsForAReason
<1>10. GraphNext => UNCHANGED <<orch, taskStatus>>
  BY DEF GraphNext, SubmitSpec, SubmitDuplicate, SubmitInvalid
<1> QED BY <1>1, <1>2, <1>3, <1>4, <1>5, <1>6, <1>7, <1>8, <1>9, <1>10 DEF OrchestrationNext, orchestrationVars

LEMMA OrchestrationStart ==
  ASSUME OrchestrationInit
  PROVE  GraphInv /\ WorkflowInv
<1> USE OrchestrationAssumption
<1>1. OrchTasks = {} BY DEF OrchestrationInit, OrchTasks
<1>2. Cardinality(OrchTasks) = 0 BY <1>1, FS_EmptySet
<1>3. MaxIterations = 0 BY <1>2 DEF MaxIterations
<1>4. orch \in Workflows BY DEF OrchestrationInit, Workflows, WorkflowSteps
<1>5. /\ orch.pc = "decompose" /\ orch.iteration = 0 /\ orch.completed = {} /\ orch.failed = {}
  BY DEF OrchestrationInit
<1>6. WorkflowInv
  BY <1>1, <1>3, <1>4, <1>5 DEF WorkflowInv, TasksAreOneDecomposition, TheTaskIsReady, BooksAgree, StopsForAReason,
     ReviewsSeeFinishedWork
<1>7. GraphInv BY FS_EmptySet DEF OrchestrationInit, GraphInv
<1> QED BY <1>6, <1>7

LEMMA PlansCanFinishHere ==
  ASSUME GraphInv, WorkflowInv
  PROVE  PlansCanFinish
<1>1. AcceptedSpecsCanFinish BY AcyclicGraphsFinish DEF GraphInv, AcceptedSpecsCanFinish
<1>2. OrchestrationTypeOK BY DEF GraphInv, WorkflowInv, BooksAgree, OrchestrationTypeOK
<1> QED BY <1>1, <1>2 DEF WorkflowInv, PlansCanFinish

\* For any number of specs, modules, names and failures: when a spec was accepted, completing what
\* is ready reaches every task of the shared graph, whatever refused specs left in it; the workflow's
\* books agree with the tasks table, a review only runs on completed work, and unfinished tasks are
\* given up for a reason (task_graph.py, workflows.py).
THEOREM PlansHold == OrchestrationSpec => []PlansCanFinish
<1>1. OrchestrationInit => GraphInv /\ WorkflowInv BY OrchestrationStart
<1>2. GraphInv /\ WorkflowInv /\ [GraphNext \/ OrchestrationNext]_orchestrationVars => (GraphInv /\ WorkflowInv)'
  BY GraphStep, WorkflowStep
<1>3. GraphInv /\ WorkflowInv => PlansCanFinish BY PlansCanFinishHere
<1> QED BY <1>1, <1>2, <1>3, PTL DEF OrchestrationSpec

-----------------------------------------------------------------------------
\* Evaluation Engine: the summary line.

WordsFrom(line, start) == {line[i] : i \in start .. Len(line)}

LEMMA LinesOfPassedAndSkipped ==
  ASSUME NEW p \in BOOLEAN, NEW s \in BOOLEAN, NEW line,
         line = Optional(FALSE, "failed") \o Optional(p, "passed") \o Optional(s, "skipped")
                \o Optional(FALSE, "warnings") \o Optional(FALSE, "error")
  PROVE  /\ line = Optional(p, "passed") \o Optional(FALSE, "failed") \o Optional(s, "skipped")
                   \o Optional(FALSE, "error")
         /\ Len(line) \in Nat
         /\ SubSeq(line, 1, Len(line)) = line
         /\ WordsFrom(line, 1) = {w \in {"passed"} : p} \cup {w \in {"skipped"} : s}
<1>1. CASE p /\ s BY <1>1 DEF Optional, WordsFrom
<1>2. CASE p /\ ~ s BY <1>2 DEF Optional, WordsFrom
<1>3. CASE ~ p /\ s BY <1>3 DEF Optional, WordsFrom
<1>4. CASE ~ p /\ ~ s BY <1>4 DEF Optional, WordsFrom
<1> QED BY <1>1, <1>2, <1>3, <1>4

\* A line of passed and skipped tests only is matched from its first word.
LEMMA PlainLinesMatch ==
  ASSUME NEW p \in BOOLEAN, NEW s \in BOOLEAN, NEW line,
         line = Optional(FALSE, "failed") \o Optional(p, "passed") \o Optional(s, "skipped")
                \o Optional(FALSE, "warnings") \o Optional(FALSE, "error")
  PROVE  Matched(line) = {w \in {"passed"} : p} \cup {w \in {"skipped"} : s}
<1> DEFINE starts == {i \in 1 .. (Len(line) + 1) : Fits(SubSeq(line, i, Len(line)))}
           start == CHOOSE i \in starts : \A j \in starts : i <= j
<1>1. line = Optional(p, "passed") \o Optional(FALSE, "failed") \o Optional(s, "skipped") \o Optional(FALSE, "error")
  BY LinesOfPassedAndSkipped
<1>2. Len(line) \in Nat BY LinesOfPassedAndSkipped
<1>3. SubSeq(line, 1, Len(line)) = line BY LinesOfPassedAndSkipped
<1>4. WordsFrom(line, 1) = {w \in {"passed"} : p} \cup {w \in {"skipped"} : s}
  BY LinesOfPassedAndSkipped
<1>5. Fits(line)
  <2>1. FALSE \in BOOLEAN OBVIOUS
  <2> QED BY <1>1, <2>1 DEF Fits
<1>6. \A n \in Nat : 1 \in 1 .. (n + 1) OBVIOUS
<1>7. 1 \in 1 .. (Len(line) + 1) BY <1>2, <1>6
<1>8. 1 \in starts BY <1>3, <1>5, <1>7
<1>9. \A j \in starts : j \in Int /\ 1 <= j BY <1>2
<1>10. Matched(line) = WordsFrom(line, start) BY DEF Matched, WordsFrom
<1> HIDE DEF starts
<1>11. start \in starts /\ \A j \in starts : start <= j BY <1>8, <1>9
<1> HIDE DEF start
<1>12. start = 1 BY <1>8, <1>9, <1>11
<1> QED BY <1>4, <1>10, <1>12

LEMMA PlainSummaries ==
  ASSUME NEW r, r.failed = 0, r.warnings = 0, r.error = 0, NEW p \in BOOLEAN, NEW s \in BOOLEAN,
         p <=> r.passed > 0, s <=> r.skipped > 0
  PROVE  Matched(Summary(r)) = {w \in {"passed"} : p} \cup {w \in {"skipped"} : s}
<1>1. /\ Optional(r.failed > 0, "failed") = Optional(FALSE, "failed")
      /\ Optional(r.warnings > 0, "warnings") = Optional(FALSE, "warnings")
      /\ Optional(r.error > 0, IF r.error > 1 THEN "errors" ELSE "error") = Optional(FALSE, "error")
      /\ Optional(r.passed > 0, "passed") = Optional(p, "passed")
      /\ Optional(r.skipped > 0, "skipped") = Optional(s, "skipped")
  BY DEF Optional
<1>2. Summary(r) = Optional(FALSE, "failed") \o Optional(p, "passed") \o Optional(s, "skipped")
                   \o Optional(FALSE, "warnings") \o Optional(FALSE, "error")
  BY <1>1 DEF Summary
<1> QED BY <1>2, PlainLinesMatch

LEMMA NoneOfThree == ASSUME NEW a \in Nat, NEW b \in Nat, NEW c \in Nat, a + b + c = 0 PROVE a = 0 /\ b = 0 /\ c = 0
OBVIOUS

LEMMA ParsedIsPrinted ==
  ASSUME pytest \in PytestRuns
  PROVE  ParsedCountsArePrinted
<1> DEFINE parsed == ParsePytestOutput(pytest)
<1>1. \A o \in Counts : parsed[o] = IF o \in Matched(Summary(pytest)) THEN pytest[o] ELSE 0
  BY DEF ParsePytestOutput
<1> HIDE DEF parsed
<1>2. /\ pytest.failed \in Nat /\ pytest.passed \in Nat /\ pytest.skipped \in Nat /\ pytest.warnings \in Nat
      /\ pytest.error \in Nat
  BY DEF PytestRuns
<1>3. ASSUME pytest.failed + pytest.warnings + pytest.error = 0
      PROVE  parsed.passed = pytest.passed /\ parsed.skipped = pytest.skipped
  <2>1. pytest.failed = 0 /\ pytest.warnings = 0 /\ pytest.error = 0 BY <1>2, <1>3, NoneOfThree
  <2>p. PICK p \in BOOLEAN : p <=> pytest.passed > 0 OBVIOUS
  <2>s. PICK s \in BOOLEAN : s <=> pytest.skipped > 0 OBVIOUS
  <2>2. Matched(Summary(pytest)) = {w \in {"passed"} : p} \cup {w \in {"skipped"} : s}
    BY <2>1, <2>p, <2>s, PlainSummaries
  <2>3. "passed" \in Counts /\ "skipped" \in Counts BY DEF Counts
  <2>4. parsed["passed"] = pytest["passed"] BY <1>1, <1>2, <2>2, <2>3, <2>p
  <2>5. parsed["skipped"] = pytest["skipped"] BY <1>1, <1>2, <2>2, <2>3, <2>s
  <2> QED BY <2>4, <2>5
<1>4. \A o \in Counts : parsed[o] \in {0, pytest[o]} BY <1>1
<1> QED BY <1>3, <1>4 DEF ParsedCountsArePrinted, parsed

-----------------------------------------------------------------------------
\* Verdicts.

LEMMA LayersAre ==
  ASSUME evalConfig.llm \in BOOLEAN
  PROVE  Len(Layers) = IF evalConfig.llm THEN 7 ELSE 6
BY DEF Layers

Configurations == [failFast : BOOLEAN, llm : BOOLEAN, criteria : {0, 3}, baseline : BaselineRuns]

LEMMA LayersGiveVerdicts ==
  ASSUME evalConfig \in Configurations, NEW layer
  PROVE  LayerVerdicts(layer) \subseteq Verdicts
<1>1. \A a : CompilationVerdict(a) \in Verdicts BY DEF CompilationVerdict, Verdicts
<1>2. \A r : UnitTestVerdict(r) \in Verdicts /\ IntegrationTestVerdict(r) \in Verdicts
  BY DEF UnitTestVerdict, IntegrationTestVerdict, Verdicts
<1>3. \A s : SeverityToVerdict(s) \in Verdicts BY DEF SeverityToVerdict, Verdicts
<1>4. \A a : AdversarialVerdict(a) \in Verdicts BY <1>3 DEF AdversarialVerdict, Verdicts
<1>5. \A a, b : SpecComplianceVerdict(a, b) \in Verdicts BY DEF SpecComplianceVerdict, Verdicts
<1>6. \A a, b : ArchitectureVerdict(a, b) \in Verdicts BY DEF ArchitectureVerdict, Verdicts
<1>7. \A r, b : RegressionVerdict(r, b) \in Verdicts BY DEF RegressionVerdict, Verdicts
<1>8. UnitTestVerdicts \subseteq Verdicts /\ IntegrationTestVerdicts \subseteq Verdicts
  BY <1>2 DEF UnitTestVerdicts, IntegrationTestVerdicts
<1>9. \A b \in BaselineRuns : RegressionVerdicts[b] \subseteq Verdicts BY <1>7 DEF RegressionVerdicts
<1>10. evalConfig.baseline \in BaselineRuns BY DEF Configurations
<1>11. CASE layer = "compilation" BY <1>1, <1>11 DEF LayerVerdicts
<1>12. CASE layer = "unit_tests" BY <1>8, <1>12 DEF LayerVerdicts
<1>13. CASE layer = "integration_tests" BY <1>8, <1>13 DEF LayerVerdicts
<1>14. CASE layer = "adversarial" BY <1>4, <1>14 DEF LayerVerdicts
<1>15. CASE layer = "spec_compliance" BY <1>5, <1>15 DEF LayerVerdicts
<1>16. CASE layer = "architecture" BY <1>6, <1>16 DEF LayerVerdicts
<1>17. CASE layer \notin {"compilation", "unit_tests", "integration_tests", "adversarial", "spec_compliance", "architecture"}
  BY <1>9, <1>10, <1>17 DEF LayerVerdicts
<1> QED BY <1>11, <1>12, <1>13, <1>14, <1>15, <1>16, <1>17

\* The worst of the verdicts is one of them.
LEMMA OverallIsWorst ==
  ASSUME NEW verdicts \in SUBSET Verdicts
  PROVE  /\ ComputeOverallVerdict(verdicts) \in Verdicts
         /\ verdicts # {} => ComputeOverallVerdict(verdicts) \in verdicts
         /\ \A v \in verdicts : Rank[v] <= Rank[ComputeOverallVerdict(verdicts)]
<1>1. Rank["pass"] = 0 /\ Rank["fail_soft"] = 1 /\ Rank["fail_hard"] = 2 BY DEF Rank
<1> DEFINE worst == ComputeOverallVerdict(verdicts)
<1>2. CASE "fail_hard" \in verdicts
  <2>1. worst = "fail_hard" BY <1>2 DEF ComputeOverallVerdict
  <2> QED BY <2>1, <1>1, <1>2 DEF Verdicts
<1>3. CASE "fail_hard" \notin verdicts /\ "fail_soft" \in verdicts
  <2>1. worst = "fail_soft" BY <1>3 DEF ComputeOverallVerdict
  <2>2. \A v \in verdicts : v \in {"pass", "fail_soft"} BY <1>3 DEF Verdicts
  <2> QED BY <2>1, <2>2, <1>1, <1>3 DEF Verdicts
<1>4. CASE "fail_hard" \notin verdicts /\ "fail_soft" \notin verdicts
  <2>1. worst = "pass" BY <1>4 DEF ComputeOverallVerdict
  <2>2. \A v \in verdicts : v = "pass" BY <1>4 DEF Verdicts
  <2>3. verdicts # {} => "pass" \in verdicts BY <2>2
  <2>4. \A v \in verdicts : Rank[v] <= Rank["pass"] BY <2>2, <1>1
  <2> QED BY <2>1, <2>3, <2>4 DEF Verdicts
<1> QED BY <1>2, <1>3, <1>4

-----------------------------------------------------------------------------
\* Requests.

Requests ==
    [pc : {"idle", "layer", "announceLayer", "announce", "return", "done", "raised"}, temporal : BOOLEAN,
     layers : Nat, verdicts : SUBSET Verdicts, announced : Nat, retries : Nat]

Overall(e) == ComputeOverallVerdict(evaluation[e].verdicts)

\* What holds of one request: how far it has come and what it has announced.
RequestIsConsistent(e) ==
    /\ evaluation[e].layers <= Len(Layers)
    /\ evaluation[e].layers > 0 => evaluation[e].verdicts # {}
    /\ evaluation[e].pc = "idle" =>
           evaluation[e].layers = 0 /\ evaluation[e].verdicts = {} /\ evaluation[e].announced = 0
    /\ evaluation[e].pc = "layer" => LayersLeft(e) /\ evaluation[e].announced = evaluation[e].layers
    /\ evaluation[e].pc = "announceLayer" => evaluation[e].announced + 1 = evaluation[e].layers
    /\ evaluation[e].pc \in {"announce", "return", "done"} =>
           evaluation[e].layers > 0 /\ ~ LayersLeft(e) /\ evaluation[e].announced = evaluation[e].layers
    /\ evaluation[e].pc \in {"return", "done"} => <<e, Overall(e)>> \in evalEvents

Report(e) ==
    [by |-> e, layers |-> evaluation[e].layers, verdicts |-> evaluation[e].verdicts, overall |-> Overall(e)]

\* The one report that is kept is that of a request that is done.
ReportIsOfItsRequest ==
    \/ reportStore = {}
    \/ \E e \in Evaluations : evaluation[e].pc = "done" /\ reportStore = {Report(e)}

EvaluationInv ==
    /\ evalConfig \in Configurations
    /\ pytest \in PytestRuns
    /\ evaluation \in [Evaluations -> Requests]
    /\ evalEvents \subseteq Evaluations \X Verdicts
    /\ \A e \in Evaluations : RequestIsConsistent(e)
    /\ ReportIsOfItsRequest

LEMMA EvaluationStart ==
  ASSUME EvaluationInit
  PROVE  EvaluationInv
<1>1. evalConfig \in Configurations /\ pytest \in PytestRuns BY DEF EvaluationInit, Configurations
<1>2. \A e \in Evaluations : evaluation[e] = [pc |-> "idle", temporal |-> FALSE, layers |-> 0, verdicts |-> {},
                                             announced |-> 0, retries |-> 0]
  BY DEF EvaluationInit
<1>3. evaluation \in [Evaluations -> Requests] BY DEF EvaluationInit, Requests
<1>4. Len(Layers) >= 6
  <2>1. evalConfig.llm \in BOOLEAN BY <1>1 DEF Configurations
  <2>2. Len(Layers) = IF evalConfig.llm THEN 7 ELSE 6 BY <2>1, LayersAre
  <2> QED BY <2>2
<1>5. \A e \in Evaluations : RequestIsConsistent(e) BY <1>2, <1>4 DEF RequestIsConsistent
<1>6. evalEvents = {} /\ reportStore = {} BY DEF EvaluationInit
<1> QED BY <1>1, <1>3, <1>5, <1>6 DEF EvaluationInv, ReportIsOfItsRequest

\* A step of one request that keeps its own books and takes no event back keeps everybody's.
LEMMA OneRequestMoves ==
  ASSUME EvaluationInv, NEW e \in Evaluations,
         evaluation' \in [Evaluations -> Requests],
         \A d \in Evaluations : d # e => evaluation'[d] = evaluation[d], UNCHANGED <<evalConfig, pytest>>,
         evalEvents \subseteq evalEvents', evalEvents' \subseteq Evaluations \X Verdicts,
         RequestIsConsistent(e)',
         evaluation[e].pc # "done",
         reportStore' # reportStore => reportStore' = {Report(e)'} /\ evaluation'[e].pc = "done"
  PROVE  EvaluationInv'
<1>1. evaluation \in [Evaluations -> Requests] /\ \A d \in Evaluations : RequestIsConsistent(d)
  BY DEF EvaluationInv
<1>3. \A d \in Evaluations : d # e => evaluation'[d] = evaluation[d] OBVIOUS
<1>4. Len(Layers)' = Len(Layers) BY DEF Layers
<1>5. ASSUME NEW d \in Evaluations, d # e PROVE RequestIsConsistent(d)' /\ Report(d)' = Report(d)
  <2>1. LayersLeft(d)' = LayersLeft(d) /\ Overall(d)' = Overall(d)
    BY <1>3, <1>4, <1>5 DEF LayersLeft, Overall
  <2> QED BY <1>1, <1>3, <1>4, <1>5, <2>1 DEF RequestIsConsistent, Report
<1>6. ReportIsOfItsRequest'
  <2>1. CASE reportStore' = reportStore
    <3>1. CASE reportStore = {} BY <2>1, <3>1 DEF ReportIsOfItsRequest
    <3>2. CASE reportStore # {}
      <4>1. PICK d \in Evaluations : evaluation[d].pc = "done" /\ reportStore = {Report(d)}
        BY <3>2 DEF EvaluationInv, ReportIsOfItsRequest
      <4>2. d # e BY <4>1
      <4>3. evaluation'[d].pc = "done" /\ reportStore' = {Report(d)'} BY <4>1, <4>2, <2>1, <1>3, <1>5
      <4> QED BY <4>3 DEF ReportIsOfItsRequest
    <3> QED BY <3>1, <3>2
  <2>2. CASE reportStore' = {Report(e)'} /\ evaluation'[e].pc = "done" BY <2>2 DEF ReportIsOfItsRequest
  <2> QED BY <2>1, <2>2
<1> QED BY <1>5, <1>6 DEF EvaluationInv

\* The fields of a request, and what they are after a step.
LEMMA RequestFields ==
  ASSUME NEW q \in Requests
  PROVE  /\ q.pc \in {"idle", "layer", "announceLayer", "announce", "return", "done", "raised"}
         /\ q.temporal \in BOOLEAN /\ q.layers \in Nat /\ q.verdicts \in SUBSET Verdicts
         /\ q.announced \in Nat /\ q.retries \in Nat
         /\ q = [pc |-> q.pc, temporal |-> q.temporal, layers |-> q.layers, verdicts |-> q.verdicts,
                 announced |-> q.announced, retries |-> q.retries]
BY DEF Requests

LEMMA EventsStay ==
  ASSUME EvaluationInv, UNCHANGED evalEvents
  PROVE  evalEvents \subseteq evalEvents' /\ evalEvents' \subseteq Evaluations \X Verdicts
BY DEF EvaluationInv

LEMMA LayersStay ==
  ASSUME EvaluationInv, UNCHANGED evalConfig
  PROVE  Len(Layers)' = Len(Layers) /\ Len(Layers) \in Nat /\ Len(Layers) >= 6
<1>1. evalConfig.llm \in BOOLEAN BY DEF EvaluationInv, Configurations
<1>2. Len(Layers)' = Len(Layers) BY DEF Layers
<1> QED BY <1>1, <1>2, LayersAre

LEMMA StartKeeps ==
  ASSUME EvaluationInv, NEW e \in Evaluations, StartEvaluation(e)
  PROVE  EvaluationInv'
<1>1. evaluation \in [Evaluations -> Requests] /\ RequestIsConsistent(e) /\ evaluation[e].pc = "idle"
  BY DEF EvaluationInv, StartEvaluation
<1>2. PICK temporal \in BOOLEAN : evaluation' = [evaluation EXCEPT ![e].pc = "layer", ![e].temporal = temporal]
  BY DEF StartEvaluation
<1>3. evaluation' \in [Evaluations -> Requests] BY <1>1, <1>2 DEF Requests
<1>4. \A d \in Evaluations : d # e => evaluation'[d] = evaluation[d] BY <1>1, <1>2
<1>5. /\ evaluation'[e].pc = "layer" /\ evaluation'[e].layers = 0 /\ evaluation'[e].verdicts = {}
      /\ evaluation'[e].announced = 0
  BY <1>1, <1>2 DEF Requests, RequestIsConsistent
<1>6. UNCHANGED <<evalConfig, evalEvents, reportStore, pytest>> BY DEF StartEvaluation
<1>7. Len(Layers)' >= 6 /\ Len(Layers)' \in Nat BY <1>6, LayersStay
<1>8. RequestIsConsistent(e)' BY <1>5, <1>7 DEF RequestIsConsistent, LayersLeft
<1> QED BY <1>1, <1>3, <1>4, <1>6, <1>8, OneRequestMoves, EventsStay

LEMMA LayerKeeps ==
  ASSUME EvaluationInv, NEW e \in Evaluations, RunLayer(e)
  PROVE  EvaluationInv'
<1>1. evaluation \in [Evaluations -> Requests] /\ RequestIsConsistent(e) /\ evaluation[e].pc = "layer"
  BY DEF EvaluationInv, RunLayer
<1>2. PICK verdict \in LayerVerdicts(Layers[evaluation[e].layers + 1]) :
           evaluation' = [evaluation EXCEPT ![e].pc = "announceLayer", ![e].layers = @ + 1,
                                            ![e].verdicts = @ \cup {verdict}]
  BY DEF RunLayer
<1>3. verdict \in Verdicts BY LayersGiveVerdicts DEF EvaluationInv
<1>4. evaluation' \in [Evaluations -> Requests] BY <1>1, <1>2, <1>3 DEF Requests
<1>5. \A d \in Evaluations : d # e => evaluation'[d] = evaluation[d] BY <1>1, <1>2
<1>6. /\ evaluation'[e].pc = "announceLayer" /\ evaluation'[e].layers = evaluation[e].layers + 1
      /\ evaluation'[e].verdicts = evaluation[e].verdicts \cup {verdict}
      /\ evaluation'[e].announced = evaluation[e].announced
  BY <1>1, <1>2 DEF Requests
<1>7. UNCHANGED <<evalConfig, evalEvents, reportStore, pytest>> BY DEF RunLayer
<1>8. Len(Layers)' = Len(Layers) /\ Len(Layers) \in Nat BY <1>7, LayersStay
<1>9. evaluation[e].layers \in Nat /\ evaluation[e].layers < Len(Layers)
      /\ evaluation[e].announced = evaluation[e].layers
  BY <1>1 DEF RequestIsConsistent, LayersLeft, Requests
<1>10. RequestIsConsistent(e)' BY <1>6, <1>8, <1>9 DEF RequestIsConsistent
<1> QED BY <1>1, <1>4, <1>5, <1>7, <1>10, OneRequestMoves, EventsStay

LEMMA LayerEventKeeps ==
  ASSUME EvaluationInv, NEW e \in Evaluations, PublishLayerEvent(e)
  PROVE  EvaluationInv'
<1>1. evaluation \in [Evaluations -> Requests] /\ RequestIsConsistent(e) /\ evaluation[e].pc = "announceLayer"
  BY DEF EvaluationInv, PublishLayerEvent
<1> DEFINE goOn == LayersLeft(e)
           next == IF goOn THEN "layer" ELSE "announce"
<1>2. evaluation' = [evaluation EXCEPT ![e].announced = @ + 1, ![e].pc = next] BY DEF PublishLayerEvent
<1>3. next \in {"layer", "announce"} /\ (next = "layer" <=> goOn) OBVIOUS
<1> HIDE DEF next
<1>4. evaluation' \in [Evaluations -> Requests] BY <1>1, <1>2, <1>3 DEF Requests
<1>5. \A d \in Evaluations : d # e => evaluation'[d] = evaluation[d] BY <1>1, <1>2
<1>6. /\ evaluation'[e].pc = next /\ evaluation'[e].layers = evaluation[e].layers
      /\ evaluation'[e].verdicts = evaluation[e].verdicts
      /\ evaluation'[e].announced = evaluation[e].announced + 1
  BY <1>1, <1>2 DEF Requests
<1>7. UNCHANGED <<evalConfig, evalEvents, reportStore, pytest>> BY DEF PublishLayerEvent
<1>8. Len(Layers)' = Len(Layers) BY <1>7, LayersStay
<1>9. LayersLeft(e)' <=> goOn BY <1>6, <1>7, <1>8 DEF LayersLeft
<1>10. evaluation[e].layers \in Nat /\ evaluation[e].layers <= Len(Layers)
       /\ evaluation[e].announced \in Nat /\ evaluation[e].announced + 1 = evaluation[e].layers
       /\ (evaluation[e].layers > 0 => evaluation[e].verdicts # {})
  BY <1>1 DEF RequestIsConsistent, Requests
<1> HIDE DEF goOn
<1>11. RequestIsConsistent(e)' BY <1>3, <1>6, <1>8, <1>9, <1>10 DEF RequestIsConsistent
<1> QED BY <1>1, <1>4, <1>5, <1>7, <1>11, OneRequestMoves, EventsStay

LEMMA CompletedEventKeeps ==
  ASSUME EvaluationInv, NEW e \in Evaluations, PublishCompletedEvent(e)
  PROVE  EvaluationInv'
<1>1. evaluation \in [Evaluations -> Requests] /\ RequestIsConsistent(e) /\ evaluation[e].pc = "announce"
  BY DEF EvaluationInv, PublishCompletedEvent
<1>2. evaluation' = [evaluation EXCEPT ![e].pc = "return"] BY DEF PublishCompletedEvent
<1>3. evaluation' \in [Evaluations -> Requests] BY <1>1, <1>2 DEF Requests
<1>4. \A d \in Evaluations : d # e => evaluation'[d] = evaluation[d] BY <1>1, <1>2
<1>5. /\ evaluation'[e].pc = "return" /\ evaluation'[e].layers = evaluation[e].layers
      /\ evaluation'[e].verdicts = evaluation[e].verdicts
      /\ evaluation'[e].announced = evaluation[e].announced
  BY <1>1, <1>2 DEF Requests
<1>6. evalEvents' = evalEvents \cup {<<e, Overall(e)>>} /\ UNCHANGED <<evalConfig, reportStore, pytest>>
  BY DEF PublishCompletedEvent, Overall
<1>7. Overall(e) \in Verdicts
  <2>1. evaluation[e].verdicts \in SUBSET Verdicts BY <1>1 DEF Requests
  <2> QED BY <2>1, OverallIsWorst DEF Overall
<1>8. evalEvents' \subseteq Evaluations \X Verdicts BY <1>6, <1>7 DEF EvaluationInv
<1>9. Len(Layers)' = Len(Layers) BY <1>6, LayersStay
<1>10. (LayersLeft(e)' <=> LayersLeft(e)) /\ Overall(e)' = Overall(e) BY <1>5, <1>6, <1>9 DEF LayersLeft, Overall
<1>11. RequestIsConsistent(e)' BY <1>1, <1>5, <1>6, <1>9, <1>10 DEF RequestIsConsistent
<1>12. evaluation[e].pc # "done" /\ evalEvents \subseteq evalEvents' BY <1>1, <1>6
<1> QED BY <1>3, <1>4, <1>6, <1>8, <1>11, <1>12, OneRequestMoves

LEMMA RaiseKeeps ==
  ASSUME EvaluationInv, NEW e \in Evaluations, EvaluationRaises(e)
  PROVE  EvaluationInv'
<1>1. evaluation \in [Evaluations -> Requests] /\ RequestIsConsistent(e)
      /\ evaluation[e].pc \in {"layer", "announceLayer", "announce"}
  BY DEF EvaluationInv, EvaluationRaises
<1>2. UNCHANGED <<evalConfig, evalEvents, reportStore, pytest>> BY DEF EvaluationRaises
<1>3. Len(Layers)' = Len(Layers) /\ Len(Layers) \in Nat /\ Len(Layers) >= 6 BY <1>2, LayersStay
<1>4. CASE evaluation[e].temporal
  <2>1. evaluation' = [evaluation EXCEPT ![e].pc = "layer", ![e].layers = 0, ![e].verdicts = {},
                                         ![e].announced = 0, ![e].retries = @ + 1]
    BY <1>4 DEF EvaluationRaises
  <2>2. evaluation' \in [Evaluations -> Requests] BY <1>1, <2>1 DEF Requests
  <2>3. \A d \in Evaluations : d # e => evaluation'[d] = evaluation[d] BY <1>1, <2>1
  <2>4. /\ evaluation'[e].pc = "layer" /\ evaluation'[e].layers = 0 /\ evaluation'[e].verdicts = {}
        /\ evaluation'[e].announced = 0
    BY <1>1, <2>1 DEF Requests
  <2>5. RequestIsConsistent(e)' BY <2>4, <1>3 DEF RequestIsConsistent, LayersLeft
  <2>6. evaluation[e].pc # "done" BY <1>1
  <2> QED BY <1>2, <2>2, <2>3, <2>5, <2>6, OneRequestMoves, EventsStay
<1>5. CASE ~ evaluation[e].temporal
  <2>1. evaluation' = [evaluation EXCEPT ![e].pc = "raised"] BY <1>5 DEF EvaluationRaises
  <2>2. evaluation' \in [Evaluations -> Requests] BY <1>1, <2>1 DEF Requests
  <2>3. \A d \in Evaluations : d # e => evaluation'[d] = evaluation[d] BY <1>1, <2>1
  <2>4. /\ evaluation'[e].pc = "raised" /\ evaluation'[e].layers = evaluation[e].layers
        /\ evaluation'[e].verdicts = evaluation[e].verdicts
    BY <1>1, <2>1 DEF Requests
  <2>5. RequestIsConsistent(e)' BY <1>1, <2>4, <1>3 DEF RequestIsConsistent
  <2>6. evaluation[e].pc # "done" BY <1>1
  <2> QED BY <1>2, <2>2, <2>3, <2>5, <2>6, OneRequestMoves, EventsStay
<1> QED BY <1>4, <1>5

LEMMA ReturnKeeps ==
  ASSUME EvaluationInv, NEW e \in Evaluations, ReturnReport(e)
  PROVE  EvaluationInv'
<1>1. evaluation \in [Evaluations -> Requests] /\ RequestIsConsistent(e) /\ evaluation[e].pc = "return"
  BY DEF EvaluationInv, ReturnReport
<1>2. evaluation' = [evaluation EXCEPT ![e].pc = "done"] /\ UNCHANGED <<evalConfig, evalEvents, pytest>>
  BY DEF ReturnReport
<1>3. evaluation' \in [Evaluations -> Requests] BY <1>1, <1>2 DEF Requests
<1>4. \A d \in Evaluations : d # e => evaluation'[d] = evaluation[d] BY <1>1, <1>2
<1>5. /\ evaluation'[e].pc = "done" /\ evaluation'[e].layers = evaluation[e].layers
      /\ evaluation'[e].verdicts = evaluation[e].verdicts
      /\ evaluation'[e].announced = evaluation[e].announced
  BY <1>1, <1>2 DEF Requests
<1>6. Overall(e)' = Overall(e) /\ Report(e)' = Report(e) BY <1>5 DEF Overall, Report
<1>7. reportStore' = reportStore \/ reportStore' = {Report(e)'}
  <2>1. reportStore' = reportStore \/ reportStore' = {Report(e)} BY DEF ReturnReport, Report, Overall
  <2> QED BY <2>1, <1>6
<1>8. Len(Layers)' = Len(Layers) BY <1>2, LayersStay
<1>9. LayersLeft(e)' <=> LayersLeft(e) BY <1>2, <1>5, <1>8 DEF LayersLeft
<1>10. RequestIsConsistent(e)' BY <1>1, <1>2, <1>5, <1>6, <1>8, <1>9 DEF RequestIsConsistent
<1>11. evaluation[e].pc # "done" BY <1>1
<1> QED BY <1>2, <1>3, <1>4, <1>5, <1>7, <1>10, <1>11, OneRequestMoves, EventsStay

LEMMA EvaluationStep ==
  ASSUME EvaluationInv, [EvaluationNext]_evalVars
  PROVE  EvaluationInv'
<1>1. CASE EvaluationNext
  <2>1. PICK e \in Evaluations :
          \/ StartEvaluation(e) \/ RunLayer(e) \/ PublishLayerEvent(e) \/ PublishCompletedEvent(e)
          \/ EvaluationRaises(e) \/ ReturnReport(e)
    BY <1>1 DEF EvaluationNext, EvaluationSteps
  <2> QED BY <2>1, StartKeeps, LayerKeeps, LayerEventKeeps, CompletedEventKeeps, RaiseKeeps, ReturnKeeps
<1>2. CASE UNCHANGED evalVars
  <2>1. UNCHANGED <<evalConfig, evaluation, evalEvents, reportStore, pytest>> BY <1>2 DEF evalVars
  <2>2. Len(Layers)' = Len(Layers) BY <2>1 DEF Layers
  <2>3. \A e \in Evaluations : RequestIsConsistent(e) => RequestIsConsistent(e)'
    BY <2>1, <2>2 DEF RequestIsConsistent, LayersLeft, Overall
  <2> QED BY <2>1, <2>3 DEF EvaluationInv, ReportIsOfItsRequest, Report, Overall
<1> QED BY <1>1, <1>2

LEMMA EvaluationSays ==
  ASSUME EvaluationInv
  PROVE  ReportsAreTrue
<1>1. ASSUME NEW report \in reportStore
      PROVE  \E e \in Evaluations :
                /\ report = Report(e) /\ evaluation[e].pc = "done" /\ RequestIsConsistent(e)
                /\ evaluation[e].verdicts \in SUBSET Verdicts /\ evaluation[e].layers \in Nat
  BY DEF EvaluationInv, ReportIsOfItsRequest, Requests
<1>2. Len(Layers) \in Nat
  <2>1. evalConfig.llm \in BOOLEAN BY DEF EvaluationInv, Configurations
  <2> QED BY <2>1, LayersAre
<1>3. EvaluationTypeOK
  <2>1. Cardinality(reportStore) <= 1
    <3>1. CASE reportStore = {} BY <3>1, FS_EmptySet
    <3>2. CASE reportStore # {}
      <4>1. PICK r : reportStore = {r} BY <3>2 DEF EvaluationInv, ReportIsOfItsRequest
      <4>2. Cardinality({r}) = 1 BY FS_Singleton
      <4> QED BY <4>1, <4>2
    <3> QED BY <3>1, <3>2
  <2>2. \A e \in Evaluations :
           /\ evaluation[e].pc \in {"idle", "layer", "announceLayer", "announce", "return", "done", "raised"}
           /\ evaluation[e].layers \in Nat /\ evaluation[e].verdicts \in SUBSET Verdicts
    BY RequestFields DEF EvaluationInv
  <2>3. \A e \in Evaluations : evaluation[e].layers <= Len(Layers) BY DEF EvaluationInv, RequestIsConsistent
  <2> QED BY <1>2, <2>1, <2>2, <2>3 DEF EvaluationTypeOK, EvaluationInv
<1>4. ReportIsAnnounced
  <2> SUFFICES ASSUME NEW report \in reportStore
               PROVE  /\ <<report.by, report.overall>> \in evalEvents
                      /\ evaluation[report.by].announced = report.layers
                      /\ report.layers < Len(Layers) => evalConfig.failFast /\ "fail_hard" \in report.verdicts
    BY DEF ReportIsAnnounced
  <2>1. PICK e \in Evaluations : report = Report(e) /\ evaluation[e].pc = "done" /\ RequestIsConsistent(e) BY <1>1
  <2>2. /\ report.by = e /\ report.layers = evaluation[e].layers /\ report.verdicts = evaluation[e].verdicts
        /\ report.overall = Overall(e)
    BY <2>1 DEF Report
  <2> QED BY <2>1, <2>2 DEF RequestIsConsistent, LayersLeft
<1>5. VerdictIsWorst
  <2> SUFFICES ASSUME NEW report \in reportStore
               PROVE  /\ report.overall \in report.verdicts
                      /\ \A v \in report.verdicts : Rank[v] <= Rank[report.overall]
    BY DEF VerdictIsWorst
  <2>1. PICK e \in Evaluations : /\ report = Report(e) /\ evaluation[e].pc = "done" /\ RequestIsConsistent(e)
                                 /\ evaluation[e].verdicts \in SUBSET Verdicts
    BY <1>1
  <2>2. report.verdicts = evaluation[e].verdicts /\ report.overall = ComputeOverallVerdict(evaluation[e].verdicts)
    BY <2>1 DEF Report, Overall
  <2>3. evaluation[e].verdicts # {} BY <2>1 DEF RequestIsConsistent
  <2> QED BY <2>1, <2>2, <2>3, OverallIsWorst
<1>6. ParsedCountsArePrinted BY ParsedIsPrinted DEF EvaluationInv
<1> QED BY <1>3, <1>4, <1>5, <1>6 DEF ReportsAreTrue

\* However requests overlap, repeat or fail, for any layers and test runs: a stored report is the
\* announced outcome of one request, its verdict the worst of its layers' verdicts, layers are only
\* left out after a hard failure, and no test count is made up by the parser (evaluator.py,
\* layers/unit_tests.py).
THEOREM ReportsHold == EvaluationSpec => []ReportsAreTrue
<1> QED BY EvaluationStart, EvaluationStep, EvaluationSays, PTL DEF EvaluationSpec

-----------------------------------------------------------------------------
\* Codebase Comprehension: a file and its lines.

SourceIsText ==
    /\ Len(source) \in Nat /\ DOMAIN source = 1 .. Len(source)
    /\ \A i \in 1 .. Len(source) : source[i].kind \in {"def", "code", "mark", "blank"} /\ source[i].indent \in Int

LEMMA TextStart ==
  ASSUME source \in Sources
  PROVE  SourceIsText
<1> USE CodebaseAssumption
<1>1. PICK n \in 0 .. MaxSourceLines : source \in [1 .. n -> Lines] BY DEF Sources
<1>2. n \in Nat BY <1>1
<1>3. source \in Seq(Lines) BY <1>1, <1>2, SeqDef
<1>4. Len(source) \in Nat /\ DOMAIN source = 1 .. Len(source) BY <1>3, LenProperties
<1>5. \A i \in 1 .. Len(source) : source[i] \in Lines BY <1>3, <1>4
<1>6. ASSUME NEW l \in Lines PROVE l.kind \in {"def", "code", "mark", "blank"} /\ l.indent \in Int
  <2>1. CASE l \in [kind : {"def", "code", "mark"}, indent : Depths] BY <2>1
  <2>2. CASE l = [kind |-> "blank", indent |-> 0] BY <2>2
  <2> QED BY <2>1, <2>2 DEF Lines
<1> QED BY <1>4, <1>5, <1>6 DEF SourceIsText

\* The scan below a definition, line by line up to the n-th.
ScanStep(scan, start, i) ==
    IF i = start THEN [end |-> start, open |-> TRUE] ELSE Scanned(scan[i - 1], i, start)

IsScan(scan, start, n) ==
    /\ DOMAIN scan = start .. n
    /\ \A i \in start .. n : scan[i] = ScanStep(scan, start, i)

LEMMA ScansExist ==
  ASSUME NEW start \in Nat, NEW n \in Nat, start <= n
  PROVE  \E scan : IsScan(scan, start, n)
<1> DEFINE Bad == {m \in Nat : start <= m /\ ~ \E scan : IsScan(scan, start, m)}
<1>1. SUFFICES ASSUME Bad # {} PROVE FALSE OBVIOUS
<1>2. PICK m \in Bad : \A y \in Bad : m <= y BY <1>1, LeastOf
<1>3. CASE m = start
  <2> DEFINE scan == [i \in start .. start |-> [end |-> start, open |-> TRUE]]
  <2>1. IsScan(scan, start, start) BY DEF IsScan, ScanStep
  <2> QED BY <2>1, <1>2, <1>3
<1>4. CASE m # start
  <2>1. m \in Nat /\ m - 1 \in Nat /\ m - 1 < m /\ start <= m - 1 BY <1>2, <1>4
  <2>2. m - 1 \notin Bad BY <2>1, <1>2
  <2>3. PICK old : IsScan(old, start, m - 1) BY <2>1, <2>2
  <2> DEFINE new == Scanned(old[m - 1], m, start)
             scan == [i \in start .. m |-> IF i = m THEN new ELSE old[i]]
  <2> HIDE DEF new
  <2>4. DOMAIN scan = start .. m OBVIOUS
  <2>5. \A i \in start .. m - 1 : i \in start .. m /\ i # m /\ scan[i] = old[i] BY <2>1
  <2>6. m \in start .. m /\ scan[m] = new BY <2>1
  <2> HIDE DEF scan
  <2>7. ASSUME NEW i \in start .. m PROVE scan[i] = ScanStep(scan, start, i)
    <3>1. CASE i = m
      <4>1. m - 1 \in start .. m - 1 BY <2>1
      <4>2. scan[m - 1] = old[m - 1] BY <4>1, <2>5
      <4> QED BY <3>1, <4>2, <2>6, <1>4 DEF new, ScanStep
    <3>2. CASE i # m
      <4>1. i \in start .. m - 1 BY <3>2, <2>1
      <4>2. old[i] = ScanStep(old, start, i) BY <4>1, <2>3 DEF IsScan
      <4>3. CASE i = start BY <4>1, <4>2, <4>3, <2>5 DEF ScanStep
      <4>4. CASE i # start
        <5>1. i - 1 \in start .. m - 1 BY <4>1, <4>4
        <5>2. scan[i] = old[i] /\ scan[i - 1] = old[i - 1] BY <4>1, <5>1, <2>5
        <5> QED BY <4>2, <4>4, <5>2 DEF ScanStep
      <4> QED BY <4>3, <4>4
    <3> QED BY <3>1, <3>2
  <2>8. IsScan(scan, start, m) BY <2>4, <2>7 DEF IsScan
  <2> QED BY <2>8, <1>2
<1> QED BY <1>3, <1>4

LEMMA EndIsOfAScan ==
  ASSUME SourceIsText, NEW start \in 1 .. Len(source)
  PROVE  \E scan : IsScan(scan, start, Len(source)) /\ EstimateEndLine(start) = scan[Len(source)].end
<1> DEFINE n == Len(source)
           scan == CHOOSE g : g = [i \in start .. n |-> ScanStep(g, start, i)]
<1>1. EstimateEndLine(start) = scan[n].end BY DEF EstimateEndLine, ScanStep
<1>2. n \in Nat /\ start \in Nat /\ start <= n BY DEF SourceIsText
<1> HIDE DEF n
<1>3. PICK g0 : IsScan(g0, start, n) BY <1>2, ScansExist
<1>4. PICK g1 : g1 = [i \in start .. n |-> g0[i]] OBVIOUS
<1>5. g1 = [i \in start .. n |-> ScanStep(g1, start, i)]
  <2>1. \A i \in start .. n : g1[i] = g0[i] BY <1>4
  <2>2. ASSUME NEW i \in start .. n PROVE g0[i] = ScanStep(g1, start, i)
    <3>1. g0[i] = ScanStep(g0, start, i) BY <1>3 DEF IsScan
    <3>2. CASE i = start BY <3>1, <3>2 DEF ScanStep
    <3>3. CASE i # start
      <4>1. i - 1 \in start .. n BY <3>3, <1>2
      <4>2. g1[i - 1] = g0[i - 1] BY <4>1, <2>1
      <4> QED BY <3>1, <3>3, <4>2 DEF ScanStep
    <3> QED BY <3>2, <3>3
  <2> QED BY <1>4, <2>2
<1>6. scan = [i \in start .. n |-> ScanStep(scan, start, i)] BY <1>5
<1> HIDE DEF scan
<1>7. DOMAIN scan = start .. n BY <1>6
<1>8. \A i \in start .. n : scan[i] = ScanStep(scan, start, i) BY <1>6
<1>9. IsScan(scan, start, n) BY <1>7, <1>8 DEF IsScan
<1> QED BY <1>1, <1>9 DEF n

\* The lines below a definition up to m are deeper than it, or blank.
InBlock(start, m) ==
    \A l \in start + 1 .. m : source[l].kind = "blank" \/ ~ ClosesBlock(source[l], start)

\* What the scan has found by line k.
FoundBy(before, start, k) ==
    /\ before.open \in BOOLEAN /\ before.open = InBlock(start, k)
    /\ before.end \in start .. k
    /\ before.end # start => source[before.end].kind # "blank" /\ InBlock(start, before.end)
    /\ \A m \in start + 1 .. k : source[m].kind # "blank" /\ InBlock(start, m) => m <= before.end

LEMMA OneMoreLine ==
  ASSUME SourceIsText, NEW start \in 1 .. Len(source), NEW k \in start + 1 .. Len(source), NEW before,
         FoundBy(before, start, k - 1)
  PROVE  FoundBy(Scanned(before, k, start), start, k)
<1> DEFINE after == Scanned(before, k, start)
           closes == ClosesBlock(source[k], start)
           blank == source[k].kind = "blank"
<1>1. k \in Nat /\ start \in Nat /\ k - 1 \in Nat /\ k - 1 >= start /\ Len(source) \in Nat BY DEF SourceIsText
<1>2. InBlock(start, k) <=> InBlock(start, k - 1) /\ (blank \/ ~ closes)
  <2>1. start + 1 .. k = (start + 1 .. k - 1) \cup {k} BY <1>1
  <2> QED BY <2>1 DEF InBlock
<1>3. /\ before.open = InBlock(start, k - 1) /\ before.open \in BOOLEAN /\ before.end \in start .. k - 1
      /\ before.end # start => source[before.end].kind # "blank" /\ InBlock(start, before.end)
      /\ \A m \in start + 1 .. k - 1 : source[m].kind # "blank" /\ InBlock(start, m) => m <= before.end
  BY DEF FoundBy
<1>4. \A m \in start + 1 .. k : m = k \/ m \in start + 1 .. k - 1 BY <1>1
<1>5. before.end \in start .. k BY <1>1, <1>3
<1>6. CASE ~ before.open \/ blank
  <2>1. after = before BY <1>6 DEF Scanned
  <2>2. before.open = InBlock(start, k)
    <3>1. CASE ~ before.open BY <3>1, <1>2, <1>3 DEF InBlock
    <3>2. CASE blank BY <3>2, <1>2, <1>3 DEF InBlock
    <3> QED BY <1>6, <3>1, <3>2
  <2>3. \A m \in start + 1 .. k : source[m].kind # "blank" /\ InBlock(start, m) => m <= before.end
    BY <1>2, <1>3, <1>4, <1>6
  <2> QED BY <2>1, <2>2, <2>3, <1>3, <1>5 DEF FoundBy
<1>7. CASE before.open /\ ~ blank /\ closes
  <2>1. after = [end |-> before.end, open |-> FALSE] BY <1>7 DEF Scanned
  <2>2. ~ InBlock(start, k) BY <1>2, <1>7
  <2>3. \A m \in start + 1 .. k : source[m].kind # "blank" /\ InBlock(start, m) => m <= before.end
    BY <2>2, <1>3, <1>4
  <2>4. after.end = before.end /\ after.open = FALSE BY <2>1
  <2>5. InBlock(start, k) = FALSE BY <2>2 DEF InBlock
  <2> HIDE DEF after
  <2> QED BY <2>3, <2>4, <2>5, <1>3, <1>5 DEF FoundBy, after
<1>8. CASE before.open /\ ~ blank /\ ~ closes
  <2>1. after = [end |-> k, open |-> TRUE] BY <1>8 DEF Scanned
  <2>2. InBlock(start, k) BY <1>2, <1>3, <1>8
  <2>3. \A m \in start + 1 .. k : m <= k BY <1>1
  <2>4. after.end = k /\ after.open = TRUE BY <2>1
  <2>5. InBlock(start, k) = TRUE BY <2>2 DEF InBlock
  <2>6. k \in start .. k BY <1>1
  <2>7. source[k].kind # "blank" BY <1>8
  <2> HIDE DEF after, blank, closes
  <2> QED BY <2>2, <2>3, <2>4, <2>5, <2>6, <2>7 DEF FoundBy, after
<1> QED BY <1>3, <1>6, <1>7, <1>8

\* A symbol ends at the last line of its block that is not blank.
LEMMA EndIs ==
  ASSUME SourceIsText, NEW start \in 1 .. Len(source)
  PROVE  LET e == EstimateEndLine(start)
         IN /\ e \in start .. Len(source)
            /\ e # start => source[e].kind # "blank" /\ InBlock(start, e)
            /\ \A m \in start + 1 .. Len(source) : source[m].kind # "blank" /\ InBlock(start, m) => m <= e
<1>1. start \in Nat /\ Len(source) \in Nat /\ start <= Len(source) BY DEF SourceIsText
<1>2. PICK scan : IsScan(scan, start, Len(source)) /\ EstimateEndLine(start) = scan[Len(source)].end
  BY EndIsOfAScan
<1> DEFINE Bad == {k \in start .. Len(source) : ~ FoundBy(scan[k], start, k)}
<1>3. Bad = {}
  <2> SUFFICES ASSUME Bad # {} PROVE FALSE OBVIOUS
  <2>0. Bad \subseteq Nat BY <1>1
  <2>1. PICK k \in Bad : \A y \in Bad : k <= y BY <2>0, LeastOf
  <2>2. k \in start .. Len(source) /\ ~ FoundBy(scan[k], start, k) BY <2>1
  <2>3. scan[k] = ScanStep(scan, start, k) BY <2>2, <1>2 DEF IsScan
  <2>4. CASE k = start
    <3>1. scan[k].end = start /\ scan[k].open = TRUE BY <2>3, <2>4 DEF ScanStep
    <3>2. start + 1 .. start = {} /\ start \in start .. start BY <1>1
    <3>3. InBlock(start, start) = TRUE BY <3>2 DEF InBlock
    <3> QED BY <2>2, <2>4, <3>1, <3>2, <3>3 DEF FoundBy
  <2>5. CASE k # start
    <3>1. k - 1 \in start .. Len(source) /\ k - 1 < k /\ k \in start + 1 .. Len(source) BY <1>1, <2>2, <2>5
    <3>2. FoundBy(scan[k - 1], start, k - 1) BY <3>1, <2>1
    <3>3. scan[k] = Scanned(scan[k - 1], k, start) BY <2>3, <2>5 DEF ScanStep
    <3> QED BY <3>1, <3>2, <3>3, <2>2, OneMoreLine
  <2> QED BY <2>4, <2>5
<1>4. Len(source) \in start .. Len(source) BY <1>1
<1>5. FoundBy(scan[Len(source)], start, Len(source)) BY <1>3, <1>4
<1> QED BY <1>2, <1>5 DEF FoundBy

LEMMA TextChunksNest ==
  ASSUME SourceIsText
  PROVE  ChunksNest
<1> SUFFICES ASSUME NEW i \in Symbols, NEW j \in Symbols, i < j, ~ (EstimateEndLine(i) < j)
             PROVE  source[j].indent > source[i].indent /\ EstimateEndLine(j) <= EstimateEndLine(i)
  BY DEF ChunksNest
<1> DEFINE n == Len(source)
           d == EstimateEndLine(i)
           e == EstimateEndLine(j)
<1>1. i \in 1 .. n /\ j \in 1 .. n /\ source[j].kind = "def" /\ n \in Nat BY DEF Symbols, SourceIsText
<1>2. \A l \in 1 .. n : source[l].indent \in Int BY DEF SourceIsText
<1>3. d \in i .. n /\ (d # i => InBlock(i, d))
      /\ \A m \in i + 1 .. n : source[m].kind # "blank" /\ InBlock(i, m) => m <= d
  BY <1>1, EndIs
<1>4. e \in j .. n /\ (e # j => source[e].kind # "blank" /\ InBlock(j, e))
  BY <1>1, EndIs
<1>5. ~ (d < j) OBVIOUS
<1> HIDE DEF n, d, e
<1>6. InBlock(i, d) /\ j \in i + 1 .. d BY <1>1, <1>3, <1>5
<1>7. source[j].indent > source[i].indent
  <2>1. ~ ClosesBlock(source[j], i) BY <1>1, <1>6 DEF InBlock
  <2> QED BY <2>1, <1>1, <1>2 DEF ClosesBlock
<1>8. e <= d
  <2>1. CASE e = j BY <2>1, <1>1, <1>3, <1>5
  <2>2. CASE e # j
    <3>1. InBlock(i, e)
      <4> SUFFICES ASSUME NEW l \in i + 1 .. e, source[l].kind # "blank" PROVE ~ ClosesBlock(source[l], i)
        BY DEF InBlock
      <4>1. l \in Int /\ l \in 1 .. n BY <1>1, <1>4
      <4>2. CASE l <= j
        <5>1. l \in i + 1 .. d BY <4>1, <4>2, <1>1, <1>3, <1>5
        <5> QED BY <5>1, <1>6 DEF InBlock
      <4>3. CASE l > j
        <5>1. l \in j + 1 .. e BY <4>1, <4>3, <1>1, <1>4
        <5>2. ~ ClosesBlock(source[l], j) BY <5>1, <2>2, <1>4 DEF InBlock
        <5> QED BY <5>2, <4>1, <1>1, <1>2, <1>7 DEF ClosesBlock
      <4> QED BY <4>1, <4>2, <4>3, <1>1
    <3>2. e \in i + 1 .. n BY <1>1, <1>4
    <3> QED BY <3>1, <3>2, <2>2, <1>3, <1>4
  <2> QED BY <2>1, <2>2
<1> QED BY <1>7, <1>8 DEF d, e

LEMMA TextContextLeads ==
  ASSUME SourceIsText
  PROVE  ContextLeadsToSymbol
<1> SUFFICES ASSUME NEW s \in Symbols
             PROVE  LET before == ContextStart(s) .. s - 1
                        code == {i \in before : source[i].kind \in {"def", "code"}}
                    IN /\ code \subseteq {s - 1} /\ (code # {} => before = {s - 1})
                       /\ \A i \in 1 .. s - 1 :
                            source[i].kind = "mark" /\ (\A j \in i .. s - 1 : source[j].kind \in {"mark", "blank"})
                              => i \in before
  BY DEF ContextLeadsToSymbol
<1> DEFINE above == {i \in 1 .. s - 1 : \A j \in i .. s - 1 : IsContext(source[j])}
           first == ContextStart(s)
<1>1. s \in Nat /\ s >= 1 BY DEF Symbols, SourceIsText
<1>2. first = IF above # {} THEN Min(above) ELSE Max({1, s - 1}) BY DEF ContextStart
<1> HIDE DEF first
<1>3. CASE above # {}
  <2>1. above \subseteq Nat BY <1>1
  <2>2. \A i \in above : i \in 1 .. s - 1 /\ \A j \in i .. s - 1 : IsContext(source[j]) OBVIOUS
  <2>3. \A i \in 1 .. s - 1 : (\A j \in i .. s - 1 : IsContext(source[j])) => i \in above OBVIOUS
  <2> HIDE DEF above
  <2>4. \E x \in above : \A y \in above : x <= y BY <1>3, <2>1, LeastOf
  <2>5. first \in above /\ \A y \in above : first <= y BY <1>2, <1>3, <2>4 DEF Min
  <2>6. \A j \in first .. s - 1 : source[j].kind \notin {"def", "code"} BY <2>2, <2>5 DEF IsContext
  <2>7. \A i \in 1 .. s - 1 : (\A j \in i .. s - 1 : IsContext(source[j])) => i \in first .. s - 1
    BY <1>1, <2>1, <2>3, <2>5
  <2> QED BY <2>6, <2>7 DEF first, IsContext
<1>4. CASE above = {}
  <2>1. \A i \in 1 .. s - 1 : ~ \A j \in i .. s - 1 : IsContext(source[j]) BY <1>4
  <2> HIDE DEF above
  <2>2. first .. s - 1 \subseteq {s - 1} /\ (first .. s - 1 # {} => first .. s - 1 = {s - 1})
    <3>1. first = Max({1, s - 1}) BY <1>2, <1>4
    <3>2. CASE s = 1
      <4>1. {1, s - 1} = {0, 1} BY <3>2
      <4>2. \E x \in {0, 1} : \A y \in {0, 1} : x >= y OBVIOUS
      <4>3. Max({0, 1}) = 1 BY <4>2 DEF Max
      <4> QED BY <3>1, <3>2, <4>1, <4>3
    <3>3. CASE s # 1
      <4>1. s - 1 \in {1, s - 1} /\ \A y \in {1, s - 1} : s - 1 >= y BY <1>1, <3>3
      <4>2. Max({1, s - 1}) \in {1, s - 1} /\ \A y \in {1, s - 1} : Max({1, s - 1}) >= y BY <4>1 DEF Max
      <4>3. Max({1, s - 1}) = s - 1 BY <4>1, <4>2, <1>1
      <4> QED BY <3>1, <4>3, <1>1
    <3> QED BY <3>2, <3>3
  <2> QED BY <2>1, <2>2 DEF first, IsContext
<1> QED BY <1>3, <1>4

-----------------------------------------------------------------------------
\* The store of indices.

Held == {indices[k] : k \in 1 .. Len(indices)}
EverStored == {storedRoots[k] : k \in 1 .. Len(storedRoots)}
TimesOf(root) == {k \in 1 .. Len(storedRoots) : storedRoots[k] = root}

\* A directory was stored for the last time at k.
LastAt(root, k) == k \in TimesOf(root) /\ \A m \in TimesOf(root) : m <= k
SinceThen(k) == {storedRoots[m] : m \in {m \in 1 .. Len(storedRoots) : m > k}}

\* The store is in the order of the last storing.
IndicesDiffer == \A j, k \in 1 .. Len(indices) : indices[j] = indices[k] => j = k
InStoredOrder ==
    \A k \in 1 .. Len(indices) :
        \E m : LastAt(indices[k], m) /\ SinceThen(m) = {indices[j] : j \in k + 1 .. Len(indices)}
\* What the store has let go was stored before all of it, and it only lets go when it is full.
LetGoOldest ==
    \A root \in EverStored \ Held :
        /\ Len(indices) = MaxIndices
        /\ \E m : LastAt(root, m) /\ Held \subseteq SinceThen(m)

IndexStoreInv ==
    /\ storedRoots \in Seq(Roots) /\ indices \in Seq(Roots)
    /\ Len(indices) <= MaxIndices
    /\ IsFiniteSet(EverStored)
    /\ IndicesDiffer
    /\ InStoredOrder
    /\ LetGoOldest

\* What storing a directory does to the history.
LEMMA OneMoreStored ==
  ASSUME storedRoots \in Seq(Roots), NEW root \in Roots, storedRoots' = Append(storedRoots, root)
  PROVE  /\ storedRoots' \in Seq(Roots)
         /\ EverStored' = EverStored \cup {root}
         /\ \E last : LastAt(root, last)' /\ SinceThen(last)' = {}
         /\ \A old, m : old # root /\ LastAt(old, m) => LastAt(old, m)' /\ SinceThen(m)' = SinceThen(m) \cup {root}
<1>1. PICK n : n = Len(storedRoots) OBVIOUS
<1>2. n \in Nat /\ Len(storedRoots') = n + 1 /\ storedRoots'[n + 1] = root
      /\ \A k \in 1 .. n : storedRoots'[k] = storedRoots[k]
  BY <1>1, AppendProperties, LenProperties
<1>3. 1 .. n + 1 = (1 .. n) \cup {n + 1} BY <1>2
<1>4. EverStored' = EverStored \cup {root}
  <2>1. EverStored' = {storedRoots'[k] : k \in 1 .. n + 1} BY <1>2 DEF EverStored
  <2>2. EverStored = {storedRoots[k] : k \in 1 .. n} BY <1>1 DEF EverStored
  <2> QED BY <1>2, <1>3, <2>1, <2>2
<1>5. \A old : TimesOf(old)' = {k \in 1 .. n + 1 : storedRoots'[k] = old} BY <1>2 DEF TimesOf
<1>6. \A old : TimesOf(old) = {k \in 1 .. n : storedRoots[k] = old} BY <1>1 DEF TimesOf
<1>7. \A old : old # root => TimesOf(old)' = TimesOf(old) BY <1>2, <1>3, <1>5, <1>6
<1>8. \A m : SinceThen(m)' = {storedRoots'[k] : k \in {k \in 1 .. n + 1 : k > m}} BY <1>2 DEF SinceThen
<1>9. \A m : SinceThen(m) = {storedRoots[k] : k \in {k \in 1 .. n : k > m}} BY <1>1 DEF SinceThen
<1>10. ASSUME NEW old, NEW m, old # root, LastAt(old, m)
       PROVE  LastAt(old, m)' /\ SinceThen(m)' = SinceThen(m) \cup {root}
  <2>1. m \in 1 .. n BY <1>10, <1>6 DEF LastAt
  <2>2. LastAt(old, m)' BY <1>10, <1>7 DEF LastAt
  <2>3. {k \in 1 .. n + 1 : k > m} = {k \in 1 .. n : k > m} \cup {n + 1} BY <1>2, <2>1
  <2>4. SinceThen(m)' = SinceThen(m) \cup {root} BY <1>2, <1>8, <1>9, <2>3
  <2> QED BY <2>2, <2>4
<1>11. \E last : LastAt(root, last)' /\ SinceThen(last)' = {}
  <2>1. PICK last : last = n + 1 OBVIOUS
  <2>2. last \in TimesOf(root)' /\ \A m \in TimesOf(root)' : m <= last BY <1>2, <1>5, <2>1
  <2>3. {k \in 1 .. n + 1 : k > last} = {} BY <1>2, <2>1
  <2>4. SinceThen(last)' = {} BY <1>8, <2>3
  <2> QED BY <2>2, <2>4 DEF LastAt
<1>12. storedRoots' \in Seq(Roots) BY AppendProperties
<1> QED BY <1>4, <1>10, <1>11, <1>12

\* The directory is the last of n + 1, after those that stay: the k-th of them was the from[k]-th.
OthersFollow(root, n, from) ==
    /\ indices' \in Seq(Roots) /\ Len(indices') = n + 1 /\ indices'[n + 1] = root
    /\ \A k \in 1 .. n : from[k] \in 1 .. Len(indices) /\ indices'[k] = indices[from[k]] /\ indices'[k] # root
    /\ \A j, k \in 1 .. n : j < k => from[j] < from[k]
    /\ \A k \in 1 .. n, j \in 1 .. Len(indices) : j > from[k] /\ indices[j] # root => \E i \in 1 .. n : from[i] = j

\* Whatever becomes of the indices that stay, the order of the last storing is kept when theirs is.
LEMMA StoredLater ==
  ASSUME IndexStoreInv, NEW root \in Roots, storedRoots' = Append(storedRoots, root),
         NEW n \in Nat, NEW from, OthersFollow(root, n, from)
  PROVE  IndicesDiffer' /\ InStoredOrder'
<1> USE DEF OthersFollow
<1>1. IndicesDiffer'
  <2>1. \A j, k \in 1 .. n : indices'[j] = indices'[k] => j = k
    <3> SUFFICES ASSUME NEW j \in 1 .. n, NEW k \in 1 .. n, indices'[j] = indices'[k] PROVE j = k OBVIOUS
    <3>1. from[j] = from[k] BY DEF IndexStoreInv, IndicesDiffer
    <3>2. from[k] \in Int BY DEF IndexStoreInv
    <3>3. ~ (j < k) BY <3>1, <3>2
    <3>4. ~ (k < j) BY <3>1, <3>2
    <3> QED BY <3>3, <3>4
  <2>2. \A k \in 1 .. n + 1 : k \in 1 .. n \/ k = n + 1 OBVIOUS
  <2> QED BY <2>1, <2>2 DEF IndicesDiffer
<1>2. PICK l : l = Len(indices) OBVIOUS
<1>3. l \in Nat BY <1>2, LenProperties DEF IndexStoreInv
<1>4. ASSUME NEW k \in 1 .. n
      PROVE  \E m : LastAt(indices[k], m)' /\ SinceThen(m)' = {indices'[j] : j \in k + 1 .. n + 1}
  <2>1. PICK f : f = from[k] OBVIOUS
  <2>2. f \in 1 .. l /\ indices'[k] = indices[f] /\ indices[f] # root BY <1>2, <2>1
  <2>3. PICK m : LastAt(indices[f], m) /\ SinceThen(m) = {indices[j] : j \in f + 1 .. l}
    BY <1>2, <2>2 DEF IndexStoreInv, InStoredOrder
  <2>4. PICK old : old = indices[f] OBVIOUS
  <2>5. LastAt(old, m)' /\ SinceThen(m)' = {indices[j] : j \in f + 1 .. l} \cup {root}
    <3>1. \A o, t : o # root /\ LastAt(o, t) => LastAt(o, t)' /\ SinceThen(t)' = SinceThen(t) \cup {root}
      BY OneMoreStored DEF IndexStoreInv
    <3>2. old # root /\ LastAt(old, m) BY <2>2, <2>3, <2>4
    <3>3. LastAt(old, m)' /\ SinceThen(m)' = SinceThen(m) \cup {root} BY <3>1, <3>2
    <3> QED BY <2>3, <3>3
  <2>6. {indices[j] : j \in f + 1 .. l} \subseteq {indices'[j] : j \in k + 1 .. n + 1}
    <3> SUFFICES ASSUME NEW j \in f + 1 .. l PROVE indices[j] \in {indices'[i] : i \in k + 1 .. n + 1}
      OBVIOUS
    <3>1. CASE indices[j] = root BY <3>1
    <3>2. CASE indices[j] # root
      <4>1. PICK i \in 1 .. n : from[i] = j BY <1>2, <1>3, <2>1, <2>2, <3>2
      <4>2. i > k BY <1>3, <2>1, <2>2, <4>1
      <4> QED BY <4>1, <4>2
    <3> QED BY <3>1, <3>2
  <2>7. \A j \in k + 1 .. n : from[j] \in f + 1 .. l BY <1>2, <1>3, <2>1, <2>2
  <2>8. {indices'[j] : j \in k + 1 .. n + 1} \subseteq {indices[j] : j \in f + 1 .. l} \cup {root}
    <3> SUFFICES ASSUME NEW j \in k + 1 .. n + 1 PROVE indices'[j] \in {indices[i] : i \in f + 1 .. l} \cup {root}
      OBVIOUS
    <3>1. CASE j = n + 1 BY <3>1
    <3>2. CASE j \in k + 1 .. n BY <2>7, <3>2
    <3> QED BY <3>1, <3>2
  <2>9. root \in {indices'[j] : j \in k + 1 .. n + 1} OBVIOUS
  <2>10. LastAt(indices[k], m)' BY <2>2, <2>4, <2>5
  <2>11. SinceThen(m)' = {indices'[j] : j \in k + 1 .. n + 1} BY <2>5, <2>6, <2>8, <2>9
  <2> QED BY <2>10, <2>11
<1>5. PICK last : LastAt(root, last)' /\ SinceThen(last)' = {} BY OneMoreStored DEF IndexStoreInv
<1>6. ASSUME NEW k, k = n + 1
      PROVE  \E m : LastAt(indices[k], m)' /\ SinceThen(m)' = {indices'[j] : j \in k + 1 .. n + 1}
  <2>1. {indices'[j] : j \in k + 1 .. n + 1} = {} BY <1>6
  <2>2. LastAt(indices[k], last)' BY <1>5, <1>6
  <2> QED BY <1>5, <2>1, <2>2
<1>7. \A k \in 1 .. n + 1 : k \in 1 .. n \/ k = n + 1 OBVIOUS
<1>8. InStoredOrder' BY <1>4, <1>6, <1>7 DEF InStoredOrder
<1> QED BY <1>1, <1>8

\* What was let go before is older than the directory stored now.
LEMMA LetGoBefore ==
  ASSUME IndexStoreInv, NEW root \in Roots, storedRoots' = Append(storedRoots, root),
         Held' \subseteq Held \cup {root}, NEW old \in EverStored \ Held, old # root
  PROVE  \E m : LastAt(old, m)' /\ Held' \subseteq SinceThen(m)'
<1>1. PICK m : LastAt(old, m) /\ Held \subseteq SinceThen(m) BY DEF IndexStoreInv, LetGoOldest
<1>2. LastAt(old, m)' /\ SinceThen(m)' = SinceThen(m) \cup {root} BY <1>1, OneMoreStored DEF IndexStoreInv
<1> QED BY <1>1, <1>2

\* The list of the three cases: a directory moves to the end, is added, or drives out the oldest.
LEMMA StoringKeeps ==
  ASSUME IndexStoreInv, NEW root \in Roots, IndexDirectory(root)
  PROVE  IndexStoreInv'
<1> USE CodebaseAssumption
<1>1. storedRoots' = Append(storedRoots, root) /\ indices' = StoredIndex(root) BY DEF IndexDirectory
<1>2. PICK l : l = Len(indices) OBVIOUS
<1>3. l \in Nat /\ DOMAIN indices = 1 .. l /\ l <= MaxIndices /\ indices \in Seq(Roots)
  BY <1>2, LenProperties DEF IndexStoreInv
<1>4. \A k \in 1 .. l : indices[k] \in Roots BY <1>3, ElementOfSeq, <1>2
<1>5. storedRoots' \in Seq(Roots) /\ EverStored' = EverStored \cup {root} BY <1>1, OneMoreStored DEF IndexStoreInv
<1>6. IsFiniteSet(EverStored') BY <1>5, FS_AddElement DEF IndexStoreInv
<1>7. Held = {indices[k] : k \in 1 .. l} BY <1>2 DEF Held
<1>8. \A old : old \in EverStored \ Held /\ old # root /\ Held' \subseteq Held \cup {root} =>
          \E m : LastAt(old, m)' /\ Held' \subseteq SinceThen(m)'
  BY <1>1, LetGoBefore
<1>9. CASE Places(root) # {}
  <2>1. PICK p : p = CHOOSE q \in Places(root) : TRUE OBVIOUS
  <2>2. p \in 1 .. l /\ indices[p] = root BY <1>3, <1>9, <2>1 DEF Places
  <2>3. \A k \in 1 .. l : indices[k] = root => k = p BY <1>2, <2>2 DEF IndexStoreInv, IndicesDiffer
  <2>4. indices' = [k \in 1 .. l |-> indices[IF k < p THEN k ELSE IF k < l THEN k + 1 ELSE p]]
    BY <1>1, <1>2, <1>3, <1>9, <2>1 DEF StoredIndex, MovedToEnd
  <2>5. \A k \in 1 .. l : (IF k < p THEN k ELSE IF k < l THEN k + 1 ELSE p) \in 1 .. l BY <1>3, <2>2
  <2>6. indices' \in [1 .. l -> Roots] BY <1>4, <2>4, <2>5
  <2>7. indices' \in Seq(Roots) /\ Len(indices') = l BY <1>3, <2>6, SeqDef, LenProperties
  <2>8. PICK n : n = l - 1 OBVIOUS
  <2>9. n \in Nat /\ l = n + 1 BY <1>3, <2>2, <2>8
  <2>10. PICK from : from = [k \in 1 .. n |-> IF k < p THEN k ELSE k + 1] OBVIOUS
  <2>11. \A k \in 1 .. n : from[k] = IF k < p THEN k ELSE k + 1 BY <2>10
  <2>12. \A k \in 1 .. n : from[k] \in 1 .. l /\ from[k] # p BY <2>2, <2>9, <2>11
  <2>13. \A k \in 1 .. n : indices'[k] = indices[from[k]] BY <2>4, <2>9, <2>11
  <2>14. \A k \in 1 .. n : indices'[k] # root BY <2>3, <2>12, <2>13
  <2>15. \A j, k \in 1 .. n : j < k => from[j] < from[k]
    <3> SUFFICES ASSUME NEW j \in 1 .. n, NEW k \in 1 .. n, j < k PROVE from[j] < from[k] OBVIOUS
    <3>1. p \in Int /\ j \in Int /\ k \in Int BY <2>2
    <3>2. CASE k < p BY <2>11, <3>1, <3>2
    <3>3. CASE ~ (k < p)
      <4>1. from[k] = k + 1 /\ (from[j] = j \/ from[j] = j + 1) BY <2>11, <3>3
      <4> QED BY <3>1, <4>1
    <3> QED BY <3>2, <3>3
  <2>16. indices'[n + 1] = root BY <2>2, <2>4, <2>9
  <2>17. ASSUME NEW k \in 1 .. n, NEW j \in 1 .. l, j > from[k], indices[j] # root
         PROVE  \E i \in 1 .. n : from[i] = j
    <3>1. j # p BY <2>2, <2>17
    <3>2. CASE j < p BY <2>2, <2>9, <2>11, <3>2
    <3>3. CASE j > p
      <4>1. j - 1 \in 1 .. n /\ ~ (j - 1 < p) BY <1>3, <2>2, <2>9, <3>3
      <4>2. from[j - 1] = j - 1 + 1 BY <2>11, <4>1
      <4> QED BY <4>1, <4>2
    <3> QED BY <2>2, <3>1, <3>2, <3>3
  <2>18. IndicesDiffer' /\ InStoredOrder'
    <3>1. OthersFollow(root, n, from)
      BY <1>2, <2>7, <2>9, <2>12, <2>13, <2>14, <2>15, <2>16, <2>17 DEF OthersFollow
    <3> QED BY <1>1, <2>9, <3>1, StoredLater
  <2>19. Held' = Held
    <3>1. Held' = {indices'[k] : k \in 1 .. l} BY <2>7 DEF Held
    <3>2. \A k \in 1 .. l : indices'[k] \in Held BY <1>7, <2>4, <2>5
    <3>3. ASSUME NEW j \in 1 .. l PROVE indices[j] \in Held'
      <4>1. CASE indices[j] = root BY <2>9, <2>16, <3>1, <4>1
      <4>2. CASE indices[j] # root
        <5>1. j # p BY <2>2, <4>2
        <5>2. CASE j < p BY <2>2, <2>4, <3>1, <5>2
        <5>3. CASE j > p
          <6>1. j - 1 \in 1 .. l /\ ~ (j - 1 < p) /\ j - 1 < l BY <1>3, <2>2, <5>3
          <6>2. indices'[j - 1] = indices[j] BY <1>3, <2>4, <6>1
          <6> QED BY <3>1, <6>1, <6>2
        <5> QED BY <2>2, <5>1, <5>2, <5>3
      <4> QED BY <4>1, <4>2
    <3> QED BY <1>7, <3>1, <3>2, <3>3
  <2>20. EverStored' \ Held' \subseteq EverStored \ Held /\ root \in Held BY <1>5, <1>7, <2>2, <2>19
  <2>21. LetGoOldest'
    <3> SUFFICES ASSUME NEW old \in EverStored' \ Held'
                 PROVE  Len(indices') = MaxIndices /\ \E m : LastAt(old, m)' /\ Held' \subseteq SinceThen(m)'
      BY DEF LetGoOldest
    <3>1. old \in EverStored \ Held /\ old # root BY <2>20
    <3>2. Len(indices') = MaxIndices BY <1>2, <2>7, <3>1 DEF IndexStoreInv, LetGoOldest
    <3> QED BY <1>8, <2>19, <3>1, <3>2
  <2> QED BY <1>3, <1>5, <1>6, <2>7, <2>18, <2>21 DEF IndexStoreInv
<1>10. CASE Places(root) = {} /\ l < MaxIndices
  <2>1. indices' = Append(indices, root) BY <1>1, <1>2, <1>3, <1>10 DEF StoredIndex, Added
  <2>2. indices' \in Seq(Roots) /\ Len(indices') = l + 1 /\ indices'[l + 1] = root
        /\ \A k \in 1 .. l : indices'[k] = indices[k]
    BY <1>2, <1>3, <2>1, AppendProperties
  <2>3. \A k \in 1 .. l : indices[k] # root BY <1>3, <1>10 DEF Places
  <2>4. PICK from : from = [k \in 1 .. l |-> k] OBVIOUS
  <2>5. \A k \in 1 .. l : from[k] = k BY <2>4
  <2>6. \A k \in 1 .. l : from[k] \in 1 .. l /\ indices'[k] = indices[from[k]] /\ indices'[k] # root
    BY <2>2, <2>3, <2>5
  <2>7. \A j, k \in 1 .. l : j < k => from[j] < from[k] BY <2>5
  <2>8. \A k \in 1 .. l, j \in 1 .. l : j > from[k] /\ indices[j] # root => \E i \in 1 .. l : from[i] = j BY <2>5
  <2>9. IndicesDiffer' /\ InStoredOrder'
    <3>1. OthersFollow(root, l, from) BY <1>2, <2>2, <2>6, <2>7, <2>8 DEF OthersFollow
    <3> QED BY <1>1, <1>3, <3>1, StoredLater
  <2>10. Held' = Held \cup {root}
    <3>1. 1 .. l + 1 = (1 .. l) \cup {l + 1} BY <1>3
    <3>2. Held' = {indices'[k] : k \in 1 .. l + 1} BY <2>2 DEF Held
    <3> QED BY <1>7, <2>2, <3>1, <3>2
  <2>11. EverStored \ Held = {} BY <1>2, <1>3, <1>10 DEF IndexStoreInv, LetGoOldest
  <2>12. LetGoOldest' BY <1>5, <2>10, <2>11 DEF LetGoOldest
  <2>13. Len(indices') <= MaxIndices BY <1>3, <1>10, <2>2
  <2> QED BY <1>5, <1>6, <2>2, <2>9, <2>12, <2>13 DEF IndexStoreInv
<1>11. CASE Places(root) = {} /\ l = MaxIndices
  <2>1. PICK n : n = l - 1 OBVIOUS
  <2>2. n \in Nat /\ l = n + 1 BY <1>3, <1>11, <2>1
  <2>3. indices # <<>> BY <1>2, <1>3, <2>2, EmptySeq
  <2>4. Tail(indices) \in Seq(Roots) /\ Len(Tail(indices)) = n
        /\ \A k \in 1 .. n : Tail(indices)[k] = indices[k + 1]
    BY <1>2, <1>3, <2>2, <2>3, HeadTailProperties
  <2>5. indices' = Append(Tail(indices), root) BY <1>1, <1>2, <1>3, <1>11 DEF StoredIndex, Added
  <2>6. indices' \in Seq(Roots) /\ Len(indices') = n + 1 /\ indices'[n + 1] = root
        /\ \A k \in 1 .. n : indices'[k] = indices[k + 1]
    BY <2>2, <2>4, <2>5, AppendProperties
  <2>7. \A k \in 1 .. l : indices[k] # root BY <1>3, <1>11 DEF Places
  <2>8. PICK from : from = [k \in 1 .. n |-> k + 1] OBVIOUS
  <2>9. \A k \in 1 .. n : from[k] = k + 1 BY <2>8
  <2>10. \A k \in 1 .. n : from[k] \in 1 .. l /\ indices'[k] = indices[from[k]] /\ indices'[k] # root
    BY <2>2, <2>6, <2>7, <2>9
  <2>11. \A j, k \in 1 .. n : j < k => from[j] < from[k] BY <2>9
  <2>12. ASSUME NEW k \in 1 .. n, NEW j \in 1 .. l, j > from[k]
         PROVE  \E i \in 1 .. n : from[i] = j
    <3>1. j - 1 \in 1 .. n BY <2>2, <2>9, <2>12
    <3>2. from[j - 1] = j BY <2>9, <3>1
    <3> QED BY <3>1, <3>2
  <2>13. IndicesDiffer' /\ InStoredOrder'
    <3>1. OthersFollow(root, n, from) BY <1>2, <2>6, <2>10, <2>11, <2>12 DEF OthersFollow
    <3> QED BY <1>1, <2>2, <3>1, StoredLater
  <2>14. Held' = {indices[j] : j \in 2 .. l} \cup {root}
    <3>1. Held' = {indices'[k] : k \in 1 .. n + 1} BY <2>6 DEF Held
    <3>2. \A k \in 1 .. n + 1 : k \in 1 .. n \/ k = n + 1 BY <2>2
    <3>3. \A k \in 1 .. n : k + 1 \in 2 .. l BY <2>2
    <3>4. \A j \in 2 .. l : j - 1 \in 1 .. n /\ indices'[j - 1] = indices[j] BY <2>2, <2>6
    <3>5. Held' \subseteq {indices[j] : j \in 2 .. l} \cup {root} BY <2>6, <3>1, <3>2, <3>3
    <3>6. {indices[j] : j \in 2 .. l} \subseteq Held'
      <4> SUFFICES ASSUME NEW j \in 2 .. l PROVE indices[j] \in Held' OBVIOUS
      <4>1. j - 1 \in 1 .. n + 1 BY <2>2
      <4> QED BY <3>1, <3>4, <4>1
    <3>7. root \in Held' BY <2>2, <2>6, <3>1
    <3> QED BY <3>5, <3>6, <3>7
  <2>15. PICK oldest : oldest = indices[1] OBVIOUS
  <2>16. 1 \in 1 .. l /\ oldest # root BY <2>2, <2>7, <2>15
  <2>17. PICK m : LastAt(oldest, m) /\ SinceThen(m) = {indices[j] : j \in 1 + 1 .. l}
    BY <1>2, <2>15, <2>16 DEF IndexStoreInv, InStoredOrder
  <2>18. LastAt(oldest, m)' /\ SinceThen(m)' = SinceThen(m) \cup {root}
    <3>1. \A o, t : o # root /\ LastAt(o, t) => LastAt(o, t)' /\ SinceThen(t)' = SinceThen(t) \cup {root}
      BY <1>1, OneMoreStored DEF IndexStoreInv
    <3> QED BY <2>16, <2>17, <3>1
  <2>19. 1 + 1 .. l = 2 .. l OBVIOUS
  <2>20. LastAt(oldest, m)' /\ Held' = SinceThen(m)' BY <2>14, <2>17, <2>18, <2>19
  <2>21. Held' \subseteq Held \cup {root}
    <3>1. \A j \in 2 .. l : j \in 1 .. l BY <1>3
    <3> QED BY <1>7, <2>14, <3>1
  <2>22. ASSUME NEW old \in EverStored' \ Held', old # oldest PROVE old \in EverStored \ Held /\ old # root
    <3>1. old # root /\ old \in EverStored BY <1>5, <2>14, <2>22
    <3>2. ASSUME NEW k \in 1 .. l, old = indices[k] PROVE FALSE
      <4>1. k \in 2 .. l BY <1>3, <2>15, <2>22, <3>2
      <4> QED BY <2>14, <2>22, <3>2, <4>1
    <3> QED BY <1>7, <3>1, <3>2
  <2>23. LetGoOldest'
    <3> SUFFICES ASSUME NEW old \in EverStored' \ Held'
                 PROVE  Len(indices') = MaxIndices /\ \E t : LastAt(old, t)' /\ Held' \subseteq SinceThen(t)'
      BY DEF LetGoOldest
    <3>1. Len(indices') = MaxIndices BY <1>11, <2>2, <2>6
    <3>2. CASE old = oldest BY <2>20, <3>1, <3>2
    <3>3. CASE old # oldest BY <1>8, <2>21, <2>22, <3>1, <3>3
    <3> QED BY <3>2, <3>3
  <2>24. Len(indices') <= MaxIndices BY <1>11, <2>2, <2>6
  <2> QED BY <1>5, <1>6, <2>6, <2>13, <2>23, <2>24 DEF IndexStoreInv
<1>12. Places(root) # {} \/ (Places(root) = {} /\ l < MaxIndices) \/ (Places(root) = {} /\ l = MaxIndices)
  BY <1>3
<1> QED BY <1>9, <1>10, <1>11, <1>12
\* Two sets have the same number of elements when a function pairs them.
LEMMA CountedThrough ==
  ASSUME NEW S, NEW T, IsFiniteSet(S), NEW f \in [S -> T],
         \A x, y \in S : f[x] = f[y] => x = y,
         \A y \in T : \E x \in S : f[x] = y
  PROVE  IsFiniteSet(T) /\ Cardinality(T) = Cardinality(S)
<1>1. f \in Injection(S, T) BY DEF Injection, IsInjective
<1>2. f \in Surjection(S, T) BY DEF Surjection
<1>3. ExistsBijection(S, T) BY <1>1, <1>2 DEF Bijection, ExistsBijection
<1> QED BY <1>3, FS_Bijection

\* A directory that was let go has the whole store after it, one that is held only those behind it.
LEMMA LatestStay ==
  ASSUME IndexStoreInv
  PROVE  LatestIndicesStay
<1> USE CodebaseAssumption
<1>1. PICK l : l = Len(indices) OBVIOUS
<1>2. l \in Nat /\ DOMAIN indices = 1 .. l /\ l <= MaxIndices BY <1>1, LenProperties DEF IndexStoreInv
<1>3. Len(storedRoots) \in Nat /\ DOMAIN storedRoots = 1 .. Len(storedRoots) BY LenProperties DEF IndexStoreInv
<1>4. Range(storedRoots) = EverStored BY <1>3 DEF Range, EverStored
<1>5. Held = {indices[k] : k \in 1 .. l} BY <1>1 DEF Held
<1>6. ASSUME NEW root, NEW m, LastAt(root, m) PROVE StoredSince(root) = SinceThen(m)
  <2> DEFINE times == {k \in DOMAIN storedRoots : storedRoots[k] = root}
  <2>1. times = TimesOf(root) BY <1>3 DEF TimesOf
  <2>2. m \in times /\ \A x \in times : m >= x /\ x \in Int BY <1>3, <1>6, <2>1 DEF LastAt
  <2>3. \A x \in times : (\A y \in times : x >= y) => x = m BY <2>2
  <2>4. Max(times) = m BY <2>2, <2>3 DEF Max
  <2> QED BY <1>3, <2>4 DEF StoredSince, SinceThen
<1>7. ASSUME NEW k \in 0 .. l
      PROVE  Cardinality({indices[j] : j \in k + 1 .. l}) = l - k /\ IsFiniteSet({indices[j] : j \in k + 1 .. l})
  <2> DEFINE places == k + 1 .. l
             found == {indices[j] : j \in places}
             f == [j \in places |-> indices[j]]
  <2>1. IsFiniteSet(places) /\ Cardinality(places) = l - k
    <3>1. k + 1 \in Int /\ l \in Int BY <1>2
    <3>2. IsFiniteSet(places) /\ Cardinality(places) = IF k + 1 > l THEN 0 ELSE l - (k + 1) + 1
      BY <3>1, FS_Interval
    <3> QED BY <1>2, <3>2
  <2>2. \A i, j \in places : indices[i] = indices[j] => i = j BY <1>1, <1>2 DEF IndexStoreInv, IndicesDiffer
  <2> HIDE DEF places
  <2>3. f \in [places -> found] /\ \A x \in found : \E j \in places : f[j] = x OBVIOUS
  <2>4. \A i, j \in places : f[i] = f[j] => i = j BY <2>2
  <2> HIDE DEF f, found
  <2>5. IsFiniteSet(found) /\ Cardinality(found) = Cardinality(places) BY <2>1, <2>3, <2>4, CountedThrough
  <2> QED BY <2>1, <2>5 DEF places, found
<1>8. ASSUME NEW root \in Held
      PROVE  root \in EverStored /\ Cardinality(StoredSince(root)) < MaxIndices
  <2>1. PICK k \in 1 .. l : root = indices[k] BY <1>5
  <2>2. PICK m : LastAt(root, m) /\ SinceThen(m) = {indices[j] : j \in k + 1 .. l}
    BY <1>1, <2>1 DEF IndexStoreInv, InStoredOrder
  <2>3. root \in EverStored BY <2>2 DEF LastAt, TimesOf, EverStored
  <2>4. k \in 0 .. l BY <1>2
  <2>5. Cardinality(StoredSince(root)) = l - k BY <1>6, <1>7, <2>2, <2>4
  <2> QED BY <1>2, <2>3, <2>5
<1>9. ASSUME NEW root \in EverStored \ Held
      PROVE  ~ (Cardinality(StoredSince(root)) < MaxIndices)
  <2>1. PICK m : LastAt(root, m) /\ Held \subseteq SinceThen(m) BY DEF IndexStoreInv, LetGoOldest
  <2>2. l = MaxIndices BY <1>1 DEF IndexStoreInv, LetGoOldest
  <2>3. 0 \in 0 .. l /\ 0 + 1 = 1 /\ l - 0 = l BY <1>2
  <2>4. Cardinality(Held) = l
    <3>1. Cardinality({indices[j] : j \in 0 + 1 .. l}) = l - 0 BY <1>7, <2>3
    <3> QED BY <1>5, <2>3, <3>1
  <2>5. SinceThen(m) \subseteq EverStored BY DEF SinceThen, EverStored
  <2>6. IsFiniteSet(SinceThen(m)) BY <2>5, FS_Subset DEF IndexStoreInv
  <2>7. Cardinality(Held) <= Cardinality(SinceThen(m)) /\ Cardinality(SinceThen(m)) \in Nat
    BY <2>1, <2>6, FS_Subset, FS_CardinalityType
  <2> QED BY <1>2, <1>6, <2>1, <2>2, <2>4, <2>7
<1>10. Held = {root \in EverStored : Cardinality(StoredSince(root)) < MaxIndices} BY <1>8, <1>9
<1> QED BY <1>2, <1>4, <1>5, <1>10 DEF LatestIndicesStay

-----------------------------------------------------------------------------
\* The embeddings.

FoundOf(z) == {row \in embeddings : row.by = z}

\* Rows are there when a call is done, all of them, and before it commits it has sent them all.
EmbedInv ==
    /\ embedder \in [Embedders -> [at : {"idle", "insert", "commit", "done", "failed"}, chunks : Nat, sent : Nat]]
    /\ \A z \in Embedders :
        /\ FoundOf(z) = IF embedder[z].at = "done" THEN RowsUpTo(z, embedder[z].chunks) ELSE {}
        /\ embedder[z].at = "commit" => embedder[z].sent = embedder[z].chunks

LEMMA RowsCounted ==
  ASSUME NEW z, NEW n \in Nat
  PROVE  Cardinality(RowsUpTo(z, n)) = n
<1> DEFINE places == 1 .. n
           rows == {[by |-> z, chunk |-> c] : c \in places}
           f == [c \in places |-> [by |-> z, chunk |-> c]]
<1>1. IsFiniteSet(places) /\ Cardinality(places) = n
  <2>1. IsFiniteSet(places) /\ Cardinality(places) = IF 1 > n THEN 0 ELSE n - 1 + 1 BY FS_Interval
  <2> QED BY <2>1
<1>2. RowsUpTo(z, n) = rows BY DEF RowsUpTo
<1> HIDE DEF places
<1>3. f \in [places -> rows] /\ \A x \in rows : \E c \in places : f[c] = x OBVIOUS
<1>4. \A c, d \in places : f[c] = f[d] => c = d
  <2> SUFFICES ASSUME NEW c \in places, NEW d \in places, f[c] = f[d] PROVE c = d OBVIOUS
  <2>1. f[c].chunk = c /\ f[d].chunk = d OBVIOUS
  <2> QED BY <2>1
<1> HIDE DEF f, rows
<1>5. Cardinality(rows) = Cardinality(places) BY <1>1, <1>3, <1>4, CountedThrough
<1> QED BY <1>1, <1>2, <1>5

\* What one call changes of the invariant is about itself.
LEMMA OneCallMoves ==
  ASSUME EmbedInv, NEW z \in Embedders,
         NEW new \in [at : {"idle", "insert", "commit", "done", "failed"}, chunks : Nat, sent : Nat],
         embedder' = [embedder EXCEPT ![z] = new],
         \E rows : embeddings' = embeddings \cup rows /\ \A row \in rows : row.by = z,
         FoundOf(z)' = IF new.at = "done" THEN RowsUpTo(z, new.chunks) ELSE {},
         new.at = "commit" => new.sent = new.chunks
  PROVE  EmbedInv'
<1>1. \A y \in Embedders : embedder'[y] = IF y = z THEN new ELSE embedder[y] BY DEF EmbedInv
<1>2. \A y : y # z => FoundOf(y)' = FoundOf(y) BY DEF FoundOf
<1>3. embedder' \in [Embedders -> [at : {"idle", "insert", "commit", "done", "failed"}, chunks : Nat, sent : Nat]]
  BY DEF EmbedInv
<1>4. ASSUME NEW y \in Embedders
      PROVE  /\ FoundOf(y)' = IF embedder'[y].at = "done" THEN RowsUpTo(y, embedder'[y].chunks) ELSE {}
             /\ embedder'[y].at = "commit" => embedder'[y].sent = embedder'[y].chunks
  <2>1. CASE y = z BY <1>1, <2>1
  <2>2. CASE y # z BY <1>1, <1>2, <2>2 DEF EmbedInv
  <2> QED BY <2>1, <2>2
<1> QED BY <1>3, <1>4 DEF EmbedInv, RowsUpTo
LEMMA SmallerOfTwo ==
  ASSUME NEW a \in Nat, NEW b \in Nat
  PROVE  Min({a, b}) \in Nat
<1>1. \E x \in {a, b} : \A y \in {a, b} : x <= y
  <2>1. CASE a <= b BY <2>1
  <2>2. CASE b <= a BY <2>2
  <2> QED BY <2>1, <2>2
<1> QED BY <1>1 DEF Min

\* Every step of a call keeps the invariant.
LEMMA EmbeddingKeeps ==
  ASSUME EmbedInv, EmbedNext
  PROVE  EmbedInv'
<1> USE CodebaseAssumption
<1>1. PICK z \in Embedders : (\E n \in 0 .. MaxChunks : BeginEmbed(z, n)) \/ InsertBatch(z) \/ CommitEmbed(z) \/ EmbedFails(z)
  BY DEF EmbedNext
<1>2. PICK at, chunks, stored : embedder[z] = [at |-> at, chunks |-> chunks, sent |-> stored]
  BY DEF EmbedInv
<1>3. at \in {"idle", "insert", "commit", "done", "failed"} /\ chunks \in Nat /\ stored \in Nat
      /\ embedder[z].at = at /\ embedder[z].chunks = chunks /\ embedder[z].sent = stored
  BY <1>2 DEF EmbedInv
<1>4. FoundOf(z) = IF at = "done" THEN RowsUpTo(z, chunks) ELSE {} BY <1>3 DEF EmbedInv
<1>5. at = "commit" => stored = chunks BY <1>3 DEF EmbedInv
<1>6. embeddings' = embeddings => FoundOf(z)' = FoundOf(z) BY DEF FoundOf
<1>7. ASSUME embeddings' = embeddings
      PROVE  \E rows : embeddings' = embeddings \cup rows /\ \A row \in rows : row.by = z
  <2>1. PICK rows : rows = {} OBVIOUS
  <2>2. embeddings' = embeddings \cup rows /\ \A row \in rows : row.by = z BY <1>7, <2>1
  <2> QED BY <2>2
<1>8. ASSUME NEW n \in 0 .. MaxChunks, BeginEmbed(z, n) PROVE EmbedInv'
  <2>1. PICK new : new = [at |-> IF n = 0 THEN "done" ELSE "insert", chunks |-> n, sent |-> 0] OBVIOUS
  <2>2. at = "idle" /\ embedder' = [embedder EXCEPT ![z] = new] /\ embeddings' = embeddings
    BY <1>3, <1>8, <2>1 DEF BeginEmbed
  <2>3. new \in [at : {"idle", "insert", "commit", "done", "failed"}, chunks : Nat, sent : Nat] BY <2>1
  <2>4. new.at = (IF n = 0 THEN "done" ELSE "insert") /\ new.chunks = n BY <2>1
  <2>5. FoundOf(z)' = {} BY <1>4, <1>6, <2>2
  <2>6. n = 0 => RowsUpTo(z, n) = {} BY DEF RowsUpTo
  <2>7. FoundOf(z)' = IF new.at = "done" THEN RowsUpTo(z, new.chunks) ELSE {} BY <2>4, <2>5, <2>6
  <2> QED BY <1>7, <2>2, <2>3, <2>4, <2>7, OneCallMoves
<1>9. CASE InsertBatch(z)
  <2>1. PICK next : next = NextSent(z) OBVIOUS
  <2>2. next \in Nat
    <3>1. next = Min({stored + EmbedBatch, chunks}) BY <1>3, <2>1 DEF NextSent
    <3>2. stored + EmbedBatch \in Nat BY <1>3
    <3> QED BY <1>3, <3>1, <3>2, SmallerOfTwo
  <2>3. PICK new : new = [at |-> IF next = chunks THEN "commit" ELSE "insert", chunks |-> chunks, sent |-> next] OBVIOUS
  <2>4. at = "insert" /\ embeddings' = embeddings BY <1>3, <1>9 DEF InsertBatch, Visible
  <2>5. embedder' = [embedder EXCEPT ![z] = new]
    <3>1. PICK then : then = IF next = chunks THEN "commit" ELSE "insert" OBVIOUS
    <3>2. embedder' = [embedder EXCEPT ![z] = [[embedder[z] EXCEPT !.sent = next] EXCEPT !.at = then]]
      BY <1>3, <1>9, <2>1, <3>1 DEF InsertBatch, EmbedInv
    <3>3. [embedder[z] EXCEPT !.sent = next] = [at |-> at, chunks |-> chunks, sent |-> next] BY <1>2
    <3>4. [[at |-> at, chunks |-> chunks, sent |-> next] EXCEPT !.at = then] = [at |-> then, chunks |-> chunks, sent |-> next]
      OBVIOUS
    <3>5. new = [at |-> then, chunks |-> chunks, sent |-> next] BY <2>3, <3>1
    <3> QED BY <3>2, <3>3, <3>4, <3>5
  <2>6. new \in [at : {"idle", "insert", "commit", "done", "failed"}, chunks : Nat, sent : Nat] BY <1>3, <2>2, <2>3
  <2>7. new.at # "done" /\ (new.at = "commit" => new.sent = new.chunks) BY <2>3
  <2>8. FoundOf(z)' = {} BY <1>4, <1>6, <2>4
  <2> QED BY <1>7, <2>4, <2>5, <2>6, <2>7, <2>8, OneCallMoves
<1>10. CASE CommitEmbed(z)
  <2>1. PICK new : new = [at |-> "done", chunks |-> chunks, sent |-> stored] OBVIOUS
  <2>2. at = "commit" /\ embeddings' = embeddings \cup RowsUpTo(z, chunks) BY <1>3, <1>5, <1>10 DEF CommitEmbed
  <2>3. embedder' = [embedder EXCEPT ![z] = new] 
    <3>1. embedder' = [embedder EXCEPT ![z] = [embedder[z] EXCEPT !.at = "done"]] BY <1>10 DEF CommitEmbed
    <3>2. [embedder[z] EXCEPT !.at = "done"] = new BY <1>2, <2>1
    <3> QED BY <3>1, <3>2
  <2>4. new \in [at : {"idle", "insert", "commit", "done", "failed"}, chunks : Nat, sent : Nat] BY <1>3, <2>1
  <2>5. \A row \in RowsUpTo(z, chunks) : row.by = z BY DEF RowsUpTo
  <2>6. FoundOf(z)' = RowsUpTo(z, chunks)
    <3>1. FoundOf(z)' = FoundOf(z) \cup RowsUpTo(z, chunks) BY <2>2, <2>5 DEF FoundOf
    <3> QED BY <1>4, <2>2, <3>1
  <2>7. new.at = "done" /\ new.chunks = chunks BY <2>1
  <2> QED BY <2>2, <2>3, <2>4, <2>5, <2>6, <2>7, OneCallMoves
<1>11. CASE EmbedFails(z)
  <2>1. PICK new : new = [at |-> "failed", chunks |-> chunks, sent |-> stored] OBVIOUS
  <2>2. at # "done" /\ embeddings' = embeddings BY <1>3, <1>11 DEF EmbedFails
  <2>3. embedder' = [embedder EXCEPT ![z] = new] 
    <3>1. embedder' = [embedder EXCEPT ![z] = [embedder[z] EXCEPT !.at = "failed"]] BY <1>11 DEF EmbedFails
    <3>2. [embedder[z] EXCEPT !.at = "failed"] = new BY <1>2, <2>1
    <3> QED BY <3>1, <3>2
  <2>4. new \in [at : {"idle", "insert", "commit", "done", "failed"}, chunks : Nat, sent : Nat] BY <1>3, <2>1
  <2>5. FoundOf(z)' = {} BY <1>4, <1>6, <2>2
  <2>6. new.at = "failed" BY <2>1
  <2> QED BY <1>7, <2>2, <2>3, <2>4, <2>5, <2>6, OneCallMoves
<1> QED BY <1>1, <1>8, <1>9, <1>10, <1>11

LEMMA EmbedWhole ==
  ASSUME EmbedInv
  PROVE  EmbeddingsAreWhole
<1> SUFFICES ASSUME NEW z \in Embedders
             PROVE  Cardinality(FoundOf(z)) = IF embedder[z].at = "done" THEN embedder[z].chunks ELSE 0
  BY DEF EmbeddingsAreWhole, FoundOf
<1>1. embedder[z].chunks \in Nat BY DEF EmbedInv
<1>2. CASE embedder[z].at = "done" BY <1>1, <1>2, RowsCounted DEF EmbedInv
<1>3. CASE embedder[z].at # "done"
  <2>1. FoundOf(z) = {} BY <1>3 DEF EmbedInv
  <2> QED BY <1>3, <2>1, FS_EmptySet
<1> QED BY <1>2, <1>3

-----------------------------------------------------------------------------
CodebaseInv == source \in Sources /\ IndexStoreInv /\ EmbedInv

LEMMA CodebaseStart ==
  ASSUME CodebaseInit
  PROVE  CodebaseInv
<1> USE CodebaseAssumption DEF CodebaseInit
<1>1. storedRoots \in Seq(Roots) /\ indices \in Seq(Roots) /\ Len(indices) = 0 /\ Len(storedRoots) = 0
  BY EmptySeq
<1>2. EverStored = {} /\ 1 .. Len(indices) = {} BY <1>1 DEF EverStored
<1>3. IndexStoreInv
  BY <1>1, <1>2, FS_EmptySet DEF IndexStoreInv, IndicesDiffer, InStoredOrder, LetGoOldest
<1>4. EmbedInv
  <2>1. \A z : FoundOf(z) = {} BY DEF FoundOf
  <2>2. \A z \in Embedders : embedder[z] = NotEmbedding OBVIOUS
  <2>3. NotEmbedding \in [at : {"idle", "insert", "commit", "done", "failed"}, chunks : Nat, sent : Nat]
        /\ NotEmbedding.at = "idle"
    BY DEF NotEmbedding
  <2> QED BY <2>1, <2>2, <2>3 DEF EmbedInv
<1> QED BY <1>3, <1>4 DEF CodebaseInv

LEMMA StoreStays ==
  ASSUME IndexStoreInv, indices' = indices, storedRoots' = storedRoots
  PROVE  IndexStoreInv'
<1>1. EverStored' = EverStored /\ Held' = Held BY DEF EverStored, Held
<1>2. \A m : SinceThen(m)' = SinceThen(m) BY DEF SinceThen
<1>3. \A root, m : LastAt(root, m)' = LastAt(root, m) BY DEF LastAt, TimesOf
<1>4. IndicesDiffer' BY DEF IndexStoreInv, IndicesDiffer
<1>5. InStoredOrder'
  <2> SUFFICES ASSUME NEW k \in 1 .. Len(indices)
               PROVE  \E m : LastAt(indices[k], m)' /\ SinceThen(m)' = {indices[j] : j \in k + 1 .. Len(indices)}
    BY DEF InStoredOrder
  <2>1. PICK m : LastAt(indices[k], m) /\ SinceThen(m) = {indices[j] : j \in k + 1 .. Len(indices)}
    BY DEF IndexStoreInv, InStoredOrder
  <2>2. LastAt(indices[k], m)' BY <2>1 DEF LastAt, TimesOf
  <2> QED BY <1>2, <2>1, <2>2
<1>6. LetGoOldest' BY <1>1, <1>2, <1>3 DEF IndexStoreInv, LetGoOldest
<1> QED BY <1>1, <1>4, <1>5, <1>6 DEF IndexStoreInv

LEMMA CodebaseStep ==
  ASSUME CodebaseInv, [IndexNext \/ EmbedNext]_codebaseVars
  PROVE  CodebaseInv'
<1> USE DEF CodebaseInv
<1>1. CASE IndexNext
  <2>1. PICK root \in Roots : IndexDirectory(root) BY <1>1 DEF IndexNext
  <2>2. IndexStoreInv' BY <2>1, StoringKeeps
  <2>3. source' = source /\ embeddings' = embeddings /\ embedder' = embedder BY <2>1 DEF IndexDirectory
  <2>4. EmbedInv' BY <2>3 DEF EmbedInv, FoundOf, RowsUpTo
  <2> QED BY <2>2, <2>3, <2>4
<1>2. CASE EmbedNext
  <2>1. source' = source /\ indices' = indices /\ storedRoots' = storedRoots
    BY <1>2 DEF EmbedNext, BeginEmbed, InsertBatch, CommitEmbed, EmbedFails, storeIndexVars
  <2>2. IndexStoreInv' BY <2>1, StoreStays
  <2> QED BY <1>2, <2>1, <2>2, EmbeddingKeeps
<1>3. CASE UNCHANGED codebaseVars
  <2>1. UNCHANGED <<source, indices, storedRoots, embeddings, embedder>> BY <1>3 DEF codebaseVars
  <2>2. IndexStoreInv' BY <2>1, StoreStays
  <2>3. EmbedInv' BY <2>1 DEF EmbedInv, FoundOf, RowsUpTo
  <2> QED BY <2>1, <2>2, <2>3
<1> QED BY <1>1, <1>2, <1>3

LEMMA CodebaseSays ==
  ASSUME CodebaseInv
  PROVE  IndexIsFaithful
BY TextStart, TextChunksNest, TextContextLeads, LatestStay, EmbedWhole DEF CodebaseInv, IndexIsFaithful

\* For every file, any number of directories and of calls that embed: the chunks of a file nest the
\* way its blocks do and take the comments that lead to them along (chunker.py), the store holds the
\* directories indexed last (index_store.py), and the embeddings of a directory are found all or not
\* at all (vector_store.py).
THEOREM IndexHolds == CodebaseSpec => []IndexIsFaithful
<1>1. CodebaseInit => CodebaseInv BY CodebaseStart
<1>2. CodebaseInv /\ [IndexNext \/ EmbedNext]_codebaseVars => CodebaseInv' BY CodebaseStep
<1>3. CodebaseInv => IndexIsFaithful BY CodebaseSays
<1> QED BY <1>1, <1>2, <1>3, PTL DEF CodebaseSpec
===============================================================================
