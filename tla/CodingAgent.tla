------------------------------ MODULE CodingAgent ------------------------------
(***************************************************************************)
(* The coding agent: the loop behind POST /agent/execute (Loops) and the   *)
(* Temporal workflow (Flows).  Both plan, generate, test in a sandbox,     *)
(* iterate, and commit to one shared git repository with separate git      *)
(* processes for add, commit and rev-parse; a workflow then moves the      *)
(* ledger's repo.commit_hash.  Files are paths whose content is the pair   *)
(* of the agent that generated it and the revision; prompts are left out.  *)
(***************************************************************************)
EXTENDS Naturals, Sequences, FiniteSets, SequencesExt

CONSTANTS
    Loops, Flows,    \* agents of the two kinds
    Paths,           \* files they may produce
    AgentRetries,      \* max_retries
    MaxCommitTries,  \* bound on Temporal's retries of commit_code
    MaxAgentCrashes, \* bound on worker crashes
    RunCapacity,     \* _MAX_RUN_STORE_SIZE
    MaxRuns          \* bound on the runs recorded by the focus on the run store

ASSUME RetriesAssumption == AgentRetries \in Nat /\ MaxCommitTries \in Nat
ASSUME CapacityAssumption == RunCapacity \in Nat /\ RunCapacity >= 2

VARIABLES
    run,       \* what each agent is doing
    worktree,  \* path -> content in the repository's working tree
    index,     \* path -> staged content
    commits,   \* the trees of the commits, oldest first
    repoState, \* repo.commit_hash of the ledger, as a position in commits
    runStore,  \* the agent ids of _run_store, oldest first
    recorded,  \* every run recorded so far, in order
    cleared,   \* history: contents the sandbox answered for without showing their agent a failure
    writers,   \* path -> the agents that wrote it
    agentCrashes

agentVars == <<run, worktree, index, commits, repoState, runStore, recorded, cleared, writers, agentCrashes>>

Agents == Loops \cup Flows
Nothing == <<>>
RunEnded == {"done", "raised"}
GitSteps == {"add", "gitcommit", "revparse"}

AgentRun ==
    [pc : {"plan", "generate", "test", "fix", "write", "publish", "record", "read", "propose"} \cup GitSteps \cup RunEnded,
     files : SUBSET Paths, rev : 0..(AgentRetries + 1), attempt : 0..AgentRetries,
     hash : Nat, old : Nat, accepted : BOOLEAN, tries : 0..MaxCommitTries]

AgentInit ==
    /\ run = [a \in Agents |-> [pc |-> "plan", files |-> {}, rev |-> 0, attempt |-> 0, hash |-> 0, old |-> 0,
                                accepted |-> FALSE, tries |-> 0]]
    /\ worktree = [p \in Paths |-> Nothing]
    /\ index = [p \in Paths |-> Nothing]
    /\ commits = <<>>
    /\ repoState = 0
    /\ runStore = <<>> /\ recorded = <<>>
    /\ cleared = {}
    /\ writers = [p \in Paths |-> {}]
    /\ agentCrashes = 0

repoVars == <<worktree, index, commits, writers>>
storeVars == <<runStore, recorded>>

GoTo(a, pc) == run' = [run EXCEPT ![a].pc = pc]
Content(a) == <<a, run[a].rev>>
Raise(a) == GoTo(a, "raised") /\ UNCHANGED <<repoVars, storeVars, repoState, cleared, agentCrashes>>

-----------------------------------------------------------------------------
\* Planning and generating

Plan(a) ==
    /\ run[a].pc = "plan"
    /\ GoTo(a, "generate")
    /\ UNCHANGED <<repoVars, storeVars, repoState, cleared, agentCrashes>>

\* _parse_files keeps one block for each path, the last; an answer without blocks yields no files.
ParsedAnswers == SUBSET Paths

\* The suspicious patterns found in the files are logged and nothing else.
Generate(a) ==
    /\ run[a].pc = "generate"
    /\ \E files \in ParsedAnswers :
           run' = [run EXCEPT ![a].pc = "test", ![a].files = files, ![a].rev = @ + 1]
    /\ UNCHANGED <<repoVars, storeVars, repoState, cleared, agentCrashes>>

FixErrors(a) ==
    /\ run[a].pc = "fix"
    /\ \E fixed \in ParsedAnswers :
           run' = [run EXCEPT ![a].pc = "test",
                              ![a].files = IF fixed = {} THEN @ ELSE fixed,
                              ![a].rev = IF fixed = {} THEN @ ELSE @ + 1]
    /\ UNCHANGED <<repoVars, storeVars, repoState, cleared, agentCrashes>>

-----------------------------------------------------------------------------
\* The sandbox: a result for each of the two commands, or for fewer when it was cut short

CommandResults == {"ok", "failed", "failedSilently"}
SandboxAnswers == {<<>>} \cup {<<c>> : c \in CommandResults} \cup (CommandResults \X CommandResults)

\* Fault: the loop looks at the last command only.
CollectErrorsOfTheLast(result) == result # <<>> /\ Last(result) = "failed"
\* Only the output of a failing command yields errors.
CollectErrors(result) == "failed" \in Range(result)

\* The workflow looks at the exit codes.
AllPassed(result) == Range(result) \subseteq {"ok"}

Accepted(a, result) == IF a \in Loops THEN ~CollectErrors(result) ELSE AllPassed(result)

\* What an agent can see of a failure: a workflow an exit code, a loop the output of the command.
\* A command that fails silently shows a loop nothing, and no command at all shows neither anything.
ShowsFailure(a, result) ==
    \E k \in DOMAIN result :
        result[k] \in (IF a \in Loops THEN {"failed"} ELSE {"failed", "failedSilently"})

AfterTestOneMore(a, ok) ==
    IF ~ok /\ run[a].attempt = AgentRetries /\ a \in Loops THEN [run[a] EXCEPT !.pc = "write"]
    ELSE IF ok THEN [run[a] EXCEPT !.pc = "write"]
    ELSE IF run[a].attempt < AgentRetries
         THEN [run[a] EXCEPT !.pc = IF a \in Loops THEN "fix" ELSE "generate", !.attempt = @ + 1]
         ELSE [run[a] EXCEPT !.pc = "done"]

\* Where an agent goes after a test: to the commit, to another attempt or to the end.
AfterTest(a, ok) ==
    IF ok THEN [run[a] EXCEPT !.pc = "write"]
    ELSE IF run[a].attempt < AgentRetries
         THEN [run[a] EXCEPT !.pc = IF a \in Loops THEN "fix" ELSE "generate", !.attempt = @ + 1]
         ELSE [run[a] EXCEPT !.pc = IF a \in Loops THEN "publish" ELSE "done"]

TestInSandbox(a) ==
    /\ run[a].pc = "test"
    /\ \E result \in SandboxAnswers :
           /\ run' = [run EXCEPT ![a] = AfterTest(a, Accepted(a, result))]
           /\ cleared' = IF ShowsFailure(a, result) THEN cleared ELSE cleared \cup {Content(a)}
    /\ UNCHANGED <<repoVars, storeVars, repoState, agentCrashes>>

\* The loop lets a failing call of the LLM or the sandbox out; the workflow's activity is retried.
CallFails(a) == a \in Loops /\ run[a].pc \in {"plan", "generate", "test", "fix"} /\ Raise(a)

-----------------------------------------------------------------------------
\* GitCommitter.commit

CommitFailsAgain(a) == [run[a] EXCEPT !.pc = "write"]

\* GitCommitError: the loop goes on without a hash, the activity is tried again.
CommitFails(a) ==
    IF a \in Loops THEN [run[a] EXCEPT !.pc = "publish"]
    ELSE [run[a] EXCEPT !.pc = "write", !.tries = @ + 1]

RetriesLeft(a) == a \in Flows => run[a].tries < MaxCommitTries

\* The directory is no repository, a path leaves it, or there are no files: nothing is written.
RefuseCommit(a) ==
    /\ run[a].pc = "write" /\ RetriesLeft(a)
    /\ run' = [run EXCEPT ![a] = CommitFails(a)]
    /\ UNCHANGED <<repoVars, storeVars, repoState, cleared, agentCrashes>>

WriteFiles(a) ==
    /\ run[a].pc = "write" /\ run[a].files # {}
    /\ GoTo(a, "add")
    /\ worktree' = [p \in Paths |-> IF p \in run[a].files THEN Content(a) ELSE worktree[p]]
    /\ writers' = [p \in Paths |-> IF p \in run[a].files THEN writers[p] \cup {a} ELSE writers[p]]
    /\ UNCHANGED <<index, commits, storeVars, repoState, cleared, agentCrashes>>

\* git add stages what the working tree holds by now.
GitAdd(a) ==
    /\ run[a].pc = "add"
    /\ GoTo(a, "gitcommit")
    /\ index' = [p \in Paths |-> IF p \in run[a].files THEN worktree[p] ELSE index[p]]
    /\ UNCHANGED <<worktree, commits, writers, storeVars, repoState, cleared, agentCrashes>>

HeadTree == IF commits = <<>> THEN [p \in Paths |-> Nothing] ELSE Last(commits)

\* git commit takes the whole index, whoever staged it.
GitCommit(a) ==
    /\ run[a].pc = "gitcommit" /\ index # HeadTree
    /\ GoTo(a, "revparse")
    /\ commits' = Append(commits, index)
    /\ UNCHANGED <<worktree, index, writers, storeVars, repoState, cleared, agentCrashes>>

\* Another agent committed what this one staged, or its git process holds index.lock.
GitFails(a) ==
    /\ run[a].pc \in {"add", "gitcommit"} /\ RetriesLeft(a)
    /\ \/ run[a].pc = "gitcommit" /\ index = HeadTree
       \/ \E b \in Agents \ {a} : run[b].pc \in {"add", "gitcommit"}
    /\ run' = [run EXCEPT ![a] = CommitFails(a)]
    /\ UNCHANGED <<repoVars, storeVars, repoState, cleared, agentCrashes>>

RevParseLost(a) ==
    /\ run[a].pc = "revparse"
    /\ run' = [run EXCEPT ![a].pc = IF a \in Loops THEN "publish" ELSE "read"]
    /\ UNCHANGED <<repoVars, storeVars, repoState, cleared, agentCrashes>>

RevParseFirst(a) ==
    /\ run[a].pc = "revparse"
    /\ run' = [run EXCEPT ![a].pc = IF a \in Loops THEN "publish" ELSE "read", ![a].hash = Len(commits) - 1]
    /\ UNCHANGED <<repoVars, storeVars, repoState, cleared, agentCrashes>>

\* HEAD by now, which need not be this agent's commit.
RevParse(a) ==
    /\ run[a].pc = "revparse"
    /\ run' = [run EXCEPT ![a].pc = IF a \in Loops THEN "publish" ELSE "read", ![a].hash = Len(commits)]
    /\ UNCHANGED <<repoVars, storeVars, repoState, cleared, agentCrashes>>

-----------------------------------------------------------------------------
\* The end of a loop: the event, then the run store

PublishRunCompleted(a) ==
    /\ a \in Loops /\ run[a].pc = "publish"
    /\ GoTo(a, "record")
    /\ UNCHANGED <<repoVars, storeVars, repoState, cleared, agentCrashes>>

\* The commit is made and the caller gets an error.
PublishFails(a) == a \in Loops /\ run[a].pc = "publish" /\ Raise(a)

PrunedNewest(store) ==
    IF Len(store) >= RunCapacity THEN SubSeq(store, 1, Len(store) - (RunCapacity \div 2)) ELSE store

PrunedLate(store) ==
    IF Len(store) > RunCapacity THEN SubSeq(store, (RunCapacity \div 2) + 1, Len(store)) ELSE store

\* The oldest half goes when the store is full.
Pruned(store) ==
    IF Len(store) >= RunCapacity THEN SubSeq(store, (RunCapacity \div 2) + 1, Len(store)) ELSE store

RecordRun(id) ==
    /\ runStore' = Append(Pruned(runStore), id)
    /\ recorded' = Append(recorded, id)

ExecuteReturns(a) ==
    /\ a \in Loops /\ run[a].pc = "record"
    /\ GoTo(a, "done")
    /\ RecordRun(a)
    /\ UNCHANGED <<repoVars, repoState, cleared, agentCrashes>>

\* A run of no further interest: only its record is followed.
ExecuteAnother ==
    /\ Len(recorded) < MaxRuns
    /\ RecordRun(Len(recorded))
    /\ UNCHANGED <<run, repoVars, repoState, cleared, agentCrashes>>

-----------------------------------------------------------------------------
\* update_world_state: read the ledger, propose the hash over what was read, commit the proposal

ReadWorldState(a) ==
    /\ run[a].pc = "read"
    /\ run' = [run EXCEPT ![a].pc = "propose", ![a].old = repoState]
    /\ UNCHANGED <<repoVars, storeVars, repoState, cleared, agentCrashes>>

\* The ledger accepts a proposal whose old_value is current.
Proposed(a) == IF repoState = run[a].old THEN run[a].hash ELSE repoState

CommitProposal(a) ==
    /\ run[a].pc = "propose"
    /\ run' = [run EXCEPT ![a].pc = "done", ![a].accepted = repoState = run[a].old]
    /\ repoState' = Proposed(a)
    /\ UNCHANGED <<repoVars, storeVars, cleared, agentCrashes>>

\* An httpx error ends the workflow normally, as if without an update; the answer may have been
\* lost after the ledger accepted it.
WorldStateFails(a) ==
    /\ run[a].pc \in {"read", "propose"}
    /\ GoTo(a, "done")
    /\ repoState' \in {repoState} \cup (IF run[a].pc = "propose" THEN {Proposed(a)} ELSE {})
    /\ UNCHANGED <<repoVars, storeVars, cleared, agentCrashes>>

\* A worker dies in an activity, perhaps after the ledger accepted the proposal; Temporal runs the
\* activity again from its start.
WorkerCrash(a) ==
    /\ a \in Flows /\ agentCrashes < MaxAgentCrashes
    /\ agentCrashes' = agentCrashes + 1
    /\ \/ run[a].pc \in GitSteps /\ run[a].tries < MaxCommitTries
          /\ run' = [run EXCEPT ![a].pc = "write", ![a].tries = @ + 1]
          /\ UNCHANGED repoState
       \/ run[a].pc = "propose" /\ GoTo(a, "read")
          /\ repoState' \in {repoState, Proposed(a)}
    /\ UNCHANGED <<repoVars, storeVars, cleared>>

-----------------------------------------------------------------------------
AgentStep(a) ==
    \/ Plan(a) \/ Generate(a) \/ TestInSandbox(a) \/ FixErrors(a) \/ CallFails(a)
    \/ RefuseCommit(a) \/ WriteFiles(a) \/ GitAdd(a) \/ GitCommit(a) \/ GitFails(a) \/ RevParse(a)
    \/ PublishRunCompleted(a) \/ PublishFails(a) \/ ExecuteReturns(a)
    \/ ReadWorldState(a) \/ CommitProposal(a) \/ WorldStateFails(a)

RepositoryNext(agents) == \E a \in agents : AgentStep(a) \/ WorkerCrash(a)
RunStoreNext == ExecuteAnother

AgentSpec == AgentInit /\ [][RepositoryNext(Agents) \/ RunStoreNext]_agentVars

-----------------------------------------------------------------------------
Trees == [Paths -> {Nothing} \cup (Agents \X (1..(AgentRetries + 1)))]

\* The variables keep their types, and the run store of routes.py never exceeds its maximal size.
AgentTypeOK ==
    /\ run \in [Agents -> AgentRun]
    /\ worktree \in Trees /\ index \in Trees /\ Range(commits) \subseteq Trees
    /\ repoState \in 0..Len(commits)
    /\ Len(runStore) <= RunCapacity

\* Whatever the agents interleave in the shared repository, its working tree, its index and its
\* commits hold only revisions that the sandbox answered for without showing their agent a failure,
\* never a later one.  It does not say that a command ran (all() of no results is true, workflows.py)
\* nor, for a loop, that none failed without output (_collect_errors).
CommittedWasCleared ==
    \A tree \in {worktree, index} \cup Range(commits) : \A p \in Paths : tree[p] \in {Nothing} \cup cleared

\* The hash an agent reports names a commit that holds its work: every file nobody else wrote is in
\* it in the revision it kept, also when other agents commit in between or the commit is retried.
ReportedHashHoldsTheWork ==
    \A a \in Agents : run[a].hash # 0 =>
        \A p \in run[a].files : writers[p] = {a} => commits[run[a].hash][p] = Content(a)

\* The ledger names a commit some workflow reported, and a workflow told that its update was accepted
\* finds its hash or a later update in the ledger: no accepted update is lost (update_world_state).
AcceptedUpdatesCount ==
    /\ repoState # 0 => \E a \in Flows : run[a].hash = repoState
    /\ (\E a \in Flows : run[a].accepted) => repoState # 0

\* Pruning the run store keeps the newer half: a status request for one of them finds it.
RecentRunsAreKept ==
    LET recent == RunCapacity - (RunCapacity \div 2)
        from == IF Len(recorded) > recent THEN Len(recorded) - recent + 1 ELSE 1
    IN Range(SubSeq(recorded, from, Len(recorded))) \subseteq Range(runStore)

\* Every loop returns or raises, whatever the sandbox and git answer: attempts are bounded.
LoopsEnd == []<>(\A a \in Loops : run[a].pc \in {"plan"} \cup RunEnded)

\* With agents that interleave in one repository, crash and retry: what is committed showed no failure
\* in the sandbox, what is reported is there, accepted updates and recent runs are not lost.
WorkIsKept ==
    /\ AgentTypeOK
    /\ CommittedWasCleared
    /\ ReportedHashHoldsTheWork
    /\ AcceptedUpdatesCount
    /\ RecentRunsAreKept
=============================================================================
