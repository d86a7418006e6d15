--------------------------- MODULE WorldStateLedger ---------------------------
(***************************************************************************)
(* The World State Ledger service: StateManager (state_manager.py) over    *)
(* its PostgreSQL tables `world_state_ledger` and `proposals` and over the *)
(* Redis StateCache (cache.py).                                            *)
(*                                                                         *)
(* A worker is one request being served.  Every `await` between two        *)
(* accesses to shared state is a point where other workers run, so each    *)
(* coroutine is a sequence of actions linked by pc:                        *)
(*                                                                         *)
(*   get_current          idle -> (hit) idle | load -> fill -> idle        *)
(*   submit_proposal      get_current, then insert -> announce -> idle     *)
(*   validate_and_commit  idle -> select -> lock -> decide ->              *)
(*                          sayRejected -> idle                            *)
(*                        | setCache -> sayAccepted -> sayUpdated -> idle  *)
(*                                                                         *)
(* Sessions run at PostgreSQL's default READ COMMITTED level.              *)
(***************************************************************************)
EXTENDS LedgerData

CONSTANTS
    Workers,             \* concurrent requests (API handlers, activities)
    Proposals,           \* proposal ids; one id is submitted at most once
    CheckpointInterval   \* _CHECKPOINT_INTERVAL

ASSUME CheckpointIntervalAssumption == CheckpointInterval \in Nat \ {0}

VARIABLES
    ledger,     \* table world_state_ledger: version -> row
    proposals,  \* table proposals: id -> row
    cache,      \* wsl:current_state and wsl:current_version, or None
    events,     \* events published so far
    pc,         \* where each worker is
    req,        \* what each worker holds in its local variables
    held        \* ledger row each worker holds FOR UPDATE (0: none)

vars == <<ledger, proposals, cache, events, pc, req, held>>

-----------------------------------------------------------------------------
(* Reading the ledger. *)

Versions == DOMAIN ledger
Latest   == IF Versions = {} THEN 0 ELSE Max(Versions)

\* Nearest checkpoint at or before v; 0 stands for the pristine state.
NearestCheckpoint(v) ==
    LET found == {c \in Versions : c <= v /\ ledger[c].checkpoint}
    IN  IF found = {} THEN 0 ELSE Max(found)

\* Rows replayed on top of checkpoint c that write field f.
Writers(f, c, v) ==
    {i \in Versions : c < i /\ i <= v /\ Decisive(ledger[i].mutations, f) # 0}

\* The replay loop of get_version and _reconstruct_version: rows are applied in
\* version order, so the last one that writes a field decides it.  (The loop's
\* branch for a checkpoint among the rows never runs: c is the nearest one.)
Reconstruct(v) ==
    LET c == NearestCheckpoint(v)
        start == IF c = 0 THEN Pristine ELSE ledger[c].snapshot
    IN  [f \in Fields |->
            IF Writers(f, c, v) = {}
            THEN start[f]
            ELSE ApplyMutations(start, ledger[Max(Writers(f, c, v))].mutations)[f]]

\* get_version raises LedgerVersionNotFoundError: no delta row to replay.
VersionNotFound(v) ==
    LET c == NearestCheckpoint(v)
    IN  c # v /\ ~ \E d \in Versions : c < d /\ d <= v

-----------------------------------------------------------------------------
Steps == {"idle", "load", "fill", "insert", "announce", "select", "lock", "decide",
          "sayRejected", "setCache", "sayAccepted", "sayUpdated"}

\* The locals of a coroutine that has not looked at any state yet ...
NewRequest(op, p, ms) ==
    [op |-> op, prop |-> p, muts |-> ms, state |-> Pristine, version |-> 0]

NoRequest == NewRequest("none", None, <<>>)

\* ... and once state s of version v is in hand.
WithState(r, s, v) ==
    [op |-> r.op, prop |-> r.prop, muts |-> r.muts, state |-> s, version |-> v]

Init ==
    /\ ledger = <<>>
    /\ proposals = [p \in Proposals |->
                       [verdict |-> "absent", muts |-> <<>>, before |-> 0, after |-> 0]]
    /\ cache = None
    /\ events = {}
    /\ pc = [w \in Workers |-> "idle"]
    /\ req = [w \in Workers |-> NoRequest]
    /\ held = [w \in Workers |-> 0]

Goto(w, step) == pc' = [pc EXCEPT ![w] = step]

\* The coroutine ends: locals are gone and the session gives up its row lock.
Return(w) ==
    /\ Goto(w, "idle")
    /\ req' = [req EXCEPT ![w] = NoRequest]
    /\ held' = [held EXCEPT ![w] = 0]

Emit(type, p, v) == events' = events \cup {[type |-> type, prop |-> p, version |-> v]}

-----------------------------------------------------------------------------
(* get_current, alone or as the first step of submit_proposal. *)

\* The world state is in hand: a read is over, a submission goes on to insert.
\* The argument r is the request's locals with the state found.
GotState(w, r) ==
    IF r.op = "read"
    THEN Return(w)
    ELSE /\ Goto(w, "insert")
         /\ req' = [req EXCEPT ![w] = r]
         /\ UNCHANGED held

\* get_current begins: a hit returns the cached state; a miss, or the 20 %
\* early expiry of StateCache.get_current_state, goes to the database.
BeginRead(w, r) ==
    /\ pc[w] = "idle"
    /\ \/ /\ cache # None
          /\ GotState(w, WithState(r, cache.state, cache.version))
       \/ /\ Goto(w, "load")
          /\ req' = [req EXCEPT ![w] = r]
          /\ UNCHANGED held
    /\ UNCHANGED <<ledger, proposals, cache, events>>

GetCurrent(w) == BeginRead(w, NewRequest("read", None, <<>>))

\* submit_proposal(proposal): the id and the mutation list are the client's.
SubmitProposal(w, p, ms) ==
    /\ proposals[p].verdict = "absent"
    /\ \A u \in Workers : req[u].op = "submit" => req[u].prop # p
    /\ BeginRead(w, NewRequest("submit", p, ms))

\* Cache miss: load the latest row, replaying it from its checkpoint.
LoadFromDb(w) ==
    /\ pc[w] = "load"
    /\ Goto(w, "fill")
    /\ req' = [req EXCEPT ![w] = WithState(req[w], Reconstruct(Latest), Latest)]
    /\ UNCHANGED <<ledger, proposals, cache, events, held>>

\* Fault: the label is read again when the cache is written.
CacheRecordRelabelled(s, v) == [state |-> s, version |-> Latest]

\* StateCache.set_current_state, in one MULTI/EXEC.
CacheRecord(s, v) == [state |-> s, version |-> v]

FillCache(w) ==
    /\ pc[w] = "fill"
    /\ cache' = CacheRecord(req[w].state, req[w].version)
    /\ GotState(w, req[w])
    /\ UNCHANGED <<ledger, proposals, events>>

\* submit_proposal persists the row, stamped with the version it read.
InsertProposal(w) ==
    /\ pc[w] = "insert"
    /\ proposals' = [proposals EXCEPT ![req[w].prop] =
                        [verdict |-> "pending", muts |-> req[w].muts,
                         before |-> req[w].version, after |-> 0]]
    /\ Goto(w, "announce")
    /\ UNCHANGED <<ledger, cache, events, req, held>>

AnnounceProposal(w) ==
    /\ pc[w] = "announce"
    /\ Emit("created", req[w].prop, 0)
    /\ Return(w)
    /\ UNCHANGED <<ledger, proposals, cache>>

-----------------------------------------------------------------------------
(* validate_and_commit. *)

\* Load the proposal row; one already resolved, or missing, ends the call.
BeginCommit(w, p) ==
    /\ pc[w] = "idle"
    /\ proposals[p].verdict = "pending"
    /\ Goto(w, "select")
    /\ req' = [req EXCEPT ![w] = NewRequest("commit", p, <<>>)]
    /\ UNCHANGED <<ledger, proposals, cache, events, held>>

\* SELECT ... ORDER BY version DESC LIMIT 1 FOR UPDATE, first half: the
\* statement's snapshot picks the latest row.  An empty table locks nothing.
SelectLatest(w) ==
    /\ pc[w] = "select"
    /\ req' = [req EXCEPT ![w] = WithState(req[w], req[w].state, Latest)]
    /\ Goto(w, IF Latest = 0 THEN "decide" ELSE "lock")
    /\ UNCHANGED <<ledger, proposals, cache, events, held>>

\* Second half: wait for the row lock.  Rows are never updated, so PostgreSQL
\* hands over the row first picked even if a newer one was committed meanwhile.
LockRow(w) ==
    /\ pc[w] = "lock"
    /\ \A u \in Workers : held[u] # req[w].version
    /\ held' = [held EXCEPT ![w] = req[w].version]
    /\ Goto(w, "decide")
    /\ UNCHANGED <<ledger, proposals, cache, events, req>>

\* Fault: the guard is dropped.
LedgerMovedUnchecked(w) == FALSE

\* The optimistic concurrency guard: the state moved since the proposal.
LedgerMoved(w) == req[w].version # proposals[req[w].prop].before

NextVersion(w) == req[w].version + 1

\* OptimisticConcurrencyError, a pydantic ValidationError from
\* _apply_mutations, or the primary key refusing a version that another
\* transaction committed first: the session rolls back and the call raises.
CommitRaises(w) ==
    LET ms == proposals[req[w].prop].muts
        s  == Reconstruct(req[w].version)
    IN  \/ LedgerMoved(w)
        \/ /\ ValidateMutations(s, ms)
           /\ Unparsable(ms) \/ NextVersion(w) \in Versions

\* Fault: the exception is swallowed and the call goes on to publish.
CommitErrorSwallowed(w) ==
    /\ pc[w] = "decide"
    /\ CommitRaises(w)
    /\ Goto(w, "sayAccepted")
    /\ held' = [held EXCEPT ![w] = 0]
    /\ UNCHANGED <<ledger, proposals, cache, events, req>>

\* Fault: the error path leaves the session, and its row lock, open.
CommitErrorKeepsLock(w) ==
    /\ pc[w] = "decide"
    /\ CommitRaises(w)
    /\ Goto(w, "idle")
    /\ req' = [req EXCEPT ![w] = NoRequest]
    /\ UNCHANGED <<ledger, proposals, cache, events, held>>

CommitError(w) ==
    /\ pc[w] = "decide"
    /\ CommitRaises(w)
    /\ Return(w)
    /\ UNCHANGED <<ledger, proposals, cache, events>>

\* The verdict and the version made, if any, are written to the proposal's row.
Resolve(p, verdict, after) ==
    proposals' = [proposals EXCEPT ![p] =
                     [verdict |-> verdict, muts |-> proposals[p].muts,
                      before |-> proposals[p].before, after |-> after]]

\* Mutations not valid: the verdict is written and committed.
Reject(w) ==
    LET p == req[w].prop
    IN  /\ pc[w] = "decide"
        /\ ~ LedgerMoved(w)
        /\ ~ ValidateMutations(Reconstruct(req[w].version), proposals[p].muts)
        /\ Resolve(p, "rejected", proposals[p].after)
        /\ held' = [held EXCEPT ![w] = 0]
        /\ Goto(w, "sayRejected")
        /\ UNCHANGED <<ledger, cache, events, req>>

\* Fault: the snapshot is taken before the mutations are applied.
NewRowEarlySnapshot(v, s, p) ==
    [mutations  |-> proposals[p].muts,
     checkpoint |-> v % CheckpointInterval = 0,
     snapshot   |-> IF v % CheckpointInterval = 0 THEN Reconstruct(v - 1) ELSE None,
     proposal   |-> p]

\* The row of a new version: every CheckpointInterval-th one has a snapshot.
NewRow(v, s, p) ==
    [mutations  |-> proposals[p].muts,
     checkpoint |-> v % CheckpointInterval = 0,
     snapshot   |-> IF v % CheckpointInterval = 0 THEN s ELSE None,
     proposal   |-> p]

\* The new version and the verdict are committed in one transaction.
Accept(w) ==
    LET p == req[w].prop
        v == NextVersion(w)
        s == ApplyMutations(Reconstruct(req[w].version), proposals[p].muts)
    IN  /\ pc[w] = "decide"
        /\ ~ CommitRaises(w)
        /\ ValidateMutations(Reconstruct(req[w].version), proposals[p].muts)
        /\ ledger' = [n \in Versions \cup {v} |-> IF n = v THEN NewRow(v, s, p) ELSE ledger[n]]
        /\ Resolve(p, "accepted", v)
        /\ req' = [req EXCEPT ![w] = WithState(req[w], s, v)]
        /\ held' = [held EXCEPT ![w] = 0]
        /\ Goto(w, "setCache")
        /\ UNCHANGED <<cache, events>>

PublishRejected(w) ==
    /\ pc[w] = "sayRejected"
    /\ Emit("rejected", req[w].prop, 0)
    /\ Return(w)
    /\ UNCHANGED <<ledger, proposals, cache>>

\* Step 6, after the commit and outside the transaction.
UpdateCache(w) ==
    /\ pc[w] = "setCache"
    /\ cache' = CacheRecord(req[w].state, req[w].version)
    /\ Goto(w, "sayAccepted")
    /\ UNCHANGED <<ledger, proposals, events, req, held>>

\* Step 7: two separate publications.
PublishAccepted(w) ==
    /\ pc[w] = "sayAccepted"
    /\ Emit("accepted", req[w].prop, req[w].version)
    /\ Goto(w, "sayUpdated")
    /\ UNCHANGED <<ledger, proposals, cache, req, held>>

PublishUpdated(w) ==
    /\ pc[w] = "sayUpdated"
    /\ Emit("updated", req[w].prop, req[w].version)
    /\ Return(w)
    /\ UNCHANGED <<ledger, proposals, cache>>

-----------------------------------------------------------------------------
(* The environment. *)

\* The process dies, or Redis or PostgreSQL fails the pending await: the
\* coroutine is gone and an open transaction is rolled back.
Crash(w) ==
    /\ pc[w] # "idle"
    /\ Return(w)
    /\ UNCHANGED <<ledger, proposals, cache, events>>

\* The 300 s TTL runs out, or StateCache.invalidate.
CacheExpires ==
    /\ cache # None
    /\ cache' = None
    /\ UNCHANGED <<ledger, proposals, events, pc, req, held>>

Continue(w) ==
    \/ LoadFromDb(w) \/ FillCache(w) \/ InsertProposal(w) \/ AnnounceProposal(w)
    \/ SelectLatest(w) \/ LockRow(w) \/ CommitError(w) \/ Reject(w) \/ Accept(w)
    \/ PublishRejected(w) \/ UpdateCache(w) \/ PublishAccepted(w) \/ PublishUpdated(w)

Next ==
    \/ \E w \in Workers :
          \/ GetCurrent(w)
          \/ \E p \in Proposals : BeginCommit(w, p)
          \/ \E p \in Proposals, ms \in MutationLists : SubmitProposal(w, p, ms)
          \/ Continue(w)
          \/ Crash(w)
    \/ CacheExpires

Spec == Init /\ [][Next]_vars

\* A coroutine that can run is run: the event loop is fair, PostgreSQL queues
\* lock waiters, and a call that waits on the network returns or raises.
FairSpec == Spec /\ \A w \in Workers : SF_vars(LockRow(w)) /\ WF_vars(Continue(w))

-----------------------------------------------------------------------------
(* Properties. *)

Row == [mutations : MutationLists, checkpoint : BOOLEAN,
        snapshot : WorldStates \cup {None}, proposal : Proposals]

ProposalRow == [verdict : {"absent", "pending", "accepted", "rejected"},
                muts : MutationLists \cup {<<>>}, before : Nat, after : Nat]

CacheEntry == [state : WorldStates, version : Nat]

Event == [type : {"created", "rejected", "accepted", "updated"}, prop : Proposals, version : Nat]

Request == [op : {"none", "read", "submit", "commit"}, prop : Proposals \cup {None},
            muts : MutationLists \cup {<<>>}, state : WorldStates, version : Nat]

\* Versions are consecutive, and every table row, message and local has its type.
TypeOK ==
    /\ Latest \in Nat /\ Versions = 1..Latest /\ ledger \in [Versions -> Row]
    /\ proposals \in [Proposals -> ProposalRow]
    /\ cache \in CacheEntry \cup {None}
    /\ events \subseteq Event
    /\ pc \in [Workers -> Steps]
    /\ req \in [Workers -> Request]
    /\ held \in [Workers -> Nat]

\* Two racing commits may both have selected the same latest row (FOR UPDATE
\* hands out a stale row after a wait).  Still every version was computed on
\* top of the one just before it, by the proposal that was created at that
\* version, with old values that matched there: no update is lost.
NoLostUpdate ==
    \A v \in Versions :
        LET p == ledger[v].proposal
        IN  /\ proposals[p].before = v - 1
            /\ OldValuesMatch(Reconstruct(v - 1), ledger[v].mutations)

\* A proposal makes a version if and only if it is accepted, and then exactly
\* one, however many callers run validate_and_commit on it at once.
AcceptedExactlyOnce ==
    \A p \in Proposals :
        LET made == {v \in Versions : ledger[v].proposal = p}
        IN  made = IF proposals[p].verdict = "accepted" THEN {proposals[p].after} ELSE {}

\* Delta storage is lossless: every version read through its nearest checkpoint
\* is the state obtained by replaying all mutations since the pristine state.
CheckpointsAgreeWithReplay ==
    LET full[v \in 0..Latest] ==
            IF v = 0 THEN Pristine ELSE ApplyMutations(full[v - 1], ledger[v].mutations)
    IN  \A v \in 0..Latest : ~ VersionNotFound(v) /\ Reconstruct(v) = full[v]

\* Whatever order cache writes land in, the cache holds a state the ledger
\* really had, labelled with its own version, never one not yet committed.
CacheHoldsACommittedState ==
    cache # None => cache.version <= Latest /\ cache.state = Reconstruct(cache.version)

\* Events are published after the commit: no subscriber hears of a verdict or
\* of a version that the database does not have.
EventsAreTrue ==
    \A e \in events :
        /\ e.type = "created"  => proposals[e.prop].verdict # "absent"
        /\ e.type = "rejected" => proposals[e.prop].verdict = "rejected"
        /\ e.type \in {"accepted", "updated"} =>
              e.version \in Versions /\ ledger[e.version].proposal = e.prop

\* The budget constraint of _validate_mutations holds of every version, whatever was
\* proposed and accepted in between, unless a budget was sent as a string: the
\* constraint looks only at numbers, and pydantic then parses the string.
OverdraftsAreRefused ==
    \A v \in Versions :
        Reconstruct(v)[Remaining] >= 0 \/
        \E u \in 1 .. v : \E i \in DOMAIN ledger[u].mutations :
            ledger[u].mutations[i].path = Remaining /\ ledger[u].mutations[i].new.kind = "text"

\* The ledger is append-only and a verdict is final.
HistoryIsFinal ==
    [][/\ \A v \in Versions : v \in Versions' /\ ledger'[v] = ledger[v]
       /\ \A p \in Proposals :
             proposals[p].verdict \in {"accepted", "rejected"} => proposals'[p] = proposals[p]]_vars

\* Every request ends, whatever its competitors do with the row lock.
RequestsEnd == \A w \in Workers : pc[w] # "idle" ~> pc[w] = "idle"

Abstract ==
    INSTANCE LedgerAbstract
    WITH history <- [i \in 1..Latest + 1 |-> Reconstruct(i - 1)],
         verdict <- [p \in Proposals |-> proposals[p].verdict]

\* The service implements the linear history of LedgerAbstract.
ImplementsAbstract == Abstract!Spec
=============================================================================
