----------------------- MODULE WorldStateLedger_proofs ------------------------
(***************************************************************************)
(* Proofs about WorldStateLedger, for any number of workers, proposals and *)
(* fields, any mutation lists and any checkpoint interval.                 *)
(*                                                                         *)
(* The argument: rows are only appended, so what a version reconstructs to *)
(* never changes (ReconstructStable).  A verdict is therefore determined   *)
(* by the version the proposal was made at (ProposalsOK), and two callers  *)
(* that decide on the same proposal cannot disagree.  A row can only be    *)
(* added on top of the latest one: the primary key refuses any other.      *)
(***************************************************************************)
EXTENDS WorldStateLedger, WellFoundedInduction, SequenceTheorems, TLAPS

-----------------------------------------------------------------------------
(* Maxima of bounded sets of naturals. *)

\* A non-empty set of naturals has a least element.
LEMMA LeastNatural ==
    ASSUME NEW S, S \subseteq Nat, S # {}
    PROVE  \E x \in S : \A y \in S : x <= y
<1> DEFINE Less == OpToRel(<, Nat)
<1>1. \A x, y \in Nat : x < y => <<x, y>> \in Less
    BY DEF OpToRel
<1>2. IsWellFoundedOn(Less, Nat)
    BY NatLessThanWellFounded
<1> HIDE DEF Less
<1>3. PICK x \in S : \A y \in S : ~ (<<y, x>> \in Less)
    BY <1>2, WFMin
<1>4. \A y \in S : ~ (y < x)
    BY <1>1, <1>3
<1>5. QED
    BY <1>4

\* Max is the maximum of a non-empty bounded set: what `ORDER BY version DESC
\* LIMIT 1` returns.
LEMMA MaxIsGreatest ==
    ASSUME NEW S, S \subseteq Nat, S # {}, NEW b \in Nat, \A x \in S : x <= b
    PROVE  Max(S) \in S /\ \A y \in S : y <= Max(S)
<1> DEFINE D == {b - x : x \in S}
<1>1. D \subseteq Nat
    OBVIOUS
<1>2. D # {}
    OBVIOUS
<1>3. PICK d \in D : \A e \in D : d <= e
    BY <1>1, <1>2, LeastNatural
<1>4. PICK x \in S : d = b - x
    BY <1>3
<1>5. \A y \in S : b - x <= b - y
    BY <1>3, <1>4
<1>6. \A y \in S : x >= y
    BY <1>5
<1>7. \A y \in S : Max(S) \in S /\ Max(S) >= y
    BY <1>6 DEF Max
<1>8. QED
    BY <1>7, <1>6

-----------------------------------------------------------------------------
(* The data operations keep world states well typed. *)

\* The mutation that decides a field is one of the list.
LEMMA DecisiveType ==
    ASSUME NEW ms \in MutationLists \cup {<<>>}, NEW f
    PROVE  /\ Decisive(ms, f) \in Nat
           /\ Decisive(ms, f) # 0 => ms[Decisive(ms, f)] \in Mutations
<1> DEFINE at == {i \in DOMAIN ms : ms[i].path = f}
<1>1. ms \in Seq(Mutations)
    <2>1. <<>> \in Seq(Mutations)
        OBVIOUS
    <2>2. QED
        BY <2>1, MutationListsAssumption, Zenon
<1>2. DOMAIN ms = 1..Len(ms) /\ Len(ms) \in Nat /\ \A i \in DOMAIN ms : ms[i] \in Mutations
    BY <1>1
<1>3. CASE at = {}
    BY <1>3 DEF Decisive
<1>4. CASE at # {}
    <2>1. at \subseteq Nat /\ \A x \in at : x <= Len(ms)
        BY <1>2
    <2>2. Max(at) \in at
        BY <1>2, <1>4, <2>1, MaxIsGreatest
    <2>3. Decisive(ms, f) = Max(at)
        BY <1>4 DEF Decisive
    <2>4. QED
        BY <1>2, <2>2, <2>3
<1>5. QED
    BY <1>3, <1>4

\* _apply_mutations turns a world state into a world state.
LEMMA ApplyMutationsType ==
    ASSUME NEW s \in WorldStates, NEW ms \in MutationLists \cup {<<>>}
    PROVE  ApplyMutations(s, ms) \in WorldStates
<1>1. \A f \in Fields : (IF Decisive(ms, f) = 0 THEN s[f] ELSE ms[Decisive(ms, f)].new.n) \in Int
    BY DecisiveType DEF WorldStates, Mutations
<1>2. QED
    BY <1>1 DEF ApplyMutations, WorldStates

-----------------------------------------------------------------------------
(* Reading the ledger. *)

Snapshots == \A v \in Versions : ledger[v].checkpoint => ledger[v].snapshot \in WorldStates

\* The nearest checkpoint is a row of the ledger, or 0.
LEMMA NearestCheckpointType ==
    ASSUME Versions \subseteq Nat \ {0}, NEW v \in Nat
    PROVE  \/ NearestCheckpoint(v) = 0
           \/ /\ NearestCheckpoint(v) \in Versions
              /\ NearestCheckpoint(v) <= v
              /\ ledger[NearestCheckpoint(v)].checkpoint
<1> DEFINE found == {c \in Versions : c <= v /\ ledger[c].checkpoint}
<1>1. CASE found = {}
    BY <1>1 DEF NearestCheckpoint
<1>2. CASE found # {}
    <2>1. Max(found) \in found
        BY <1>2, MaxIsGreatest
    <2>2. QED
        BY <1>2, <2>1 DEF NearestCheckpoint
<1>3. QED
    BY <1>1, <1>2

\* The last writer of a field, when there is one, is a row of the ledger.
LEMMA LastWriter ==
    ASSUME Versions \subseteq Nat \ {0}, NEW f, NEW c \in Nat, NEW v \in Nat, Writers(f, c, v) # {}
    PROVE  /\ Max(Writers(f, c, v)) \in Writers(f, c, v)
           /\ \A i \in Writers(f, c, v) : i <= Max(Writers(f, c, v))
<1>1. Writers(f, c, v) \subseteq Nat /\ \A i \in Writers(f, c, v) : i <= v
    BY DEF Writers
<1>2. QED
    BY <1>1, MaxIsGreatest

\* Whatever version is asked for, reconstruction yields a world state.
LEMMA ReconstructType ==
    ASSUME TypeOK, Snapshots, NEW v \in Nat
    PROVE  Reconstruct(v) \in WorldStates
<1> DEFINE c == NearestCheckpoint(v)
           start == IF c = 0 THEN Pristine ELSE ledger[c].snapshot
<1>1. Versions \subseteq Nat \ {0} /\ \A i \in Versions : ledger[i].mutations \in MutationLists
    BY DEF TypeOK, Row
<1>2. c \in Nat /\ start \in WorldStates
    <2>1. Pristine \in WorldStates
        BY DEF Pristine, WorldStates
    <2>2. c = 0 \/ (c \in Versions /\ ledger[c].checkpoint)
        BY <1>1, NearestCheckpointType
    <2>3. CASE c = 0
        BY <2>1, <2>3
    <2>4. CASE c # 0
        <3> HIDE DEF c
        <3>1. c \in Nat /\ ledger[c].snapshot \in WorldStates
            BY <1>1, <2>2, <2>4 DEF Snapshots
        <3>2. QED
            BY <2>4, <3>1
    <2>5. QED
        BY <2>3, <2>4
<1> HIDE DEF c, start
<1>3. ASSUME NEW f \in Fields, Writers(f, c, v) # {}
      PROVE  ApplyMutations(start, ledger[Max(Writers(f, c, v))].mutations)[f] \in Int
    <2>1. Max(Writers(f, c, v)) \in Versions
        BY <1>1, <1>2, <1>3, LastWriter DEF Writers
    <2>2. ApplyMutations(start, ledger[Max(Writers(f, c, v))].mutations) \in WorldStates
        BY <1>1, <1>2, <2>1, ApplyMutationsType
    <2>3. QED
        BY <2>2 DEF WorldStates
<1>4. \A f \in Fields : start[f] \in Int
    BY <1>2 DEF WorldStates
<1>5. Reconstruct(v) = [f \in Fields |->
            IF Writers(f, c, v) = {} THEN start[f]
            ELSE ApplyMutations(start, ledger[Max(Writers(f, c, v))].mutations)[f]]
    BY DEF Reconstruct, c, start
<1>6. QED
    BY <1>3, <1>4, <1>5 DEF WorldStates

\* The latest of n consecutive versions is the n-th.
LEMMA LatestOfPrefix ==
    ASSUME NEW n \in Nat
    PROVE  (IF 1..n = {} THEN 0 ELSE Max(1..n)) = n
<1>1. CASE n = 0
    BY <1>1
<1>2. CASE n # 0
    <2> DEFINE V == 1..n
    <2>1. V \subseteq Nat /\ n \in V /\ \A x \in V : x <= n
        BY <1>2
    <2> HIDE DEF V
    <2>2. Max(V) \in V /\ \A y \in V : y <= Max(V)
        BY <2>1, MaxIsGreatest
    <2>3. Max(V) \in Nat /\ Max(V) <= n /\ n <= Max(V)
        BY <2>1, <2>2
    <2>4. QED
        BY <1>2, <2>3 DEF V
<1>3. QED
    BY <1>1, <1>2

\* A commit appends row n + 1 to the n rows there are.
Appends(n, row) ==
    ledger' = [i \in Versions \cup {n + 1} |-> IF i = n + 1 THEN row ELSE ledger[i]]

\* Appending a row makes it the latest one and leaves the older ones in place.
LEMMA AppendedVersions ==
    ASSUME NEW n \in Nat, Versions = 1..n, NEW row, Appends(n, row)
    PROVE  /\ Versions' = 1..(n + 1)
           /\ Latest = n
           /\ Latest' = n + 1
           /\ ledger'[n + 1] = row
           /\ \A i \in Versions : ledger'[i] = ledger[i]
           /\ ledger' = [i \in Versions' |-> IF i = n + 1 THEN row ELSE ledger[i]]
<1>1. Versions' = 1..(n + 1)
    BY DEF Appends, Versions
<1>2. Latest = n
    BY LatestOfPrefix DEF Latest
<1>3. Latest' = n + 1
    BY <1>1, LatestOfPrefix DEF Latest
<1>4. QED
    BY <1>1, <1>2, <1>3 DEF Appends, Versions

\* Appending a row changes no older version: what get_version answers for it
\* is final.
LEMMA ReconstructStable ==
    ASSUME NEW n \in Nat, Versions = 1..n, NEW row, Appends(n, row), NEW v \in 0..n
    PROVE  Reconstruct(v)' = Reconstruct(v)
<1>1. /\ Versions' = 1..(n + 1)
      /\ \A i \in Versions : ledger'[i] = ledger[i]
    BY AppendedVersions
<1>2. \A i \in Versions' : i <= v => i \in Versions
    BY <1>1
<1>3. NearestCheckpoint(v)' = NearestCheckpoint(v)
    <2>1. {c \in Versions' : c <= v /\ ledger'[c].checkpoint}
             = {c \in Versions : c <= v /\ ledger[c].checkpoint}
        BY <1>1, <1>2
    <2>2. QED
        BY <2>1 DEF NearestCheckpoint
<1>4. NearestCheckpoint(v) # 0 => NearestCheckpoint(v) \in Versions
    BY NearestCheckpointType
<1>5. ASSUME NEW f, NEW c \in Nat
      PROVE  Writers(f, c, v)' = Writers(f, c, v)
    BY <1>1, <1>2 DEF Writers
<1>6. ASSUME NEW f, NEW c \in Nat, Writers(f, c, v) # {}
      PROVE  ledger'[Max(Writers(f, c, v))] = ledger[Max(Writers(f, c, v))]
    <2>1. Max(Writers(f, c, v)) \in Writers(f, c, v)
        BY <1>6, LastWriter
    <2>2. QED
        BY <1>1, <2>1 DEF Writers
<1>7. NearestCheckpoint(v) \in Nat
    BY <1>4
<1> DEFINE c == NearestCheckpoint(v)
<1>8. (IF c = 0 THEN Pristine ELSE ledger'[c].snapshot) = (IF c = 0 THEN Pristine ELSE ledger[c].snapshot)
    BY <1>1, <1>4
<1>9. QED
    BY <1>3, <1>5, <1>6, <1>7, <1>8 DEF Reconstruct

\* The new version is the old one with the row's mutations applied, whether it
\* is stored as a delta or as a checkpoint.
LEMMA ReconstructNext ==
    ASSUME NEW n \in Nat, Versions = 1..n, NEW row, Appends(n, row),
           row.checkpoint => row.snapshot = ApplyMutations(Reconstruct(n), row.mutations)
    PROVE  Reconstruct(n + 1)' = ApplyMutations(Reconstruct(n), row.mutations)
<1> DEFINE applied == ApplyMutations(Reconstruct(n), row.mutations)
<1>1. /\ Versions' = 1..(n + 1)
      /\ ledger'[n + 1] = row
      /\ \A i \in Versions : ledger'[i] = ledger[i]
    BY AppendedVersions
<1>2. CASE row.checkpoint
    <2> DEFINE found == {d \in Versions' : d <= n + 1 /\ ledger'[d].checkpoint}
    <2>1. n + 1 \in found /\ found \subseteq Nat /\ \A d \in found : d <= n + 1
        BY <1>1, <1>2
    <2>2. Max(found) = n + 1
        <3> HIDE DEF found
        <3>1. Max(found) \in found /\ n + 1 <= Max(found)
            BY <2>1, MaxIsGreatest
        <3>2. Max(found) \in Nat /\ Max(found) <= n + 1
            BY <2>1, <3>1
        <3>3. QED
            BY <3>1, <3>2
    <2>3. NearestCheckpoint(n + 1)' = n + 1
        BY <2>1, <2>2 DEF NearestCheckpoint
    <2>4. \A f : Writers(f, n + 1, n + 1)' = {}
        BY <1>1 DEF Writers
    <2>5. n + 1 # 0 /\ ledger'[n + 1].snapshot = applied
        BY <1>1, <1>2
    <2> HIDE DEF applied
    <2>6. Reconstruct(n + 1)' = [f \in Fields |-> applied[f]]
        BY <2>3, <2>4, <2>5 DEF Reconstruct
    <2>7. applied = [f \in Fields |-> applied[f]]
        BY DEF applied, ApplyMutations
    <2>8. QED
        BY <2>6, <2>7 DEF applied
<1>3. CASE ~ row.checkpoint
    <2>1. NearestCheckpoint(n + 1)' = NearestCheckpoint(n)
        <3>1. {d \in Versions' : d <= n + 1 /\ ledger'[d].checkpoint}
                = {d \in Versions : d <= n /\ ledger[d].checkpoint}
            BY <1>1, <1>3
        <3>2. QED
            BY <3>1 DEF NearestCheckpoint
    <2>2. PICK c \in Nat : c = NearestCheckpoint(n) /\ c <= n /\ (c # 0 => c \in Versions)
        BY NearestCheckpointType
    <2> DEFINE start == IF c = 0 THEN Pristine ELSE ledger[c].snapshot
    <2>3. start = IF c = 0 THEN Pristine ELSE ledger'[c].snapshot
        BY <1>1, <2>2
    <2>4. ASSUME NEW f \in Fields, Decisive(row.mutations, f) = 0
          PROVE  Writers(f, c, n + 1)' = Writers(f, c, n)
        BY <1>1, <2>2, <2>4 DEF Writers
    <2>5. ASSUME NEW f \in Fields, Decisive(row.mutations, f) # 0
          PROVE  Max(Writers(f, c, n + 1)') = n + 1 /\ Writers(f, c, n + 1)' # {}
        <3> DEFINE W == Writers(f, c, n + 1)'
        <3>1. n + 1 \in W /\ W \subseteq Nat /\ \A i \in W : i <= n + 1
            BY <1>1, <2>2, <2>5 DEF Writers
        <3> HIDE DEF W
        <3>2. Max(W) \in W /\ n + 1 <= Max(W)
            BY <3>1, MaxIsGreatest
        <3>3. Max(W) \in Nat /\ Max(W) <= n + 1 /\ n + 1 <= Max(W)
            BY <3>1, <3>2
        <3>4. QED
            BY <3>1, <3>3 DEF W
    <2>6. ASSUME NEW f \in Fields, Writers(f, c, n) # {}
          PROVE  ledger'[Max(Writers(f, c, n))] = ledger[Max(Writers(f, c, n))]
        <3>1. Max(Writers(f, c, n)) \in Writers(f, c, n)
            BY <2>2, <2>6, LastWriter
        <3>2. QED
            BY <1>1, <3>1 DEF Writers
    <2> HIDE DEF start
    <2>7. Reconstruct(n + 1)' = [f \in Fields |->
              IF Writers(f, c, n + 1)' = {} THEN start[f]
              ELSE ApplyMutations(start, ledger'[Max(Writers(f, c, n + 1)')].mutations)[f]]
        BY <2>1, <2>2, <2>3 DEF Reconstruct, start
    <2>8. Reconstruct(n) = [f \in Fields |->
              IF Writers(f, c, n) = {} THEN start[f]
              ELSE ApplyMutations(start, ledger[Max(Writers(f, c, n))].mutations)[f]]
        BY <2>2 DEF Reconstruct, start
    <2>9. ASSUME NEW f \in Fields
          PROVE  Reconstruct(n + 1)'[f] = applied[f]
        <3>1. CASE Decisive(row.mutations, f) = 0
            <4>1. applied[f] = Reconstruct(n)[f]
                BY <3>1 DEF ApplyMutations
            <4>2. QED
                BY <2>4, <2>6, <2>7, <2>8, <3>1, <4>1
        <3>2. CASE Decisive(row.mutations, f) # 0
            <4>1. \A s : ApplyMutations(s, row.mutations)[f]
                           = row.mutations[Decisive(row.mutations, f)].new.n
                BY <3>2 DEF ApplyMutations
            <4>2. QED
                BY <1>1, <2>5, <2>7, <3>2, <4>1
        <3>3. QED
            BY <3>1, <3>2
    <2>10. applied = [f \in Fields |-> applied[f]]
        BY DEF ApplyMutations
    <2>11. Reconstruct(n + 1)' = [f \in Fields |-> Reconstruct(n + 1)'[f]]
        BY <2>7
    <2> HIDE DEF applied
    <2>12. QED
        BY <2>9, <2>10, <2>11 DEF applied
<1>4. QED
    BY <1>2, <1>3

-----------------------------------------------------------------------------
(* The inductive invariant. *)

CommitSteps == {"select", "lock", "decide", "sayRejected", "setCache", "sayAccepted", "sayUpdated"}

\* What a worker's local variables are worth at each point of its coroutine.
LocalsOK(w) ==
    LET r == req[w]
    IN  /\ pc[w] = "idle" => r.op = "none"
        /\ pc[w] \in {"load", "fill"} => r.op \in {"read", "submit"}
        /\ pc[w] \in {"insert", "announce"} => r.op = "submit"
        /\ pc[w] \in CommitSteps =>
              /\ r.op = "commit" /\ r.prop \in Proposals
              /\ proposals[r.prop].verdict # "absent"
        /\ r.op = "submit" =>
              /\ r.prop \in Proposals /\ r.muts \in MutationLists
              /\ (proposals[r.prop].verdict = "absent") <=> (pc[w] # "announce")
        /\ pc[w] \in {"fill", "insert", "lock", "decide"} => r.version <= Latest
        /\ pc[w] \in {"fill", "setCache"} => r.state = Reconstruct(r.version)
        /\ pc[w] = "sayRejected" => proposals[r.prop].verdict = "rejected"
        /\ pc[w] \in {"setCache", "sayAccepted", "sayUpdated"} =>
              r.version \in Versions /\ ledger[r.version].proposal = r.prop

\* A proposal id is being submitted by one worker at a time.
OneSubmitter ==
    \A u, w \in Workers :
        u # w /\ req[u].op = "submit" /\ req[w].op = "submit" => req[u].prop # req[w].prop

\* A verdict is the one validation gives at the version the proposal was made.
ProposalsOK ==
    \A p \in Proposals :
        /\ proposals[p].verdict # "absent" =>
              proposals[p].muts \in MutationLists /\ proposals[p].before <= Latest
        /\ proposals[p].verdict = "rejected" =>
              ~ ValidateMutations(Reconstruct(proposals[p].before), proposals[p].muts)
        /\ proposals[p].verdict = "accepted" =>
              /\ proposals[p].after = proposals[p].before + 1
              /\ proposals[p].after \in Versions
              /\ ledger[proposals[p].after].proposal = p

\* Every row was made by the accepted proposal that names it.
RowsOK ==
    \A v \in Versions :
        LET p == ledger[v].proposal
        IN  /\ proposals[p].verdict = "accepted"
            /\ proposals[p].before = v - 1
            /\ proposals[p].muts = ledger[v].mutations
            /\ ValidateMutations(Reconstruct(v - 1), ledger[v].mutations)

IInv ==
    /\ TypeOK
    /\ Snapshots
    /\ \A w \in Workers : LocalsOK(w)
    /\ OneSubmitter
    /\ ProposalsOK
    /\ RowsOK
    /\ CacheHoldsACommittedState
    /\ EventsAreTrue

\* The empty ledger satisfies the invariant.
LEMMA InitIInv == Init => IInv
<1> SUFFICES ASSUME Init PROVE IInv
    OBVIOUS
<1>1. Versions = {} /\ Latest = 0
    BY DEF Init, Versions, Latest
<1>2. NoRequest \in Request
    BY DEF NoRequest, NewRequest, Request, Pristine, WorldStates
<1>3. TypeOK
    <2>1. ledger \in [Versions -> Row]
        BY <1>1 DEF Init, Versions
    <2>2. Latest \in Nat /\ Versions = 1..Latest
        BY <1>1
    <2>3. proposals \in [Proposals -> ProposalRow]
        BY DEF Init, ProposalRow
    <2>4. cache \in CacheEntry \cup {None} /\ events \subseteq Event
        BY DEF Init
    <2>5. pc \in [Workers -> Steps] /\ held \in [Workers -> Nat]
        BY DEF Init, Steps
    <2>6. req \in [Workers -> Request]
        BY <1>2 DEF Init
    <2>7. QED
        BY <2>1, <2>2, <2>3, <2>4, <2>5, <2>6 DEF TypeOK
<1>4. \A w \in Workers : LocalsOK(w)
    BY DEF Init, LocalsOK, NoRequest, NewRequest, CommitSteps
<1>5. OneSubmitter
    BY DEF Init, OneSubmitter, NoRequest, NewRequest
<1>6. ProposalsOK
    BY DEF Init, ProposalsOK
<1>7. Snapshots /\ RowsOK /\ CacheHoldsACommittedState /\ EventsAreTrue
    BY <1>1 DEF Init, Snapshots, RowsOK, CacheHoldsACommittedState, EventsAreTrue
<1>8. QED
    BY <1>3, <1>4, <1>5, <1>6, <1>7 DEF IInv

\* While no row is added, every version reads as before.
LEMMA LedgerUnchanged ==
    ASSUME ledger' = ledger
    PROVE  /\ Versions' = Versions /\ Latest' = Latest
           /\ Snapshots' = Snapshots
           /\ \A v : Reconstruct(v)' = Reconstruct(v)
<1>1. Versions' = Versions
    BY DEF Versions
<1>2. \A v : NearestCheckpoint(v)' = NearestCheckpoint(v)
    BY <1>1 DEF NearestCheckpoint
<1>3. \A f, c, v : Writers(f, c, v)' = Writers(f, c, v)
    BY <1>1 DEF Writers
<1>4. \A v : Reconstruct(v)' = Reconstruct(v)
    BY <1>2, <1>3 DEF Reconstruct
<1>5. Latest' = Latest /\ Snapshots' = Snapshots
    BY <1>1 DEF Latest, Snapshots
<1>6. QED
    BY <1>1, <1>4, <1>5

\* A step of worker w that writes neither table: what is left to show is that
\* w's own locals, the cache and the new events are right.
LEMMA QuietStep ==
    ASSUME IInv, UNCHANGED <<ledger, proposals>>, TypeOK', OneSubmitter',
           NEW w \in Workers, LocalsOK(w)',
           \A u \in Workers : u # w => pc'[u] = pc[u] /\ req'[u] = req[u],
           CacheHoldsACommittedState', EventsAreTrue'
    PROVE  IInv'
<1> USE LedgerUnchanged
<1>1. Snapshots'
    BY DEF IInv
<1>2. ASSUME NEW u \in Workers PROVE LocalsOK(u)'
    <2>1. CASE u = w
        BY <2>1
    <2>2. CASE u # w
        <3>1. LocalsOK(u) /\ pc'[u] = pc[u] /\ req'[u] = req[u]
            BY <2>2 DEF IInv
        <3>2. QED
            BY <3>1 DEF LocalsOK
    <2>3. QED
        BY <2>1, <2>2
<1>3. ProposalsOK'
    BY DEF IInv, ProposalsOK
<1>4. RowsOK'
    BY DEF IInv, RowsOK
<1>5. QED
    BY <1>1, <1>2, <1>3, <1>4 DEF IInv

-----------------------------------------------------------------------------
(* The steps that write neither table. *)

\* A world state is in hand: the reader returns, the submitter goes on.
LEMMA GotStatePreserves ==
    ASSUME IInv, NEW w \in Workers, NEW r \in Request, GotState(w, r),
           UNCHANGED <<ledger, proposals, events>>,
           cache' \in CacheEntry \cup {None}, CacheHoldsACommittedState',
           r.op \in {"read", "submit"}, r.version <= Latest,
           r.op = "submit" => /\ r.prop \in Proposals /\ r.muts \in MutationLists
                              /\ proposals[r.prop].verdict = "absent"
                              /\ \A u \in Workers : u # w /\ req[u].op = "submit" => req[u].prop # r.prop
    PROVE  IInv'
<1> USE LedgerUnchanged
<1> DEFINE r2 == IF r.op = "read" THEN NoRequest ELSE r
           step == IF r.op = "read" THEN "idle" ELSE "insert"
<1>1. TypeOK /\ NoRequest \in Request
    BY DEF IInv, NoRequest, NewRequest, Request, Pristine, WorldStates
<1>2. /\ pc' = [pc EXCEPT ![w] = step]
      /\ req' = [req EXCEPT ![w] = r2]
      /\ held' \in [Workers -> Nat]
    BY <1>1 DEF GotState, Return, Goto, TypeOK
<1>3. r2 \in Request /\ step \in Steps
    BY <1>1 DEF Steps
<1>4. TypeOK'
    <2>1. pc' \in [Workers -> Steps] /\ req' \in [Workers -> Request]
        BY <1>1, <1>2, <1>3 DEF TypeOK
    <2>2. QED
        BY <1>1, <1>2, <2>1 DEF TypeOK
<1>5. pc'[w] = step /\ req'[w] = r2
    BY <1>1, <1>2 DEF TypeOK
<1>6. \A u \in Workers : u # w => pc'[u] = pc[u] /\ req'[u] = req[u]
    BY <1>1, <1>2 DEF TypeOK
<1>7. LocalsOK(w)'
    BY <1>5 DEF LocalsOK, CommitSteps, NoRequest, NewRequest
<1>8. OneSubmitter'
    BY <1>5, <1>6 DEF IInv, OneSubmitter, NoRequest, NewRequest
<1>9. EventsAreTrue'
    BY DEF IInv, EventsAreTrue
<1>10. QED
    BY <1>4, <1>6, <1>7, <1>8, <1>9, QuietStep

\* get_current, or submit_proposal up to the end of its cache lookup.
LEMMA BeginReadPreserves ==
    ASSUME IInv, NEW w \in Workers, NEW r \in Request, BeginRead(w, r),
           r.op \in {"read", "submit"},
           r.op = "submit" => /\ r.prop \in Proposals /\ r.muts \in MutationLists
                              /\ proposals[r.prop].verdict = "absent"
                              /\ \A u \in Workers : req[u].op = "submit" => req[u].prop # r.prop
    PROVE  IInv'
<1> USE LedgerUnchanged
<1>1. TypeOK
    BY DEF IInv
<1>2. CacheHoldsACommittedState' /\ cache' \in CacheEntry \cup {None}
    BY <1>1 DEF IInv, CacheHoldsACommittedState, BeginRead, TypeOK
<1>3. CASE cache # None /\ GotState(w, WithState(r, cache.state, cache.version))
    <2> DEFINE r2 == WithState(r, cache.state, cache.version)
    <2>1. cache \in CacheEntry /\ cache.version <= Latest
        BY <1>1, <1>3 DEF IInv, TypeOK, CacheHoldsACommittedState
    <2>2. /\ r2 \in Request /\ r2.op = r.op /\ r2.prop = r.prop /\ r2.muts = r.muts
          /\ r2.version = cache.version
        BY <2>1 DEF WithState, Request, CacheEntry
    <2>3. UNCHANGED <<ledger, proposals, events>>
        BY DEF BeginRead
    <2> HIDE DEF r2
    <2>4. GotState(w, r2)
        BY <1>3 DEF r2
    <2>5. QED
        BY <1>2, <2>1, <2>2, <2>3, <2>4, GotStatePreserves
<1>4. CASE /\ Goto(w, "load")
           /\ req' = [req EXCEPT ![w] = r]
           /\ UNCHANGED held
    <2>1. pc' = [pc EXCEPT ![w] = "load"] /\ UNCHANGED <<ledger, proposals, cache, events, held>>
        BY <1>4 DEF Goto, BeginRead
    <2>2. TypeOK'
        <3>1. pc' \in [Workers -> Steps] /\ req' \in [Workers -> Request]
            BY <1>1, <1>4, <2>1 DEF TypeOK, Steps
        <3>2. QED
            BY <1>1, <2>1, <3>1 DEF TypeOK
    <2>3. pc'[w] = "load" /\ req'[w] = r
        BY <1>1, <1>4, <2>1 DEF TypeOK
    <2>4. \A u \in Workers : u # w => pc'[u] = pc[u] /\ req'[u] = req[u]
        BY <1>1, <1>4, <2>1 DEF TypeOK
    <2>5. LocalsOK(w)'
        BY <2>1, <2>3 DEF LocalsOK, CommitSteps
    <2>6. OneSubmitter'
        BY <2>3, <2>4 DEF IInv, OneSubmitter
    <2>7. EventsAreTrue'
        BY <2>1 DEF IInv, EventsAreTrue
    <2>8. QED
        BY <1>2, <2>1, <2>2, <2>4, <2>5, <2>6, <2>7, QuietStep
<1>5. QED
    BY <1>3, <1>4 DEF BeginRead

\* The coroutine ends, with or without a last publication.
LEMMA ReturnPreserves ==
    ASSUME IInv, NEW w \in Workers, Return(w), UNCHANGED <<ledger, proposals, cache>>,
           events' \subseteq Event, EventsAreTrue'
    PROVE  IInv'
<1> USE LedgerUnchanged
<1>1. TypeOK /\ NoRequest \in Request
    BY DEF IInv, NoRequest, NewRequest, Request, Pristine, WorldStates
<1>2. TypeOK'
    <2>1. pc' \in [Workers -> Steps] /\ req' \in [Workers -> Request] /\ held' \in [Workers -> Nat]
        BY <1>1 DEF TypeOK, Return, Goto, Steps
    <2>2. QED
        BY <1>1, <2>1 DEF TypeOK
<1>3. pc'[w] = "idle" /\ req'[w] = NoRequest
    BY <1>1 DEF TypeOK, Return, Goto
<1>4. \A u \in Workers : u # w => pc'[u] = pc[u] /\ req'[u] = req[u]
    BY <1>1 DEF TypeOK, Return, Goto
<1>5. LocalsOK(w)'
    BY <1>3 DEF LocalsOK, CommitSteps, NoRequest, NewRequest
<1>6. OneSubmitter'
    BY <1>3, <1>4 DEF IInv, OneSubmitter, NoRequest, NewRequest
<1>7. CacheHoldsACommittedState'
    BY DEF IInv, CacheHoldsACommittedState
<1>8. QED
    BY <1>2, <1>4, <1>5, <1>6, <1>7, QuietStep

\* The coroutine goes on with the same request, its state and version perhaps new.
LEMMA GoOnPreserves ==
    ASSUME IInv, NEW w \in Workers, NEW step \in Steps, Goto(w, step),
           \/ pc[w] = "load" /\ step = "fill"
           \/ pc[w] \in CommitSteps /\ step \in CommitSteps \ {"sayRejected"},
           NEW s \in WorldStates, NEW v \in Nat,
           req' = [req EXCEPT ![w] = WithState(req[w], s, v)],
           step \in {"fill", "lock", "decide"} => v <= Latest,
           step \in {"fill", "setCache"} => s = Reconstruct(v),
           step \in {"setCache", "sayAccepted", "sayUpdated"} =>
               v \in Versions /\ ledger[v].proposal = req[w].prop,
           held' \in [Workers -> Nat], cache' \in CacheEntry \cup {None}, events' \subseteq Event,
           UNCHANGED <<ledger, proposals>>, CacheHoldsACommittedState', EventsAreTrue'
    PROVE  IInv'
<1> USE LedgerUnchanged
<1> DEFINE r == WithState(req[w], s, v)
<1>1. TypeOK /\ r \in Request /\ LocalsOK(w)
    BY DEF IInv, TypeOK, Request, WithState
<1>2. TypeOK'
    <2>1. pc' \in [Workers -> Steps] /\ req' \in [Workers -> Request]
        BY <1>1 DEF TypeOK, Goto
    <2>2. QED
        BY <1>1, <2>1 DEF TypeOK
<1>3. pc'[w] = step /\ req'[w] = r
    BY <1>1 DEF TypeOK, Goto
<1>4. \A u \in Workers : u # w => pc'[u] = pc[u] /\ req'[u] = req[u]
    BY <1>1 DEF TypeOK, Goto
<1>5. /\ r.op = req[w].op /\ r.prop = req[w].prop /\ r.muts = req[w].muts
      /\ r.state = s /\ r.version = v
    BY DEF WithState
<1> HIDE DEF r
<1>6. LocalsOK(w)'
    BY <1>1, <1>3, <1>5 DEF LocalsOK, CommitSteps, Steps
<1>7. OneSubmitter'
    BY <1>3, <1>4, <1>5 DEF IInv, OneSubmitter
<1>8. QED
    BY <1>2, <1>4, <1>6, <1>7, QuietStep

\* A request's record is made of its fields.
LEMMA RequestFields ==
    ASSUME TypeOK, NEW w \in Workers
    PROVE  /\ req = [req EXCEPT ![w] = WithState(req[w], req[w].state, req[w].version)]
           /\ req[w] \in Request
BY DEF TypeOK, Request, WithState

\* get_current's read of the database.
LEMMA LoadFromDbPreserves ==
    ASSUME IInv, NEW w \in Workers, LoadFromDb(w)
    PROVE  IInv'
<1> USE LedgerUnchanged
<1>1. TypeOK /\ Latest \in Nat /\ Reconstruct(Latest) \in WorldStates
    BY ReconstructType DEF IInv, TypeOK
<1> PICK v \in Nat, s \in WorldStates : v = Latest /\ v <= Latest /\ s = Reconstruct(v)
    BY <1>1
<1>2. /\ Goto(w, "fill") /\ "fill" \in Steps /\ pc[w] = "load"
      /\ UNCHANGED <<ledger, proposals, cache, events, held>>
    BY DEF LoadFromDb, Steps
<1>3. req' = [req EXCEPT ![w] = WithState(req[w], s, v)]
    BY <1>1 DEF LoadFromDb, TypeOK, Request
<1>4. CacheHoldsACommittedState' /\ EventsAreTrue'
    BY <1>2 DEF IInv, CacheHoldsACommittedState, EventsAreTrue
<1>5. held' \in [Workers -> Nat] /\ cache' \in CacheEntry \cup {None} /\ events' \subseteq Event
    BY <1>1, <1>2 DEF TypeOK
<1>6. QED
    BY <1>1, <1>2, <1>3, <1>4, <1>5, GoOnPreserves

\* get_current's late cache write.
LEMMA FillCachePreserves ==
    ASSUME IInv, NEW w \in Workers, FillCache(w)
    PROVE  IInv'
<1> USE LedgerUnchanged
<1>1. TypeOK /\ LocalsOK(w) /\ OneSubmitter /\ req[w] \in Request
    BY RequestFields DEF IInv
<1>2. pc[w] = "fill" /\ GotState(w, req[w]) /\ UNCHANGED <<ledger, proposals, events>>
    BY DEF FillCache
<1>3. /\ req[w].op \in {"read", "submit"} /\ req[w].version <= Latest
      /\ req[w].state = Reconstruct(req[w].version)
      /\ req[w].op = "submit" => /\ req[w].prop \in Proposals /\ req[w].muts \in MutationLists
                                 /\ proposals[req[w].prop].verdict = "absent"
                                 /\ \A u \in Workers : u # w /\ req[u].op = "submit"
                                                         => req[u].prop # req[w].prop
    BY <1>1, <1>2 DEF LocalsOK, OneSubmitter
<1>4. /\ cache' = [state |-> req[w].state, version |-> req[w].version]
      /\ cache' \in CacheEntry
    BY <1>1 DEF FillCache, CacheRecord, Request, CacheEntry
<1>5. CacheHoldsACommittedState'
    BY <1>2, <1>3, <1>4 DEF CacheHoldsACommittedState
<1>6. QED
    BY <1>1, <1>2, <1>3, <1>4, <1>5, GotStatePreserves

\* validate_and_commit starts on a pending proposal.
LEMMA BeginCommitPreserves ==
    ASSUME IInv, NEW w \in Workers, NEW p \in Proposals, BeginCommit(w, p)
    PROVE  IInv'
<1> USE LedgerUnchanged
<1> DEFINE r == NewRequest("commit", p, <<>>)
<1>1. TypeOK
    BY DEF IInv
<1>2. r \in Request /\ r.op = "commit" /\ r.prop = p
    BY DEF NewRequest, Request, Pristine, WorldStates
<1> HIDE DEF r
<1>3. /\ pc' = [pc EXCEPT ![w] = "select"] /\ req' = [req EXCEPT ![w] = r]
      /\ UNCHANGED <<ledger, proposals, cache, events, held>>
      /\ proposals[p].verdict = "pending"
    BY DEF BeginCommit, Goto, r
<1>4. TypeOK'
    <2>1. pc' \in [Workers -> Steps] /\ req' \in [Workers -> Request]
        BY <1>1, <1>2, <1>3 DEF TypeOK, Steps
    <2>2. QED
        BY <1>1, <1>3, <2>1 DEF TypeOK
<1>5. pc'[w] = "select" /\ req'[w] = r
    BY <1>1, <1>3 DEF TypeOK
<1>6. \A u \in Workers : u # w => pc'[u] = pc[u] /\ req'[u] = req[u]
    BY <1>1, <1>3 DEF TypeOK
<1>7. LocalsOK(w)'
    BY <1>2, <1>3, <1>5 DEF LocalsOK, CommitSteps
<1>8. OneSubmitter'
    BY <1>2, <1>5, <1>6 DEF IInv, OneSubmitter
<1>9. CacheHoldsACommittedState' /\ EventsAreTrue'
    BY <1>3 DEF IInv, CacheHoldsACommittedState, EventsAreTrue
<1>10. QED
    BY <1>3, <1>4, <1>6, <1>7, <1>8, <1>9, QuietStep

\* The latest row is selected and locked.
LEMMA LockPreserves ==
    ASSUME IInv, NEW w \in Workers, SelectLatest(w) \/ LockRow(w)
    PROVE  IInv'
<1> USE LedgerUnchanged
<1>1. TypeOK /\ LocalsOK(w) /\ req[w] \in Request
    BY RequestFields DEF IInv
<1>2. UNCHANGED <<ledger, proposals, cache, events>>
    BY DEF SelectLatest, LockRow
<1>3. CacheHoldsACommittedState' /\ EventsAreTrue'
    BY <1>2 DEF IInv, CacheHoldsACommittedState, EventsAreTrue
<1>4. cache' \in CacheEntry \cup {None} /\ events' \subseteq Event
    BY <1>1, <1>2 DEF TypeOK
<1>5. CASE SelectLatest(w)
    <2> PICK v \in Nat : v = Latest /\ v <= Latest
        BY <1>1 DEF TypeOK
    <2> PICK step \in {"lock", "decide"} : step = IF v = 0 THEN "decide" ELSE "lock"
        OBVIOUS
    <2>1. req' = [req EXCEPT ![w] = WithState(req[w], req[w].state, v)]
        BY <1>1, <1>5 DEF SelectLatest, TypeOK, Request
    <2>2. /\ Latest \in Nat /\ req[w].state \in WorldStates /\ held' \in [Workers -> Nat]
          /\ pc[w] = "select" /\ Goto(w, step)
        BY <1>1, <1>5 DEF SelectLatest, TypeOK, Request
    <2>3. pc[w] \in CommitSteps /\ step \in CommitSteps \ {"sayRejected"} /\ step \in Steps
        BY <2>2 DEF CommitSteps, Steps
    <2>4. QED
        BY <1>2, <1>3, <1>4, <2>1, <2>2, <2>3, GoOnPreserves
<1>6. CASE LockRow(w)
    <2>1. req' = [req EXCEPT ![w] = WithState(req[w], req[w].state, req[w].version)]
        BY <1>1, <1>6, RequestFields DEF LockRow
    <2>2. pc[w] = "lock" /\ Goto(w, "decide")
        BY <1>6 DEF LockRow
    <2>3. /\ req[w].version \in Nat /\ req[w].version <= Latest /\ req[w].state \in WorldStates
          /\ held' \in [Workers -> Nat]
        BY <1>1, <1>6, <2>2 DEF LockRow, TypeOK, Request, LocalsOK
    <2>4. pc[w] \in CommitSteps /\ "decide" \in CommitSteps \ {"sayRejected"} /\ "decide" \in Steps
        BY <2>2 DEF CommitSteps, Steps
    <2>5. QED
        BY <1>2, <1>3, <1>4, <2>1, <2>2, <2>3, <2>4, GoOnPreserves
<1>7. QED
    BY <1>5, <1>6

\* The cache write and the first publication after a commit.
LEMMA AfterCommitPreserves ==
    ASSUME IInv, NEW w \in Workers, UpdateCache(w) \/ PublishAccepted(w)
    PROVE  IInv'
<1> USE LedgerUnchanged
<1>1. TypeOK /\ LocalsOK(w) /\ req[w] \in Request
    BY RequestFields DEF IInv
<1>2. UNCHANGED <<ledger, proposals, req, held>> /\ pc[w] \in {"setCache", "sayAccepted"}
    BY DEF UpdateCache, PublishAccepted
<1>3. /\ req[w].version \in Versions /\ ledger[req[w].version].proposal = req[w].prop
      /\ req[w].prop \in Proposals /\ req[w].version \in Nat /\ req[w].version <= Latest
      /\ req[w].state \in WorldStates
      /\ pc[w] = "setCache" => req[w].state = Reconstruct(req[w].version)
    BY <1>1, <1>2 DEF LocalsOK, CommitSteps, Request, TypeOK
<1>4. PICK step \in {"sayAccepted", "sayUpdated"} : Goto(w, step)
    BY DEF UpdateCache, PublishAccepted
<1>5. /\ pc[w] \in CommitSteps /\ step \in CommitSteps \ {"sayRejected"} /\ step \in Steps
      /\ step \notin {"fill", "lock", "decide", "setCache"}
    BY <1>2 DEF CommitSteps, Steps
<1>6. /\ cache' \in CacheEntry \cup {None} /\ CacheHoldsACommittedState'
      /\ events' \subseteq Event /\ EventsAreTrue'
    <2>1. CASE UpdateCache(w)
        <3>1. cache' = [state |-> req[w].state, version |-> req[w].version] /\ events' = events
            BY <2>1 DEF UpdateCache, CacheRecord
        <3>2. pc[w] = "setCache"
            BY <2>1 DEF UpdateCache
        <3>3. cache' \in CacheEntry /\ CacheHoldsACommittedState'
            BY <1>2, <1>3, <3>1, <3>2 DEF CacheHoldsACommittedState, CacheEntry
        <3>4. events' \subseteq Event /\ EventsAreTrue'
            BY <1>1, <1>2, <3>1 DEF IInv, TypeOK, EventsAreTrue
        <3>5. QED
            BY <3>3, <3>4
    <2>2. CASE PublishAccepted(w)
        <3>1. cache' = cache
            BY <2>2 DEF PublishAccepted
        <3>2. cache' \in CacheEntry \cup {None} /\ CacheHoldsACommittedState'
            BY <1>1, <1>2, <3>1 DEF IInv, TypeOK, CacheHoldsACommittedState
        <3>3. events' = events \cup {[type |-> "accepted", prop |-> req[w].prop, version |-> req[w].version]}
            BY <2>2 DEF PublishAccepted, Emit
        <3>4. events' \subseteq Event
            BY <1>1, <1>3, <3>3 DEF TypeOK, Event
        <3>5. EventsAreTrue'
            BY <1>2, <1>3, <3>3 DEF IInv, EventsAreTrue
        <3>6. QED
            BY <3>2, <3>4, <3>5
    <2>3. QED
        BY <2>1, <2>2
<1>7. req' = [req EXCEPT ![w] = WithState(req[w], req[w].state, req[w].version)]
    BY <1>1, <1>2, RequestFields
<1>8. held' \in [Workers -> Nat]
    BY <1>1, <1>2 DEF TypeOK
<1>9. PICK s \in WorldStates, v \in Nat :
          /\ req' = [req EXCEPT ![w] = WithState(req[w], s, v)]
          /\ v \in Versions /\ ledger[v].proposal = req[w].prop
    BY <1>3, <1>7
<1>10. UNCHANGED <<ledger, proposals>>
    BY <1>2
<1>11. QED
    BY <1>4, <1>5, <1>6, <1>8, <1>9, <1>10, GoOnPreserves

\* The last publication of a coroutine is true.
LEMMA LastWordPreserves ==
    ASSUME IInv, NEW w \in Workers,
           AnnounceProposal(w) \/ PublishRejected(w) \/ PublishUpdated(w)
    PROVE  IInv'
<1> USE LedgerUnchanged
<1>1. TypeOK /\ LocalsOK(w) /\ req[w] \in Request
    BY RequestFields DEF IInv
<1>2. Return(w) /\ UNCHANGED <<ledger, proposals, cache>>
    BY DEF AnnounceProposal, PublishRejected, PublishUpdated
<1>3. PICK type \in {"created", "rejected", "updated"}, v \in Nat :
          /\ events' = events \cup {[type |-> type, prop |-> req[w].prop, version |-> v]}
          /\ type = "created" => pc[w] = "announce"
          /\ type = "rejected" => pc[w] = "sayRejected"
          /\ type = "updated" => pc[w] = "sayUpdated" /\ v = req[w].version
    <2>1. CASE AnnounceProposal(w)
        BY <2>1 DEF AnnounceProposal, Emit
    <2>2. CASE PublishRejected(w)
        BY <2>2 DEF PublishRejected, Emit
    <2>3. CASE PublishUpdated(w)
        BY <1>1, <2>3 DEF PublishUpdated, Emit, Request
    <2>4. QED
        BY <2>1, <2>2, <2>3
<1>4. /\ req[w].prop \in Proposals
      /\ type = "created" => proposals[req[w].prop].verdict # "absent"
      /\ type = "rejected" => proposals[req[w].prop].verdict = "rejected"
      /\ type = "updated" => v \in Versions /\ ledger[v].proposal = req[w].prop
    BY <1>1, <1>3 DEF LocalsOK, CommitSteps
<1>5. events' \subseteq Event
    BY <1>1, <1>3, <1>4 DEF TypeOK, Event
<1>6. EventsAreTrue'
    BY <1>2, <1>3, <1>4 DEF IInv, EventsAreTrue
<1>7. QED
    BY <1>2, <1>5, <1>6, ReturnPreserves

\* An exception or a crash leaves both tables, the cache and the events alone.
LEMMA GiveUpPreserves ==
    ASSUME IInv, NEW w \in Workers, CommitError(w) \/ Crash(w)
    PROVE  IInv'
<1>1. Return(w) /\ UNCHANGED <<ledger, proposals, cache, events>>
    BY DEF CommitError, Crash
<1>2. events' \subseteq Event /\ EventsAreTrue'
    BY <1>1, LedgerUnchanged DEF IInv, TypeOK, EventsAreTrue
<1>3. QED
    BY <1>1, <1>2, ReturnPreserves

\* Losing the cache loses nothing.
LEMMA CacheExpiresPreserves ==
    ASSUME IInv, CacheExpires
    PROVE  IInv'
<1> USE LedgerUnchanged
<1>1. UNCHANGED <<ledger, proposals, events, pc, req, held>> /\ cache' = None
    BY DEF CacheExpires
<1>2. TypeOK' /\ Snapshots'
    BY <1>1 DEF IInv, TypeOK
<1>3. \A w \in Workers : LocalsOK(w)'
    BY <1>1 DEF IInv, LocalsOK
<1>4. OneSubmitter' /\ ProposalsOK' /\ RowsOK'
    BY <1>1 DEF IInv, OneSubmitter, ProposalsOK, RowsOK
<1>5. CacheHoldsACommittedState' /\ EventsAreTrue'
    BY <1>1 DEF IInv, CacheHoldsACommittedState, EventsAreTrue
<1>6. QED
    BY <1>2, <1>3, <1>4, <1>5 DEF IInv

-----------------------------------------------------------------------------
(* The steps that write a table. *)

\* submit_proposal inserts a row nobody has seen yet.
LEMMA InsertProposalPreserves ==
    ASSUME IInv, NEW w \in Workers, InsertProposal(w)
    PROVE  IInv'
<1> USE LedgerUnchanged
<1>1. TypeOK /\ LocalsOK(w) /\ req[w] \in Request
    BY RequestFields DEF IInv
<1>2. pc[w] = "insert" /\ UNCHANGED <<ledger, cache, events, req, held>>
    BY DEF InsertProposal
<1>3. /\ req[w].op = "submit" /\ req[w].prop \in Proposals /\ req[w].muts \in MutationLists
      /\ proposals[req[w].prop].verdict = "absent"
      /\ req[w].version \in Nat /\ req[w].version <= Latest
    BY <1>1, <1>2 DEF LocalsOK, Request
<1>4. PICK p \in Proposals, row \in ProposalRow :
          /\ p = req[w].prop /\ proposals' = [proposals EXCEPT ![p] = row]
          /\ row.verdict = "pending" /\ row.muts \in MutationLists /\ row.before <= Latest
    <2> DEFINE new == [verdict |-> "pending", muts |-> req[w].muts, before |-> req[w].version, after |-> 0]
    <2>1. /\ new \in ProposalRow /\ new.verdict = "pending" /\ new.muts \in MutationLists
          /\ new.before <= Latest
        BY <1>3 DEF ProposalRow
    <2>2. proposals' = [proposals EXCEPT ![req[w].prop] = new]
        BY DEF InsertProposal
    <2> HIDE DEF new
    <2>3. QED
        BY <1>3, <2>1, <2>2
<1>5. proposals'[p] = row /\ \A q \in Proposals : q # p => proposals'[q] = proposals[q]
    BY <1>1, <1>4 DEF TypeOK
<1>6. /\ pc' = [pc EXCEPT ![w] = "announce"] /\ pc'[w] = "announce"
      /\ \A u \in Workers : u # w => pc'[u] = pc[u]
    BY <1>1 DEF InsertProposal, Goto, TypeOK
<1>7. TypeOK'
    <2>1. pc' \in [Workers -> Steps] /\ proposals' \in [Proposals -> ProposalRow]
        BY <1>1, <1>4, <1>6 DEF TypeOK, Steps
    <2>2. QED
        BY <1>1, <1>2, <2>1 DEF TypeOK
<1>8. ASSUME NEW u \in Workers PROVE LocalsOK(u)'
    <2>1. CASE u = w
        BY <1>2, <1>3, <1>4, <1>5, <1>6, <2>1 DEF LocalsOK, CommitSteps
    <2>2. CASE u # w
        <3>1. LocalsOK(u) /\ pc'[u] = pc[u] /\ req'[u] = req[u]
            BY <1>2, <1>6, <2>2 DEF IInv
        <3>2. req[u].op = "submit" => req[u].prop # p
            BY <1>3, <1>4, <2>2 DEF IInv, OneSubmitter
        <3>3. pc[u] \in CommitSteps => req[u].prop # p
            BY <1>3, <1>4, <3>1 DEF LocalsOK
        <3>4. pc[u] = "sayRejected" => pc[u] \in CommitSteps
            BY DEF CommitSteps
        <3>5. QED
            BY <1>2, <1>5, <3>1, <3>2, <3>3, <3>4 DEF LocalsOK
    <2>3. QED
        BY <2>1, <2>2
<1>9. ProposalsOK'
    BY <1>2, <1>4, <1>5 DEF IInv, ProposalsOK
<1>10. RowsOK'
    <2>1. \A v \in Versions : ledger[v].proposal \in Proposals /\ ledger[v].proposal # p
        BY <1>1, <1>3, <1>4 DEF IInv, RowsOK, TypeOK, Row
    <2>2. QED
        BY <1>2, <1>5, <2>1 DEF IInv, RowsOK
<1>11. OneSubmitter' /\ CacheHoldsACommittedState' /\ Snapshots'
    BY <1>2 DEF IInv, OneSubmitter, CacheHoldsACommittedState
<1>12. EventsAreTrue'
    <2>1. \A e \in events : e.prop \in Proposals
        BY <1>1 DEF TypeOK, Event
    <2>2. QED
        BY <1>2, <1>3, <1>4, <1>5, <2>1 DEF IInv, EventsAreTrue
<1>13. QED
    BY <1>7, <1>8, <1>9, <1>10, <1>11, <1>12 DEF IInv

\* A proposal is only ever rejected when it was pending, or rejected by a
\* concurrent caller for the same reason: never when it was accepted.
LEMMA RejectFacts ==
    ASSUME IInv, NEW w \in Workers, Reject(w)
    PROVE  /\ req[w].prop \in Proposals
           /\ proposals[req[w].prop].verdict \in {"pending", "rejected"}
           /\ ~ ValidateMutations(Reconstruct(proposals[req[w].prop].before), proposals[req[w].prop].muts)
<1> DEFINE p == req[w].prop
<1>1. TypeOK /\ LocalsOK(w) /\ ProposalsOK /\ RowsOK
    BY DEF IInv
<1>2. /\ pc[w] = "decide" /\ req[w].version = proposals[p].before
      /\ ~ ValidateMutations(Reconstruct(req[w].version), proposals[p].muts)
    BY DEF Reject, LedgerMoved
<1>3. p \in Proposals /\ proposals[p].verdict # "absent"
    BY <1>1, <1>2 DEF LocalsOK, CommitSteps
<1> HIDE DEF p
<1>4. ASSUME proposals[p].verdict = "accepted" PROVE FALSE
    <2>1. PICK v \in Versions : v = proposals[p].after /\ ledger[v].proposal = p
        BY <1>1, <1>3, <1>4 DEF ProposalsOK
    <2>2. /\ proposals[p].before = v - 1 /\ proposals[p].muts = ledger[v].mutations
          /\ ValidateMutations(Reconstruct(v - 1), ledger[v].mutations)
        BY <1>1, <2>1 DEF RowsOK
    <2>3. QED
        BY <1>2, <2>2
<1>5. proposals[p].verdict \in {"absent", "pending", "accepted", "rejected"}
    BY <1>1, <1>3 DEF TypeOK, ProposalRow
<1>6. QED
    BY <1>2, <1>3, <1>4, <1>5 DEF p

\* Only a pending proposal is accepted, and only on top of the latest version:
\* a stale row handed out by FOR UPDATE, or a second caller, fails.
LEMMA AcceptFacts ==
    ASSUME IInv, NEW w \in Workers, Accept(w)
    PROVE  /\ req[w].prop \in Proposals
           /\ proposals[req[w].prop].verdict = "pending"
           /\ proposals[req[w].prop].before = Latest
           /\ req[w].version = Latest
           /\ ValidateMutations(Reconstruct(Latest), proposals[req[w].prop].muts)
<1> DEFINE p == req[w].prop
<1>1. TypeOK /\ LocalsOK(w) /\ ProposalsOK /\ RowsOK /\ req[w] \in Request
    BY RequestFields DEF IInv
<1>2. /\ pc[w] = "decide" /\ req[w].version = proposals[p].before
      /\ req[w].version + 1 \notin Versions
      /\ ValidateMutations(Reconstruct(req[w].version), proposals[p].muts)
    BY DEF Accept, CommitRaises, LedgerMoved, NextVersion
<1>3. p \in Proposals /\ proposals[p].verdict # "absent"
    BY <1>1, <1>2 DEF LocalsOK, CommitSteps
<1>4. req[w].version = Latest
    BY <1>1, <1>2 DEF LocalsOK, TypeOK, Request
<1> HIDE DEF p
<1>5. proposals[p].verdict # "accepted"
    BY <1>1, <1>2, <1>3 DEF ProposalsOK
<1>6. proposals[p].verdict # "rejected"
    BY <1>1, <1>2, <1>3 DEF ProposalsOK
<1>7. proposals[p].verdict \in {"absent", "pending", "accepted", "rejected"}
    BY <1>1, <1>3 DEF TypeOK, ProposalRow
<1>8. proposals[p].verdict = "pending" /\ proposals[p].before = Latest
    BY <1>2, <1>3, <1>4, <1>5, <1>6, <1>7
<1>9. QED
    BY <1>2, <1>3, <1>4, <1>8 DEF p

\* The two writers of a verdict change one proposal row.
LEMMA ResolveEffect ==
    ASSUME TypeOK, NEW p \in Proposals, NEW verdict \in {"accepted", "rejected"}, NEW after \in Nat,
           Resolve(p, verdict, after)
    PROVE  /\ proposals' \in [Proposals -> ProposalRow]
           /\ proposals'[p].verdict = verdict
           /\ proposals'[p].after = after
           /\ proposals'[p].muts = proposals[p].muts
           /\ proposals'[p].before = proposals[p].before
           /\ \A q \in Proposals : q # p => proposals'[q] = proposals[q]
<1> DEFINE row == [verdict |-> verdict, muts |-> proposals[p].muts,
                   before |-> proposals[p].before, after |-> after]
<1>1. /\ row \in ProposalRow /\ row.verdict = verdict /\ row.after = after
      /\ row.muts = proposals[p].muts /\ row.before = proposals[p].before
    BY DEF TypeOK, ProposalRow
<1>2. proposals' = [proposals EXCEPT ![p] = row]
    BY DEF Resolve
<1> HIDE DEF row
<1>3. QED
    BY <1>1, <1>2 DEF TypeOK

\* A rejection.
LEMMA RejectPreserves ==
    ASSUME IInv, NEW w \in Workers, Reject(w)
    PROVE  IInv'
<1> USE LedgerUnchanged
<1>1. TypeOK /\ LocalsOK(w)
    BY DEF IInv
<1>2. PICK p \in Proposals, after \in Nat :
          /\ p = req[w].prop /\ after = proposals[p].after
          /\ proposals[p].verdict \in {"pending", "rejected"}
          /\ ~ ValidateMutations(Reconstruct(proposals[p].before), proposals[p].muts)
    BY <1>1, RejectFacts DEF TypeOK, ProposalRow
<1>3. /\ Resolve(p, "rejected", after) /\ UNCHANGED <<ledger, cache, events, req>>
      /\ pc[w] = "decide"
    BY <1>2 DEF Reject
<1>4. /\ proposals' \in [Proposals -> ProposalRow]
      /\ proposals'[p].verdict = "rejected"
      /\ proposals'[p].muts = proposals[p].muts
      /\ proposals'[p].before = proposals[p].before
      /\ \A q \in Proposals : q # p => proposals'[q] = proposals[q]
    BY <1>1, <1>3, ResolveEffect
<1>5. /\ pc' \in [Workers -> Steps] /\ pc'[w] = "sayRejected"
      /\ \A u \in Workers : u # w => pc'[u] = pc[u]
      /\ held' \in [Workers -> Nat]
    BY <1>1 DEF Reject, Goto, TypeOK, Steps
<1>6. TypeOK'
    BY <1>1, <1>3, <1>4, <1>5 DEF TypeOK
<1>7. ASSUME NEW u \in Workers PROVE LocalsOK(u)'
    <2>1. LocalsOK(u) /\ req'[u] = req[u]
        BY <1>3 DEF IInv
    <2>2. \A q \in Proposals : proposals'[q].verdict = "absent" <=> proposals[q].verdict = "absent"
        BY <1>2, <1>4
    <2>3. \A q \in Proposals : proposals[q].verdict = "rejected" => proposals'[q].verdict = "rejected"
        BY <1>4
    <2>4. CASE u = w
        <3>1. req[u].op = "commit" /\ req[u].prop = p
            BY <1>1, <1>2, <1>3, <2>4 DEF LocalsOK, CommitSteps
        <3>2. QED
            BY <1>4, <1>5, <2>1, <2>4, <3>1 DEF LocalsOK, CommitSteps
    <2>5. CASE u # w
        <3>1. pc'[u] = pc[u]
            BY <1>5, <2>5
        <3>2. pc[u] = "sayRejected" => pc[u] \in CommitSteps
            BY DEF CommitSteps
        <3>3. QED
            BY <1>3, <2>1, <2>2, <2>3, <3>1, <3>2 DEF LocalsOK
    <2>6. QED
        BY <2>4, <2>5
<1>8. ProposalsOK'
    BY <1>2, <1>3, <1>4 DEF IInv, ProposalsOK
<1>9. RowsOK'
    <2>1. \A v \in Versions : ledger[v].proposal \in Proposals /\ ledger[v].proposal # p
        BY <1>1, <1>2 DEF IInv, RowsOK, TypeOK, Row
    <2>2. QED
        BY <1>3, <1>4, <2>1 DEF IInv, RowsOK
<1>10. OneSubmitter' /\ CacheHoldsACommittedState' /\ Snapshots'
    BY <1>3 DEF IInv, OneSubmitter, CacheHoldsACommittedState
<1>11. EventsAreTrue'
    <2>1. \A e \in events : e.prop \in Proposals
        BY <1>1 DEF TypeOK, Event
    <2>2. QED
        BY <1>2, <1>3, <1>4, <2>1 DEF IInv, EventsAreTrue
<1>12. QED
    BY <1>6, <1>7, <1>8, <1>9, <1>10, <1>11 DEF IInv

\* An acceptance: the one step that adds a row to the ledger.
LEMMA AcceptPreserves ==
    ASSUME IInv, NEW w \in Workers, Accept(w)
    PROVE  IInv'
<1>1. TypeOK /\ LocalsOK(w) /\ Snapshots /\ req[w] \in Request
    BY RequestFields DEF IInv
<1>2. PICK n \in Nat, p \in Proposals :
          /\ n = Latest /\ Versions = 1..n /\ p = req[w].prop /\ req[w].version = n
          /\ proposals[p].verdict = "pending" /\ proposals[p].before = n
          /\ proposals[p].muts \in MutationLists
          /\ ValidateMutations(Reconstruct(n), proposals[p].muts)
    BY <1>1, AcceptFacts DEF IInv, ProposalsOK, TypeOK
<1>3. PICK s \in WorldStates : s = ApplyMutations(Reconstruct(n), proposals[p].muts)
    BY <1>1, <1>2, ReconstructType, ApplyMutationsType
<1>4. PICK row : row = NewRow(n + 1, s, p)
    OBVIOUS
<1>5. /\ row.mutations = proposals[p].muts /\ row.proposal = p
      /\ row.checkpoint => row.snapshot = s
      /\ row \in Row
    BY <1>2, <1>4, CheckpointIntervalAssumption DEF NewRow, Row
<1>6. /\ Appends(n, row)
      /\ Resolve(p, "accepted", n + 1)
      /\ req' = [req EXCEPT ![w] = WithState(req[w], s, n + 1)]
      /\ held' = [held EXCEPT ![w] = 0]
      /\ Goto(w, "setCache")
      /\ UNCHANGED <<cache, events>>
      /\ pc[w] = "decide"
    BY <1>2, <1>3, <1>4 DEF Accept, NextVersion, Appends
<1>7. /\ Versions' = 1..(n + 1) /\ Latest' = n + 1
      /\ ledger'[n + 1] = row /\ \A i \in Versions : ledger'[i] = ledger[i]
      /\ ledger' = [i \in Versions' |-> IF i = n + 1 THEN row ELSE ledger[i]]
    BY <1>2, <1>6, AppendedVersions
<1>8. \A v \in 0..n : Reconstruct(v)' = Reconstruct(v)
    BY <1>2, <1>6, ReconstructStable
<1>9. Reconstruct(n + 1)' = s
    BY <1>2, <1>3, <1>5, <1>6, ReconstructNext
<1>10. /\ proposals' \in [Proposals -> ProposalRow]
       /\ proposals'[p].verdict = "accepted" /\ proposals'[p].after = n + 1
       /\ proposals'[p].muts = proposals[p].muts /\ proposals'[p].before = n
       /\ \A q \in Proposals : q # p => proposals'[q] = proposals[q]
    BY <1>1, <1>2, <1>6, ResolveEffect
<1> HIDE DEF Appends
<1>11. PICK r \in Request : /\ r = WithState(req[w], s, n + 1)
                            /\ r.op = req[w].op /\ r.prop = p /\ r.muts = req[w].muts
                            /\ r.state = s /\ r.version = n + 1
    <2> DEFINE new == WithState(req[w], s, n + 1)
    <2>1. /\ new \in Request /\ new.op = req[w].op /\ new.prop = p /\ new.muts = req[w].muts
          /\ new.state = s /\ new.version = n + 1
        BY <1>1, <1>2 DEF WithState, Request
    <2> HIDE DEF new
    <2>2. QED
        BY <2>1 DEF new
<1>12. /\ pc' \in [Workers -> Steps] /\ pc'[w] = "setCache"
       /\ req' \in [Workers -> Request] /\ req'[w] = r
       /\ \A u \in Workers : u # w => pc'[u] = pc[u] /\ req'[u] = req[u]
       /\ held' \in [Workers -> Nat]
    BY <1>1, <1>6, <1>11 DEF Goto, TypeOK, Steps
<1>13. TypeOK'
    <2>1. ledger' \in [Versions' -> Row]
        BY <1>1, <1>2, <1>5, <1>7 DEF TypeOK
    <2>2. QED
        BY <1>1, <1>6, <1>7, <1>10, <1>12, <2>1 DEF TypeOK
<1>14. Snapshots'
    BY <1>1, <1>2, <1>5, <1>7 DEF Snapshots
<1>15. ASSUME NEW u \in Workers PROVE LocalsOK(u)'
    <2>1. LocalsOK(u) /\ req[u] \in Request
        BY <1>1, RequestFields DEF IInv
    <2>2. CASE u = w
        <3>1. req[u].op = "commit"
            BY <1>6, <2>1, <2>2 DEF LocalsOK, CommitSteps
        <3>2. QED
            BY <1>5, <1>7, <1>9, <1>10, <1>11, <1>12, <2>2, <3>1 DEF LocalsOK, CommitSteps
    <2>3. CASE u # w
        <3>1. pc'[u] = pc[u] /\ req'[u] = req[u] /\ req[u].version \in Nat
            BY <1>12, <2>1, <2>3 DEF Request
        <3>2. /\ \A q \in Proposals : proposals'[q].verdict = "absent" <=> proposals[q].verdict = "absent"
              /\ \A q \in Proposals : proposals[q].verdict = "rejected" => proposals'[q].verdict = "rejected"
            BY <1>2, <1>10
        <3>3. /\ req[u].version <= Latest => req[u].version <= Latest' /\ req[u].version \in 0..n
              /\ req[u].version \in Versions =>
                    /\ req[u].version \in Versions'
                    /\ req[u].version \in 0..n
                    /\ ledger'[req[u].version] = ledger[req[u].version]
            BY <1>2, <1>7, <3>1
        <3>4. /\ pc[u] = "fill" => Reconstruct(req[u].version)' = Reconstruct(req[u].version)
              /\ pc[u] = "setCache" => Reconstruct(req[u].version)' = Reconstruct(req[u].version)
            BY <1>8, <2>1, <3>1, <3>3 DEF LocalsOK
        <3>5. pc[u] = "sayRejected" => pc[u] \in CommitSteps
            BY DEF CommitSteps
        <3>6. QED
            BY <2>1, <3>1, <3>2, <3>3, <3>4, <3>5 DEF LocalsOK
    <2>4. QED
        BY <2>2, <2>3
<1>16. OneSubmitter'
    <2>1. req[w].op = "commit"
        BY <1>1, <1>6 DEF LocalsOK, CommitSteps
    <2>2. QED
        BY <1>11, <1>12, <2>1 DEF IInv, OneSubmitter
<1>17. ProposalsOK'
    <2>1. SUFFICES ASSUME NEW q \in Proposals
                   PROVE  /\ proposals'[q].verdict # "absent" =>
                                proposals'[q].muts \in MutationLists /\ proposals'[q].before <= Latest'
                          /\ proposals'[q].verdict = "rejected" =>
                                ~ ValidateMutations(Reconstruct(proposals[q].before)', proposals'[q].muts)
                          /\ proposals'[q].verdict = "accepted" =>
                                /\ proposals'[q].after = proposals'[q].before + 1
                                /\ proposals'[q].after \in Versions'
                                /\ ledger'[proposals'[q].after].proposal = q
        BY DEF ProposalsOK
    <2>2. CASE q = p
        BY <1>2, <1>5, <1>7, <1>10, <2>2
    <2>3. CASE q # p
        <3>1. proposals'[q] = proposals[q] /\ proposals[q] \in ProposalRow
            BY <1>1, <1>10, <2>3 DEF TypeOK
        <3>2. proposals[q].verdict # "absent" =>
                 proposals[q].before \in 0..n /\ proposals[q].muts \in MutationLists
            BY <1>2, <3>1 DEF IInv, ProposalsOK, ProposalRow
        <3>3. proposals[q].verdict # "absent" =>
                 Reconstruct(proposals[q].before)' = Reconstruct(proposals[q].before)
            BY <1>8, <3>1, <3>2
        <3>4. QED
            BY <1>2, <1>7, <3>1, <3>2, <3>3 DEF IInv, ProposalsOK
    <2>4. QED
        BY <2>2, <2>3
<1>18. RowsOK'
    <2>1. SUFFICES ASSUME NEW v \in Versions'
                   PROVE  /\ proposals'[ledger'[v].proposal].verdict = "accepted"
                          /\ proposals'[ledger'[v].proposal].before = v - 1
                          /\ proposals'[ledger'[v].proposal].muts = ledger'[v].mutations
                          /\ ValidateMutations(Reconstruct(v - 1)', ledger'[v].mutations)
        BY DEF RowsOK
    <2>2. CASE v = n + 1
        BY <1>2, <1>5, <1>7, <1>8, <1>10, <2>2
    <2>3. CASE v # n + 1
        <3>1. v \in Versions /\ ledger'[v] = ledger[v] /\ v - 1 \in 0..n
            BY <1>2, <1>7, <2>3
        <3>2. ledger[v].proposal \in Proposals /\ ledger[v].proposal # p
            BY <1>1, <1>2, <3>1 DEF IInv, RowsOK, TypeOK, Row
        <3>3. QED
            BY <1>8, <1>10, <3>1, <3>2 DEF IInv, RowsOK
    <2>4. QED
        BY <2>2, <2>3
<1>19. CacheHoldsACommittedState'
    <2>1. cache # None => cache.version \in 0..n /\ cache.state = Reconstruct(cache.version)
        BY <1>1, <1>2 DEF IInv, CacheHoldsACommittedState, TypeOK, CacheEntry
    <2>2. QED
        BY <1>2, <1>6, <1>7, <1>8, <2>1 DEF CacheHoldsACommittedState
<1>20. EventsAreTrue'
    <2>1. \A e \in events : e.prop \in Proposals
        BY <1>1 DEF TypeOK, Event
    <2>2. \A q \in Proposals : /\ proposals[q].verdict # "absent" => proposals'[q].verdict # "absent"
                               /\ proposals[q].verdict = "rejected" => proposals'[q].verdict = "rejected"
        BY <1>2, <1>10
    <2>3. \A v \in Versions : v \in Versions' /\ ledger'[v] = ledger[v]
        BY <1>2, <1>7
    <2>4. EventsAreTrue /\ events' = events
        BY <1>6 DEF IInv
    <2>5. QED
        BY <2>1, <2>2, <2>3, <2>4 DEF EventsAreTrue
<1>21. QED
    BY <1>13, <1>14, <1>15, <1>16, <1>17, <1>18, <1>19, <1>20 DEF IInv

-----------------------------------------------------------------------------
(* The theorems. *)

\* Every step of the service keeps the invariant.
LEMMA NextIInv == IInv /\ [Next]_vars => IInv'
<1> SUFFICES ASSUME IInv, [Next]_vars PROVE IInv'
    OBVIOUS
<1>1. ASSUME NEW w \in Workers, GetCurrent(w) PROVE IInv'
    <2> DEFINE r == NewRequest("read", None, <<>>)
    <2>1. r \in Request /\ r.op = "read"
        BY DEF NewRequest, Request, Pristine, WorldStates
    <2>2. BeginRead(w, r)
        BY <1>1 DEF GetCurrent
    <2> HIDE DEF r
    <2>3. QED
        BY <2>1, <2>2, BeginReadPreserves
<1>2. ASSUME NEW w \in Workers, NEW p \in Proposals, NEW ms \in MutationLists, SubmitProposal(w, p, ms)
      PROVE  IInv'
    <2> DEFINE r == NewRequest("submit", p, ms)
    <2>1. r \in Request /\ r.op = "submit" /\ r.prop = p /\ r.muts = ms
        BY DEF NewRequest, Request, Pristine, WorldStates
    <2>2. BeginRead(w, r)
        BY <1>2 DEF SubmitProposal
    <2>3. /\ proposals[p].verdict = "absent"
          /\ \A u \in Workers : req[u].op = "submit" => req[u].prop # p
        BY <1>2 DEF SubmitProposal
    <2> HIDE DEF r
    <2>4. QED
        BY <2>1, <2>2, <2>3, BeginReadPreserves
<1>3. ASSUME NEW w \in Workers, NEW p \in Proposals, BeginCommit(w, p) PROVE IInv'
    BY <1>3, BeginCommitPreserves
<1>4. ASSUME NEW w \in Workers, Continue(w) PROVE IInv'
    BY <1>4, LoadFromDbPreserves, FillCachePreserves, InsertProposalPreserves, LastWordPreserves,
       LockPreserves, GiveUpPreserves, RejectPreserves, AcceptPreserves, AfterCommitPreserves
       DEF Continue
<1>5. ASSUME NEW w \in Workers, Crash(w) PROVE IInv'
    BY <1>5, GiveUpPreserves
<1>6. CASE CacheExpires
    BY <1>6, CacheExpiresPreserves
<1>7. CASE UNCHANGED vars
    <2>1. UNCHANGED <<ledger, proposals, cache, events, pc, req, held>>
        BY <1>7 DEF vars
    <2>2. TypeOK' /\ Snapshots'
        BY <2>1, LedgerUnchanged DEF IInv, TypeOK
    <2>3. \A w \in Workers : LocalsOK(w)'
        BY <2>1, LedgerUnchanged DEF IInv, LocalsOK
    <2>4. OneSubmitter' /\ ProposalsOK' /\ RowsOK' /\ CacheHoldsACommittedState' /\ EventsAreTrue'
        BY <2>1, LedgerUnchanged
        DEF IInv, OneSubmitter, ProposalsOK, RowsOK, CacheHoldsACommittedState, EventsAreTrue
    <2>5. QED
        BY <2>2, <2>3, <2>4 DEF IInv
<1>8. QED
    BY <1>1, <1>2, <1>3, <1>4, <1>5, <1>6, <1>7 DEF Next

\* The inductive invariant holds in every reachable state.
THEOREM Invariance == Spec => []IInv
<1>1. Init => IInv
    BY InitIInv
<1>2. IInv /\ [Next]_vars => IInv'
    BY NextIInv
<1>3. QED
    BY <1>1, <1>2, PTL DEF Spec

\* Type correctness of tables, cache, events and locals: versions are
\* consecutive from 1 and every reconstructed state is a WorldState.
THEOREM TypeCorrect == Spec => []TypeOK
<1>1. IInv => TypeOK
    BY DEF IInv
<1>2. QED
    BY <1>1, Invariance, PTL

\* No update is lost: every version was validated against, and computed from,
\* the version its proposal was made at.
THEOREM NoLostUpdates == Spec => []NoLostUpdate
<1>1. IInv => NoLostUpdate
    BY DEF IInv, RowsOK, NoLostUpdate, ValidateMutations
<1>2. QED
    BY <1>1, Invariance, PTL

\* However many callers commit a proposal, it makes at most one version, and
\* makes one exactly when it is accepted.
THEOREM ExactlyOnce == Spec => []AcceptedExactlyOnce
<1>1. ASSUME IInv, NEW p \in Proposals
      PROVE  {v \in Versions : ledger[v].proposal = p}
                = IF proposals[p].verdict = "accepted" THEN {proposals[p].after} ELSE {}
    <2>1. \A v \in Versions : ledger[v].proposal = p =>
              proposals[p].verdict = "accepted" /\ proposals[p].before = v - 1
        BY <1>1 DEF IInv, RowsOK
    <2>2. proposals[p].verdict = "accepted" =>
              /\ proposals[p].after = proposals[p].before + 1
              /\ proposals[p].after \in Versions /\ ledger[proposals[p].after].proposal = p
        BY <1>1 DEF IInv, ProposalsOK
    <2>3. Versions \subseteq Int
        BY <1>1 DEF IInv, TypeOK
    <2>4. \A v \in Versions : ledger[v].proposal = p => v = proposals[p].after
        BY <2>1, <2>2, <2>3
    <2>5. QED
        BY <2>1, <2>2, <2>4
<1>2. IInv => AcceptedExactlyOnce
    BY <1>1 DEF AcceptedExactlyOnce
<1>3. QED
    BY <1>2, Invariance, PTL

\* The cache never runs ahead of the database and never mislabels a state.
THEOREM CacheIsCommitted == Spec => []CacheHoldsACommittedState
<1>1. IInv => CacheHoldsACommittedState
    BY DEF IInv
<1>2. QED
    BY <1>1, Invariance, PTL

\* No subscriber hears of a verdict or a version the database does not have.
THEOREM EventsTrue == Spec => []EventsAreTrue
<1>1. IInv => EventsAreTrue
    BY DEF IInv
<1>2. QED
    BY <1>1, Invariance, PTL

\* The ledger is append-only and a verdict is final, whatever concurrent
\* callers do.
THEOREM HistoryFinal == Spec => HistoryIsFinal
<1> DEFINE Kept == /\ \A v \in Versions : v \in Versions' /\ ledger'[v] = ledger[v]
                   /\ \A p \in Proposals :
                         proposals[p].verdict \in {"accepted", "rejected"} => proposals'[p] = proposals[p]
<1>1. ASSUME IInv, [Next]_vars PROVE [Kept]_vars
    <2>1. CASE UNCHANGED <<ledger, proposals>>
        BY <2>1, LedgerUnchanged
    <2>2. ASSUME NEW w \in Workers, InsertProposal(w) PROVE Kept
        <3>1. TypeOK /\ LocalsOK(w) /\ pc[w] = "insert" /\ UNCHANGED ledger
            BY <1>1, <2>2 DEF IInv, InsertProposal
        <3>2. req[w].prop \in Proposals /\ proposals[req[w].prop].verdict = "absent"
            BY <3>1 DEF LocalsOK
        <3>3. \A q \in Proposals : q # req[w].prop => proposals'[q] = proposals[q]
            BY <2>2, <3>1 DEF InsertProposal, TypeOK
        <3>4. QED
            BY <3>1, <3>2, <3>3, LedgerUnchanged
    <2>3. ASSUME NEW w \in Workers, Reject(w) PROVE Kept
        <3> DEFINE q == req[w].prop
        <3>1. /\ TypeOK /\ q \in Proposals /\ proposals[q].verdict \in {"pending", "rejected"}
              /\ UNCHANGED ledger
            BY <1>1, <2>3, RejectFacts DEF IInv, Reject
        <3>2. proposals' = [proposals EXCEPT ![q] =
                               [verdict |-> "rejected", muts |-> proposals[q].muts,
                                before |-> proposals[q].before, after |-> proposals[q].after]]
            BY <2>3 DEF Reject, Resolve
        <3> HIDE DEF q
        <3>3. \A p \in Proposals : p # q => proposals'[p] = proposals[p]
            BY <3>1, <3>2 DEF TypeOK
        <3>4. proposals[q].verdict = "rejected" => proposals'[q] = proposals[q]
            BY <3>1, <3>2 DEF TypeOK, ProposalRow
        <3>5. QED
            BY <3>1, <3>3, <3>4, LedgerUnchanged
    <2>4. ASSUME NEW w \in Workers, Accept(w) PROVE Kept
        <3> DEFINE q == req[w].prop
        <3>1. /\ TypeOK /\ q \in Proposals /\ proposals[q].verdict = "pending"
            BY <1>1, <2>4, AcceptFacts DEF IInv
        <3>2. \A p \in Proposals : p # q => proposals'[p] = proposals[p]
            BY <2>4, <3>1 DEF Accept, Resolve, TypeOK
        <3>3. PICK v : /\ v \notin Versions
                       /\ \E row : ledger' = [n \in Versions \cup {v} |-> IF n = v THEN row ELSE ledger[n]]
            BY <2>4 DEF Accept, CommitRaises
        <3>4. \A n \in Versions : n \in Versions' /\ ledger'[n] = ledger[n]
            BY <3>3 DEF Versions
        <3>5. QED
            BY <3>1, <3>2, <3>4
    <2>5. CASE UNCHANGED vars
        BY <2>5
    <2>6. QED
        BY <1>1, <2>1, <2>2, <2>3, <2>4, <2>5
        DEF Next, Continue, GetCurrent, SubmitProposal, BeginRead, LoadFromDb, FillCache,
            AnnounceProposal, BeginCommit, SelectLatest, LockRow, CommitError, PublishRejected,
            UpdateCache, PublishAccepted, PublishUpdated, Crash, CacheExpires
<1>2. QED
    BY <1>1, Invariance, PTL DEF Spec, HistoryIsFinal

-----------------------------------------------------------------------------
(* The history of states: deltas, the budget, and the abstract ledger. *)

\* What a commit leaves behind, in one place.
LEMMA AcceptAppends ==
    ASSUME IInv, NEW w \in Workers, Accept(w)
    PROVE  \E n \in Nat, p \in Proposals, row \in Row :
              /\ n = Latest /\ Versions = 1..n /\ Appends(n, row)
              /\ row.mutations = proposals[p].muts /\ row.mutations \in MutationLists
              /\ ValidateMutations(Reconstruct(n), row.mutations) /\ ~ Unparsable(row.mutations)
              /\ Reconstruct(n + 1)' = ApplyMutations(Reconstruct(n), row.mutations)
              /\ proposals[p].verdict = "pending" /\ proposals'[p].verdict = "accepted"
              /\ \A q \in Proposals : q # p => proposals'[q] = proposals[q]
<1>1. TypeOK /\ LocalsOK(w) /\ Snapshots
    BY DEF IInv
<1>2. PICK n \in Nat, p \in Proposals :
          /\ n = Latest /\ Versions = 1..n /\ p = req[w].prop /\ req[w].version = n
          /\ proposals[p].verdict = "pending"
          /\ proposals[p].muts \in MutationLists
          /\ ValidateMutations(Reconstruct(n), proposals[p].muts)
    BY <1>1, AcceptFacts DEF IInv, ProposalsOK, TypeOK
<1>3. PICK s \in WorldStates : s = ApplyMutations(Reconstruct(n), proposals[p].muts)
    BY <1>1, <1>2, ReconstructType, ApplyMutationsType
<1>4. PICK row : row = NewRow(n + 1, s, p)
    OBVIOUS
<1>5. /\ row.mutations = proposals[p].muts
      /\ row.checkpoint => row.snapshot = s
      /\ row \in Row
    BY <1>2, <1>4, CheckpointIntervalAssumption DEF NewRow, Row
<1>6. Appends(n, row) /\ Resolve(p, "accepted", n + 1)
    BY <1>2, <1>3, <1>4 DEF Accept, NextVersion, Appends
<1>7. ~ Unparsable(row.mutations)
    BY <1>2, <1>5 DEF Accept, CommitRaises
<1>8. Reconstruct(n + 1)' = s
    BY <1>2, <1>3, <1>5, <1>6, ReconstructNext
<1>9. proposals'[p].verdict = "accepted" /\ \A q \in Proposals : q # p => proposals'[q] = proposals[q]
    BY <1>1, <1>2, <1>6, ResolveEffect
<1>10. QED
    BY <1>2, <1>3, <1>5, <1>6, <1>7, <1>8, <1>9

\* Rows are added by a commit only.
LEMMA OnlyAcceptAppends ==
    ASSUME [Next]_vars
    PROVE  UNCHANGED ledger \/ \E w \in Workers : Accept(w)
BY DEF Next, Continue, GetCurrent, SubmitProposal, BeginRead, LoadFromDb, FillCache, InsertProposal,
       AnnounceProposal, BeginCommit, SelectLatest, LockRow, CommitError, Reject, PublishRejected,
       UpdateCache, PublishAccepted, PublishUpdated, Crash, CacheExpires, vars

\* Before the first row there is the pristine state.
LEMMA ReconstructZero ==
    ASSUME Versions \subseteq Nat \ {0}
    PROVE  Reconstruct(0) = Pristine /\ NearestCheckpoint(0) = 0
<1>0. \A c \in Versions : ~ (c <= 0)
    <2>1. \A c \in Nat \ {0} : ~ (c <= 0)
        OBVIOUS
    <2>2. QED
        BY <2>1
<1>1. {c \in Versions : c <= 0 /\ ledger[c].checkpoint} = {}
    BY <1>0
<1>2. NearestCheckpoint(0) = 0
    BY <1>1 DEF NearestCheckpoint
<1>3. \A f : Writers(f, 0, 0) = {}
    BY <1>0 DEF Writers
<1>4. Reconstruct(0) = [f \in Fields |-> Pristine[f]]
    BY <1>2, <1>3 DEF Reconstruct
<1>5. QED
    BY <1>2, <1>4 DEF Pristine

\* Every version is the one before it with the mutations of its row applied,
\* also across a checkpoint.
ChainOK ==
    \A v \in Versions : Reconstruct(v) = ApplyMutations(Reconstruct(v - 1), ledger[v].mutations)

LEMMA ChainKept ==
    ASSUME IInv, ChainOK, [Next]_vars
    PROVE  ChainOK'
<1>1. CASE UNCHANGED ledger
    BY <1>1, LedgerUnchanged DEF ChainOK
<1>2. ASSUME NEW w \in Workers, Accept(w) PROVE ChainOK'
    <2>1. PICK n \in Nat, row \in Row :
              /\ Versions = 1..n /\ Appends(n, row)
              /\ Reconstruct(n + 1)' = ApplyMutations(Reconstruct(n), row.mutations)
        BY <1>2, AcceptAppends
    <2>2. Versions' = 1..(n + 1) /\ ledger'[n + 1] = row /\ \A i \in Versions : ledger'[i] = ledger[i]
        BY <2>1, AppendedVersions
    <2>3. \A v \in 0..n : Reconstruct(v)' = Reconstruct(v)
        BY <2>1, ReconstructStable
    <2>4. ASSUME NEW v \in 1..n
          PROVE  Reconstruct(v)' = ApplyMutations(Reconstruct(v - 1)', ledger'[v].mutations)
        <3>1. v \in 0..n /\ v - 1 \in 0..n /\ v \in Versions
            BY <2>1
        <3>2. QED
            BY <2>2, <2>3, <3>1 DEF ChainOK
    <2>5. Reconstruct(n + 1)' = ApplyMutations(Reconstruct((n + 1) - 1)', ledger'[n + 1].mutations)
        <3>1. n \in 0..n /\ (n + 1) - 1 = n
            OBVIOUS
        <3>2. QED
            BY <2>1, <2>2, <2>3, <3>1
    <2>6. \A v \in Versions' : v \in 1..n \/ v = n + 1
        BY <2>2
    <2>7. QED
        BY <2>4, <2>5, <2>6 DEF ChainOK
<1>3. QED
    BY <1>1, <1>2, OnlyAcceptAppends

\* Along the chain of versions IInv describes, the states are those of a replay.
LEMMA Chain == Spec => []ChainOK
<1>1. Init => ChainOK
    BY DEF Init, ChainOK, Versions
<1>2. IInv /\ ChainOK /\ [Next]_vars => ChainOK'
    BY ChainKept
<1>3. QED
    BY <1>1, <1>2, Invariance, PTL DEF Spec

\* Two functions that obey the equation of the replay are the same: the least
\* version where they differ would be neither 0 nor a successor.
LEMMA ReplayIsUnique ==
    ASSUME NEW n \in Nat, NEW f, NEW g, f[0] = g[0],
           \A v \in 1..n : f[v] = ApplyMutations(f[v - 1], ledger[v].mutations),
           \A v \in 1..n : g[v] = ApplyMutations(g[v - 1], ledger[v].mutations)
    PROVE  \A v \in 0..n : f[v] = g[v]
<1> DEFINE D == {v \in 0..n : f[v] # g[v]}
<1>1. SUFFICES ASSUME D # {} PROVE FALSE
    OBVIOUS
<1>2. D \subseteq Nat
    OBVIOUS
<1>3. PICK x \in D : \A y \in D : x <= y
    <2> HIDE DEF D
    <2>1. QED
        BY <1>1, <1>2, LeastNatural
<1>4. x \in 1..n /\ x - 1 \in 0..n /\ ~ (x <= x - 1)
    <2>1. x \in 0..n /\ f[x] # g[x]
        OBVIOUS
    <2>2. x # 0
        BY <2>1
    <2>3. QED
        BY <2>1, <2>2
<1>5. x - 1 \notin D
    BY <1>3, <1>4
<1>6. f[x - 1] = g[x - 1]
    BY <1>4, <1>5
<1>7. QED
    BY <1>4, <1>6

\* Delta storage is lossless for every checkpoint interval: what is read through
\* the nearest checkpoint is what replaying all mutations gives (get_version,
\* _reconstruct_version).
THEOREM DeltasAreLossless == Spec => []CheckpointsAgreeWithReplay
<1>1. ASSUME IInv, ChainOK PROVE CheckpointsAgreeWithReplay
    <2> DEFINE Replayed(f) == [v \in 0..Latest |->
                                  IF v = 0 THEN Pristine ELSE ApplyMutations(f[v - 1], ledger[v].mutations)]
               full == CHOOSE f : f = Replayed(f)
               g == [v \in 0..Latest |-> Reconstruct(v)]
    <2>1. Latest \in Nat /\ Versions = 1..Latest /\ Versions \subseteq Nat \ {0}
        BY <1>1 DEF IInv, TypeOK
    <2>2. g = Replayed(g)
        <3>1. \A v \in 0..Latest : v # 0 => v \in Versions /\ v - 1 \in 0..Latest
            BY <2>1
        <3>2. \A v \in 0..Latest : v # 0 => Reconstruct(v) = ApplyMutations(g[v - 1], ledger[v].mutations)
            BY <1>1, <3>1 DEF ChainOK
        <3>3. Reconstruct(0) = Pristine
            BY <2>1, ReconstructZero
        <3>4. QED
            BY <3>2, <3>3
    <2>3. full = Replayed(full)
        <3> HIDE DEF g
        <3>1. QED
            BY <2>2
    <2>4. \A v \in 0..Latest : full[v] = Reconstruct(v)
        <3>1. \A v \in 0..Latest : full[v] = g[v]
            <4> HIDE DEF full, g
            <4>1. 0 \in 0..Latest /\ \A v \in 1..Latest : v \in 0..Latest /\ v # 0
                BY <2>1
            <4>2. full[0] = Pristine /\ g[0] = Pristine
                BY <2>2, <2>3, <4>1
            <4>3. \A v \in 1..Latest : full[v] = ApplyMutations(full[v - 1], ledger[v].mutations)
                BY <2>3, <4>1
            <4>4. \A v \in 1..Latest : g[v] = ApplyMutations(g[v - 1], ledger[v].mutations)
                BY <2>2, <4>1
            <4>5. full[0] = g[0] /\ Latest \in Nat
                BY <2>1, <4>2
            <4>6. QED
                BY <4>3, <4>4, <4>5, ReplayIsUnique
        <3> HIDE DEF full
        <3>2. QED
            BY <3>1
    <2>5. ASSUME NEW v \in 0..Latest PROVE ~ VersionNotFound(v)
        <3>1. CASE v = 0
            BY <2>1, <3>1, ReconstructZero DEF VersionNotFound
        <3>2. CASE v # 0
            <4>1. v \in Versions /\ v \in Nat
                BY <2>1, <3>2
            <4>2. NearestCheckpoint(v) \in Nat /\ NearestCheckpoint(v) <= v
                BY <2>1, <4>1, NearestCheckpointType
            <4>3. QED
                BY <4>1, <4>2 DEF VersionNotFound
        <3>3. QED
            BY <3>1, <3>2
    <2>6. QED
        BY <2>4, <2>5, Zenon DEF CheckpointsAgreeWithReplay
<1>2. QED
    BY <1>1, Invariance, Chain, PTL

\* A row of version v or before sends the budget as a string.
Spelled(v) ==
    \E u \in 1 .. v : \E i \in DOMAIN ledger[u].mutations :
        ledger[u].mutations[i].path = Remaining /\ ledger[u].mutations[i].new.kind = "text"

\* Mutations that pass validation and can be parsed leave a budget that is not
\* negative, or name it as a string.
LEMMA BudgetAfterCommit ==
    ASSUME NEW s \in WorldStates, NEW ms \in MutationLists, BudgetRespected(s, ms), ~ Unparsable(ms)
    PROVE  \/ ApplyMutations(s, ms)[Remaining] >= 0
           \/ \E i \in DOMAIN ms : ms[i].path = Remaining /\ ms[i].new.kind = "text"
<1> DEFINE d == Decisive(ms, Remaining)
           at == {i \in DOMAIN ms : ms[i].path = Remaining}
<1>1. ApplyMutations(s, ms)[Remaining] = IF d = 0 THEN s[Remaining] ELSE ms[d].new.n
    BY RemainingAssumption DEF ApplyMutations
<1>2. CASE d = 0
    BY <1>1, <1>2 DEF BudgetRespected
<1>3. CASE d # 0
    <2>1. ms[d] \in Mutations
        BY <1>3, DecisiveType
    <2>2. ms[d].new.kind \in {"int", "text", "bad"}
        BY <2>1 DEF Mutations, Kinds
    <2>3. ms[d].new.kind # "bad"
        BY <1>3, RemainingAssumption DEF Unparsable
    <2>4. d \in DOMAIN ms /\ ms[d].path = Remaining
        <3>1. at # {} /\ d = Max(at)
            BY <1>3 DEF Decisive
        <3>2. DOMAIN ms = 1..Len(ms) /\ Len(ms) \in Nat
            BY MutationListsAssumption
        <3>3. at \subseteq Nat /\ \A x \in at : x <= Len(ms)
            BY <3>2
        <3>4. Max(at) \in at
            <4> HIDE DEF at
            <4>1. QED
                BY <3>1, <3>2, <3>3, MaxIsGreatest
        <3>5. QED
            BY <3>1, <3>4
    <2>5. CASE ms[d].new.kind = "int"
        BY <1>1, <1>3, <2>5 DEF BudgetRespected
    <2>6. CASE ms[d].new.kind = "text"
        BY <2>4, <2>6
    <2>7. QED
        BY <2>2, <2>3, <2>5, <2>6
<1>4. QED
    BY <1>2, <1>3

\* No version overdraws the budget, whatever was proposed and committed, unless
\* some row sent the budget as a string (_validate_mutations).
THEOREM OverdraftsRefused == Spec => []OverdraftsAreRefused
<1> DEFINE Sound == \A v \in Versions : Reconstruct(v)[Remaining] >= 0 \/ Spelled(v)
<1>1. Init => Sound
    BY DEF Init, Versions
<1>2. ASSUME IInv, Sound, [Next]_vars PROVE Sound'
    <2>1. CASE UNCHANGED ledger
        BY <1>2, <2>1, LedgerUnchanged DEF Spelled
    <2>2. ASSUME NEW w \in Workers, Accept(w) PROVE Sound'
        <3>1. PICK n \in Nat, row \in Row :
                  /\ Versions = 1..n /\ Appends(n, row) /\ row.mutations \in MutationLists
                  /\ ValidateMutations(Reconstruct(n), row.mutations) /\ ~ Unparsable(row.mutations)
                  /\ Reconstruct(n + 1)' = ApplyMutations(Reconstruct(n), row.mutations)
            BY <1>2, <2>2, AcceptAppends
        <3>2. Versions' = 1..(n + 1) /\ ledger'[n + 1] = row /\ \A i \in Versions : ledger'[i] = ledger[i]
            BY <3>1, AppendedVersions
        <3>3. \A v \in 0..n : Reconstruct(v)' = Reconstruct(v)
            BY <3>1, ReconstructStable
        <3>4. ASSUME NEW v \in 1..n PROVE Reconstruct(v)'[Remaining] >= 0 \/ Spelled(v)'
            <4>1. v \in 0..n /\ v \in Versions /\ \A u \in 1..v : u \in Versions
                BY <3>1
            <4>2. CASE Spelled(v)
                BY <3>2, <4>1, <4>2 DEF Spelled
            <4>3. CASE Reconstruct(v)[Remaining] >= 0
                BY <3>3, <4>1, <4>3
            <4>4. QED
                BY <1>2, <4>1, <4>2, <4>3
        <3>5. Reconstruct(n + 1)'[Remaining] >= 0 \/ Spelled(n + 1)'
            <4>1. Reconstruct(n) \in WorldStates
                BY <1>2, <3>1, ReconstructType DEF IInv
            <4>2. \/ ApplyMutations(Reconstruct(n), row.mutations)[Remaining] >= 0
                  \/ \E i \in DOMAIN row.mutations :
                        row.mutations[i].path = Remaining /\ row.mutations[i].new.kind = "text"
                BY <3>1, <4>1, BudgetAfterCommit DEF ValidateMutations
            <4>3. n + 1 \in 1..(n + 1)
                OBVIOUS
            <4>4. QED
                BY <3>1, <3>2, <4>2, <4>3 DEF Spelled
        <3>6. \A v \in Versions' : v \in 1..n \/ v = n + 1
            BY <3>2
        <3>7. QED
            BY <3>4, <3>5, <3>6
    <2>3. QED
        BY <1>2, <2>1, <2>2, OnlyAcceptAppends
<1>3. Sound => OverdraftsAreRefused
    BY DEF OverdraftsAreRefused, Spelled
<1>4. QED
    <2> HIDE DEF Sound
    <2>1. IInv /\ Sound /\ [Next]_vars => Sound'
        BY <1>2
    <2>2. QED
        BY <1>1, <1>3, <2>1, Invariance, PTL DEF Spec

-----------------------------------------------------------------------------
(* The service implements LedgerAbstract: its history is the sequence of    *)
(* the states of versions 0, 1, ..., Latest.                                *)

History == [i \in 1..Latest + 1 |-> Reconstruct(i - 1)]
Verdicts == [p \in Proposals |-> proposals[p].verdict]

HistoryOK ==
    /\ History \in Seq(WorldStates) /\ Len(History) = Latest + 1
    /\ History[Len(History)] = Reconstruct(Latest)

LEMMA HistoryType == IInv => HistoryOK
<1> SUFFICES ASSUME IInv PROVE HistoryOK
    OBVIOUS
<1>1. Latest \in Nat /\ TypeOK /\ Snapshots
    BY DEF IInv, TypeOK
<1>2. \A i \in 1..Latest + 1 : i - 1 \in Nat
    BY <1>1
<1>3. \A i \in 1..Latest + 1 : Reconstruct(i - 1) \in WorldStates
    BY <1>1, <1>2, ReconstructType
<1>4. History \in [1..Latest + 1 -> WorldStates]
    BY <1>3 DEF History
<1>5. History \in Seq(WorldStates) /\ Len(History) = Latest + 1
    BY <1>1, <1>4
<1>6. Latest + 1 \in 1..Latest + 1 /\ (Latest + 1) - 1 = Latest
    BY <1>1
<1>7. History[Latest + 1] = Reconstruct(Latest)
    BY <1>6 DEF History
<1>8. QED
    BY <1>5, <1>7 DEF HistoryOK

LEMMA HistoryTypeNext == IInv' => HistoryOK'
BY HistoryType, PTL

\* A commit appends one state to the history.
LEMMA HistoryAppends ==
    ASSUME IInv, IInv', NEW n \in Nat, n = Latest, NEW row, Versions = 1..n, Appends(n, row)
    PROVE  History' = Append(History, Reconstruct(n + 1)')
<1>1. Latest' = n + 1
    BY AppendedVersions
<1>2. \A v \in 0..n : Reconstruct(v)' = Reconstruct(v)
    BY ReconstructStable
<1>3. History \in Seq(WorldStates) /\ Len(History) = n + 1
    BY HistoryType DEF HistoryOK
<1>4. History' \in Seq(WorldStates) /\ Len(History') = (n + 1) + 1
    BY <1>1, HistoryTypeNext DEF HistoryOK
<1>5. History' = [i \in 1..(n + 1) + 1 |-> Reconstruct(i - 1)']
    BY <1>1 DEF History
<1>6. History = [i \in 1..n + 1 |-> Reconstruct(i - 1)]
    BY DEF History
<1>7. ASSUME NEW i \in 1..n + 1 PROVE History'[i] = History[i]
    <2>1. i \in 1..(n + 1) + 1 /\ i - 1 \in 0..n
        OBVIOUS
    <2>2. QED
        BY <1>2, <1>5, <1>6, <2>1
<1>8. History'[(n + 1) + 1] = Reconstruct(n + 1)'
    <2>1. (n + 1) + 1 \in 1..(n + 1) + 1 /\ ((n + 1) + 1) - 1 = n + 1
        OBVIOUS
    <2>2. QED
        BY <1>5, <2>1
<1>9. QED
    <2> DEFINE x == Reconstruct(n + 1)'
               h == History
               k == History'
    <2>1. /\ h \in Seq(WorldStates) /\ Len(h) = n + 1 /\ k \in Seq(WorldStates) /\ Len(k) = (n + 1) + 1
          /\ \A i \in 1..n + 1 : k[i] = h[i]
          /\ k[(n + 1) + 1] = x
        BY <1>3, <1>4, <1>7, <1>8
    <2>2. x \in WorldStates
        <3> HIDE DEF h, k, x
        <3>1. (n + 1) + 1 \in 1..Len(k)
            BY <2>1
        <3>2. QED
            BY <2>1, <3>1, ElementOfSeq
    <2> HIDE DEF h, k, x
    <2>3. /\ Append(h, x) \in Seq(WorldStates) /\ Len(Append(h, x)) = Len(h) + 1
          /\ \A i \in 1..Len(h) : Append(h, x)[i] = h[i]
          /\ Append(h, x)[Len(h) + 1] = x
        BY <2>1, <2>2, AppendProperties
    <2>4. \A i \in 1..Len(k) : k[i] = Append(h, x)[i]
        BY <2>1, <2>3
    <2>5. k = Append(h, x)
        BY <2>1, <2>3, <2>4, SeqEqual
    <2>6. QED
        BY <2>5 DEF h, k, x

LEMMA RefinesInit == Init => Abstract!Init
<1> SUFFICES ASSUME Init PROVE Abstract!Init
    OBVIOUS
<1>1. Versions = {} /\ Latest = 0
    BY DEF Init, Versions, Latest
<1>2. Reconstruct(0) = Pristine
    BY <1>1, ReconstructZero
<1>3. [i \in 1..Latest + 1 |-> Reconstruct(i - 1)] = <<Pristine>>
    <2>1. \A i \in 1..Latest + 1 : i - 1 = 0
        BY <1>1
    <2>2. [i \in 1..Latest + 1 |-> Reconstruct(i - 1)] = [i \in 1..1 |-> Pristine]
        BY <1>1, <1>2, <2>1
    <2>3. [i \in 1..1 |-> Pristine] = <<Pristine>>
        OBVIOUS
    <2>4. QED
        BY <2>2, <2>3
<1>4. [p \in Proposals |-> proposals[p].verdict] = [p \in Proposals |-> "absent"]
    BY DEF Init
<1>5. QED
    BY <1>3, <1>4 DEF Abstract!Init, Abstract!Pristine, Pristine

\* Both modules mean the same by a mutation list.
LEMMA SameMutations ==
    ASSUME NEW s, NEW ms
    PROVE  /\ Abstract!ApplyMutations(s, ms) = ApplyMutations(s, ms)
           /\ Abstract!OldValuesMatch(s, ms) <=> OldValuesMatch(s, ms)
<1>1. \A f : Abstract!Decisive(ms, f) = Decisive(ms, f)
    BY DEF Abstract!Decisive, Decisive, Abstract!Max, Max
<1>2. Abstract!ApplyMutations(s, ms) = ApplyMutations(s, ms)
    BY <1>1 DEF Abstract!ApplyMutations, ApplyMutations
<1>3. Abstract!OldValuesMatch(s, ms) <=> OldValuesMatch(s, ms)
    BY DEF Abstract!OldValuesMatch, OldValuesMatch, Abstract!ValueAt, ValueAt
<1>4. QED
    BY <1>2, <1>3

\* A proposal's verdict changes alone.
LEMMA VerdictChanges ==
    ASSUME NEW p \in Proposals, NEW from, NEW to,
           proposals[p].verdict = from, proposals'[p].verdict = to,
           \A q \in Proposals : q # p => proposals'[q] = proposals[q]
    PROVE  Abstract!Resolve(p, from, to)
<1>1. [q \in Proposals |-> proposals[q].verdict][p] = from
    OBVIOUS
<1>2. [q \in Proposals |-> proposals'[q].verdict]
          = [[q \in Proposals |-> proposals[q].verdict] EXCEPT ![p] = to]
    OBVIOUS
<1>3. QED
    BY <1>1, <1>2 DEF Abstract!Resolve

\* Each step is a step of the abstract ledger or changes neither the history nor
\* a verdict.
LEMMA RefinesStep ==
    ASSUME IInv, IInv', [Next]_vars
    PROVE  Abstract!Next \/ UNCHANGED <<History, Verdicts>>
<1>1. CASE UNCHANGED <<ledger, proposals>>
    <2>1. History' = History
        BY <1>1, LedgerUnchanged DEF History
    <2>2. QED
        BY <1>1, <2>1 DEF Verdicts
<1>2. ASSUME NEW w \in Workers, InsertProposal(w) PROVE Abstract!Next
    <2>1. TypeOK /\ LocalsOK(w) /\ pc[w] = "insert" /\ UNCHANGED ledger
        BY <1>2 DEF IInv, InsertProposal
    <2>2. PICK p \in Proposals : p = req[w].prop /\ proposals[p].verdict = "absent"
        BY <2>1 DEF LocalsOK
    <2>3. proposals'[p].verdict = "pending" /\ \A q \in Proposals : q # p => proposals'[q] = proposals[q]
        BY <1>2, <2>1, <2>2 DEF InsertProposal, TypeOK
    <2>4. Abstract!Resolve(p, "absent", "pending")
        BY <2>2, <2>3, VerdictChanges
    <2>5. History' = History
        BY <2>1, LedgerUnchanged DEF History
    <2>6. QED
        BY <2>4, <2>5 DEF Abstract!Next, Abstract!Submit, History
<1>3. ASSUME NEW w \in Workers, Reject(w) PROVE Abstract!Next \/ UNCHANGED <<History, Verdicts>>
    <2>1. PICK p \in Proposals : p = req[w].prop /\ proposals[p].verdict \in {"pending", "rejected"}
        BY <1>3, RejectFacts
    <2>2. TypeOK /\ UNCHANGED ledger /\ Resolve(p, "rejected", proposals[p].after)
        BY <1>3, <2>1 DEF IInv, Reject
    <2>3. proposals'[p].verdict = "rejected" /\ \A q \in Proposals : q # p => proposals'[q] = proposals[q]
        BY <2>1, <2>2 DEF Resolve, TypeOK
    <2>4. History' = History
        BY <2>2, LedgerUnchanged DEF History
    <2>5. CASE proposals[p].verdict = "pending"
        <3>1. Abstract!Resolve(p, "pending", "rejected")
            BY <2>3, <2>5, VerdictChanges
        <3>2. QED
            BY <2>4, <3>1 DEF Abstract!Next, Abstract!Reject, History
    <2>6. CASE proposals[p].verdict = "rejected"
        <3>1. \A q \in Proposals : proposals'[q].verdict = proposals[q].verdict
            BY <2>3, <2>6
        <3>2. QED
            BY <2>4, <3>1 DEF Verdicts
    <2>7. QED
        BY <2>1, <2>5, <2>6
<1>4. ASSUME NEW w \in Workers, Accept(w) PROVE Abstract!Next
    <2>1. PICK n \in Nat, p \in Proposals, row \in Row :
              /\ n = Latest /\ Versions = 1..n /\ Appends(n, row)
              /\ row.mutations \in MutationLists
              /\ ValidateMutations(Reconstruct(n), row.mutations)
              /\ Reconstruct(n + 1)' = ApplyMutations(Reconstruct(n), row.mutations)
              /\ proposals[p].verdict = "pending" /\ proposals'[p].verdict = "accepted"
              /\ \A q \in Proposals : q # p => proposals'[q] = proposals[q]
        BY <1>4, AcceptAppends
    <2> DEFINE ms == row.mutations
    <2>2. Abstract!Resolve(p, "pending", "accepted")
        BY <2>1, VerdictChanges
    <2>3. Abstract!Current = Reconstruct(n)
        BY <2>1, HistoryType DEF HistoryOK, Abstract!Current, History
    <2>4. Abstract!OldValuesMatch(Abstract!Current, ms)
        BY <2>1, <2>3, SameMutations DEF ValidateMutations
    <2>5. History' = Append(History, Abstract!ApplyMutations(Abstract!Current, ms))
        BY <2>1, <2>3, SameMutations, HistoryAppends
    <2>6. Abstract!Accept(p, ms)
        BY <2>2, <2>4, <2>5 DEF Abstract!Accept, History
    <2>7. QED
        BY <2>1, <2>6 DEF Abstract!Next
<1>5. QED
    BY <1>1, <1>2, <1>3, <1>4
    DEF Next, Continue, GetCurrent, SubmitProposal, BeginRead, LoadFromDb, FillCache,
        AnnounceProposal, BeginCommit, SelectLatest, LockRow, CommitError, PublishRejected,
        UpdateCache, PublishAccepted, PublishUpdated, Crash, CacheExpires, vars

\* The ledger service implements one linear history of world states, in which a
\* proposal is resolved once and an accepted one adds the state its mutations
\* make of the state just before (StateManager against LedgerAbstract).
THEOREM Refinement == Spec => ImplementsAbstract
<1>1. Init => Abstract!Init
    BY RefinesInit
<1>2. IInv /\ IInv' /\ [Next]_vars
        => [Abstract!Next]_<<[i \in 1..Latest + 1 |-> Reconstruct(i - 1)],
                            [p \in Proposals |-> proposals[p].verdict]>>
    BY RefinesStep DEF History, Verdicts
<1>3. QED
    BY <1>1, <1>2, Invariance, PTL DEF Spec, ImplementsAbstract, Abstract!Spec

=============================================================================
