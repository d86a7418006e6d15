--------------------------- MODULE KnowledgeMemory ----------------------------
(***************************************************************************)
(* Knowledge and Memory: observations and their compression into patterns, *)
(* heuristics and strategies, the knowledge entries, the acquisition of    *)
(* documentation, and the working memory of the agents.                    *)
(*                                                                         *)
(* Each KnowledgeStore method is one statement and one commit: one step.   *)
(* A compression is fetch, then for every cluster a call to the language   *)
(* model, one commit for each pattern and one for the observations; it may *)
(* fail, and others may run, between any two of them.                      *)
(*                                                                         *)
(* Observations are 1, 2, ... in the order of created_at.  Embeddings are  *)
(* only told apart by the centroid they fall to; 0 is no embedding.        *)
(***************************************************************************)
EXTENDS Integers, Sequences, FiniteSets

CONSTANTS
    MaxObservations, \* bound: rows of observations
    Topics,          \* centroids, positive numbers
    Compressors,     \* concurrent compressions
    MinObservations, \* min_observations
    MaxBatch,        \* max_batch
    MaxEntries,      \* bound: patterns stored
    MinPatterns,     \* min_patterns
    Keys,            \* (task, agent) pairs
    Updates,         \* concurrent updates of working memory
    Capacity,        \* max_entries of the working memory
    MaxUses,         \* bound: uses of a heuristic, and of a strategy
    MinSamples       \* min_samples of the strategy test

ASSUME KnowledgeAssumption ==
    /\ MaxObservations \in Nat /\ MaxEntries \in Nat /\ MaxUses \in Nat /\ MinSamples \in Nat
    /\ Topics \subseteq Nat \ {0}
    /\ Capacity \in Nat \ {0}

VARIABLES
    observations, \* rows: [embedding, pattern], pattern 0 while not compressed
    entries,      \* rows of knowledge_entries: [active, usage]
    compressor,   \* compressor -> [at, batch, cluster, first]
    heuristics,   \* rows: [success, failure, confidence]
    strategy,     \* a meta-strategy: [applied, succeeded, status]
    memory,       \* _store: its keys by last_accessed, oldest first
    lastUse,      \* history: all keys ever used, oldest use first
    update,       \* update request -> [at, key]
    acquisition   \* a KnowledgeAcquisitionWorkflow

storeVars == <<observations, entries, compressor, heuristics, strategy>>
workingVars == <<memory, lastUse, update>>
knowledgeVars == <<observations, entries, compressor, heuristics, strategy, memory, lastUse, update, acquisition>>

\* Rows, as far as the code looks at them.
ObservationRows == [embedding : Topics \cup {0}, pattern : 0 .. MaxEntries]
EntryRows == [active : BOOLEAN, usage : 0 .. 1]
HeuristicRows == [success : 0 .. MaxUses, failure : 0 .. MaxUses, confidence : 0 .. 100]
Strategies == [applied : 0 .. MaxUses, succeeded : 0 .. MaxUses,
               status : {"untested", "insufficient_data", "inconclusive", "validated", "rejected"}]

IdleCompressor == [at |-> "idle", batch |-> {}, cluster |-> {}, first |-> 0]
IdleUpdate == [at |-> "idle", key |-> "none"]

KnowledgeInit ==
    /\ observations = <<>> /\ entries = <<>> /\ heuristics = <<>>
    /\ compressor = [c \in Compressors |-> IdleCompressor]
    /\ strategy = [applied |-> 0, succeeded |-> 0, status |-> "untested"]
    /\ memory = <<>> /\ lastUse = <<>>
    /\ update = [u \in Updates |-> IdleUpdate]
    /\ acquisition = [at |-> "none", left |-> 0, attempts |-> 0, requests |-> 0]

-----------------------------------------------------------------------------
(* Observations. *)

StoreObservation(embedding) ==
    /\ Len(observations) < MaxObservations
    /\ observations' = Append(observations, [embedding |-> embedding, pattern |-> 0])
    /\ UNCHANGED <<entries, compressor, heuristics, strategy, workingVars, acquisition>>

\* Both handlers store an observation without an embedding; a payload that does
\* not validate is logged and dropped.
HandleTaskCompleted(valid) == valid /\ StoreObservation(0)
HandleTaskFailed(valid) == valid /\ StoreObservation(0)

-----------------------------------------------------------------------------
(* CompressionPipeline.  No code of the service starts one. *)

Uncompressed == {o \in DOMAIN observations : observations[o].pattern = 0}

\* The oldest MaxBatch of them, if there are enough.
FetchedObservations ==
    LET batch == {o \in Uncompressed : Cardinality({p \in Uncompressed : p < o}) < MaxBatch} IN
    IF Cardinality(batch) < MinObservations THEN {} ELSE batch

\* cosine_similarity against the threshold: no embedding is similar to nothing.
Similar(o, p) == observations[o].embedding # 0 /\ observations[o].embedding = observations[p].embedding

\* Greedy clustering by similarity; the caller skips clusters of one.
ClustersOf(batch) ==
    {k \in {{p \in batch : Similar(o, p)} : o \in batch} : Cardinality(k) >= 2}

CompressObservations(c) ==
    /\ compressor[c].at = "idle" /\ FetchedObservations # {}
    /\ compressor' = [compressor EXCEPT ![c] = [IdleCompressor EXCEPT !.at = "clustered", !.batch = FetchedObservations]]
    /\ UNCHANGED <<observations, entries, heuristics, strategy, workingVars, acquisition>>

NextCluster(c) ==
    /\ compressor[c].at = "clustered"
    /\ \/ /\ ClustersOf(compressor[c].batch) = {}
          /\ compressor' = [compressor EXCEPT ![c] = IdleCompressor]
       \/ \E k \in ClustersOf(compressor[c].batch) :
             compressor' = [compressor EXCEPT ![c] = [@ EXCEPT !.at = "extract", !.cluster = k, !.batch = compressor[c].batch \ k]]
    /\ UNCHANGED <<observations, entries, heuristics, strategy, workingVars, acquisition>>

\* parse_llm_json_array: how many objects the model's answer yields, none when it
\* is no JSON.
ParsedObjects == 0 .. 2

\* Fault: an answer that does not parse gives no pattern.
PatternsOfNone(parsed) == parsed

\* extract_patterns: what the model's answer parses to, or one entry that keeps
\* the answer as it is.
PatternsOf(parsed) == IF parsed = 0 THEN 1 ELSE parsed

\* Patterns are stored one commit each; the first one is remembered.  A failure
\* (of the model or of a commit) leaves those stored and drops the rest.
StorePatterns(c, parsed) ==
    LET n == PatternsOf(parsed) IN
    /\ compressor[c].at = "extract" /\ Len(entries) + n <= MaxEntries
    /\ \E stored \in 0 .. n :
          /\ entries' = entries \o [i \in 1 .. stored |-> [active |-> TRUE, usage |-> 0]]
          /\ compressor' = [compressor EXCEPT ![c] =
                IF stored < n THEN IdleCompressor
                ELSE [@ EXCEPT !.at = "mark", !.first = IF n = 0 THEN MaxEntries + 1 ELSE Len(entries) + 1]]
    /\ UNCHANGED <<observations, heuristics, strategy, workingVars, acquisition>>

\* mark_observations_compressed, whether or not another compressor did already.
MarkObservationsCompressed(c) ==
    LET k == compressor[c] IN
    /\ k.at = "mark"
    /\ \/ /\ observations' = [o \in DOMAIN observations |->
                IF o \in k.cluster THEN [observations[o] EXCEPT !.pattern = k.first] ELSE observations[o]]
          /\ compressor' = [compressor EXCEPT ![c] = [k EXCEPT !.at = "clustered", !.cluster = {}, !.first = 0]]
       \/ compressor' = [compressor EXCEPT ![c] = IdleCompressor] /\ UNCHANGED observations
    /\ UNCHANGED <<entries, heuristics, strategy, workingVars, acquisition>>

\* search by layer, without an embedding.
ActiveEntries == {e \in DOMAIN entries : entries[e].active}

\* synthesize_heuristics: none without a client or when the answer does not parse.
SynthesizedRules == 0 .. 1

\* promote_patterns_to_heuristics: rules from the active patterns, if enough.
PromotePatternsToHeuristics(rules) ==
    /\ Cardinality(ActiveEntries) >= MinPatterns
    /\ Len(heuristics) + rules <= 1
    /\ heuristics' = heuristics \o [i \in 1 .. rules |-> [success |-> 0, failure |-> 0, confidence |-> 50]]
    /\ UNCHANGED <<observations, entries, compressor, strategy, workingVars, acquisition>>

-----------------------------------------------------------------------------
(* Entries, heuristics, strategies. *)

\* store_entry for a client's own pattern.
CreateKnowledge ==
    /\ Len(entries) < MaxEntries
    /\ entries' = Append(entries, [active |-> TRUE, usage |-> 0])
    /\ UNCHANGED <<observations, compressor, heuristics, strategy, workingVars, acquisition>>

\* Feedback: a useful entry is counted, another one leaves the results.
KnowledgeFeedback(e, useful) ==
    /\ e \in DOMAIN entries
    /\ entries' = [entries EXCEPT ![e] = IF useful THEN [@ EXCEPT !.usage = 1] ELSE [@ EXCEPT !.active = FALSE]]
    /\ UNCHANGED <<observations, compressor, heuristics, strategy, workingVars, acquisition>>

\* Fault: the confidence lags one outcome behind the counters.
EvolveHeuristicLate(h, success) ==
    LET s == heuristics[h].success
        f == heuristics[h].failure
    IN
    /\ s + f < MaxUses
    /\ heuristics' = [heuristics EXCEPT ![h] =
            [success |-> s + (IF success THEN 1 ELSE 0), failure |-> f + (IF success THEN 0 ELSE 1),
             confidence |-> IF s + f = 0 THEN 50 ELSE (100 * s) \div (s + f)]]
    /\ UNCHANGED <<observations, entries, compressor, strategy, workingVars, acquisition>>

\* update_heuristic_outcome: the counters and the confidence, here in percent,
\* in one statement; record_heuristic_failure comes here with FALSE.
EvolveHeuristic(h, success) ==
    LET s == heuristics[h].success + (IF success THEN 1 ELSE 0)
        f == heuristics[h].failure + (IF success THEN 0 ELSE 1)
    IN
    /\ s + f <= MaxUses
    /\ heuristics' = [heuristics EXCEPT ![h] = [success |-> s, failure |-> f, confidence |-> (100 * s) \div (s + f)]]
    /\ UNCHANGED <<observations, entries, compressor, strategy, workingVars, acquisition>>

\* review_heuristic_effectiveness: more failures than half of enough samples.
Ineffective(h) ==
    LET total == heuristics[h].success + heuristics[h].failure IN
    total >= MinSamples /\ 2 * heuristics[h].failure > total

\* record_outcome, by the A/B test a task falls into.
RecordOutcome(success) ==
    /\ strategy.applied < MaxUses
    /\ strategy' = [strategy EXCEPT !.applied = @ + 1, !.succeeded = @ + (IF success THEN 1 ELSE 0)]
    /\ UNCHANGED <<observations, entries, compressor, heuristics, workingVars, acquisition>>

\* Fault: the excess is compared without its sign.
EvaluateStrategyUnsigned(applied, succeeded) ==
    LET excess == 2 * succeeded - applied IN
    CASE applied < MinSamples -> "insufficient_data"
      [] applied >= MinSamples /\ 10000 * excess * excess > 38416 * applied -> "validated"
      [] OTHER -> "inconclusive"

\* evaluate_strategy against a baseline of one half.  z > 1.96 is squared: the
\* square of (2k - n) / sqrt(n) exceeds 3.8416.
EvaluateStrategy(applied, succeeded) ==
    LET excess == 2 * succeeded - applied
        significant == 10000 * excess * excess > 38416 * applied
    IN
    CASE applied < MinSamples -> "insufficient_data"
      [] applied >= MinSamples /\ significant /\ excess > 0 -> "validated"
      [] applied >= MinSamples /\ significant /\ excess < 0 -> "rejected"
      [] OTHER -> "inconclusive"

\* run_validation_cycle sorts the strategies; who calls it keeps the verdict, and
\* a final one is not tested again.
RunValidationCycle ==
    /\ strategy.status \notin {"validated", "rejected"}
    /\ strategy' = [strategy EXCEPT !.status = EvaluateStrategy(strategy.applied, strategy.succeeded)]
    /\ UNCHANGED <<observations, entries, compressor, heuristics, workingVars, acquisition>>

-----------------------------------------------------------------------------
(* Working memory.  Every method holds the lock throughout. *)

Holds(seq, k) == \E i \in DOMAIN seq : seq[i] = k
PositionOf(seq, k) == CHOOSE i \in DOMAIN seq : seq[i] = k
Without(seq, k) ==
    IF Holds(seq, k)
    THEN [i \in 1 .. Len(seq) - 1 |-> IF i < PositionOf(seq, k) THEN seq[i] ELSE seq[i + 1]]
    ELSE seq

InMemory(k) == Holds(memory, k)
Touched(seq, k) == Append(Without(seq, k), k)

\* get, and the first step of an update request.
GetWorkingMemory(k) ==
    /\ InMemory(k)
    /\ memory' = Touched(memory, k) /\ lastUse' = Touched(lastUse, k)
    /\ UNCHANGED <<storeVars, update, acquisition>>

BeginUpdate(u, k) ==
    /\ update[u].at = "idle"
    /\ update' = [update EXCEPT ![u] = [at |-> IF InMemory(k) THEN "update" ELSE "create", key |-> k]]
    /\ memory' = (IF InMemory(k) THEN Touched(memory, k) ELSE memory)
    /\ lastUse' = (IF InMemory(k) THEN Touched(lastUse, k) ELSE lastUse)
    /\ UNCHANGED <<storeVars, acquisition>>

\* Fault: the test for room is off by one.
MakeRoomLate(k) == IF Len(memory) > Capacity /\ ~ InMemory(k) THEN Tail(memory) ELSE memory

\* Fault: the newest entry goes.
MakeRoomNewest(k) == IF Len(memory) >= Capacity /\ ~ InMemory(k) THEN SubSeq(memory, 1, Len(memory) - 1) ELSE memory

\* _evict_oldest_unlocked, when there is no room for a new key.
MakeRoom(k) == IF Len(memory) >= Capacity /\ ~ InMemory(k) THEN Tail(memory) ELSE memory

\* create replaces what another request has created since this one looked.
CreateWorkingMemory(u) ==
    LET k == update[u].key IN
    /\ update[u].at = "create"
    /\ memory' = Touched(MakeRoom(k), k) /\ lastUse' = Touched(lastUse, k)
    /\ update' = [update EXCEPT ![u].at = "update"]
    /\ UNCHANGED <<storeVars, acquisition>>

\* update finds nothing when the entry was evicted in between; the request is
\* answered with what it created all the same.
UpdateWorkingMemory(u) ==
    LET k == update[u].key IN
    /\ update[u].at = "update"
    /\ memory' = (IF InMemory(k) THEN Touched(memory, k) ELSE memory)
    /\ lastUse' = (IF InMemory(k) THEN Touched(lastUse, k) ELSE lastUse)
    /\ update' = [update EXCEPT ![u] = IdleUpdate]
    /\ UNCHANGED <<storeVars, acquisition>>

DeleteWorkingMemory(k) ==
    /\ InMemory(k)
    /\ memory' = Without(memory, k)
    /\ UNCHANGED <<storeVars, lastUse, update, acquisition>>

\* evict_expired, from _eviction_loop: those not accessed for the TTL.
EvictExpired(n) ==
    /\ n <= Len(memory)
    /\ memory' = SubSeq(memory, n + 1, Len(memory))
    /\ UNCHANGED <<storeVars, lastUse, update, acquisition>>

-----------------------------------------------------------------------------
(* KnowledgeAcquisitionWorkflow over a number of URLs. *)

MaxFetchAttempts == 3    \* bound: attempts of the fetch activity

StartAcquisition(urls) ==
    /\ acquisition.at = "none"
    /\ acquisition' = [acquisition EXCEPT !.at = "fetch", !.left = urls]
    /\ UNCHANGED <<storeVars, workingVars>>

Urls == [http : BOOLEAN, resolves : BOOLEAN, internal : BOOLEAN]
ValidateUrl(url) == url.http /\ url.resolves /\ ~ url.internal

\* A refused URL raises before anything is sent.  For the others the response hook,
\* a plain function, is awaited by the asynchronous client: TypeError on every
\* response.  The activity has no retry limit and is tried again, for ever; no
\* document is ever summarised or stored.
FetchDocumentation(url) ==
    /\ acquisition.at = "fetch" /\ acquisition.left > 0 /\ acquisition.attempts < MaxFetchAttempts
    /\ acquisition' = [acquisition EXCEPT !.attempts = @ + 1, !.requests = @ + IF ValidateUrl(url) THEN 1 ELSE 0]
    /\ UNCHANGED <<storeVars, workingVars>>

\* Without a URL: mine_examples_activity finds none yet, and nothing is announced.
FinishAcquisition ==
    /\ acquisition.at = "fetch" /\ acquisition.left = 0
    /\ acquisition' = [acquisition EXCEPT !.at = "done"]
    /\ UNCHANGED <<storeVars, workingVars>>

-----------------------------------------------------------------------------
CompressionNext ==
    \/ \E embedding \in Topics : StoreObservation(embedding)
    \/ \E valid \in BOOLEAN : HandleTaskCompleted(valid) \/ HandleTaskFailed(valid)
    \/ \E c \in Compressors :
          \/ CompressObservations(c) \/ NextCluster(c) \/ MarkObservationsCompressed(c)
          \/ \E parsed \in ParsedObjects : StorePatterns(c, parsed)

LearningNext ==
    \/ CreateKnowledge
    \/ \E e \in DOMAIN entries, useful \in BOOLEAN : KnowledgeFeedback(e, useful)
    \/ \E rules \in SynthesizedRules : PromotePatternsToHeuristics(rules)
    \/ \E h \in DOMAIN heuristics, success \in BOOLEAN : EvolveHeuristic(h, success)

StrategyNext == RunValidationCycle \/ \E success \in BOOLEAN : RecordOutcome(success)

WorkingNext ==
    \/ \E k \in Keys : GetWorkingMemory(k) \/ DeleteWorkingMemory(k)
    \/ \E u \in Updates :
          \/ \E k \in Keys : BeginUpdate(u, k)
          \/ CreateWorkingMemory(u) \/ UpdateWorkingMemory(u)
    \/ \E n \in 1 .. Len(memory) : EvictExpired(n)

AcquisitionNext ==
    \/ \E urls \in 0 .. 2 : StartAcquisition(urls)
    \/ \E url \in Urls : FetchDocumentation(url)
    \/ FinishAcquisition

KnowledgeNext == CompressionNext \/ LearningNext \/ StrategyNext \/ WorkingNext \/ AcquisitionNext
KnowledgeSpec == KnowledgeInit /\ [][KnowledgeNext]_knowledgeVars

-----------------------------------------------------------------------------
(* Properties. *)

\* However the language model answers, whatever fails and however many compressions
\* run over the same rows: an observation that counts as compressed leads to a
\* pattern that was stored (compress_observations, extract_patterns).
CompressedLeadsToPattern ==
    \A o \in DOMAIN observations : observations[o].pattern # 0 => observations[o].pattern \in DOMAIN entries

\* Every variable has its type, and the working memory never exceeds its capacity,
\* although the test for room and the update are calls of concurrent requests.
KnowledgeTypeOK ==
    /\ observations \in Seq(ObservationRows) /\ entries \in Seq(EntryRows)
    /\ heuristics \in Seq(HeuristicRows) /\ strategy \in Strategies
    /\ memory \in Seq(Keys) /\ Len(memory) <= Capacity
    /\ \A u \in Updates : update[u].at # "idle" => update[u].key \in Keys

\* What is evicted to make room is the entry whose last use, by any request, is the
\* longest ago (last_accessed is refreshed by every method that uses an entry).
EvictionStep ==
    \A u \in Updates :
      update[u].at = "create" /\ update'[u].at = "update" =>
         \A k, l \in Keys :
             InMemory(k) /\ ~ Holds(memory', k) /\ Holds(memory', l) /\ InMemory(l)
                 => PositionOf(lastUse, k) < PositionOf(lastUse, l)
OldestGoesFirst == [][EvictionStep]_knowledgeVars

VerdictRank(v) == CASE v = "rejected" -> 0 [] v = "validated" -> 2 [] OTHER -> 1

\* With as many samples, more successes never make the verdict worse, and a verdict
\* of validated needs a majority of them (evaluate_strategy).
VerdictsAreMonotone ==
    LET n == strategy.applied IN
    \A k \in 0 .. n :
        /\ k > 0 => VerdictRank(EvaluateStrategy(n, k - 1)) <= VerdictRank(EvaluateStrategy(n, k))
        /\ EvaluateStrategy(n, k) = "validated" => 2 * k > n

\* A heuristic is reported as ineffective exactly when its confidence has fallen
\* below one half over enough uses: the counters and the confidence are written by
\* one statement, from the values before it (update_heuristic_outcome).
ReviewAgreesWithConfidence ==
    \A h \in DOMAIN heuristics :
        Ineffective(h) <=>
            heuristics[h].success + heuristics[h].failure >= MinSamples /\ heuristics[h].confidence < 50

\* What the store claims rests on what was observed: compressed observations led to a stored
\* pattern, verdicts and reviews follow the counted outcomes, the working memory has its size.
KnowledgeIsGrounded ==
    /\ KnowledgeTypeOK
    /\ CompressedLeadsToPattern
    /\ VerdictsAreMonotone
    /\ ReviewAgreesWithConfidence
=============================================================================
