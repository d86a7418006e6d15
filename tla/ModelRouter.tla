------------------------------ MODULE ModelRouter ------------------------------
(***************************************************************************)
(* The multi-model router: a complexity score picks the model tier, the    *)
(* collector adds up what the picked tiers cost, and the escalation policy *)
(* moves a task that keeps failing to a higher tier and at last to a       *)
(* person.  The policy is offered to the callers of the library; a caller  *)
(* reports a failure with the tier it believes the task is on.  Weights,   *)
(* prices and the router's thresholds are those of the code.               *)
(* Scores and factors are in units of 1/10000, prices as in LlmClient.     *)
(***************************************************************************)
EXTENDS Integers, Sequences, SequencesExt, FiniteSets, FiniteSetsExt

CONSTANTS
    RoutedTasks,       \* tasks
    TokenEstimates,    \* token_estimate of requests
    DescriptionSizes,  \* lengths of descriptions
    KeywordCounts,     \* how many distinct complexity keywords occur
    MaxTierFailures,   \* max_tier_failures
    MaxTotalFailures,  \* max_total_failures
    MaxRoutes,         \* bound on POST /route
    MaxFailures        \* bound on the failures reported of a task

ASSUME RouterAssumption ==
    /\ TokenEstimates \subseteq Int /\ DescriptionSizes \subseteq Nat /\ KeywordCounts \subseteq Nat
    /\ MaxTierFailures \in Nat \ {0} /\ MaxTotalFailures \in Nat
    /\ MaxRoutes \in Nat /\ MaxFailures \in Nat

VARIABLES
    routed,      \* the decision of the last request
    tierCosts,   \* the collector, by tier: [input, output, cost, requests]
    totals,      \* the rest of the collector: [requests, complexity, hypothetical, escalations]
    records      \* the policy: task -> EscalationRecord, or none

routerVars == <<routed, tierCosts, totals, records>>

Tiers == 1..3  \* tier_1 is the most capable
TaskTypes == {"implement_feature", "write_test", "review_code", "fix_bug", "refactor"}

-----------------------------------------------------------------------------
\* ComplexityScorer

TaskTypeWeight(type) ==
    CASE type = "review_code" -> 8000
      [] type = "fix_bug" -> 7000
      [] type = "implement_feature" -> 5000
      [] type = "refactor" -> 4000
      [] type = "write_test" -> 2000

TokenCap == 100000
TokenFactorWrapped(estimate) == ((estimate * 10000) \div TokenCap) % 10000
TokenFactor(estimate) ==
    CASE estimate <= 0 -> 0
      [] estimate >= TokenCap -> 10000
      [] OTHER -> (estimate * 10000) \div TokenCap

DescriptionFactor(length) ==
    CASE length < 50 -> 1000
      [] length < 200 -> 3000
      [] length < 500 -> 5000
      [] OTHER -> 8000

KeywordFactor(matches) == Min({matches * 2000, 10000})

FactorWeights == [type |-> 35, tokens |-> 25, description |-> 20, keywords |-> 20]

\* The sum of the factors by weight, clamped and rounded to four decimals.
ComplexityOf(q) ==
    LET raw == FactorWeights.type * TaskTypeWeight(q.type)
               + FactorWeights.tokens * TokenFactor(q.estimate)
               + FactorWeights.description * DescriptionFactor(q.length)
               + FactorWeights.keywords * KeywordFactor(q.keywords)
    IN (Min({raw, 1000000}) + 50) \div 100

\* The scorer recommends by thresholds of its own, the router decides by those of its
\* configuration, unless the type of the task has a tier of its own.
ScorerThresholds == <<7000, 3000>>
RouterThresholds == <<7000, 3000>>
TierOf(score, thresholds) ==
    IF score >= thresholds[1] THEN 1 ELSE IF score >= thresholds[2] THEN 2 ELSE 3

RecommendedTier(q) == TierOf(ComplexityOf(q), ScorerThresholds)
TaskOverrides == [review_code |-> 1, write_test |-> 3]
SelectTier(q) ==
    IF q.type \in DOMAIN TaskOverrides THEN TaskOverrides[q.type]
    ELSE TierOf(ComplexityOf(q), RouterThresholds)

\* Prices of the models behind the tiers
Pricing(tier) ==
    CASE tier = 1 -> [input |-> 60, output |-> 300]
      [] tier = 2 -> [input |-> 12, output |-> 60]
      [] tier = 3 -> [input |-> 1, output |-> 5]
CostAt(tier, q) == q.input * Pricing(tier).input + q.output * Pricing(tier).output

RouteRequests ==
    [type : TaskTypes, estimate : TokenEstimates, length : DescriptionSizes,
     keywords : KeywordCounts, input : 0..1, output : 0..1]

NoRecord == [failures |-> 0]  \* no decision, no record

-----------------------------------------------------------------------------
\* POST /route: score, pick, record; a request without token counts is recorded with none

RecordRoutingInputOnly(q, tier) ==
    /\ tierCosts' = [tierCosts EXCEPT ![tier] =
           [input |-> @.input + q.input, output |-> @.output + q.output,
            cost |-> @.cost + CostAt(tier, q), requests |-> @.requests + 1]]
    /\ totals' = [totals EXCEPT !.requests = @ + 1, !.complexity = @ + ComplexityOf(q),
                               !.hypothetical = @ + q.input * Pricing(1).input]
RecordRoutingIfPriced(q, tier) ==
    /\ tierCosts' = [tierCosts EXCEPT ![tier] =
           [input |-> @.input + q.input, output |-> @.output + q.output,
            cost |-> @.cost + CostAt(tier, q), requests |-> @.requests + (IF q.input > 0 THEN 1 ELSE 0)]]
    /\ totals' = [totals EXCEPT !.requests = @ + 1, !.complexity = @ + ComplexityOf(q),
                               !.hypothetical = @ + CostAt(1, q)]
RecordRouting(q, tier) ==
    /\ tierCosts' = [tierCosts EXCEPT ![tier] =
           [input |-> @.input + q.input, output |-> @.output + q.output,
            cost |-> @.cost + CostAt(tier, q), requests |-> @.requests + 1]]
    /\ totals' = [totals EXCEPT !.requests = @ + 1, !.complexity = @ + ComplexityOf(q),
                               !.hypothetical = @ + CostAt(1, q)]

RouteTask(q) ==
    /\ totals.requests < MaxRoutes
    /\ routed' = [request |-> q, recommended |-> RecommendedTier(q), tier |-> SelectTier(q)]
    /\ RecordRouting(q, SelectTier(q))
    /\ UNCHANGED records

TotalRoutedCost == tierCosts[1].cost + tierCosts[2].cost + tierCosts[3].cost
Savings == totals.hypothetical - TotalRoutedCost
AverageComplexity == IF totals.requests > 0 THEN totals.complexity \div totals.requests ELSE 0

-----------------------------------------------------------------------------
\* EscalationPolicy

NextTier(tier) == tier - 1  \* 0: a person

\* How many entries at the end of a history are of a tier.
TrailingFailures(history, tier) ==
    Len(history) - Max({i \in 0..Len(history) : i > 0 => history[i] # tier})

FailureRecordAtEntry(t, tier) ==
    LET history == IF records[t] = NoRecord THEN <<>> ELSE records[t].history
        failures == records[t].failures + 1
        atTier == 1 + TrailingFailures(history, tier)
        exhausted == atTier >= MaxTierFailures /\ NextTier(tier) = 0
    IN [failures |-> failures,
        tier |-> tier,
        history |-> Append(history, tier),
        human |-> failures >= MaxTotalFailures \/ exhausted]
FailureRecordOnce(t, tier) ==
    LET history == IF records[t] = NoRecord THEN <<>> ELSE records[t].history
        failures == records[t].failures + 1
        atTier == 1 + TrailingFailures(history, tier)
        exhausted == atTier = MaxTierFailures /\ NextTier(tier) = 0
    IN [failures |-> failures,
        tier |-> IF atTier >= MaxTierFailures /\ NextTier(tier) # 0 THEN NextTier(tier) ELSE tier,
        history |-> Append(history, tier),
        human |-> failures >= MaxTotalFailures \/ exhausted]
FailureRecord(t, tier) ==
    LET history == IF records[t] = NoRecord THEN <<>> ELSE records[t].history
        failures == records[t].failures + 1
        atTier == 1 + TrailingFailures(history, tier)
        exhausted == atTier >= MaxTierFailures /\ NextTier(tier) = 0
    IN [failures |-> failures,
        tier |-> IF atTier >= MaxTierFailures /\ NextTier(tier) # 0 THEN NextTier(tier) ELSE tier,
        history |-> Append(history, tier),
        human |-> failures >= MaxTotalFailures \/ exhausted]

\* The policy believes the caller's tier, which may be the one it was given before another attempt
\* failed: such a report moves the task back, and may take it back from a person.
RecordFailure(t, tier) ==
    /\ records[t].failures < MaxFailures
    /\ records' = [records EXCEPT ![t] = FailureRecord(t, tier)]
    /\ UNCHANGED <<routed, tierCosts, totals>>

ShouldEscalate(t) ==
    records[t] # NoRecord /\ TrailingFailures(records[t].history, records[t].tier) >= MaxTierFailures

ResetEscalation(t) ==
    /\ records[t] # NoRecord
    /\ records' = [records EXCEPT ![t] = NoRecord]
    /\ UNCHANGED <<routed, tierCosts, totals>>

\* The collector counts what its callers call an escalation.
RecordEscalation ==
    /\ totals.escalations < MaxFailures
    /\ totals' = [totals EXCEPT !.escalations = @ + 1]
    /\ UNCHANGED <<routed, tierCosts, records>>

RouterInit ==
    /\ routed = NoRecord
    /\ tierCosts = [tier \in Tiers |-> [input |-> 0, output |-> 0, cost |-> 0, requests |-> 0]]
    /\ totals = [requests |-> 0, complexity |-> 0, hypothetical |-> 0, escalations |-> 0]
    /\ records = [t \in RoutedTasks |-> NoRecord]

RoutingNext == \E q \in RouteRequests : RouteTask(q)
PolicyNext == RecordEscalation \/ \E t \in RoutedTasks : ResetEscalation(t) \/ \E tier \in Tiers : RecordFailure(t, tier)

RouterSpec == RouterInit /\ [][RoutingNext \/ PolicyNext]_routerVars

-----------------------------------------------------------------------------
\* The collector counts every request once, under one tier; records are of known tiers.
RouterTypeOK ==
    /\ routed = NoRecord \/ routed \in [request : RouteRequests, recommended : Tiers, tier : Tiers]
    /\ tierCosts \in [Tiers -> [input : Nat, output : Nat, cost : Nat, requests : 0..MaxRoutes]]
    /\ totals.requests = tierCosts[1].requests + tierCosts[2].requests + tierCosts[3].requests
    /\ AverageComplexity \in Nat /\ AverageComplexity <= 10000
    /\ \A t \in RoutedTasks : records[t] = NoRecord \/ (records[t].tier \in Tiers /\ records[t].failures = Len(records[t].history))

Demands(q) == <<q.estimate, q.length, q.keywords>>
Easier(p, q) == p.type = q.type /\ \A i \in 1..3 : Demands(p)[i] <= Demands(q)[i]

\* ComplexityScorer and Router together never send a task to a cheaper tier than an easier task
\* of its type: not where a factor saturates, not at a threshold, not for overridden types.
HarderIsNotCheaper ==
    routed # NoRecord => \A p \in {p \in RouteRequests : p.input = 0 /\ p.output = 0} :
        Easier(p, routed.request) => routed.tier <= SelectTier(p)

\* get_cost_savings: routing is never dearer than Tier 1 for everything, so that the clamp of
\* get_stats at zero hides nothing.
SavingsNeverNegative == Savings >= 0

\* record_failure already moved the task when should_escalate is asked: whatever tiers the callers
\* believed it to be on, should_escalate is true only of tasks a person has to take.
EscalatesOnce == \A t \in RoutedTasks : ShouldEscalate(t) => records[t].human

\* A person is asked for when a task failed too often in all, stronger tiers left or not, or when its
\* last failures were all reported at the strongest tier and are too many there; and for no other
\* reason, whatever was reported before (needs_human of record_failure).
PersonIsAsked ==
    \A t \in RoutedTasks : records[t] # NoRecord =>
        (records[t].human <=>
            \/ records[t].failures >= MaxTotalFailures
            \/ TrailingFailures(records[t].history, 1) >= MaxTierFailures)

\* What the report of a failure may do at most (record_failure).  Only one that names another tier
\* than the task's own moves the task to a weaker tier or takes it back from a person; no task moves
\* to a weaker tier than its caller named; and none is taken back that failed too often in all.
FailureStep ==
    \A t \in RoutedTasks : records[t] # NoRecord /\ records'[t] # NoRecord /\ records'[t] # records[t] =>
        LET reported == Last(records'[t].history) IN
        /\ records'[t].tier > records[t].tier \/ (records[t].human /\ ~records'[t].human) => reported # records[t].tier
        /\ records'[t].tier <= reported
        /\ records[t].failures >= MaxTotalFailures => records'[t].human
FailuresOnlyEscalate == [][FailureStep]_records

\* A harder task never gets a cheaper model, at no threshold and for no type, each request is
\* counted once, and a person is asked for when a task failed too often, in all or at the last tier.
RoutesFollowDifficulty ==
    /\ RouterTypeOK
    /\ HarderIsNotCheaper
    /\ SavingsNeverNegative
    /\ EscalatesOnce
    /\ PersonIsAsked
=============================================================================
