------------------------------- MODULE LlmClient -------------------------------
(***************************************************************************)
(* One LLMClient shared by concurrent callers: the budget check before a   *)
(* call, the token-bucket rate limiter, the retry loop around the API, and *)
(* the cost tracker that learns what a call cost only from its answer.     *)
(* Prices are in units of 0.25 USD per million tokens, the buckets in      *)
(* tokens and requests times Minute, so that every amount is an integer.   *)
(***************************************************************************)
EXTENDS Integers, FiniteSets, FiniteSetsExt

CONSTANTS
    Callers,      \* coroutines that share the client
    Prompts,      \* requests: [model, input, max], tokens of the messages and max_tokens
    Unseen,       \* tokens of system prompt and tools, which no estimate counts
    MaxBudget,    \* max_budget_usd
    MaxAttempts,  \* max_retries
    MaxTokens,    \* max_tokens_per_minute
    MaxRequests,  \* max_requests_per_minute
    Minute,       \* ticks of the clock in a minute
    MaxCalls      \* bound on calls of generate

\* LLMRequest: an answer may have one token at least, the messages may be empty.
ASSUME LlmAssumption ==
    /\ Prompts \subseteq [model : {"claude-opus-4", "claude-sonnet-4", "claude-haiku-3", "other"},
                          input : Nat, max : Nat \ {0}]
    /\ IsFiniteSet(Prompts) /\ Prompts # {} /\ IsFiniteSet(Callers)
    /\ Unseen \in Nat /\ MaxBudget \in Nat /\ MaxCalls \in Nat
    /\ MaxAttempts \in Nat \ {0} /\ MaxTokens \in Nat \ {0} /\ MaxRequests \in Nat \ {0} /\ Minute \in Nat \ {0}

VARIABLES
    calls,    \* caller -> [phase, request, attempt, sleep]
    bucket,   \* the rate limiter: [tokens, requests, elapsed]
    tracker,  \* the cost tracker: model -> [input, output, cost, requests]
    warned,   \* thresholds warned about
    started,  \* calls of generate so far
    charged,  \* what the API charged for the answers that arrived
    overlap   \* the most calls ever in flight at once

llmVars == <<calls, bucket, tracker, warned, started, charged, overlap>>

-----------------------------------------------------------------------------
\* CostTracker

Models == {"claude-opus-4", "claude-sonnet-4", "claude-haiku-3", "other"}

\* An unknown model is priced like Sonnet.
ResolvePricing(model) ==
    CASE model = "claude-opus-4" -> [input |-> 60, output |-> 300]
      [] model = "claude-haiku-3" -> [input |-> 1, output |-> 5]
      [] OTHER -> [input |-> 12, output |-> 60]

CostOf(model, input, output) ==
    input * ResolvePricing(model).input + output * ResolvePricing(model).output

CostUnder(model) == IF model \in DOMAIN tracker THEN tracker[model].cost ELSE 0
TotalCost == CostUnder("claude-opus-4") + CostUnder("claude-sonnet-4") + CostUnder("claude-haiku-3") + CostUnder("other")

NoUsage == [input |-> 0, output |-> 0, cost |-> 0, requests |-> 0]

RecordUsage(model, input, output) ==
    LET acc == IF model \in DOMAIN tracker THEN tracker[model] ELSE NoUsage
        new == [input |-> acc.input + input, output |-> acc.output + output,
                cost |-> acc.cost + CostOf(model, input, output), requests |-> acc.requests + 1]
    IN [m \in DOMAIN tracker \cup {model} |-> IF m = model THEN new ELSE tracker[m]]

WithinBudgetSpent(estimate) == TotalCost <= MaxBudget
WithinBudget(estimate) == TotalCost + estimate <= MaxBudget

\* The higher threshold is tried first; a passed check warns of one at most.
WarnThresholds ==
    IF 100 * TotalCost >= 90 * MaxBudget /\ 90 \notin warned THEN warned \cup {90}
    ELSE IF 100 * TotalCost >= 75 * MaxBudget THEN warned \cup {75}
    ELSE warned

-----------------------------------------------------------------------------
\* TokenBucketRateLimiter: the section under the lock awaits nothing and is one step

FullBucket == [tokens |-> MaxTokens * Minute, requests |-> MaxRequests * Minute, elapsed |-> 0]

RefillWholeMinutes ==
    [tokens |-> Min({MaxTokens * Minute, bucket.tokens + (bucket.elapsed \div Minute) * Minute * MaxTokens}),
     requests |-> Min({MaxRequests * Minute, bucket.requests + (bucket.elapsed \div Minute) * Minute * MaxRequests}),
     elapsed |-> 0]
Refill ==
    [tokens |-> Min({MaxTokens * Minute, bucket.tokens + bucket.elapsed * MaxTokens}),
     requests |-> Min({MaxRequests * Minute, bucket.requests + bucket.elapsed * MaxRequests}),
     elapsed |-> 0]

EstimatedTokens(q) == q.max + q.input
EstimatedCost(q) == CostOf(q.model, q.input, q.max)

HasCapacityRequestsOnly(b, q) == b.requests >= Minute
HasCapacity(b, q) == b.tokens >= EstimatedTokens(q) * Minute /\ b.requests >= Minute

\* Ticks until the more constrained bucket holds enough, one at least.
WaitTime(b, q) ==
    LET Ticks(deficit, rate) == IF deficit <= 0 THEN 0 ELSE (deficit + rate - 1) \div rate
    IN Max({Ticks(EstimatedTokens(q) * Minute - b.tokens, MaxTokens),
            Ticks(Minute - b.requests, MaxRequests), 1})

Idle(result) == [phase |-> "idle", result |-> result]

Acquire(c, q) ==
    IF HasCapacity(Refill, q)
    THEN /\ bucket' = [Refill EXCEPT !.tokens = @ - EstimatedTokens(q) * Minute, !.requests = @ - Minute]
         /\ calls' = [calls EXCEPT ![c] = [phase |-> "send", request |-> q, attempt |-> 1]]
    ELSE /\ bucket' = Refill
         /\ calls' = [calls EXCEPT ![c] = [phase |-> "wait", request |-> q, sleep |-> WaitTime(Refill, q)]]

-----------------------------------------------------------------------------
\* LLMClient.generate

InFlight == {c \in Callers : calls[c].phase # "idle"}

\* A call over budget is refused; another goes on to the rate limiter without a pause.
GenerateCall(c, q) ==
    /\ calls[c].phase = "idle"
    /\ started < MaxCalls
    /\ started' = started + 1
    /\ IF WithinBudget(EstimatedCost(q))
       THEN /\ warned' = WarnThresholds
            /\ Acquire(c, q)
            /\ overlap' = Max({overlap, Cardinality(InFlight) + 1})
       ELSE /\ calls' = [calls EXCEPT ![c] = Idle("budget")]
            /\ UNCHANGED <<bucket, warned, overlap>>
    /\ UNCHANGED <<tracker, charged>>

AcquireAgain(c) ==
    /\ calls[c].phase = "wait"
    /\ calls[c].sleep = 0
    /\ Acquire(c, calls[c].request)
    /\ UNCHANGED <<tracker, warned, started, charged, overlap>>

\* What the API may charge for a request: the unseen part of it may be long, the output is capped.
Usages(q) == [input : {q.input, q.input + Unseen}, output : {1, q.max}]

\* The cost is recorded before the answer is looked at.
ParseResponseFirst(c, u, content) ==
    /\ tracker' = IF content \in {"text", "tools"}
                  THEN RecordUsage(calls[c].request.model, u.input, u.output) ELSE tracker
    /\ calls' = [calls EXCEPT ![c] = Idle(CASE content = "empty" -> "response"
                                            [] content = "many_tools" -> "budget"
                                            [] OTHER -> "answer")]
ParseResponse(c, u, content) ==
    /\ tracker' = RecordUsage(calls[c].request.model, u.input, u.output)
    /\ calls' = [calls EXCEPT ![c] = Idle(CASE content = "empty" -> "response"
                                            [] content = "many_tools" -> "budget"
                                            [] OTHER -> "answer")]

Answer(c, u, content) ==
    /\ calls[c].phase = "send"
    /\ ParseResponse(c, u, content)
    /\ charged' = charged + CostOf(calls[c].request.model, u.input, u.output)
    /\ UNCHANGED <<bucket, warned, started, overlap>>

\* 429, 5xx and connection errors are retried, other errors and the last attempt are raised.
Fails(c, kind) ==
    calls' = [calls EXCEPT ![c] =
        IF kind # "client" /\ @.attempt < MaxAttempts THEN [@ EXCEPT !.phase = "backoff"]
        ELSE Idle(IF kind = "rate" THEN "rate" ELSE "error")]

\* A connection may break after the API did the work: nothing of that is seen here.
ApiError(c, kind) ==
    /\ calls[c].phase = "send"
    /\ Fails(c, kind)
    /\ UNCHANGED <<bucket, tracker, warned, started, charged, overlap>>

\* After the back-off the budget is checked again, without an estimate.
RetryCall(c) ==
    /\ calls[c].phase = "backoff"
    /\ IF WithinBudget(0)
       THEN /\ warned' = WarnThresholds
            /\ calls' = [calls EXCEPT ![c].phase = "send", ![c].attempt = @ + 1]
       ELSE /\ calls' = [calls EXCEPT ![c] = Idle("budget")]
            /\ UNCHANGED warned
    /\ UNCHANGED <<bucket, tracker, started, charged, overlap>>

\* More than a minute fills the buckets no further.
Tick ==
    /\ bucket' = [bucket EXCEPT !.elapsed = Min({@ + 1, Minute})]
    /\ calls' = [c \in Callers |-> IF calls[c].phase = "wait" /\ calls[c].sleep > 0
                                   THEN [calls[c] EXCEPT !.sleep = @ - 1] ELSE calls[c]]
    /\ UNCHANGED <<tracker, warned, started, charged, overlap>>

LlmInit ==
    /\ calls = [c \in Callers |-> Idle("none")]
    /\ bucket = FullBucket
    /\ tracker = [model \in {} |-> NoUsage]
    /\ warned = {}
    /\ started = 0
    /\ charged = 0
    /\ overlap = 0

CallerStep(c) ==
    \/ AcquireAgain(c)
    \/ /\ calls[c].phase = "send"
       /\ \/ \E u \in Usages(calls[c].request), content \in {"text", "tools", "many_tools", "empty"} :
                Answer(c, u, content)
          \/ \E kind \in {"rate", "server", "connection", "client"} : ApiError(c, kind)
    \/ RetryCall(c)

LlmNext == Tick \/ \E c \in Callers : CallerStep(c) \/ \E q \in Prompts : GenerateCall(c, q)

LlmSpec == LlmInit /\ [][LlmNext]_llmVars

-----------------------------------------------------------------------------
\* Every caller is in a phase of generate, and neither bucket is ever overdrawn or overfull.
LlmTypeOK ==
    /\ \A c \in Callers :
        CASE calls[c].phase = "idle" -> calls[c].result \in {"none", "answer", "budget", "rate", "error", "response"}
          [] calls[c].phase = "wait" -> calls[c].request \in Prompts /\ calls[c].sleep \in Nat
          [] OTHER -> calls[c].request \in Prompts /\ calls[c].attempt \in 1..MaxAttempts
    /\ bucket \in [tokens : 0..MaxTokens * Minute, requests : 0..MaxRequests * Minute, elapsed : 0..Minute]
    /\ DOMAIN tracker \subseteq Models
    /\ \A model \in DOMAIN tracker : tracker[model] \in [input : Nat, output : Nat, cost : Nat, requests : 1..MaxCalls]
    /\ warned \subseteq {75, 90}
    /\ started \in 0..MaxCalls
    /\ overlap \in 0..Cardinality(Callers)

DearestEstimate == Max({EstimatedCost(q) : q \in Prompts})
DearestExcess == Max({CostOf(q.model, Unseen, 0) : q \in Prompts})

\* check_budget runs before the wait and the answers of calls in flight are not in it yet: the
\* spend passes the budget by no more than the calls that overlapped the last one let in, and by
\* the part of its prompt the estimate does not see.
OverspendIsBounded ==
    overlap > 0 => TotalCost <= MaxBudget + (overlap - 1) * (DearestEstimate + DearestExcess) + DearestExcess

\* total_usage is what the API charged for every answer that arrived, those generate then
\* refused (empty, too many tool calls) included.
AnswersAreAccounted ==
    /\ TotalCost = charged
    /\ \A model \in DOMAIN tracker : tracker[model].cost = CostOf(model, tracker[model].input, tracker[model].output)

\* Calls whose estimate fits the bucket end, whatever other callers wait for and however often
\* the API fails: acquire lets them through and the retries run out.  As the calls are bounded,
\* again and again none of them is in flight.
CallsEnd ==
    []<>(\A c \in Callers : calls[c].phase = "idle" \/ EstimatedTokens(calls[c].request) > MaxTokens)

\* Concurrent calls overdraw no bucket, pass the budget by no more than what was in flight, and
\* every charge is in the totals.
SpendIsAccounted ==
    /\ LlmTypeOK
    /\ OverspendIsBounded
    /\ AnswersAreAccounted
=============================================================================
