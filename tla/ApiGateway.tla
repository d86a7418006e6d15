------------------------------ MODULE ApiGateway ------------------------------
(***************************************************************************)
(* The API gateway (apps/api-gateway): the middlewares a request passes    *)
(* (sliding-window rate limit, API key, body size), and the ServiceClient  *)
(* that forwards it with three attempts.  A middleware awaits nothing      *)
(* before it passes the request on, so a request arrives in one step.      *)
(*                                                                         *)
(*   slot  idle -> call -> [backoff -> call]* -> idle                      *)
(*                                                                         *)
(* Time is counted in half seconds: the Retry-After header is in whole     *)
(* seconds, rounded down and one added.                                    *)
(***************************************************************************)
EXTENDS Integers, Sequences, FiniteSets

CONSTANTS
    Slots,        \* requests the gateway works on at a time
    Keys,         \* rate-limit keys: the API key a request carries, or its address
    Backends,     \* the services GET /health asks, in order
    RateLimit,    \* rate_limit_per_minute, positive
    Window,       \* length of the sliding window, in half seconds
    MaxArrivals,  \* bound: requests in a behaviour
    MaxNow        \* bound: half seconds in a behaviour

ASSUME GatewayAssumption ==
    /\ RateLimit \in Nat \ {0} /\ Window \in Nat \ {0}
    /\ MaxArrivals \in Nat /\ MaxNow \in Nat
    /\ Len(Backends) \in Nat \ {0}

VARIABLES
    now,       \* time.monotonic
    windows,   \* key -> timestamps of the requests counted
    slots,     \* slot -> the request it works on
    applied,   \* slot -> times the backend carried the request out
    errors,    \* slot -> attempts answered with 5xx
    admitted,  \* history: key -> times at which a request was let through
    promised,  \* history: key -> when Retry-After says to come back, None once another came
    arrivals

gatewayVars == <<now, windows, slots, applied, errors, admitted, promised, arrivals>>

MaxTries == 3
Nobody == -1

\* A list comprehension with a condition: the entries at some positions of a list, in order.
EntriesAt(list, positions) ==
    [i \in 1 .. Cardinality(positions) |->
        list[CHOOSE j \in positions : Cardinality({k \in positions : k <= j}) = i]]

\* Fault: the window is one tick short.
RecentShort(key, t) == EntriesAt(windows[key], {i \in DOMAIN windows[key] : windows[key][i] > t - Window + 1})
\* RateLimitMiddleware.dispatch: the timestamps that still count.
Recent(key, t) == EntriesAt(windows[key], {i \in DOMAIN windows[key] : windows[key][i] > t - Window})

\* Fault: the rounded-down number of seconds, without the one added.
RetryAfterRounded(key) == 2 * ((Window - (now - Recent(key, now)[1])) \div 2)
\* int(60 - (now - timestamps[0])) + 1, in half seconds.
RetryAfter(key) == 2 * ((Window - (now - Recent(key, now)[1])) \div 2 + 1)

FreeSlot == [phase |-> "idle", status |-> 0]

\* Fault: the limit is passed by one.
OverLimitLate(key) == Len(Recent(key, now)) > RateLimit
OverLimit(key) == Len(Recent(key, now)) >= RateLimit

\* What the middlewares behind the rate limit do with a request: APIKeyAuthMiddleware (with
\* authentication on), RequestSizeLimitMiddleware; the others go to their handler.
Dispatch(q) ==
    IF q.path # "health" /\ ~q.authorised THEN [phase |-> "idle", status |-> 401]
    ELSE IF q.large THEN [phase |-> "idle", status |-> 413]
    ELSE [phase |-> "call", path |-> q.path, backend |-> 1, attempt |-> 1, overall |-> "healthy"]

GatewayRequests == [path : {"read", "write", "health"}, authorised : BOOLEAN, large : BOOLEAN]

\* The health endpoints are exempt from the limit and from authentication.  A request that is
\* counted is counted whether or not its API key is then refused.
Arrive(slot, key, q) ==
    /\ slots[slot].phase = "idle" /\ arrivals < MaxArrivals
    /\ arrivals' = arrivals + 1
    /\ IF q.path = "health"
       THEN /\ slots' = [slots EXCEPT ![slot] = Dispatch(q)]
            /\ UNCHANGED <<windows, admitted, promised>>
       ELSE IF OverLimit(key)
       THEN /\ windows' = [windows EXCEPT ![key] = Recent(key, now)]
            /\ slots' = [slots EXCEPT ![slot] = [phase |-> "idle", status |-> 429]]
            /\ promised' = [promised EXCEPT ![key] = now + RetryAfter(key)]
            /\ UNCHANGED admitted
       ELSE /\ windows' = [windows EXCEPT ![key] = Append(Recent(key, now), now)]
            /\ slots' = [slots EXCEPT ![slot] = Dispatch(q)]
            /\ admitted' = [admitted EXCEPT ![key] = Append(@, now)]
            /\ promised' = [promised EXCEPT ![key] = Nobody]
    /\ applied' = [applied EXCEPT ![slot] = 0]
    /\ errors' = [errors EXCEPT ![slot] = 0]
    /\ UNCHANGED now

-----------------------------------------------------------------------------
(* ServiceClient._request.  What an attempt may come back with: a refused  *)
(* connection never reached the service; a service that answers 5xx may    *)
(* have done the work all the same, and so may one whose answer is broken: *)
(* too late, cut off, or no JSON.                                          *)

AttemptOutcomes == {"ok", "refused", "client_error", "server_error", "broken"}
MayBeDone(outcome) == CASE outcome = "ok" -> {TRUE}
                          [] outcome \in {"server_error", "broken"} -> BOOLEAN
                          [] OTHER -> {FALSE}

\* Fault: a broken answer is retried too.
IsRetriedAlways(outcome) == outcome \in {"refused", "server_error", "broken"}
IsRetried(outcome) == outcome \in {"refused", "server_error"}

\* The exception handlers: upstream 4xx is passed on, 5xx and an unreachable service become
\* 502, a broken answer is an exception nobody handles.
ClientStatus(outcome) ==
    CASE outcome = "ok" -> 200
      [] outcome = "client_error" -> 404
      [] outcome \in {"server_error", "refused"} -> 502
      [] outcome = "broken" -> 500

\* health_check asks one service after another; one that fails makes the answer degraded.
\* The reply itself is 200 either way.
NextBackend(r, outcome) ==
    LET overall == IF outcome = "ok" THEN r.overall ELSE "degraded"
    IN IF r.backend < Len(Backends)
       THEN [r EXCEPT !.backend = @ + 1, !.attempt = 1, !.phase = "call", !.overall = overall]
       ELSE [phase |-> "idle", status |-> 200, overall |-> overall]

Attempt(slot, outcome, done) ==
    LET r == slots[slot] IN
    /\ r.phase = "call"
    /\ slots' = [slots EXCEPT ![slot] =
         IF IsRetried(outcome) /\ r.attempt < MaxTries THEN [r EXCEPT !.phase = "backoff"]
         ELSE IF r.path = "health" THEN NextBackend(r, outcome)
         ELSE [phase |-> "idle", status |-> ClientStatus(outcome)]]
    /\ applied' = [applied EXCEPT ![slot] = IF done /\ r.path = "write" THEN @ + 1 ELSE @]
    /\ errors' = [errors EXCEPT ![slot] = IF outcome = "server_error" /\ r.path = "write" THEN @ + 1 ELSE @]
    /\ UNCHANGED <<now, windows, admitted, promised, arrivals>>

\* Fault: the attempts are not counted.
ResumeUncounted(slot) ==
    /\ slots[slot].phase = "backoff"
    /\ slots' = [slots EXCEPT ![slot].phase = "call"]
    /\ UNCHANGED <<now, windows, applied, errors, admitted, promised, arrivals>>
\* The sleep between two attempts ends.
Resume(slot) ==
    /\ slots[slot].phase = "backoff"
    /\ slots' = [slots EXCEPT ![slot].phase = "call", ![slot].attempt = @ + 1]
    /\ UNCHANGED <<now, windows, applied, errors, admitted, promised, arrivals>>

TickHalfSecond ==
    /\ now < MaxNow
    /\ now' = now + 1
    /\ UNCHANGED <<windows, slots, applied, errors, admitted, promised, arrivals>>

-----------------------------------------------------------------------------
GatewayInit ==
    /\ now = 0
    /\ windows = [key \in Keys |-> <<>>]
    /\ slots = [slot \in Slots |-> FreeSlot]
    /\ applied = [slot \in Slots |-> 0]
    /\ errors = [slot \in Slots |-> 0]
    /\ admitted = [key \in Keys |-> <<>>]
    /\ promised = [key \in Keys |-> Nobody]
    /\ arrivals = 0

SlotStep(slot) ==
    \/ \E outcome \in AttemptOutcomes : \E done \in MayBeDone(outcome) : Attempt(slot, outcome, done)
    \/ Resume(slot)

\* Many requests over time, each of them turned away or answered at once.
LimitNext(slot) ==
    \/ TickHalfSecond
    \/ \E key \in Keys, authorised \in BOOLEAN :
          Arrive(slot, key, [path |-> "read", authorised |-> authorised, large |-> FALSE])
    \/ Attempt(slot, "ok", TRUE)

\* A few requests with one key and everything the backends may answer.
ForwardNext(key) ==
    \E slot \in Slots :
        \/ \E q \in GatewayRequests : Arrive(slot, key, q)
        \/ SlotStep(slot)

GatewayNext ==
    \/ TickHalfSecond
    \/ \E slot \in Slots :
        \/ \E key \in Keys, q \in GatewayRequests : Arrive(slot, key, q)
        \/ SlotStep(slot)
GatewaySpec == GatewayInit /\ [][GatewayNext]_gatewayVars

-----------------------------------------------------------------------------
\* A slot is idle with an answer or at an attempt; a window never holds more than the limit.
GatewayTypeOK ==
    /\ now \in 0 .. MaxNow
    /\ \A slot \in Slots :
        IF slots[slot].phase = "idle"
        THEN slots[slot].status \in {0, 200, 401, 404, 413, 429, 500, 502}
        ELSE /\ slots[slot].phase \in {"call", "backoff"}
             /\ slots[slot].attempt \in 1 .. MaxTries
             /\ slots[slot].backend \in 1 .. Len(Backends)
    /\ \A key \in Keys : Len(windows[key]) <= RateLimit /\ promised[key] \in {Nobody} \cup Nat

\* "Simple sliding-window rate limiter": no window of a minute, wherever it starts, has more
\* admitted requests of a key than the limit.
NoWindowOverLimit ==
    \A key \in Keys : \A i \in DOMAIN admitted[key] :
        Cardinality({j \in DOMAIN admitted[key] :
            admitted[key][j] >= admitted[key][i] /\ admitted[key][j] < admitted[key][i] + Window}) <= RateLimit

\* A client that waits as long as Retry-After told it is let through, unless another request
\* with its key was meanwhile.
RetryAfterIsEnough ==
    \A key \in Keys : promised[key] # Nobody /\ now >= promised[key] => Len(Recent(key, now)) < RateLimit

\* _request repeats a POST it does not know to be repeatable: the service carries it out again
\* only after it answered an earlier attempt with 5xx, never after an answer that was late or
\* broken.
WritesRepeatOnlyAfterErrors ==
    \A slot \in Slots :
        /\ applied[slot] <= 1 + errors[slot]
        /\ applied[slot] <= MaxTries

\* Every request is answered: the attempts run out, and so do the services of a health check.
GatewayAnswers == []<>(\A slot \in Slots : slots[slot].phase = "idle")

\* The limit holds in every window wherever it starts, waiting as told is enough, and a write is
\* carried out twice only after the service said that it had failed.
LimitsAndRetriesHold ==
    /\ GatewayTypeOK
    /\ NoWindowOverLimit
    /\ RetryAfterIsEnough
    /\ WritesRepeatOnlyAfterErrors
=============================================================================
