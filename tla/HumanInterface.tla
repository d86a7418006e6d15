---------------------------- MODULE HumanInterface ----------------------------
(***************************************************************************)
(* The Human Interface: approval gates and votes, escalations and their    *)
(* timeout workflow, the web sockets that hear of them (api/routes.py,     *)
(* temporal/, ws_manager.py, escalation.py over escalation_repo.py).       *)
(*                                                                         *)
(* Sessions run at READ COMMITTED, so what a request reads before its      *)
(* commit may be old by then.  Nothing of a transaction is visible before  *)
(* it commits: flush and commit are one step.                              *)
(*                                                                         *)
(*   cast_vote        idle -> duplicate -> commit -> tell -> idle          *)
(*   create, resolve  one transaction, then tell                           *)
(*   timeout          none -> armed -> expiring -> done                    *)
(*   gate workflow    none -> waiting -> expiring | ended                  *)
(***************************************************************************)
EXTENDS Integers, FiniteSets

CONSTANTS
    VoteCalls,    \* concurrent POST .../vote requests
    Voters,       \* authenticated identities
    Escalations,
    People,       \* who may resolve an escalation
    Sockets,      \* dashboard connections
    MaxSockets    \* max_connections

ASSUME PeopleAssumption == IsFiniteSet(Voters)
ASSUME LimitAssumption == MaxSockets \in Nat

VARIABLES
    gate,       \* one row of approval_gates
    votes,      \* its rows of approval_votes
    call,       \* vote request -> its locals
    esc,        \* escalation -> row
    timer,      \* escalation -> its EscalationTimeoutWorkflow
    news,       \* is a broadcast still to be made?
    sockets,    \* socket -> as the network has it
    registered, \* WebSocketManager._connections
    gateflow,   \* an ApprovalGateWorkflow for the gate
    ruling,     \* the last decision put to should_escalate, with its answer
    overlapped  \* has a vote been cast while another was being cast?

humanVars == <<gate, votes, call, esc, timer, news, sockets, registered, gateflow, ruling, overlapped>>

\* Rows of the three tables, as far as the code looks at them.
GateRows == [status : {"absent", "pending", "approved", "denied"}, approvals : Nat, required : Nat]
VoteRows == [voter : Voters, decision : {"approve", "deny"}]
EscalationRows == [status : {"absent", "pending", "resolved"}, by : People \cup {"nobody", "system_timeout"}]

\* Input to should_escalate: confidence and cost in percent.
EscalationDecisions == [confidence : {59, 60, 89, 90}, critical : BOOLEAN, cost : {0, 20, 21}, fork : BOOLEAN]

IdleCall == [at |-> "idle", voter |-> "nobody", decision |-> "approve", seen |-> 0]

HumanInit ==
    /\ gate = [status |-> "absent", approvals |-> 0, required |-> 1]
    /\ votes = {}
    /\ call = [r \in VoteCalls |-> IdleCall]
    /\ esc = [e \in Escalations |-> [status |-> "absent", by |-> "nobody"]]
    /\ timer = [e \in Escalations |-> "none"]
    /\ news = FALSE
    /\ sockets = [s \in Sockets |-> "new"]
    /\ registered = {}
    /\ gateflow = [at |-> "none", approvals |-> 0, resolved |-> FALSE, status |-> "pending"]
    /\ ruling = [decision |-> [confidence |-> 90, critical |-> FALSE, cost |-> 0, fork |-> FALSE],
                 action |-> "proceed"]
    /\ overlapped = FALSE

-----------------------------------------------------------------------------
(* Approval gates. *)

CreateApprovalGate(n) ==
    /\ gate.status = "absent"
    /\ gate' = [status |-> "pending", approvals |-> 0, required |-> n]
    /\ news' = TRUE
    /\ UNCHANGED <<votes, call, esc, timer, sockets, registered, gateflow, ruling, overlapped>>

\* cast_vote reads the gate; one that is not pending is refused.
ReadGate(r, v, d) ==
    /\ call[r].at = "idle" /\ gate.status = "pending"
    /\ call' = [call EXCEPT ![r] = [at |-> "duplicate", voter |-> v, decision |-> d, seen |-> gate.approvals]]
    /\ overlapped' = (overlapped \/ \E q \in VoteCalls : call[q].at # "idle")
    /\ UNCHANGED <<gate, votes, esc, timer, news, sockets, registered, gateflow, ruling>>

VotedAlready(r) == \E b \in votes : b.voter = call[r].voter

\* The duplicate check: 409, or on to the insert.
CheckDuplicate(r) ==
    /\ call[r].at = "duplicate"
    /\ call' = [call EXCEPT ![r] = IF VotedAlready(r) THEN IdleCall ELSE [@ EXCEPT !.at = "commit"]]
    /\ UNCHANGED <<gate, votes, esc, timer, news, sockets, registered, gateflow, ruling, overlapped>>

\* Fault: the vote that is being cast is counted twice.
EnoughAfterTwice(r) == call[r].seen + 2 >= gate.required

\* Fault: one vote more than required is asked for.
EnoughAfterMore(r) == call[r].seen + 1 > gate.required

\* The count the request has read, and its own vote, against the requirement.
EnoughAfter(r) == call[r].seen + 1 >= gate.required

\* INSERT of the vote, UPDATE of the columns of the gate that changed, COMMIT.
\* The gate is written from what was read before; (gate, voter) is unique.
CommitVote(r) ==
    LET v == call[r].voter
        d == call[r].decision
    IN
    /\ call[r].at = "commit"
    /\ \/ /\ VotedAlready(r)
          /\ UNCHANGED <<gate, votes, news>>
       \/ /\ ~ VotedAlready(r)
          /\ votes' = votes \cup {[voter |-> v, decision |-> d]}
          /\ gate' = [status    |-> CASE d = "deny" -> "denied"
                                      [] d = "approve" /\ EnoughAfter(r) -> "approved"
                                      [] OTHER -> gate.status,
                      approvals |-> IF d = "approve" THEN call[r].seen + 1 ELSE gate.approvals,
                      required  |-> gate.required]
          /\ news' = TRUE
    /\ call' = [call EXCEPT ![r] = IdleCall]
    /\ UNCHANGED <<esc, timer, sockets, registered, gateflow, ruling, overlapped>>

-----------------------------------------------------------------------------
(* ApprovalGateWorkflow. *)

StartGateWorkflow ==
    /\ gateflow.at = "none" /\ gate.status = "pending"
    /\ gateflow' = [gateflow EXCEPT !.at = "waiting"]
    /\ UNCHANGED <<gate, votes, call, esc, timer, news, sockets, registered, ruling, overlapped>>

\* The vote signal: the number of approvals needed comes with the vote, and is
\* one when the vote does not say.  Signals may arrive before the workflow wakes.
VoteSignal(d, required) ==
    LET count == gateflow.approvals + (IF d = "approve" THEN 1 ELSE 0) IN
    /\ gateflow.at = "waiting" /\ gateflow.approvals < gate.required
    /\ gateflow' = [at |-> "waiting", approvals |-> count,
                    resolved |-> gateflow.resolved \/ d = "deny" \/ count >= required,
                    status |-> CASE d = "deny" -> "denied"
                                 [] d = "approve" /\ count >= required -> "approved"
                                 [] OTHER -> gateflow.status]
    /\ UNCHANGED <<gate, votes, call, esc, timer, news, sockets, registered, ruling, overlapped>>

\* wait_condition is met, or its timeout passes.
GateWorkflowWakes ==
    /\ gateflow.at = "waiting"
    /\ \/ gateflow.resolved /\ gateflow' = [gateflow EXCEPT !.at = "ended"]
       \/ ~ gateflow.resolved /\ gateflow' = [gateflow EXCEPT !.at = "expiring", !.status = "expired"]
    /\ UNCHANGED <<gate, votes, call, esc, timer, news, sockets, registered, ruling, overlapped>>

-----------------------------------------------------------------------------
(* Escalations. *)

\* The insert.  The start of the timeout workflow fails and is logged: no code
\* calls set_temporal_client, so get_temporal_client raises.
CreateEscalation(e) ==
    /\ esc[e].status = "absent"
    /\ esc' = [esc EXCEPT ![e] = [status |-> "pending", by |-> "nobody"]]
    /\ news' = TRUE
    /\ UNCHANGED <<gate, votes, call, timer, sockets, registered, gateflow, ruling, overlapped>>

\* External: another client of Temporal starts the workflow the worker offers.
StartTimeoutWorkflow(e) ==
    /\ timer[e] = "none" /\ esc[e].status # "absent"
    /\ timer' = [timer EXCEPT ![e] = "armed"]
    /\ UNCHANGED <<gate, votes, call, esc, news, sockets, registered, gateflow, ruling, overlapped>>

\* EscalationRepository.resolve: an UPDATE by id alone, whatever the status.
\* The endpoint answers 404 only when there is no such row.
Resolve(e, who) ==
    /\ esc[e].status # "absent"
    /\ esc' = [esc EXCEPT ![e] = [status |-> "resolved", by |-> who]]
    /\ news' = TRUE

ResolveEscalation(e, who) ==
    /\ esc[e] # [status |-> "resolved", by |-> who]
    /\ Resolve(e, who)
    /\ UNCHANGED <<gate, votes, call, timer, sockets, registered, gateflow, ruling, overlapped>>

TimerFires(e) ==
    /\ timer[e] = "armed"
    /\ timer' = [timer EXCEPT ![e] = "expiring"]
    /\ UNCHANGED <<gate, votes, call, esc, news, sockets, registered, gateflow, ruling, overlapped>>

\* Fault: the activity only looks whether the deadline has passed.
ExpireEscalationIdle(e) ==
    /\ timer[e] = "expiring"
    /\ timer' = [timer EXCEPT ![e] = "done"]
    /\ UNCHANGED <<gate, votes, call, esc, news, sockets, registered, gateflow, ruling, overlapped>>

\* expire_escalation_activity posts to the resolve endpoint.  A call whose
\* answer is lost has taken effect and is repeated.
ExpireEscalation(e) ==
    /\ timer[e] = "expiring"
    /\ Resolve(e, "system_timeout")
    /\ timer' \in {timer, [timer EXCEPT ![e] = "done"]}
    /\ UNCHANGED <<gate, votes, call, sockets, registered, gateflow, ruling, overlapped>>

\* Fault: a fork is offered as options before the money is looked at.
ShouldEscalateForkFirst(d) ==
    CASE d.confidence < 60 \/ d.critical -> "escalate"
      [] ~ (d.confidence < 60 \/ d.critical) /\ d.fork -> "escalate_with_options"
      [] ~ (d.confidence < 60 \/ d.critical \/ d.fork) /\ d.cost > 20 -> "escalate"
      [] ~ (d.critical \/ d.cost > 20 \/ d.fork) /\ d.confidence \in 60 .. 89 -> "proceed_with_flag"
      [] OTHER -> "proceed"

\* should_escalate, with costs in percent of the budget.
ShouldEscalate(d) ==
    CASE d.confidence < 60 \/ d.critical \/ d.cost > 20 -> "escalate"
      [] ~ (d.confidence < 60 \/ d.critical \/ d.cost > 20) /\ d.fork -> "escalate_with_options"
      [] ~ (d.critical \/ d.cost > 20 \/ d.fork) /\ d.confidence \in 60 .. 89 -> "proceed_with_flag"
      [] OTHER -> "proceed"

\* An agent asks whether a decision of its own needs a human.
AskWhetherToEscalate(d) ==
    /\ ruling' = [decision |-> d, action |-> ShouldEscalate(d)]
    /\ UNCHANGED <<gate, votes, call, esc, timer, news, sockets, registered, gateflow, overlapped>>

-----------------------------------------------------------------------------
(* Web sockets. *)

\* A task or escalation event from the bus is passed on to the dashboards.
HandleSystemEvent ==
    /\ ~ news
    /\ news' = TRUE
    /\ UNCHANGED <<gate, votes, call, esc, timer, sockets, registered, gateflow, ruling, overlapped>>

\* Fault: the limit is not tested.
ConnectUnlimited(s) ==
    /\ sockets[s] = "new"
    /\ sockets' = [sockets EXCEPT ![s] = "open"]
    /\ registered' = registered \cup {s}
    /\ UNCHANGED <<gate, votes, call, esc, timer, news, gateflow, ruling, overlapped>>

\* A client with the right token connects; the limit is tested under the lock.
Connect(s) ==
    /\ sockets[s] = "new"
    /\ \/ /\ Cardinality(registered) >= MaxSockets
          /\ sockets' = [sockets EXCEPT ![s] = "closed"]
          /\ UNCHANGED registered
       \/ /\ Cardinality(registered) < MaxSockets
          /\ sockets' = [sockets EXCEPT ![s] = "open"]
          /\ registered' = registered \cup {s}
    /\ UNCHANGED <<gate, votes, call, esc, timer, news, gateflow, ruling, overlapped>>

\* The peer goes away, and the server may or may not be told.
PeerLeaves(s) ==
    /\ sockets[s] = "open"
    /\ sockets' = [sockets EXCEPT ![s] = "closed"]
    /\ registered' \in {registered, registered \ {s}}
    /\ UNCHANGED <<gate, votes, call, esc, timer, news, gateflow, ruling, overlapped>>

\* broadcast: sockets that cannot be written to are dropped.
Broadcast ==
    /\ news
    /\ news' = FALSE
    /\ registered' = {s \in registered : sockets[s] = "open"}
    /\ UNCHANGED <<gate, votes, call, esc, timer, sockets, gateflow, ruling, overlapped>>

-----------------------------------------------------------------------------
GateNext ==
    \/ \E n \in 1 .. Cardinality(Voters) : CreateApprovalGate(n)
    \/ \E r \in VoteCalls :
          \/ \E v \in Voters, d \in {"approve", "deny"} : ReadGate(r, v, d)
          \/ CheckDuplicate(r) \/ CommitVote(r)
    \/ StartGateWorkflow \/ GateWorkflowWakes
    \/ \E d \in {"approve", "deny"}, n \in {1, gate.required} : VoteSignal(d, n)

EscalationNext ==
    \E e \in Escalations :
        \/ CreateEscalation(e) \/ StartTimeoutWorkflow(e)
        \/ \E who \in People : ResolveEscalation(e, who)
        \/ TimerFires(e) \/ ExpireEscalation(e)

SocketNext == HandleSystemEvent \/ Broadcast \/ \E s \in Sockets : Connect(s) \/ PeerLeaves(s)

HumanNext ==
    \/ GateNext \/ EscalationNext \/ SocketNext
    \/ \E d \in EscalationDecisions : AskWhetherToEscalate(d)

HumanSpec == HumanInit /\ [][HumanNext]_humanVars

\* Temporal fires timers and repeats an activity until it succeeds.
HumanFairness == \A e \in Escalations : WF_humanVars(TimerFires(e)) /\ WF_humanVars(ExpireEscalation(e))

-----------------------------------------------------------------------------
(* Properties. *)

\* Every variable has its type, and the registered sockets respect the limit.
HumanTypeOK ==
    /\ gate \in GateRows /\ votes \subseteq VoteRows
    /\ \A r \in VoteCalls :
          /\ call[r].at \in {"idle", "duplicate", "commit"} /\ call[r].seen \in Nat
          /\ call[r].at # "idle" => call[r].voter \in Voters
    /\ esc \in [Escalations -> EscalationRows]
    /\ timer \in [Escalations -> {"none", "armed", "expiring", "done"}]
    /\ news \in BOOLEAN
    /\ sockets \in [Sockets -> {"new", "open", "closed"}]
    /\ registered \subseteq Sockets /\ Cardinality(registered) <= MaxSockets
    /\ gateflow.at \in {"none", "waiting", "expiring", "ended"}
    /\ ruling.decision \in EscalationDecisions

Approvers == {v \in Voters : [voter |-> v, decision |-> "approve"] \in votes}

\* However many votes are cast at once and whatever they overwrite, a gate is
\* approved only if as many different people as it requires have approved it, and
\* its counter never claims more approvals than there are (cast_vote).
ApprovalIsEarned ==
    /\ gate.approvals <= Cardinality(Approvers)
    /\ gate.status = "approved" => Cardinality(Approvers) >= gate.required

\* An escalation with a timeout workflow does not stay open, also when nobody
\* answers and the calls of the workflow fail (EscalationTimeoutWorkflow).
TimedEscalationsEnd ==
    []<>(\A e \in Escalations : timer[e] = "none" \/ esc[e].status = "resolved")

Strength(a) ==
    CASE a = "proceed" -> 0 [] a = "proceed_with_flag" -> 1
      [] a = "escalate_with_options" -> 2 [] a = "escalate" -> 3

\* A decision that is no safer in any respect is never let through more easily:
\* the order of the tests in should_escalate leaves no gap between its thresholds.
RiskierIsNotEasier ==
    \A d \in EscalationDecisions :
        /\ d.confidence >= ruling.decision.confidence /\ d.cost <= ruling.decision.cost
        /\ d.critical => ruling.decision.critical
        /\ d.fork => ruling.decision.fork
        => Strength(ShouldEscalate(d)) <= Strength(ruling.action)

\* Votes cast one after another are all counted, and a gate with the approvals it
\* requires does not stay open (cast_vote).  Votes that overlap overwrite each
\* other's count: then the gate may stay open with all its approvals recorded.
EnoughVotesResolve ==
    ~overlapped => /\ gate.approvals = Cardinality(Approvers)
                   /\ Cardinality(Approvers) >= gate.required => gate.status \in {"absent", "approved", "denied"}

\* What the Human Interface lets through has been earned: a gate by as many people as it
\* requires, however their votes overlap, a decision by being no riskier than one that is let
\* through; votes that do not overlap are enough, and the sockets stay within their limit.
ApprovalsAreEarned ==
    /\ HumanTypeOK
    /\ ApprovalIsEarned
    /\ EnoughVotesResolve
    /\ RiskierIsNotEasier
=============================================================================
