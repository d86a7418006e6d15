--------------------------- MODULE Services_proofs ---------------------------
(*****************************************************************************)
(* Proofs about the services around the ledger and the delivery pipeline,    *)
(* one section for each.                                                     *)
(*                                                                           *)
(* Human Interface: an approved gate has the approvals it requires, and      *)
(* votes that do not overlap are all counted.                                *)
(* Sandbox: containers, rows and logs agree, and the sweep at startup spares *)
(* the containers of active sessions.                                        *)
(* Lifecycle: consumers stop before the clients they use are closed.         *)
(* Failure Taxonomy: what is announced was recorded, under the one code its  *)
(* text has.                                                                 *)
(* Knowledge and Memory: claims rest on observations, the working memory     *)
(* makes room by what was used the longest ago.                              *)
(* Dashboard hooks: a page shows data for the question it asks, and keeps    *)
(* a way to its socket.                                                      *)
(* Governor's watch over agents: kills are justified and not missed, scores  *)
(* survive caching and restarts.                                             *)
(*****************************************************************************)
EXTENDS HumanInterface, ExecutionSandbox, ServiceLifecycle, FailureTaxonomy,
        KnowledgeMemory, DashboardHooks, AgentWatch,
        SequenceTheorems, FiniteSetTheorems, TLAPS

-----------------------------------------------------------------------------
(*****************************************************************************)
(* Human Interface                                                           *)
(*                                                                           *)
(* A vote is committed with a count that was read two awaits before.  That   *)
(* the result still claims no more approvals than there are rests on         *)
(* CountsAreBehind: a count that some request holds is at most the number of *)
(* approvers, which only grows.  That votes cast one after another are       *)
(* enough rests on OneAtATime: before the first overlap there is one request *)
(* at most, and it holds the count of the row.                               *)
(*****************************************************************************)

CallLocals == [at : {"idle", "duplicate", "commit"}, voter : Voters \cup {"nobody"},
               decision : {"approve", "deny"}, seen : Nat]
GateFlows == [at : {"none", "waiting", "expiring", "ended"}, approvals : Nat, resolved : BOOLEAN,
              status : {"pending", "approved", "denied", "expired"}]

VoteTypes ==
    /\ gate \in GateRows /\ votes \subseteq VoteRows
    /\ call \in [VoteCalls -> CallLocals]
    /\ \A r \in VoteCalls : call[r].at # "idle" => call[r].voter \in Voters
    /\ overlapped \in BOOLEAN

OtherTypes ==
    /\ esc \in [Escalations -> EscalationRows]
    /\ timer \in [Escalations -> {"none", "armed", "expiring", "done"}]
    /\ news \in BOOLEAN
    /\ gateflow \in GateFlows

\* The registry of the web socket manager.
RegistryOK ==
    /\ sockets \in [Sockets -> {"new", "open", "closed"}]
    /\ registered \subseteq Sockets /\ IsFiniteSet(registered)
    /\ Cardinality(registered) <= MaxSockets

\* The count a vote request has read is one that was reached (cast_vote).
CountsAreBehind == \A r \in VoteCalls : call[r].seen <= Cardinality(Approvers)

\* Nobody votes before there is a gate.
GateComesFirst ==
    gate.status = "absent" => votes = {} /\ \A r \in VoteCalls : call[r].at = "idle"

\* As long as no two votes have overlapped there is one request at most, and
\* the gate still has the count it has read.
OneAtATime ==
    ~ overlapped =>
        /\ \A r, q \in VoteCalls : r = q \/ call[r].at = "idle" \/ call[q].at = "idle"
        /\ \A r \in VoteCalls : call[r].at # "idle" => call[r].seen = gate.approvals

\* The answer on record is the one should_escalate gives.
RulingIsCurrent ==
    /\ ruling.decision \in EscalationDecisions
    /\ ruling.action = ShouldEscalate(ruling.decision)

VoteInv ==
    /\ VoteTypes
    /\ CountsAreBehind /\ GateComesFirst /\ OneAtATime /\ ApprovalIsEarned /\ EnoughVotesResolve

HInv == VoteInv /\ OtherTypes /\ RegistryOK /\ RulingIsCurrent

-----------------------------------------------------------------------------
(* Counting approvals. *)

LEMMA ApproversAreFinite == IsFiniteSet(Approvers) /\ Cardinality(Approvers) \in Nat
<1>1. Approvers \subseteq Voters BY DEF Approvers
<1> QED BY <1>1, PeopleAssumption, FS_Subset, FS_CardinalityType

LEMMA ApprovalCounts ==
  ASSUME NEW v \in Voters, votes' = votes \cup {[voter |-> v, decision |-> "approve"]},
         \A b \in votes : b.voter # v
  PROVE  Cardinality(Approvers') = Cardinality(Approvers) + 1
<1>1. v \notin Approvers BY DEF Approvers
<1>2. Approvers' = Approvers \cup {v}
  <2>1. \A u : [voter |-> u, decision |-> "approve"] = [voter |-> v, decision |-> "approve"] <=> u = v
    OBVIOUS
  <2> QED BY <2>1 DEF Approvers
<1> QED BY <1>1, <1>2, ApproversAreFinite, FS_AddElement

LEMMA DenialDoesNot ==
  ASSUME NEW v, votes' = votes \cup {[voter |-> v, decision |-> "deny"]}
  PROVE  Approvers' = Approvers
<1>1. \A u : [voter |-> u, decision |-> "approve"] # [voter |-> v, decision |-> "deny"]
  OBVIOUS
<1> QED BY <1>1 DEF Approvers

-----------------------------------------------------------------------------
(* Votes. *)

LEMMA VoteInit == HumanInit => VoteInv
<1> SUFFICES ASSUME HumanInit PROVE VoteInv
  OBVIOUS
<1>1. Approvers = {} BY DEF HumanInit, Approvers
<1>2. Cardinality(Approvers) = 0 BY <1>1, FS_EmptySet
<1>3. call \in [VoteCalls -> CallLocals] /\ \A r \in VoteCalls : call[r].at = "idle" /\ call[r].seen = 0
  BY DEF HumanInit, CallLocals, IdleCall
<1>4. VoteTypes BY <1>3 DEF HumanInit, VoteTypes, GateRows
<1>5. CountsAreBehind BY <1>2, <1>3 DEF CountsAreBehind
<1>6. GateComesFirst /\ OneAtATime BY <1>3 DEF HumanInit, GateComesFirst, OneAtATime
<1>7. ApprovalIsEarned /\ EnoughVotesResolve BY <1>2 DEF HumanInit, ApprovalIsEarned, EnoughVotesResolve
<1> QED BY <1>4, <1>5, <1>6, <1>7 DEF VoteInv

LEMMA VotesStay ==
  ASSUME VoteInv, UNCHANGED <<gate, votes, call, overlapped>>
  PROVE  VoteInv'
<1>1. Approvers' = Approvers BY DEF Approvers
<1> QED
  BY <1>1 DEF VoteInv, VoteTypes, CountsAreBehind, GateComesFirst, OneAtATime, ApprovalIsEarned,
              EnoughVotesResolve

LEMMA CreateGateKeepsVotes ==
  ASSUME VoteInv, NEW n \in 1 .. Cardinality(Voters), CreateApprovalGate(n)
  PROVE  VoteInv'
<1> USE DEF CreateApprovalGate, VoteInv, VoteTypes
<1>0. n \in Nat /\ n > 0 BY PeopleAssumption, FS_CardinalityType
<1>1. Approvers' = Approvers /\ Approvers = {} BY DEF Approvers, GateComesFirst
<1>2. Cardinality(Approvers) = 0 /\ Cardinality(Approvers') = 0 BY <1>1, FS_EmptySet
<1>3. VoteTypes' BY <1>0 DEF GateRows
<1>4. CountsAreBehind' BY <1>1 DEF CountsAreBehind
<1>5. GateComesFirst' /\ OneAtATime' BY DEF GateComesFirst, OneAtATime
<1>6. ApprovalIsEarned' BY <1>2 DEF ApprovalIsEarned
<1>7. EnoughVotesResolve' BY <1>0, <1>2 DEF EnoughVotesResolve
<1> QED BY <1>3, <1>4, <1>5, <1>6, <1>7

LEMMA ReadGateKeepsVotes ==
  ASSUME VoteInv, NEW r \in VoteCalls, NEW v \in Voters, NEW d \in {"approve", "deny"}, ReadGate(r, v, d)
  PROVE  VoteInv'
<1> USE DEF ReadGate, VoteInv, VoteTypes
<1>1. Approvers' = Approvers BY DEF Approvers
<1>2. VoteTypes' BY DEF GateRows, CallLocals
<1>3. CountsAreBehind' BY <1>1 DEF CountsAreBehind, ApprovalIsEarned
<1>4. GateComesFirst' BY DEF GateComesFirst
<1>5. OneAtATime' BY DEF OneAtATime
<1>6. ApprovalIsEarned' BY <1>1 DEF ApprovalIsEarned
<1>7. EnoughVotesResolve' BY <1>1 DEF EnoughVotesResolve
<1> QED BY <1>2, <1>3, <1>4, <1>5, <1>6, <1>7

LEMMA CheckDuplicateKeepsVotes ==
  ASSUME VoteInv, NEW r \in VoteCalls, CheckDuplicate(r)
  PROVE  VoteInv'
<1> USE DEF CheckDuplicate, VoteInv, VoteTypes, IdleCall, CallLocals
<1>0. 0 <= Cardinality(Approvers) BY ApproversAreFinite
<1>1. Approvers' = Approvers BY DEF Approvers
<1>2. VoteTypes' OBVIOUS
<1>3. CountsAreBehind' BY <1>0, <1>1 DEF CountsAreBehind
<1>4. GateComesFirst' BY DEF GateComesFirst
<1>5. OneAtATime' BY DEF OneAtATime
<1>6. ApprovalIsEarned' BY <1>1 DEF ApprovalIsEarned
<1>7. EnoughVotesResolve' BY <1>1 DEF EnoughVotesResolve
<1> QED BY <1>2, <1>3, <1>4, <1>5, <1>6, <1>7

\* The one that matters: the row is written from what was read before.
LEMMA CommitVoteKeepsVotes ==
  ASSUME VoteInv, NEW r \in VoteCalls, CommitVote(r)
  PROVE  VoteInv'
<1> USE DEF VoteInv, VoteTypes, IdleCall, CallLocals
<1> DEFINE v == call[r].voter
           d == call[r].decision
<1>0. /\ call[r].at = "commit" /\ v \in Voters /\ d \in {"approve", "deny"}
      /\ call' = [call EXCEPT ![r] = IdleCall] /\ overlapped' = overlapped
      /\ call[r].seen \in Nat /\ gate.status # "absent"
  BY DEF CommitVote, GateComesFirst
<1>1. call' \in [VoteCalls -> CallLocals] /\ \A q \in VoteCalls : call'[q].at # "idle" => call'[q].voter \in Voters
  BY <1>0
<1>2. CASE VotedAlready(r)
  <2>1. UNCHANGED <<gate, votes>> BY <1>2 DEF CommitVote
  <2>2. Approvers' = Approvers BY <2>1 DEF Approvers
  <2>3. VoteTypes' BY <1>0, <1>1, <2>1
  <2>4. CountsAreBehind' BY <1>0, <2>2, ApproversAreFinite DEF CountsAreBehind
  <2>5. GateComesFirst' /\ OneAtATime' BY <1>0, <2>1 DEF GateComesFirst, OneAtATime
  <2>6. ApprovalIsEarned' /\ EnoughVotesResolve'
    BY <1>0, <2>1, <2>2 DEF ApprovalIsEarned, EnoughVotesResolve
  <2> QED BY <2>3, <2>4, <2>5, <2>6
<1>3. CASE ~ VotedAlready(r) /\ d = "deny"
  <2>1. /\ votes' = votes \cup {[voter |-> v, decision |-> "deny"]}
        /\ gate' = [status |-> "denied", approvals |-> gate.approvals, required |-> gate.required]
    BY <1>3 DEF CommitVote
  <2>2. Approvers' = Approvers BY <2>1, DenialDoesNot
  <2>3. VoteTypes' BY <1>0, <1>1, <2>1 DEF VoteRows, GateRows
  <2>4. CountsAreBehind' BY <1>0, <2>2, ApproversAreFinite DEF CountsAreBehind
  <2>5. GateComesFirst' /\ OneAtATime' BY <1>0, <2>1 DEF GateComesFirst, OneAtATime
  <2>6. ApprovalIsEarned' /\ EnoughVotesResolve'
    BY <1>0, <2>1, <2>2 DEF ApprovalIsEarned, EnoughVotesResolve
  <2> QED BY <2>3, <2>4, <2>5, <2>6
<1>4. CASE ~ VotedAlready(r) /\ d = "approve"
  <2>1. /\ votes' = votes \cup {[voter |-> v, decision |-> "approve"]}
        /\ gate' = [status    |-> IF EnoughAfter(r) THEN "approved" ELSE gate.status,
                    approvals |-> call[r].seen + 1, required |-> gate.required]
    BY <1>4 DEF CommitVote
  <2>2. Cardinality(Approvers') = Cardinality(Approvers) + 1
    BY <1>0, <1>4, <2>1, ApprovalCounts DEF VotedAlready
  <2>3. Cardinality(Approvers) \in Nat BY ApproversAreFinite
  <2>4. VoteTypes' BY <1>0, <1>1, <2>1 DEF VoteRows, GateRows
  <2>5. CountsAreBehind' BY <1>0, <2>2, <2>3 DEF CountsAreBehind
  <2>6. GateComesFirst' BY <1>0, <2>1 DEF GateComesFirst
  <2>7. OneAtATime' BY <1>0 DEF OneAtATime
  <2>8. ApprovalIsEarned'
    BY <1>0, <2>1, <2>2, <2>3 DEF ApprovalIsEarned, EnoughAfter, GateRows, CountsAreBehind
  <2>9. EnoughVotesResolve'
    BY <1>0, <2>1, <2>2, <2>3 DEF EnoughVotesResolve, OneAtATime, EnoughAfter, GateRows
  <2> QED BY <2>4, <2>5, <2>6, <2>7, <2>8, <2>9
<1> QED BY <1>0, <1>2, <1>3, <1>4

LEMMA NextKeepsVotes ==
  ASSUME VoteInv, HumanNext
  PROVE  VoteInv'
<1>1. CASE \E n \in 1 .. Cardinality(Voters) : CreateApprovalGate(n) BY <1>1, CreateGateKeepsVotes
<1>2. CASE \E r \in VoteCalls, v \in Voters, d \in {"approve", "deny"} : ReadGate(r, v, d)
  BY <1>2, ReadGateKeepsVotes
<1>3. CASE \E r \in VoteCalls : CheckDuplicate(r) BY <1>3, CheckDuplicateKeepsVotes
<1>4. CASE \E r \in VoteCalls : CommitVote(r) BY <1>4, CommitVoteKeepsVotes
<1>5. CASE UNCHANGED <<gate, votes, call, overlapped>> BY <1>5, VotesStay
<1>6. EscalationNext \/ SocketNext => UNCHANGED <<gate, votes, call, overlapped>>
  BY DEF EscalationNext, CreateEscalation, StartTimeoutWorkflow, ResolveEscalation, TimerFires,
         ExpireEscalation, SocketNext, HandleSystemEvent, Broadcast, Connect, PeerLeaves
<1>7. StartGateWorkflow \/ GateWorkflowWakes
      \/ (\E d \in {"approve", "deny"}, n \in {1, gate.required} : VoteSignal(d, n))
      \/ (\E d \in EscalationDecisions : AskWhetherToEscalate(d))
      => UNCHANGED <<gate, votes, call, overlapped>>
  BY DEF StartGateWorkflow, GateWorkflowWakes, VoteSignal, AskWhetherToEscalate
<1> QED BY <1>1, <1>2, <1>3, <1>4, <1>5, <1>6, <1>7 DEF HumanNext, GateNext

-----------------------------------------------------------------------------
(* Escalations and workflows. *)

LEMMA OtherTypesInit == HumanInit => OtherTypes
<1> SUFFICES ASSUME HumanInit PROVE OtherTypes
  OBVIOUS
<1>1. gateflow \in GateFlows BY DEF HumanInit, GateFlows
<1>2. esc \in [Escalations -> EscalationRows] BY DEF HumanInit, EscalationRows
<1>3. timer \in [Escalations -> {"none", "armed", "expiring", "done"}] /\ news \in BOOLEAN
  BY DEF HumanInit
<1> QED BY <1>1, <1>2, <1>3 DEF OtherTypes

LEMMA NextKeepsOtherTypes ==
  ASSUME VoteTypes, OtherTypes, HumanNext
  PROVE  OtherTypes'
<1> USE DEF OtherTypes
<1>1. CASE GateNext
  <2>1. CASE \E n \in 1 .. Cardinality(Voters) : CreateApprovalGate(n) BY <2>1 DEF CreateApprovalGate
  <2>2. CASE \E r \in VoteCalls :
                \/ \E v \in Voters, d \in {"approve", "deny"} : ReadGate(r, v, d)
                \/ CheckDuplicate(r) \/ CommitVote(r)
    BY <2>2 DEF ReadGate, CheckDuplicate, CommitVote
  <2>3. CASE StartGateWorkflow BY <2>3 DEF StartGateWorkflow, GateFlows
  <2>4. CASE GateWorkflowWakes BY <2>4 DEF GateWorkflowWakes, GateFlows
  <2>5. ASSUME NEW d \in {"approve", "deny"}, NEW n \in {1, gate.required}, VoteSignal(d, n)
        PROVE  OtherTypes'
    <3>1. n \in Nat BY DEF VoteTypes, GateRows
    <3>2. gateflow.approvals + (IF d = "approve" THEN 1 ELSE 0) \in Nat BY DEF GateFlows
    <3>3. gateflow' \in GateFlows BY <2>5, <3>1, <3>2 DEF VoteSignal, GateFlows
    <3> QED BY <2>5, <3>3 DEF VoteSignal
  <2> QED BY <1>1, <2>1, <2>2, <2>3, <2>4, <2>5 DEF GateNext
<1>2. CASE EscalationNext
  <2> PICK e \in Escalations :
        \/ CreateEscalation(e) \/ StartTimeoutWorkflow(e)
        \/ \E who \in People : ResolveEscalation(e, who)
        \/ TimerFires(e) \/ ExpireEscalation(e)
    BY <1>2 DEF EscalationNext
  <2>1. CASE CreateEscalation(e) BY <2>1 DEF CreateEscalation, EscalationRows
  <2>2. CASE StartTimeoutWorkflow(e) \/ TimerFires(e) BY <2>2 DEF StartTimeoutWorkflow, TimerFires
  <2>3. CASE \E who \in People : ResolveEscalation(e, who)
    BY <2>3 DEF ResolveEscalation, Resolve, EscalationRows
  <2>4. CASE ExpireEscalation(e) BY <2>4 DEF ExpireEscalation, Resolve, EscalationRows
  <2> QED BY <2>1, <2>2, <2>3, <2>4
<1>3. CASE SocketNext \/ \E d \in EscalationDecisions : AskWhetherToEscalate(d)
  BY <1>3 DEF SocketNext, HandleSystemEvent, Broadcast, Connect, PeerLeaves, AskWhetherToEscalate
<1> QED BY <1>1, <1>2, <1>3 DEF HumanNext

-----------------------------------------------------------------------------
(* Sockets. *)

LEMMA RegistryInit == HumanInit => RegistryOK
BY FS_EmptySet, LimitAssumption DEF HumanInit, RegistryOK

LEMMA NextKeepsRegistry ==
  ASSUME RegistryOK, HumanNext
  PROVE  RegistryOK'
<1> USE DEF RegistryOK
<1>1. ASSUME NEW s \in Sockets, Connect(s) PROVE RegistryOK'
  <2>1. CASE UNCHANGED registered BY <1>1, <2>1 DEF Connect
  <2>2. CASE Cardinality(registered) < MaxSockets /\ registered' = registered \cup {s}
    <3>1. IsFiniteSet(registered') /\ Cardinality(registered') <= Cardinality(registered) + 1
      BY <2>2, FS_AddElement, FS_CardinalityType
    <3>2. Cardinality(registered) \in Nat /\ Cardinality(registered') \in Nat BY <3>1, FS_CardinalityType
    <3>3. Cardinality(registered') <= MaxSockets BY <2>2, <3>1, <3>2, LimitAssumption
    <3>4. sockets' \in [Sockets -> {"new", "open", "closed"}] /\ registered' \subseteq Sockets
      BY <1>1, <2>2 DEF Connect
    <3> QED BY <3>1, <3>3, <3>4
  <2> QED BY <1>1, <2>1, <2>2 DEF Connect
<1>2. ASSUME sockets' \in [Sockets -> {"new", "open", "closed"}], registered' \subseteq registered
      PROVE  RegistryOK'
  <2>1. IsFiniteSet(registered') /\ Cardinality(registered') <= Cardinality(registered)
    BY <1>2, FS_Subset
  <2>2. Cardinality(registered) \in Nat /\ Cardinality(registered') \in Nat BY <2>1, FS_CardinalityType
  <2>3. Cardinality(registered') <= MaxSockets BY <2>1, <2>2, LimitAssumption
  <2> QED BY <1>2, <2>1, <2>3
<1>3. CASE \E s \in Sockets : PeerLeaves(s) BY <1>2, <1>3 DEF PeerLeaves
<1>4. CASE Broadcast \/ HandleSystemEvent BY <1>2, <1>4 DEF Broadcast, HandleSystemEvent
<1>5. CASE GateNext \/ EscalationNext \/ \E d \in EscalationDecisions : AskWhetherToEscalate(d)
  <2>1. UNCHANGED <<sockets, registered>>
    BY <1>5 DEF GateNext, CreateApprovalGate, ReadGate, CheckDuplicate, CommitVote, StartGateWorkflow,
                GateWorkflowWakes, VoteSignal, EscalationNext, CreateEscalation, StartTimeoutWorkflow,
                ResolveEscalation, TimerFires, ExpireEscalation, AskWhetherToEscalate
  <2> QED BY <2>1
<1> QED BY <1>1, <1>3, <1>4, <1>5 DEF HumanNext, SocketNext

-----------------------------------------------------------------------------
(* should_escalate. *)

LEMMA StrengthOfRuling ==
  ASSUME NEW d \in EscalationDecisions
  PROVE  Strength(ShouldEscalate(d)) =
           IF d.confidence < 60 \/ d.critical \/ d.cost > 20 THEN 3
           ELSE IF d.fork THEN 2 ELSE IF d.confidence <= 89 THEN 1 ELSE 0
<1> USE DEF EscalationDecisions
<1>1. CASE d.confidence < 60 \/ d.critical \/ d.cost > 20
  <2>1. ShouldEscalate(d) = "escalate" BY <1>1 DEF ShouldEscalate
  <2> QED BY <1>1, <2>1 DEF Strength
<1>2. CASE ~ (d.confidence < 60 \/ d.critical \/ d.cost > 20) /\ d.fork
  <2>1. ShouldEscalate(d) = "escalate_with_options" BY <1>2 DEF ShouldEscalate
  <2> QED BY <1>2, <2>1 DEF Strength
<1>3. CASE ~ (d.confidence < 60 \/ d.critical \/ d.cost > 20) /\ ~ d.fork /\ d.confidence <= 89
  <2>1. ShouldEscalate(d) = "proceed_with_flag" BY <1>3 DEF ShouldEscalate
  <2> QED BY <1>3, <2>1 DEF Strength
<1>4. CASE ~ (d.confidence < 60 \/ d.critical \/ d.cost > 20) /\ ~ d.fork /\ ~ (d.confidence <= 89)
  <2>1. ShouldEscalate(d) = "proceed" BY <1>4 DEF ShouldEscalate
  <2> QED BY <1>4, <2>1 DEF Strength
<1> QED BY <1>1, <1>2, <1>3, <1>4

LEMMA RiskIsMonotone ==
  ASSUME NEW d \in EscalationDecisions, NEW e \in EscalationDecisions,
         d.confidence >= e.confidence, d.cost <= e.cost, d.critical => e.critical, d.fork => e.fork
  PROVE  Strength(ShouldEscalate(d)) <= Strength(ShouldEscalate(e))
<1>1. /\ d.confidence \in Int /\ e.confidence \in Int /\ d.cost \in Int /\ e.cost \in Int
  BY DEF EscalationDecisions
<1> QED BY <1>1, StrengthOfRuling

LEMMA RulingInit == HumanInit => RulingIsCurrent
BY DEF HumanInit, RulingIsCurrent, EscalationDecisions, ShouldEscalate

LEMMA NextKeepsRuling ==
  ASSUME RulingIsCurrent, HumanNext
  PROVE  RulingIsCurrent'
<1>1. ASSUME NEW d \in EscalationDecisions, AskWhetherToEscalate(d) PROVE RulingIsCurrent'
  BY <1>1 DEF AskWhetherToEscalate, RulingIsCurrent, ShouldEscalate
<1>2. CASE GateNext \/ EscalationNext \/ SocketNext
  <2>1. UNCHANGED ruling
    BY <1>2 DEF GateNext, CreateApprovalGate, ReadGate, CheckDuplicate, CommitVote, StartGateWorkflow,
                GateWorkflowWakes, VoteSignal, EscalationNext, CreateEscalation, StartTimeoutWorkflow,
                ResolveEscalation, TimerFires, ExpireEscalation, SocketNext, HandleSystemEvent,
                Broadcast, Connect, PeerLeaves
  <2> QED BY <2>1 DEF RulingIsCurrent, ShouldEscalate
<1> QED BY <1>1, <1>2 DEF HumanNext

-----------------------------------------------------------------------------
(* Theorem. *)

LEMMA InductiveHuman == HumanSpec => []HInv
<1>1. HumanInit => HInv BY VoteInit, OtherTypesInit, RegistryInit, RulingInit DEF HInv
<1>2. HInv /\ [HumanNext]_humanVars => HInv'
  <2> SUFFICES ASSUME HInv, [HumanNext]_humanVars PROVE HInv'
    OBVIOUS
  <2>1. CASE HumanNext
    BY <2>1, NextKeepsVotes, NextKeepsOtherTypes, NextKeepsRegistry, NextKeepsRuling DEF HInv, VoteInv
  <2>2. CASE UNCHANGED humanVars
    <3>1. VoteInv' BY <2>2, VotesStay DEF HInv, humanVars
    <3>2. OtherTypes' /\ RegistryOK' /\ RulingIsCurrent'
      BY <2>2 DEF HInv, humanVars, OtherTypes, RegistryOK, RulingIsCurrent, ShouldEscalate
    <3> QED BY <3>1, <3>2 DEF HInv
  <2> QED BY <2>1, <2>2
<1> QED BY <1>1, <1>2, PTL DEF HumanSpec

\* With any number of voters and of votes cast at once, a gate is approved only
\* if as many different people as it requires have approved it; votes that do not
\* overlap are all counted and enough; the registered sockets respect the limit;
\* and a decision that is no safer is let through no more easily (cast_vote,
\* WebSocketManager.connect, should_escalate).
THEOREM ApprovalsEarned == HumanSpec => []ApprovalsAreEarned
<1>1. HInv => ApprovalsAreEarned
  <2> SUFFICES ASSUME HInv PROVE ApprovalsAreEarned
    OBVIOUS
  <2>1. HumanTypeOK
    BY DEF HInv, VoteInv, VoteTypes, OtherTypes, RegistryOK, RulingIsCurrent, HumanTypeOK, CallLocals,
           GateFlows
  <2>2. RiskierIsNotEasier BY RiskIsMonotone DEF HInv, RulingIsCurrent, RiskierIsNotEasier
  <2> QED BY <2>1, <2>2 DEF HInv, VoteInv, ApprovalsAreEarned
<1> QED BY <1>1, InductiveHuman, PTL

-----------------------------------------------------------------------------
(*****************************************************************************)
(* Execution Sandbox                                                         *)
(*                                                                           *)
(* Neither property is inductive.  What happens to a container is decided    *)
(* several steps after it was looked at, by a request that remembers a       *)
(* session, so the invariant says what each request in flight may still rely *)
(* on: the index a command took is an index of the log (CommandsAreOfThisLog), *)
(* a delete request that has asked Docker has been obeyed or refused         *)
(* (RemovalsAreAnswered), a session is never forgotten before its container  *)
(* was dealt with (NothingBeforeTheContainer), and a process that restores   *)
(* has no requests and has loaded every active row it could (RestoreIsQuiet, *)
(* ActiveRowsAreLoaded).                                                     *)
(*****************************************************************************)

Containers == {"none", "up", "stopped", "removed"}
Statuses == {"absent", "ready", "running", "error", "timed_out", "destroyed"}
CommandLocals == [at : {"idle", "running", "measuring"}, session : Boxes \cup {"none"}, sequence : Nat]
DestroyLocals == [at : {"idle", "removing", "persisting", "writing"}, session : Boxes \cup {"none"},
                  status : Statuses \cup {"none"}]
MicroVMs == [at : {"none", "copied", "waiting", "configuring", "ready", "failed", "stopping", "gone",
                   "orphaned"},
             process : BOOLEAN, rootfs : BOOLEAN, handle : BOOLEAN, ssh : BOOLEAN]

DockerTypeOK ==
    /\ box \in [Boxes -> Containers] /\ known \subseteq Boxes /\ mem \in [Boxes -> Statuses]
    /\ audit \in [Boxes -> Seq(Nat)] /\ finished \in [Boxes -> Nat]
    /\ row \in [Boxes -> Statuses \cup {"none"}]
    /\ creating \in [Boxes -> {"none", "starting", "started", "persisting", "lost"}]
    /\ cmd \in [Commands -> CommandLocals] /\ kill \in [Destroyers -> DestroyLocals]
    /\ host \in {"serving", "restoring", "reconciling"} /\ refused \subseteq Boxes

\* A command that runs belongs to a session, and took its index from the log it
\* will append to (run_command).
CommandsAreOfThisLog ==
    \A c \in Commands :
        /\ cmd[c].at # "idle" => cmd[c].session \in Boxes
        /\ cmd[c].at = "running" => cmd[c].sequence <= Len(audit[cmd[c].session])

\* A session is remembered, written or being deleted only once its container was
\* started, and a create call is where the container says (create, destroy).
NothingBeforeTheContainer ==
    /\ \A s \in Boxes :
          /\ creating[s] = "starting" => box[s] = "none"
          /\ creating[s] \in {"started", "persisting", "lost"} => box[s] # "none"
          /\ box[s] = "none" => row[s] = "none" /\ s \notin known
    /\ \A d \in Destroyers :
          kill[d].at # "idle" => kill[d].session \in Boxes /\ box[kill[d].session] # "none"

\* A delete request that is about to write the row has had the container
\* removed, or Docker has refused (destroy).
RemovalsAreAnswered ==
    \A d \in Destroyers :
        kill[d].at \in {"persisting", "writing"} => kill[d].session \in refused \/ ~ Exists(kill[d].session)

\* No request is served before the restart is over.
RestoreIsQuiet ==
    host # "serving" =>
        /\ \A s \in Boxes : creating[s] = "none"
        /\ \A c \in Commands : cmd[c].at = "idle"
        /\ \A d \in Destroyers : kill[d].at = "idle"

\* Before the sweep, a container whose row is active is known, or Docker could
\* not be asked about it (load_active_sessions_from_db).
ActiveRowsAreLoaded ==
    host = "reconciling" =>
        \A s \in Boxes : Active(s) /\ s \notin known => s \in refused

DockerInv ==
    /\ DockerTypeOK
    /\ EveryCommandIsAudited /\ CommandsAreOfThisLog
    /\ NothingBeforeTheContainer /\ RemovalsAreAnswered /\ DestroyedRowsAreGone
    /\ RestoreIsQuiet /\ ActiveRowsAreLoaded /\ NoOrphansOnceServing

\* A microVM's process runs between its start and its shutdown, or after a crash, its
\* handle is there while it is ready or stopping.
MicroVMInv ==
    /\ fc \in [Boxes -> MicroVMs]
    /\ NoStrayMicroVM
    /\ \A s \in Boxes : fc[s].at \in {"none", "copied"} => ~ fc[s].process
    /\ crashes_ \in Nat

SInv == DockerInv /\ MicroVMInv

-----------------------------------------------------------------------------
(* Logs. *)

LEMMA LengthOfLog == ASSUME NEW l \in Seq(Nat) PROVE Len(l) \in Nat /\ Len(l) <= Len(l)
BY LenProperties

LEMMA AppendIsLog == ASSUME NEW l \in Seq(Nat), NEW n \in Nat PROVE Append(l, n) \in Seq(Nat)
BY AppendProperties

-----------------------------------------------------------------------------
(* Each action on containers keeps each part of the invariant. *)

LEMMA SandboxCreateKeeps ==
  ASSUME DockerInv, NEW s \in Boxes, NEW env, CreateSandbox(s, env)
  PROVE  DockerInv'
<1> USE DEF DockerInv, DockerTypeOK, Containers, Statuses, CommandLocals, DestroyLocals, CreateSandbox
<1>1. DockerTypeOK' OBVIOUS
<1>2. EveryCommandIsAudited' BY DEF EveryCommandIsAudited, CommandsAreOfThisLog
<1>3. CommandsAreOfThisLog' BY DEF CommandsAreOfThisLog
<1>4. NothingBeforeTheContainer' BY DEF NothingBeforeTheContainer
<1>5. RemovalsAreAnswered' BY DEF RemovalsAreAnswered, NothingBeforeTheContainer, Exists
<1>6. DestroyedRowsAreGone' BY DEF DestroyedRowsAreGone, NothingBeforeTheContainer, RemovalsAreAnswered, Exists
<1>7. RestoreIsQuiet' BY DEF RestoreIsQuiet
<1>8. ActiveRowsAreLoaded' BY DEF ActiveRowsAreLoaded, RestoreIsQuiet, Active, Exists
<1>9. NoOrphansOnceServing' BY DEF NoOrphansOnceServing, NothingBeforeTheContainer, RemovalsAreAnswered, RestoreIsQuiet, Exists
<1> QED BY <1>1, <1>2, <1>3, <1>4, <1>5, <1>6, <1>7, <1>8, <1>9 DEF DockerInv

LEMMA RunKeeps ==
  ASSUME DockerInv, NEW s \in Boxes, ContainersRun(s)
  PROVE  DockerInv'
<1> USE DEF DockerInv, DockerTypeOK, Containers, Statuses, CommandLocals, DestroyLocals, ContainersRun
<1>1. DockerTypeOK' OBVIOUS
<1>2. EveryCommandIsAudited' BY DEF EveryCommandIsAudited, CommandsAreOfThisLog
<1>3. CommandsAreOfThisLog' BY DEF CommandsAreOfThisLog
<1>4. NothingBeforeTheContainer' BY DEF NothingBeforeTheContainer
<1>5. RemovalsAreAnswered' BY DEF RemovalsAreAnswered, NothingBeforeTheContainer, Exists
<1>6. DestroyedRowsAreGone' BY DEF DestroyedRowsAreGone, NothingBeforeTheContainer, RemovalsAreAnswered, Exists
<1>7. RestoreIsQuiet' BY DEF RestoreIsQuiet
<1>8. ActiveRowsAreLoaded' BY DEF ActiveRowsAreLoaded, RestoreIsQuiet, Active, Exists
<1>9. NoOrphansOnceServing' BY DEF NoOrphansOnceServing, NothingBeforeTheContainer, RemovalsAreAnswered, RestoreIsQuiet, Exists
<1> QED BY <1>1, <1>2, <1>3, <1>4, <1>5, <1>6, <1>7, <1>8, <1>9 DEF DockerInv

LEMMA RememberKeeps ==
  ASSUME DockerInv, NEW s \in Boxes, RememberSession(s)
  PROVE  DockerInv'
<1> USE DEF DockerInv, DockerTypeOK, Containers, Statuses, CommandLocals, DestroyLocals, RememberSession
<1>1. DockerTypeOK' OBVIOUS
<1>2. EveryCommandIsAudited' BY DEF EveryCommandIsAudited, CommandsAreOfThisLog
<1>3. CommandsAreOfThisLog' BY DEF CommandsAreOfThisLog
<1>4. NothingBeforeTheContainer' BY DEF NothingBeforeTheContainer
<1>5. RemovalsAreAnswered' BY DEF RemovalsAreAnswered, NothingBeforeTheContainer, Exists
<1>6. DestroyedRowsAreGone' BY DEF DestroyedRowsAreGone, NothingBeforeTheContainer, RemovalsAreAnswered, Exists
<1>7. RestoreIsQuiet' BY DEF RestoreIsQuiet
<1>8. ActiveRowsAreLoaded' BY DEF ActiveRowsAreLoaded, RestoreIsQuiet, Active, Exists
<1>9. NoOrphansOnceServing' BY DEF NoOrphansOnceServing, NothingBeforeTheContainer, RemovalsAreAnswered, RestoreIsQuiet, Exists
<1> QED BY <1>1, <1>2, <1>3, <1>4, <1>5, <1>6, <1>7, <1>8, <1>9 DEF DockerInv

LEMMA SandboxPersistKeeps ==
  ASSUME DockerInv, NEW s \in Boxes, PersistCreated(s)
  PROVE  DockerInv'
<1> USE DEF DockerInv, DockerTypeOK, Containers, Statuses, CommandLocals, DestroyLocals, PersistCreated
<1>1. DockerTypeOK' OBVIOUS
<1>2. EveryCommandIsAudited' BY DEF EveryCommandIsAudited, CommandsAreOfThisLog
<1>3. CommandsAreOfThisLog' BY DEF CommandsAreOfThisLog
<1>4. NothingBeforeTheContainer' BY DEF NothingBeforeTheContainer
<1>5. RemovalsAreAnswered' BY DEF RemovalsAreAnswered, NothingBeforeTheContainer, Exists
<1>6. DestroyedRowsAreGone' BY DEF DestroyedRowsAreGone, NothingBeforeTheContainer, RemovalsAreAnswered, Exists
<1>7. RestoreIsQuiet' BY DEF RestoreIsQuiet
<1>8. ActiveRowsAreLoaded' BY DEF ActiveRowsAreLoaded, RestoreIsQuiet, Active, Exists
<1>9. NoOrphansOnceServing' BY DEF NoOrphansOnceServing, NothingBeforeTheContainer, RemovalsAreAnswered, RestoreIsQuiet, Exists
<1> QED BY <1>1, <1>2, <1>3, <1>4, <1>5, <1>6, <1>7, <1>8, <1>9 DEF DockerInv

LEMMA RunCommandKeeps ==
  ASSUME DockerInv, NEW c \in Commands, NEW s \in Boxes, NEW t, RunCommand(c, s, t)
  PROVE  DockerInv'
<1> USE DEF DockerInv, DockerTypeOK, Containers, Statuses, CommandLocals, DestroyLocals, RunCommand, Known
<1>0. Len(audit[s]) \in Nat BY LengthOfLog
<1>1. DockerTypeOK'
  <2>1. [at |-> "running", session |-> s, sequence |-> Len(audit[s])] \in CommandLocals BY <1>0
  <2>2. cmd' \in [Commands -> CommandLocals] BY <2>1, ZenonT(30)
  <2>3. mem' \in [Boxes -> Statuses] OBVIOUS
  <2> QED BY <2>2, <2>3
<1>2. EveryCommandIsAudited' BY DEF EveryCommandIsAudited, CommandsAreOfThisLog
<1>3. CommandsAreOfThisLog'
  <2>1. CASE cmd' = cmd BY <2>1 DEF CommandsAreOfThisLog
  <2>2. CASE cmd' = [cmd EXCEPT ![c] = [at |-> "running", session |-> s, sequence |-> Len(audit[s])]]
    BY <2>2, <1>0 DEF CommandsAreOfThisLog
  <2> QED BY <2>1, <2>2
<1>4. NothingBeforeTheContainer' BY DEF NothingBeforeTheContainer
<1>5. RemovalsAreAnswered' BY DEF RemovalsAreAnswered, NothingBeforeTheContainer, Exists
<1>6. DestroyedRowsAreGone' BY DEF DestroyedRowsAreGone, NothingBeforeTheContainer, RemovalsAreAnswered, Exists
<1>7. RestoreIsQuiet' BY DEF RestoreIsQuiet
<1>8. ActiveRowsAreLoaded' BY DEF ActiveRowsAreLoaded, RestoreIsQuiet, Active, Exists
<1>9. NoOrphansOnceServing' BY DEF NoOrphansOnceServing, NothingBeforeTheContainer, RemovalsAreAnswered, RestoreIsQuiet, Exists
<1> QED BY <1>1, <1>2, <1>3, <1>4, <1>5, <1>6, <1>7, <1>8, <1>9 DEF DockerInv

LEMMA CommandReturnsKeeps ==
  ASSUME DockerInv, NEW c \in Commands, CommandReturns(c)
  PROVE  DockerInv'
<1> USE DEF DockerInv, DockerTypeOK, Containers, Statuses, CommandLocals, DestroyLocals, CommandReturns, Appended
<1>0. /\ cmd[c].session \in Boxes
      /\ Append(audit[cmd[c].session], cmd[c].sequence) \in Seq(Nat)
  BY AppendIsLog DEF CommandsAreOfThisLog
<1>1. DockerTypeOK'
  <2>1. audit' \in [Boxes -> Seq(Nat)] BY <1>0
  <2>2. finished' \in [Boxes -> Nat] BY <1>0
  <2>3. cmd' \in [Commands -> CommandLocals] OBVIOUS
  <2> QED BY <2>1, <2>2, <2>3
<1>2. EveryCommandIsAudited' BY DEF EveryCommandIsAudited, CommandsAreOfThisLog
<1>3. CommandsAreOfThisLog' BY DEF CommandsAreOfThisLog
<1>4. NothingBeforeTheContainer' BY DEF NothingBeforeTheContainer
<1>5. RemovalsAreAnswered' BY DEF RemovalsAreAnswered, NothingBeforeTheContainer, Exists
<1>6. DestroyedRowsAreGone' BY DEF DestroyedRowsAreGone, NothingBeforeTheContainer, RemovalsAreAnswered, Exists
<1>7. RestoreIsQuiet' BY DEF RestoreIsQuiet
<1>8. ActiveRowsAreLoaded' BY DEF ActiveRowsAreLoaded, RestoreIsQuiet, Active, Exists
<1>9. NoOrphansOnceServing' BY DEF NoOrphansOnceServing, NothingBeforeTheContainer, RemovalsAreAnswered, RestoreIsQuiet, Exists
<1> QED BY <1>1, <1>2, <1>3, <1>4, <1>5, <1>6, <1>7, <1>8, <1>9 DEF DockerInv

LEMMA MeasureKeeps ==
  ASSUME DockerInv, NEW c \in Commands, CheckResourceUsage(c)
  PROVE  DockerInv'
<1> USE DEF DockerInv, DockerTypeOK, Containers, Statuses, CommandLocals, DestroyLocals, CheckResourceUsage, SetStatus, IdleCommand
<1>1. DockerTypeOK' OBVIOUS
<1>2. EveryCommandIsAudited' BY DEF EveryCommandIsAudited, CommandsAreOfThisLog
<1>3. CommandsAreOfThisLog' BY DEF CommandsAreOfThisLog
<1>4. NothingBeforeTheContainer' BY DEF NothingBeforeTheContainer
<1>5. RemovalsAreAnswered' BY DEF RemovalsAreAnswered, NothingBeforeTheContainer, Exists
<1>6. DestroyedRowsAreGone' BY DEF DestroyedRowsAreGone, NothingBeforeTheContainer, RemovalsAreAnswered, Exists
<1>7. RestoreIsQuiet' BY DEF RestoreIsQuiet
<1>8. ActiveRowsAreLoaded' BY DEF ActiveRowsAreLoaded, RestoreIsQuiet, Active, Exists
<1>9. NoOrphansOnceServing' BY DEF NoOrphansOnceServing, NothingBeforeTheContainer, RemovalsAreAnswered, RestoreIsQuiet, Exists
<1> QED BY <1>1, <1>2, <1>3, <1>4, <1>5, <1>6, <1>7, <1>8, <1>9 DEF DockerInv

LEMMA TimeOutKeeps ==
  ASSUME DockerInv, NEW c \in Commands, CommandTimesOut(c)
  PROVE  DockerInv'
<1> USE DEF DockerInv, DockerTypeOK, Containers, Statuses, CommandLocals, DestroyLocals, CommandTimesOut, SetStatus, Appended, IdleCommand
<1>1. DockerTypeOK' BY AppendIsLog DEF CommandsAreOfThisLog
<1>2. EveryCommandIsAudited' BY DEF EveryCommandIsAudited, CommandsAreOfThisLog
<1>3. CommandsAreOfThisLog' BY DEF CommandsAreOfThisLog
<1>4. NothingBeforeTheContainer' BY DEF NothingBeforeTheContainer
<1>5. RemovalsAreAnswered' BY DEF RemovalsAreAnswered, NothingBeforeTheContainer, Exists
<1>6. DestroyedRowsAreGone' BY DEF DestroyedRowsAreGone, NothingBeforeTheContainer, RemovalsAreAnswered, Exists
<1>7. RestoreIsQuiet' BY DEF RestoreIsQuiet
<1>8. ActiveRowsAreLoaded' BY DEF ActiveRowsAreLoaded, RestoreIsQuiet, Active, Exists
<1>9. NoOrphansOnceServing' BY DEF NoOrphansOnceServing, NothingBeforeTheContainer, RemovalsAreAnswered, RestoreIsQuiet, Exists
<1> QED BY <1>1, <1>2, <1>3, <1>4, <1>5, <1>6, <1>7, <1>8, <1>9 DEF DockerInv

LEMMA FailKeeps ==
  ASSUME DockerInv, NEW c \in Commands, CommandFails(c)
  PROVE  DockerInv'
<1> USE DEF DockerInv, DockerTypeOK, Containers, Statuses, CommandLocals, DestroyLocals, CommandFails, IdleCommand
<1>1. DockerTypeOK' OBVIOUS
<1>2. EveryCommandIsAudited' BY DEF EveryCommandIsAudited, CommandsAreOfThisLog
<1>3. CommandsAreOfThisLog' BY DEF CommandsAreOfThisLog
<1>4. NothingBeforeTheContainer' BY DEF NothingBeforeTheContainer
<1>5. RemovalsAreAnswered' BY DEF RemovalsAreAnswered, NothingBeforeTheContainer, Exists
<1>6. DestroyedRowsAreGone' BY DEF DestroyedRowsAreGone, NothingBeforeTheContainer, RemovalsAreAnswered, Exists
<1>7. RestoreIsQuiet' BY DEF RestoreIsQuiet
<1>8. ActiveRowsAreLoaded' BY DEF ActiveRowsAreLoaded, RestoreIsQuiet, Active, Exists
<1>9. NoOrphansOnceServing' BY DEF NoOrphansOnceServing, NothingBeforeTheContainer, RemovalsAreAnswered, RestoreIsQuiet, Exists
<1> QED BY <1>1, <1>2, <1>3, <1>4, <1>5, <1>6, <1>7, <1>8, <1>9 DEF DockerInv

LEMMA TransferKeeps ==
  ASSUME DockerInv, NEW s \in Boxes, NEW f, TransferFiles(s, f)
  PROVE  DockerInv'
<1> USE DEF DockerInv, DockerTypeOK, Containers, Statuses, CommandLocals, DestroyLocals, TransferFiles, Known
<1>1. DockerTypeOK' OBVIOUS
<1>2. EveryCommandIsAudited' BY DEF EveryCommandIsAudited, CommandsAreOfThisLog
<1>3. CommandsAreOfThisLog' BY DEF CommandsAreOfThisLog
<1>4. NothingBeforeTheContainer' BY DEF NothingBeforeTheContainer
<1>5. RemovalsAreAnswered' BY DEF RemovalsAreAnswered, NothingBeforeTheContainer, Exists
<1>6. DestroyedRowsAreGone' BY DEF DestroyedRowsAreGone, NothingBeforeTheContainer, RemovalsAreAnswered, Exists
<1>7. RestoreIsQuiet' BY DEF RestoreIsQuiet
<1>8. ActiveRowsAreLoaded' BY DEF ActiveRowsAreLoaded, RestoreIsQuiet, Active, Exists
<1>9. NoOrphansOnceServing' BY DEF NoOrphansOnceServing, NothingBeforeTheContainer, RemovalsAreAnswered, RestoreIsQuiet, Exists
<1> QED BY <1>1, <1>2, <1>3, <1>4, <1>5, <1>6, <1>7, <1>8, <1>9 DEF DockerInv

LEMMA DestroyKeeps ==
  ASSUME DockerInv, NEW d \in Destroyers, NEW s \in Boxes, DestroySandbox(d, s)
  PROVE  DockerInv'
<1> USE DEF DockerInv, DockerTypeOK, Containers, Statuses, CommandLocals, DestroyLocals, DestroySandbox, Known
<1>1. DockerTypeOK' OBVIOUS
<1>2. EveryCommandIsAudited' BY DEF EveryCommandIsAudited, CommandsAreOfThisLog
<1>3. CommandsAreOfThisLog' BY DEF CommandsAreOfThisLog
<1>4. NothingBeforeTheContainer' BY DEF NothingBeforeTheContainer
<1>5. RemovalsAreAnswered' BY DEF RemovalsAreAnswered, NothingBeforeTheContainer, Exists
<1>6. DestroyedRowsAreGone' BY DEF DestroyedRowsAreGone, NothingBeforeTheContainer, RemovalsAreAnswered, Exists
<1>7. RestoreIsQuiet' BY DEF RestoreIsQuiet
<1>8. ActiveRowsAreLoaded' BY DEF ActiveRowsAreLoaded, RestoreIsQuiet, Active, Exists
<1>9. NoOrphansOnceServing' BY DEF NoOrphansOnceServing, NothingBeforeTheContainer, RemovalsAreAnswered, RestoreIsQuiet, Exists
<1> QED BY <1>1, <1>2, <1>3, <1>4, <1>5, <1>6, <1>7, <1>8, <1>9 DEF DockerInv

LEMMA RemoveKeeps ==
  ASSUME DockerInv, NEW d \in Destroyers, RemoveContainer(d)
  PROVE  DockerInv'
<1> USE DEF DockerInv, DockerTypeOK, Containers, Statuses, CommandLocals, DestroyLocals, RemoveContainer, SetStatus
<1>0. kill[d] \in DestroyLocals /\ kill[d].session \in Boxes BY DEF NothingBeforeTheContainer
<1>1. DockerTypeOK'
  <2>1. [kill[d] EXCEPT !.at = "persisting"] \in DestroyLocals BY <1>0
  <2>2. kill' \in [Destroyers -> DestroyLocals] BY <2>1, ZenonT(30)
  <2>3. mem' \in [Boxes -> Statuses] BY <1>0 DEF SetStatus
  <2>4. box' \in [Boxes -> Containers] /\ refused' \subseteq Boxes BY <1>0
  <2> QED BY <2>2, <2>3, <2>4
<1>2. EveryCommandIsAudited' BY DEF EveryCommandIsAudited, CommandsAreOfThisLog
<1>3. CommandsAreOfThisLog' BY DEF CommandsAreOfThisLog
<1>4. NothingBeforeTheContainer' BY DEF NothingBeforeTheContainer
<1>5. RemovalsAreAnswered' BY DEF RemovalsAreAnswered, NothingBeforeTheContainer, Exists
<1>6. DestroyedRowsAreGone' BY DEF DestroyedRowsAreGone, NothingBeforeTheContainer, RemovalsAreAnswered, Exists
<1>7. RestoreIsQuiet' BY DEF RestoreIsQuiet
<1>8. ActiveRowsAreLoaded' BY DEF ActiveRowsAreLoaded, RestoreIsQuiet, Active, Exists
<1>9. NoOrphansOnceServing' BY DEF NoOrphansOnceServing, NothingBeforeTheContainer, RemovalsAreAnswered, RestoreIsQuiet, Exists
<1> QED BY <1>1, <1>2, <1>3, <1>4, <1>5, <1>6, <1>7, <1>8, <1>9 DEF DockerInv

LEMMA PersistDestroyedKeeps ==
  ASSUME DockerInv, NEW d \in Destroyers, PersistDestroyed(d)
  PROVE  DockerInv'
<1> USE DEF DockerInv, DockerTypeOK, Containers, Statuses, CommandLocals, DestroyLocals, PersistDestroyed
<1>0. kill[d] \in DestroyLocals /\ mem[kill[d].session] \in Statuses BY DEF NothingBeforeTheContainer
<1>1. DockerTypeOK'
  <2> DEFINE k == [kill[d] EXCEPT !.at = "writing", !.status = mem[kill[d].session]]
  <2>1. k \in DestroyLocals BY <1>0
  <2>2. kill' = [kill EXCEPT ![d] = k] OBVIOUS
  <2> HIDE DEF k
  <2>3. kill' \in [Destroyers -> DestroyLocals] BY <2>1, <2>2
  <2> QED BY <2>3
<1>2. EveryCommandIsAudited' BY DEF EveryCommandIsAudited, CommandsAreOfThisLog
<1>3. CommandsAreOfThisLog' BY DEF CommandsAreOfThisLog
<1>4. NothingBeforeTheContainer' BY DEF NothingBeforeTheContainer
<1>5. RemovalsAreAnswered' BY DEF RemovalsAreAnswered, NothingBeforeTheContainer, Exists
<1>6. DestroyedRowsAreGone' BY DEF DestroyedRowsAreGone, NothingBeforeTheContainer, RemovalsAreAnswered, Exists
<1>7. RestoreIsQuiet' BY DEF RestoreIsQuiet
<1>8. ActiveRowsAreLoaded' BY DEF ActiveRowsAreLoaded, RestoreIsQuiet, Active, Exists
<1>9. NoOrphansOnceServing' BY DEF NoOrphansOnceServing, NothingBeforeTheContainer, RemovalsAreAnswered, RestoreIsQuiet, Exists
<1> QED BY <1>1, <1>2, <1>3, <1>4, <1>5, <1>6, <1>7, <1>8, <1>9 DEF DockerInv

LEMMA DropKeeps ==
  ASSUME DockerInv, NEW d \in Destroyers, DropSession(d)
  PROVE  DockerInv'
<1> USE DEF DockerInv, DockerTypeOK, Containers, Statuses, CommandLocals, DestroyLocals, DropSession, IdleDestroy
<1>1. DockerTypeOK' OBVIOUS
<1>2. EveryCommandIsAudited' BY DEF EveryCommandIsAudited, CommandsAreOfThisLog
<1>3. CommandsAreOfThisLog' BY DEF CommandsAreOfThisLog
<1>4. NothingBeforeTheContainer' BY DEF NothingBeforeTheContainer
<1>5. RemovalsAreAnswered' BY DEF RemovalsAreAnswered, NothingBeforeTheContainer, Exists
<1>6. DestroyedRowsAreGone' BY DEF DestroyedRowsAreGone, NothingBeforeTheContainer, RemovalsAreAnswered, Exists
<1>7. RestoreIsQuiet' BY DEF RestoreIsQuiet
<1>8. ActiveRowsAreLoaded' BY DEF ActiveRowsAreLoaded, RestoreIsQuiet, Active, Exists
<1>9. NoOrphansOnceServing' BY DEF NoOrphansOnceServing, NothingBeforeTheContainer, RemovalsAreAnswered, RestoreIsQuiet, Exists
<1> QED BY <1>1, <1>2, <1>3, <1>4, <1>5, <1>6, <1>7, <1>8, <1>9 DEF DockerInv

LEMMA SandboxExpireKeeps ==
  ASSUME DockerInv, NEW s \in Boxes, ContainerExpires(s)
  PROVE  DockerInv'
<1> USE DEF DockerInv, DockerTypeOK, Containers, Statuses, CommandLocals, DestroyLocals, ContainerExpires
<1>1. DockerTypeOK' OBVIOUS
<1>2. EveryCommandIsAudited' BY DEF EveryCommandIsAudited, CommandsAreOfThisLog
<1>3. CommandsAreOfThisLog' BY DEF CommandsAreOfThisLog
<1>4. NothingBeforeTheContainer' BY DEF NothingBeforeTheContainer
<1>5. RemovalsAreAnswered' BY DEF RemovalsAreAnswered, NothingBeforeTheContainer, Exists
<1>6. DestroyedRowsAreGone' BY DEF DestroyedRowsAreGone, NothingBeforeTheContainer, RemovalsAreAnswered, Exists
<1>7. RestoreIsQuiet' BY DEF RestoreIsQuiet
<1>8. ActiveRowsAreLoaded' BY DEF ActiveRowsAreLoaded, RestoreIsQuiet, Active, Exists
<1>9. NoOrphansOnceServing' BY DEF NoOrphansOnceServing, NothingBeforeTheContainer, RemovalsAreAnswered, RestoreIsQuiet, Exists
<1> QED BY <1>1, <1>2, <1>3, <1>4, <1>5, <1>6, <1>7, <1>8, <1>9 DEF DockerInv

LEMMA CrashKeeps ==
  ASSUME DockerInv, SandboxCrashes
  PROVE  DockerInv'
<1> USE DEF DockerInv, DockerTypeOK, Containers, Statuses, CommandLocals, DestroyLocals, SandboxCrashes, IdleCommand, IdleDestroy
<1>1. DockerTypeOK' OBVIOUS
<1>2. EveryCommandIsAudited' BY DEF EveryCommandIsAudited, CommandsAreOfThisLog
<1>3. CommandsAreOfThisLog' BY DEF CommandsAreOfThisLog
<1>4. NothingBeforeTheContainer' BY DEF NothingBeforeTheContainer
<1>5. RemovalsAreAnswered' BY DEF RemovalsAreAnswered, NothingBeforeTheContainer, Exists
<1>6. DestroyedRowsAreGone' BY DEF DestroyedRowsAreGone, NothingBeforeTheContainer, RemovalsAreAnswered, Exists
<1>7. RestoreIsQuiet' BY DEF RestoreIsQuiet
<1>8. ActiveRowsAreLoaded' BY DEF ActiveRowsAreLoaded, RestoreIsQuiet, Active, Exists
<1>9. NoOrphansOnceServing' BY DEF NoOrphansOnceServing, NothingBeforeTheContainer, RemovalsAreAnswered, RestoreIsQuiet, Exists
<1> QED BY <1>1, <1>2, <1>3, <1>4, <1>5, <1>6, <1>7, <1>8, <1>9 DEF DockerInv

LEMMA LoadKeeps ==
  ASSUME DockerInv, LoadActiveSessionsFromDb
  PROVE  DockerInv'
<1> USE DEF DockerInv, DockerTypeOK, Containers, Statuses, CommandLocals, DestroyLocals, LoadActiveSessionsFromDb
<1>0. known' \subseteq {s \in Boxes : Active(s)} OBVIOUS
<1>1. DockerTypeOK'
  <2>1. \A s \in known' : row[s] \in Statuses BY <1>0 DEF Active, ActiveStatuses
  <2>2. mem' \in [Boxes -> Statuses] BY <2>1
  <2>3. refused' \subseteq Boxes OBVIOUS
  <2> QED BY <1>0, <2>2, <2>3
<1>2. EveryCommandIsAudited' BY DEF EveryCommandIsAudited, CommandsAreOfThisLog
<1>3. CommandsAreOfThisLog' BY DEF CommandsAreOfThisLog
<1>4. NothingBeforeTheContainer' BY <1>0 DEF NothingBeforeTheContainer, Active, Exists
<1>5. RemovalsAreAnswered' BY DEF RemovalsAreAnswered, NothingBeforeTheContainer, Exists
<1>6. DestroyedRowsAreGone' BY DEF DestroyedRowsAreGone, NothingBeforeTheContainer, RemovalsAreAnswered, Exists
<1>7. RestoreIsQuiet' BY DEF RestoreIsQuiet
<1>8. ActiveRowsAreLoaded' BY DEF ActiveRowsAreLoaded, RestoreIsQuiet, Active, Exists
<1>9. NoOrphansOnceServing' BY DEF NoOrphansOnceServing, NothingBeforeTheContainer, RemovalsAreAnswered, RestoreIsQuiet, Exists
<1> QED BY <1>1, <1>2, <1>3, <1>4, <1>5, <1>6, <1>7, <1>8, <1>9 DEF DockerInv

LEMMA ReconcileKeeps ==
  ASSUME DockerInv, ReconcileOrphans
  PROVE  DockerInv'
<1> USE DEF DockerInv, DockerTypeOK, Containers, Statuses, CommandLocals, DestroyLocals, ReconcileOrphans
<1>1. DockerTypeOK' OBVIOUS
<1>2. EveryCommandIsAudited' BY DEF EveryCommandIsAudited, CommandsAreOfThisLog
<1>3. CommandsAreOfThisLog' BY DEF CommandsAreOfThisLog
<1>4. NothingBeforeTheContainer' BY DEF NothingBeforeTheContainer, RestoreIsQuiet, Exists
<1>5. RemovalsAreAnswered' BY DEF RemovalsAreAnswered, NothingBeforeTheContainer, Exists
<1>6. DestroyedRowsAreGone' BY DEF DestroyedRowsAreGone, NothingBeforeTheContainer, RemovalsAreAnswered, Exists
<1>7. RestoreIsQuiet' BY DEF RestoreIsQuiet
<1>8. ActiveRowsAreLoaded' BY DEF ActiveRowsAreLoaded, RestoreIsQuiet, Active, Exists
<1>9. NoOrphansOnceServing' BY DEF NoOrphansOnceServing, NothingBeforeTheContainer, RemovalsAreAnswered, RestoreIsQuiet, Exists
<1> QED BY <1>1, <1>2, <1>3, <1>4, <1>5, <1>6, <1>7, <1>8, <1>9 DEF DockerInv

-----------------------------------------------------------------------------
(* MicroVMs. *)

LEMMA FailedVM ==
  LET v == [NoVM EXCEPT !.at = "failed"]
  IN  v \in MicroVMs /\ v.at = "failed" /\ ~ v.process
BY DEF NoVM, MicroVMs

LEMMA MicroVMInit == SandboxInit => MicroVMInv
BY DEF SandboxInit, MicroVMInv, NoStrayMicroVM, MicroVMs, NoVM

\* A step that writes the record of one microVM keeps the invariant when the
\* record is no stray.
LEMMA OneMicroVM ==
  ASSUME MicroVMInv, NEW s \in Boxes, NEW v \in MicroVMs, fc' = [fc EXCEPT ![s] = v],
         UNCHANGED crashes_,
         v.process => v.at \in {"waiting", "configuring", "ready", "stopping", "orphaned"},
         v.at = "gone" => ~ v.rootfs, v.at \in {"ready", "stopping"} => v.handle,
         v.at = "orphaned" => crashes_ > 0
  PROVE  MicroVMInv'
<1>1. fc' \in [Boxes -> MicroVMs] BY DEF MicroVMInv
<1>2. \A r \in Boxes : fc'[r] = IF r = s THEN v ELSE fc[r] BY DEF MicroVMInv
<1>3. NoStrayMicroVM' BY <1>2 DEF MicroVMInv, NoStrayMicroVM
<1> QED BY <1>1, <1>3 DEF MicroVMInv

LEMMA MicroVMsLeaveDocker == FirecrackerNext => UNCHANGED dockerVars
BY DEF FirecrackerNext, FcSpawn, FcWaitForSocket, FcConfigure, FcDestroy, FcShutdown,
       FcExecuteEnds, FcExecute

LEMMA MicroVMKeeps ==
  ASSUME MicroVMInv, FirecrackerNext
  PROVE  MicroVMInv'
<1> PICK s \in Boxes :
        \/ FcSpawn(s) \/ FcWaitForSocket(s) \/ FcConfigure(s) \/ FcDestroy(s) \/ FcShutdown(s)
        \/ FcExecuteEnds(s) \/ \E t \in CommandTexts : FcExecute(s, t)
  BY DEF FirecrackerNext
<1> DEFINE vm == fc[s]
<1>0. /\ vm \in MicroVMs
      /\ vm.process => vm.at \in {"waiting", "configuring", "ready", "stopping", "orphaned"}
      /\ vm.at = "gone" => ~ vm.rootfs
      /\ vm.at \in {"ready", "stopping"} => vm.handle
      /\ vm.at = "orphaned" => crashes_ > 0
      /\ UNCHANGED crashes_
  BY MicroVMsLeaveDocker DEF MicroVMInv, NoStrayMicroVM, dockerVars
<1> HIDE DEF vm
<1>1. CASE FcSpawn(s)
  <2>1. CASE vm.at = "none"
    <3> DEFINE v == [vm EXCEPT !.at = "copied", !.rootfs = TRUE]
    <3>1. v \in MicroVMs /\ v.at = "copied" /\ v.process = vm.process BY <1>0 DEF MicroVMs
    <3>2. ~ vm.process BY <1>0, <2>1
    <3>3. fc' = [fc EXCEPT ![s] = v] BY <1>1, <2>1 DEF FcSpawn, vm
    <3> HIDE DEF v
    <3> QED BY <1>0, <3>1, <3>2, <3>3, OneMicroVM
  <2>2. CASE vm.at # "none"
    <3> DEFINE v == [vm EXCEPT !.at = "waiting", !.process = TRUE]
    <3>1. v \in MicroVMs /\ v.at = "waiting" BY <1>0 DEF MicroVMs
    <3>2. fc' = [fc EXCEPT ![s] = v] BY <1>1, <2>2 DEF FcSpawn, vm
    <3> HIDE DEF v
    <3> QED BY <1>0, <3>1, <3>2, OneMicroVM
  <2> QED BY <2>1, <2>2
<1>2. CASE FcWaitForSocket(s)
  <2>1. CASE fc' = [fc EXCEPT ![s].at = "configuring"]
    <3> DEFINE v == [vm EXCEPT !.at = "configuring"]
    <3>1. v \in MicroVMs /\ v.at = "configuring" BY <1>0 DEF MicroVMs
    <3>2. fc' = [fc EXCEPT ![s] = v] BY <2>1 DEF vm
    <3> HIDE DEF v
    <3> QED BY <1>0, <3>1, <3>2, OneMicroVM
  <2>2. CASE fc' = [fc EXCEPT ![s] = [@ EXCEPT !.at = "failed", !.process = FALSE]]
    <3> DEFINE v == [vm EXCEPT !.at = "failed", !.process = FALSE]
    <3>1. v \in MicroVMs /\ v.at = "failed" /\ ~ v.process BY <1>0 DEF MicroVMs
    <3>2. fc' = [fc EXCEPT ![s] = v] BY <2>2 DEF vm
    <3> HIDE DEF v
    <3> QED BY <1>0, <3>1, <3>2, OneMicroVM
  <2> QED BY <1>2, <2>1, <2>2 DEF FcWaitForSocket
<1>3. CASE FcConfigure(s)
  <2>1. CASE fc' = [fc EXCEPT ![s] = [@ EXCEPT !.at = "ready", !.handle = TRUE]]
    <3> DEFINE v == [vm EXCEPT !.at = "ready", !.handle = TRUE]
    <3>1. v \in MicroVMs /\ v.at = "ready" /\ v.handle BY <1>0 DEF MicroVMs
    <3>2. fc' = [fc EXCEPT ![s] = v] BY <2>1 DEF vm
    <3> HIDE DEF v
    <3> QED BY <1>0, <3>1, <3>2, OneMicroVM
  <2>2. CASE fc' = [fc EXCEPT ![s] = [NoVM EXCEPT !.at = "failed"]]
    <3> DEFINE v == [NoVM EXCEPT !.at = "failed"]
    <3>1. v \in MicroVMs /\ v.at = "failed" /\ ~ v.process BY FailedVM
    <3>2. fc' = [fc EXCEPT ![s] = v] BY <2>2
    <3> HIDE DEF v
    <3> QED BY <1>0, <3>1, <3>2, OneMicroVM
  <2> QED BY <1>3, <2>1, <2>2 DEF FcConfigure
<1>4. CASE FcDestroy(s)
  <2> DEFINE v == [vm EXCEPT !.at = "stopping"]
  <2>1. v \in MicroVMs /\ v.at = "stopping" /\ v.handle BY <1>0, <1>4 DEF MicroVMs, FcDestroy, vm
  <2>2. fc' = [fc EXCEPT ![s] = v] BY <1>4 DEF FcDestroy, vm
  <2> HIDE DEF v
  <2> QED BY <1>0, <2>1, <2>2, OneMicroVM
<1>5. CASE FcShutdown(s)
  <2>1. vm.ssh \in BOOLEAN BY <1>0 DEF MicroVMs
  <2> DEFINE v == [NoVM EXCEPT !.at = "gone", !.ssh = vm.ssh]
  <2>2. v \in MicroVMs /\ v.at = "gone" /\ ~ v.process /\ ~ v.rootfs BY <2>1 DEF NoVM, MicroVMs
  <2>3. fc' = [fc EXCEPT ![s] = v] BY <1>5 DEF FcShutdown, vm
  <2> HIDE DEF v
  <2> QED BY <1>0, <2>2, <2>3, OneMicroVM
<1>6. CASE FcExecuteEnds(s)
  <2> DEFINE v == [vm EXCEPT !.ssh = FALSE]
  <2>1. v \in MicroVMs /\ v.at = vm.at /\ v.process = vm.process /\ v.rootfs = vm.rootfs /\ v.handle = vm.handle
    BY <1>0 DEF MicroVMs
  <2>2. fc' = [fc EXCEPT ![s] = v] BY <1>6 DEF FcExecuteEnds, vm
  <2> HIDE DEF v
  <2> QED BY <1>0, <2>1, <2>2, OneMicroVM
<1>7. CASE \E t \in CommandTexts : FcExecute(s, t)
  <2> DEFINE v == [vm EXCEPT !.ssh = TRUE]
  <2>1. v \in MicroVMs /\ v.at = vm.at /\ v.process = vm.process /\ v.rootfs = vm.rootfs /\ v.handle = vm.handle
    BY <1>0 DEF MicroVMs
  <2>2. fc' = [fc EXCEPT ![s] = v] BY <1>7 DEF FcExecute, vm
  <2> HIDE DEF v
  <2> QED BY <1>0, <2>1, <2>2, OneMicroVM
<1> QED BY <1>1, <1>2, <1>3, <1>4, <1>5, <1>6, <1>7

-----------------------------------------------------------------------------
(* The two executors together. *)

LEMMA DockerInit == SandboxInit => DockerInv
<1> USE DEF SandboxInit, DockerInv, DockerTypeOK, Containers, Statuses, CommandLocals, DestroyLocals,
            IdleCommand, IdleDestroy
<1> SUFFICES ASSUME SandboxInit PROVE DockerInv
  OBVIOUS
<1>1. DockerTypeOK OBVIOUS
<1>2. EveryCommandIsAudited BY DEF EveryCommandIsAudited
<1>3. CommandsAreOfThisLog /\ NothingBeforeTheContainer
  BY DEF CommandsAreOfThisLog, NothingBeforeTheContainer
<1>4. RemovalsAreAnswered /\ DestroyedRowsAreGone /\ RestoreIsQuiet
  BY DEF RemovalsAreAnswered, DestroyedRowsAreGone, RestoreIsQuiet
<1>5. ActiveRowsAreLoaded /\ NoOrphansOnceServing
  BY DEF ActiveRowsAreLoaded, NoOrphansOnceServing, Active, Exists
<1> QED BY <1>1, <1>2, <1>3, <1>4, <1>5

LEMMA DockerStays ==
  ASSUME DockerInv, UNCHANGED dockerVars
  PROVE  DockerInv'
BY DEF DockerInv, dockerVars, DockerTypeOK, EveryCommandIsAudited, CommandsAreOfThisLog,
       NothingBeforeTheContainer, RemovalsAreAnswered, DestroyedRowsAreGone, RestoreIsQuiet,
       ActiveRowsAreLoaded, NoOrphansOnceServing, Active, Exists

\* No action on containers but a crash touches a microVM.
LEMMA DockerLeavesMicroVMs == DockerNext => UNCHANGED <<fc, crashes_>>
BY DEF DockerNext, CreateSandbox, ContainersRun, RememberSession, PersistCreated, ContainerExpires,
       RunCommand, TransferFiles, DestroySandbox, CommandReturns, CheckResourceUsage,
       CommandTimesOut, CommandFails, RemoveContainer, PersistDestroyed, DropSession,
       LoadActiveSessionsFromDb, ReconcileOrphans

\* What a crash leaves of each microVM is no stray but by that crash.
LEMMA CrashAbandons ==
  ASSUME MicroVMInv, SandboxCrashes
  PROVE  MicroVMInv'
<1> DEFINE left(s) == Abandoned(fc[s])
<1>1. \A s \in Boxes : fc'[s] = left(s) BY DEF SandboxCrashes
<1>2. ASSUME NEW s \in Boxes
      PROVE  /\ left(s) \in MicroVMs /\ left(s).at \notin {"ready", "stopping", "copied"}
             /\ left(s).process => left(s).at = "orphaned"
             /\ left(s).at = "gone" => ~ left(s).rootfs
             /\ left(s).at = "none" => ~ left(s).process
  <2>1. fc[s] \in MicroVMs BY DEF MicroVMInv
  <2> QED BY <2>1 DEF MicroVMInv, NoStrayMicroVM, MicroVMs, Abandoned
<1>3. crashes_' \in Nat /\ crashes_' > 0 BY DEF SandboxCrashes, MicroVMInv
<1>4. fc' = [s \in Boxes |-> left(s)] BY DEF SandboxCrashes
<1> HIDE DEF left
<1>5. fc' \in [Boxes -> MicroVMs] BY <1>2, <1>4
<1> QED BY <1>1, <1>2, <1>3, <1>5 DEF MicroVMInv, NoStrayMicroVM

LEMMA DockerKeeps ==
  ASSUME DockerInv, DockerNext
  PROVE  DockerInv'
<1>1. CASE \E s \in Boxes, env \in {"clean", "blocked"} : CreateSandbox(s, env) BY <1>1, SandboxCreateKeeps
<1>2. CASE \E s \in Boxes : ContainersRun(s) BY <1>2, RunKeeps
<1>3. CASE \E s \in Boxes : RememberSession(s) BY <1>3, RememberKeeps
<1>4. CASE \E s \in Boxes : PersistCreated(s) BY <1>4, SandboxPersistKeeps
<1>5. CASE \E s \in Boxes : ContainerExpires(s) BY <1>5, SandboxExpireKeeps
<1>6. CASE \E s \in Boxes, c \in Commands, t \in CommandTexts : RunCommand(c, s, t)
  BY <1>6, RunCommandKeeps
<1>7. CASE \E s \in Boxes, f \in FileTexts : TransferFiles(s, f) BY <1>7, TransferKeeps
<1>8. CASE \E s \in Boxes, d \in Destroyers : DestroySandbox(d, s) BY <1>8, DestroyKeeps
<1>9. CASE \E c \in Commands : CommandReturns(c) BY <1>9, CommandReturnsKeeps
<1>10. CASE \E c \in Commands : CheckResourceUsage(c) BY <1>10, MeasureKeeps
<1>11. CASE \E c \in Commands : CommandTimesOut(c) BY <1>11, TimeOutKeeps
<1>12. CASE \E c \in Commands : CommandFails(c) BY <1>12, FailKeeps
<1>13. CASE \E d \in Destroyers : RemoveContainer(d) BY <1>13, RemoveKeeps
<1>14. CASE \E d \in Destroyers : PersistDestroyed(d) BY <1>14, PersistDestroyedKeeps
<1>15. CASE \E d \in Destroyers : DropSession(d) BY <1>15, DropKeeps
<1>16. CASE LoadActiveSessionsFromDb BY <1>16, LoadKeeps
<1>17. CASE ReconcileOrphans BY <1>17, ReconcileKeeps
<1> QED
  BY <1>1, <1>2, <1>3, <1>4, <1>5, <1>6, <1>7, <1>8, <1>9, <1>10, <1>11, <1>12, <1>13, <1>14,
     <1>15, <1>16, <1>17 DEF DockerNext

LEMMA InductiveSandbox == SandboxSpec => []SInv
<1>1. SandboxInit => SInv BY DockerInit, MicroVMInit DEF SInv
<1>2. SInv /\ [SandboxNext]_sandboxVars => SInv'
  <2> SUFFICES ASSUME SInv, [SandboxNext]_sandboxVars PROVE SInv'
    OBVIOUS
  <2>1. CASE DockerNext
    <3>1. DockerInv' BY <2>1, DockerKeeps DEF SInv
    <3>2. UNCHANGED <<fc, crashes_>> BY <2>1, DockerLeavesMicroVMs
    <3> QED BY <3>1, <3>2 DEF SInv, MicroVMInv, NoStrayMicroVM
  <2>2. CASE FirecrackerNext
    BY <2>2, MicroVMKeeps, MicroVMsLeaveDocker, DockerStays DEF SInv
  <2>3. CASE SandboxCrashes BY <2>3, CrashKeeps, CrashAbandons DEF SInv
  <2>4. CASE UNCHANGED sandboxVars
    <3>1. UNCHANGED dockerVars /\ UNCHANGED <<fc, crashes_>> BY <2>4 DEF sandboxVars, dockerVars
    <3> QED BY <3>1, DockerStays DEF SInv, MicroVMInv, NoStrayMicroVM
  <2> QED BY <2>1, <2>2, <2>3, <2>4 DEF SandboxNext
<1> QED BY <1>1, <1>2, PTL DEF SandboxSpec

-----------------------------------------------------------------------------
(* Theorems. *)

\* With any number of sessions, requests and crashes: every command that answered or
\* timed out is in the audit log of its session (one that Docker fails is not, and a
\* crash loses the log), a row that says destroyed has no container unless Docker
\* refused, a serving process has no container nobody knows but one being created or
\* one Docker refused, and a microVM runs without a handle only while it is being
\* started or after a crash (DockerExecutor, FirecrackerExecutor).
THEOREM ContainersAccounted == SandboxSpec => []ContainersAreAccountedFor
<1>1. SInv => ContainersAreAccountedFor
  BY DEF SInv, DockerInv, MicroVMInv, ContainersAreAccountedFor
<1> QED BY <1>1, InductiveSandbox, PTL

\* A container whose row is active is removed for a delete request only, never by
\* the sweep of a restart, unless Docker could not be asked about it
\* (load_active_sessions_from_db before _reconcile_orphans).
THEOREM SweepSparesActive == SandboxSpec => ActiveContainersAreSpared
<1>1. SInv /\ [SandboxNext]_sandboxVars => [SweepStep]_sandboxVars
  <2> SUFFICES ASSUME SInv, SandboxNext, NEW s \in Boxes,
                      Active(s), box'[s] = "removed"
               PROVE  s \in refused \/ \E d \in Destroyers : kill[d].at = "removing" /\ kill[d].session = s
    BY DEF SweepStep
  <2> USE DEF SInv, DockerInv, DockerTypeOK, Active, Exists
  <2>1. CASE \E d \in Destroyers : RemoveContainer(d)
    <3>1. PICK d \in Destroyers : RemoveContainer(d) BY <2>1
    <3>2. kill[d].at = "removing" /\ kill[d].session = s BY <3>1 DEF RemoveContainer, Containers
    <3> QED BY <3>2
  <2>2. CASE ReconcileOrphans BY <2>2 DEF ReconcileOrphans, ActiveRowsAreLoaded
  <2>3. CASE \E t \in Boxes : ContainersRun(t) \/ ContainerExpires(t)
    BY <2>3 DEF ContainersRun, ContainerExpires
  <2>4. ASSUME UNCHANGED box PROVE FALSE BY <2>4
  <2> QED
    BY <2>1, <2>2, <2>3, <2>4, MicroVMsLeaveDocker
    DEF SandboxNext, DockerNext, CreateSandbox, RememberSession, PersistCreated, RunCommand,
        TransferFiles, DestroySandbox, CommandReturns, CheckResourceUsage, CommandTimesOut,
        CommandFails, PersistDestroyed, DropSession, SandboxCrashes, LoadActiveSessionsFromDb, dockerVars
<1> QED BY <1>1, InductiveSandbox, PTL DEF SandboxSpec, ActiveContainersAreSpared

-----------------------------------------------------------------------------
(*****************************************************************************)
(* Lifecycle of the services                                                 *)
(*                                                                           *)
(* The invariant says how far start-up and shutdown have got: a client that  *)
(* start-up has made is open until shutdown has passed it.  That this gives  *)
(* the order needs a fact about the lists of every service (WellOrdered),    *)
(* which follows from their thirteen definitions.                            *)
(*****************************************************************************)

Halting == {"stopping", "stopped", "raised"}
UpSteps(s) == 1 .. Len(s.up)
DownSteps(s) == 1 .. Len(s.down)

\* What the shutdown order of a service has to be: every task is closed, and before any client
\* it uses, which is no task.
WellOrdered(s) ==
    /\ Len(s.up) \in Nat /\ Len(s.down) \in Nat
    /\ \A i \in UpSteps(s) : s.up[i].what \in BackgroundTasks =>
          /\ s.uses[s.up[i].what] \cap BackgroundTasks = {}
          /\ \E p \in DownSteps(s) : s.down[p] = s.up[i].what
          /\ \A p, k \in DownSteps(s) :
                s.down[p] = s.up[i].what /\ s.down[k] \in s.uses[s.up[i].what] => p < k

LEMMA StoreServices ==
  /\ WellOrdered(WorldStateLedgerService) /\ WellOrdered(HumanInterfaceService)
  /\ WellOrdered(KnowledgeMemoryService)
<1>1. WellOrdered(WorldStateLedgerService)
  BY DEF WellOrdered, UpSteps, DownSteps, WorldStateLedgerService, Step, BackgroundTasks, LedgerWorkerUses
<1>2. WellOrdered(HumanInterfaceService)
  BY DEF WellOrdered, UpSteps, DownSteps, HumanInterfaceService, Step, BackgroundTasks
<1>3. WellOrdered(KnowledgeMemoryService)
  BY DEF WellOrdered, UpSteps, DownSteps, KnowledgeMemoryService, Step, BackgroundTasks
<1> QED BY <1>1, <1>2, <1>3

LEMMA WorkerServices ==
  /\ WellOrdered(EconomicGovernorService) /\ WellOrdered(FailureTaxonomyService)
  /\ WellOrdered(SecurityImmuneService) /\ WellOrdered(DeploymentPipelineService)
<1>1. WellOrdered(EconomicGovernorService)
  BY DEF WellOrdered, UpSteps, DownSteps, EconomicGovernorService, Step, BackgroundTasks, GovernorWorkerUses
<1>2. WellOrdered(FailureTaxonomyService)
  BY DEF WellOrdered, UpSteps, DownSteps, FailureTaxonomyService, Step, BackgroundTasks, FailureWorkerUses
<1>3. WellOrdered(SecurityImmuneService)
  BY DEF WellOrdered, UpSteps, DownSteps, SecurityImmuneService, Step, BackgroundTasks, SecurityWorkerUses
<1>4. WellOrdered(DeploymentPipelineService)
  BY DEF WellOrdered, UpSteps, DownSteps, DeploymentPipelineService, Step, BackgroundTasks, DeploymentWorkerUses
<1> QED BY <1>1, <1>2, <1>3, <1>4

LEMMA LazyServices ==
  /\ WellOrdered(TaskGraphService) /\ WellOrdered(CodingAgentService) /\ WellOrdered(EvaluationService)
  /\ WellOrdered(SpecEngineService) /\ WellOrdered(CommBusService) /\ WellOrdered(CodingAgentWorker)
<1>1. WellOrdered(TaskGraphService)
  BY DEF WellOrdered, UpSteps, DownSteps, TaskGraphService, Step, BackgroundTasks
<1>2. WellOrdered(CodingAgentService)
  BY DEF WellOrdered, UpSteps, DownSteps, CodingAgentService, Step, BackgroundTasks
<1>3. WellOrdered(EvaluationService)
  BY DEF WellOrdered, UpSteps, DownSteps, EvaluationService, Step, BackgroundTasks
<1>4. WellOrdered(SpecEngineService)
  BY DEF WellOrdered, UpSteps, DownSteps, SpecEngineService, Step, BackgroundTasks
<1>5. WellOrdered(CommBusService)
  BY DEF WellOrdered, UpSteps, DownSteps, CommBusService, Step, BackgroundTasks
<1>6. WellOrdered(CodingAgentWorker)
  BY DEF WellOrdered, UpSteps, DownSteps, CodingAgentWorker, Step, BackgroundTasks
<1> QED BY <1>1, <1>2, <1>3, <1>4, <1>5, <1>6

LEMMA ServicesAreOrdered == \A s \in Services : WellOrdered(s)
BY StoreServices, WorkerServices, LazyServices, LifeAssumption

\* Only what start-up makes is open; a client it made is, until shutdown closes it; and what
\* shutdown has passed is closed.
LifeInv ==
    /\ service \in Services
    /\ phase \in {"starting", "serving"} \cup Halting
    /\ at \in Nat \ {0}
    /\ \A what \in open : \E i \in UpSteps(service) : service.up[i].what = what
    /\ \A client \in made \ BackgroundTasks :
          \/ client \in open
          \/ phase \in Halting /\ \E k \in DownSteps(service) : k < at /\ service.down[k] = client
    /\ phase \in Halting => \A k \in DownSteps(service) : k < at => service.down[k] \notin open
    /\ phase = "stopped" => at > Len(service.down)

LEMMA LifeInitially == LifeInit => LifeInv
<1> SUFFICES ASSUME LifeInit PROVE LifeInv OBVIOUS
<1>1. WellOrdered(service) BY ServicesAreOrdered DEF LifeInit
<1>2. \A i \in UpSteps(service) : 1 <= i BY <1>1 DEF WellOrdered, UpSteps
<1> QED BY <1>2 DEF LifeInit, LifeInv, Halting

LEMMA StartStepKeeps ==
  ASSUME LifeInv, StartStep
  PROVE  LifeInv'
<1> DEFINE what == service.up[at].what
<1>1. WellOrdered(service) BY ServicesAreOrdered DEF LifeInv
<1>2. Len(service.up) \in Nat /\ at \in UpSteps(service) BY <1>1 DEF WellOrdered, UpSteps, LifeInv, StartStep
<1>3. /\ phase = "starting" /\ at' = at + 1 /\ service' = service /\ phase' = phase
      /\ \/ open' = open \cup {what} /\ made' = made \cup {what}
         \/ UNCHANGED <<open, made>>
  BY DEF StartStep
<1> HIDE DEF what
<1>4. \A w \in open' : \E i \in UpSteps(service) : service.up[i].what = w
  BY <1>2, <1>3 DEF LifeInv, what
<1> QED BY <1>3, <1>4 DEF LifeInv, Halting

\* Only tasks die.
LEMMA TaskDiesKeeps ==
  ASSUME LifeInv, NEW task \in BackgroundTasks, TaskDies(task)
  PROVE  LifeInv'
<1>1. open' = open \ {task} /\ UNCHANGED <<service, phase, at, made>> BY DEF TaskDies
<1> QED BY <1>1 DEF LifeInv

LEMMA StopStepKeeps ==
  ASSUME LifeInv, StopStep
  PROVE  LifeInv'
<1>1. WellOrdered(service) BY ServicesAreOrdered DEF LifeInv
<1>2. at \in DownSteps(service) /\ phase = "stopping" /\ UNCHANGED <<service, made>> /\ at \in Nat \ {0}
  BY <1>1 DEF WellOrdered, DownSteps, LifeInv, StopStep
<1>3. CASE phase' = "raised" /\ UNCHANGED <<at, open>>
  BY <1>2, <1>3 DEF LifeInv, Halting
<1>4. CASE open' = open \ {service.down[at]} /\ at' = at + 1 /\ phase' = phase
  <2>1. \A k \in DownSteps(service) : k < at' => k < at \/ k = at BY <1>2, <1>4 DEF DownSteps
  <2>2. at < at' /\ at' \in Nat \ {0} BY <1>2, <1>4
  <2>3. \A k \in DownSteps(service) : k < at => k < at' BY <1>2, <1>4 DEF DownSteps
  <2>4. \A k \in DownSteps(service) : k < at' => service.down[k] \notin open'
    BY <1>2, <1>4, <2>1 DEF LifeInv, Halting
  <2>5. ASSUME NEW client \in made \ BackgroundTasks, client \notin open'
        PROVE  \E k \in DownSteps(service) : k < at' /\ service.down[k] = client
    <3>1. CASE client = service.down[at] BY <3>1, <1>2, <2>2
    <3>2. CASE client \notin open BY <3>2, <2>5, <2>3, <1>2 DEF LifeInv
    <3> QED BY <3>1, <3>2, <2>5, <1>4
  <2> QED BY <1>2, <1>4, <2>2, <2>4, <2>5 DEF LifeInv, Halting
<1> QED BY <1>3, <1>4 DEF StopStep

LEMMA LifeStep ==
  ASSUME LifeInv, [LifeNext]_lifeVars
  PROVE  LifeInv'
<1>1. CASE StartStep BY <1>1, StartStepKeeps
<1>2. CASE Yield BY <1>2 DEF Yield, LifeInv, Halting
<1>3. CASE BeginShutdown
  <2>1. WellOrdered(service) BY ServicesAreOrdered DEF LifeInv
  <2>2. \A k \in DownSteps(service) : ~(k < 1) BY <2>1 DEF WellOrdered, DownSteps
  <2> QED BY <1>3, <2>2 DEF BeginShutdown, LifeInv, Halting
<1>4. CASE StopStep BY <1>4, StopStepKeeps
<1>5. CASE Stopped BY <1>5 DEF Stopped, LifeInv, Halting
<1>6. ASSUME NEW task \in BackgroundTasks, TaskDies(task) PROVE LifeInv'
  BY <1>6, TaskDiesKeeps
<1>7. CASE UNCHANGED lifeVars BY <1>7 DEF lifeVars, LifeInv
<1> QED BY <1>1, <1>2, <1>3, <1>4, <1>5, <1>6, <1>7 DEF LifeNext

LEMMA OrderlyShutdown == LifeInv => ShutdownIsOrderly
<1> SUFFICES ASSUME LifeInv PROVE ShutdownIsOrderly OBVIOUS
<1>1. WellOrdered(service) BY ServicesAreOrdered DEF LifeInv
<1>2. ASSUME phase \in Halting, NEW i \in UpSteps(service), service.up[i].what \in open \cap BackgroundTasks
      PROVE  \E p \in DownSteps(service) : service.down[p] = service.up[i].what /\ at <= p
  <2>1. PICK p \in DownSteps(service) : service.down[p] = service.up[i].what BY <1>1, <1>2 DEF WellOrdered
  <2>2. ~(p < at) BY <2>1, <1>2 DEF LifeInv
  <2>3. at <= p BY <2>2 DEF LifeInv, DownSteps
  <2> QED BY <2>1, <2>3
<1>3. ConsumersStopFirst
  <2> SUFFICES ASSUME NEW task \in open \cap BackgroundTasks,
                      NEW client \in service.uses[task] \cap made, client \notin open
               PROVE  FALSE
    BY DEF ConsumersStopFirst
  <2>1. PICK i \in UpSteps(service) : service.up[i].what = task BY DEF LifeInv
  <2>2. client \notin BackgroundTasks BY <1>1, <2>1 DEF WellOrdered
  <2>3. phase \in Halting /\ \E k \in DownSteps(service) : k < at /\ service.down[k] = client
    BY <2>2 DEF LifeInv
  <2>4. PICK p \in DownSteps(service) : service.down[p] = task /\ at <= p BY <1>2, <2>1, <2>3
  <2>5. PICK k \in DownSteps(service) : k < at /\ service.down[k] = client BY <2>3
  <2>6. p < k BY <1>1, <2>1, <2>4, <2>5 DEF WellOrdered
  <2> QED BY <2>4, <2>5, <2>6 DEF LifeInv, DownSteps
<1>4. StoppedMeansQuiet
  <2> SUFFICES ASSUME phase = "stopped", NEW task \in open \cap BackgroundTasks PROVE FALSE
    BY DEF StoppedMeansQuiet
  <2>1. PICK i \in UpSteps(service) : service.up[i].what = task BY DEF LifeInv
  <2>2. PICK p \in DownSteps(service) : at <= p BY <2>1, <1>2 DEF Halting
  <2>3. at > Len(service.down) BY DEF LifeInv
  <2> QED BY <2>2, <2>3, <1>1 DEF LifeInv, DownSteps, WellOrdered
<1> QED BY <1>3, <1>4 DEF ShutdownIsOrderly

\* Whatever start-up step failed and whichever task died, the shutdown of the eight services and
\* workers that run background tasks (their service.py, and worker.py of the coding agent) closes
\* a client, an optional one too, only after the tasks that use it, and leaves none of them
\* running once it has come to its end.  The other five have no tasks.
THEOREM ShutdownHolds == LifeSpec => []ShutdownIsOrderly
<1>1. LifeInv /\ [LifeNext]_lifeVars => LifeInv' BY LifeStep
<1> QED BY LifeInitially, <1>1, OrderlyShutdown, PTL DEF LifeSpec

-----------------------------------------------------------------------------
(*****************************************************************************)
(* Failure Taxonomy                                                          *)
(*                                                                           *)
(* That one text has one code, whichever path it came by, rests on a fact    *)
(* about the classifier: its rules are tried in an order that no layer       *)
(* changes, so the first match decides (FirstRule).                          *)
(*****************************************************************************)

Classes == [code : FailureCodes, confidence : 0 .. 100]
CallerRecords ==
    [at : {"idle", "classified", "stored"}, via : Vias, text : FailureTexts, layer : FailureLayers,
     class : [code : FailureCodes \cup {"none"}, confidence : 0 .. 100], row : 0 .. MaxFailures]

\* The code of the first rule a text matches, whatever layer it came from.
RuleCode(text) == RulePatterns[FirstRule(text)]
RulesDecide(text, code) == taxonomy.threshold <= 85 /\ text # {} => code = RuleCode(text)

TaxonomyInv ==
    /\ TaxonomyTypeOK
    /\ caller \in [Callers -> CallerRecords]
    /\ \A c \in Callers : caller[c].at # "idle" =>
          /\ caller[c].class.code \in FailureCodes
          /\ RulesDecide(caller[c].text, caller[c].class.code)
    /\ \A c \in Callers : caller[c].at = "stored" =>
          /\ caller[c].row \in DOMAIN failures
          /\ failures[caller[c].row].code = caller[c].class.code
    /\ \A i \in DOMAIN failures : RulesDecide(failures[i].text, failures[i].code)
    /\ AnnouncedIsRecorded

-----------------------------------------------------------------------------
\* The classifier

LEMMA RulesApply ==
  ASSUME NEW text \in FailureTexts, text # {}
  PROVE  /\ RuleCode(text) \in FailureCodes
         /\ \A layer : ClassifyByRules(text, layer) = [code |-> RuleCode(text), confidence |-> 85]
<1>1. text = {"f4", "f6"} BY DEF FailureTexts
<1>2. DOMAIN RulePatterns = 1 .. 9 /\ RulePatterns \in [1 .. 9 -> FailureCodes]
  BY DEF RulePatterns, FailureCodes
<1>3. 2 \in 1 .. 9 /\ Matches(text, 2) /\ ~ Matches(text, 1) BY <1>1 DEF Matches, RulePatterns
<1>4. \A j \in 1 .. 2 - 1 : j = 1 OBVIOUS
<1>5. FirstRule(text) \in 1 .. 9 BY <1>2, <1>3, <1>4 DEF FirstRule
<1>6. RuleCode(text) \in FailureCodes BY <1>2, <1>5 DEF RuleCode
<1>7. \E i \in DOMAIN RulePatterns : Matches(text, i) BY <1>2, <1>3
<1> QED BY <1>6, <1>7 DEF ClassifyByRules, RuleCode

LEMMA RulesType ==
  ASSUME NEW text \in FailureTexts, NEW layer
  PROVE  ClassifyByRules(text, layer) \in Classes \cup {Unclassified}
<1>1. CASE text # {}
  <2>1. [code |-> RuleCode(text), confidence |-> 85] \in Classes BY <1>1, RulesApply DEF Classes
  <2> QED BY <2>1, <1>1, RulesApply
<1>2. CASE text = {}
  <2>1. \A i : ~ Matches(text, i) BY <1>2 DEF Matches
  <2>2. ASSUME layer \in DOMAIN LayerDefaults PROVE LayerDefaults[layer] \in FailureCodes
    BY <2>2 DEF LayerDefaults, DefaultedLayers, FailureCodes
  <2>3. ASSUME layer \in DOMAIN LayerDefaults
        PROVE  [code |-> LayerDefaults[layer], confidence |-> 50] \in Classes
    BY <2>2, <2>3 DEF Classes
  <2> QED BY <2>1, <2>3 DEF ClassifyByRules
<1> QED BY <1>1, <1>2

LEMMA ClassifyIsRuled ==
  ASSUME TaxonomyTypeOK, NEW text \in FailureTexts, NEW layer, NEW answer \in LlmAnswers \cup {LlmRaises}
  PROVE  /\ Classify(text, layer, answer) \in Classes
         /\ RulesDecide(text, Classify(text, layer, answer).code)
<1> DEFINE rule == ClassifyByRules(text, layer)
<1>1. rule \in Classes \cup {Unclassified} BY RulesType
<1>2. taxonomy.threshold \in {70, 90} BY DEF TaxonomyTypeOK
<1>3. answer # LlmRaises => answer \in Classes BY DEF LlmAnswers, LlmRaises, Classes, FailureCodes
<1>4. [code |-> "f6", confidence |-> 30] \in Classes BY DEF Classes, FailureCodes
<1>5. Classify(text, layer, answer) \in Classes
  <2> HIDE DEF rule
  <2> QED BY <1>1, <1>3, <1>4 DEF Classify, rule
<1>6. ASSUME taxonomy.threshold <= 85, text # {} PROVE Classify(text, layer, answer).code = RuleCode(text)
  <2>1. rule = [code |-> RuleCode(text), confidence |-> 85] BY <1>6, RulesApply
  <2>2. RuleCode(text) # "none" BY <1>6, RulesApply DEF FailureCodes
  <2>3. rule # Unclassified /\ rule.confidence = 85 /\ rule.code = RuleCode(text) BY <2>1, <2>2 DEF Unclassified
  <2>4. rule.confidence >= taxonomy.threshold BY <2>3, <1>6, <1>2
  <2> QED BY <2>3, <2>4 DEF Classify
<1> QED BY <1>5, <1>6 DEF RulesDecide

-----------------------------------------------------------------------------
\* The actions

LEMMA IdleIsACaller == IdleCaller \in CallerRecords
BY TaxonomyAssumption DEF IdleCaller, CallerRecords, Vias, FailureTexts, FailureLayers, Unclassified

\* Nothing but the caller changes, and a caller that holds a row holds the one it held.
LEMMA CallerKeeps ==
  ASSUME TaxonomyInv, NEW c \in Callers, NEW r \in CallerRecords, caller' = [caller EXCEPT ![c] = r],
         UNCHANGED <<taxonomy, failures, announced, postMortem>>, r.at \in {"idle", "classified"},
         r.at # "idle" => r.class.code \in FailureCodes /\ RulesDecide(r.text, r.class.code)
  PROVE  TaxonomyInv'
<1>1. caller' \in [Callers -> CallerRecords] /\ caller'[c] = r /\ \A d \in Callers : d # c => caller'[d] = caller[d]
  BY DEF TaxonomyInv
<1>2. TaxonomyTypeOK'
  <2>1. \A d \in Callers : caller'[d] \in CallerRecords BY <1>1
  <2>2. \A d \in Callers : caller'[d].at # "idle" => caller'[d].class.code \in FailureCodes
    BY <1>1 DEF TaxonomyInv
  <2>3. \A d \in Callers : caller'[d].at # "idle" => caller'[d].class \in Classes
    BY <2>1, <2>2 DEF CallerRecords, Classes
  <2>4. taxonomy' = taxonomy /\ failures' = failures /\ postMortem' = postMortem OBVIOUS
  <2> QED BY <2>1, <2>3, <2>4 DEF TaxonomyTypeOK, TaxonomyInv, CallerRecords, Classes
<1> QED BY <1>1, <1>2 DEF TaxonomyInv, RulesDecide, AnnouncedIsRecorded

LEMMA RecordingBegins ==
  ASSUME TaxonomyInv, NEW c \in Callers, NEW via \in Vias, NEW text \in FailureTexts,
         NEW layer \in FailureLayers, BeginClassification(c, [via |-> via, text |-> text, layer |-> layer])
  PROVE  TaxonomyInv'
<1>1. PICK answer \in LlmAnswers \cup {LlmRaises} :
         caller' = [caller EXCEPT ![c] =
             [at |-> "classified", via |-> via, text |-> text,
              layer |-> IF via = "activity" THEN layer ELSE "none",
              class |-> Classify(text, layer, answer), row |-> 0]]
  BY DEF BeginClassification
<1> DEFINE r == [at |-> "classified", via |-> via, text |-> text,
                 layer |-> IF via = "activity" THEN layer ELSE "none",
                 class |-> Classify(text, layer, answer), row |-> 0]
           class == Classify(text, layer, answer)
<1>2. class \in Classes /\ RulesDecide(text, class.code) BY ClassifyIsRuled DEF TaxonomyInv
<1> HIDE DEF class
<1>3. class.code \in FailureCodes /\ class \in [code : FailureCodes \cup {"none"}, confidence : 0 .. 100]
  BY <1>2 DEF Classes
<1>4. r \in CallerRecords /\ r.at = "classified" /\ r.class = class /\ r.text = text
  BY <1>3, TaxonomyAssumption DEF CallerRecords, FailureLayers, class
<1> HIDE DEF r
<1>5. caller' = [caller EXCEPT ![c] = r] BY <1>1 DEF r
<1> QED BY <1>2, <1>3, <1>4, <1>5, CallerKeeps DEF BeginClassification

\* A classified failure becomes a row.
LEMMA RowType ==
  ASSUME TaxonomyInv, NEW c \in Callers, caller[c].at = "classified"
  PROVE  /\ FailureRow(caller[c]) \in FailureRows
         /\ FailureRow(caller[c]).code = caller[c].class.code
         /\ FailureRow(caller[c]).text = caller[c].text
<1>1. caller[c] \in CallerRecords /\ caller[c].class.code \in FailureCodes BY DEF TaxonomyInv
<1>2. SeverityForCode(caller[c].class.code) \in Severities BY DEF SeverityForCode, Severities
<1> QED BY <1>1, <1>2 DEF FailureRow, FailureRows, CallerRecords, Severities

LEMMA RowKeeps ==
  ASSUME TaxonomyInv, NEW c \in Callers, caller[c].at = "classified", Len(failures) < MaxFailures,
         failures' = Append(failures, FailureRow(caller[c])), UNCHANGED <<taxonomy, announced, postMortem>>,
         NEW r \in CallerRecords, caller' = [caller EXCEPT ![c] = r],
         r.at # "idle" => r.class.code \in FailureCodes /\ RulesDecide(r.text, r.class.code),
         r.at = "stored" => r.row = Len(failures) + 1 /\ r.class.code = caller[c].class.code
  PROVE  TaxonomyInv'
<1> DEFINE n == Len(failures)
           record == FailureRow(caller[c])
<1>1. failures \in Seq(FailureRows) /\ n \in Nat /\ DOMAIN failures = 1 .. n /\ MaxFailures \in Nat
  BY TaxonomyAssumption DEF TaxonomyInv, TaxonomyTypeOK
<1>2. record \in FailureRows /\ record.code = caller[c].class.code /\ record.text = caller[c].text BY RowType
<1> HIDE DEF n, record
<1>3. failures' \in Seq(FailureRows) /\ Len(failures') = n + 1 /\ n + 1 <= MaxFailures
      /\ failures'[n + 1] = record /\ \A i \in 1 .. n : failures'[i] = failures[i]
      /\ DOMAIN failures' = 1 .. n + 1
  BY <1>1, <1>2 DEF n, record
<1>4. \A i \in 1 .. n + 1 : i = n + 1 \/ i \in 1 .. n BY <1>1
<1>5. \A i \in 1 .. n : i \in 1 .. n + 1 BY <1>1
<1>6. n + 1 \in 1 .. n + 1 BY <1>1
<1>7. caller' \in [Callers -> CallerRecords] /\ caller'[c] = r /\ \A d \in Callers : d # c => caller'[d] = caller[d]
  BY DEF TaxonomyInv
<1>8. RulesDecide(record.text, record.code) BY <1>2 DEF TaxonomyInv
<1>9. \A i \in DOMAIN failures' : RulesDecide(failures'[i].text, failures'[i].code)
  <2>1. \A i \in 1 .. n : RulesDecide(failures[i].text, failures[i].code) BY <1>1 DEF TaxonomyInv
  <2> QED BY <2>1, <1>3, <1>4, <1>8
<1>10. \A d \in Callers : caller'[d].at = "stored" =>
          caller'[d].row \in DOMAIN failures' /\ failures'[caller'[d].row].code = caller'[d].class.code
  <2> SUFFICES ASSUME NEW d \in Callers, caller'[d].at = "stored"
               PROVE  caller'[d].row \in DOMAIN failures' /\ failures'[caller'[d].row].code = caller'[d].class.code
    OBVIOUS
  <2>1. CASE d = c BY <2>1, <1>2, <1>3, <1>6, <1>7 DEF n
  <2>2. CASE d # c BY <2>2, <1>1, <1>3, <1>5, <1>7 DEF TaxonomyInv
  <2> QED BY <2>1, <2>2
<1>11. AnnouncedIsRecorded' BY <1>1, <1>3, <1>5 DEF TaxonomyInv, AnnouncedIsRecorded
<1>12. \A d \in Callers : caller'[d].at # "idle" =>
          caller'[d].class.code \in FailureCodes /\ RulesDecide(caller'[d].text, caller'[d].class.code)
  BY <1>7 DEF TaxonomyInv
<1>13. TaxonomyTypeOK'
  <2>1. \A d \in Callers : caller'[d] \in CallerRecords BY <1>7
  <2>2. \A d \in Callers : caller'[d].at # "idle" => caller'[d].class \in Classes
    BY <2>1, <1>12 DEF CallerRecords, Classes
  <2> QED BY <2>1, <2>2, <1>3 DEF TaxonomyTypeOK, TaxonomyInv, CallerRecords, Classes
<1>14. \A i \in DOMAIN failures' : RulesDecide(failures[i].text, failures[i].code)' BY <1>9 DEF RulesDecide
<1>15. \A d \in Callers : caller'[d].at # "idle" =>
          caller'[d].class.code \in FailureCodes /\ RulesDecide(caller[d].text, caller[d].class.code)'
  BY <1>12 DEF RulesDecide
<1> QED BY <1>7, <1>10, <1>11, <1>13, <1>14, <1>15 DEF TaxonomyInv

LEMMA FailurePersists ==
  ASSUME TaxonomyInv, NEW c \in Callers, PersistFailure(c)
  PROVE  TaxonomyInv'
<1> DEFINE r == IF caller[c].via = "event"
                THEN [caller[c] EXCEPT !.at = "stored", !.row = Len(failures) + 1] ELSE IdleCaller
<1>1. caller[c] \in CallerRecords /\ caller \in [Callers -> CallerRecords] BY DEF TaxonomyInv
<1>2. caller' = [caller EXCEPT ![c] = r] BY <1>1 DEF PersistFailure
<1>3. Len(failures) + 1 \in 0 .. MaxFailures
  BY TaxonomyAssumption DEF PersistFailure, TaxonomyInv, TaxonomyTypeOK
<1>4. CASE caller[c].via = "event"
  <2> DEFINE record == Len(failures) + 1
  <2>1. r = [at |-> "stored", via |-> caller[c].via, text |-> caller[c].text, layer |-> caller[c].layer,
             class |-> caller[c].class, row |-> record]
    <3> HIDE DEF record
    <3>1. r = [caller[c] EXCEPT !.at = "stored", !.row = record] BY <1>4 DEF record
    <3> QED BY <3>1, <1>1 DEF CallerRecords
  <2> HIDE DEF r, record
  <2>2. record \in 0 .. MaxFailures BY <1>3 DEF record
  <2>3. r \in CallerRecords BY <1>1, <2>1, <2>2 DEF CallerRecords
  <2>4. r.at = "stored" /\ r.text = caller[c].text /\ r.class = caller[c].class /\ r.row = record BY <2>1
  <2> QED BY <1>2, <2>3, <2>4, RowKeeps DEF PersistFailure, TaxonomyInv, record
<1>5. CASE caller[c].via # "event"
  <2>1. r = IdleCaller BY <1>5
  <2> HIDE DEF r
  <2>2. r \in CallerRecords /\ r.at = "idle" BY <2>1, IdleIsACaller DEF IdleCaller
  <2> QED BY <1>2, <2>2, RowKeeps DEF PersistFailure
<1> QED BY <1>4, <1>5

LEMMA RetryKeeps ==
  ASSUME TaxonomyInv, NEW c \in Callers, ActivityRetries(c)
  PROVE  TaxonomyInv'
<1>1. PICK answer \in LlmAnswers \cup {LlmRaises} :
         caller' = [caller EXCEPT ![c].class = Classify(caller[c].text, caller[c].layer, answer)]
  BY DEF ActivityRetries
<1> DEFINE class == Classify(caller[c].text, caller[c].layer, answer)
           r == [caller[c] EXCEPT !.class = class]
<1>2. caller[c] \in CallerRecords /\ caller \in [Callers -> CallerRecords] BY DEF TaxonomyInv
<1>3. caller[c].text \in FailureTexts BY <1>2 DEF CallerRecords
<1>4. class \in Classes /\ RulesDecide(caller[c].text, class.code) BY <1>3, ClassifyIsRuled DEF TaxonomyInv
<1>5. caller' = [caller EXCEPT ![c] = r] BY <1>1, <1>2
<1> HIDE DEF class
<1>6. class.code \in FailureCodes /\ class \in [code : FailureCodes \cup {"none"}, confidence : 0 .. 100]
  BY <1>4 DEF Classes
<1>7. r \in CallerRecords /\ r.at = caller[c].at /\ r.text = caller[c].text /\ r.class = class
  BY <1>2, <1>6 DEF CallerRecords
<1> HIDE DEF r
<1> QED BY <1>4, <1>5, <1>6, <1>7, RowKeeps DEF ActivityRetries

LEMMA AnnounceKeeps ==
  ASSUME TaxonomyInv, NEW c \in Callers, NEW delivered \in BOOLEAN, AnnounceFailure(c, delivered)
  PROVE  TaxonomyInv'
<1>1. /\ caller' = [caller EXCEPT ![c] = IdleCaller] /\ UNCHANGED <<taxonomy, failures, postMortem>>
      /\ caller[c].row \in DOMAIN failures /\ failures[caller[c].row].code = caller[c].class.code
  BY DEF AnnounceFailure, TaxonomyInv
<1>2. AnnouncedIsRecorded' BY <1>1 DEF AnnounceFailure, TaxonomyInv, AnnouncedIsRecorded
<1>3. caller' \in [Callers -> CallerRecords] /\ caller'[c] = IdleCaller
      /\ \A d \in Callers : d # c => caller'[d] = caller[d]
  BY <1>1, IdleIsACaller DEF TaxonomyInv
<1>4. TaxonomyTypeOK'
  <2>1. \A d \in Callers : caller'[d] \in CallerRecords BY <1>3
  <2>2. \A d \in Callers : caller'[d].at # "idle" => caller'[d].class \in Classes
    <3>1. \A d \in Callers : caller[d].at # "idle" => caller[d].class \in Classes
      BY DEF TaxonomyInv, TaxonomyTypeOK, Classes
    <3>2. IdleCaller.at = "idle" BY DEF IdleCaller
    <3> QED BY <3>1, <3>2, <1>3
  <2> QED BY <2>1, <2>2, <1>1 DEF TaxonomyTypeOK, TaxonomyInv, CallerRecords, Classes
<1> QED BY <1>1, <1>2, <1>3, <1>4 DEF TaxonomyInv, RulesDecide, IdleCaller

LEMMA PostMortemKeeps ==
  ASSUME TaxonomyInv, NEW n, GetFailureStats(n) \/ RunPostMortem("p")
  PROVE  TaxonomyInv'
<1>1. UNCHANGED <<taxonomy, failures, announced, caller>> BY DEF GetFailureStats, RunPostMortem
<1>2. \A i \in DOMAIN failures : failures[i].project = "none"
  <2>1. failures \in Seq(FailureRows) BY DEF TaxonomyInv, TaxonomyTypeOK
  <2>2. \A i \in DOMAIN failures : failures[i] \in FailureRows BY <2>1
  <2> QED BY <2>2 DEF FailureRows
<1>3. UnresolvedOf("p") = {} BY <1>2 DEF UnresolvedOf
<1>4. postMortem' \in [at : {"none", "counted", "done"}, found : {0}, completed : BOOLEAN]
  <2>1. CASE GetFailureStats(n) BY <2>1 DEF GetFailureStats
  <2>2. CASE RunPostMortem("p")
    <3>1. Cardinality(UnresolvedOf("p")) = 0 BY <1>3, FS_EmptySet
    <3> QED BY <2>2, <3>1 DEF RunPostMortem
  <2> QED BY <2>1, <2>2
<1> QED BY <1>1, <1>4 DEF TaxonomyInv, TaxonomyTypeOK, RulesDecide, AnnouncedIsRecorded

\* What the events call the text of an evaluation is the text of its failing layer.
LEMMA EvalKeeps ==
  ASSUME TaxonomyInv, NEW c \in Callers, NEW text \in FailureTexts, NEW layer \in FailureLayers,
         NEW v, NEW passed,
         OnEvalCompleted(c, v, <<[layer |-> "unit_tests", verdict |-> "pass", text |-> passed],
                                 [layer |-> layer, verdict |-> v, text |-> text]>>)
  PROVE  TaxonomyInv'
<1> DEFINE layers == <<[layer |-> "unit_tests", verdict |-> "pass", text |-> passed],
                       [layer |-> layer, verdict |-> v, text |-> text]>>
           failing == {i \in DOMAIN layers : layers[i].verdict \in {"fail_hard", "fail_soft"}}
           last == CHOOSE i \in failing : \A j \in failing : j <= i
<1>1. DOMAIN layers = 1 .. 2 /\ layers[1].verdict = "pass" /\ layers[2].verdict = v /\ layers[2].text = text
      /\ layers[2].layer = layer
  OBVIOUS
<1>2. v \in {"fail_hard", "fail_soft"} BY DEF OnEvalCompleted
<1>3. BeginClassification(c, [via |-> "event", text |-> UNION {layers[i].text : i \in failing},
                              layer |-> IF failing = {} THEN "none" ELSE layers[last].layer])
  BY DEF OnEvalCompleted
<1> HIDE DEF layers
<1>4. failing = {2} BY <1>1, <1>2
<1>5. last = 2 BY <1>4
<1> HIDE DEF failing, last
<1>6. {layers[i].text : i \in failing} = {text} BY <1>1, <1>4
<1>7. UNION {layers[i].text : i \in failing} = text BY <1>6
<1>8. BeginClassification(c, [via |-> "event", text |-> text, layer |-> layer])
  BY <1>1, <1>3, <1>4, <1>5, <1>7
<1> QED BY <1>8, RecordingBegins DEF Vias

LEMMA TaxonomyInitially == TaxonomyInit => TaxonomyInv
<1> SUFFICES ASSUME TaxonomyInit PROVE TaxonomyInv OBVIOUS
<1>1. caller \in [Callers -> CallerRecords] /\ \A c \in Callers : caller[c] = IdleCaller
  BY IdleIsACaller DEF TaxonomyInit
<1>2. failures \in Seq(FailureRows) /\ Len(failures) = 0 /\ DOMAIN failures = {} BY DEF TaxonomyInit
<1>3. \A c \in Callers : caller[c] \in CallerRecords /\ caller[c].at = "idle" BY <1>1 DEF IdleCaller
<1>4. TaxonomyTypeOK BY <1>2, <1>3, TaxonomyAssumption DEF TaxonomyTypeOK, TaxonomyInit, CallerRecords
<1> QED BY <1>1, <1>2, <1>3, <1>4 DEF TaxonomyInit, TaxonomyInv, AnnouncedIsRecorded

LEMMA TaxonomyStep ==
  ASSUME TaxonomyInv, [ClassificationNext \/ PostMortemNext]_taxonomyVars
  PROVE  TaxonomyInv'
<1>1. ASSUME NEW c \in Callers, NEW text \in FailureTexts, NEW layer \in FailureLayers,
             \/ OnTaskFailed(c, text) \/ OnDeploymentRolledBack(c, text)
             \/ ClassifyRoute(c, text, layer) \/ ClassifyActivity(c, text, layer)
             \/ ClassifyRoute(c, text, "none")
      PROVE  TaxonomyInv'
  BY <1>1, RecordingBegins
  DEF OnTaskFailed, OnDeploymentRolledBack, ClassifyRoute, ClassifyActivity, Vias, FailureLayers
<1>2. ASSUME NEW c \in Callers, PersistFailure(c) PROVE TaxonomyInv' BY <1>2, FailurePersists
<1>3. ASSUME NEW c \in Callers, PersistFailureFails(c) PROVE TaxonomyInv'
  BY <1>3, CallerKeeps, IdleIsACaller DEF PersistFailureFails, IdleCaller
<1>4. ASSUME NEW c \in Callers, ActivityRetries(c) PROVE TaxonomyInv' BY <1>4, RetryKeeps
<1>5. ASSUME NEW c \in Callers, NEW delivered \in BOOLEAN, AnnounceFailure(c, delivered) PROVE TaxonomyInv'
  BY <1>5, AnnounceKeeps
<1>6. CASE ClassificationNext
  <2>1. "none" \in FailureLayers BY DEF FailureLayers
  <2> QED BY <1>6, <2>1, <1>1, <1>2, <1>3, <1>4, <1>5, EvalKeeps DEF ClassificationNext
<1>7. CASE PostMortemNext
  <2>1. "none" \in FailureLayers BY DEF FailureLayers
  <2> QED BY <1>7, <2>1, <1>1, <1>2, PostMortemKeeps DEF PostMortemNext
<1>8. CASE UNCHANGED taxonomyVars
  BY <1>8 DEF taxonomyVars, TaxonomyInv, TaxonomyTypeOK, RulesDecide, AnnouncedIsRecorded
<1> QED BY <1>6, <1>7, <1>8

LEMMA RecordsAreRuled == TaxonomyInv => RecordsAreTrue
<1> SUFFICES ASSUME TaxonomyInv PROVE MatchedTextsAgree BY DEF TaxonomyInv, RecordsAreTrue
<1> QED BY DEF TaxonomyInv, RulesDecide, MatchedTextsAgree

\* However recordings overlap, are repeated or fail, on the route, in the activity and in the
\* event handler: a failure that is announced is a committed row with the code announced, and
\* texts that match a rule have the code of the first rule they match (classifier.py).
THEOREM RecordsHold == TaxonomySpec => []RecordsAreTrue
<1>1. TaxonomyInv /\ [ClassificationNext \/ PostMortemNext]_taxonomyVars => TaxonomyInv' BY TaxonomyStep
<1> QED BY TaxonomyInitially, <1>1, RecordsAreRuled, PTL DEF TaxonomySpec

-----------------------------------------------------------------------------
(*****************************************************************************)
(* Knowledge and Memory                                                      *)
(*                                                                           *)
(* The list of the working memory is compared with the history of uses: both *)
(* hold the same keys in the same order (WorkingInv), through uses that move *)
(* a key, deletions in the middle and expiry.  That verdicts are monotone is *)
(* an inequality between rounded quotients and a quadratic bound.            *)
(*****************************************************************************)

-----------------------------------------------------------------------------
\* Working memory

Distinct(seq) == \A i, j \in DOMAIN seq : seq[i] = seq[j] => i = j
Before(seq, a, b) == \E i, j \in DOMAIN seq : i < j /\ seq[i] = a /\ seq[j] = b

LEMMA WithoutIs ==
  ASSUME NEW K, NEW seq \in Seq(K), NEW k, Distinct(seq)
  PROVE  /\ Without(seq, k) \in Seq(K) /\ Len(Without(seq, k)) <= Len(seq)
         /\ Holds(seq, k) => Len(Without(seq, k)) = Len(seq) - 1
         /\ Distinct(Without(seq, k)) /\ ~ Holds(Without(seq, k), k)
         /\ \A a : Holds(Without(seq, k), a) <=> Holds(seq, a) /\ a # k
         /\ \A a, b : Before(Without(seq, k), a, b) <=> Before(seq, a, b) /\ a # k /\ b # k
<1> DEFINE n == Len(seq)
           w == Without(seq, k)
           p == PositionOf(seq, k)
<1>1. n \in Nat /\ DOMAIN seq = 1 .. n /\ \A i \in 1 .. n : seq[i] \in K OBVIOUS
<1>2. CASE ~ Holds(seq, k)
  <2>1. w = seq BY <1>2 DEF Without
  <2>2. \A a, b : Before(seq, a, b) => Holds(seq, a) /\ Holds(seq, b) BY DEF Before, Holds
  <2>3. \A a : Holds(seq, a) => a # k BY <1>2
  <2> HIDE DEF w
  <2> QED BY <2>1, <2>2, <2>3, <1>2 DEF w
<1>3. CASE Holds(seq, k)
  <2> HIDE DEF n
  <2>1. p \in 1 .. n /\ seq[p] = k BY <1>1, <1>3 DEF PositionOf, Holds
  <2>2. w = [i \in 1 .. n - 1 |-> IF i < p THEN seq[i] ELSE seq[i + 1]] BY <1>3 DEF Without, n
  <2> HIDE DEF w, p
  <2>3. DOMAIN w = 1 .. n - 1 /\ n - 1 \in Nat BY <1>1, <2>1, <2>2
  <2>4. \A i \in 1 .. n - 1 : i \in 1 .. n /\ i + 1 \in 1 .. n BY <1>1
  <2>5. \A i \in 1 .. n - 1 : w[i] = IF i < p THEN seq[i] ELSE seq[i + 1] BY <2>2
  <2>6. w \in [1 .. n - 1 -> K] BY <1>1, <2>2, <2>4
  <2>7. w \in Seq(K) /\ Len(w) = n - 1 BY <2>3, <2>6
  \* Where the elements of w are in seq, and where those of seq are in w.
  <2> DEFINE up(i) == IF i < p THEN i ELSE i + 1
             down(i) == IF i < p THEN i ELSE i - 1
  <2>8. \A i \in 1 .. n - 1 : up(i) \in 1 .. n /\ up(i) # p /\ w[i] = seq[up(i)] BY <1>1, <2>1, <2>4, <2>5
  <2>9. \A i, j \in 1 .. n - 1 : i < j <=> up(i) < up(j) BY <1>1, <2>1
  <2>10. \A i \in 1 .. n : i # p => down(i) \in 1 .. n - 1 /\ up(down(i)) = i BY <1>1, <2>1
  <2>11. \A i \in 1 .. n : seq[i] = k => i = p BY <1>1, <2>1 DEF Distinct
  <2>12. \A i \in 1 .. n : i # p => w[down(i)] = seq[i] BY <2>8, <2>10
  <2>13. \A i, j \in 1 .. n : i # p /\ j # p /\ i < j => down(i) < down(j) BY <1>1, <2>1
  <2>14. \A i \in 1 .. n - 1 : w[i] # k BY <2>8, <2>11
  <2>15. Distinct(w)
    <3> SUFFICES ASSUME NEW i \in 1 .. n - 1, NEW j \in 1 .. n - 1, w[i] = w[j] PROVE i = j
      BY <2>3 DEF Distinct
    <3>1. up(i) = up(j) BY <2>8, <1>1 DEF Distinct
    <3> QED BY <3>1, <1>1, <2>1
  <2>16. ASSUME NEW a PROVE Holds(w, a) <=> Holds(seq, a) /\ a # k
    <3>1. ASSUME Holds(w, a) PROVE Holds(seq, a) /\ a # k
      <4>1. PICK i \in 1 .. n - 1 : w[i] = a BY <3>1, <2>3 DEF Holds
      <4> QED BY <4>1, <2>8, <2>14, <1>1 DEF Holds
    <3>2. ASSUME Holds(seq, a), a # k PROVE Holds(w, a)
      <4>1. PICK i \in 1 .. n : seq[i] = a BY <3>2, <1>1 DEF Holds
      <4>2. i # p BY <4>1, <3>2, <2>1
      <4>3. down(i) \in DOMAIN w /\ w[down(i)] = a BY <4>1, <4>2, <2>3, <2>10, <2>12
      <4> HIDE DEF down
      <4> QED BY <4>3 DEF Holds
    <3> QED BY <3>1, <3>2
  <2>17. ASSUME NEW a, NEW b PROVE Before(w, a, b) <=> Before(seq, a, b) /\ a # k /\ b # k
    <3>1. ASSUME Before(w, a, b) PROVE Before(seq, a, b) /\ a # k /\ b # k
      <4>1. PICK i \in 1 .. n - 1, j \in 1 .. n - 1 : i < j /\ w[i] = a /\ w[j] = b
        BY <3>1, <2>3 DEF Before
      <4>2. up(i) \in DOMAIN seq /\ up(j) \in DOMAIN seq /\ up(i) < up(j) /\ seq[up(i)] = a /\ seq[up(j)] = b
        BY <4>1, <2>8, <2>9, <1>1
      <4>3. a # k /\ b # k BY <4>1, <2>14
      <4> HIDE DEF up
      <4> QED BY <4>2, <4>3 DEF Before
    <3>2. ASSUME Before(seq, a, b), a # k, b # k PROVE Before(w, a, b)
      <4>1. PICK i \in 1 .. n, j \in 1 .. n : i < j /\ seq[i] = a /\ seq[j] = b
        BY <3>2, <1>1 DEF Before
      <4>2. i # p /\ j # p BY <4>1, <3>2, <2>1
      <4>3. /\ down(i) \in DOMAIN w /\ down(j) \in DOMAIN w
            /\ down(i) < down(j) /\ w[down(i)] = a /\ w[down(j)] = b
        BY <4>1, <4>2, <2>3, <2>10, <2>12, <2>13
      <4> HIDE DEF down
      <4> QED BY <4>3 DEF Before
    <3> QED BY <3>1, <3>2
  <2>18. ~ Holds(w, k) BY <2>16
  <2>19. Len(w) <= Len(seq) /\ Len(w) = Len(seq) - 1 BY <2>7, <1>1 DEF n
  <2> QED BY <2>7, <2>15, <2>16, <2>17, <2>18, <2>19 DEF w
<1> QED BY <1>2, <1>3

LEMMA AppendIs ==
  ASSUME NEW K, NEW seq \in Seq(K), NEW k \in K, Distinct(seq), ~ Holds(seq, k)
  PROVE  /\ Append(seq, k) \in Seq(K) /\ Len(Append(seq, k)) = Len(seq) + 1
         /\ Distinct(Append(seq, k))
         /\ \A a : Holds(Append(seq, k), a) <=> Holds(seq, a) \/ a = k
         /\ \A a, b : Before(Append(seq, k), a, b) <=> Before(seq, a, b) \/ (Holds(seq, a) /\ b = k)
<1> DEFINE n == Len(seq)
           g == Append(seq, k)
<1>1. /\ n \in Nat /\ DOMAIN seq = 1 .. n /\ g \in Seq(K) /\ Len(g) = n + 1 /\ DOMAIN g = 1 .. n + 1
      /\ g[n + 1] = k /\ \A i \in 1 .. n : g[i] = seq[i]
  OBVIOUS
<1> HIDE DEF n, g
<1>2. \A i : i \in 1 .. n + 1 <=> i \in 1 .. n \/ i = n + 1 BY <1>1
<1>3. \A i \in 1 .. n : seq[i] # k /\ i < n + 1 BY <1>1 DEF Holds
<1>4. Distinct(g) BY <1>1, <1>2, <1>3 DEF Distinct
<1>5. ASSUME NEW a PROVE Holds(g, a) <=> Holds(seq, a) \/ a = k BY <1>1, <1>2 DEF Holds
<1>6. ASSUME NEW a, NEW b PROVE Before(g, a, b) <=> Before(seq, a, b) \/ (Holds(seq, a) /\ b = k)
  <2>1. ASSUME Before(g, a, b) PROVE Before(seq, a, b) \/ (Holds(seq, a) /\ b = k)
    <3>1. PICK i \in 1 .. n + 1, j \in 1 .. n + 1 : i < j /\ g[i] = a /\ g[j] = b BY <2>1, <1>1 DEF Before
    <3>2. i \in 1 .. n BY <3>1, <1>1
    <3>3. CASE j = n + 1 BY <3>1, <3>2, <3>3, <1>1 DEF Holds
    <3>4. CASE j \in 1 .. n BY <3>1, <3>2, <3>4, <1>1 DEF Before
    <3> QED BY <3>3, <3>4, <1>2
  <2>2. ASSUME Before(seq, a, b) PROVE Before(g, a, b)
    <3>1. PICK i \in 1 .. n, j \in 1 .. n : i < j /\ seq[i] = a /\ seq[j] = b BY <2>2, <1>1 DEF Before
    <3> QED BY <3>1, <1>1, <1>2 DEF Before
  <2>3. ASSUME Holds(seq, a), b = k PROVE Before(g, a, b)
    <3>1. PICK i \in 1 .. n : seq[i] = a BY <2>3, <1>1 DEF Holds
    <3>2. i < n + 1 /\ i \in 1 .. n + 1 /\ n + 1 \in 1 .. n + 1 BY <1>1, <1>2, <1>3
    <3> QED BY <3>1, <3>2, <2>3, <1>1 DEF Before
  <2> QED BY <2>1, <2>2, <2>3
<1> QED BY <1>1, <1>4, <1>5, <1>6 DEF n, g

\* A key that is used moves to the end.
LEMMA TouchedIs ==
  ASSUME NEW K, NEW seq \in Seq(K), NEW k \in K, Distinct(seq)
  PROVE  /\ Touched(seq, k) \in Seq(K) /\ Distinct(Touched(seq, k))
         /\ Len(Touched(seq, k)) = IF Holds(seq, k) THEN Len(seq) ELSE Len(seq) + 1
         /\ \A a : Holds(Touched(seq, k), a) <=> Holds(seq, a) \/ a = k
         /\ \A a, b : Before(Touched(seq, k), a, b) <=>
                        \/ Before(seq, a, b) /\ a # k /\ b # k
                        \/ Holds(seq, a) /\ a # k /\ b = k
<1> DEFINE w == Without(seq, k)
<1>1. /\ w \in Seq(K) /\ Len(w) <= Len(seq)
      /\ Holds(seq, k) => Len(w) = Len(seq) - 1
      /\ Distinct(w) /\ ~ Holds(w, k)
      /\ \A a : Holds(w, a) <=> Holds(seq, a) /\ a # k
      /\ \A a, b : Before(w, a, b) <=> Before(seq, a, b) /\ a # k /\ b # k
  BY WithoutIs
<1>2. ~ Holds(seq, k) => w = seq BY DEF Without
<1>3. Touched(seq, k) = Append(w, k) BY DEF Touched
<1> HIDE DEF w
<1>4. /\ Append(w, k) \in Seq(K) /\ Len(Append(w, k)) = Len(w) + 1
      /\ Distinct(Append(w, k))
      /\ \A a : Holds(Append(w, k), a) <=> Holds(w, a) \/ a = k
      /\ \A a, b : Before(Append(w, k), a, b) <=> Before(w, a, b) \/ (Holds(w, a) /\ b = k)
  BY <1>1, AppendIs
<1>5. Len(Touched(seq, k)) = IF Holds(seq, k) THEN Len(seq) ELSE Len(seq) + 1
  <2>1. Len(seq) \in Nat /\ Len(w) \in Nat BY <1>1
  <2> QED BY <2>1, <1>1, <1>2, <1>3, <1>4
<1> QED BY <1>1, <1>3, <1>4, <1>5

\* What is left of a list when its first entries go.
LEMMA SuffixIs ==
  ASSUME NEW K, NEW seq \in Seq(K), Distinct(seq), NEW n \in 0 .. Len(seq)
  PROVE  LET s == SubSeq(seq, n + 1, Len(seq)) IN
         /\ s \in Seq(K) /\ Len(s) = Len(seq) - n /\ Distinct(s)
         /\ \A a : Holds(s, a) => Holds(seq, a)
         /\ \A a, b : Before(s, a, b) => Before(seq, a, b)
         /\ \A a, b : Holds(seq, a) /\ ~ Holds(s, a) /\ Holds(s, b) => Before(seq, a, b)
<1> DEFINE s == SubSeq(seq, n + 1, Len(seq))
           l == Len(seq)
           m == l - n
<1>1. l \in Nat /\ n \in Nat /\ m \in Nat /\ DOMAIN seq = 1 .. l OBVIOUS
<1>2. s \in Seq(K) /\ Len(s) = m OBVIOUS
<1>3. DOMAIN s = 1 .. m BY <1>2
<1>4. \A i \in 1 .. m : s[i] = seq[n + i] /\ n + i \in 1 .. l /\ i + n \in 1 .. l BY <1>1
<1> HIDE DEF s, l
<1>5. ASSUME NEW a, Holds(seq, a), ~ Holds(s, a) PROVE \E i \in 1 .. n : i \in 1 .. l /\ seq[i] = a
  <2>1. PICK i \in 1 .. l : seq[i] = a BY <1>5, <1>1 DEF Holds
  <2>2. CASE i \in 1 .. n BY <2>1, <2>2
  <2>3. CASE i > n
    <3>1. i - n \in 1 .. m /\ n + (i - n) = i BY <2>3, <1>1
    <3>2. s[i - n] = a BY <3>1, <2>1, <1>4
    <3> QED BY <3>1, <3>2, <1>3, <1>5 DEF Holds
  <2> QED BY <2>2, <2>3, <1>1
<1>6. ASSUME NEW a, NEW b, Holds(seq, a), ~ Holds(s, a), Holds(s, b) PROVE Before(seq, a, b)
  <2>1. PICK i \in 1 .. n : i \in 1 .. l /\ seq[i] = a BY <1>5, <1>6
  <2>2. PICK j \in 1 .. m : s[j] = b BY <1>3, <1>6 DEF Holds
  <2>3. i < n + j /\ n + j \in 1 .. l /\ seq[n + j] = b BY <2>2, <1>1, <1>4
  <2> QED BY <2>1, <2>3, <1>1 DEF Before
<1>7. Distinct(s)
  <2> SUFFICES ASSUME NEW i \in 1 .. m, NEW j \in 1 .. m, s[i] = s[j] PROVE i = j BY <1>3 DEF Distinct
  <2>1. n + i = n + j BY <1>1, <1>4 DEF Distinct
  <2> QED BY <2>1, <1>1
<1>8. \A a : Holds(s, a) => Holds(seq, a) BY <1>1, <1>3, <1>4 DEF Holds
<1>9. ASSUME NEW a, NEW b, Before(s, a, b) PROVE Before(seq, a, b)
  <2>1. PICK i \in 1 .. m, j \in 1 .. m : i < j /\ s[i] = a /\ s[j] = b BY <1>3, <1>9 DEF Before
  <2>2. n + i < n + j BY <2>1, <1>1
  <2> QED BY <2>1, <2>2, <1>1, <1>4 DEF Before
<1> QED BY <1>2, <1>6, <1>7, <1>8, <1>9 DEF s, l

-----------------------------------------------------------------------------
Compressing == [at : {"idle", "clustered", "extract", "mark"}, batch : SUBSET Nat, cluster : SUBSET Nat, first : Nat]

\* Patterns are blanks that exist, and a compression that marks has a stored first pattern.
ObservationsInv ==
  /\ observations \in Seq(ObservationRows) /\ entries \in Seq(EntryRows)
  /\ Len(entries) <= MaxEntries
  /\ compressor \in [Compressors -> Compressing]
  /\ \A c \in Compressors : compressor[c].at = "mark" => compressor[c].first \in 1 .. Len(entries)
  /\ \A o \in DOMAIN observations : observations[o].pattern # 0 => observations[o].pattern \in 1 .. Len(entries)

Share(s, t) == (100 * s) \div t

\* The confidence of a heuristic is the share of its successes, in percent.
ConfidenceIsShare(h) ==
  /\ h.success + h.failure = 0 => h.confidence = 50
  /\ h.success + h.failure > 0 => h.confidence = Share(h.success, h.success + h.failure)

HeuristicsInv ==
  heuristics \in Seq(HeuristicRows) /\ \A h \in DOMAIN heuristics : ConfidenceIsShare(heuristics[h])

StrategyInv == strategy \in Strategies /\ strategy.succeeded <= strategy.applied

\* The entries of the working memory are in the order of their last use.
WorkingInv ==
  /\ memory \in Seq(Keys) /\ lastUse \in Seq(Keys) /\ Distinct(memory) /\ Distinct(lastUse)
  /\ Len(memory) <= Capacity
  /\ \A a : Holds(memory, a) => Holds(lastUse, a)
  /\ \A a, b : Before(memory, a, b) => Before(lastUse, a, b)
  /\ update \in [Updates -> [at : {"idle", "create", "update"}, key : Keys \cup {"none"}]]
  /\ \A u \in Updates : update[u].at # "idle" => update[u].key \in Keys

KnowledgeInv == ObservationsInv /\ HeuristicsInv /\ StrategyInv /\ WorkingInv

LEMMA KnowledgeStarts == ASSUME KnowledgeInit PROVE KnowledgeInv
<1> USE DEF KnowledgeInit
<1>1. ObservationsInv BY KnowledgeAssumption DEF ObservationsInv, Compressing, IdleCompressor
<1>2. HeuristicsInv BY DEF HeuristicsInv
<1>3. StrategyInv BY KnowledgeAssumption DEF StrategyInv, Strategies
<1>4. WorkingInv
  <2>1. memory = <<>> /\ lastUse = <<>> /\ DOMAIN memory = {} OBVIOUS
  <2>2. Distinct(memory) /\ Distinct(lastUse) /\ (\A a : ~ Holds(memory, a)) /\ (\A a, b : ~ Before(memory, a, b))
    BY <2>1 DEF Distinct, Holds, Before
  <2>3. update \in [Updates -> [at : {"idle", "create", "update"}, key : Keys \cup {"none"}]] BY DEF IdleUpdate
  <2>4. \A u \in Updates : update[u].at = "idle" BY DEF IdleUpdate
  <2> QED BY <2>1, <2>2, <2>3, <2>4, KnowledgeAssumption DEF WorkingInv
<1> QED BY <1>1, <1>2, <1>3, <1>4 DEF KnowledgeInv

-----------------------------------------------------------------------------
(* The working memory. *)

\* What a use of one key does to both lists.
LEMMA UseKeeps ==
  ASSUME NEW m \in Seq(Keys), NEW l \in Seq(Keys), Distinct(m), Distinct(l), NEW k \in Keys,
         \A a : Holds(m, a) => Holds(l, a), \A a, b : Before(m, a, b) => Before(l, a, b)
  PROVE  /\ Touched(m, k) \in Seq(Keys) /\ Distinct(Touched(m, k))
         /\ Touched(l, k) \in Seq(Keys) /\ Distinct(Touched(l, k))
         /\ \A a : Holds(Touched(m, k), a) => Holds(Touched(l, k), a)
         /\ \A a, b : Before(Touched(m, k), a, b) => Before(Touched(l, k), a, b)
<1>1. /\ Touched(m, k) \in Seq(Keys) /\ Distinct(Touched(m, k))
      /\ \A a : Holds(Touched(m, k), a) <=> Holds(m, a) \/ a = k
      /\ \A a, b : Before(Touched(m, k), a, b) <=>
                     \/ Before(m, a, b) /\ a # k /\ b # k
                     \/ Holds(m, a) /\ a # k /\ b = k
  BY TouchedIs
<1>2. /\ Touched(l, k) \in Seq(Keys) /\ Distinct(Touched(l, k))
      /\ \A a : Holds(Touched(l, k), a) <=> Holds(l, a) \/ a = k
      /\ \A a, b : Before(Touched(l, k), a, b) <=>
                     \/ Before(l, a, b) /\ a # k /\ b # k
                     \/ Holds(l, a) /\ a # k /\ b = k
  BY TouchedIs
<1> QED BY <1>1, <1>2

\* What is left after entries went keeps its order.
LEMMA PartKeeps ==
  ASSUME WorkingInv, memory' \in Seq(Keys), Len(memory') <= Len(memory), Distinct(memory'),
         \A a : Holds(memory', a) => Holds(memory, a), \A a, b : Before(memory', a, b) => Before(memory, a, b),
         UNCHANGED <<lastUse, update>>
  PROVE  WorkingInv'
<1>1. Len(memory') <= Capacity
  <2>1. Len(memory) \in Nat /\ Len(memory') \in Nat BY DEF WorkingInv
  <2> QED BY <2>1, KnowledgeAssumption DEF WorkingInv
<1> QED BY <1>1 DEF WorkingInv

\* A key that is in the memory is used.
LEMMA TouchKeeps ==
  ASSUME WorkingInv, NEW k \in Keys, InMemory(k), memory' = Touched(memory, k), lastUse' = Touched(lastUse, k),
         update' \in [Updates -> [at : {"idle", "create", "update"}, key : Keys \cup {"none"}]],
         \A u \in Updates : update'[u].at # "idle" => update'[u].key \in Keys
  PROVE  WorkingInv'
<1>1. /\ memory' \in Seq(Keys) /\ Distinct(memory') /\ lastUse' \in Seq(Keys) /\ Distinct(lastUse')
      /\ \A a : Holds(memory', a) => Holds(lastUse', a)
      /\ \A a, b : Before(memory', a, b) => Before(lastUse', a, b)
  BY UseKeeps DEF WorkingInv
<1>2. Len(memory') = Len(memory)
  <2>1. Len(Touched(memory, k)) = IF Holds(memory, k) THEN Len(memory) ELSE Len(memory) + 1 BY TouchedIs DEF WorkingInv
  <2> QED BY <2>1 DEF InMemory
<1> QED BY <1>1, <1>2 DEF WorkingInv

LEMMA GetKeeps == ASSUME WorkingInv, NEW k \in Keys, GetWorkingMemory(k) PROVE WorkingInv'
BY TouchKeeps DEF GetWorkingMemory, WorkingInv

LEMMA BeginKeeps == ASSUME WorkingInv, NEW u \in Updates, NEW k \in Keys, BeginUpdate(u, k) PROVE WorkingInv'
<1> DEFINE type == [at : {"idle", "create", "update"}, key : Keys \cup {"none"}]
           new == [at |-> IF InMemory(k) THEN "update" ELSE "create", key |-> k]
<1>1. new \in type /\ new.key = k OBVIOUS
<1>2. update \in [Updates -> type] BY DEF WorkingInv
<1>3. update' = [update EXCEPT ![u] = new] BY DEF BeginUpdate
<1> HIDE DEF new, type
<1>4. update' \in [Updates -> type] BY <1>1, <1>2, <1>3
<1>5. \A v \in Updates : update'[v] = IF v = u THEN new ELSE update[v] BY <1>2, <1>3
<1>6. \A v \in Updates : update'[v].at # "idle" => update'[v].key \in Keys BY <1>1, <1>5 DEF WorkingInv
<1>7. CASE InMemory(k) BY <1>4, <1>6, <1>7, TouchKeeps DEF BeginUpdate, type
<1>8. CASE ~ InMemory(k)
  <2>1. UNCHANGED <<memory, lastUse>> BY <1>8 DEF BeginUpdate
  <2> QED BY <2>1, <1>4, <1>6 DEF WorkingInv, type
<1> QED BY <1>7, <1>8

\* The list in which the new entry is created: there is room, and the order is kept.
LEMMA RoomIsMade ==
  ASSUME WorkingInv, NEW k \in Keys
  PROVE  LET m == MakeRoom(k) IN
         /\ m \in Seq(Keys) /\ Distinct(m) /\ Len(Touched(m, k)) <= Capacity
         /\ \A a : Holds(m, a) => Holds(memory, a)
         /\ \A a, b : Before(m, a, b) => Before(memory, a, b)
         /\ \A a, b : Holds(memory, a) /\ ~ Holds(m, a) /\ Holds(m, b) => Before(memory, a, b)
<1> DEFINE m == MakeRoom(k)
<1>0. Len(memory) \in Nat /\ Len(memory) <= Capacity /\ Capacity \in Nat /\ Capacity >= 1
      /\ memory \in Seq(Keys) /\ Distinct(memory)
  BY KnowledgeAssumption DEF WorkingInv
<1>1. CASE Len(memory) >= Capacity /\ ~ InMemory(k)
  <2>1. m = Tail(memory) BY <1>1 DEF MakeRoom
  <2>2. Tail(memory) = SubSeq(memory, 2, Len(memory)) BY <1>0, <1>1
  <2>3. 1 \in 0 .. Len(memory) /\ 1 + 1 = 2 BY <1>0, <1>1
  <2> DEFINE s == SubSeq(memory, 1 + 1, Len(memory))
  <2>4. /\ s \in Seq(Keys) /\ Len(s) = Len(memory) - 1 /\ Distinct(s)
        /\ \A a : Holds(s, a) => Holds(memory, a)
        /\ \A a, b : Before(s, a, b) => Before(memory, a, b)
        /\ \A a, b : Holds(memory, a) /\ ~ Holds(s, a) /\ Holds(s, b) => Before(memory, a, b)
    BY <2>3, <1>0, SuffixIs
  <2>5. m = s BY <2>1, <2>2, <2>3
  <2> HIDE DEF m, s
  <2>6. Len(Touched(m, k)) <= Len(m) + 1
    <3>1. Len(Touched(m, k)) = IF Holds(m, k) THEN Len(m) ELSE Len(m) + 1 BY <2>4, <2>5, TouchedIs
    <3>2. Len(m) \in Nat BY <2>4, <2>5
    <3> QED BY <3>1, <3>2
  <2>7. Len(Touched(m, k)) <= Capacity
    <3>1. Len(Touched(m, k)) \in Nat /\ Len(m) \in Nat BY <2>4, <2>5, TouchedIs
    <3> QED BY <3>1, <2>4, <2>5, <2>6, <1>0
  <2> QED BY <2>4, <2>5, <2>7 DEF m
<1>2. CASE ~ (Len(memory) >= Capacity /\ ~ InMemory(k))
  <2>1. m = memory BY <1>2 DEF MakeRoom
  <2>2. Len(Touched(memory, k)) = IF Holds(memory, k) THEN Len(memory) ELSE Len(memory) + 1 BY <1>0, TouchedIs
  <2>3. Len(Touched(memory, k)) <= Capacity BY <2>2, <1>0, <1>2 DEF InMemory
  <2> HIDE DEF m
  <2> QED BY <2>1, <2>3, <1>0 DEF m
<1> QED BY <1>1, <1>2

LEMMA CreateKeeps == ASSUME WorkingInv, NEW u \in Updates, CreateWorkingMemory(u) PROVE WorkingInv'
<1> DEFINE k == update[u].key
           m == MakeRoom(k)
<1>1. k \in Keys /\ update[u].at = "create" BY DEF CreateWorkingMemory, WorkingInv
<1>2. /\ m \in Seq(Keys) /\ Distinct(m) /\ Len(Touched(m, k)) <= Capacity
      /\ \A a : Holds(m, a) => Holds(memory, a)
      /\ \A a, b : Before(m, a, b) => Before(memory, a, b)
  BY <1>1, RoomIsMade
<1>3. memory' = Touched(m, k) /\ lastUse' = Touched(lastUse, k) BY DEF CreateWorkingMemory
<1>4. /\ update' \in [Updates -> [at : {"idle", "create", "update"}, key : Keys \cup {"none"}]]
      /\ \A v \in Updates : update'[v].at # "idle" => update'[v].key \in Keys
  BY <1>1 DEF CreateWorkingMemory, WorkingInv
<1> HIDE DEF m, k
<1>5. /\ memory' \in Seq(Keys) /\ Distinct(memory') /\ lastUse' \in Seq(Keys) /\ Distinct(lastUse')
      /\ \A a : Holds(memory', a) => Holds(lastUse', a)
      /\ \A a, b : Before(memory', a, b) => Before(lastUse', a, b)
  BY <1>1, <1>2, <1>3, UseKeeps DEF WorkingInv
<1> QED BY <1>2, <1>3, <1>4, <1>5 DEF WorkingInv

LEMMA UpdateKeeps == ASSUME WorkingInv, NEW u \in Updates, UpdateWorkingMemory(u) PROVE WorkingInv'
<1> DEFINE k == update[u].key
<1>1. k \in Keys BY DEF UpdateWorkingMemory, WorkingInv
<1>2. /\ update' \in [Updates -> [at : {"idle", "create", "update"}, key : Keys \cup {"none"}]]
      /\ \A v \in Updates : update'[v].at # "idle" => update'[v].key \in Keys
  BY DEF UpdateWorkingMemory, WorkingInv, IdleUpdate
<1>3. CASE InMemory(k) BY <1>1, <1>2, <1>3, TouchKeeps DEF UpdateWorkingMemory
<1>4. CASE ~ InMemory(k)
  <2>1. UNCHANGED <<memory, lastUse>> BY <1>4 DEF UpdateWorkingMemory
  <2> QED BY <2>1, <1>2 DEF WorkingInv
<1> QED BY <1>3, <1>4

LEMMA DeleteKeeps == ASSUME WorkingInv, NEW k \in Keys, DeleteWorkingMemory(k) PROVE WorkingInv'
<1>1. /\ Without(memory, k) \in Seq(Keys) /\ Len(Without(memory, k)) <= Len(memory)
      /\ Distinct(Without(memory, k))
      /\ \A a : Holds(Without(memory, k), a) <=> Holds(memory, a) /\ a # k
      /\ \A a, b : Before(Without(memory, k), a, b) <=> Before(memory, a, b) /\ a # k /\ b # k
  BY WithoutIs DEF WorkingInv
<1>2. memory' = Without(memory, k) /\ UNCHANGED <<lastUse, update>> BY DEF DeleteWorkingMemory
<1> QED BY <1>1, <1>2, PartKeeps

LEMMA ExpireKeeps == ASSUME WorkingInv, NEW n \in 1 .. Len(memory), EvictExpired(n) PROVE WorkingInv'
<1> DEFINE s == SubSeq(memory, n + 1, Len(memory))
<1>1. n \in 0 .. Len(memory) /\ Len(memory) \in Nat /\ memory \in Seq(Keys) /\ Distinct(memory) BY DEF WorkingInv
<1>2. /\ s \in Seq(Keys) /\ Len(s) = Len(memory) - n /\ Distinct(s)
      /\ \A a : Holds(s, a) => Holds(memory, a)
      /\ \A a, b : Before(s, a, b) => Before(memory, a, b)
  BY <1>1, SuffixIs
<1>3. memory' = s /\ UNCHANGED <<lastUse, update>> BY DEF EvictExpired
<1> HIDE DEF s
<1>4. Len(s) <= Len(memory) BY <1>1, <1>2
<1> QED BY <1>2, <1>3, <1>4, PartKeeps


LEMMA WorkingKept == ASSUME WorkingInv, UNCHANGED workingVars PROVE WorkingInv'
BY DEF WorkingInv, workingVars

LEMMA WorkingKeeps == ASSUME WorkingInv, WorkingNext PROVE WorkingInv'
<1>1. ASSUME NEW k \in Keys, GetWorkingMemory(k) PROVE WorkingInv' BY <1>1, GetKeeps
<1>2. ASSUME NEW k \in Keys, DeleteWorkingMemory(k) PROVE WorkingInv' BY <1>2, DeleteKeeps
<1>3. ASSUME NEW u \in Updates, NEW k \in Keys, BeginUpdate(u, k) PROVE WorkingInv' BY <1>3, BeginKeeps
<1>4. ASSUME NEW u \in Updates, CreateWorkingMemory(u) PROVE WorkingInv' BY <1>4, CreateKeeps
<1>5. ASSUME NEW u \in Updates, UpdateWorkingMemory(u) PROVE WorkingInv' BY <1>5, UpdateKeeps
<1>6. ASSUME NEW n \in 1 .. Len(memory), EvictExpired(n) PROVE WorkingInv' BY <1>6, ExpireKeeps
<1> QED BY <1>1, <1>2, <1>3, <1>4, <1>5, <1>6 DEF WorkingNext

\* Positions in a list without repetitions.
LEMMA BeforeIsEarlier ==
  ASSUME NEW seq \in Seq(Keys), Distinct(seq), NEW a, NEW b, Before(seq, a, b)
  PROVE  PositionOf(seq, a) < PositionOf(seq, b)
<1>1. PICK i \in DOMAIN seq, j \in DOMAIN seq : i < j /\ seq[i] = a /\ seq[j] = b BY DEF Before
<1>2. PositionOf(seq, a) \in DOMAIN seq /\ seq[PositionOf(seq, a)] = a BY <1>1 DEF PositionOf
<1>3. PositionOf(seq, b) \in DOMAIN seq /\ seq[PositionOf(seq, b)] = b BY <1>1 DEF PositionOf
<1>4. PositionOf(seq, a) = i BY <1>1, <1>2 DEF Distinct
<1>5. PositionOf(seq, b) = j BY <1>1, <1>3 DEF Distinct
<1> QED BY <1>1, <1>4, <1>5

\* Room is only made by a create, and the key that goes was used before those that stay.
LEMMA CreateEvictsOldest ==
  ASSUME WorkingInv, NEW u \in Updates, CreateWorkingMemory(u),
         NEW k \in Keys, NEW l \in Keys, InMemory(k), ~ Holds(memory', k), Holds(memory', l), InMemory(l)
  PROVE  PositionOf(lastUse, k) < PositionOf(lastUse, l)
<1> DEFINE n == update[u].key
           m == MakeRoom(n)
<1>1. n \in Keys BY DEF CreateWorkingMemory, WorkingInv
<1>2. /\ m \in Seq(Keys) /\ Distinct(m)
      /\ \A a, b : Holds(memory, a) /\ ~ Holds(m, a) /\ Holds(m, b) => Before(memory, a, b)
  BY <1>1, RoomIsMade
<1>4. memory' = Touched(m, n) BY DEF CreateWorkingMemory
<1> HIDE DEF m, n
<1>3. \A a : Holds(Touched(m, n), a) <=> Holds(m, a) \/ a = n BY <1>1, <1>2, TouchedIs
<1>5. ~ Holds(m, k) /\ k # n BY <1>3, <1>4
<1>6. Holds(m, l)
  <2>1. CASE InMemory(n)
    <3>1. m = memory BY <2>1 DEF MakeRoom, m
    <3> QED BY <3>1, <1>5 DEF InMemory
  <2>2. CASE ~ InMemory(n)
    <3>1. l # n BY <2>2
    <3> QED BY <3>1, <1>3, <1>4
  <2> QED BY <2>1, <2>2
<1>7. Before(memory, k, l) BY <1>2, <1>5, <1>6 DEF InMemory
<1>8. Before(lastUse, k, l) BY <1>7 DEF WorkingInv
<1> QED BY <1>8, BeforeIsEarlier DEF WorkingInv

LEMMA WorkingEvictsOldest == ASSUME WorkingInv, [WorkingNext]_workingVars PROVE EvictionStep
<1> SUFFICES ASSUME NEW v \in Updates, update[v].at = "create", update'[v].at = "update",
                    NEW k \in Keys, NEW l \in Keys, InMemory(k), ~ Holds(memory', k), Holds(memory', l), InMemory(l)
             PROVE  PositionOf(lastUse, k) < PositionOf(lastUse, l)
  BY DEF EvictionStep
<1>0. update' # update OBVIOUS
<1>1. ASSUME NEW a \in Keys, GetWorkingMemory(a) PROVE FALSE BY <1>0, <1>1 DEF GetWorkingMemory
<1>2. ASSUME NEW a \in Keys, DeleteWorkingMemory(a) PROVE FALSE BY <1>0, <1>2 DEF DeleteWorkingMemory
<1>3. ASSUME NEW u \in Updates, NEW a \in Keys, BeginUpdate(u, a) PROVE FALSE
  <2>1. u # v BY <1>3 DEF BeginUpdate
  <2>2. update'[v] = update[v] BY <2>1, <1>3 DEF BeginUpdate, WorkingInv
  <2> QED BY <2>2
<1>4. ASSUME NEW u \in Updates, UpdateWorkingMemory(u) PROVE FALSE
  <2>1. u # v BY <1>4 DEF UpdateWorkingMemory
  <2>2. update'[v] = update[v] BY <2>1, <1>4 DEF UpdateWorkingMemory, WorkingInv
  <2> QED BY <2>2
<1>5. ASSUME NEW n \in 1 .. Len(memory), EvictExpired(n) PROVE FALSE BY <1>0, <1>5 DEF EvictExpired
<1>6. PICK u \in Updates : CreateWorkingMemory(u)
  BY <1>0, <1>1, <1>2, <1>3, <1>4, <1>5 DEF WorkingNext, workingVars
<1> QED BY <1>6, CreateEvictsOldest

-----------------------------------------------------------------------------
(* Observations and patterns. *)

LEMMA ObservationsKept == ASSUME ObservationsInv, UNCHANGED <<observations, entries, compressor>> PROVE ObservationsInv'
BY DEF ObservationsInv

LEMMA StoreObservationKeeps ==
  ASSUME ObservationsInv, NEW embedding \in Topics \cup {0}, StoreObservation(embedding) PROVE ObservationsInv'
<1> DEFINE blank == [embedding |-> embedding, pattern |-> 0]
           n == Len(observations)
<1>1. blank \in ObservationRows /\ blank.pattern = 0 BY KnowledgeAssumption DEF ObservationRows
<1>2. observations' = Append(observations, blank) /\ UNCHANGED <<entries, compressor>> BY DEF StoreObservation
<1>3. observations \in Seq(ObservationRows) /\ n \in Nat /\ DOMAIN observations = 1 .. n BY DEF ObservationsInv
<1> HIDE DEF blank
<1>4. /\ observations' \in Seq(ObservationRows) /\ DOMAIN observations' = 1 .. n + 1
      /\ \A o \in 1 .. n : observations'[o] = observations[o] /\ observations'[n + 1] = blank
  BY <1>1, <1>2, <1>3
<1>5. \A o \in DOMAIN observations' : observations'[o].pattern # 0 => o \in 1 .. n
  <2> HIDE DEF n
  <2>1. observations'[n + 1] = blank BY <1>1, <1>2, <1>3 DEF n
  <2> QED BY <2>1, <1>1, <1>3, <1>4
<1> QED BY <1>2, <1>3, <1>4, <1>5 DEF ObservationsInv

\* Rows that are added or changed leave the others where they were.
LEMMA EntriesGrow ==
  ASSUME ObservationsInv, entries' \in Seq(EntryRows), Len(entries') <= MaxEntries, Len(entries') >= Len(entries),
         compressor' \in [Compressors -> Compressing],
         \A c \in Compressors : compressor'[c].at = "mark" => compressor'[c].first \in 1 .. Len(entries'),
         UNCHANGED observations
  PROVE  ObservationsInv'
<1>1. Len(entries) \in Nat /\ Len(entries') \in Nat BY DEF ObservationsInv
<1>2. \A i \in 1 .. Len(entries) : i \in 1 .. Len(entries') BY <1>1
<1> QED BY <1>2 DEF ObservationsInv

LEMMA IdleIs == IdleCompressor \in Compressing /\ IdleCompressor.at = "idle"
BY DEF IdleCompressor, Compressing

LEMMA CompressKeeps == ASSUME ObservationsInv, NEW c \in Compressors, CompressObservations(c) PROVE ObservationsInv'
<1> DEFINE new == [IdleCompressor EXCEPT !.at = "clustered", !.batch = FetchedObservations]
<1>1. compressor \in [Compressors -> Compressing] BY DEF ObservationsInv
<1>2. FetchedObservations \in SUBSET Nat
  <2>1. DOMAIN observations \in SUBSET Nat BY DEF ObservationsInv
  <2> QED BY <2>1 DEF FetchedObservations, Uncompressed
<1> DEFINE batch == FetchedObservations
<1> HIDE DEF batch
<1>3. new = [IdleCompressor EXCEPT !.at = "clustered", !.batch = batch] BY DEF batch
<1>4. new \in Compressing /\ new.at = "clustered"
  <2> HIDE DEF new
  <2> QED BY <1>2, <1>3, IdleIs DEF Compressing, batch
<1>5. compressor' = [compressor EXCEPT ![c] = new] /\ UNCHANGED <<observations, entries>> BY DEF CompressObservations
<1> HIDE DEF new
<1>6. compressor' \in [Compressors -> Compressing] /\ \A d \in Compressors : compressor'[d] = IF d = c THEN new ELSE compressor[d]
  BY <1>1, <1>4, <1>5
<1> QED BY <1>4, <1>5, <1>6 DEF ObservationsInv

LEMMA ClusterKeeps == ASSUME ObservationsInv, NEW c \in Compressors, NextCluster(c) PROVE ObservationsInv'
<1>1. compressor \in [Compressors -> Compressing] BY DEF ObservationsInv
<1>2. UNCHANGED <<observations, entries>> BY DEF NextCluster
<1>3. ASSUME NEW new \in Compressing, new.at # "mark", compressor' = [compressor EXCEPT ![c] = new]
      PROVE  ObservationsInv'
  <2>1. compressor' \in [Compressors -> Compressing] /\ \A d \in Compressors : compressor'[d] = IF d = c THEN new ELSE compressor[d]
    BY <1>1, <1>3
  <2> QED BY <2>1, <1>2, <1>3 DEF ObservationsInv
<1>4. CASE compressor' = [compressor EXCEPT ![c] = IdleCompressor]
  <2>1. IdleCompressor \in Compressing /\ IdleCompressor.at # "mark" BY IdleIs
  <2> QED BY <2>1, <1>3, <1>4
<1>5. ASSUME NEW k \in ClustersOf(compressor[c].batch),
             compressor' = [compressor EXCEPT ![c] = [@ EXCEPT !.at = "extract", !.cluster = k, !.batch = compressor[c].batch \ k]]
      PROVE  ObservationsInv'
  <2> DEFINE old == compressor[c]
             new == [old EXCEPT !.at = "extract", !.cluster = k, !.batch = old.batch \ k]
  <2>1. old \in Compressing BY <1>1
  <2>2. k \in SUBSET Nat BY <2>1 DEF ClustersOf, Compressing
  <2>3. compressor' = [compressor EXCEPT ![c] = new] BY <1>5, <1>1
  <2> HIDE DEF old
  <2>4. new \in Compressing BY <2>1, <2>2 DEF Compressing
  <2>5. new.at = "extract" BY <2>1 DEF Compressing
  <2> HIDE DEF new
  <2> QED BY <2>3, <2>4, <2>5, <1>3
<1> QED BY <1>4, <1>5 DEF NextCluster

LEMMA StorePatternsKeeps ==
  ASSUME ObservationsInv, NEW c \in Compressors, NEW parsed \in ParsedObjects, StorePatterns(c, parsed)
  PROVE  ObservationsInv'
<1> DEFINE n == PatternsOf(parsed)
           l == Len(entries)
<1>1. n \in Nat /\ n >= 1 BY DEF ParsedObjects, PatternsOf
<1>2. l \in Nat /\ entries \in Seq(EntryRows) /\ compressor \in [Compressors -> Compressing] BY DEF ObservationsInv
<1>3. l + n <= MaxEntries /\ UNCHANGED observations BY DEF StorePatterns
<1>4. PICK stored \in 0 .. n :
          /\ entries' = entries \o [i \in 1 .. stored |-> [active |-> TRUE, usage |-> 0]]
          /\ compressor' = [compressor EXCEPT ![c] =
                IF stored < n THEN IdleCompressor
                ELSE [@ EXCEPT !.at = "mark", !.first = IF n = 0 THEN MaxEntries + 1 ELSE Len(entries) + 1]]
  BY DEF StorePatterns
<1> DEFINE blank == [active |-> TRUE, usage |-> 0]
           blanks == [i \in 1 .. stored |-> blank]
           old == compressor[c]
           new == IF stored < n THEN IdleCompressor ELSE [old EXCEPT !.at = "mark", !.first = l + 1]
<1>5. blank \in EntryRows BY DEF EntryRows
<1>6. stored \in Nat /\ stored <= n BY <1>1
<1> HIDE DEF blank
<1>7. blanks \in Seq(EntryRows) /\ Len(blanks) = stored BY <1>5, <1>6
<1>8. entries' = entries \o blanks BY <1>4 DEF blank
<1> HIDE DEF blanks
<1>9. entries' \in Seq(EntryRows) /\ Len(entries') = l + stored BY <1>2, <1>7, <1>8, ConcatProperties
<1>10. l + stored <= MaxEntries /\ l + stored >= l BY <1>1, <1>2, <1>3, <1>6, KnowledgeAssumption
<1>11. old \in Compressing BY <1>2
<1>12. compressor' = [compressor EXCEPT ![c] = new]
  <2>1. ~ (n = 0) BY <1>1
  <2>2. CASE stored < n BY <2>2, <1>4
  <2>3. CASE ~ (stored < n)
    <3> DEFINE f == IF n = 0 THEN MaxEntries + 1 ELSE l + 1
    <3>1. f = l + 1 BY <2>1
    <3>2. compressor' = [compressor EXCEPT ![c] = [old EXCEPT !.at = "mark", !.first = f]] BY <2>3, <1>4
    <3> HIDE DEF f
    <3>3. compressor' = [compressor EXCEPT ![c] = [old EXCEPT !.at = "mark", !.first = l + 1]] BY <3>1, <3>2
    <3> QED BY <2>3, <3>3
  <2> QED BY <2>2, <2>3
<1> HIDE DEF old, n, l
<1>13. new \in Compressing /\ (new.at = "mark" => new.first = l + 1 /\ stored = n)
  <2>1. CASE stored < n BY <2>1 DEF IdleCompressor, Compressing
  <2>2. CASE ~ (stored < n)
    <3> DEFINE f == l + 1
    <3>1. f \in Nat BY <1>2
    <3> HIDE DEF f
    <3>2. new = [old EXCEPT !.at = "mark", !.first = f] BY <2>2 DEF f
    <3> HIDE DEF new
    <3>3. new \in Compressing /\ new.first = f BY <3>1, <3>2, <1>11 DEF Compressing
    <3>4. stored = n BY <2>2, <1>1, <1>6
    <3> QED BY <3>3, <3>4 DEF f
  <2> QED BY <2>1, <2>2
<1> HIDE DEF new
<1>14. compressor' \in [Compressors -> Compressing] /\ \A d \in Compressors : compressor'[d] = IF d = c THEN new ELSE compressor[d]
  BY <1>2, <1>12, <1>13
<1>15. \A d \in Compressors : compressor'[d].at = "mark" => compressor'[d].first \in 1 .. Len(entries')
  <2> SUFFICES ASSUME NEW d \in Compressors, compressor'[d].at = "mark" PROVE compressor'[d].first \in 1 .. Len(entries')
    OBVIOUS
  <2>1. CASE d = c
    <3>1. compressor'[d].first = l + 1 /\ stored = n BY <2>1, <1>13, <1>14
    <3> QED BY <3>1, <1>1, <1>2, <1>9
  <2>2. CASE d # c
    <3>1. compressor'[d].first \in 1 .. l BY <2>2, <1>14 DEF ObservationsInv, l
    <3> QED BY <3>1, <1>2, <1>6, <1>9
  <2> QED BY <2>1, <2>2
<1> QED BY <1>3, <1>9, <1>10, <1>14, <1>15, EntriesGrow DEF l

LEMMA MarkKeeps == ASSUME ObservationsInv, NEW c \in Compressors, MarkObservationsCompressed(c) PROVE ObservationsInv'
<1> DEFINE k == compressor[c]
           n == Len(observations)
<1>1. /\ compressor \in [Compressors -> Compressing] /\ k \in Compressing /\ k.at = "mark"
      /\ k.first \in 1 .. Len(entries) /\ UNCHANGED entries
  BY DEF ObservationsInv, MarkObservationsCompressed
<1>2. observations \in Seq(ObservationRows) /\ n \in Nat /\ DOMAIN observations = 1 .. n BY DEF ObservationsInv
<1>3. ASSUME NEW new \in Compressing, new.at # "mark", compressor' = [compressor EXCEPT ![c] = new],
             observations' \in Seq(ObservationRows),
             \A o \in DOMAIN observations' : observations'[o].pattern # 0 => observations'[o].pattern \in 1 .. Len(entries)
      PROVE  ObservationsInv'
  <2>1. compressor' \in [Compressors -> Compressing] /\ \A d \in Compressors : compressor'[d] = IF d = c THEN new ELSE compressor[d]
    BY <1>1, <1>3
  <2> QED BY <2>1, <1>1, <1>3 DEF ObservationsInv
<1>4. CASE compressor' = [compressor EXCEPT ![c] = IdleCompressor] /\ UNCHANGED observations
  <2>1. IdleCompressor \in Compressing /\ IdleCompressor.at # "mark" BY IdleIs
  <2> QED BY <2>1, <1>3, <1>4 DEF ObservationsInv
<1>5. CASE /\ observations' = [o \in DOMAIN observations |->
                 IF o \in k.cluster THEN [observations[o] EXCEPT !.pattern = k.first] ELSE observations[o]]
           /\ compressor' = [compressor EXCEPT ![c] = [k EXCEPT !.at = "clustered", !.cluster = {}, !.first = 0]]
  <2> DEFINE new == [k EXCEPT !.at = "clustered", !.cluster = {}, !.first = 0]
             marked(o) == IF o \in k.cluster THEN [observations[o] EXCEPT !.pattern = k.first] ELSE observations[o]
  <2>2. new \in Compressing /\ new.at # "mark"
    <3> HIDE DEF k
    <3> QED BY <1>1 DEF Compressing
  <2>3. k.first \in 0 .. MaxEntries /\ k.first # 0
    <3>1. Len(entries) \in Nat /\ Len(entries) <= MaxEntries BY DEF ObservationsInv
    <3> QED BY <3>1, <1>1, KnowledgeAssumption
  <2>4. ASSUME NEW o \in 1 .. n
        PROVE  /\ marked(o) \in ObservationRows
               /\ marked(o).pattern # 0 => marked(o).pattern \in 1 .. Len(entries)
    <3>1. observations[o] \in ObservationRows BY <1>2
    <3>2. CASE o \in k.cluster
      <4> DEFINE r == observations[o]
                 f == k.first
      <4> HIDE DEF r, f
      <4>1. marked(o) = [r EXCEPT !.pattern = f] BY <3>2 DEF r, f
      <4>2. marked(o) = [embedding |-> r.embedding, pattern |-> f] BY <4>1, <3>1 DEF r, ObservationRows
      <4>3. f \in 0 .. MaxEntries /\ r \in ObservationRows BY <2>3, <3>1 DEF f, r
      <4>4. marked(o) \in ObservationRows BY <4>2, <4>3 DEF ObservationRows
      <4>5. marked(o).pattern = f BY <4>2
      <4> QED BY <4>4, <4>5, <1>1 DEF f
    <3>3. CASE o \notin k.cluster BY <3>1, <3>3, <1>2 DEF ObservationsInv
    <3> QED BY <3>2, <3>3
  <2>5. observations' = [o \in 1 .. n |-> marked(o)] BY <1>2, <1>5
  <2>6. compressor' = [compressor EXCEPT ![c] = new] BY <1>5
  <2> HIDE DEF new, marked, n
  <2>7. observations' \in Seq(ObservationRows) /\ DOMAIN observations' = 1 .. n BY <1>2, <2>4, <2>5
  <2>8. \A o \in DOMAIN observations' : observations'[o].pattern # 0 => observations'[o].pattern \in 1 .. Len(entries)
    BY <2>4, <2>5, <2>7
  <2> QED BY <2>2, <2>6, <2>7, <2>8, <1>3
<1> QED BY <1>4, <1>5 DEF MarkObservationsCompressed

LEMMA CreateKnowledgeKeeps == ASSUME ObservationsInv, CreateKnowledge PROVE ObservationsInv'
<1> DEFINE blank == [active |-> TRUE, usage |-> 0]
           l == Len(entries)
<1>1. blank \in EntryRows BY DEF EntryRows
<1>2. /\ entries' = Append(entries, blank) /\ entries \in Seq(EntryRows) /\ l \in Nat /\ l < MaxEntries
      /\ UNCHANGED <<observations, compressor>>
  BY DEF CreateKnowledge, ObservationsInv
<1> HIDE DEF blank
<1>3. entries' \in Seq(EntryRows) /\ Len(entries') = l + 1 BY <1>1, <1>2
<1>4. l + 1 <= MaxEntries /\ l + 1 >= l BY <1>2, KnowledgeAssumption
<1>5. \A i \in 1 .. l : i \in 1 .. l + 1 BY <1>2
<1> QED BY <1>2, <1>3, <1>4, <1>5, EntriesGrow DEF ObservationsInv

LEMMA FeedbackKeeps ==
  ASSUME ObservationsInv, NEW e \in DOMAIN entries, NEW useful \in BOOLEAN, KnowledgeFeedback(e, useful)
  PROVE  ObservationsInv'
<1> DEFINE old == entries[e]
           new == IF useful THEN [old EXCEPT !.usage = 1] ELSE [old EXCEPT !.active = FALSE]
<1>1. entries \in Seq(EntryRows) /\ old \in EntryRows BY DEF ObservationsInv
<1>2. entries' = [entries EXCEPT ![e] = new] /\ UNCHANGED <<observations, compressor>> BY <1>1 DEF KnowledgeFeedback
<1> HIDE DEF old
<1>3. new \in EntryRows
  <2>1. CASE useful BY <2>1, <1>1 DEF EntryRows
  <2>2. CASE ~ useful BY <2>2, <1>1 DEF EntryRows
  <2> QED BY <2>1, <2>2
<1> HIDE DEF new
<1>4. entries' \in Seq(EntryRows) /\ Len(entries') = Len(entries) BY <1>1, <1>2, <1>3
<1> QED BY <1>2, <1>4 DEF ObservationsInv

-----------------------------------------------------------------------------
(* Heuristics and strategies. *)

Percent(x) == x \in Nat /\ x <= 100

LEMMA ShareIs ==
  ASSUME NEW s \in Nat, NEW t \in Nat, t > 0, s <= t
  PROVE  Percent(Share(s, t)) /\ (Share(s, t) < 50 <=> 2 * s < t)
<1> DEFINE q == Share(s, t)
<1>1. q \in Int /\ q * t <= 100 * s /\ 100 * s < (q + 1) * t BY SMT DEF Share
<1> HIDE DEF q
<1>2. ASSUME NEW a \in Int, NEW b \in Int, a <= b PROVE a * t <= b * t BY SMT, <1>2
<1>3. q >= 0
  <2> SUFFICES ASSUME q <= -1 PROVE FALSE BY SMT, <1>1
  <2>1. (q + 1) * t <= 0 * t BY SMT, <1>1, <1>2
  <2> QED BY SMT, <2>1, <1>1
<1>4. q <= 100
  <2> SUFFICES ASSUME q >= 101 PROVE FALSE BY SMT, <1>1
  <2>1. 101 * t <= q * t BY SMT, <1>1, <1>2
  <2> QED BY SMT, <2>1, <1>1
<1>5. ASSUME q < 50 PROVE 2 * s < t
  <2>1. (q + 1) * t <= 50 * t BY SMT, <1>1, <1>2, <1>5
  <2> QED BY SMT, <2>1, <1>1
<1>6. ASSUME q >= 50 PROVE ~ (2 * s < t)
  <2>1. 50 * t <= q * t BY SMT, <1>1, <1>2, <1>6
  <2> QED BY SMT, <2>1, <1>1
<1> QED BY SMT, <1>1, <1>3, <1>4, <1>5, <1>6 DEF q, Percent

Significant(e, n) == 10000 * e * e > 38416 * n

LEMMA FartherIsSignificant ==
  ASSUME NEW n \in Nat, NEW a \in Int, NEW b \in Int, Significant(a, n), (0 <= a /\ a <= b) \/ (b <= a /\ a <= 0)
  PROVE  Significant(b, n)
<1>1. a * a <= b * b
  <2>1. ASSUME NEW x \in Int, NEW y \in Int, NEW z \in Int, x <= y, z >= 0 PROVE x * z <= y * z BY SMT, <2>1
  <2>2. CASE 0 <= a /\ a <= b
    <3>1. a * a <= b * a BY SMT, <2>1, <2>2
    <3>2. a * b <= b * b BY SMT, <2>1, <2>2
    <3> QED BY SMT, <3>1, <3>2
  <2>3. CASE b <= a /\ a <= 0
    <3>1. (- a) * (- a) <= (- b) * (- a) BY SMT, <2>1, <2>3
    <3>2. (- a) * (- b) <= (- b) * (- b) BY SMT, <2>1, <2>3
    <3> QED BY SMT, <3>1, <3>2
  <2> QED BY <2>2, <2>3
<1>2. a * a \in Int /\ b * b \in Int /\ 10000 * a * a = 10000 * (a * a) /\ 10000 * b * b = 10000 * (b * b) BY SMT
<1> QED BY SMT, <1>1, <1>2 DEF Significant

LEMMA VerdictIs ==
  ASSUME NEW n \in Nat, NEW k \in Int
  PROVE  LET e == 2 * k - n
             v == EvaluateStrategy(n, k)
         IN
         /\ v = "validated" <=> n >= MinSamples /\ Significant(e, n) /\ e > 0
         /\ v = "rejected" <=> n >= MinSamples /\ Significant(e, n) /\ e < 0
         /\ v \in {"insufficient_data", "validated", "rejected", "inconclusive"}
<1> DEFINE e == 2 * k - n
           v == EvaluateStrategy(n, k)
<1>1. v = CASE n < MinSamples -> "insufficient_data"
            [] n >= MinSamples /\ Significant(e, n) /\ e > 0 -> "validated"
            [] n >= MinSamples /\ Significant(e, n) /\ e < 0 -> "rejected"
            [] OTHER -> "inconclusive"
  BY DEF EvaluateStrategy, Significant
<1>2. e \in Int /\ MinSamples \in Nat BY KnowledgeAssumption
<1>3. ~ (n < MinSamples /\ n >= MinSamples) /\ ~ (e > 0 /\ e < 0) BY <1>2
<1> HIDE DEF e, v
<1>4. CASE n < MinSamples BY <1>1, <1>3, <1>4 DEF e, v
<1>5. CASE n >= MinSamples /\ Significant(e, n) /\ e > 0 BY <1>1, <1>3, <1>5 DEF e, v
<1>6. CASE n >= MinSamples /\ Significant(e, n) /\ e < 0 BY <1>1, <1>3, <1>6 DEF e, v
<1>7. CASE ~ (n < MinSamples) /\ ~ (n >= MinSamples /\ Significant(e, n) /\ e > 0) /\ ~ (n >= MinSamples /\ Significant(e, n) /\ e < 0)
  BY <1>1, <1>3, <1>7 DEF e, v
<1> QED BY <1>4, <1>5, <1>6, <1>7

LEMMA MoreSuccessesAreNoWorse ==
  ASSUME NEW n \in Nat, NEW k \in 0 .. n
  PROVE  /\ k > 0 => VerdictRank(EvaluateStrategy(n, k - 1)) <= VerdictRank(EvaluateStrategy(n, k))
         /\ EvaluateStrategy(n, k) = "validated" => 2 * k > n
<1> DEFINE v == EvaluateStrategy(n, k)
           w == EvaluateStrategy(n, k - 1)
           e == 2 * k - n
           d == 2 * (k - 1) - n
<1>1. k \in Int /\ k - 1 \in Int /\ e \in Int /\ d \in Int /\ d <= e OBVIOUS
<1>2. /\ v = "validated" <=> n >= MinSamples /\ Significant(e, n) /\ e > 0
      /\ v = "rejected" <=> n >= MinSamples /\ Significant(e, n) /\ e < 0
  BY <1>1, VerdictIs
<1>3. /\ w = "validated" <=> n >= MinSamples /\ Significant(d, n) /\ d > 0
      /\ w = "rejected" <=> n >= MinSamples /\ Significant(d, n) /\ d < 0
  BY <1>1, VerdictIs
<1>4. v = "validated" => 2 * k > n BY <1>2
<1> HIDE DEF v, w, e, d
<1>5. w = "validated" => v = "validated"
  <2> SUFFICES ASSUME w = "validated" PROVE v = "validated" OBVIOUS
  <2>1. n >= MinSamples /\ Significant(d, n) /\ d > 0 BY <1>3
  <2>2. 0 <= d /\ e > 0 BY <2>1, <1>1
  <2>3. Significant(e, n) BY <2>1, <2>2, <1>1, FartherIsSignificant
  <2> QED BY <2>1, <2>2, <2>3, <1>2
<1>6. v = "rejected" => w = "rejected"
  <2> SUFFICES ASSUME v = "rejected" PROVE w = "rejected" OBVIOUS
  <2>1. n >= MinSamples /\ Significant(e, n) /\ e < 0 BY <1>2
  <2>2. e <= 0 /\ d < 0 BY <2>1, <1>1
  <2>3. Significant(d, n) BY <2>1, <2>2, <1>1, FartherIsSignificant
  <2> QED BY <2>1, <2>2, <2>3, <1>3
<1>7. VerdictRank(w) <= VerdictRank(v) BY <1>5, <1>6 DEF VerdictRank
<1> QED BY <1>4, <1>7 DEF v, w

LEMMA PromoteKeeps ==
  ASSUME HeuristicsInv, NEW rules \in SynthesizedRules, PromotePatternsToHeuristics(rules) PROVE HeuristicsInv'
<1> DEFINE blank == [success |-> 0, failure |-> 0, confidence |-> 50]
           blanks == [i \in 1 .. rules |-> blank]
           n == Len(heuristics)
<1>1. blank \in HeuristicRows /\ blank.success + blank.failure = 0 /\ blank.confidence = 50
  BY KnowledgeAssumption DEF HeuristicRows
<1>2. rules \in Nat /\ heuristics \in Seq(HeuristicRows) /\ n \in Nat /\ DOMAIN heuristics = 1 .. n
  BY DEF SynthesizedRules, HeuristicsInv
<1>3. heuristics' = heuristics \o blanks BY DEF PromotePatternsToHeuristics
<1> HIDE DEF blank
<1>4. blanks \in Seq(HeuristicRows) /\ Len(blanks) = rules /\ \A i \in 1 .. rules : blanks[i] = blank BY <1>1, <1>2
<1> HIDE DEF blanks, n
<1>5. /\ heuristics' \in Seq(HeuristicRows) /\ DOMAIN heuristics' = 1 .. n + rules
      /\ \A h \in 1 .. n + rules : heuristics'[h] = IF h <= n THEN heuristics[h] ELSE blanks[h - n]
  BY <1>2, <1>3, <1>4, ConcatProperties DEF n
<1>6. ASSUME NEW h \in 1 .. n + rules
      PROVE  (h \in 1 .. n /\ heuristics'[h] = heuristics[h]) \/ heuristics'[h] = blank
  <2>1. CASE h <= n BY <2>1, <1>2, <1>5
  <2>2. CASE ~ (h <= n)
    <3>1. h - n \in 1 .. rules BY <2>2, <1>2
    <3> QED BY <2>2, <3>1, <1>4, <1>5
  <2> QED BY <2>1, <2>2
<1>7. ASSUME NEW h \in DOMAIN heuristics' PROVE ConfidenceIsShare(heuristics'[h])
  <2>1. CASE h \in 1 .. n /\ heuristics'[h] = heuristics[h] BY <2>1, <1>2 DEF HeuristicsInv
  <2>2. CASE heuristics'[h] = blank BY <2>2, <1>1 DEF ConfidenceIsShare
  <2> QED BY <2>1, <2>2, <1>5, <1>6
<1> QED BY <1>5, <1>7 DEF HeuristicsInv

LEMMA EvolveKeeps ==
  ASSUME HeuristicsInv, NEW h \in DOMAIN heuristics, NEW success \in BOOLEAN, EvolveHeuristic(h, success)
  PROVE  HeuristicsInv'
<1> DEFINE s == heuristics[h].success + (IF success THEN 1 ELSE 0)
           f == heuristics[h].failure + (IF success THEN 0 ELSE 1)
           new == [success |-> s, failure |-> f, confidence |-> Share(s, s + f)]
<1>1. heuristics[h] \in HeuristicRows /\ heuristics \in Seq(HeuristicRows) BY DEF HeuristicsInv
<1>2. s \in Nat /\ f \in Nat /\ s + f > 0 /\ s <= s + f
  <2>1. heuristics[h].success \in Nat /\ heuristics[h].failure \in Nat BY <1>1, KnowledgeAssumption DEF HeuristicRows
  <2> QED BY <2>1
<1>3. s + f <= MaxUses /\ heuristics' = [heuristics EXCEPT ![h] = new] BY DEF EvolveHeuristic, Share
<1> HIDE DEF s, f
<1>4. Percent(Share(s, s + f)) BY <1>2, ShareIs
<1>5. s \in 0 .. MaxUses /\ f \in 0 .. MaxUses BY <1>2, <1>3, KnowledgeAssumption
<1>6. new \in HeuristicRows
  <2> DEFINE q == Share(s, s + f)
  <2>1. q \in 0 .. 100 BY <1>4 DEF Percent
  <2> HIDE DEF q
  <2>2. new = [success |-> s, failure |-> f, confidence |-> q] BY DEF q
  <2> QED BY <2>1, <2>2, <1>5 DEF HeuristicRows
<1>7. ConfidenceIsShare(new) BY <1>2 DEF ConfidenceIsShare
<1> HIDE DEF new
<1>8. heuristics' \in Seq(HeuristicRows) /\ DOMAIN heuristics' = DOMAIN heuristics
      /\ \A i \in DOMAIN heuristics : heuristics'[i] = IF i = h THEN new ELSE heuristics[i]
  BY <1>1, <1>3, <1>6
<1> QED BY <1>7, <1>8 DEF HeuristicsInv

LEMMA RecordKeeps == ASSUME StrategyInv, NEW success \in BOOLEAN, RecordOutcome(success) PROVE StrategyInv'
<1> DEFINE a == strategy.applied + 1
           s == strategy.succeeded + (IF success THEN 1 ELSE 0)
<1>1. strategy.applied \in Nat /\ strategy.succeeded \in Nat /\ strategy.succeeded <= strategy.applied
  BY KnowledgeAssumption DEF StrategyInv, Strategies
<1>2. a \in 0 .. MaxUses /\ s \in 0 .. MaxUses /\ s <= a BY <1>1, KnowledgeAssumption DEF RecordOutcome
<1>3. strategy' = [strategy EXCEPT !.applied = a, !.succeeded = s] BY DEF RecordOutcome
<1> HIDE DEF a, s
<1>4. strategy' \in Strategies /\ strategy'.applied = a /\ strategy'.succeeded = s
  BY <1>2, <1>3 DEF StrategyInv, Strategies
<1> QED BY <1>2, <1>4 DEF StrategyInv

LEMMA ValidateKeeps == ASSUME StrategyInv, RunValidationCycle PROVE StrategyInv'
<1> DEFINE v == EvaluateStrategy(strategy.applied, strategy.succeeded)
<1>1. strategy.applied \in Nat /\ strategy.succeeded \in Int BY KnowledgeAssumption DEF StrategyInv, Strategies
<1>2. v \in {"insufficient_data", "validated", "rejected", "inconclusive"} BY <1>1, VerdictIs
<1>3. strategy' = [strategy EXCEPT !.status = v] BY DEF RunValidationCycle
<1> HIDE DEF v
<1> QED BY <1>2, <1>3 DEF StrategyInv, Strategies

-----------------------------------------------------------------------------
\* Every step changes at most one of the four parts.
LEMMA KnowledgeKeeps == ASSUME KnowledgeInv, [KnowledgeNext]_knowledgeVars PROVE KnowledgeInv'
<1> USE DEF KnowledgeInv
<1>1. CASE CompressionNext
  <2>1. UNCHANGED <<heuristics, strategy, workingVars>>
    BY <1>1 DEF CompressionNext, StoreObservation, HandleTaskCompleted, HandleTaskFailed, CompressObservations,
                NextCluster, MarkObservationsCompressed, StorePatterns
  <2>2. ASSUME NEW embedding \in Topics, StoreObservation(embedding) PROVE ObservationsInv'
    BY <2>2, StoreObservationKeeps
  <2>3. ASSUME NEW valid \in BOOLEAN, HandleTaskCompleted(valid) \/ HandleTaskFailed(valid) PROVE ObservationsInv'
    <3>1. StoreObservation(0) BY <2>3 DEF HandleTaskCompleted, HandleTaskFailed
    <3>2. 0 \in Topics \cup {0} OBVIOUS
    <3> QED BY <3>1, <3>2, StoreObservationKeeps
  <2>4. ASSUME NEW c \in Compressors, CompressObservations(c) PROVE ObservationsInv' BY <2>4, CompressKeeps
  <2>5. ASSUME NEW c \in Compressors, NextCluster(c) PROVE ObservationsInv' BY <2>5, ClusterKeeps
  <2>6. ASSUME NEW c \in Compressors, MarkObservationsCompressed(c) PROVE ObservationsInv' BY <2>6, MarkKeeps
  <2>7. ASSUME NEW c \in Compressors, NEW parsed \in ParsedObjects, StorePatterns(c, parsed) PROVE ObservationsInv'
    BY <2>7, StorePatternsKeeps
  <2>8. ObservationsInv' BY <1>1, <2>2, <2>3, <2>4, <2>5, <2>6, <2>7 DEF CompressionNext
  <2> QED BY <2>1, <2>8, WorkingKept DEF HeuristicsInv, StrategyInv
<1>2. CASE LearningNext
  <2>1. UNCHANGED <<strategy, workingVars>>
    BY <1>2 DEF LearningNext, CreateKnowledge, KnowledgeFeedback, PromotePatternsToHeuristics, EvolveHeuristic
  <2>2. CASE CreateKnowledge BY <2>1, <2>2, CreateKnowledgeKeeps, WorkingKept DEF CreateKnowledge, HeuristicsInv, StrategyInv
  <2>3. ASSUME NEW e \in DOMAIN entries, NEW useful \in BOOLEAN, KnowledgeFeedback(e, useful) PROVE KnowledgeInv'
    BY <2>1, <2>3, FeedbackKeeps, WorkingKept DEF KnowledgeFeedback, HeuristicsInv, StrategyInv
  <2>4. ASSUME NEW rules \in SynthesizedRules, PromotePatternsToHeuristics(rules) PROVE KnowledgeInv'
    BY <2>1, <2>4, PromoteKeeps, ObservationsKept, WorkingKept DEF PromotePatternsToHeuristics, StrategyInv
  <2>5. ASSUME NEW h \in DOMAIN heuristics, NEW success \in BOOLEAN, EvolveHeuristic(h, success) PROVE KnowledgeInv'
    BY <2>1, <2>5, EvolveKeeps, ObservationsKept, WorkingKept DEF EvolveHeuristic, StrategyInv
  <2> QED BY <1>2, <2>2, <2>3, <2>4, <2>5 DEF LearningNext
<1>3. CASE StrategyNext
  <2>1. UNCHANGED <<observations, entries, compressor, heuristics, workingVars>>
    BY <1>3 DEF StrategyNext, RunValidationCycle, RecordOutcome
  <2>2. StrategyInv' BY <1>3, RecordKeeps, ValidateKeeps DEF StrategyNext
  <2> QED BY <2>1, <2>2, ObservationsKept, WorkingKept DEF HeuristicsInv
<1>4. CASE WorkingNext
  <2>1. UNCHANGED storeVars
    BY <1>4 DEF WorkingNext, GetWorkingMemory, DeleteWorkingMemory, BeginUpdate, CreateWorkingMemory,
                UpdateWorkingMemory, EvictExpired
  <2> QED BY <1>4, <2>1, WorkingKeeps, ObservationsKept DEF storeVars, HeuristicsInv, StrategyInv
<1>5. CASE AcquisitionNext
  <2>1. UNCHANGED <<storeVars, workingVars>>
    BY <1>5 DEF AcquisitionNext, StartAcquisition, FetchDocumentation, FinishAcquisition
  <2> QED BY <2>1, ObservationsKept, WorkingKept DEF storeVars, HeuristicsInv, StrategyInv
<1>6. CASE UNCHANGED knowledgeVars
  BY <1>6, ObservationsKept, WorkingKept DEF knowledgeVars, workingVars, HeuristicsInv, StrategyInv
<1> QED BY <1>1, <1>2, <1>3, <1>4, <1>5, <1>6 DEF KnowledgeNext

LEMMA KnowledgeInvIsEnough == ASSUME KnowledgeInv PROVE KnowledgeIsGrounded
<1> USE DEF KnowledgeInv
<1>1. KnowledgeTypeOK
  BY DEF KnowledgeTypeOK, ObservationsInv, HeuristicsInv, StrategyInv, WorkingInv
<1>2. CompressedLeadsToPattern BY DEF ObservationsInv, CompressedLeadsToPattern
<1>3. VerdictsAreMonotone
  <2>1. strategy.applied \in Nat BY KnowledgeAssumption DEF StrategyInv, Strategies
  <2> QED BY <2>1, MoreSuccessesAreNoWorse DEF VerdictsAreMonotone
<1>4. ReviewAgreesWithConfidence
  <2> SUFFICES ASSUME NEW h \in DOMAIN heuristics
               PROVE  Ineffective(h) <=> /\ heuristics[h].success + heuristics[h].failure >= MinSamples
                                         /\ heuristics[h].confidence < 50
    BY DEF ReviewAgreesWithConfidence
  <2> DEFINE s == heuristics[h].success
             f == heuristics[h].failure
             t == s + f
  <2>1. heuristics[h] \in HeuristicRows /\ ConfidenceIsShare(heuristics[h]) BY DEF HeuristicsInv
  <2>2. s \in Nat /\ f \in Nat BY <2>1, KnowledgeAssumption DEF HeuristicRows
  <2>3. t \in Nat /\ s <= t /\ (2 * f > t <=> 2 * s < t) BY <2>2
  <2>4. t = 0 => heuristics[h].confidence = 50 BY <2>1 DEF ConfidenceIsShare
  <2>5. t > 0 => heuristics[h].confidence = Share(s, t) BY <2>1 DEF ConfidenceIsShare
  <2>6. t > 0 => (Share(s, t) < 50 <=> 2 * s < t) BY <2>2, <2>3, ShareIs
  <2>7. Ineffective(h) <=> t >= MinSamples /\ 2 * f > t BY DEF Ineffective
  <2> HIDE DEF s, f, t
  <2>8. CASE t = 0 BY <2>2, <2>3, <2>4, <2>7, <2>8 DEF s, f, t
  <2>9. CASE t > 0 BY <2>3, <2>5, <2>6, <2>7, <2>9 DEF s, f, t
  <2> QED BY <2>3, <2>8, <2>9
<1> QED BY <1>1, <1>2, <1>3, <1>4 DEF KnowledgeIsGrounded

\* For any number of keys, observations and overlapping compressions: an observation marked
\* compressed led to a pattern that is stored, more successes never make a verdict worse, a
\* heuristic under review has the confidence its counts give (heuristic_engine.py,
\* meta_strategy.py), and the working memory stays within its size.
THEOREM KnowledgeHolds == KnowledgeSpec => []KnowledgeIsGrounded
<1>1. KnowledgeInit => KnowledgeInv BY KnowledgeStarts
<1>2. KnowledgeInv /\ [KnowledgeNext]_knowledgeVars => KnowledgeInv' BY KnowledgeKeeps
<1>3. KnowledgeInv => KnowledgeIsGrounded BY KnowledgeInvIsEnough
<1> QED BY <1>1, <1>2, <1>3, PTL DEF KnowledgeSpec

\* The working memory (working_memory.py) makes room by the entry whose last use is the longest
\* ago, whoever reads, updates and expires entries meanwhile.
THEOREM OldestHolds == KnowledgeSpec => OldestGoesFirst
<1>1. KnowledgeInit => KnowledgeInv BY KnowledgeStarts
<1>2. KnowledgeInv /\ [KnowledgeNext]_knowledgeVars => KnowledgeInv' BY KnowledgeKeeps
<1>3. KnowledgeInv /\ [KnowledgeNext]_knowledgeVars => [EvictionStep]_knowledgeVars
  <2> SUFFICES ASSUME KnowledgeInv, KnowledgeNext PROVE EvictionStep OBVIOUS
  <2>1. [WorkingNext]_workingVars
    BY DEF KnowledgeNext, CompressionNext, LearningNext, StrategyNext, AcquisitionNext, StoreObservation,
           HandleTaskCompleted, HandleTaskFailed, CompressObservations, NextCluster, MarkObservationsCompressed,
           StorePatterns, CreateKnowledge, KnowledgeFeedback, PromotePatternsToHeuristics, EvolveHeuristic,
           RunValidationCycle, RecordOutcome, StartAcquisition, FetchDocumentation, FinishAcquisition
  <2> QED BY <2>1, WorkingEvictsOldest DEF KnowledgeInv
<1> QED BY <1>1, <1>2, <1>3, PTL DEF KnowledgeSpec, OldestGoesFirst

-----------------------------------------------------------------------------
(*****************************************************************************)
(* Dashboard hooks                                                           *)
(*                                                                           *)
(* Of all requests that were ever sent only the newest is not given up       *)
(* (PollInv), hence an older answer is never shown; what was given up still  *)
(* answers, with an error at most.                                           *)
(*****************************************************************************)

Fetches == [question : Questions, state : {"sent", "body", "over"}, aborted : BOOLEAN]
SocketStates == {"connecting", "open", "closing"}

\* Only the newest request of a page that is on the screen has not been given up, and what was
\* given up waits for nothing but the body of an error.
PollInv ==
    /\ mounted \in BOOLEAN /\ question \in Questions
    /\ fetches \in Seq(Fetches) /\ Len(fetches) > 0
    /\ \A i \in 1 .. Newest : ~fetches[i].aborted => i = Newest /\ mounted
    /\ \A i \in 1 .. Newest : fetches[i].state = "sent" => ~fetches[i].aborted
    /\ ticking => mounted
    /\ shownData \in 0 .. Newest /\ askedSince \in 0 .. Newest
    /\ \A i \in askedSince + 1 .. Newest : fetches[i].question = question

SocketInv ==
    /\ wsRef \in {"null", "connecting", "open"}
    /\ loose \in [SocketStates -> Nat]
    /\ looseTimers \in Nat
    /\ SocketIsNeverGivenUp
    /\ BadgeIsEarned

-----------------------------------------------------------------------------
\* usePolling

LEMMA AbortedType ==
  ASSUME NEW list \in Seq(Fetches), Len(list) > 0
  PROVE  /\ Aborted(list) \in Seq(Fetches) /\ Len(Aborted(list)) = Len(list)
         /\ \A i \in 1 .. Len(list) :
              /\ Aborted(list)[i].question = list[i].question
              /\ i # Len(list) => Aborted(list)[i] = list[i]
         /\ Aborted(list)[Len(list)].aborted
         /\ Aborted(list)[Len(list)].state # "sent"
<1> DEFINE n == Len(list)
           last == [list[n] EXCEPT !.aborted = TRUE, !.state = IF @ = "sent" THEN "over" ELSE @]
<1>1. n \in Nat /\ n \in 1 .. n /\ DOMAIN list = 1 .. n /\ \A i \in 1 .. n : list[i] \in Fetches
  OBVIOUS
<1>2. last \in Fetches /\ last.question = list[n].question /\ last.aborted /\ last.state # "sent"
  <2>1. list[n] \in Fetches BY <1>1
  <2> HIDE DEF n
  <2> QED BY <2>1 DEF Fetches
<1>3. Aborted(list) = [i \in 1 .. n |-> IF i = n THEN last ELSE list[i]]
  BY <1>1 DEF Aborted
<1> HIDE DEF last, n
<1>4. Aborted(list) \in [1 .. n -> Fetches] BY <1>1, <1>2, <1>3
<1>5. Aborted(list) \in Seq(Fetches) /\ Len(Aborted(list)) = n BY <1>1, <1>4
<1>6. Aborted(list)[n] = last /\ \A i \in 1 .. n : i # n => Aborted(list)[i] = list[i]
  BY <1>1, <1>3
<1>7. \A i \in 1 .. n : Aborted(list)[i].question = list[i].question BY <1>2, <1>6
<1> QED BY <1>2, <1>5, <1>6, <1>7 DEF n

\* A request is started: the one before it is given up.
LEMMA FetchKeeps ==
  ASSUME PollInv, mounted, DoFetch, UNCHANGED <<mounted, question, shownData, askedSince>>
  PROVE  PollInv'
<1> DEFINE n == Newest
           a == Aborted(fetches)
           new == [question |-> question, state |-> "sent", aborted |-> FALSE]
<1>1. fetches \in Seq(Fetches) /\ n \in Nat /\ n > 0 BY DEF PollInv, Newest
<1>2. /\ a \in Seq(Fetches) /\ Len(a) = n
      /\ \A i \in 1 .. n : a[i].question = fetches[i].question /\ (i # n => a[i] = fetches[i])
      /\ a[n].aborted /\ a[n].state # "sent"
  BY <1>1, AbortedType DEF Newest
<1>3. new \in Fetches BY DEF PollInv, Fetches
<1>4. fetches' = Append(a, new) BY DEF DoFetch, FetcherRef
<1> HIDE DEF n, a, new
<1>5. fetches' \in Seq(Fetches) /\ Len(fetches') = n + 1 /\ fetches'[n + 1] = new
      /\ \A i \in 1 .. n : fetches'[i] = a[i]
  BY <1>1, <1>2, <1>3, <1>4
<1>6. \A i \in 1 .. n + 1 : i = n + 1 \/ i \in 1 .. n BY <1>1
<1>7. \A i \in 1 .. n : fetches'[i].aborted /\ fetches'[i].state # "sent"
  <2>1. \A i \in 1 .. n : i # n => fetches[i].aborted BY DEF PollInv, n
  <2>2. \A i \in 1 .. n : i # n => fetches[i].state # "sent" BY <2>1 DEF PollInv, n
  <2> QED BY <2>1, <2>2, <1>2, <1>5
<1>8. Newest' = n + 1 BY <1>5 DEF Newest
<1>9. \A i \in 1 .. n + 1 : ~fetches'[i].aborted => i = n + 1 BY <1>6, <1>7
<1>10. \A i \in 1 .. n + 1 : fetches'[i].state = "sent" => ~fetches'[i].aborted
  BY <1>5, <1>6, <1>7 DEF new
<1>11. ASSUME NEW i \in askedSince + 1 .. n + 1 PROVE fetches'[i].question = question
  <2>1. askedSince \in 0 .. n BY DEF PollInv, n
  <2>2. i = n + 1 \/ (i \in askedSince + 1 .. n /\ i \in 1 .. n) BY <2>1, <1>1
  <2>3. CASE i = n + 1 BY <2>3, <1>5 DEF new
  <2>4. CASE i \in askedSince + 1 .. n /\ i \in 1 .. n
    BY <2>4, <1>2, <1>5 DEF PollInv, n
  <2> QED BY <2>2, <2>3, <2>4
<1>12. shownData \in 0 .. n + 1 /\ askedSince \in 0 .. n + 1 BY <1>1 DEF PollInv, n
<1> QED BY <1>1, <1>5, <1>8, <1>9, <1>10, <1>11, <1>12 DEF PollInv

\* The page is left: its last request is given up.
LEMMA LeaveKeeps ==
  ASSUME PollInv, LeavePage
  PROVE  PollInv'
<1> DEFINE a == Aborted(fetches)
           n == Newest
<1>1. fetches \in Seq(Fetches) /\ n \in Nat /\ n > 0 BY DEF PollInv, Newest
<1>2. /\ a \in Seq(Fetches) /\ Len(a) = n
      /\ \A i \in 1 .. n : a[i].question = fetches[i].question /\ (i # n => a[i] = fetches[i])
      /\ a[n].aborted /\ a[n].state # "sent"
  BY <1>1, AbortedType DEF Newest
<1>3. fetches' = a /\ mounted' = FALSE /\ ticking' = FALSE /\ UNCHANGED <<question, shownData, askedSince>>
  BY DEF LeavePage
<1>4. Newest' = n BY <1>2, <1>3 DEF Newest
<1> HIDE DEF n, a
<1>5. \A i \in 1 .. n : fetches'[i].aborted /\ fetches'[i].state # "sent"
  <2>1. \A i \in 1 .. n : i # n => fetches[i].aborted BY DEF PollInv, n
  <2>2. \A i \in 1 .. n : i # n => fetches[i].state # "sent" BY <2>1 DEF PollInv, n
  <2> QED BY <2>1, <2>2, <1>2, <1>3
<1>6. ASSUME NEW i \in askedSince + 1 .. n PROVE fetches'[i].question = question
  <2>1. askedSince \in 0 .. n BY DEF PollInv, n
  <2>2. i \in 1 .. n BY <2>1, <1>1
  <2> QED BY <2>2, <1>2, <1>3 DEF PollInv, n
<1> QED BY <1>1, <1>2, <1>3, <1>4, <1>5, <1>6 DEF PollInv, n

\* An answer comes: the request it is for changes its state, and is not sent any more.
LEMMA AnsweredKeeps ==
  ASSUME PollInv, NEW i \in 1 .. Newest, NEW s \in {"body", "over"},
         fetches' = [fetches EXCEPT ![i].state = s], shownData' \in {shownData, i},
         UNCHANGED <<mounted, question, ticking, askedSince>>
  PROVE  PollInv'
<1> DEFINE n == Newest
<1>1. fetches \in Seq(Fetches) /\ n \in Nat /\ n > 0 /\ DOMAIN fetches = 1 .. n BY DEF PollInv, Newest
<1>2. fetches[i] \in Fetches BY <1>1
<1>3. [fetches[i] EXCEPT !.state = s] \in Fetches /\ [fetches[i] EXCEPT !.state = s].state = s
      /\ [fetches[i] EXCEPT !.state = s].aborted = fetches[i].aborted
      /\ [fetches[i] EXCEPT !.state = s].question = fetches[i].question
  BY <1>2 DEF Fetches
<1>4. fetches' \in Seq(Fetches) /\ Len(fetches') = n
      /\ \A j \in 1 .. n : j # i => fetches'[j] = fetches[j]
  BY <1>1, <1>3 DEF Newest
<1>5. fetches'[i].state = s /\ fetches'[i].aborted = fetches[i].aborted
      /\ fetches'[i].question = fetches[i].question
  BY <1>1, <1>3
<1>6. Newest' = n BY <1>4 DEF Newest
<1>7. \A j \in 1 .. n : /\ fetches'[j].aborted = fetches[j].aborted
                        /\ fetches'[j].question = fetches[j].question
                        /\ fetches'[j].state \in {fetches[j].state, "body", "over"}
  BY <1>4, <1>5
<1> HIDE DEF n
<1>8. \A j \in askedSince + 1 .. n : j \in 1 .. n BY DEF PollInv, n
<1>9. shownData' \in 0 .. n BY <1>1 DEF PollInv, n
<1> QED BY <1>1, <1>4, <1>6, <1>7, <1>8, <1>9 DEF PollInv, n

LEMMA PollInit == DashboardInit => PollInv
<1> SUFFICES ASSUME DashboardInit PROVE PollInv OBVIOUS
<1>1. question \in Questions BY DashboardAssumption DEF DashboardInit
<1> DEFINE first == [question |-> question, state |-> "sent", aborted |-> FALSE]
<1>2. first \in Fetches BY <1>1 DEF Fetches
<1>3. fetches = <<first>> BY DEF DashboardInit
<1> HIDE DEF first
<1>4. fetches \in Seq(Fetches) /\ Len(fetches) = 1 /\ fetches[1] = first BY <1>2, <1>3
<1>5. Newest = 1 BY <1>4 DEF Newest
<1>6. \A i \in 1 .. Newest : i = Newest /\ ~fetches[i].aborted /\ fetches[i].question = question
  BY <1>4, <1>5 DEF first
<1>7. askedSince = 0 /\ shownData = 0 /\ mounted /\ mounted \in BOOLEAN BY DEF DashboardInit
<1>8. \A i \in askedSince + 1 .. Newest : i \in 1 .. Newest BY <1>5, <1>7
<1> QED BY <1>1, <1>4, <1>5, <1>6, <1>7, <1>8 DEF PollInv

LEMMA PollStep ==
  ASSUME PollInv, [PollNext \/ LiveNext]_dashboardVars
  PROVE  PollInv' /\ DisplayStep
<1>1. ASSUME UNCHANGED <<mounted, question, fetches, shownData, askedSince>>, ticking' => mounted
      PROVE  PollInv'
  BY <1>1 DEF PollInv, Newest
<1>2. ASSUME UNCHANGED <<shownData, shownError>> PROVE DisplayStep BY <1>2 DEF DisplayStep
<1>3. CASE PollTick
  <2>1. PollInv' BY <1>3, FetchKeeps DEF PollTick, PollInv, tabVars
  <2> QED BY <2>1, <1>3, <1>2 DEF PollTick
<1>4. ASSUME NEW i \in DOMAIN fetches, ErrorStatus(i) \/ Resolves(i) \/ Rejects(i)
      PROVE  PollInv' /\ DisplayStep
  <2>1. i \in 1 .. Newest BY DEF PollInv, Newest
  <2>2. CASE ErrorStatus(i)
    <3>1. PollInv' BY <2>1, <2>2, AnsweredKeeps DEF ErrorStatus, tabVars
    <3> QED BY <3>1, <2>2, <1>2 DEF ErrorStatus
  <2>3. CASE Resolves(i)
    <3>1. PollInv' BY <2>1, <2>3, AnsweredKeeps DEF Resolves, tabVars
    <3>2. i = Newest /\ mounted BY <2>1, <2>3 DEF Resolves, PollInv
    <3>3. DisplayStep BY <2>3, <3>2 DEF Resolves, DisplayStep
    <3> QED BY <3>1, <3>3
  <2>4. CASE Rejects(i)
    <3>1. PollInv' BY <2>1, <2>4, AnsweredKeeps DEF Rejects, tabVars
    <3>2. shownData' = shownData /\ (shownError' # shownError => shownError' = i /\ ~fetches[i].aborted)
      BY <2>4 DEF Rejects, ShowError
    <3>3. DisplayStep BY <3>2, <2>1 DEF DisplayStep, PollInv
    <3> QED BY <3>1, <3>3
  <2> QED BY <1>4, <2>2, <2>3, <2>4
<1>5. ASSUME NEW q \in Questions, AskAnother(q) PROVE PollInv' /\ DisplayStep
  <2>1. Newest \in Nat /\ Newest' = Newest BY <1>5 DEF PollInv, Newest, AskAnother
  <2>2. \A i \in Newest + 1 .. Newest : FALSE BY <2>1
  <2>3. PollInv' BY <1>5, <2>1, <2>2 DEF PollInv, AskAnother, tabVars
  <2> QED BY <2>3, <1>5, <1>2 DEF AskAnother
<1>6. CASE HideTab
  <2>1. PollInv' BY <1>6, <1>1 DEF HideTab, PollInv
  <2> QED BY <2>1, <1>6, <1>2 DEF HideTab
<1>7. CASE ShowTab
  <2>1. CASE mounted BY <1>7, <2>1, FetchKeeps, <1>2 DEF ShowTab
  <2>2. CASE ~mounted
    <3>1. PollInv' BY <1>7, <2>2, <1>1 DEF ShowTab, PollInv
    <3> QED BY <3>1, <1>7, <2>2, <1>2 DEF ShowTab
  <2> QED BY <2>1, <2>2
<1>8. CASE LeavePage
  <2>1. PollInv' BY <1>8, LeaveKeeps
  <2> QED BY <2>1, <1>8, <1>2 DEF LeavePage
<1>9. CASE SocketStep \/ SocketDrops
  <2>1. UNCHANGED <<pollVars, mounted>>
    BY <1>9 DEF SocketStep, SocketDrops, SocketOpens, SocketCloses, RetryTimerFires, tabVars
  <2>2. PollInv' BY <2>1, <1>1 DEF pollVars, PollInv
  <2> QED BY <2>1, <2>2, <1>2 DEF pollVars
<1>10. CASE UNCHANGED dashboardVars
  <2>1. UNCHANGED <<pollVars, mounted>> BY <1>10 DEF dashboardVars, tabVars
  <2>2. PollInv' BY <2>1, <1>1 DEF pollVars, PollInv
  <2> QED BY <2>1, <2>2, <1>2 DEF pollVars
<1> QED BY <1>3, <1>4, <1>5, <1>6, <1>7, <1>8, <1>9, <1>10 DEF PollNext, LiveNext, TabNext

-----------------------------------------------------------------------------
\* useWebSocket

LEMMA ClosedType ==
  ASSUME SocketInv
  PROVE  /\ Closed(loose) \in [SocketStates -> Nat]
         /\ wsRef # "null" => Closed(loose)["closing"] > 0
         /\ isConnected => Closed(loose)["open"] + Closed(loose)["closing"] > 0
<1>1. loose \in [SocketStates -> Nat] /\ "closing" \in SocketStates /\ "open" \in SocketStates
  BY DEF SocketInv, SocketStates
<1>2. CASE wsRef = "null" BY <1>1, <1>2 DEF Closed, SocketInv, BadgeIsEarned
<1>3. CASE wsRef # "null"
  <2>1. Closed(loose) = [loose EXCEPT !["closing"] = @ + 1] BY <1>3 DEF Closed
  <2> QED BY <1>1, <2>1
<1> QED BY <1>2, <1>3

\* A close event leaves the badge off, and a timer if the tab can be seen.
LEMMA CloseKeeps ==
  ASSUME SocketInv, NEW others \in [SocketStates -> Nat], OnClose(others), UNCHANGED <<mounted, visible>>
  PROVE  SocketInv'
<1>1. loose' \in [SocketStates -> Nat]
  BY DEF SocketInv, OnClose, SocketStates
<1>2. wsRef' = "null" /\ isConnected' = FALSE BY DEF OnClose
<1>3. looseTimers' \in Nat /\ (visible => retryTimer' = "pending")
  BY DEF OnClose, ScheduleRetry, SocketInv
<1> QED BY <1>1, <1>2, <1>3 DEF SocketInv, SocketIsNeverGivenUp, BadgeIsEarned

LEMMA SocketInit == DashboardInit => SocketInv
BY DEF DashboardInit, SocketInv, SocketStates, SocketIsNeverGivenUp, BadgeIsEarned

LEMMA SocketsStep ==
  ASSUME SocketInv, [PollNext \/ LiveNext]_dashboardVars
  PROVE  SocketInv'
<1>1. loose \in [SocketStates -> Nat] /\ wsRef \in {"null", "connecting", "open"} /\ looseTimers \in Nat
  BY DEF SocketInv
<1>2. ASSUME UNCHANGED <<wsRef, loose, retryTimer, looseTimers, isConnected>>, mounted' /\ visible' => mounted /\ visible
      PROVE  SocketInv'
  BY <1>2 DEF SocketInv, SocketIsNeverGivenUp, BadgeIsEarned
<1>3. ASSUME OpenSocket, isConnected' => isConnected, looseTimers' \in Nat PROVE SocketInv'
  <2>1. wsRef' = "connecting" /\ loose' = Closed(loose) BY <1>3 DEF OpenSocket
  <2> QED BY <2>1, <1>3, ClosedType DEF SocketInv, SocketIsNeverGivenUp, BadgeIsEarned
<1>4. CASE SocketOpens
  <2>1. CASE wsRef = "connecting" /\ wsRef' = "open" /\ UNCHANGED loose
    BY <2>1, <1>4, <1>1 DEF SocketOpens, SocketInv, SocketIsNeverGivenUp, BadgeIsEarned
  <2>2. CASE /\ loose.connecting > 0 /\ UNCHANGED wsRef
             /\ loose' = [loose EXCEPT !.connecting = @ - 1, !.open = @ + 1]
    <3>1. loose' \in [SocketStates -> Nat] /\ loose'["open"] > 0
      <4>1. loose["connecting"] - 1 \in Nat /\ loose["open"] + 1 \in Nat /\ loose["open"] + 1 > 0
        BY <2>2, <1>1 DEF SocketStates
      <4> DEFINE c == loose["connecting"] - 1
                 o == loose["open"] + 1
      <4>3. loose' = [loose EXCEPT !["connecting"] = c, !["open"] = o] BY <2>2
      <4> HIDE DEF c, o
      <4>4. c \in Nat /\ o \in Nat /\ o > 0 BY <4>1 DEF c, o
      <4>5. loose' = [s \in SocketStates |->
                        IF s = "connecting" THEN c ELSE IF s = "open" THEN o ELSE loose[s]]
        BY <4>3, <1>1 DEF SocketStates
      <4> QED BY <4>4, <4>5, <1>1 DEF SocketStates
    <3>2. loose'["open"] + loose'["closing"] > 0 BY <3>1 DEF SocketStates
    <3> QED BY <3>1, <3>2, <2>2, <1>4, <1>1
        DEF SocketOpens, SocketInv, SocketIsNeverGivenUp, BadgeIsEarned, tabVars
  <2> QED BY <2>1, <2>2, <1>4 DEF SocketOpens
<1>5. CASE SocketCloses
  <2>1. [loose EXCEPT !.closing = @ - 1] \in [SocketStates -> Nat]
    BY <1>1, <1>5 DEF SocketCloses, SocketStates
  <2> QED BY <2>1, <1>5, CloseKeeps DEF SocketCloses, tabVars
<1>6. CASE RetryTimerFires
  <2>1. CASE OpenSocket /\ looseTimers' \in {looseTimers, looseTimers - 1} /\ looseTimers' \in Nat
    BY <2>1, <1>3, <1>6 DEF RetryTimerFires
  <2>2. CASE ConnectThrows /\ retryTimer' = "pending" /\ looseTimers' \in Nat
    BY <2>2, <1>6, ClosedType DEF RetryTimerFires, ConnectThrows, SocketInv, SocketIsNeverGivenUp, BadgeIsEarned
  <2> QED BY <2>1, <2>2, <1>6, <1>1 DEF RetryTimerFires
<1>7. CASE SocketDrops
  <2>1. CASE wsRef # "null" /\ isConnected' = FALSE /\ wsRef' = "null" /\ UNCHANGED loose
             /\ IF visible THEN ScheduleRetry ELSE UNCHANGED <<retryTimer, looseTimers>>
    <3>1. looseTimers' \in Nat /\ (visible => retryTimer' = "pending") BY <2>1, <1>1 DEF ScheduleRetry
    <3> QED BY <2>1, <3>1, <1>1, <1>7 DEF SocketDrops, SocketInv, SocketIsNeverGivenUp, BadgeIsEarned
  <2>2. ASSUME NEW s \in {"connecting", "open"}, loose[s] > 0, OnClose([loose EXCEPT ![s] = @ - 1])
        PROVE  SocketInv'
    <3>1. [loose EXCEPT ![s] = @ - 1] \in [SocketStates -> Nat] BY <1>1, <2>2 DEF SocketStates
    <3> QED BY <3>1, <2>2, <1>7, CloseKeeps DEF SocketDrops
  <2> QED BY <2>1, <2>2, <1>7 DEF SocketDrops
<1>8. CASE HideTab
  <2>1. CASE mounted
    BY <2>1, <1>8, <1>1, ClosedType
    DEF HideTab, ClearRetryTimer, SocketInv, SocketIsNeverGivenUp, BadgeIsEarned
  <2>2. CASE ~mounted BY <2>2, <1>8, <1>2 DEF HideTab, socketVars
  <2> QED BY <2>1, <2>2
<1>9. CASE ShowTab
  <2>1. CASE mounted /\ wsRef # "open" BY <2>1, <1>9, <1>1, <1>3 DEF ShowTab
  <2>2. CASE mounted /\ wsRef = "open"
    BY <2>2, <1>9, <1>1 DEF ShowTab, SocketInv, SocketIsNeverGivenUp, BadgeIsEarned
  <2>3. CASE ~mounted BY <2>3, <1>9, <1>1 DEF ShowTab, SocketInv, SocketIsNeverGivenUp, BadgeIsEarned
  <2> QED BY <2>1, <2>2, <2>3
<1>10. CASE LeavePage
  BY <1>10, <1>1, ClosedType DEF LeavePage, ClearRetryTimer, SocketInv, SocketIsNeverGivenUp, BadgeIsEarned
<1>11. CASE PollTick \/ \E i \in DOMAIN fetches : ErrorStatus(i) \/ Resolves(i) \/ Rejects(i)
  <2>1. UNCHANGED <<socketVars, tabVars>>
    BY <1>11 DEF PollTick, ErrorStatus, Resolves, Rejects
  <2> QED BY <2>1, <1>2 DEF socketVars, tabVars
<1>12. CASE \E q \in Questions : AskAnother(q)
  <2>1. UNCHANGED <<socketVars, tabVars>> BY <1>12 DEF AskAnother
  <2> QED BY <2>1, <1>2 DEF socketVars, tabVars
<1>13. CASE UNCHANGED dashboardVars
  BY <1>13, <1>2 DEF dashboardVars, socketVars, tabVars
<1> QED BY <1>4, <1>5, <1>6, <1>7, <1>8, <1>9, <1>10, <1>11, <1>12, <1>13
    DEF PollNext, LiveNext, TabNext, SocketStep

LEMMA DataIsForTheQuestion == PollInv => DataAnswersTheQuestion
<1> SUFFICES ASSUME PollInv, shownData > askedSince PROVE fetches[shownData].question = question
  BY DEF DataAnswersTheQuestion
<1>1. shownData \in askedSince + 1 .. Newest BY DEF PollInv, Newest
<1> QED BY <1>1 DEF PollInv

\* However answers, errors and questions overlap in usePolling, and tabs, timers and close events
\* in useWebSocket: data on a page is an answer to the question it asks now, unless it is
\* older than the question; a page that can be seen has a socket or a timer for one; and it
\* calls itself connected only with a socket that has not ended.
THEOREM PageHolds == DashboardSpec => []PageIsUpToDate
<1>1. DashboardInit => PollInv /\ SocketInv BY PollInit, SocketInit
<1>2. PollInv /\ SocketInv /\ [PollNext \/ LiveNext]_dashboardVars => PollInv' /\ SocketInv'
  BY PollStep, SocketsStep
<1>3. PollInv /\ SocketInv => PageIsUpToDate BY DataIsForTheQuestion DEF PageIsUpToDate, SocketInv
<1> QED BY <1>1, <1>2, <1>3, PTL DEF DashboardSpec

\* No step of usePolling shows an answer to a request that a newer one has replaced.
THEOREM NewestHolds == DashboardSpec => OnlyTheNewestIsShown
<1>1. DashboardInit => PollInv BY PollInit
<1>2. PollInv /\ [PollNext \/ LiveNext]_dashboardVars => PollInv' /\ [DisplayStep]_dashboardVars
  BY PollStep
<1> QED BY <1>1, <1>2, PTL DEF DashboardSpec, OnlyTheNewestIsShown

-----------------------------------------------------------------------------
(*****************************************************************************)
(* The governor's watch over agents                                          *)
(*                                                                           *)
(* A streak is what the detector remembers of a run of failures:             *)
(* CountsAreExcused bounds one by the other, CountsAreComplete says that     *)
(* they agree until something is lost.  The list of streaks is used through what it     *)
(* tracks (Tracks), since positions move whenever a pair is touched.  Scores *)
(* are compared with an exact history (Close): each restart adds half a unit *)
(* for every completed task, by RoundedIs.                                   *)
(*****************************************************************************)

\* The smallest positions come first: every position has its own place.
LEMMA PlacesOfPositions ==
  ASSUME NEW m \in Nat, NEW P \in SUBSET (1 .. m)
  PROVE  LET n == Cardinality(P)
             place(j) == Cardinality({k \in P : k <= j})
         IN
         /\ n \in Nat /\ n <= m
         /\ \A j \in P : place(j) \in 1 .. n
         /\ \A i, j \in P : place(i) = place(j) => i = j
         /\ \A i \in 1 .. n : \E j \in P : place(j) = i
<1> DEFINE n == Cardinality(P)
           place(j) == Cardinality({k \in P : k <= j})
           f == [j \in P |-> place(j)]
<1>0. \A k \in P : k \in Int OBVIOUS
<1>1. IsFiniteSet(1 .. m) /\ Cardinality(1 .. m) = m
  <2>1. IsFiniteSet(1 .. m) /\ Cardinality(1 .. m) = IF 1 > m THEN 0 ELSE m - 1 + 1 BY FS_Interval
  <2> QED BY <2>1
<1>2. IsFiniteSet(P) /\ n <= m BY <1>1, FS_Subset
<1>3. n \in Nat BY <1>2, FS_CardinalityType
<1>4. ASSUME NEW j \in P PROVE place(j) \in 1 .. n
  <2> DEFINE S == {k \in P : k <= j}
  <2>1. S \in SUBSET P /\ j \in S OBVIOUS
  <2> HIDE DEF S
  <2>2. IsFiniteSet(S) /\ Cardinality(S) <= n BY <2>1, <1>2, FS_Subset
  <2>3. Cardinality(S) \in Nat /\ Cardinality(S) # 0 BY <2>1, <2>2, FS_CardinalityType, FS_EmptySet
  <2> QED BY <2>2, <2>3, <1>3 DEF S
<1>5. ASSUME NEW i \in P, NEW j \in P, i < j PROVE place(i) # place(j)
  <2> DEFINE S == {k \in P : k <= j}
             T == {k \in P : k <= i}
  <2>0. i \in Int /\ j \in Int /\ \A k \in P : k <= i => k <= j BY <1>0, <1>5
  <2>1. S \in SUBSET P OBVIOUS
  <2>2. T \in SUBSET S BY <2>0
  <2>3. j \in S BY <2>0
  <2>4. j \notin T BY <2>0, <1>5
  <2> HIDE DEF S, T
  <2>5. IsFiniteSet(S) BY <2>1, <1>2, FS_Subset
  <2>6. Cardinality(S) # Cardinality(T) BY <2>2, <2>3, <2>4, <2>5, FS_Subset
  <2> QED BY <2>6 DEF S, T
<1>6. \A i, j \in P : place(i) = place(j) => i = j
  <2> HIDE DEF place
  <2> SUFFICES ASSUME NEW i \in P, NEW j \in P, i # j PROVE place(i) # place(j) OBVIOUS
  <2>1. i < j \/ j < i OBVIOUS
  <2> QED BY <2>1, <1>5
<1> HIDE DEF place
<1>7. f \in Injection(P, 1 .. n)
  <2>1. f \in [P -> 1 .. n] BY <1>4
  <2>2. IsInjective(f) BY <1>6 DEF IsInjective
  <2> HIDE DEF f, n
  <2> QED BY <2>1, <2>2 DEF Injection
<1>8. IsFiniteSet(1 .. n) /\ Cardinality(1 .. n) = n
  <2> HIDE DEF n
  <2>1. IsFiniteSet(1 .. n) /\ Cardinality(1 .. n) = IF 1 > n THEN 0 ELSE n - 1 + 1 BY <1>3, FS_Interval
  <2> QED BY <2>1, <1>3
<1>9. f \in Surjection(P, 1 .. n)
  <2> HIDE DEF f
  <2>1. Cardinality(P) = Cardinality(1 .. n) BY <1>8
  <2> QED BY <1>7, <1>8, <2>1, FS_Injection
<1>10. \A i \in 1 .. n : \E j \in P : place(j) = i BY <1>9 DEF Surjection
<1> QED BY <1>2, <1>3, <1>4, <1>6, <1>10 DEF place

\* Every kept entry is there once, and nothing else.
LEMMA EntriesKept ==
  ASSUME NEW T, NEW list \in Seq(T), NEW P \in SUBSET DOMAIN list
  PROVE  LET e == EntriesAt(list, P) IN
         /\ e \in Seq(T) /\ Len(e) <= Len(list)
         /\ \A i \in DOMAIN e : \E j \in P : e[i] = list[j]
         /\ \A j \in P : \E i \in DOMAIN e : e[i] = list[j]
         /\ \A i1, i2 \in DOMAIN e : i1 # i2 => \E j1, j2 \in P : j1 # j2 /\ e[i1] = list[j1] /\ e[i2] = list[j2]
<1> DEFINE m == Len(list)
           n == Cardinality(P)
           place(j) == Cardinality({k \in P : k <= j})
           spot(i) == CHOOSE j \in P : place(j) = i
           e == EntriesAt(list, P)
<1>1. m \in Nat /\ P \in SUBSET (1 .. m) /\ \A j \in P : list[j] \in T OBVIOUS
<1> HIDE DEF m
<1>2. /\ n \in Nat /\ n <= m
      /\ \A j \in P : place(j) \in 1 .. n
      /\ \A i, j \in P : place(i) = place(j) => i = j
      /\ \A i \in 1 .. n : \E j \in P : place(j) = i
  BY <1>1, PlacesOfPositions
<1>3. e = [i \in 1 .. n |-> list[spot(i)]] BY DEF EntriesAt
<1> HIDE DEF n, place, e
<1>4. \A i \in 1 .. n : spot(i) \in P /\ place(spot(i)) = i BY <1>2
<1>5. \A j \in P : spot(place(j)) = j BY <1>2, <1>4
<1> HIDE DEF spot
<1>6. e \in Seq(T) /\ Len(e) = n /\ DOMAIN e = 1 .. n BY <1>1, <1>2, <1>3, <1>4
<1>7. \A i \in DOMAIN e : spot(i) \in P /\ e[i] = list[spot(i)] BY <1>3, <1>4, <1>6
<1>8. \A j \in P : place(j) \in DOMAIN e /\ e[place(j)] = list[j] BY <1>2, <1>5, <1>6, <1>7
<1>9. \A i1, i2 \in DOMAIN e : i1 # i2 => spot(i1) # spot(i2) BY <1>4, <1>6
<1>10. /\ \A i \in DOMAIN e : \E j \in P : e[i] = list[j]
       /\ \A j \in P : \E i \in DOMAIN e : e[i] = list[j]
       /\ \A i1, i2 \in DOMAIN e : i1 # i2 => \E j1, j2 \in P : j1 # j2 /\ e[i1] = list[j1] /\ e[i2] = list[j2]
  BY <1>7, <1>8, <1>9
<1> QED BY <1>2, <1>6, <1>10 DEF e, m

-----------------------------------------------------------------------------
(* The spin detector. *)

StreakRows == [pair : Pairs, count : Nat \ {0}]
ApartIn(list) == \A i, j \in DOMAIN list : list[i].pair = list[j].pair => i = j
IsStreakList(list) == list \in Seq(StreakRows) /\ ApartIn(list)
Tracks(list, pair, count) == \E i \in DOMAIN list : list[i].pair = pair /\ list[i].count = count

CountIn(list, pair) ==
  LET spot == {i \in DOMAIN list : list[i].pair = pair}
  IN IF spot = {} THEN 0 ELSE list[CHOOSE i \in spot : TRUE].count

LEMMA CountIs ==
  ASSUME NEW list, IsStreakList(list), NEW pair
  PROVE  /\ CountIn(list, pair) \in Nat
         /\ \A count : count # 0 => (Tracks(list, pair, count) <=> CountIn(list, pair) = count)
<1> DEFINE spot == {i \in DOMAIN list : list[i].pair = pair}
<1>1. \A i \in DOMAIN list : list[i].count \in Nat \ {0}
  <2>1. \A i \in DOMAIN list : list[i] \in StreakRows BY DEF IsStreakList
  <2> QED BY <2>1 DEF StreakRows
<1>2. CASE spot = {}
  <2>1. CountIn(list, pair) = 0 BY <1>2 DEF CountIn
  <2> QED BY <2>1, <1>2 DEF Tracks
<1>3. CASE spot # {}
  <2> DEFINE i == CHOOSE i \in spot : TRUE
  <2>0. CountIn(list, pair) = IF spot = {} THEN 0 ELSE list[i].count BY DEF CountIn
  <2> HIDE DEF spot
  <2>1. i \in spot BY <1>3
  <2>2. CountIn(list, pair) = list[i].count BY <1>3, <2>0
  <2> USE DEF spot
  <2> HIDE DEF i
  <2>3. i \in DOMAIN list /\ list[i].pair = pair BY <2>1
  <2>4. \A j \in DOMAIN list : list[j].pair = pair => j = i BY <2>3 DEF IsStreakList, ApartIn
  <2> QED BY <1>1, <2>2, <2>3, <2>4 DEF Tracks
<1> QED BY <1>2, <1>3

LEMMA StreakIs ==
  ASSUME IsStreakList(streaks), NEW pair
  PROVE  /\ Streak(pair) \in Nat
         /\ \A count : count # 0 => (Tracks(streaks, pair, count) <=> Streak(pair) = count)
<1>1. Streak(pair) = CountIn(streaks, pair) BY DEF Streak, CountIn
<1> QED BY <1>1, CountIs

\* What is left of the streaks without some of the pairs.
LEMMA SomeStreaks ==
  ASSUME IsStreakList(streaks), NEW P \in SUBSET DOMAIN streaks
  PROVE  LET list == EntriesAt(streaks, P) IN
         /\ IsStreakList(list) /\ Len(list) <= Len(streaks)
         /\ \A i \in DOMAIN list : \E j \in P : list[i] = streaks[j]
         /\ \A j \in P : \E i \in DOMAIN list : list[i] = streaks[j]
<1> DEFINE list == EntriesAt(streaks, P)
<1>1. /\ list \in Seq(StreakRows) /\ Len(list) <= Len(streaks)
      /\ \A i \in DOMAIN list : \E j \in P : list[i] = streaks[j]
      /\ \A j \in P : \E i \in DOMAIN list : list[i] = streaks[j]
      /\ \A i1, i2 \in DOMAIN list : i1 # i2 => \E j1, j2 \in P : j1 # j2 /\ list[i1] = streaks[j1] /\ list[i2] = streaks[j2]
  BY EntriesKept DEF IsStreakList
<1> HIDE DEF list
<1>2. ApartIn(list)
  <2> SUFFICES ASSUME NEW i1 \in DOMAIN list, NEW i2 \in DOMAIN list, i1 # i2 PROVE list[i1].pair # list[i2].pair
    BY DEF ApartIn
  <2>1. PICK j1 \in P, j2 \in P : j1 # j2 /\ list[i1] = streaks[j1] /\ list[i2] = streaks[j2] BY <1>1
  <2> QED BY <2>1 DEF IsStreakList, ApartIn
<1> QED BY <1>1, <1>2 DEF IsStreakList, list

LEMMA OthersAre ==
  ASSUME IsStreakList(streaks), NEW pair
  PROVE  LET rest == OtherStreaks(pair) IN
         /\ IsStreakList(rest) /\ Len(rest) <= Len(streaks)
         /\ \A p, c : Tracks(rest, p, c) <=> Tracks(streaks, p, c) /\ p # pair
<1> DEFINE P == {i \in DOMAIN streaks : streaks[i].pair # pair}
           rest == OtherStreaks(pair)
<1>1. rest = EntriesAt(streaks, P) BY DEF OtherStreaks
<1>2. /\ IsStreakList(EntriesAt(streaks, P)) /\ Len(EntriesAt(streaks, P)) <= Len(streaks)
      /\ \A i \in DOMAIN EntriesAt(streaks, P) : \E j \in P : EntriesAt(streaks, P)[i] = streaks[j]
      /\ \A j \in P : \E i \in DOMAIN EntriesAt(streaks, P) : EntriesAt(streaks, P)[i] = streaks[j]
  BY SomeStreaks
<1> HIDE DEF rest
<1>3. ASSUME NEW p, NEW c, Tracks(rest, p, c) PROVE Tracks(streaks, p, c) /\ p # pair
  <2>1. PICK i \in DOMAIN rest : rest[i].pair = p /\ rest[i].count = c BY <1>3 DEF Tracks
  <2>2. PICK j \in P : rest[i] = streaks[j] BY <1>1, <1>2
  <2> QED BY <2>1, <2>2 DEF Tracks
<1>4. ASSUME NEW p, NEW c, Tracks(streaks, p, c), p # pair PROVE Tracks(rest, p, c)
  <2>1. PICK j \in DOMAIN streaks : streaks[j].pair = p /\ streaks[j].count = c BY <1>4 DEF Tracks
  <2>2. PICK i \in DOMAIN rest : rest[i] = streaks[j] BY <1>1, <1>2, <1>4, <2>1
  <2> QED BY <2>1, <2>2 DEF Tracks
<1> QED BY <1>1, <1>2, <1>3, <1>4 DEF rest

\* A failure without a diff makes its pair the latest; the oldest pair may go.
LEMMA RetryCounted ==
  ASSUME IsStreakList(streaks), Len(streaks) <= MaxStreaks,
         NEW event \in Failures, ~ event.diff
  PROVE  LET new == RecordRetry(event)
             pair == PairOf(event)
         IN
         /\ IsStreakList(new) /\ Len(new) <= MaxStreaks
         /\ Tracks(new, pair, Streak(pair) + 1)
         /\ \A p, c : Tracks(new, p, c) /\ p # pair => Tracks(streaks, p, c)
<1> DEFINE pair == PairOf(event)
           entry == [pair |-> pair, count |-> Streak(pair) + 1]
           rest == OtherStreaks(pair)
           added == Append(rest, entry)
           n == Len(rest)
<1>1. pair \in Pairs BY DEF Failures, PairOf, Pairs
<1>2. Streak(pair) \in Nat BY StreakIs
<1>3. entry \in StreakRows /\ entry.pair = pair /\ entry.count = Streak(pair) + 1 BY <1>1, <1>2 DEF StreakRows
<1>4. RecordRetry(event) = IF Len(added) > MaxStreaks THEN Tail(added) ELSE added BY DEF RecordRetry
<1> HIDE DEF pair, entry
<1>5. /\ IsStreakList(rest) /\ Len(rest) <= Len(streaks)
      /\ \A p, c : Tracks(rest, p, c) <=> Tracks(streaks, p, c) /\ p # pair
  BY OthersAre
<1> HIDE DEF rest
<1>6. rest \in Seq(StreakRows) /\ n \in Nat /\ DOMAIN rest = 1 .. n BY <1>5 DEF IsStreakList
<1>7. /\ added \in Seq(StreakRows) /\ Len(added) = n + 1 /\ DOMAIN added = 1 .. n + 1
      /\ added[n + 1] = entry /\ \A i \in 1 .. n : added[i] = rest[i]
  BY <1>3, <1>6
<1> HIDE DEF n, added
<1>8. \A i : i \in 1 .. n + 1 <=> i \in 1 .. n \/ i = n + 1 BY <1>6
<1>9. \A i \in 1 .. n : rest[i].pair # pair BY <1>5, <1>6 DEF Tracks
<1>10. ApartIn(added) BY <1>3, <1>5, <1>6, <1>7, <1>8, <1>9 DEF ApartIn, IsStreakList
<1>11. \A p, c : Tracks(added, p, c) /\ p # pair => Tracks(streaks, p, c)
  <2> SUFFICES ASSUME NEW p, NEW c, Tracks(added, p, c), p # pair PROVE Tracks(rest, p, c) BY <1>5
  <2>1. PICK i \in 1 .. n + 1 : added[i].pair = p /\ added[i].count = c BY <1>7 DEF Tracks
  <2>2. i \in 1 .. n BY <2>1, <1>3, <1>7, <1>8
  <2> QED BY <2>1, <2>2, <1>6, <1>7 DEF Tracks
<1>12. MaxStreaks \in Nat /\ MaxStreaks >= 1 /\ Len(streaks) \in Nat BY WatchAssumption DEF IsStreakList
<1>13. CASE Len(added) > MaxStreaks
  <2> DEFINE new == Tail(added)
  <2>1. added # <<>> /\ n >= 1 /\ n <= MaxStreaks BY <1>5, <1>6, <1>7, <1>12, <1>13 DEF n
  <2>2. new \in Seq(StreakRows) /\ Len(new) = n /\ \A i \in 1 .. n : new[i] = added[i + 1]
    BY <2>1, <1>6, <1>7
  <2>3. DOMAIN new = 1 .. n BY <2>2
  <2> HIDE DEF new
  <2>4. \A i \in 1 .. n : i + 1 \in 1 .. n + 1 BY <1>6
  <2>5. ApartIn(new)
    <3> SUFFICES ASSUME NEW i \in 1 .. n, NEW j \in 1 .. n, new[i].pair = new[j].pair PROVE i = j BY <2>3 DEF ApartIn
    <3>1. added[i + 1].pair = added[j + 1].pair /\ i + 1 \in DOMAIN added /\ j + 1 \in DOMAIN added BY <1>7, <2>2, <2>4
    <3>2. i + 1 = j + 1 BY <3>1, <1>10 DEF ApartIn
    <3> QED BY <3>2, <1>6
  <2>6. n \in 1 .. n /\ new[n] = entry BY <2>1, <2>2, <1>6, <1>7
  <2>7. Tracks(new, pair, Streak(pair) + 1) BY <2>3, <2>6, <1>3 DEF Tracks
  <2>8. \A p, c : Tracks(new, p, c) => Tracks(added, p, c) BY <2>2, <2>3, <2>4, <1>7 DEF Tracks
  <2>9. RecordRetry(event) = new BY <1>4, <1>13 DEF new
  <2>10. IsStreakList(new) /\ Len(new) <= MaxStreaks BY <2>1, <2>2, <2>5 DEF IsStreakList
  <2>11. \A p, c : Tracks(new, p, c) /\ p # pair => Tracks(streaks, p, c) BY <2>8, <1>11
  <2> QED BY <2>7, <2>9, <2>10, <2>11 DEF pair
<1>14. CASE ~ (Len(added) > MaxStreaks)
  <2>1. n + 1 \in 1 .. n + 1 BY <1>6
  <2>2. Tracks(added, pair, Streak(pair) + 1) BY <2>1, <1>3, <1>7 DEF Tracks
  <2>3. Len(added) <= MaxStreaks BY <1>6, <1>7, <1>12, <1>14
  <2>4. RecordRetry(event) = added BY <1>4, <1>14
  <2> QED BY <2>2, <2>3, <2>4, <1>7, <1>10, <1>11 DEF IsStreakList, pair
<1> QED BY <1>13, <1>14

LEMMA RetryForgotten ==
  ASSUME IsStreakList(streaks), Len(streaks) <= MaxStreaks,
         NEW event \in Failures, event.diff
  PROVE  LET new == RecordRetry(event)
             pair == PairOf(event)
         IN
         /\ IsStreakList(new) /\ Len(new) <= MaxStreaks
         /\ \A p, c : Tracks(new, p, c) => Tracks(streaks, p, c) /\ p # pair
<1>1. RecordRetry(event) = OtherStreaks(PairOf(event)) BY DEF RecordRetry
<1> DEFINE pair == PairOf(event)
           rest == OtherStreaks(pair)
<1>2. /\ IsStreakList(rest) /\ Len(rest) <= Len(streaks)
      /\ \A p, c : Tracks(rest, p, c) <=> Tracks(streaks, p, c) /\ p # pair
  BY OthersAre
<1>3. Len(rest) \in Nat /\ Len(streaks) \in Nat /\ MaxStreaks \in Nat BY <1>2, WatchAssumption DEF IsStreakList
<1>4. Len(rest) <= MaxStreaks
  <2> HIDE DEF rest
  <2> QED BY <1>2, <1>3
<1> QED BY <1>1, <1>2, <1>4


\* Whether the message in hand is a failure of this task that has not been counted yet.
Handling(pair) == message.phase = "handle" /\ message.event.kind = "failed" /\ PairOf(message.event) = pair
Breaking(pair) == Handling(pair) /\ message.event.diff
Owed(pair) == IF Handling(pair) /\ ~ message.event.diff THEN 1 ELSE 0

Events == Failures \cup Completions
Messages == [phase : {"handle", "kill", "ack"}, event : Events]

SpinTypes ==
  /\ IsStreakList(streaks) /\ Len(streaks) <= MaxStreaks
  /\ runs \in [Pairs -> Nat]
  /\ events \in Nat /\ unacked \in Nat /\ restarts \in Nat
  /\ message \in Messages \/ message = NoMessage
  /\ message.phase = "kill" => message.event.kind = "failed"

\* A streak forgets: it never exceeds the run of failures.
CountsAreExcused == \A pair \in Pairs : ~ Breaking(pair) => Streak(pair) + Owed(pair) <= runs[pair]

KillIsJustified == message.phase = "kill" => runs[PairOf(message.event)] >= SpinRetries

\* As long as nothing was lost, a streak that was not forgotten is the run of failures.
Undisturbed == unacked = 0 /\ restarts = 0
CountsAreComplete(pair) ==
  /\ ~ Breaking(pair) => Streak(pair) + Owed(pair) = runs[pair]
  /\ Breaking(pair) => runs[pair] = 0
  /\ runs[pair] >= SpinRetries =>
        \/ \E k \in kills : k.pair = pair
        \/ Handling(pair)
        \/ message.phase = "kill" /\ PairOf(message.event) = pair

SpinInv ==
  /\ SpinTypes /\ CountsAreExcused /\ KillIsJustified /\ KillsAreJustified
  /\ Undisturbed => \A pair \in Pairs \ forgotten : CountsAreComplete(pair)

LEMMA EventTypes ==
  ASSUME NEW e \in Events
  PROVE  /\ e.kind \in {"failed", "completed"}
         /\ e.kind = "failed" => e \in Failures /\ e.diff \in BOOLEAN /\ PairOf(e) \in Pairs
BY DEF Events, Failures, Completions, PairOf, Pairs

LEMMA SpinStarts == ASSUME WatchInit PROVE SpinInv
<1> USE DEF WatchInit
<1>1. SpinTypes BY WatchAssumption DEF SpinTypes, IsStreakList, ApartIn, NoMessage
<1>2. \A pair : Streak(pair) = 0 /\ ~ Handling(pair) BY DEF Streak, Handling, NoMessage
<1>3. \A pair \in Pairs : runs[pair] = 0 OBVIOUS
<1>4. message.phase = "none" BY DEF NoMessage
<1> QED BY <1>1, <1>2, <1>3, <1>4, WatchAssumption
        DEF SpinInv, CountsAreExcused, KillIsJustified, KillsAreJustified, CountsAreComplete, Breaking, Owed

\* Steps that neither count nor handle.
LEMMA SpinKept ==
  ASSUME SpinInv, UNCHANGED <<streaks, runs, forgotten, kills, message, unacked, events, restarts>> PROVE SpinInv'
<1>1. \A pair : Streak(pair)' = Streak(pair) BY DEF Streak
<1>2. \A pair : Handling(pair)' = Handling(pair) /\ Breaking(pair)' = Breaking(pair) /\ Owed(pair)' = Owed(pair)
  BY DEF Handling, Breaking, Owed
<1> QED BY <1>1, <1>2
        DEF SpinInv, SpinTypes, CountsAreExcused, KillIsJustified, KillsAreJustified, Undisturbed, CountsAreComplete

\* Nothing of a message is owed unless it is being handled.
LEMMA NotHandling == ASSUME message.phase # "handle", NEW pair PROVE ~ Handling(pair) /\ ~ Breaking(pair) /\ Owed(pair) = 0
BY DEF Handling, Breaking, Owed

LEMMA DeliverSpins == ASSUME SpinInv, NEW event \in Events, Deliver(event) PROVE SpinInv'
<1> DEFINE pair == PairOf(event)
<1>1. /\ message = NoMessage /\ message' = [phase |-> "handle", event |-> event]
      /\ events' = events + 1 /\ UNCHANGED <<streaks, forgotten, kills, unacked, restarts>>
      /\ events \in Nat /\ runs \in [Pairs -> Nat]
  BY DEF Deliver, SpinInv, SpinTypes
<1>2. /\ \A p : ~ Handling(p) /\ ~ Breaking(p) /\ Owed(p) = 0
      /\ message.phase # "kill" /\ message'.phase = "handle" /\ message'.event = event /\ message' \in Messages
  BY <1>1, NotHandling DEF NoMessage, Messages
<1>3. \A p : Streak(p)' = Streak(p) BY <1>1 DEF Streak
<1>4. \A p : Streak(p) \in Nat BY StreakIs DEF SpinInv, SpinTypes
<1>5. CASE event.kind = "completed"
  <2>1. runs' = runs BY <1>5 DEF Deliver
  <2>2. \A p : ~ Handling(p)' /\ ~ Breaking(p)' /\ Owed(p)' = 0 BY <1>2, <1>5 DEF Handling, Breaking, Owed
  <2> QED BY <1>1, <1>2, <1>3, <1>4, <2>1, <2>2
          DEF SpinInv, SpinTypes, CountsAreExcused, KillIsJustified, KillsAreJustified, Undisturbed, CountsAreComplete
<1>6. CASE event.kind = "failed"
  <2>1. event.diff \in BOOLEAN /\ pair \in Pairs BY <1>6, EventTypes
  <2>2. /\ runs' = [runs EXCEPT ![pair] = IF event.diff THEN 0 ELSE @ + 1]
        /\ runs' \in [Pairs -> Nat]
    BY <1>1, <1>6, <2>1 DEF Deliver
  <2>3. /\ \A p \in Pairs : p # pair => runs'[p] = runs[p]
        /\ runs'[pair] = IF event.diff THEN 0 ELSE runs[pair] + 1
    BY <1>1, <2>1, <2>2
  <2>4. \A p : Handling(p)' <=> p = pair BY <1>2, <1>6 DEF Handling
  <2>5. \A p : Breaking(p)' <=> p = pair /\ event.diff BY <1>2, <2>4 DEF Breaking
  <2>6. \A p : Owed(p)' = IF p = pair /\ ~ event.diff THEN 1 ELSE 0 BY <1>2, <2>4 DEF Owed
  <2> HIDE DEF pair
  <2>7. CountsAreExcused'
    <3> SUFFICES ASSUME NEW p \in Pairs, ~ Breaking(p)' PROVE (Streak(p) + Owed(p) <= runs[p])'
      BY DEF CountsAreExcused
    <3>1. Streak(p) <= runs[p] BY <1>2, <1>4 DEF SpinInv, CountsAreExcused
    <3>2. CASE p = pair BY <3>1, <3>2, <1>1, <1>3, <1>4, <2>1, <2>3, <2>5, <2>6
    <3>3. CASE p # pair BY <3>1, <3>3, <1>1, <1>3, <1>4, <2>3, <2>6
    <3> QED BY <3>2, <3>3
  <2>8. ASSUME Undisturbed', NEW p \in Pairs \ forgotten' PROVE CountsAreComplete(p)'
    <3>1. CountsAreComplete(p) BY <2>8, <1>1 DEF SpinInv, Undisturbed
    <3>2. Streak(p) = runs[p] BY <3>1, <1>2, <1>4 DEF CountsAreComplete
    <3>3. CASE p = pair BY <3>2, <3>3, <1>1, <1>3, <2>1, <2>3, <2>4, <2>5, <2>6, WatchAssumption DEF CountsAreComplete
    <3>4. CASE p # pair BY <3>1, <3>2, <3>4, <1>1, <1>2, <1>3, <1>4, <2>3, <2>4, <2>5, <2>6 DEF CountsAreComplete
    <3> QED BY <3>3, <3>4
  <2>9. SpinTypes' BY <1>1, <1>2, <2>2 DEF SpinInv, SpinTypes
  <2> QED BY <2>7, <2>8, <2>9, <1>1, <1>2 DEF SpinInv, KillIsJustified, KillsAreJustified
<1> QED BY <1>5, <1>6, EventTypes

\* A step that only takes the message out of hand, or puts it aside.
LEMMA PutAside ==
  ASSUME SpinInv, message.phase \in {"kill", "ack"}, message' = NoMessage,
         UNCHANGED <<streaks, runs, forgotten, kills, events, restarts>>,
         unacked' \in Nat,
         message.phase = "kill" => ~ Undisturbed', Undisturbed' => Undisturbed
  PROVE  SpinInv'
<1>1. /\ \A p : ~ Handling(p) /\ ~ Breaking(p) /\ Owed(p) = 0
      /\ \A p : ~ Handling(p)' /\ ~ Breaking(p)' /\ Owed(p)' = 0
      /\ message'.phase = "none"
  BY NotHandling DEF NoMessage, Handling, Breaking, Owed
<1>2. \A p : Streak(p)' = Streak(p) BY DEF Streak
<1>3. ASSUME Undisturbed', NEW p \in Pairs \ forgotten' PROVE CountsAreComplete(p)'
  BY <1>1, <1>2, <1>3 DEF SpinInv, CountsAreComplete
<1> QED BY <1>1, <1>2, <1>3 DEF SpinInv, SpinTypes, CountsAreExcused, KillIsJustified, KillsAreJustified

LEMMA LeaveSpins == ASSUME SpinInv, LeaveUnacked PROVE SpinInv'
<1>1. /\ message.phase \in {"kill", "ack"} /\ message' = NoMessage /\ unacked' = unacked + 1 /\ unacked \in Nat
      /\ UNCHANGED <<streaks, runs, forgotten, kills, events, restarts>>
  BY DEF LeaveUnacked, spinning, SpinInv, SpinTypes
<1>2. unacked' \in Nat /\ ~ Undisturbed' BY <1>1 DEF Undisturbed
<1> QED BY <1>1, <1>2, PutAside

LEMMA AckSpins == ASSUME SpinInv, AckMessage PROVE SpinInv'
BY PutAside DEF AckMessage, spinning, SpinInv, SpinTypes, Undisturbed

LEMMA KillSpins == ASSUME SpinInv, KillSpinningAgent PROVE SpinInv'
<1> DEFINE pair == PairOf(message.event)
           fresh == [pair |-> pair, run |-> runs[pair]]
<1>1. /\ message.phase = "kill" /\ message' = [message EXCEPT !.phase = "ack"] /\ kills' = kills \cup {fresh}
      /\ UNCHANGED <<streaks, runs, forgotten, unacked, events, restarts>>
      /\ message \in Messages /\ message.event.kind = "failed"
  BY DEF KillSpinningAgent, SpinInv, SpinTypes, NoMessage
<1>2. message' \in Messages /\ message'.phase = "ack" /\ message'.event = message.event BY <1>1 DEF Messages
<1>3. /\ \A p : ~ Handling(p) /\ ~ Breaking(p) /\ Owed(p) = 0
      /\ \A p : ~ Handling(p)' /\ ~ Breaking(p)' /\ Owed(p)' = 0
  BY <1>1, <1>2, NotHandling DEF Handling, Breaking, Owed
<1>4. \A p : Streak(p)' = Streak(p) BY <1>1 DEF Streak
<1>5. fresh.pair = pair /\ fresh.run = runs[pair] OBVIOUS
<1> HIDE DEF fresh, pair
<1>6. KillsAreJustified' BY <1>1, <1>5 DEF SpinInv, KillIsJustified, KillsAreJustified, pair
<1>7. ASSUME Undisturbed', NEW p \in Pairs \ forgotten' PROVE CountsAreComplete(p)'
  <2>1. CountsAreComplete(p) BY <1>1, <1>7 DEF SpinInv, Undisturbed
  <2>2. fresh \in kills' /\ \A k \in kills : k \in kills' BY <1>1
  <2>3. (runs[p] >= SpinRetries)' => (\E k \in kills : k.pair = p)'
    <3> SUFFICES ASSUME runs[p] >= SpinRetries PROVE \E k \in kills' : k.pair = p BY <1>1
    <3>1. CASE \E k \in kills : k.pair = p BY <3>1, <2>2
    <3>2. CASE pair = p BY <3>2, <2>2, <1>5
    <3> QED BY <3>1, <3>2, <2>1, <1>3 DEF CountsAreComplete, pair
  <2> QED BY <2>1, <2>3, <1>1, <1>3, <1>4 DEF CountsAreComplete
<1> QED BY <1>1, <1>2, <1>3, <1>4, <1>6, <1>7 DEF SpinInv, SpinTypes, CountsAreExcused, KillIsJustified

\* What the handler of a failed task does to the streaks.
LEMMA FailureSpins ==
  ASSUME SpinInv, HandleTask, message.event.kind = "failed" PROVE SpinInv'
<1> DEFINE event == message.event
           pair == PairOf(event)
           now(p) == CountIn(streaks', p)
<1>1. /\ message.phase = "handle" /\ streaks' = RecordRetry(event)
      /\ forgotten' = forgotten \cup (
            {streaks[i].pair : i \in {j \in DOMAIN streaks : \A k \in DOMAIN streaks' : streaks'[k].pair # streaks[j].pair}}
            \ {pair})
      /\ message' = [message EXCEPT !.phase = IF IsSpinning(event) THEN "kill" ELSE "ack"]
      /\ UNCHANGED <<runs, kills, unacked, events, restarts>>
  BY DEF HandleTask
<1>2. message \in Messages /\ event \in Events /\ runs \in [Pairs -> Nat]
  BY <1>1 DEF SpinInv, SpinTypes, NoMessage, Messages
<1>3. event \in Failures /\ event.diff \in BOOLEAN /\ pair \in Pairs BY <1>2, EventTypes
<1>4. /\ message' \in Messages /\ message'.phase = (IF IsSpinning(event) THEN "kill" ELSE "ack") /\ message'.event = event
  BY <1>1, <1>2 DEF Messages
<1>5. \A p : ~ Handling(p)' /\ ~ Breaking(p)' /\ Owed(p)' = 0 BY <1>4 DEF Handling, Breaking, Owed
<1>6. \A p : (Handling(p) <=> p = pair) /\ (Breaking(p) <=> p = pair /\ event.diff)
              /\ Owed(p) = IF p = pair /\ ~ event.diff THEN 1 ELSE 0
  BY <1>1 DEF Handling, Breaking, Owed
<1>7. IsStreakList(streaks) /\ Len(streaks) <= MaxStreaks BY DEF SpinInv, SpinTypes
<1>8. IsSpinning(event) <=> ~ event.diff /\ Streak(pair) + 1 >= SpinRetries BY DEF IsSpinning
<1> HIDE DEF pair, event
<1>9. /\ IsStreakList(streaks') /\ Len(streaks') <= MaxStreaks
      /\ ~ event.diff => Tracks(streaks', pair, Streak(pair) + 1)
      /\ event.diff => \A c : ~ Tracks(streaks', pair, c)
      /\ \A p, c : Tracks(streaks', p, c) /\ p # pair => Tracks(streaks, p, c)
  <2>1. CASE event.diff BY <2>1, <1>1, <1>3, <1>7, RetryForgotten DEF pair
  <2>2. CASE ~ event.diff BY <2>2, <1>1, <1>3, <1>7, RetryCounted DEF pair
  <2> QED BY <2>1, <2>2
<1>10. \A p : Streak(p) \in Nat /\ \A c : c # 0 => (Tracks(streaks, p, c) <=> Streak(p) = c) BY <1>7, StreakIs
<1>11. \A p : now(p) \in Nat /\ \A c : c # 0 => (Tracks(streaks', p, c) <=> now(p) = c)
  <2>1. IsStreakList(streaks') BY <1>9
  <2> QED BY <2>1, CountIs
<1>111. \A p : Streak(p)' = now(p) BY DEF Streak, CountIn
<1> HIDE DEF now
<1>12. now(pair) = IF event.diff THEN 0 ELSE Streak(pair) + 1
  <2>1. CASE event.diff
    <3>1. ~ (now(pair) # 0) BY <2>1, <1>9, <1>11
    <3> QED BY <2>1, <3>1
  <2>2. CASE ~ event.diff
    <3>1. Streak(pair) + 1 # 0 BY <1>10
    <3> QED BY <2>2, <3>1, <1>9, <1>11
  <2> QED BY <2>1, <2>2
<1>13. \A p : p # pair => now(p) = 0 \/ now(p) = Streak(p) BY <1>9, <1>10, <1>11
<1>14. ASSUME NEW p, p # pair, p \notin forgotten' PROVE now(p) = Streak(p)
  <2> SUFFICES ASSUME Streak(p) # 0 PROVE now(p) # 0 BY <1>13, <1>14
  <2>1. PICK i \in DOMAIN streaks : streaks[i].pair = p BY <1>10 DEF Tracks
  <2>2. PICK k \in DOMAIN streaks' : streaks'[k].pair = p BY <2>1, <1>1, <1>14
  <2>3. streaks'[k].count # 0
    <3>1. streaks'[k] \in StreakRows BY <2>2, <1>9 DEF IsStreakList
    <3> QED BY <3>1 DEF StreakRows
  <2>4. Tracks(streaks', p, streaks'[k].count) BY <2>2 DEF Tracks
  <2> QED BY <2>3, <2>4, <1>11
<1>15. CountsAreExcused'
  <2> SUFFICES ASSUME NEW p \in Pairs PROVE now(p) <= runs[p] BY <1>1, <1>5, <1>11, <1>111 DEF CountsAreExcused
  <2>0. runs[p] \in Nat BY <1>2
  <2>1. CASE p = pair /\ event.diff
    <3>1. now(p) = 0 BY <2>1, <1>12
    <3> QED BY <2>0, <3>1, <1>2
  <2>2. CASE p = pair /\ ~ event.diff
    <3>1. Streak(p) + 1 <= runs[p] BY <2>2, <1>6 DEF SpinInv, CountsAreExcused
    <3> QED BY <3>1, <2>2, <1>12
  <2>3. CASE p # pair
    <3>1. Streak(p) <= runs[p] BY <2>3, <1>6, <1>10 DEF SpinInv, CountsAreExcused
    <3> QED BY <2>0, <2>3, <3>1, <1>2, <1>13
  <2> QED BY <2>1, <2>2, <2>3
<1>16. KillIsJustified'
  <2> SUFFICES ASSUME IsSpinning(event) PROVE runs[pair] >= SpinRetries
    BY <1>1, <1>4 DEF KillIsJustified, pair
  <2>1. Streak(pair) + 1 <= runs[pair] BY <1>3, <1>6, <1>8 DEF SpinInv, CountsAreExcused
  <2> QED BY <2>1, <1>2, <1>3, <1>8, <1>10, WatchAssumption
<1>17. ASSUME Undisturbed', NEW p \in Pairs \ forgotten' PROVE CountsAreComplete(p)'
  <2>1. p \notin forgotten BY <1>1, <1>17
  <2>2. CountsAreComplete(p) BY <2>1, <1>1, <1>17 DEF SpinInv, Undisturbed
  <2>3. CASE p # pair
    <3>1. now(p) = Streak(p) BY <2>3, <1>14, <1>17
    <3>2. ~ (message.phase = "kill") BY <1>1
    <3> QED BY <2>2, <2>3, <3>1, <3>2, <1>1, <1>5, <1>6, <1>10, <1>111 DEF CountsAreComplete
  <2>4. CASE p = pair /\ event.diff
    <3>1. runs[p] = 0 /\ now(p) = 0 BY <2>2, <2>4, <1>6, <1>12 DEF CountsAreComplete
    <3>2. ~ (runs[p] >= SpinRetries) BY <3>1, WatchAssumption
    <3> QED BY <3>1, <3>2, <1>1, <1>5, <1>111 DEF CountsAreComplete
  <2>5. CASE p = pair /\ ~ event.diff
    <3>1. Streak(p) + 1 = runs[p] BY <2>2, <2>5, <1>6 DEF CountsAreComplete
    <3>2. runs[p] >= SpinRetries => message'.phase = "kill" BY <2>5, <3>1, <1>4, <1>8
    <3>3. PairOf(message'.event) = p BY <2>5, <1>4 DEF pair
    <3>4. now(p) = runs[p] BY <2>5, <3>1, <1>12
    <3> QED BY <3>2, <3>3, <3>4, <1>1, <1>5, <1>11, <1>111 DEF CountsAreComplete
  <2> QED BY <2>3, <2>4, <2>5
<1>18. SpinTypes'
  <2>1. IsStreakList(streaks)' BY <1>9 DEF IsStreakList, ApartIn, StreakRows
  <2>2. message'.event.kind = "failed" BY <1>4 DEF event
  <2> QED BY <2>1, <2>2, <1>1, <1>4, <1>9 DEF SpinInv, SpinTypes
<1>19. KillsAreJustified' BY <1>1 DEF SpinInv, KillsAreJustified
<1> QED BY <1>15, <1>16, <1>17, <1>18, <1>19 DEF SpinInv

LEMMA CompletionSpins ==
  ASSUME SpinInv, HandleTask, message.event.kind = "completed" PROVE SpinInv'
<1>1. /\ message.phase = "handle" /\ message' = [message EXCEPT !.phase = "ack"]
      /\ UNCHANGED <<streaks, runs, forgotten, kills, unacked, events, restarts>>
  BY DEF HandleTask
<1>2. message \in Messages BY <1>1 DEF SpinInv, SpinTypes, NoMessage
<1>3. message' \in Messages /\ message'.phase = "ack" BY <1>1, <1>2 DEF Messages
<1>4. /\ \A p : ~ Handling(p) /\ ~ Breaking(p) /\ Owed(p) = 0
      /\ \A p : ~ Handling(p)' /\ ~ Breaking(p)' /\ Owed(p)' = 0
  BY <1>3 DEF Handling, Breaking, Owed
<1>5. \A p : Streak(p)' = Streak(p) BY <1>1 DEF Streak
<1> QED BY <1>1, <1>3, <1>4, <1>5
        DEF SpinInv, SpinTypes, CountsAreExcused, KillIsJustified, KillsAreJustified, Undisturbed, CountsAreComplete

LEMMA ResetSpins == ASSUME SpinInv, NEW agent \in Agents, ResetAgent(agent) PROVE SpinInv'
<1> DEFINE P == {i \in DOMAIN streaks : streaks[i].pair[1] # agent}
           list == EntriesAt(streaks, P)
           now(p) == CountIn(streaks', p)
<1>1. /\ message = NoMessage /\ streaks' = EntriesAt(streaks, P)
      /\ runs' = [pair \in Pairs |-> IF pair[1] = agent THEN 0 ELSE runs[pair]]
      /\ UNCHANGED <<forgotten, kills, message, unacked, events, restarts>>
  BY DEF ResetAgent
<1>2. /\ IsStreakList(streaks) /\ Len(streaks) <= MaxStreaks /\ runs \in [Pairs -> Nat]
  BY DEF SpinInv, SpinTypes
<1>3. /\ IsStreakList(streaks') /\ Len(streaks') <= Len(streaks)
      /\ \A i \in DOMAIN streaks' : \E j \in P : streaks'[i] = streaks[j]
      /\ \A j \in P : \E i \in DOMAIN streaks' : streaks'[i] = streaks[j]
  <2>1. P \in SUBSET DOMAIN streaks OBVIOUS
  <2> HIDE DEF P
  <2>2. /\ IsStreakList(list) /\ Len(list) <= Len(streaks)
        /\ \A i \in DOMAIN list : \E j \in P : list[i] = streaks[j]
        /\ \A j \in P : \E i \in DOMAIN list : list[i] = streaks[j]
    BY <1>2, <2>1, SomeStreaks
  <2>3. streaks' = list BY <1>1
  <2> HIDE DEF list
  <2> QED BY <2>2, <2>3
<1>4. \A p : Streak(p) \in Nat /\ \A c : c # 0 => (Tracks(streaks, p, c) <=> Streak(p) = c) BY <1>2, StreakIs
<1>5. \A p : now(p) \in Nat /\ \A c : c # 0 => (Tracks(streaks', p, c) <=> now(p) = c)
  <2>1. IsStreakList(streaks') BY <1>3
  <2> QED BY <2>1, CountIs
<1>51. \A p : Streak(p)' = now(p) BY DEF Streak, CountIn
<1> HIDE DEF now
<1>6. \A p, c : Tracks(streaks', p, c) <=> Tracks(streaks, p, c) /\ p[1] # agent
  <2>1. ASSUME NEW p, NEW c, Tracks(streaks', p, c) PROVE Tracks(streaks, p, c) /\ p[1] # agent
    <3>1. PICK i \in DOMAIN streaks' : streaks'[i].pair = p /\ streaks'[i].count = c BY <2>1 DEF Tracks
    <3>2. PICK j \in P : streaks'[i] = streaks[j] BY <1>3
    <3> QED BY <3>1, <3>2 DEF Tracks
  <2>2. ASSUME NEW p, NEW c, Tracks(streaks, p, c), p[1] # agent PROVE Tracks(streaks', p, c)
    <3>1. PICK j \in DOMAIN streaks : streaks[j].pair = p /\ streaks[j].count = c BY <2>2 DEF Tracks
    <3>2. PICK i \in DOMAIN streaks' : streaks'[i] = streaks[j] BY <1>3, <2>2, <3>1
    <3> QED BY <3>1, <3>2 DEF Tracks
  <2> QED BY <2>1, <2>2
<1> HIDE DEF P, list
<1>7. \A p : now(p) = IF p[1] = agent THEN 0 ELSE Streak(p)
  <2> SUFFICES ASSUME NEW p PROVE now(p) = IF p[1] = agent THEN 0 ELSE Streak(p) OBVIOUS
  <2>1. CASE p[1] = agent
    <3>1. ~ (now(p) # 0) BY <2>1, <1>5, <1>6
    <3> QED BY <2>1, <3>1
  <2>2. CASE p[1] # agent
    <3>1. CASE Streak(p) = 0
      <4>1. ~ (now(p) # 0) BY <2>2, <3>1, <1>4, <1>5, <1>6
      <4> QED BY <2>2, <3>1, <4>1
    <3>2. CASE Streak(p) # 0 BY <2>2, <3>2, <1>4, <1>5, <1>6
    <3> QED BY <3>1, <3>2
  <2> QED BY <2>1, <2>2
<1>8. /\ \A p : ~ Handling(p) /\ ~ Breaking(p) /\ Owed(p) = 0
      /\ \A p : ~ Handling(p)' /\ ~ Breaking(p)' /\ Owed(p)' = 0
      /\ message.phase = "none"
  BY <1>1, NotHandling DEF NoMessage, Handling, Breaking, Owed
<1>9. runs' \in [Pairs -> Nat] /\ \A p \in Pairs : runs'[p] = IF p[1] = agent THEN 0 ELSE runs[p] BY <1>1, <1>2
<1>10. CountsAreExcused'
  <2> SUFFICES ASSUME NEW p \in Pairs PROVE now(p) <= runs'[p] BY <1>1, <1>5, <1>51, <1>8, <1>9 DEF CountsAreExcused
  <2>1. Streak(p) <= runs[p] BY <1>4, <1>8 DEF SpinInv, CountsAreExcused
  <2> QED BY <2>1, <1>2, <1>7, <1>9
<1>11. ASSUME Undisturbed', NEW p \in Pairs \ forgotten' PROVE CountsAreComplete(p)'
  <2>1. CountsAreComplete(p) BY <1>1, <1>11 DEF SpinInv, Undisturbed
  <2>2. CASE p[1] = agent
    <3>1. runs'[p] = 0 /\ now(p) = 0 BY <2>2, <1>7, <1>9
    <3>2. ~ (runs'[p] >= SpinRetries) BY <3>1, WatchAssumption
    <3> QED BY <3>1, <3>2, <1>51, <1>8 DEF CountsAreComplete
  <2>3. CASE p[1] # agent BY <2>1, <2>3, <1>1, <1>4, <1>51, <1>7, <1>8, <1>9 DEF CountsAreComplete
  <2> QED BY <2>2, <2>3
<1>12. SpinTypes'
  <2>1. IsStreakList(streaks)' BY <1>3 DEF IsStreakList, ApartIn, StreakRows
  <2>2. Len(streaks') <= MaxStreaks
    <3>1. Len(streaks) \in Nat /\ Len(streaks') \in Nat /\ MaxStreaks \in Nat BY <1>2, <1>3, WatchAssumption DEF IsStreakList
    <3> QED BY <3>1, <1>2, <1>3
  <2> QED BY <2>1, <2>2, <1>1, <1>8, <1>9 DEF SpinInv, SpinTypes
<1> QED BY <1>1, <1>8, <1>10, <1>11, <1>12 DEF SpinInv, KillIsJustified, KillsAreJustified

LEMMA RestartSpins == ASSUME SpinInv, NEW read \in BOOLEAN, RestartGovernor(read) PROVE SpinInv'
<1>1. /\ streaks' = <<>> /\ message' = NoMessage /\ restarts' = restarts + 1 /\ restarts \in Nat
      /\ unacked' = (IF message = NoMessage THEN unacked ELSE unacked + 1) /\ unacked \in Nat
      /\ UNCHANGED <<runs, forgotten, kills, events>>
      /\ runs \in [Pairs -> Nat]
  BY DEF RestartGovernor, SpinInv, SpinTypes
<1>2. unacked' \in Nat BY <1>1
<1>3. \A p : ~ Handling(p)' /\ ~ Breaking(p)' /\ Owed(p)' = 0 BY <1>1 DEF NoMessage, Handling, Breaking, Owed
<1>4. \A p : Streak(p)' = 0 BY <1>1 DEF Streak
<1>5. ~ Undisturbed' BY <1>1 DEF Undisturbed
<1>6. CountsAreExcused'
  <2> SUFFICES ASSUME NEW p \in Pairs PROVE 0 <= runs[p] BY <1>1, <1>3, <1>4 DEF CountsAreExcused
  <2> QED BY <1>1
<1>7. message'.phase = "none" BY <1>1 DEF NoMessage
<1>8. IsStreakList(streaks') /\ Len(streaks') <= MaxStreaks BY <1>1, WatchAssumption DEF IsStreakList, ApartIn
<1>9. SpinTypes'
  <2>1. IsStreakList(streaks)' BY <1>8 DEF IsStreakList, ApartIn, StreakRows
  <2> QED BY <2>1, <1>1, <1>2, <1>7, <1>8 DEF SpinInv, SpinTypes
<1> QED BY <1>1, <1>5, <1>6, <1>7, <1>9 DEF SpinInv, KillIsJustified, KillsAreJustified

(* The scores. *)

Records == {r \in [completed : Nat, failed : Nat, quality : Nat, tokens : Nat] :
              r.completed = 0 => r.quality = 0}
Entries == [agent : Agents, record : Records]

Near(d, b) == -b <= d /\ d <= b
Close(r, e, n) ==
  /\ r.completed = e.completed /\ r.failed = e.failed /\ r.tokens = e.tokens
  /\ Near(2 * (r.quality - e.quality), n * r.completed)

IsAgentList(list) ==
  /\ list \in Seq(Entries)
  /\ \A i, j \in DOMAIN list : list[i].agent = list[j].agent => i = j

ScoreTypes ==
  /\ IsAgentList(stats)
  /\ exact \in [Agents -> Records] /\ exactRows \in [Agents -> Records]
  /\ DOMAIN rows \subseteq Agents /\ rows \in [DOMAIN rows -> Records]

\* A score is as far from the record behind it as the restarts explain, a row one restart farther.
ScoresAreClose ==
  /\ \A i \in DOMAIN stats : Close(stats[i].record, exact[stats[i].agent], restarts)
  /\ \A a \in Agents : (\A i \in DOMAIN stats : stats[i].agent # a) => exact[a] = Unknown
RowsAreClose ==
  /\ \A a \in DOMAIN rows : Close(RestoredRecord(rows[a]), exactRows[a], restarts + 1)
  /\ \A a \in Agents : a \notin DOMAIN rows => exactRows[a] = Unknown
BoardIsFresh == board \subseteq {Leaderboard(stats)}

ScoreInv == ScoreTypes /\ ScoresAreClose /\ RowsAreClose /\ BoardIsFresh

-----------------------------------------------------------------------------
\* More restarts and more tasks leave more room.
LEMMA ProductGrows ==
  ASSUME NEW n \in Nat, NEW c \in Nat
  PROVE  n * c \in Nat /\ n * (c + 1) = n * c + n /\ (n + 1) * c = n * c + c
BY SMT

LEMMA NearGrows ==
  ASSUME NEW d \in Int, NEW b \in Nat, NEW e \in Int, NEW f \in Nat, Near(d, b), Near(e, f)
  PROVE  Near(d, b + f) /\ Near(d + e, b + f)
BY DEF Near

LEMMA TallyIs ==
  ASSUME NEW r \in Records, NEW event \in Events
  PROVE  /\ Tally(r, event) \in Records
         /\ Tally(r, event).completed = r.completed + (IF event.kind = "completed" THEN 1 ELSE 0)
<1>1. r.completed \in Nat /\ r.failed \in Nat /\ r.quality \in Nat /\ r.tokens \in Nat /\ (r.completed = 0 => r.quality = 0)
  BY DEF Records
<1>2. event.kind \in {"failed", "completed"} /\ event.tokens \in Nat
  BY WatchAssumption DEF Events, Failures, Completions
<1>3. Unit \in Nat /\ Unit \div 2 \in Nat
  <2>1. Unit \in Nat BY WatchAssumption
  <2> QED BY <2>1
<1> QED BY <1>1, <1>2, <1>3 DEF Tally, Records

LEMMA TallyClose ==
  ASSUME NEW r \in Records, NEW e \in Records, NEW n \in Nat, NEW event \in Events, Close(r, e, n)
  PROVE  Close(Tally(r, event), Tally(e, event), n)
<1> DEFINE new == Tally(r, event)
           fresh == Tally(e, event)
           more == IF event.kind = "failed" THEN 0 ELSE IF event.pass THEN Unit ELSE Unit \div 2
           one == IF event.kind = "completed" THEN 1 ELSE 0
           d == 2 * (r.quality - e.quality)
           c == r.completed
<1>1. r.quality \in Nat /\ e.quality \in Nat /\ c \in Nat BY DEF Records
<1>2. more \in Nat
  <2>1. Unit \in Nat BY WatchAssumption
  <2> QED BY <2>1
<1>3. /\ new.quality = r.quality + more /\ fresh.quality = e.quality + more /\ new.completed = c + one
      /\ new.completed = fresh.completed /\ new.failed = fresh.failed /\ new.tokens = fresh.tokens
  BY DEF Tally, Close
<1>4. one \in {0, 1} OBVIOUS
<1> HIDE DEF more, one, new, fresh
<1>5. 2 * (new.quality - fresh.quality) = d BY <1>1, <1>2, <1>3
<1>6. d \in Int /\ Near(d, n * c) BY <1>1 DEF Close
<1> HIDE DEF d, c
<1>7. n * c \in Nat /\ n * (c + 1) = n * c + n BY <1>1, ProductGrows
<1>8. Near(d, n * new.completed)
  <2>1. CASE one = 0 BY <2>1, <1>1, <1>3, <1>6
  <2>2. CASE one = 1
    <3> DEFINE p == n * c
    <3>1. p \in Nat /\ n * new.completed = p + n /\ Near(d, p) BY <2>2, <1>3, <1>6, <1>7
    <3> HIDE DEF p
    <3>2. Near(0, n) BY DEF Near
    <3> QED BY <3>1, <3>2, <1>6, NearGrows
  <2> QED BY <2>1, <2>2, <1>4
<1> QED BY <1>3, <1>5, <1>8 DEF Close, new, fresh

\* A rounded quotient is within a half.
LEMMA RoundedIs ==
  ASSUME NEW q \in Nat, NEW c \in Nat, c > 0
  PROVE  Rounded(q, c) \in Nat /\ Rounded(q, c) * c \in Nat /\ Near(2 * (Rounded(q, c) * c - q), c)
<1> DEFINE x == 2 * q + c
           y == 2 * c
           d == x \div y
<1>1. x \in Nat /\ y \in Nat /\ y > 0 OBVIOUS
<1>2. d \in Nat /\ y * d <= x /\ x < y * (d + 1)
  <2> HIDE DEF x, y
  <2> QED BY <1>1, SMT
<1>3. Rounded(q, c) = d BY DEF Rounded
<1> HIDE DEF d
<1>4. d * c \in Nat /\ y * d = 2 * (d * c) /\ y * (d + 1) = 2 * (d * c) + 2 * c BY <1>2, SMT
<1> DEFINE p == d * c
<1>5. p \in Nat /\ 2 * p <= 2 * q + c /\ 2 * q + c < 2 * p + 2 * c BY <1>2, <1>4
<1> HIDE DEF p
<1>6. Near(2 * (p - q), c) BY <1>5 DEF Near
<1> QED BY <1>2, <1>3, <1>5, <1>6 DEF p

\* What a row restores is one rounding away.
LEMMA RestoredIs ==
  ASSUME NEW r \in Records, NEW e \in Records, NEW n \in Nat, Close(r, e, n)
  PROVE  LET saved == [completed |-> r.completed, failed |-> r.failed, quality |-> Average(r), tokens |-> r.tokens] IN
         saved \in Records /\ Close(RestoredRecord(saved), e, n + 1)
<1> DEFINE saved == [completed |-> r.completed, failed |-> r.failed, quality |-> Average(r), tokens |-> r.tokens]
           c == r.completed
           new == RestoredRecord(saved)
<1>1. /\ r.quality \in Nat /\ e.quality \in Nat /\ c \in Nat /\ r.failed \in Nat /\ r.tokens \in Nat
      /\ r.completed = 0 => r.quality = 0
  BY DEF Records
<1>2. /\ new.completed = c /\ new.failed = r.failed /\ new.tokens = r.tokens /\ new.quality = Average(r) * AtLeastOne(c)
  BY DEF RestoredRecord
<1>3. Near(2 * (r.quality - e.quality), n * c) /\ n * c \in Nat /\ (n + 1) * c = n * c + c
  BY <1>1, ProductGrows DEF Close
<1>4. CASE c = 0
  <2>1. Average(r) = 0 BY <1>4 DEF Average
  <2>2. saved \in Records BY <2>1, <1>1 DEF Records
  <2>3. new.quality = 0 BY <2>1, <1>2, <1>4 DEF AtLeastOne
  <2>4. r.quality = 0 BY <1>1, <1>4
  <2>5. Near(2 * (0 - e.quality), 0) BY <2>4, <1>3, <1>4
  <2>6. Near(2 * (new.quality - e.quality), (n + 1) * new.completed) BY <2>3, <2>5, <1>2, <1>3, <1>4
  <2> QED BY <2>2, <2>6, <1>2 DEF Close
<1>5. CASE c # 0
  <2> DEFINE R == Rounded(r.quality, c)
             p == R * c
             b == n * c
  <2>0. c > 0 BY <1>1, <1>5
  <2>1. R \in Nat /\ p \in Nat /\ Near(2 * (p - r.quality), c)
    <3> HIDE DEF c
    <3> QED BY <1>1, <2>0, RoundedIs
  <2>2. Average(r) = R BY <1>1, <1>5 DEF Average
  <2>3. saved \in Records BY <2>1, <2>2, <1>1, <1>5 DEF Records
  <2>4. new.quality = p BY <2>2, <1>1, <1>2, <1>5 DEF AtLeastOne
  <2> HIDE DEF saved, new, R, p, b
  <2>5. b \in Nat /\ (n + 1) * c = b + c /\ Near(2 * (r.quality - e.quality), b) BY <1>3 DEF b
  <2>6. Near(2 * (p - e.quality), b + c)
    <3> DEFINE d1 == 2 * (r.quality - e.quality)
               d2 == 2 * (p - r.quality)
    <3>1. d1 \in Int /\ d2 \in Int /\ d1 + d2 = 2 * (p - e.quality) BY <1>1, <2>1
    <3>2. Near(d1, b) /\ Near(d2, c) BY <2>1, <2>5
    <3> HIDE DEF d1, d2
    <3>3. Near(d1 + d2, b + c) BY <3>1, <3>2, <1>1, <2>5, NearGrows DEF c
    <3> QED BY <3>1, <3>3
  <2>7. Near(2 * (new.quality - e.quality), (n + 1) * new.completed) BY <2>4, <2>5, <2>6, <1>2
  <2> QED BY <2>3, <2>7, <1>2 DEF Close, saved, new
<1> QED BY <1>4, <1>5

LEMMA CloseGrows ==
  ASSUME NEW r \in Records, NEW e \in Records, NEW n \in Nat, Close(r, e, n)
  PROVE  Close(r, e, n + 1)
<1> DEFINE d == 2 * (r.quality - e.quality)
           c == r.completed
           b == n * c
<1>1. d \in Int /\ c \in Nat BY DEF Records
<1>2. Near(d, b) /\ b \in Nat /\ (n + 1) * c = b + c BY <1>1, ProductGrows DEF Close
<1>3. Near(0, c) BY <1>1 DEF Near
<1> HIDE DEF b, d, c
<1>4. Near(d, b + c) BY <1>1, <1>2, <1>3, NearGrows
<1> QED BY <1>2, <1>4 DEF Close, c, d

LEMMA RestoredRecordIs ==
  ASSUME NEW saved \in Records
  PROVE  RestoredRecord(saved) \in Records
<1>1. saved.quality \in Nat /\ saved.completed \in Nat /\ saved.failed \in Nat /\ saved.tokens \in Nat /\ (saved.completed = 0 => saved.quality = 0)
  BY DEF Records
<1> DEFINE m == AtLeastOne(saved.completed)
           q == saved.quality * m
<1>2. m \in Nat BY <1>1 DEF AtLeastOne
<1> HIDE DEF m
<1>3. q \in Nat /\ (saved.quality = 0 => q = 0) BY <1>1, <1>2, SMT
<1>4. RestoredRecord(saved) = [saved EXCEPT !.quality = q] BY DEF RestoredRecord, q, m
<1> HIDE DEF q
<1> QED BY <1>1, <1>3, <1>4 DEF Records

-----------------------------------------------------------------------------
\* The steps of the scorer.

LEMMA PositionIs ==
  ASSUME IsAgentList(stats), NEW a \in KnownAgents
  PROVE  /\ Position(a) \in DOMAIN stats /\ stats[Position(a)].agent = a
         /\ \A i \in DOMAIN stats : stats[i].agent = a => i = Position(a)
<1>1. \E i \in DOMAIN stats : stats[i].agent = a BY DEF KnownAgents
<1>2. Position(a) \in DOMAIN stats /\ stats[Position(a)].agent = a BY <1>1 DEF Position
<1> QED BY <1>2 DEF IsAgentList

LEMMA ScoreStarts == ASSUME WatchInit PROVE ScoreInv
<1>1. Unknown \in Records BY DEF Unknown, Records
<1>2. ScoreTypes
  <2>1. stats = <<>> /\ exact = [a \in Agents |-> Unknown] /\ exactRows = [a \in Agents |-> Unknown] /\ rows = [a \in {} |-> Unknown]
    BY DEF WatchInit
  <2> QED BY <1>1, <2>1 DEF ScoreTypes, IsAgentList
<1> QED BY <1>2 DEF WatchInit, ScoreInv, ScoresAreClose, RowsAreClose, BoardIsFresh

\* Steps that do not touch the scores.
LEMMA ScoreStays ==
  ASSUME ScoreInv, UNCHANGED <<stats, board, exact, rows, exactRows, restarts>>
  PROVE  ScoreInv'
BY DEF ScoreInv, ScoreTypes, ScoresAreClose, RowsAreClose, BoardIsFresh

\* The record of one agent changes, or one agent is new; its exact record changes alike.
LEMMA RecordScores ==
  ASSUME ScoreInv, restarts \in Nat, NEW event \in Events,
         stats' = RecordTask(event), board' = {},
         exact' = [exact EXCEPT ![event.agent] = Tally(@, event)],
         UNCHANGED <<rows, exactRows, restarts>>
  PROVE  ScoreInv'
<1> DEFINE a == event.agent
           old == IF a \in KnownAgents THEN stats[Position(a)].record ELSE Unknown
           entry == [agent |-> a, record |-> Tally(old, event)]
<1>1. a \in Agents BY DEF Events, Failures, Completions
<1>2. /\ IsAgentList(stats) /\ exact \in [Agents -> Records] /\ stats \in Seq(Entries)
      /\ \A i, j \in DOMAIN stats : stats[i].agent = stats[j].agent => i = j
      /\ \A i \in DOMAIN stats : Close(stats[i].record, exact[stats[i].agent], restarts)
      /\ \A b \in Agents : (\A i \in DOMAIN stats : stats[i].agent # b) => exact[b] = Unknown
  BY DEF ScoreInv, ScoreTypes, ScoresAreClose, IsAgentList
<1>3. \A i \in DOMAIN stats : stats[i].agent \in Agents /\ stats[i].record \in Records
  <2>1. \A i \in DOMAIN stats : stats[i] \in Entries BY <1>2
  <2> QED BY <2>1 DEF Entries
<1>4. a \in KnownAgents => /\ Position(a) \in DOMAIN stats /\ stats[Position(a)].agent = a
                           /\ \A i \in DOMAIN stats : stats[i].agent = a => i = Position(a)
  BY <1>2, PositionIs
<1>5. a \notin KnownAgents => (\A i \in DOMAIN stats : stats[i].agent # a) /\ exact[a] = Unknown
  BY <1>1, <1>2 DEF KnownAgents
<1>6. old \in Records /\ Close(old, exact[a], restarts)
  <2>1. CASE a \in KnownAgents
    <3> DEFINE p == Position(a)
    <3>1. p \in DOMAIN stats /\ stats[p].agent = a BY <2>1, <1>4
    <3>2. old = stats[p].record BY <2>1
    <3> HIDE DEF p, old
    <3> QED BY <3>1, <3>2, <1>2, <1>3
  <2>2. CASE a \notin KnownAgents
    <3>1. old = Unknown /\ exact[a] = Unknown BY <2>2, <1>5
    <3>2. Unknown \in Records BY DEF Unknown, Records
    <3>3. Close(Unknown, Unknown, restarts)
      <4>1. Near(0, 0) BY DEF Near
      <4>2. restarts * 0 = 0 OBVIOUS
      <4> QED BY <4>1, <4>2 DEF Close, Unknown
    <3> QED BY <3>1, <3>2, <3>3
  <2> QED BY <2>1, <2>2
<1>7. stats' = IF a \in KnownAgents THEN [stats EXCEPT ![Position(a)] = entry] ELSE Append(stats, entry)
  BY DEF RecordTask
<1>8. /\ entry.agent = a /\ entry.record = Tally(old, event) /\ entry = [agent |-> a, record |-> Tally(old, event)]
  OBVIOUS
<1> HIDE DEF old, entry
<1>9. /\ Tally(old, event) \in Records /\ Tally(exact[a], event) \in Records
      /\ Close(Tally(old, event), Tally(exact[a], event), restarts)
  BY <1>1, <1>2, <1>6, TallyIs, TallyClose
<1>10. entry \in Entries BY <1>1, <1>8, <1>9 DEF Entries
<1>11. /\ exact' \in [Agents -> Records] /\ exact'[a] = Tally(exact[a], event)
       /\ \A b \in Agents : b # a => exact'[b] = exact[b]
  BY <1>1, <1>2, <1>9
<1> HIDE DEF a
<1>12. /\ stats' \in Seq(Entries)
       /\ \A i, j \in DOMAIN stats' : stats'[i].agent = stats'[j].agent => i = j
       /\ \E i \in DOMAIN stats' : stats'[i].agent = a
       /\ \A i \in DOMAIN stats' : stats'[i] = entry \/ (i \in DOMAIN stats /\ stats'[i] = stats[i] /\ stats[i].agent # a)
       /\ \A i \in DOMAIN stats : stats[i].agent = a \/ (i \in DOMAIN stats' /\ stats'[i] = stats[i])
  <2>1. CASE a \in KnownAgents
    <3> DEFINE p == Position(a)
    <3>1. /\ p \in DOMAIN stats /\ stats[p].agent = a
          /\ \A i \in DOMAIN stats : stats[i].agent = a => i = p
      BY <2>1, <1>4
    <3>2. stats' = [stats EXCEPT ![p] = entry] BY <2>1, <1>7
    <3> HIDE DEF p
    <3>3. stats' \in Seq(Entries) BY <3>1, <3>2, <1>2, <1>10
    <3>4. DOMAIN stats' = DOMAIN stats /\ stats'[p] = entry /\ \A i \in DOMAIN stats : i # p => stats'[i] = stats[i]
      BY <3>1, <3>2, <1>2
    <3>5. \A i, j \in DOMAIN stats' : stats'[i].agent = stats'[j].agent => i = j BY <3>1, <3>4, <1>2, <1>8
    <3> QED BY <3>1, <3>3, <3>4, <3>5, <1>8
  <2>2. CASE a \notin KnownAgents
    <3> DEFINE n == Len(stats)
    <3>1. n \in Nat /\ DOMAIN stats = 1 .. n /\ stats' = Append(stats, entry) BY <2>2, <1>2, <1>7
    <3>2. /\ stats' \in Seq(Entries) /\ DOMAIN stats' = 1 .. n + 1
          /\ stats'[n + 1] = entry /\ \A i \in 1 .. n : stats'[i] = stats[i]
      BY <3>1, <1>2, <1>10
    <3> HIDE DEF n
    <3>3. \A i : i \in 1 .. n + 1 <=> i \in 1 .. n \/ i = n + 1 BY <3>1
    <3>4. \A i \in 1 .. n : stats[i].agent # a BY <2>2, <1>5, <3>1
    <3>5. \A i, j \in DOMAIN stats' : stats'[i].agent = stats'[j].agent => i = j
      BY <3>1, <3>2, <3>3, <3>4, <1>2, <1>8
    <3> QED BY <3>1, <3>2, <3>3, <3>4, <3>5, <1>8
  <2> QED BY <2>1, <2>2
<1>13. ScoreTypes' BY <1>11, <1>12 DEF ScoreInv, ScoreTypes, IsAgentList
<1>14. ScoresAreClose'
  <2>1. ASSUME NEW i \in DOMAIN stats' PROVE Close(stats'[i].record, exact'[stats'[i].agent], restarts)
    <3>1. CASE stats'[i] = entry BY <3>1, <1>8, <1>9, <1>11
    <3>2. CASE i \in DOMAIN stats /\ stats'[i] = stats[i] /\ stats[i].agent # a BY <3>2, <1>2, <1>3, <1>11
    <3> QED BY <3>1, <3>2, <1>12
  <2>2. ASSUME NEW b \in Agents, \A i \in DOMAIN stats' : stats'[i].agent # b PROVE exact'[b] = Unknown
    <3>1. b # a BY <2>2, <1>12
    <3>2. \A i \in DOMAIN stats : stats[i].agent # b BY <2>2, <3>1, <1>12
    <3> QED BY <3>1, <3>2, <1>2, <1>11
  <2> QED BY <2>1, <2>2 DEF ScoresAreClose
<1>15. RowsAreClose' BY DEF ScoreInv, RowsAreClose
<1>16. BoardIsFresh' BY DEF BoardIsFresh
<1> QED BY <1>13, <1>14, <1>15, <1>16 DEF ScoreInv

LEMMA ComputeKeepsScores == ASSUME ScoreInv, ComputeScores PROVE ScoreInv'
<1>1. board' = {Leaderboard(stats)} /\ UNCHANGED <<stats, exact, rows, exactRows, restarts>>
  BY DEF ComputeScores, storage
<1>2. BoardIsFresh' BY <1>1 DEF BoardIsFresh
<1> QED BY <1>1, <1>2 DEF ScoreInv, ScoreTypes, ScoresAreClose, RowsAreClose

LEMMA PersistScoresWell ==
  ASSUME ScoreInv, restarts \in Nat, NEW written \in BOOLEAN, PersistScores(written) PROVE ScoreInv'
<1>1. board' = {Leaderboard(stats)} /\ UNCHANGED <<stats, exact, restarts>>
  BY DEF PersistScores
<1>2. BoardIsFresh' BY <1>1 DEF BoardIsFresh
<1>3. CASE ~ written
  <2>1. UNCHANGED <<rows, exactRows>> BY <1>3 DEF PersistScores, storage
  <2> QED BY <2>1, <1>1, <1>2 DEF ScoreInv, ScoreTypes, ScoresAreClose, RowsAreClose
<1>4. CASE written
  <2> DEFINE saved(a) == Row(Leaderboard(stats)[Position(a)])
  <2>1. /\ rows' = [a \in DOMAIN rows \cup KnownAgents |-> IF a \in KnownAgents THEN saved(a) ELSE rows[a]]
        /\ exactRows' = [a \in Agents |-> IF a \in KnownAgents THEN exact[a] ELSE exactRows[a]]
    BY <1>4 DEF PersistScores
  <2>2. /\ IsAgentList(stats) /\ exact \in [Agents -> Records] /\ exactRows \in [Agents -> Records]
        /\ DOMAIN rows \subseteq Agents /\ rows \in [DOMAIN rows -> Records]
        /\ \A i \in DOMAIN stats : Close(stats[i].record, exact[stats[i].agent], restarts)
        /\ \A a \in Agents : (\A i \in DOMAIN stats : stats[i].agent # a) => exact[a] = Unknown
        /\ \A a \in DOMAIN rows : Close(RestoredRecord(rows[a]), exactRows[a], restarts + 1)
        /\ \A a \in Agents : a \notin DOMAIN rows => exactRows[a] = Unknown
    BY DEF ScoreInv, ScoreTypes, ScoresAreClose, RowsAreClose
  <2>3. \A i \in DOMAIN stats : stats[i].agent \in Agents /\ stats[i].record \in Records
    <3>1. \A i \in DOMAIN stats : stats[i] \in Entries BY <2>2 DEF IsAgentList
    <3> QED BY <3>1 DEF Entries
  <2>4. ASSUME NEW a \in KnownAgents PROVE saved(a) \in Records /\ Close(RestoredRecord(saved(a)), exact[a], restarts + 1)
    <3> DEFINE p == Position(a)
               r == stats[p].record
               new == [completed |-> r.completed, failed |-> r.failed, quality |-> Average(r), tokens |-> r.tokens]
    <3>1. p \in DOMAIN stats /\ stats[p].agent = a BY <2>2, PositionIs
    <3>2. saved(a) = new BY <3>1 DEF Row, Leaderboard
    <3>3. a \in Agents /\ r \in Records /\ exact[a] \in Records /\ Close(r, exact[a], restarts) BY <2>2, <2>3, <3>1
    <3> HIDE DEF r, saved
    <3>4. new \in Records /\ Close(RestoredRecord(new), exact[a], restarts + 1) BY <3>3, RestoredIs
    <3> QED BY <3>2, <3>4
  <2>5. KnownAgents \subseteq Agents BY <2>3 DEF KnownAgents
  <2> HIDE DEF saved
  <2>6. /\ DOMAIN rows' = DOMAIN rows \cup KnownAgents /\ DOMAIN rows' \subseteq Agents
        /\ rows' \in [DOMAIN rows' -> Records]
    <3>1. DOMAIN rows' = DOMAIN rows \cup KnownAgents BY <2>1
    <3>2. \A a \in DOMAIN rows' : rows'[a] \in Records BY <2>1, <2>2, <2>4
    <3>3. rows' = [a \in DOMAIN rows' |-> rows'[a]] BY <2>1
    <3> QED BY <3>1, <3>2, <3>3, <2>2, <2>5
  <2>7. exactRows' \in [Agents -> Records] BY <2>1, <2>2
  <2>8. ASSUME NEW a \in DOMAIN rows' PROVE Close(RestoredRecord(rows'[a]), exactRows'[a], restarts + 1)
    <3>1. a \in Agents BY <2>6
    <3>2. CASE a \in KnownAgents
      <4>1. rows'[a] = saved(a) /\ exactRows'[a] = exact[a] BY <3>1, <3>2, <2>1
      <4> QED BY <3>2, <4>1, <2>4
    <3>3. CASE a \notin KnownAgents
      <4>1. a \in DOMAIN rows /\ rows'[a] = rows[a] /\ exactRows'[a] = exactRows[a] BY <3>1, <3>3, <2>1, <2>6
      <4> QED BY <4>1, <2>2
    <3> QED BY <3>2, <3>3
  <2>9. ASSUME NEW a \in Agents, a \notin DOMAIN rows' PROVE exactRows'[a] = Unknown BY <2>1, <2>2, <2>6, <2>9
  <2>10. RowsAreClose' BY <1>1, <2>8, <2>9 DEF RowsAreClose
  <2>11. ScoreTypes' BY <1>1, <2>2, <2>6, <2>7 DEF ScoreTypes, IsAgentList
  <2>12. ScoresAreClose' BY <1>1, <2>2 DEF ScoresAreClose
  <2> QED BY <1>2, <2>10, <2>11, <2>12 DEF ScoreInv
<1> QED BY <1>3, <1>4

\* An order lists every agent once.
LEMMA OrdersAre ==
  ASSUME NEW S \in SUBSET Agents, NEW order \in Orders(S)
  PROVE  LET n == Cardinality(S) IN
         /\ n \in Nat /\ DOMAIN order = 1 .. n
         /\ \A i \in 1 .. n : order[i] \in S
         /\ \A i, j \in 1 .. n : order[i] = order[j] => i = j
         /\ \A a \in S : \E i \in 1 .. n : order[i] = a
<1> DEFINE n == Cardinality(S)
<1>1. IsFiniteSet(S) /\ n \in Nat BY WatchAssumption, FS_Subset, FS_CardinalityType
<1>2. order \in [1 .. n -> S] /\ \A a \in S : \E i \in 1 .. n : order[i] = a BY DEF Orders
<1>3. IsFiniteSet(1 .. n) /\ Cardinality(1 .. n) = n
  <2> HIDE DEF n
  <2>1. IsFiniteSet(1 .. n) /\ Cardinality(1 .. n) = IF 1 > n THEN 0 ELSE n - 1 + 1 BY <1>1, FS_Interval
  <2> QED BY <2>1, <1>1
<1>4. order \in Surjection(1 .. n, S) BY <1>2 DEF Surjection
<1>5. IsInjective(order)
  <2> DEFINE I == 1 .. n
  <2>1. IsFiniteSet(I) /\ Cardinality(I) = Cardinality(S) /\ order \in Surjection(I, S) BY <1>3, <1>4
  <2> HIDE DEF I, n
  <2>2. order \in Injection(I, S) BY <2>1, <1>1, FS_SurjSameCardinalityImpliesInj
  <2> QED BY <2>2 DEF Injection
<1> QED BY <1>1, <1>2, <1>5 DEF IsInjective

LEMMA RestartScores ==
  ASSUME ScoreInv, restarts \in Nat, NEW read \in BOOLEAN, RestartGovernor(read) PROVE ScoreInv'
<1> DEFINE S == IF read THEN DOMAIN rows ELSE {}
           n == Cardinality(S)
<1>1. /\ exact' = (IF read THEN exactRows ELSE [a \in Agents |-> Unknown]) /\ board' = {} /\ restarts' = restarts + 1
      /\ UNCHANGED <<rows, exactRows>>
  BY DEF RestartGovernor, storage
<1>2. PICK order \in Orders(S) :
        stats' = [i \in DOMAIN order |-> [agent |-> order[i], record |-> RestoredRecord(rows[order[i]])]]
  BY DEF RestartGovernor
<1>3. /\ exactRows \in [Agents -> Records] /\ DOMAIN rows \subseteq Agents /\ rows \in [DOMAIN rows -> Records]
      /\ \A a \in DOMAIN rows : Close(RestoredRecord(rows[a]), exactRows[a], restarts + 1)
      /\ \A a \in Agents : a \notin DOMAIN rows => exactRows[a] = Unknown
  BY DEF ScoreInv, ScoreTypes, RowsAreClose
<1>4. S \in SUBSET Agents /\ S \in SUBSET DOMAIN rows BY <1>3
<1>5. Unknown \in Records BY DEF Unknown, Records
<1> HIDE DEF S
<1>6. /\ n \in Nat /\ DOMAIN order = 1 .. n
      /\ \A i \in 1 .. n : order[i] \in S
      /\ \A i, j \in 1 .. n : order[i] = order[j] => i = j
      /\ \A a \in S : \E i \in 1 .. n : order[i] = a
  BY <1>4, OrdersAre
<1> HIDE DEF n
<1> DEFINE entry(i) == [agent |-> order[i], record |-> RestoredRecord(rows[order[i]])]
<1>7. ASSUME NEW i \in 1 .. n PROVE entry(i) \in Entries
  <2>1. order[i] \in Agents /\ rows[order[i]] \in Records BY <1>3, <1>4, <1>6
  <2>2. RestoredRecord(rows[order[i]]) \in Records BY <2>1, RestoredRecordIs
  <2> QED BY <2>1, <2>2 DEF Entries
<1>8. stats' \in Seq(Entries) /\ DOMAIN stats' = 1 .. n /\ \A i \in 1 .. n : stats'[i] = entry(i)
  <2>1. stats' = [i \in 1 .. n |-> entry(i)] BY <1>2, <1>6
  <2> HIDE DEF entry
  <2> QED BY <2>1, <1>6, <1>7
<1>9. \A i \in 1 .. n : entry(i).agent = order[i] /\ entry(i).record = RestoredRecord(rows[order[i]]) OBVIOUS
<1> HIDE DEF entry
<1>10. ScoreTypes'
  <2>1. exact' \in [Agents -> Records] BY <1>1, <1>3, <1>5
  <2>2. IsAgentList(stats') BY <1>6, <1>8, <1>9 DEF IsAgentList
  <2> QED BY <2>1, <2>2, <1>1, <1>3 DEF ScoreTypes, IsAgentList
<1>11. ScoresAreClose'
  <2>1. ASSUME NEW i \in DOMAIN stats' PROVE Close(stats'[i].record, exact'[stats'[i].agent], restarts + 1)
    <3> DEFINE a == order[i]
    <3>1. i \in 1 .. n /\ stats'[i].agent = a /\ stats'[i].record = RestoredRecord(rows[a]) /\ a \in S BY <1>6, <1>8, <1>9
    <3>2. read /\ a \in DOMAIN rows BY <3>1, <1>4 DEF S
    <3> HIDE DEF a
    <3> QED BY <3>1, <3>2, <1>1, <1>3
  <2>2. ASSUME NEW a \in Agents, \A i \in DOMAIN stats' : stats'[i].agent # a PROVE exact'[a] = Unknown
    <3>1. a \notin S BY <2>2, <1>6, <1>8, <1>9
    <3> QED BY <3>1, <1>1, <1>3 DEF S
  <2> QED BY <2>1, <2>2, <1>1 DEF ScoresAreClose
<1>12. RowsAreClose'
  <2> SUFFICES ASSUME NEW a \in DOMAIN rows PROVE Close(RestoredRecord(rows[a]), exactRows[a], (restarts + 1) + 1)
    BY <1>1, <1>3 DEF RowsAreClose
  <2> DEFINE r == RestoredRecord(rows[a])
             m == restarts + 1
  <2>1. r \in Records /\ exactRows[a] \in Records /\ Close(r, exactRows[a], m) /\ m \in Nat
    BY <1>3, RestoredRecordIs
  <2> HIDE DEF r, m
  <2>2. Close(r, exactRows[a], m + 1) BY <2>1, CloseGrows
  <2> QED BY <2>2 DEF r, m
<1>13. BoardIsFresh' BY <1>1 DEF BoardIsFresh
<1> QED BY <1>10, <1>11, <1>12, <1>13 DEF ScoreInv

-----------------------------------------------------------------------------
WatchInv == SpinInv /\ ScoreInv

LEMMA WatchInvariant == WatchSpec => []WatchInv
<1>1. ASSUME WatchInit PROVE WatchInv BY <1>1, SpinStarts, ScoreStarts DEF WatchInv
<1>2. ASSUME WatchInv, [WatchNext]_watchVars PROVE WatchInv'
  <2> USE <1>2 DEF WatchInv
  <2>0. restarts \in Nat /\ (message.phase = "handle" => message.event \in Events)
    BY DEF SpinInv, SpinTypes, NoMessage, Messages
  <2>1. ASSUME NEW event \in Completions \cup Failures, Deliver(event) PROVE WatchInv'
    <3>1. event \in Events BY DEF Events
    <3>2. ScoreInv' BY <2>1, ScoreStays DEF Deliver, scoring, storage
    <3> QED BY <2>1, <3>1, <3>2, DeliverSpins
  <2>3. CASE HandleTask
    <3>1. message.event \in Events BY <2>0, <2>3 DEF HandleTask
    <3>2. SpinInv' BY <2>3, <3>1, EventTypes, FailureSpins, CompletionSpins
    <3>3. ScoreInv' BY <2>0, <2>3, <3>1, RecordScores DEF HandleTask, DropBoard, storage
    <3> QED BY <3>2, <3>3
  <2>4. CASE KillSpinningAgent
    <3>1. ScoreInv' BY <2>4, ScoreStays DEF KillSpinningAgent, scoring, storage
    <3> QED BY <2>4, <3>1, KillSpins
  <2>5. CASE AckMessage
    <3>1. ScoreInv' BY <2>5, ScoreStays DEF AckMessage, scoring, storage
    <3> QED BY <2>5, <3>1, AckSpins
  <2>6. CASE LeaveUnacked
    <3>1. ScoreInv' BY <2>6, ScoreStays DEF LeaveUnacked, scoring, storage
    <3> QED BY <2>6, <3>1, LeaveSpins
  <2>7. ASSUME NEW agent \in Agents, ResetAgent(agent) PROVE WatchInv'
    <3>1. ScoreInv' BY <2>7, ScoreStays DEF ResetAgent, scoring, storage
    <3> QED BY <2>7, <3>1, ResetSpins
  <2>8. CASE ComputeScores
    <3>1. SpinInv' BY <2>8, SpinKept DEF ComputeScores, spinning
    <3> QED BY <2>8, <3>1, ComputeKeepsScores
  <2>9. ASSUME NEW written \in BOOLEAN, PersistScores(written) PROVE WatchInv'
    <3>1. SpinInv' BY <2>9, SpinKept DEF PersistScores, spinning
    <3> QED BY <2>0, <2>9, <3>1, PersistScoresWell
  <2>10. ASSUME NEW read \in BOOLEAN, RestartGovernor(read) PROVE WatchInv'
    BY <2>0, <2>10, RestartSpins, RestartScores
  <2>11. CASE UNCHANGED watchVars
    <3>1. SpinInv' BY <2>11, SpinKept DEF watchVars, spinning
    <3>2. ScoreInv' BY <2>11, ScoreStays DEF watchVars, scoring, storage
    <3> QED BY <3>1, <3>2
  <2> QED BY <2>1, <2>3, <2>4, <2>5, <2>6, <2>7, <2>8, <2>9, <2>10, <2>11 DEF WatchNext, MessageStep
<1> QED BY <1>1, <1>2, PTL DEF WatchSpec

\* Every agent is listed once.
LEMMA AgentsListedOnce ==
  ASSUME IsAgentList(stats)
  PROVE  Cardinality(KnownAgents) = Len(stats) /\ KnownAgents \subseteq Agents
<1> DEFINE n == Len(stats)
           f == [i \in 1 .. n |-> stats[i].agent]
<1>1. n \in Nat /\ DOMAIN stats = 1 .. n /\ \A i \in 1 .. n : stats[i] \in Entries BY DEF IsAgentList
<1>2. KnownAgents \subseteq Agents BY <1>1 DEF KnownAgents, Entries
<1>3. KnownAgents = {stats[i].agent : i \in 1 .. n} BY <1>1 DEF KnownAgents
<1>4. \A i, j \in 1 .. n : stats[i].agent = stats[j].agent => i = j BY <1>1 DEF IsAgentList
<1> HIDE DEF n
<1>5. f \in Bijection(1 .. n, KnownAgents)
  <2>1. f \in [1 .. n -> KnownAgents] BY <1>3
  <2>2. \A i, j \in 1 .. n : f[i] = f[j] => i = j BY <1>4
  <2>3. \A a \in KnownAgents : \E i \in 1 .. n : f[i] = a BY <1>3
  <2> HIDE DEF f
  <2>4. f \in Injection(1 .. n, KnownAgents) BY <2>1, <2>2 DEF Injection, IsInjective
  <2>5. f \in Surjection(1 .. n, KnownAgents) BY <2>1, <2>3 DEF Surjection
  <2> QED BY <2>4, <2>5 DEF Bijection
<1>6. IsFiniteSet(1 .. n) /\ Cardinality(1 .. n) = n
  <2>1. IsFiniteSet(1 .. n) /\ Cardinality(1 .. n) = IF 1 > n THEN 0 ELSE n - 1 + 1 BY <1>1, FS_Interval
  <2> QED BY <2>1, <1>1
<1>7. Cardinality(KnownAgents) = n
  <2> DEFINE I == 1 .. n
  <2>1. IsFiniteSet(I) /\ Cardinality(I) = n /\ f \in Bijection(I, KnownAgents) BY <1>5, <1>6
  <2> HIDE DEF f, I
  <2>2. ExistsBijection(I, KnownAgents) BY <2>1 DEF ExistsBijection
  <2>3. Cardinality(I) = Cardinality(KnownAgents) BY <2>1, <2>2, FS_Bijection
  <2> QED BY <2>1, <2>3
<1> QED BY <1>2, <1>7 DEF n

ScoreIn(list, a) ==
  LET found == {i \in DOMAIN list : list[i].agent = a}
  IN IF found = {} THEN [agent |-> a, rank |-> Len(list) + 1, score |-> 0,
                         completed |-> 0, failed |-> 0, quality |-> 0, tokens |-> 0]
     ELSE list[CHOOSE i \in found : TRUE]

\* A cached leaderboard is the current one.
LEMMA ScoreIsLookedUp == ASSUME BoardIsFresh, NEW a PROVE GetAgentScore(a) = ScoreIn(Leaderboard(stats), a)
<1> DEFINE current == IF board # {} THEN CHOOSE b \in board : TRUE ELSE Leaderboard(stats)
<1>1. GetAgentScore(a) = ScoreIn(current, a) BY DEF GetAgentScore, ScoreIn
<1>2. current = Leaderboard(stats) BY DEF BoardIsFresh
<1> QED BY <1>1, <1>2

\* For any number of agents, tasks and messages, acknowledged or not, with restarts at any time:
\* an agent that is killed for spinning failed as often as spin_max_retries says; one that spins
\* is killed unless its streak was forgotten or a message was lost; the cached leaderboard is
\* the current one; and what a restart restores differs from what it lost only by the rounding
\* of averages (efficiency_scorer.py, spin_detector.py, monitor.py).
THEOREM WatchHolds == WatchSpec => []AgentsAreJudgedFairly
<1>1. ASSUME WatchInv PROVE AgentsAreJudgedFairly
  <2>0. SpinInv /\ ScoreInv BY <1>1 DEF WatchInv
  <2>1. WatchTypeOK
    <3>1. Len(streaks) <= MaxStreaks /\ \A i \in DOMAIN streaks : streaks[i] \in StreakRows
      BY <2>0 DEF SpinInv, SpinTypes, IsStreakList
    <3>2. Cardinality(KnownAgents) = Len(stats) /\ KnownAgents \subseteq Agents
      BY <2>0, AgentsListedOnce DEF ScoreInv, ScoreTypes
    <3>3. \A i \in DOMAIN stats : stats[i].record \in Records
      <4>1. \A i \in DOMAIN stats : stats[i] \in Entries BY <2>0 DEF ScoreInv, ScoreTypes, IsAgentList
      <4> QED BY <4>1 DEF Entries
    <3>4. DOMAIN rows \subseteq Agents BY <2>0 DEF ScoreInv, ScoreTypes
    <3>5. message.phase \in {"none", "handle", "kill", "ack"} BY <2>0 DEF SpinInv, SpinTypes, Messages, NoMessage
    <3> QED BY <3>1, <3>2, <3>3, <3>4, <3>5 DEF WatchTypeOK, StreakRows, Records
  <2>2. KillsAreJustified BY <2>0 DEF SpinInv
  <2>3. SpinnersAreKilled
    <3> SUFFICES ASSUME message = NoMessage, unacked = 0, restarts = 0,
                        NEW pair \in Pairs, runs[pair] >= SpinRetries, pair \notin forgotten
                 PROVE  \E k \in kills : k.pair = pair
      BY DEF SpinnersAreKilled
    <3>1. CountsAreComplete(pair) BY <2>0 DEF SpinInv, Undisturbed
    <3>2. ~ Handling(pair) /\ message.phase # "kill" BY DEF Handling, NoMessage
    <3> QED BY <3>1, <3>2 DEF CountsAreComplete
  <2>4. LookupsAreFresh
    <3> DEFINE fresh == Leaderboard(stats)
               spot(a) == {i \in DOMAIN fresh : fresh[i].agent = a}
               none(a, n) == [agent |-> a, rank |-> n + 1, score |-> 0,
                              completed |-> 0, failed |-> 0, quality |-> 0, tokens |-> 0]
               first(a) == fresh[CHOOSE i \in spot(a) : TRUE]
    <3>1. \A a : GetAgentScore(a) = ScoreIn(fresh, a)
      BY <2>0, ScoreIsLookedUp DEF ScoreInv
    <3>2. Len(fresh) = Len(stats)
      <4>1. Len(stats) \in Nat /\ DOMAIN stats = 1 .. Len(stats) BY <2>0 DEF ScoreInv, ScoreTypes, IsAgentList
      <4>2. DOMAIN fresh = 1 .. Len(stats) BY <4>1 DEF Leaderboard
      <4> HIDE DEF fresh
      <4> QED BY <4>1, <4>2
    <3>3. \A a : GetAgentScore(a) = IF spot(a) = {} THEN none(a, Len(fresh)) ELSE first(a)
      BY <3>1 DEF ScoreIn
    <3> HIDE DEF none, first, spot, fresh
    <3>4. \A a \in Agents : GetAgentScore(a) = IF spot(a) # {} THEN first(a) ELSE none(a, Len(stats)) BY <3>2, <3>3
    <3> QED BY <3>4 DEF LookupsAreFresh, none, first, spot, fresh
  <2>5. RestoredScoresAreClose
    <3> SUFFICES ASSUME NEW i \in DOMAIN stats
                 PROVE  LET r == stats[i].record  e == exact[stats[i].agent] IN
                        /\ r.completed = e.completed /\ r.failed = e.failed /\ r.tokens = e.tokens
                        /\ 2 * (r.quality - e.quality) \in -(restarts * r.completed) .. restarts * r.completed
      BY DEF RestoredScoresAreClose
    <3> DEFINE r == stats[i].record
               e == exact[stats[i].agent]
               d == 2 * (r.quality - e.quality)
               b == restarts * r.completed
    <3>1. stats[i] \in Entries /\ exact \in [Agents -> Records] /\ restarts \in Nat
      BY <2>0 DEF ScoreInv, ScoreTypes, IsAgentList, SpinInv, SpinTypes
    <3>2. r \in Records /\ e \in Records /\ Close(r, e, restarts)
      BY <2>0, <3>1 DEF Entries, ScoreInv, ScoresAreClose
    <3> HIDE DEF r, e
    <3>3. d \in Int /\ r.completed \in Nat BY <3>2 DEF Records
    <3>4. b \in Nat /\ Near(d, b) BY <3>1, <3>2, <3>3, ProductGrows DEF Close
    <3> HIDE DEF d, b
    <3>5. d \in -b .. b BY <3>3, <3>4 DEF Near
    <3> QED BY <3>2, <3>5 DEF Close, r, e, d, b
  <2> QED BY <2>1, <2>2, <2>3, <2>4, <2>5 DEF AgentsAreJudgedFairly
<1> QED BY <1>1, WatchInvariant, PTL
==============================================================================
