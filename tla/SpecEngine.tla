------------------------------ MODULE SpecEngine ------------------------------
(***************************************************************************)
(* The Spec Engine (services/spec-engine): the parser that turns a model's *)
(* answer into a spec or into questions, the validator, the routes with    *)
(* their store of specs, and the specification workflow.  A request is     *)
(* suspended only while it waits for the language model:                   *)
(*                                                                         *)
(*   create    parse -> idle                                               *)
(*   clarify   parse -> idle                                               *)
(*   review    simulate -> evaluate -> idle                                *)
(*   workflow  parse -> validate -> simulate -> evaluate -> idle           *)
(***************************************************************************)
EXTENDS Integers, Sequences, FiniteSets

CONSTANTS
    SpecClients,   \* requests and workflows under way
    DraftShapes,   \* shapes of the specs the model writes
    MaxSpecs,      \* bound: specs created, the ids are 1 .. MaxSpecs
    MaxParses      \* bound: answers of the model that are parsed

VARIABLES
    specs,    \* _spec_store: id -> the stored spec
    work,     \* client -> what it waits for
    replies,  \* client -> its last reply
    drafts,   \* specs the model has produced: each gets an id and a version of its own
    parses

specVars == <<specs, work, replies, drafts, parses>>

NoWork == [step |-> "idle", id |-> 0, spec |-> {}]
NoReply == [kind |-> "none"]

\* What the validator tells apart in a spec; DraftShapes is a subset.
Shapes == [intent : BOOLEAN, criteria : {"none", "described", "blank"}, questions : BOOLEAN]

ASSUME SpecAssumption == MaxSpecs \in Nat /\ MaxParses \in Nat /\ DraftShapes \subseteq Shapes

\* The ids of criteria are generated, so they never collide.
Validate(shape) ==
    (IF shape.intent THEN {} ELSE {"no intent"})
    \cup (IF shape.criteria = "none" /\ ~shape.questions THEN {"no criteria"} ELSE {})
    \cup (IF shape.criteria = "blank" THEN {"blank criterion"} ELSE {})

\* Answers of the language model, behind an optional code fence: JSON of either format, JSON
\* that lacks what the parser needs, no JSON; or the call fails.
ModelAnswers == [kind : {"clarification", "malformed", "no json", "failed"}] \cup [kind : {"spec"}, shape : DraftShapes]

\* SpecParser.parse: {a spec}, {} for questions, or an exception.  An empty text asks its
\* question without a call.
Raises(answer) == answer.kind \in {"malformed", "failed"}
IsSpec(answer) == answer.kind = "spec"

\* The spec an answer becomes, with the next id the generator gives.
Draft(answer) == [id |-> drafts + 1, version |-> drafts + 1, shape |-> answer.shape]

Begin(client, step, id, spec) ==
    /\ work[client].step = "idle"
    /\ work' = [work EXCEPT ![client] = [step |-> step, id |-> id, spec |-> spec]]

Reply(client, reply) ==
    /\ work' = [work EXCEPT ![client] = NoWork]
    /\ replies' = [replies EXCEPT ![client] = reply]

Refuse(client, status) ==
    /\ work[client].step = "idle"
    /\ replies' = [replies EXCEPT ![client] = [kind |-> "refused", status |-> status]]
    /\ UNCHANGED work

-----------------------------------------------------------------------------
(* Routes *)

\* POST /specs with a text; an empty one is answered with a question at once.
CreateSpec(client) ==
    /\ Begin(client, "create", 0, {})
    /\ UNCHANGED <<specs, replies, drafts, parses>>

CreateEmptySpec(client) ==
    /\ work[client].step = "idle"
    /\ Reply(client, [kind |-> "questions"])
    /\ UNCHANGED <<specs, drafts, parses>>

\* POST /specs/{id}/clarify: the text is the one the spec was created from, the answers are
\* only those of this request.
ClarifySpec(client, id) ==
    /\ IF id \in DOMAIN specs
       THEN Begin(client, "clarify", id, {}) /\ UNCHANGED replies
       ELSE Refuse(client, 404)
    /\ UNCHANGED <<specs, drafts, parses>>

\* Fault: the id of the new spec is kept.
UnderItsIdRenamed(id, spec) == spec
\* The client goes on using the id in the path.
UnderItsId(id, spec) == [spec EXCEPT !.id = id]

\* Fault: the old spec stays beside the new one.
StoreResultMerged(id, found) ==
    [i \in DOMAIN specs \cup (IF found = {} THEN {} ELSE {id}) |->
        (IF i = id THEN found ELSE {}) \cup (IF i \in DOMAIN specs THEN specs[i] ELSE {})]
\* Only a spec is stored.
StoreResult(id, found) ==
    IF found = {} THEN specs ELSE [i \in DOMAIN specs \cup {id} |-> IF i = id THEN found ELSE specs[i]]

ParseReturns(client, answer) ==
    LET found == IF ~IsSpec(answer) THEN {}
                 ELSE IF work[client].step = "clarify" THEN {UnderItsId(work[client].id, Draft(answer))}
                 ELSE {Draft(answer)}
        id == IF work[client].step = "clarify" THEN work[client].id ELSE drafts + 1
    IN
    /\ work[client].step \in {"create", "clarify"} /\ parses < MaxParses
    /\ IsSpec(answer) => drafts < MaxSpecs
    /\ parses' = parses + 1
    /\ drafts' = IF IsSpec(answer) THEN drafts + 1 ELSE drafts
    /\ IF Raises(answer)
       THEN Reply(client, [kind |-> "refused", status |-> 500]) /\ UNCHANGED specs
       ELSE /\ specs' = StoreResult(id, found)
            /\ Reply(client, IF found = {} THEN [kind |-> "questions"]
                             ELSE [kind |-> "spec", spec |-> found, issues |-> Validate(answer.shape)])

\* GET /specs/{id}.
GetSpec(client, id) ==
    /\ work[client].step = "idle"
    /\ IF id \in DOMAIN specs
       THEN Reply(client, [kind |-> "spec", spec |-> specs[id],
                           issues |-> UNION {Validate(s.shape) : s \in specs[id]}])
       ELSE Refuse(client, 404)
    /\ UNCHANGED <<specs, drafts, parses>>

\* POST /specs/{id}/review works on the spec as it was when the request came.
ReviewSpec(client, id) ==
    /\ IF id \in DOMAIN specs
       THEN IF specs[id] = {} THEN Refuse(client, 400)
            ELSE Begin(client, "simulate", id, specs[id]) /\ UNCHANGED replies
       ELSE Refuse(client, 404)
    /\ UNCHANGED <<specs, drafts, parses>>

\* StakeholderSimulator.simulate and ScopeGovernor.evaluate: a failed call or an answer that
\* cannot be read yields the default report, never an exception.
SimulateReturns(client) ==
    /\ work[client].step = "simulate"
    /\ work' = [work EXCEPT ![client].step = "evaluate"]
    /\ UNCHANGED <<specs, replies, drafts, parses>>

\* Fault: the second half looks the spec up again.
EvaluatedAgain(client) == IF work[client].id \in DOMAIN specs THEN specs[work[client].id] ELSE work[client].spec
Evaluated(client) == work[client].spec

EvaluateReturns(client) ==
    /\ work[client].step = "evaluate"
    /\ Reply(client, [kind |-> "review", concerns |-> work[client].spec, scope |-> Evaluated(client)])
    /\ UNCHANGED <<specs, drafts, parses>>

-----------------------------------------------------------------------------
(* SpecificationWorkflow: nothing is stored; Temporal repeats an activity  *)
(* that raises.                                                            *)

StartSpecWorkflow(client) ==
    /\ Begin(client, "parse", 0, {})
    /\ UNCHANGED <<specs, replies, drafts, parses>>

ParseActivity(client, answer) ==
    /\ work[client].step = "parse" /\ parses < MaxParses
    /\ IsSpec(answer) => drafts < MaxSpecs
    /\ parses' = parses + 1
    /\ drafts' = IF IsSpec(answer) THEN drafts + 1 ELSE drafts
    /\ IF Raises(answer) THEN UNCHANGED <<work, replies>>
       ELSE IF IsSpec(answer)
       THEN /\ work' = [work EXCEPT ![client] = [step |-> "validate", id |-> 0, spec |-> {Draft(answer)}]]
            /\ UNCHANGED replies
       ELSE Reply(client, [kind |-> "questions"])
    /\ UNCHANGED specs

ValidateActivity(client) ==
    /\ work[client].step = "validate"
    /\ work' = [work EXCEPT ![client].step = "simulate"]
    /\ UNCHANGED <<specs, replies, drafts, parses>>

-----------------------------------------------------------------------------
SpecInit ==
    /\ specs = [i \in {} |-> {}]
    /\ work = [client \in SpecClients |-> NoWork]
    /\ replies = [client \in SpecClients |-> NoReply]
    /\ drafts = 0
    /\ parses = 0

SpecNext ==
    \E client \in SpecClients :
        \/ CreateSpec(client) \/ CreateEmptySpec(client) \/ StartSpecWorkflow(client)
        \/ \E id \in 1 .. MaxSpecs : ClarifySpec(client, id) \/ GetSpec(client, id) \/ ReviewSpec(client, id)
        \/ \E answer \in ModelAnswers : ParseReturns(client, answer) \/ ParseActivity(client, answer)
        \/ ValidateActivity(client) \/ SimulateReturns(client) \/ EvaluateReturns(client)

EngineSpec == SpecInit /\ [][SpecNext]_specVars

-----------------------------------------------------------------------------
\* Every id has at most one spec, every client waits for one thing.
SpecTypeOK ==
    /\ DOMAIN specs \subseteq 1 .. MaxSpecs
    /\ \A id \in DOMAIN specs : specs[id] \subseteq [id : 1 .. MaxSpecs, version : 1 .. MaxSpecs, shape : Shapes]
                                /\ Cardinality(specs[id]) <= 1
    /\ \A client \in SpecClients :
        work[client].step \in {"idle", "create", "clarify", "parse", "validate", "simulate", "evaluate"}
    /\ drafts \in 0 .. MaxSpecs /\ parses \in 0 .. MaxParses

\* Whatever the model answers to however many clarifications at a time, a spec that was
\* created can be fetched under its id for ever, as a spec and with that id in it.
SpecsStayUnderTheirId ==
    /\ \A id \in DOMAIN specs : \E spec \in specs[id] : spec.id = id
    /\ \A client \in SpecClients :
        replies[client].kind = "spec" => \A spec \in replies[client].spec : spec.id \in DOMAIN specs

\* The two halves of a review are about one version of the spec, although a clarification may
\* replace it while the stakeholders are simulated.
ReviewsAreConsistent ==
    \A client \in SpecClients :
        replies[client].kind = "review" => replies[client].concerns = replies[client].scope

\* Requests that overlap while the model answers neither lose a spec nor mix two versions of it
\* in a review.
SpecsStayWhole ==
    /\ SpecTypeOK
    /\ SpecsStayUnderTheirId
    /\ ReviewsAreConsistent
=============================================================================
