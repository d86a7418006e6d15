--------------------------- MODULE FailureTaxonomy ----------------------------
(***************************************************************************)
(* Failure Taxonomy: the classifier, the records it leaves, the events     *)
(* that announce them, the classification activity that Temporal retries,  *)
(* and the post-mortem.                                                    *)
(*                                                                         *)
(* A text is abstracted to the set of rules whose pattern it matches, a    *)
(* confidence to hundredths.  A classification ends in one commit; the     *)
(* commit, the publication and the answer of the language model may each   *)
(* fail.                                                                   *)
(***************************************************************************)
EXTENDS Integers, Sequences, FiniteSets

CONSTANTS
    Callers,     \* concurrent deliveries, requests and activities
    MaxFailures  \* bound: rows of failure_records

ASSUME TaxonomyAssumption == MaxFailures \in Nat

VARIABLES
    taxonomy,   \* [threshold, llm]: the configuration and whether a client exists
    failures,   \* rows of failure_records
    announced,  \* FAILURE_CLASSIFIED events: the row and the code they name
    caller,     \* caller -> [at, via, text, layer, class, row]
    postMortem  \* a PostMortemWorkflow

taxonomyVars == <<taxonomy, failures, announced, caller, postMortem>>

FailureCodes == {"f1", "f2", "f3", "f4", "f5", "f6", "f7", "f8", "f9"}
Severities == {"low", "medium", "high", "critical"}

\* The rules in the order they are tried.
RulePatterns == <<"f5", "f6", "f4", "f9", "f8", "f1", "f2", "f3", "f7">>

DefaultedLayers ==
    {"compilation", "unit_tests", "integration_tests", "adversarial", "spec_compliance", "architecture", "regression"}
LayerDefaults ==
    [layer \in DefaultedLayers |->
        CASE layer = "adversarial" -> "f9"
          [] layer = "spec_compliance" -> "f1"
          [] layer = "architecture" -> "f2"
          [] layer = "regression" -> "f8"
          [] OTHER -> "f6"]

FailureTexts == {{}, {"f4", "f6"}}
FailureLayers == {"none", "adversarial"}
Vias == {"event", "route", "activity"}

Unclassified == [code |-> "none", confidence |-> 0]
IdleCaller == [at |-> "idle", via |-> "route", text |-> {}, layer |-> "none", class |-> Unclassified, row |-> 0]

FailureRows ==
    [code : FailureCodes, confidence : 0 .. 100, severity : Severities, text : FailureTexts,
     project : {"none"}, resolved : {FALSE}]

TaxonomyInit ==
    /\ taxonomy \in [threshold : {70, 90}, llm : BOOLEAN]
    /\ failures = <<>> /\ announced = {}
    /\ caller = [c \in Callers |-> IdleCaller]
    /\ postMortem = [at |-> "none", found |-> 0, completed |-> FALSE]

-----------------------------------------------------------------------------
(* FailureClassifier. *)

\* The first rule a text matches.
Matches(text, i) == RulePatterns[i] \in text
FirstRule(text) ==
    CHOOSE i \in DOMAIN RulePatterns : Matches(text, i) /\ \A j \in 1 .. i - 1 : ~ Matches(text, j)

\* Nothing when neither a rule nor the layer says anything.
ClassifyByRules(text, layer) ==
    IF \E i \in DOMAIN RulePatterns : Matches(text, i)
    THEN [code |-> RulePatterns[FirstRule(text)], confidence |-> 85]
    ELSE IF layer \in DOMAIN LayerDefaults
    THEN [code |-> LayerDefaults[layer], confidence |-> 50]
    ELSE Unclassified

\* What _parse_llm_classification makes of an answer: a code by its value or by
\* its first two letters, otherwise a logic bug, with the confidence cut to 0..1.
\* An answer that is no JSON object, or a call that fails, raises.
LlmAnswers == {[code |-> "f2", confidence |-> 100]}
LlmRaises == Unclassified

\* Mutants: the model is asked before the rules; no default at the end.
ClassifyModelFirst(text, layer, answer) ==
    LET rule == ClassifyByRules(text, layer) IN
    IF taxonomy.llm /\ answer # LlmRaises THEN answer
    ELSE IF rule # Unclassified THEN rule
    ELSE [code |-> "f6", confidence |-> 30]

ClassifyNoDefault(text, layer, answer) ==
    LET rule == ClassifyByRules(text, layer) IN
    IF rule # Unclassified /\ rule.confidence >= taxonomy.threshold THEN rule
    ELSE IF taxonomy.llm /\ answer # LlmRaises THEN answer
    ELSE rule

Classify(text, layer, answer) ==
    LET rule == ClassifyByRules(text, layer) IN
    IF rule # Unclassified /\ rule.confidence >= taxonomy.threshold THEN rule
    ELSE IF taxonomy.llm /\ answer # LlmRaises THEN answer
    ELSE IF rule # Unclassified THEN rule
    ELSE [code |-> "f6", confidence |-> 30]

SeverityForCode(code) ==
    CASE code = "f9" -> "critical"
      [] code \in {"f2", "f3"} -> "high"
      [] code = "f7" -> "low"
      [] OTHER -> "medium"

-----------------------------------------------------------------------------
(* Deliveries, requests and activities: classify, then persist. *)

BeginClassification(c, request) ==
    /\ caller[c].at = "idle"
    /\ \E answer \in LlmAnswers \cup {LlmRaises} :
         caller' = [caller EXCEPT ![c] =
             [at |-> "classified", via |-> request.via, text |-> request.text,
              layer |-> IF request.via = "activity" THEN request.layer ELSE "none",
              class |-> Classify(request.text, request.layer, answer), row |-> 0]]
    /\ UNCHANGED <<taxonomy, failures, announced, postMortem>>

\* The texts of all failing layers, and the name of the last of them.
OnEvalCompleted(c, verdict, layers) ==
    LET failing == {i \in DOMAIN layers : layers[i].verdict \in {"fail_hard", "fail_soft"}}
        last == CHOOSE i \in failing : \A j \in failing : j <= i
    IN
    /\ verdict \in {"fail_hard", "fail_soft"}
    /\ BeginClassification(c, [via |-> "event",
                   text |-> UNION {layers[i].text : i \in failing},
                   layer |-> IF failing = {} THEN "none" ELSE layers[last].layer])

OnTaskFailed(c, text) == BeginClassification(c, [via |-> "event", text |-> text, layer |-> "none"])
OnDeploymentRolledBack(c, text) == BeginClassification(c, [via |-> "event", text |-> text, layer |-> "none"])
ClassifyRoute(c, text, layer) == BeginClassification(c, [via |-> "route", text |-> text, layer |-> layer])
ClassifyActivity(c, text, layer) == BeginClassification(c, [via |-> "activity", text |-> text, layer |-> layer])

FailureRow(r) ==
    [code |-> r.class.code, confidence |-> r.class.confidence, text |-> r.text,
     severity |-> IF r.via = "activity" THEN "medium" ELSE SeverityForCode(r.class.code),
     project |-> "none", resolved |-> FALSE]

PersistFailure(c) ==
    /\ caller[c].at = "classified"
    /\ Len(failures) < MaxFailures
    /\ failures' = Append(failures, FailureRow(caller[c]))
    /\ caller' = [caller EXCEPT ![c] =
         IF @.via = "event" THEN [@ EXCEPT !.at = "stored", !.row = Len(failures) + 1] ELSE IdleCaller]
    /\ UNCHANGED <<taxonomy, announced, postMortem>>

\* Mutant: announced before it is committed.
PersistFailureFailsAnnounced(c) ==
    /\ caller[c].at = "classified"
    /\ caller' = [caller EXCEPT ![c] = IdleCaller]
    /\ announced' = announced \cup {[row |-> Len(failures) + 1, code |-> caller[c].class.code]}
    /\ UNCHANGED <<taxonomy, failures, postMortem>>

\* The commit fails.  An event is logged and acknowledged all the same, a request
\* is answered with an error; Temporal runs the activity again.
PersistFailureFails(c) ==
    /\ caller[c].at = "classified"
    /\ caller' = [caller EXCEPT ![c] = IdleCaller]
    /\ UNCHANGED <<taxonomy, failures, announced, postMortem>>

\* The activity committed and its answer was lost: Temporal runs it again.
ActivityRetries(c) ==
    /\ caller[c].at = "classified" /\ caller[c].via = "activity"
    /\ Len(failures) < MaxFailures
    /\ failures' = Append(failures, FailureRow(caller[c]))
    /\ \E answer \in LlmAnswers \cup {LlmRaises} :
         caller' = [caller EXCEPT ![c].class = Classify(caller[c].text, caller[c].layer, answer)]
    /\ UNCHANGED <<taxonomy, announced, postMortem>>

AnnounceFailure(c, delivered) ==
    /\ caller[c].at = "stored"
    /\ announced' = IF delivered
                    THEN announced \cup {[row |-> caller[c].row, code |-> caller[c].class.code]}
                    ELSE announced
    /\ caller' = [caller EXCEPT ![c] = IdleCaller]
    /\ UNCHANGED <<taxonomy, failures, postMortem>>

-----------------------------------------------------------------------------
(* PostMortemWorkflow.  The statistics count every row; the analysis reads *)
(* the unresolved rows of one project, and no writer sets the project.     *)

GetFailureStats(minFailures) ==
    /\ postMortem.at \in {"none", "done"}
    /\ postMortem' = [at |-> IF Len(failures) < minFailures THEN "done" ELSE "counted",
                      found |-> 0, completed |-> FALSE]
    /\ UNCHANGED <<taxonomy, failures, announced, caller>>

UnresolvedOf(project) ==
    {i \in DOMAIN failures : failures[i].project = project /\ ~ failures[i].resolved}

RunPostMortem(project) ==
    /\ postMortem.at = "counted"
    /\ postMortem' = [at |-> "done", found |-> Cardinality(UnresolvedOf(project)), completed |-> TRUE]
    /\ UNCHANGED <<taxonomy, failures, announced, caller>>

-----------------------------------------------------------------------------

ClassificationNext ==
    \E c \in Callers :
      \/ \E text \in FailureTexts, layer \in FailureLayers, v \in {"pass", "fail_hard", "fail_soft"} :
           OnEvalCompleted(c, v, <<[layer |-> "unit_tests", verdict |-> "pass", text |-> {"f4", "f6"}],
                                   [layer |-> layer, verdict |-> v, text |-> text]>>)
      \/ \E text \in FailureTexts : OnTaskFailed(c, text) \/ OnDeploymentRolledBack(c, text)
      \/ \E text \in FailureTexts, layer \in FailureLayers :
           ClassifyRoute(c, text, layer) \/ ClassifyActivity(c, text, layer)
      \/ PersistFailure(c) \/ PersistFailureFails(c) \/ ActivityRetries(c)
      \/ \E delivered \in BOOLEAN : AnnounceFailure(c, delivered)

PostMortemNext ==
    \/ \E c \in Callers, text \in FailureTexts : ClassifyRoute(c, text, "none") \/ PersistFailure(c)
    \/ \E n \in 1 .. 2 : GetFailureStats(n)
    \/ RunPostMortem("p")

TaxonomySpec == TaxonomyInit /\ [][ClassificationNext \/ PostMortemNext]_taxonomyVars

-----------------------------------------------------------------------------

\* Every row has the columns the service writes: in particular no row belongs to
\* a project or is ever resolved, whatever path it came by.
TaxonomyTypeOK ==
    /\ taxonomy \in [threshold : {70, 90}, llm : BOOLEAN]
    /\ failures \in Seq(FailureRows) /\ Len(failures) <= MaxFailures
    /\ \A c \in Callers :
         /\ caller[c].at \in {"idle", "classified", "stored"} /\ caller[c].row \in 0 .. MaxFailures
         /\ caller[c].via \in Vias /\ caller[c].text \in FailureTexts /\ caller[c].layer \in FailureLayers
         /\ caller[c].at # "idle" => caller[c].class \in [code : FailureCodes, confidence : 0 .. 100]
    /\ postMortem \in [at : {"none", "counted", "done"}, found : {0}, completed : BOOLEAN]

\* An event never announces a failure that is not committed, and it carries the
\* code of the row it names: with several deliveries in flight, commits that fail
\* and publications that are lost (_classify_and_persist).
AnnouncedIsRecorded ==
    \A e \in announced : e.row \in DOMAIN failures /\ failures[e.row].code = e.code

\* Below the threshold of confidence of a rule the language model never decides:
\* two rows of the same text have the same code, whichever path, layer or answer
\* they came with, and whether or not the activity was run twice (classify).
MatchedTextsAgree ==
    taxonomy.threshold <= 85 =>
        \A i, j \in DOMAIN failures :
            failures[i].text # {} /\ failures[i].text = failures[j].text => failures[i].code = failures[j].code

\* What is announced was committed with the code announced, and one text has one code, whichever
\* of the overlapping and repeated paths a failure was recorded on.
RecordsAreTrue ==
    /\ TaxonomyTypeOK
    /\ AnnouncedIsRecorded
    /\ MatchedTextsAgree
=============================================================================
