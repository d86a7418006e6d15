--------------------------- MODULE EvaluationEngine ---------------------------
(***************************************************************************)
(* The evaluation engine: seven layers run one after the other over a      *)
(* sandbox session, each with an event, and a report with the worst        *)
(* verdict.  What a layer reads of the sandbox is abstracted to what it    *)
(* tells apart; the summary line of pytest is the sequence of its counts,  *)
(* in the order pytest prints them, and the regular expression that reads  *)
(* it is modelled by what it matches.                                      *)
(***************************************************************************)
EXTENDS Naturals, Sequences, FiniteSets

CONSTANTS
    Evaluations,   \* requests for an evaluation of the same task
    MaxCount,      \* bound on each count of a pytest summary
    MaxEvalRetries \* bound on Temporal's retries of run_evaluation

VARIABLES
    evalConfig,  \* [failFast, llm, criteria, baseline]
    evaluation,  \* what each request is doing
    evalEvents,  \* eval.completed events published: <<request, verdict>>
    reportStore, \* _report_store: the report of the task
    pytest       \* the run of pytest looked at by the focus on summaries

evalVars == <<evalConfig, evaluation, evalEvents, reportStore, pytest>>

Verdicts == {"pass", "fail_soft", "fail_hard"}

-----------------------------------------------------------------------------
\* pytest: counts, and what its exit code says.  External.

PytestRuns ==
    {r \in [failed : 0..MaxCount, passed : 0..MaxCount, skipped : 0..MaxCount, warnings : 0..1, error : 0..MaxCount,
            collected : BOOLEAN] :
        ~r.collected => r.failed + r.passed + r.skipped = 0 /\ r.error > 0}

ExitCode(r) ==
    IF ~r.collected THEN 2
    ELSE IF r.failed + r.error > 0 THEN 1
    ELSE IF r.passed + r.skipped = 0 THEN 5 ELSE 0

Optional(printed, word) == IF printed THEN <<word>> ELSE <<>>

\* The words of the summary line, in pytest's order; several errors are printed as "errors".
Summary(r) ==
    Optional(r.failed > 0, "failed") \o Optional(r.passed > 0, "passed") \o Optional(r.skipped > 0, "skipped")
    \o Optional(r.warnings > 0, "warnings") \o Optional(r.error > 0, IF r.error > 1 THEN "errors" ELSE "error")

\* _SUMMARY_RE: optional counts in this order, and right behind them " in <seconds>s".
Counts == {"passed", "failed", "skipped", "error"}

\* Part of the line that the expression accepts up to " in".
Fits(words) ==
    \E passed, failed, skipped, error \in BOOLEAN :
        words = Optional(passed, "passed") \o Optional(failed, "failed") \o Optional(skipped, "skipped")
                \o Optional(error, "error")

\* search() finds the leftmost start from which the rest of the line fits.
Matched(words) ==
    LET starts == {i \in 1..(Len(words) + 1) : Fits(SubSeq(words, i, Len(words)))}
        start == CHOOSE i \in starts : \A j \in starts : i <= j
    IN {words[i] : i \in start..Len(words)}

ParseEverything(r) == [o \in Counts |-> IF o = "passed" THEN r.passed + r.skipped ELSE r[o]]

\* _parse_pytest_output: the counts that matched, zero for the others.
ParsePytestOutput(r) == [o \in Counts |-> IF o \in Matched(Summary(r)) THEN r[o] ELSE 0]

-----------------------------------------------------------------------------
\* The layers: verdicts over what the sandbox may answer, "none" when it has no command results

CompilationVerdict(answer) == IF answer \in {"errors", "otherOutput"} THEN "fail_hard" ELSE "pass"
CompilationAnswers == {"none", "ok", "errors", "otherOutput", "onlyWarnings", "failedSilently"}

NoRun == [collected |-> FALSE]
PytestAnswers == PytestRuns \cup {NoRun}

UnitTestVerdict(r) ==
    IF r = NoRun \/ ExitCode(r) >= 2 THEN "fail_hard"
    ELSE IF ParsePytestOutput(r).failed > 0 THEN "fail_soft" ELSE "pass"

\* The same code over the tests marked integration.
IntegrationTestVerdict(r) ==
    IF r = NoRun \/ ExitCode(r) >= 2 THEN "fail_hard"
    ELSE IF ParsePytestOutput(r).failed > 0 THEN "fail_soft" ELSE "pass"

\* An answer is the failure of the LLM or the number of FAILED lines of a run that exits with an error.
AdversarialAnswers == {"llmFails"} \X {0} \cup {"ran"} \X {0, 1, 2, 3, 5, 6, 10, 11}

ClassifySeverity(count) ==
    CASE count = 0 -> "none" [] count \in 1..2 -> "low" [] count \in 3..5 -> "medium"
      [] count \in 6..10 -> "high" [] OTHER -> "critical"

SeverityToVerdict(severity) ==
    CASE severity = "none" -> "pass" [] severity \in {"low", "medium"} -> "fail_soft" [] OTHER -> "fail_hard"

AdversarialVerdict(answer) ==
    IF answer[1] = "llmFails" THEN "fail_hard" ELSE SeverityToVerdict(ClassifySeverity(answer[2]))

\* met of the acceptance criteria have a test whose name holds their keywords.
SpecComplianceVerdict(met, total) ==
    IF met = total THEN "pass" ELSE IF 2 * met >= total THEN "fail_soft" ELSE "fail_hard"

\* The lines printed by the import check and by ruff; fewer results count as no lines.
ArchitectureVerdict(imports, lint) ==
    IF imports THEN "fail_hard" ELSE IF lint THEN "fail_soft" ELSE "pass"

RegressionVerdict(r, least) ==
    LET parsed == IF r = NoRun THEN [o \in Counts |-> 0] ELSE ParsePytestOutput(r)
    IN IF parsed.failed + parsed.error > 0 THEN "fail_hard"
       ELSE IF least > 0 /\ parsed.passed + parsed.failed + parsed.error < least THEN "fail_soft" ELSE "pass"

UnitTestVerdicts == {UnitTestVerdict(r) : r \in PytestAnswers}
IntegrationTestVerdicts == {IntegrationTestVerdict(r) : r \in PytestAnswers}
BaselineRuns == {0, 2}
RegressionVerdicts == [b \in BaselineRuns |-> {RegressionVerdict(r, b) : r \in PytestAnswers}]

\* The layers a request goes through, in order.
Layers ==
    <<"compilation", "unit_tests", "integration_tests">>
    \o (IF evalConfig.llm THEN <<"adversarial">> ELSE <<>>)
    \o <<"spec_compliance", "architecture", "regression">>

\* The verdicts a layer may come to.
LayerVerdicts(layer) ==
    CASE layer = "compilation" -> {CompilationVerdict(a) : a \in CompilationAnswers}
      [] layer = "unit_tests" -> UnitTestVerdicts
      [] layer = "integration_tests" -> IntegrationTestVerdicts
      [] layer = "adversarial" -> {AdversarialVerdict(a) : a \in AdversarialAnswers}
      [] layer = "spec_compliance" -> {SpecComplianceVerdict(met, evalConfig.criteria) : met \in 0..evalConfig.criteria}
      [] layer = "architecture" -> {ArchitectureVerdict(i, l) : i, l \in BOOLEAN}
      [] OTHER -> RegressionVerdicts[evalConfig.baseline]

-----------------------------------------------------------------------------
\* A report is abstracted to the number of its layers and the verdicts among them.

EvaluationInit ==
    /\ evalConfig \in [failFast : BOOLEAN, llm : BOOLEAN, criteria : {0, 3}, baseline : BaselineRuns]
    /\ evaluation = [e \in Evaluations |-> [pc |-> "idle", temporal |-> FALSE, layers |-> 0, verdicts |-> {},
                                            announced |-> 0, retries |-> 0]]
    /\ evalEvents = {}
    /\ reportStore = {}
    /\ pytest \in PytestRuns

StartEvaluation(e) ==
    /\ evaluation[e].pc = "idle"
    /\ \E temporal \in BOOLEAN : evaluation' = [evaluation EXCEPT ![e].pc = "layer", ![e].temporal = temporal]
    /\ UNCHANGED <<evalConfig, evalEvents, reportStore, pytest>>

RunLayer(e) ==
    /\ evaluation[e].pc = "layer"
    /\ \E verdict \in LayerVerdicts(Layers[evaluation[e].layers + 1]) :
           evaluation' = [evaluation EXCEPT ![e].pc = "announceLayer", ![e].layers = @ + 1,
                                            ![e].verdicts = @ \cup {verdict}]
    /\ UNCHANGED <<evalConfig, evalEvents, reportStore, pytest>>

LayersLeft(e) ==
    /\ evaluation[e].layers < Len(Layers)
    /\ ~(evalConfig.failFast /\ "fail_hard" \in evaluation[e].verdicts)

PublishLayerEvent(e) ==
    /\ evaluation[e].pc = "announceLayer"
    /\ evaluation' = [evaluation EXCEPT ![e].announced = @ + 1,
                                        ![e].pc = IF LayersLeft(e) THEN "layer" ELSE "announce"]
    /\ UNCHANGED <<evalConfig, evalEvents, reportStore, pytest>>

SoftFirst(verdicts) ==
    IF "fail_soft" \in verdicts THEN "fail_soft" ELSE IF "fail_hard" \in verdicts THEN "fail_hard" ELSE "pass"

ComputeOverallVerdict(verdicts) ==
    IF "fail_hard" \in verdicts THEN "fail_hard" ELSE IF "fail_soft" \in verdicts THEN "fail_soft" ELSE "pass"

PublishCompletedEvent(e) ==
    /\ evaluation[e].pc = "announce"
    /\ evaluation' = [evaluation EXCEPT ![e].pc = "return"]
    /\ evalEvents' = evalEvents \cup {<<e, ComputeOverallVerdict(evaluation[e].verdicts)>>}
    /\ UNCHANGED <<evalConfig, reportStore, pytest>>

\* A call of the sandbox or of Redis raises: the request ends without a report, the activity starts over.
EvaluationRaisesQuietly(e) ==
    /\ evaluation[e].pc \in {"layer", "announceLayer", "announce"}
    /\ evaluation' = [evaluation EXCEPT ![e].pc = "return"]
    /\ UNCHANGED <<evalConfig, evalEvents, reportStore, pytest>>

EvaluationRaises(e) ==
    /\ evaluation[e].pc \in {"layer", "announceLayer", "announce"}
    /\ IF evaluation[e].temporal
       THEN /\ evaluation[e].retries < MaxEvalRetries
            /\ evaluation' = [evaluation EXCEPT ![e].pc = "layer", ![e].layers = 0, ![e].verdicts = {},
                                                ![e].announced = 0, ![e].retries = @ + 1]
       ELSE evaluation' = [evaluation EXCEPT ![e].pc = "raised"]
    /\ UNCHANGED <<evalConfig, evalEvents, reportStore, pytest>>

ReturnReportAppend(e) ==
    /\ evaluation[e].pc = "return"
    /\ evaluation' = [evaluation EXCEPT ![e].pc = "done"]
    /\ reportStore' = reportStore \cup {[by |-> e, layers |-> evaluation[e].layers, verdicts |-> evaluation[e].verdicts,
                                         overall |-> ComputeOverallVerdict(evaluation[e].verdicts)]}
    /\ UNCHANGED <<evalConfig, evalEvents, pytest>>

\* The route keeps the report under its task, over any earlier one; the workflow only returns it.
ReturnReport(e) ==
    /\ evaluation[e].pc = "return"
    /\ evaluation' = [evaluation EXCEPT ![e].pc = "done"]
    /\ reportStore' = IF evaluation[e].temporal THEN reportStore
                      ELSE {[by |-> e, layers |-> evaluation[e].layers, verdicts |-> evaluation[e].verdicts,
                             overall |-> ComputeOverallVerdict(evaluation[e].verdicts)]}
    /\ UNCHANGED <<evalConfig, evalEvents, pytest>>

EvaluationSteps(requests) ==
    \E e \in requests :
        \/ StartEvaluation(e) \/ RunLayer(e) \/ PublishLayerEvent(e) \/ PublishCompletedEvent(e)
        \/ EvaluationRaises(e) \/ ReturnReport(e)

EvaluationNext == EvaluationSteps(Evaluations)

EvaluationSpec == EvaluationInit /\ [][EvaluationNext]_evalVars

-----------------------------------------------------------------------------
\* Requests go through at most the configured layers, and at most one report is kept for a task.
EvaluationTypeOK ==
    /\ \A e \in Evaluations :
           /\ evaluation[e].pc \in {"idle", "layer", "announceLayer", "announce", "return", "done", "raised"}
           /\ evaluation[e].layers \in 0..Len(Layers) /\ evaluation[e].verdicts \subseteq Verdicts
    /\ Cardinality(reportStore) <= 1
    /\ evalEvents \subseteq Evaluations \X Verdicts

\* A report that can be fetched was announced with its verdict, after an event for each of its
\* layers, and it is complete: only fail-fast on a hard failure leaves layers out (evaluator.py).
ReportIsAnnounced ==
    \A report \in reportStore :
        /\ <<report.by, report.overall>> \in evalEvents
        /\ evaluation[report.by].announced = report.layers
        /\ report.layers < Len(Layers) => evalConfig.failFast /\ "fail_hard" \in report.verdicts

Rank == [pass |-> 0, fail_soft |-> 1, fail_hard |-> 2]

\* The verdict announced and returned is the worst of the layers', in whatever order they came.
VerdictIsWorst ==
    \A report \in reportStore :
        /\ report.overall \in report.verdicts
        /\ \A v \in report.verdicts : Rank[v] <= Rank[report.overall]

\* The parser never makes a count up: what it reports of a pytest summary was printed, and a summary
\* of passed and skipped tests only is read exactly (_parse_pytest_output of unit_tests.py).
ParsedCountsArePrinted ==
    LET parsed == ParsePytestOutput(pytest)
    IN /\ \A o \in Counts : parsed[o] \in {0, pytest[o]}
       /\ pytest.failed + pytest.warnings + pytest.error = 0 =>
              parsed.passed = pytest.passed /\ parsed.skipped = pytest.skipped

\* unit_tests.py:38: "FAIL_SOFT: some tests fail (but pytest itself ran successfully)", and
\* regression.py:31 "PASS: all tests pass and count >= baseline": neither layer passes a run with a failed test.
PassMeansTestsPassed ==
    pytest.failed > 0 => UnitTestVerdict(pytest) # "pass" /\ RegressionVerdict(pytest, 0) # "pass"

\* A report that can be fetched is complete, was announced as it is, has the worst verdict of its
\* layers, and its counts were printed by pytest.
ReportsAreTrue ==
    /\ EvaluationTypeOK
    /\ ReportIsAnnounced
    /\ VerdictIsWorst
    /\ ParsedCountsArePrinted
=============================================================================
