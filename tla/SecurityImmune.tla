---------------------------- MODULE SecurityImmune ----------------------------
(***************************************************************************)
(* Security Immune System: the four scanners, the verdict of a scan, the   *)
(* gate, the findings and their triage, and the workflows that scan, gate  *)
(* and monitor.                                                            *)
(*                                                                         *)
(* What is scanned is abstracted to the set of facts the scanners look     *)
(* for; a finding to its category and severity.  The stores live in the    *)
(* memory of the service and only the routes write them; the decisions of  *)
(* the workflow and of the event handlers are returned or logged.          *)
(***************************************************************************)
EXTENDS Integers, Sequences, FiniteSets, FiniteSetsExt

CONSTANTS
    MaxScans,      \* bound: scans the routes store
    MaxIterations, \* max_iterations of the monitoring workflow
    Letters,       \* letters of package names
    MaxName        \* bound: length of a package name

ASSUME SecurityAssumption == MaxName \in Nat /\ MaxIterations \in Nat

VARIABLES
    gateMode,   \* [enforce, block]: gate_mode, block_on_critical_vuln
    scans,      \* _scan_results: [kind, findings, verdict], oldest first
    statuses,   \* _findings: <<scan, finding>> -> status
    policies,   \* _policies: how many; nothing reads them
    scanRun,    \* a SecurityScanWorkflow: [at, result, allowed]
    decision,   \* the last decision of a gate: [results, allowed, action]
    reported,   \* the last result of a scan that a workflow or a handler got
    monitoring, \* a SecurityMonitoringWorkflow: [iterations, scans, completed]
    names       \* two package names the auditor compares

securityVars == <<gateMode, scans, statuses, policies, scanRun, decision, reported, monitoring, names>>
scannerVars == <<scanRun, decision, reported, monitoring>>

FindingStatuses == {"open", "acknowledged", "mitigated", "false_positive"}
FoundIf(condition, category, severity) ==
    IF condition THEN {[category |-> category, severity |-> severity]} ELSE {}
FoundEach(x, facts, category, severities) ==
    UNION {FoundIf(f \in x, category, severities[f]) : f \in facts}

-----------------------------------------------------------------------------
(* The scanners: from what is scanned to the set of findings. *)

BanditSeverity == [bandit_high |-> "high", bandit_medium |-> "medium", bandit_low |-> "low"]

\* A blocked call in a comment is skipped; a secret in a comment is not.
DetectDangerousPatterns(x) == FoundIf("blocked_call" \in x, "dangerous_pattern", "high")
DetectSecrets(x) == FoundIf(x \cap {"secret", "secret_in_comment"} # {}, "hardcoded_secret", "critical")

\* Bandit that is missing, too slow or unreadable finds nothing.
RunBandit(x) ==
    IF x \cap {"not_python", "bandit_fails"} # {} THEN {}
    ELSE FoundEach(x, DOMAIN BanditSeverity, "bandit", BanditSeverity)

CodeFacts == {"blocked_call", "call_in_comment", "secret", "secret_in_comment", "oversize",
              "not_python", "bandit_fails"} \cup DOMAIN BanditSeverity
ScanCode(x) ==
    IF "oversize" \in x THEN FoundIf(TRUE, "code_size", "medium")
    ELSE DetectDangerousPatterns(x) \cup DetectSecrets(x) \cup RunBandit(x)

\* The first score that is a number decides; without one it is medium.
MapOsvSeverity ==
    [vuln_9 |-> "critical", vuln_7 |-> "high", vuln_4 |-> "medium", vuln_0 |-> "low", vuln_unscored |-> "medium"]

\* A query that fails, or is refused, finds nothing.
CheckVulnerabilities(x) ==
    IF "osv_fails" \in x THEN {} ELSE FoundEach(x, DOMAIN MapOsvSeverity, "vulnerability", MapOsvSeverity)
CheckTyposquatting(x) == FoundIf("near_popular" \in x, "typosquatting", "high")
CheckPinnedVersion(x) ==
    IF "unpinned" \in x THEN FoundIf(TRUE, "version_pinning", "medium")
    ELSE FoundIf("range" \in x, "version_pinning", "low")

PackageFacts == {"osv_fails", "near_popular", "unpinned", "range"} \cup DOMAIN MapOsvSeverity
AuditPackages(x) == CheckVulnerabilities(x) \cup CheckTyposquatting(x) \cup CheckPinnedVersion(x)

\* The seven injection patterns differ only in the category they report.
InjectionPatterns == {"system_prompt_override", "delimiter_escape"}
ValidateInput(x) == {[category |-> c, severity |-> "high"] : c \in x \cap InjectionPatterns}
\* No caller passes a schema: the output is searched for the same patterns.
ValidateOutput(x) == {[category |-> c, severity |-> "medium"] : c \in x \cap InjectionPatterns}

CheckNetworkViolations(x) ==
    FoundIf("over_100_connections" \in x, "network_anomaly", "high")
    \cup FoundIf("bad_address" \in x, "network_anomaly", "low")
    \cup FoundIf("external_address" \in x, "network_violation", "high")
CheckFileAccessViolations(x) == FoundIf("outside_path" \in x, "file_access_violation", "high")
CheckProcessViolations(x) ==
    FoundIf("over_50_processes" \in x, "process_anomaly", "medium")
    \cup FoundIf("suspicious_binary" \in x, "suspicious_process", "high")

RuntimeFacts == {"over_100_connections", "bad_address", "external_address", "outside_path",
                 "over_50_processes", "suspicious_binary"}
AnalyzeSandboxActivity(x) ==
    CheckNetworkViolations(x) \cup CheckFileAccessViolations(x) \cup CheckProcessViolations(x)

\* Mutant: high findings only warn.
ComputeVerdictLenient(findings) ==
    LET s == {f.severity : f \in findings} IN
    IF "critical" \in s THEN "fail" ELSE IF s \cap {"high", "medium"} # {} THEN "warn" ELSE "pass"

ComputeVerdict(findings) ==
    LET s == {f.severity : f \in findings} IN
    IF s \cap {"critical", "high"} # {} THEN "fail" ELSE IF "medium" \in s THEN "warn" ELSE "pass"

ScanResult(kind, findings) == [kind |-> kind, findings |-> findings, verdict |-> ComputeVerdict(findings)]

-----------------------------------------------------------------------------
(* The gate. *)

\* Mutant: the last scan decides.
EvaluateGateLast(results) ==
    LET failed == results # <<>> /\ results[Len(results)].verdict = "fail" IN
    [results |-> results, allowed |-> ~ failed, action |-> IF failed THEN "block" ELSE "log"]

EvaluateGate(results) ==
    LET all == UNION {results[i].findings : i \in DOMAIN results}
        failed == \E i \in DOMAIN results : results[i].verdict = "fail"
        blocked == \/ gateMode.block /\ \E f \in all : f.severity = "critical"
                   \/ gateMode.enforce /\ failed
        blocking == \E f \in all : f.severity \in {"critical", "high"}
    IN [results |-> results, allowed |-> ~ blocked,
        action |-> IF blocked THEN "block"
                   ELSE IF failed \/ (blocking /\ gateMode.enforce) THEN "warn" ELSE "log"]

PackageNames == UNION {[1 .. n -> Letters] : n \in 0 .. MaxName}

NoDecision == [results |-> <<>>, allowed |-> TRUE, action |-> "log"]
Nothing == ScanResult("code_scan", {})

SecurityInit ==
    /\ gateMode \in [enforce : BOOLEAN, block : BOOLEAN]
    /\ scans = <<>> /\ statuses = <<>> /\ policies = 0
    /\ scanRun = [at |-> "idle", result |-> Nothing, allowed |-> TRUE]
    /\ decision = NoDecision /\ reported = Nothing
    /\ monitoring = [iterations |-> 0, scans |-> 0, completed |-> FALSE]
    /\ names \in PackageNames \X PackageNames

-----------------------------------------------------------------------------
(* Routes. *)

WithOpen(new) == [k \in new \cup DOMAIN statuses |-> IF k \in new THEN "open" ELSE statuses[k]]

\* Mutant: a finding keeps its identifier from scan to scan.
StoreScanStable(result) ==
    /\ Len(scans) < MaxScans
    /\ scans' = Append(scans, result)
    /\ statuses' = WithOpen({<<1, f>> : f \in result.findings})
    /\ UNCHANGED <<gateMode, policies, scannerVars, names>>

StoreScan(result) ==
    /\ Len(scans) < MaxScans
    /\ scans' = Append(scans, result)
    /\ statuses' = WithOpen({<<Len(scans) + 1, f>> : f \in result.findings})
    /\ UNCHANGED <<gateMode, policies, scannerVars, names>>

ScanCodeRoute(x) == StoreScan(ScanResult("code_scan", ScanCode(x)))
ScanDependencies(x) == StoreScan(ScanResult("dependency_audit", AuditPackages(x)))
ScanPrompt(x, direction) ==
    StoreScan(ScanResult("prompt_injection", IF direction = "input" THEN ValidateInput(x) ELSE ValidateOutput(x)))

UpdateFindingStatus(key, status) ==
    /\ key \in DOMAIN statuses
    /\ statuses' = [statuses EXCEPT ![key] = status]
    /\ UNCHANGED <<gateMode, scans, policies, scannerVars, names>>

CreatePolicy ==
    /\ policies < MaxScans
    /\ policies' = policies + 1
    /\ UNCHANGED <<gateMode, scans, statuses, scannerVars, names>>

-----------------------------------------------------------------------------
(* Event handlers and workflows. *)

routeVars == <<gateMode, scans, statuses, policies, names>>

\* A proposal without code is not scanned; the decision is only logged.
HandleProposalCreated(x) ==
    /\ reported' = ScanResult("code_scan", ScanCode(x))
    /\ decision' = EvaluateGate(<<reported'>>)
    /\ UNCHANGED <<scanRun, monitoring, routeVars>>
HandleProposalAccepted(x) == HandleProposalCreated(x)

HandleSandboxCommand(x) ==
    /\ reported' = ScanResult("runtime_anomaly", AnalyzeSandboxActivity(x))
    /\ UNCHANGED <<scanRun, decision, monitoring, routeVars>>

\* SecurityScanWorkflow: the scan and the gate are two activities.
ScanActivity(x) ==
    /\ scanRun.at # "scanned"
    /\ scanRun' = [at |-> "scanned", result |-> ScanResult("code_scan", ScanCode(x)), allowed |-> TRUE]
    /\ UNCHANGED <<decision, reported, monitoring, routeVars>>

GateActivity ==
    /\ scanRun.at = "scanned"
    /\ decision' = EvaluateGate(<<scanRun.result>>)
    /\ scanRun' = [scanRun EXCEPT !.at = "done", !.allowed = decision'.allowed]
    /\ UNCHANGED <<reported, monitoring, routeVars>>

\* DependencyAuditWorkflow: one activity, no gate.
AuditActivity(x) ==
    /\ reported' = ScanResult("dependency_audit", AuditPackages(x))
    /\ UNCHANGED <<scanRun, decision, monitoring, routeVars>>

\* One turn of the monitoring loop: it analyses an empty report; an activity that
\* fails is not counted, and the loop goes on.
MonitoringTurn(succeeds) ==
    /\ monitoring.iterations < MaxIterations
    /\ monitoring' = [iterations |-> monitoring.iterations + 1,
                      scans |-> monitoring.scans + IF succeeds THEN 1 ELSE 0,
                      completed |-> monitoring.iterations + 1 = MaxIterations]
    /\ reported' = IF succeeds THEN ScanResult("runtime_anomaly", AnalyzeSandboxActivity({})) ELSE reported
    /\ UNCHANGED <<scanRun, decision, routeVars>>

-----------------------------------------------------------------------------
(* Names of packages: _levenshtein_distance row by row. *)

\* Mutant: a letter that is kept costs as much as one that is replaced.
NextRowFlat(previous, i, x, y) ==
    LET row[j \in 0 .. Len(y)] ==
          IF j = 0 THEN i
          ELSE Min({previous[j] + 1, row[j - 1] + 1, previous[j - 1] + 1})
    IN row

NextRow(previous, i, x, y) ==
    LET row[j \in 0 .. Len(y)] ==
          IF j = 0 THEN i
          ELSE Min({previous[j] + 1, row[j - 1] + 1,
                    previous[j - 1] + IF x[i] = y[j] THEN 0 ELSE 1})
    IN row

\* The rows are as long as the shorter name.
LevenshteinDistance(a, b) ==
    LET x == IF Len(a) < Len(b) THEN b ELSE a
        y == IF Len(a) < Len(b) THEN a ELSE b
        rows[i \in 0 .. Len(x)] ==
          IF i = 0 THEN [j \in 0 .. Len(y) |-> j] ELSE NextRow(rows[i - 1], i, x, y)
    IN rows[Len(x)][Len(y)]

-----------------------------------------------------------------------------

FewFacts(facts) == {x \in SUBSET facts : Cardinality(x) <= 2}

ScanRoutesNext ==
    \/ \E x \in FewFacts(CodeFacts) : ScanCodeRoute(x)
    \/ \E x \in FewFacts(PackageFacts) : ScanDependencies(x)
    \/ \E x \in SUBSET InjectionPatterns, d \in {"input", "output"} : ScanPrompt(x, d)

TriageNext ==
    \/ CreatePolicy
    \/ \E x \in SUBSET InjectionPatterns, d \in {"input", "output"} : ScanPrompt(x, d)
    \/ \E k \in DOMAIN statuses, status \in FindingStatuses : UpdateFindingStatus(k, status)

ScanFlowNext == GateActivity \/ \E x \in FewFacts(CodeFacts) : ScanActivity(x)

ReportsNext ==
    \/ \E x \in FewFacts(CodeFacts) : HandleProposalCreated(x) \/ HandleProposalAccepted(x)
    \/ \E x \in FewFacts(RuntimeFacts) : HandleSandboxCommand(x)
    \/ \E x \in FewFacts(PackageFacts) : AuditActivity(x)
    \/ \E succeeds \in BOOLEAN : MonitoringTurn(succeeds)

\* All of it at once, about anything that is scanned.
SecurityNext ==
    \/ \E x \in SUBSET CodeFacts : ScanCodeRoute(x) \/ ScanActivity(x) \/ HandleProposalCreated(x) \/ HandleProposalAccepted(x)
    \/ \E x \in SUBSET PackageFacts : ScanDependencies(x) \/ AuditActivity(x)
    \/ \E x \in SUBSET InjectionPatterns, d \in {"input", "output"} : ScanPrompt(x, d)
    \/ \E x \in SUBSET RuntimeFacts : HandleSandboxCommand(x)
    \/ \E k \in DOMAIN statuses, status \in FindingStatuses : UpdateFindingStatus(k, status)
    \/ CreatePolicy \/ GateActivity
    \/ \E succeeds \in BOOLEAN : MonitoringTurn(succeeds)

SecuritySpec == SecurityInit /\ [][SecurityNext]_securityVars

-----------------------------------------------------------------------------

\* The findings the routes know are exactly those of the scans they stored.
SecurityTypeOK ==
    /\ gateMode \in [enforce : BOOLEAN, block : BOOLEAN]
    /\ \A i \in DOMAIN scans : scans[i].verdict \in {"pass", "warn", "fail"}
    /\ DOMAIN statuses = UNION {{<<i, f>> : f \in scans[i].findings} : i \in DOMAIN scans}
    /\ \A k \in DOMAIN statuses : statuses[k] \in FindingStatuses
    /\ decision.action \in {"block", "warn", "log"} /\ decision.allowed \in BOOLEAN
    /\ monitoring.scans <= monitoring.iterations /\ monitoring.iterations \in 0 .. MaxIterations

\* A gate that enforces lets nothing with a high or critical finding through, and
\* one that only audits still stops a critical one when it is told to: the verdict
\* of the scanners and the decision of the gate are computed apart (evaluate_gate).
AllowedIsClean ==
    LET severities == {f.severity : f \in UNION {decision.results[i].findings : i \in DOMAIN decision.results}} IN
    decision.allowed =>
        /\ gateMode.enforce => severities \cap {"critical", "high"} = {}
        /\ gateMode.block => "critical" \notin severities

\* The gate is monotone: scans that would pass together pass in every part, so
\* that one clean scan never covers for another (evaluate_gate).
GateIsMonotone ==
    EvaluateGate(scans).allowed =>
        \A i, j \in DOMAIN scans : EvaluateGate(SubSeq(scans, i, j)).allowed

\* A status that somebody gave a finding is not taken back by a later scan that
\* finds the same again (_store_scan, update_finding_status).
TriageStep ==
    \A k \in DOMAIN statuses :
      scans' # scans => k \in DOMAIN statuses' /\ statuses'[k] = statuses[k]
TriageIsKept == [][TriageStep]_securityVars

\* Words one letter inserted, removed or replaced away from w.
Removed(w, i) == [j \in 1 .. Len(w) - 1 |-> IF j < i THEN w[j] ELSE w[j + 1]]
Replaced(w, i, l) == [w EXCEPT ![i] = l]
Inserted(w, i, l) == [j \in 1 .. Len(w) + 1 |-> IF j < i THEN w[j] ELSE IF j = i THEN l ELSE w[j - 1]]
OneEdit(w) ==
    {Removed(w, i) : i \in 1 .. Len(w)}
    \cup {Replaced(w, i, l) : i \in 1 .. Len(w), l \in Letters}
    \cup {Inserted(w, i, l) : i \in 1 .. Len(w) + 1, l \in Letters}

\* Names that so many edits can make of w.
OneFurther(near) == near \cup (PackageNames \cap UNION {OneEdit(v) : v \in near})
Within(w) ==
    LET within[n \in 0 .. MaxName] == IF n = 0 THEN {w} ELSE OneFurther(within[n - 1])
    IN within

\* The distance of two names is the number of single edits between them: the rows
\* computed by _levenshtein_distance against the edits themselves.
DistanceIsEdits ==
    \A n \in 0 .. MaxName : names[2] \in Within(names[1])[n] <=> LevenshteinDistance(names[1], names[2]) <= n

\* Nothing the gate is there to stop gets through, alone or in the company of clean scans, and
\* the scanners know their findings and distances.
GateIsTight ==
    /\ SecurityTypeOK
    /\ AllowedIsClean
    /\ GateIsMonotone
    /\ DistanceIsEdits
=============================================================================
