------------------------- MODULE MCDeploymentPipeline -------------------------
(* Small instances of DeploymentPipeline for TLC. *)
EXTENDS DeploymentPipeline

\* The canary and two steps; the default plan also stops at 25 %.
MCSteps == <<5, 50, 100>>

\* Error rates in units of 0.5 %, latencies in units of 100 ms.  The default
\* baseline is 1 % with deviation 0.5 % and 100 ms.
MCDefault   == [mean |-> 2, dev |-> 1, p95 |-> 1]
MCBaselines == {[mean |-> 0, dev |-> 1, p95 |-> 2]}

\* Exactly at the default thresholds, just above each of them, and idle.
MCHealths ==
    {[error |-> 4, p95 |-> 2], [error |-> 5, p95 |-> 1], [error |-> 1, p95 |-> 3]}
=============================================================================
