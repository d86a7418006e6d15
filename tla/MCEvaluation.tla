----------------------------- MODULE MCEvaluation -----------------------------
(***************************************************************************)
(* The verdicts of the test layers over every bounded run of pytest, with  *)
(* one request and the configuration of the service.                       *)
(***************************************************************************)
EXTENDS EvaluationEngine

MCInit == EvaluationInit /\ evalConfig = [failFast |-> TRUE, llm |-> FALSE, criteria |-> 0, baseline |-> 0]
MCSpec == MCInit /\ [][EvaluationNext]_evalVars
=============================================================================
