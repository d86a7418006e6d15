-------------------------- MODULE MCEconomicGovernor --------------------------
(* Small instances of EconomicGovernor for TLC. *)
EXTENDS EconomicGovernor

\* With a budget of 20 tokens, two calls reach 90, 95 or 100 %.
MCAmounts == {9, 10}
=============================================================================
