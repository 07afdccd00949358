------------------------ MODULE MCScenarioWorkflow ------------------------
(* Bounds and symmetry for checking ScenarioWorkflow.                      *)
EXTENDS ScenarioWorkflow, TLC

Symmetry == Permutations(Users) \cup Permutations(Requests) \cup Permutations(Scenarios)
=============================================================================
