----------------------------- MODULE MCWorkflow -----------------------------
(* A small instance of Workflow for TLC.                                   *)
EXTENDS WorkflowRefinement

CONSTANTS g1, g2, g3, m1, m2

ThreeCallers == {g1, g2, g3}
TwoModules   == {m1, m2}
=============================================================================
