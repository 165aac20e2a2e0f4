------------------------------ MODULE MCPlanLife ------------------------------
(* PlanLife for TLC: the kinds of plan of a build that generates code, and those
   of both builds together (plans of one build know nothing of the other's); the
   failures that the code tests for, and all of them. *)
EXTENDS PlanLife, TLC

CONSTANTS h1, h2, h3

MCDynamicKinds == {"small", "dynamic", "chirp_z", "real"}
MCBothKinds == AllKinds

MCTested == Checked
MCAny == Checked \cup Unchecked

Symmetry == Permutations(Handles)
==============================================================================
