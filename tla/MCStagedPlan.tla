---------------------------- MODULE MCStagedPlan ----------------------------
(* StagedPlan with the three steps plan() makes, or two where commands        *)
(* overlap, and a plan created at most twice.                                *)
EXTENDS StagedPlan

CONSTANTS c1, c2
=============================================================================
