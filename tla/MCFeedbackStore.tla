--------------------------- MODULE MCFeedbackStore ---------------------------
(* FeedbackStore with two candidate questions and two or three operations at *)
(* a time, in one process (threads share its lock) or in two.                *)
EXTENDS FeedbackStore

CONSTANTS p1, p2, u1, u2

OneProcess == [t \in Threads |-> p1]
TwoProcesses == [t \in Threads |-> IF t = u1 THEN p1 ELSE p2]
=============================================================================
