---------------------------- MODULE MCDailyJobs ----------------------------
(***************************************************************************)
(* Instances of DailyJobs for TLC: one user owns all sessions but one.     *)
(***************************************************************************)
EXTENDS DailyJobs, TLC

CONSTANTS Loner   \* the user of the sessions in LonerSessions
CONSTANTS LonerSessions, Other

MCOwner == [s \in Sessions |-> IF s \in LonerSessions THEN Loner ELSE Other]

NodesAndRuns == Permutations(Nodes) \cup Permutations(Runs)
=============================================================================
