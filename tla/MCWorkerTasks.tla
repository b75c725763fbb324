--------------------------- MODULE MCWorkerTasks ---------------------------
(***************************************************************************)
(* Instances of WorkerTasks for TLC.  Nodes and executor ids are           *)
(* interchangeable; tasks are not when only some have tunnels.             *)
(***************************************************************************)
EXTENDS WorkerTasks, TLC

NodesAndExecs == Permutations(Nodes) \cup Permutations(Execs)
=============================================================================
