------------------------ MODULE MCWorkerTasksAdmin ------------------------
(***************************************************************************)
(* Instance of WorkerTasksAdmin for TLC.                                   *)
(***************************************************************************)
EXTENDS WorkerTasksAdmin, TLC

ExecSymmetry == Permutations(Execs)
=============================================================================
