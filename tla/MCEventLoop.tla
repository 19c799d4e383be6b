---------------------------- MODULE MCEventLoop ----------------------------
(***************************************************************************)
(* Instances of EventLoop for TLC.                                         *)
(***************************************************************************)
EXTENDS EventLoop, TLC

Symmetry == Permutations(UrgentTasks) \cup Permutations(IdleTasks)
=============================================================================
