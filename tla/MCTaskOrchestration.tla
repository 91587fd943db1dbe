------------------------ MODULE MCTaskOrchestration ------------------------
(* Small instances of TaskOrchestration.  The jobs of the queue are
   interchangeable, which the runs without liveness properties use. *)
EXTENDS TaskOrchestration, TLC

JobSymmetry == Permutations(Jobs)
=============================================================================
