---------------------------- MODULE MCMergeDir ----------------------------
(* Two tasks that merge into one directory, of which one may be cancelled.  A
   person's own checkout, where a cancel looks for no merge, is checked without
   the faults of the teardowns and the sweep. *)
EXTENDS MergeDir

CONSTANTS a, b

CasesSpec ==
    /\ Init
    /\ [][Next /\ (host => faults' = 0)]_vars
    /\ Fairness
===========================================================================
