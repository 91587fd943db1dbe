---------------------------- MODULE MCTaskCases -----------------------------
(* TaskOrchestration with several sets of actions and faults, each with bounds of
   its own, in two runs.  One instance that allowed everything would run out of
   queue slots, which the real queue does not, and would meet the counterexamples
   the README lists.  The configurations' bounds are those no case passes. *)
EXTENDS TaskOrchestration, TLC

VARIABLE case

EveryFault == {"crash", "lose_job", "lose_run", "throw", "park", "duplicate"}

(* Everything a person does to a task but answer it and the AI retry. *)
Edits == INSTANCE TaskOrchestration WITH
    UserActions <- {"stop", "retry", "retry_task", "skip", "auto_resume", "cancel"},
    FaultKinds <- {"lose_job"},
    MaxClicks <- 2, MaxFaults <- 1, MaxEpoch <- 1

(* A failed or waiting task is taken up again, under any one fault. *)
Reopens == INSTANCE TaskOrchestration WITH
    UserActions <- {"submit", "retry_task", "retry_ai", "auto_resume"},
    FaultKinds <- EveryFault,
    MaxClicks <- 2, MaxFaults <- 1, MaxEpoch <- 1

(* A task is cancelled, or one of its steps skipped, under any one fault. *)
Cancels == INSTANCE TaskOrchestration WITH
    UserActions <- {"submit", "skip", "cancel"},
    FaultKinds <- EveryFault,
    MaxClicks <- 1, MaxFaults <- 1, MaxEpoch <- 1

(* The worker dies, or a job or a run is lost. *)
Dies == INSTANCE TaskOrchestration WITH
    UserActions <- {"submit"},
    FaultKinds <- EveryFault,
    MaxClicks <- 0, MaxFaults <- 1, MaxEpoch <- 3

(* The job of a re-drive is lost as well, or cannot be queued. *)
Lost == INSTANCE TaskOrchestration WITH
    UserActions <- {"submit", "retry_task"},
    FaultKinds <- {"lose_job", "lose_run", "undo", "park"},
    MaxClicks <- 1, MaxFaults <- 2, MaxEpoch <- 4

caseVars == <<vars, case>>

JobSymmetry == Permutations(Jobs)

ActionsInit == case \in {"edits", "reopens", "cancels"} /\ Init

ActionsSpec ==
    /\ ActionsInit
    /\ [][/\ case' = case
          /\ \/ case = "edits" /\ Edits!Next
             \/ case = "reopens" /\ Reopens!Next
             \/ case = "cancels" /\ Cancels!Next]_caseVars

By(inDies, inLost) ==
    /\ case' = case
    /\ \/ case = "dies" /\ inDies
       \/ case = "lost" /\ inLost

(* Fairness, of each instance's own actions. *)
RecoveryFairness ==
    /\ \A j \in Jobs : /\ WF_caseVars(By(Dies!JobStep(j), Lost!JobStep(j)))
                       /\ WF_caseVars(By(Dies!Redeliver(j), Lost!Redeliver(j)))
    /\ \A s \in Steps : /\ WF_caseVars(By(Dies!CliEnd(s), Lost!CliEnd(s)))
                        /\ WF_caseVars(By(Dies!CliCheck(s), Lost!CliCheck(s)))
                        /\ WF_caseVars(By(Dies!CliResume(s), Lost!CliResume(s)))
    /\ WF_caseVars(By(Dies!Boot, Lost!Boot))
    /\ WF_caseVars(By(Dies!Undo, Lost!Undo))
    /\ WF_caseVars(By(Dies!Sweep, Lost!Sweep))

RecoveryInit == case \in {"dies", "lost"} /\ Init

RecoverySpec ==
    /\ RecoveryInit
    /\ [][/\ case' = case
          /\ \/ case = "dies" /\ Dies!Next
             \/ case = "lost" /\ Lost!Next]_caseVars
    /\ RecoveryFairness
=============================================================================
