------------------------------ MODULE MergeDir ------------------------------
(* The claim on a merge directory and the teardown of a cancelled task:
   worker/src/step-engine/merge-dir-claim.ts, the merge resolver that works under
   it (merge-resolver.ts), the fence around a fixer's sandbox
   (sandbox/cli-sandbox-fence.ts), the CANCEL job (task-queue.ts), and the sweep
   that repeats or abandons a lost one (stalled-redrive.ts).

   Several tasks merge into one directory, each through one merge step.  A pass
   of the step writes to the directory inside sections, each a transaction that
   holds the directory's advisory lock; between two sections a fixer agent may
   edit it from a sandbox, under no lock at all, and only the claim row keeps
   the other tasks out.  Age cutoffs are nondeterministic: the sweep may find a
   cancel old enough at any time.  Skip and Retry of the merge step are left to
   TaskOrchestration; a merge step offers no Skip (metadata.allowSkip).        *)
EXTENDS Naturals

CONSTANTS
    Tasks,        \* tasks that merge into the directory
    Cancellable,  \* those a person may cancel (all of them; a bound for TLC)
    Sharers,      \* tasks whose tasks.worktree_path is the directory
    None,         \* no task
    MaxRedrives,  \* CANCEL_REDRIVE_MAX
    Retries,      \* MAX_MERGE_CONFLICT_RETRIES
    MaxFaults     \* bound on what fails in the teardowns and the sweep

ASSUME MergeAssumption ==
    /\ None \notin Tasks /\ Cancellable \subseteq Tasks /\ Sharers \subseteq Tasks
    /\ MaxRedrives \in Nat /\ Retries \in Nat /\ MaxFaults \in Nat

VARIABLES
    host,       \* isHostCheckout: the directory is a person's own checkout; fixed
    status,     \* tasks.status
    owned,      \* tasks whose step row still belongs to its pass
    pc,         \* where the task's pass is
    phase,      \* mergeResolveState.phase as saved; "new": null
    tries,      \* mergeResolveState.conflictRetries
    claim,      \* merge_dir_claims: the task the row names
    lock,       \* the pass inside a section of the directory
    merge,      \* the task whose merge is open in the directory
    run,        \* the task's fixer run
    superseded, \* tasks whose fixer run carries superseded_at
    hung,       \* CANCEL jobs the api gave up waiting for: they may still land
    queued,     \* tasks with a CANCEL job in the queue
    td,         \* where each teardown is: of the job, of the abandon pass
    old,        \* tasks cancelled before the re-drive window
    redriven,   \* task.cancel_redriven events
    sweep,      \* tasks whose attempt is counted and whose CANCEL is not yet queued
    reported,   \* tasks with a report of the merge they left open
    spared,     \* history: tasks whose open merge was left to a sharer, unreported
    finished,   \* task.cancel_finished
    sent,       \* history: CANCEL jobs the sweep queued
    faults      \* failures so far

passVars == <<status, owned, pc, phase, tries, claim, lock, merge>>
runVars == <<run, superseded>>
jobVars == <<hung, queued, old, redriven, sweep, sent>>
recVars == <<host, reported, spared, finished, faults>>
vars == <<host, status, owned, pc, phase, tries, claim, lock, merge, run,
          superseded, hung, queued, td, old, redriven, sweep, reported, spared,
          finished, sent, faults>>

(* A pass wants a section ("open", "ingest", "abort", "finish", "halt"), is inside
   one ("opening" ...), starts a fixer ("dispatch"), or lost its section and has
   Haive's own files to put back ("lost", "putting"). *)
Wanting == {"open", "ingest", "abort", "finish", "halt"}
Inside == {"opening", "ingesting", "aborting", "finishing", "halting"}
Into(p) == CASE p = "open" -> "opening" [] p = "ingest" -> "ingesting"
             [] p = "abort" -> "aborting"
             [] p = "finish" -> "finishing" [] p = "halt" -> "halting"

Actors == {"job", "abandon"}
Stages == {"none", "fence", "kill", "list", "record", "release", "finish"}

TypeOK ==
    /\ status \in [Tasks -> {"running", "failed", "completed", "cancelled"}]
    /\ owned \subseteq Tasks
    /\ pc \in [Tasks -> {"idle", "claim", "dispatch", "lost", "putting"}
                          \union Wanting \union Inside]
    /\ phase \in [Tasks -> {"new", "pending", "resolving", "done"}]
    /\ tries \in [Tasks -> 0..Retries]
    /\ {claim, lock, merge} \subseteq Tasks \union {None}
    /\ run \in [Tasks -> {"none", "queued", "creating", "live", "ended"}]
    /\ superseded \subseteq Tasks
    /\ host \in BOOLEAN
    /\ {hung, queued, old, sweep, reported, spared, finished} \subseteq SUBSET Tasks
    /\ td \in [Actors -> [Tasks -> Stages]]
    /\ redriven \in [Tasks -> 0..MaxRedrives]
    /\ sent \in [Tasks -> Nat]
    /\ faults \in 0..MaxFaults

Init ==
    /\ status = [t \in Tasks |-> "running"]
    /\ owned = Tasks
    /\ pc = [t \in Tasks |-> "idle"]
    /\ phase = [t \in Tasks |-> "new"]
    /\ tries = [t \in Tasks |-> 0]
    /\ claim = None /\ lock = None /\ merge = None
    /\ run = [t \in Tasks |-> "none"]
    /\ td = [k \in Actors |-> [t \in Tasks |-> "none"]]
    /\ redriven = [t \in Tasks |-> 0]
    /\ sent = [t \in Tasks |-> 0]
    /\ superseded = {} /\ hung = {} /\ queued = {} /\ old = {}
    /\ sweep = {} /\ reported = {} /\ spared = {} /\ finished = {} /\ faults = 0
    /\ host \in BOOLEAN

-----------------------------------------------------------------------------
(* taskWriteTarget: the task is live at the pass's epoch, which only a cancel
   moves here. *)
Live(t) == status[t] = "running"

(* liveClaimHolder: the claim of task u still keeps others out. *)
HoldsUntilCancelled(u) == status[u] \notin {"completed", "cancelled"}
Holds(u) ==
    /\ status[u] # "completed"
    /\ ~(status[u] = "cancelled" /\ u \in finished)

(* otherLiveClaim *)
HeldByOther(t) == claim \notin {t, None} /\ Holds(claim)

Goto(t, p) == pc' = [pc EXCEPT ![t] = p]

(* abortMerge, of the task's own. *)
Without(t) == IF merge = t THEN None ELSE merge

(* The merge is opened again for a fixer, or given up. *)
Again(t) == IF tries[t] < Retries THEN "open" ELSE "abort"

(* Where a pass that has the claim resumes. *)
Resume(t) ==
    IF phase[t] = "pending" THEN "open"
    ELSE IF run[t] = "ended" THEN "ingest" ELSE Again(t)

-----------------------------------------------------------------------------
(* An advance of the merge step, at the start or when its fixer ended: the
   merge state is saved before the directory is claimed. *)
PassStart(t) ==
    /\ pc[t] = "idle"
    /\ Live(t) /\ t \in owned
    /\ run[t] \in {"none", "ended"}
    /\ Goto(t, "claim")
    /\ phase' = [phase EXCEPT ![t] = IF @ = "new" THEN "pending" ELSE @]
    /\ UNCHANGED <<status, owned, tries, claim, lock, merge, runVars, jobVars, td, recVars>>

(* claimMergeDir, under the lock.  A directory another task holds fails the
   step; a pass whose task is no longer live holds nothing. *)
ClaimDir(t) ==
    /\ pc[t] = "claim"
    /\ lock = None
    /\ \/ /\ ~Live(t)
          /\ Goto(t, "idle")
          /\ UNCHANGED <<status, owned, claim>>
       \/ /\ Live(t) /\ HeldByOther(t)
          /\ Goto(t, "idle")
          /\ status' = IF t \in owned THEN [status EXCEPT ![t] = "failed"] ELSE status
          /\ owned' = owned \ {t}
          /\ UNCHANGED claim
       \/ /\ Live(t) /\ ~HeldByOther(t)
          /\ claim' = t
          /\ Goto(t, Resume(t))
          /\ UNCHANGED <<status, owned>>
    /\ UNCHANGED <<phase, tries, lock, merge, runVars, jobVars, td, recVars>>

(* withMergeDirSection: inside only with the claim and a live task.  A pass that
   was opening a merge has files set aside to put back. *)
EnterSection(t) ==
    /\ pc[t] \in Wanting
    /\ lock = None
    /\ \/ /\ claim = t /\ Live(t)
          /\ lock' = t
          /\ Goto(t, Into(pc[t]))
       \/ /\ ~(claim = t /\ Live(t))
          /\ Goto(t, IF pc[t] \in {"open", "abort"} THEN "lost" ELSE "idle")
          /\ UNCHANGED lock
    /\ UNCHANGED <<status, owned, phase, tries, claim, merge, runVars, jobVars, td, recVars>>

(* openPending and reopen: an earlier merge in the directory is aborted and this
   task's is opened.  The first outcome is saved through updateOwnedStep, which
   throws once the row is no longer the pass's; what git did stays. *)
OpenMerge(t) ==
    /\ pc[t] = "opening"
    /\ lock' = None
    /\ \/ /\ merge' \in {None, t}                        \* merged, or a conflict
          /\ \/ /\ phase[t] = "pending" /\ t \in owned
                /\ phase' = [phase EXCEPT ![t] = "resolving"]
                /\ Goto(t, IF merge' = t THEN Again(t) ELSE "finish")
             \/ /\ phase[t] = "pending" /\ t \notin owned
                /\ Goto(t, "lost")
                /\ UNCHANGED phase
             \/ /\ phase[t] = "resolving"
                /\ Goto(t, IF merge' = t THEN "dispatch" ELSE "finish")
                /\ UNCHANGED phase
       \/ /\ merge' = None                               \* git refused the merge
          /\ Goto(t, "halt")
          /\ UNCHANGED phase
       \/ /\ merge # None                                \* the old one would not abort
          /\ Goto(t, "halt")
          /\ UNCHANGED <<merge, phase>>
    /\ UNCHANGED <<status, owned, tries, claim, runVars, jobVars, td, recVars>>

(* The merge is given up: aborted, unless git will not, and the step halts. *)
AbortMerge(t) ==
    /\ pc[t] = "aborting"
    /\ lock' = None
    /\ merge' \in {merge, Without(t)}
    /\ Goto(t, "halt")
    /\ UNCHANGED <<status, owned, phase, tries, claim, runVars, jobVars, td, recVars>>

(* dispatchFixAgent: the run is inserted while the row is the pass's own, and
   the pass parks on it. *)
Dispatch(t) ==
    /\ pc[t] = "dispatch"
    /\ \/ /\ t \in owned
          /\ run' = [run EXCEPT ![t] = "queued"]
          /\ superseded' = superseded \ {t}
          /\ tries' = [tries EXCEPT ![t] = @ + 1]
          /\ Goto(t, "idle")
       \/ /\ t \notin owned
          /\ Goto(t, "idle")
          /\ UNCHANGED <<run, superseded, tries>>
       \/ /\ Goto(t, "abort")             \* no provider
          /\ UNCHANGED <<run, superseded, tries>>
    /\ UNCHANGED <<status, owned, phase, claim, lock, merge, jobVars, td, recVars>>

(* The fixer's result.  The merge is committed; or aborted to be opened again or
   given up, the attempt refunded when the fixer never answered; or the step halts
   on a dead provider, a held index or an abort git refuses; or it is left open
   for a person's answer, which renews the retries. *)
Ingest(t) ==
    /\ pc[t] = "ingesting"
    /\ lock' = None
    /\ run' = [run EXCEPT ![t] = "none"]
    /\ \/ /\ merge' = Without(t)
          /\ Goto(t, "finish") \/ Goto(t, Again(t))
          /\ UNCHANGED tries
       \/ /\ merge' = Without(t)
          /\ tries' = [tries EXCEPT ![t] = IF @ = 0 THEN 0 ELSE @ - 1]
          /\ Goto(t, IF tries'[t] < Retries THEN "open" ELSE "abort")
       \/ /\ merge' \in {merge, Without(t)}
          /\ Goto(t, "halt")
          /\ UNCHANGED tries
       \/ /\ Goto(t, "idle")
          /\ tries' = [tries EXCEPT ![t] = 0]
          /\ UNCHANGED merge
    /\ UNCHANGED <<status, owned, phase, claim, superseded, jobVars, td, recVars>>

(* reachDone: the release and the record commit together, or not at all when the
   row was taken; the step is done and its task completes. *)
FinishSection(t) ==
    /\ pc[t] = "finishing"
    /\ lock' = None
    /\ Goto(t, "idle")
    /\ \/ /\ t \in owned
          /\ claim' = None
          /\ phase' = [phase EXCEPT ![t] = "done"]
          /\ status' = [status EXCEPT ![t] = "completed"]
          /\ owned' = owned \ {t}
       \/ /\ t \notin owned
          /\ UNCHANGED <<claim, phase, status, owned>>
    /\ UNCHANGED <<tries, merge, runVars, jobVars, td, recVars>>

(* halt: the claim stays with the step's own open merge, and with a base that was
   merged into and not yet pushed. *)
HaltSection(t) ==
    /\ pc[t] = "halting"
    /\ lock' = None
    /\ Goto(t, "idle")
    /\ \/ /\ t \in owned
          /\ claim' \in IF merge = t THEN {claim} ELSE {claim, None}
          /\ status' = [status EXCEPT ![t] = "failed"]
          /\ owned' = owned \ {t}
       \/ /\ t \notin owned
          /\ UNCHANGED <<claim, status, owned>>
    /\ UNCHANGED <<phase, tries, merge, runVars, jobVars, td, recVars>>

(* inMergeDirUnlessClaimed: a write that must still run after the pass's own
   claim is gone, refused while another task holds the directory. *)
PutBack(t) ==
    /\ pc[t] = "lost"
    /\ lock = None
    /\ \/ /\ ~HeldByOther(t)
          /\ lock' = t
          /\ Goto(t, "putting")
       \/ /\ Goto(t, "idle")            \* refused, or nothing was set aside
          /\ UNCHANGED lock
    /\ UNCHANGED <<status, owned, phase, tries, claim, merge, runVars, jobVars, td, recVars>>

PutBackEnds(t) ==
    /\ pc[t] = "putting"
    /\ lock' = None
    /\ Goto(t, "idle")
    /\ UNCHANGED <<status, owned, phase, tries, claim, merge, runVars, jobVars, td, recVars>>

(* The worker dies inside the pass: its transaction is rolled back, what git
   did stays, and the advance is delivered again. *)
PassCrash(t) ==
    /\ pc[t] # "idle"
    /\ Goto(t, "idle")
    /\ lock' = IF lock = t THEN None ELSE lock
    /\ merge' \in IF pc[t] = "opening" THEN {merge, None, t} ELSE {merge}
    /\ UNCHANGED <<status, owned, phase, tries, claim, runVars, jobVars, td, recVars>>

-----------------------------------------------------------------------------
(* createUnlessSuperseded: the check and the create are inside the task's fence;
   a run superseded before ends without a sandbox. *)
CreateUnchecked(t) ==
    /\ run[t] = "queued"
    /\ run' = [run EXCEPT ![t] = "creating"]
    /\ UNCHANGED <<passVars, superseded, jobVars, td, recVars>>

CreateCheck(t) ==
    /\ run[t] = "queued"
    /\ run' = [run EXCEPT ![t] = IF t \in superseded THEN "ended" ELSE "creating"]
    /\ UNCHANGED <<passVars, superseded, jobVars, td, recVars>>

Created(t) ==
    /\ run[t] = "creating"
    /\ run' = [run EXCEPT ![t] = "live"]
    /\ UNCHANGED <<passVars, superseded, jobVars, td, recVars>>

(* The fixer ends, or is aborted when its row is found superseded. *)
RunEnds(t) ==
    /\ run[t] = "live"
    /\ run' = [run EXCEPT ![t] = "ended"]
    /\ UNCHANGED <<passVars, superseded, jobVars, td, recVars>>

-----------------------------------------------------------------------------
(* stopActiveCliInvocations, the first half of the Cancel action: outside the
   fence, the open runs are superseded and the open rows end; then the sandboxes
   are killed as far as docker obeys. *)
StopRuns(t) ==
    /\ t \in Cancellable
    /\ status[t] \in {"running", "failed"}
    /\ owned' = owned \ {t}
    /\ superseded' = superseded \union {u \in {t} : run[u] \notin {"none", "ended"}}
    /\ run' \in {run, [run EXCEPT ![t] = IF @ = "live" THEN "ended" ELSE @]}
    /\ UNCHANGED <<status, pc, phase, tries, claim, lock, merge, jobVars, td, recVars>>

(* cancelTaskRow: the task is cancelled and its open rows end.  The CANCEL job is
   queued, lost, or still on its way when the api stops waiting. *)
Cancel(t) ==
    /\ t \in Cancellable
    /\ status[t] \in {"running", "failed"}
    /\ status' = [status EXCEPT ![t] = "cancelled"]
    /\ owned' = owned \ {t}
    /\ \/ queued' = queued \union {t} /\ UNCHANGED hung
       \/ hung' = hung \union {t} /\ UNCHANGED queued
       \/ UNCHANGED <<hung, queued>>
    /\ UNCHANGED <<pc, phase, tries, claim, lock, merge, runVars,
                   old, redriven, sweep, sent, td, recVars>>

HungLands(t) ==
    /\ t \in hung
    /\ hung' = hung \ {t}
    /\ queued' = queued \union {t}
    /\ UNCHANGED <<passVars, runVars, old, redriven, sweep, sent, td, recVars>>

-----------------------------------------------------------------------------
Fault ==
    /\ faults < MaxFaults
    /\ faults' = faults + 1
    /\ UNCHANGED <<host, reported, spared, finished>>

(* The teardown, run by the CANCEL job and by the abandon pass. *)
Stage(k, t, s) == td' = [td EXCEPT ![k][t] = s]

(* handleCancelTask: markTaskCancelled writes another task.cancelled event. *)
CancelJob(t) ==
    /\ t \in queued
    /\ td["job"][t] = "none"
    /\ queued' = queued \ {t}
    /\ old' = old \ {t}
    /\ Stage("job", t, "fence")
    /\ UNCHANGED <<passVars, runVars, hung, redriven, sweep, sent, recVars>>

(* supersedeTaskRuns: waits for a create that already passed its check. *)
Supersede(k, t) ==
    /\ td[k][t] = "fence"
    /\ run[t] # "creating"
    /\ superseded' = superseded \union {u \in {t} : run[u] \notin {"none", "ended"}}
    /\ Stage(k, t, "kill")
    /\ UNCHANGED <<passVars, run, jobVars, recVars>>

(* killCliSandboxesForTask, which swallows what docker refuses. *)
Kill(k, t) ==
    /\ td[k][t] = "kill"
    /\ run' = [run EXCEPT ![t] = IF @ = "live" THEN "ended" ELSE @]
    /\ Stage(k, t, "list")
    /\ UNCHANGED <<passVars, superseded, jobVars, recVars>>

KillFails(k, t) ==
    /\ Fault
    /\ td[k][t] = "kill"
    /\ Stage(k, t, "list")
    /\ UNCHANGED <<passVars, runVars, jobVars>>

(* listCliSandboxesForTask: only an empty listing lets the teardown go on. *)
List(k, t) ==
    /\ td[k][t] = "list"
    /\ Stage(k, t, IF run[t] = "live" THEN "none" ELSE "record")
    /\ UNCHANGED <<passVars, runVars, jobVars, recVars>>

(* worktreeSharer: another task points at the directory as its worktree and is
   not completed, nor cancelled and torn down. *)
WorktreeSharer(t) == \E u \in Sharers \ {t} : Holds(u)

(* recordedMerges: the task's row says a merge was in progress, and the directory
   is not a person's own checkout. *)
Looks(t) == phase[t] \in {"pending", "resolving"} /\ ~host

(* The merge is read only where no other task has the claim row or works. *)
LeftOpen(t) == Looks(t) /\ merge = t /\ claim \in {t, None}

ReportOrSpare(k, t) ==
    /\ reported' = reported \union {u \in {t} : LeftOpen(u) /\ ~WorktreeSharer(u)}
    /\ spared' = spared \union {u \in {t} : LeftOpen(u) /\ WorktreeSharer(u)}
    /\ Stage(k, t, IF k = "job" THEN "release" ELSE "finish")
    /\ UNCHANGED <<passVars, runVars, jobVars, host, finished, faults>>

(* recordLeftOpenMerges: where it looks, under the lock. *)
RecordUnlocked(k, t) == td[k][t] = "record" /\ ReportOrSpare(k, t)

Record(k, t) ==
    /\ td[k][t] = "record"
    /\ Looks(t) => lock = None
    /\ ReportOrSpare(k, t)

(* releaseTaskMergeClaims, under the lock: the job releases before it records
   the finish, the abandon pass after. *)
ReleaseClaims(k, t) ==
    /\ td[k][t] = "release"
    /\ lock = None
    /\ claim' = IF claim = t THEN None ELSE claim
    /\ Stage(k, t, IF k = "job" THEN "finish" ELSE "none")
    /\ UNCHANGED <<status, owned, pc, phase, tries, lock, merge, runVars, jobVars, recVars>>

FinishCancel(k, t) ==
    /\ td[k][t] = "finish"
    /\ finished' = finished \union {t}
    /\ Stage(k, t, IF k = "job" THEN "none" ELSE "release")
    /\ UNCHANGED <<passVars, runVars, jobVars, host, reported, spared, faults>>

(* Docker cannot list, a step throws, or the worker dies. *)
TeardownFails(k, t) ==
    /\ Fault
    /\ td[k][t] # "none"
    /\ Stage(k, t, "none")
    /\ UNCHANGED <<passVars, runVars, jobVars>>

-----------------------------------------------------------------------------
(* readQueuedCancelTaskIds: waiting or active. *)
CancelQueued(t) == t \in queued \/ td["job"][t] # "none"

(* redriveCancelledTasks: the attempt is counted before the job exists. *)
RedriveUncounted(t) ==
    /\ status[t] = "cancelled" /\ t \notin finished /\ t \notin old
    /\ redriven[t] < MaxRedrives
    /\ ~CancelQueued(t) /\ t \notin sweep
    /\ sweep' = sweep \union {t}
    /\ UNCHANGED <<passVars, runVars, hung, queued, old, redriven, sent, td, recVars>>

Redrive(t) ==
    /\ status[t] = "cancelled" /\ t \notin finished /\ t \notin old
    /\ redriven[t] < MaxRedrives
    /\ ~CancelQueued(t) /\ t \notin sweep
    /\ redriven' = [redriven EXCEPT ![t] = @ + 1]
    /\ sweep' = sweep \union {t}
    /\ UNCHANGED <<passVars, runVars, hung, queued, old, sent, td, recVars>>

RedriveQueues(t) ==
    /\ t \in sweep
    /\ sweep' = sweep \ {t}
    /\ queued' = queued \union {t}
    /\ sent' = [sent EXCEPT ![t] = @ + 1]
    /\ UNCHANGED <<passVars, runVars, hung, old, redriven, td, recVars>>

(* The queue refused the job: the attempt is given back. *)
RedriveRefused(t) ==
    /\ Fault
    /\ t \in sweep
    /\ sweep' = sweep \ {t}
    /\ redriven' = [redriven EXCEPT ![t] = @ - 1]
    /\ UNCHANGED <<passVars, runVars, hung, queued, old, sent, td>>

(* The worker dies between the count and the job. *)
RedriveCrash(t) ==
    /\ Fault
    /\ t \in sweep
    /\ sweep' = sweep \ {t}
    /\ UNCHANGED <<passVars, runVars, hung, queued, old, redriven, sent, td>>

(* The last task.cancelled event leaves the re-drive window. *)
Age(t) ==
    /\ status[t] = "cancelled" /\ t \notin finished \union old
    /\ ~CancelQueued(t)
    /\ old' = old \union {t}
    /\ UNCHANGED <<passVars, runVars, hung, queued, redriven, sweep, sent, td, recVars>>

(* abandonCancelledTeardowns: a cancel the re-drive no longer retries, of a task
   that still has a claim row. *)
AbandonOnlyOld(t) ==
    /\ status[t] = "cancelled" /\ t \notin finished
    /\ claim = t /\ t \in old
    /\ ~CancelQueued(t) /\ t \notin sweep
    /\ td["abandon"][t] = "none"
    /\ Stage("abandon", t, "fence")
    /\ UNCHANGED <<passVars, runVars, jobVars, recVars>>

Abandon(t) ==
    /\ status[t] = "cancelled" /\ t \notin finished
    /\ claim = t
    /\ redriven[t] >= MaxRedrives \/ t \in old
    /\ ~CancelQueued(t) /\ t \notin sweep
    /\ td["abandon"][t] = "none"
    /\ Stage("abandon", t, "fence")
    /\ UNCHANGED <<passVars, runVars, jobVars, recVars>>

-----------------------------------------------------------------------------
Pass(t) ==
    \/ PassStart(t) \/ ClaimDir(t) \/ EnterSection(t) \/ OpenMerge(t) \/ AbortMerge(t)
    \/ Dispatch(t) \/ Ingest(t) \/ FinishSection(t) \/ HaltSection(t)
    \/ PutBack(t) \/ PutBackEnds(t) \/ PassCrash(t)
Fixer(t) == CreateCheck(t) \/ Created(t) \/ RunEnds(t)
TeardownWorks(k, t) ==
    \/ Supersede(k, t) \/ Kill(k, t) \/ List(k, t)
    \/ Record(k, t) \/ ReleaseClaims(k, t) \/ FinishCancel(k, t)
Teardown(k, t) == TeardownWorks(k, t) \/ KillFails(k, t) \/ TeardownFails(k, t)
Sweep(t) ==
    \/ Redrive(t) \/ RedriveQueues(t) \/ RedriveRefused(t) \/ RedriveCrash(t)
    \/ Age(t) \/ Abandon(t)

Next ==
    \E t \in Tasks :
       \/ Pass(t) \/ Fixer(t) \/ StopRuns(t) \/ Cancel(t) \/ HungLands(t) \/ CancelJob(t)
       \/ \E k \in Actors : Teardown(k, t)
       \/ Sweep(t)

Spec == Init /\ [][Next]_vars

(* The sweep runs every minute, the workers take their jobs, a section and a
   create end.  What fails, fails for a time and not for ever (MaxFaults).  The
   locks are polled: a teardown gets one that is free again and again. *)
LeavesSection(t) ==
    \/ OpenMerge(t) \/ AbortMerge(t) \/ Ingest(t)
    \/ FinishSection(t) \/ HaltSection(t) \/ PutBackEnds(t)
Fairness ==
    /\ WF_vars(\E t \in Tasks : LeavesSection(t))
    /\ \A t \in Tasks : WF_vars(Created(t))
    /\ \A t \in Cancellable :
          /\ WF_vars(CancelJob(t)) /\ WF_vars(RedriveQueues(t))
          /\ WF_vars(Redrive(t)) /\ WF_vars(Abandon(t))
          /\ \A k \in Actors : SF_vars(TeardownWorks(k, t))

FairSpec == Spec /\ Fairness

-----------------------------------------------------------------------------
(* A task writes to the directory from a section of its pass, or from the
   sandbox of its fixer. *)
Writing(t) == lock = t \/ run[t] = "live"

(* The claim is exclusive use of the merge directory between tasks: a fixer that
   outlived its task's cancel, a section a cancelled pass is still inside, and a
   put-back after the claim was released all exclude the other tasks' writes,
   through lost CANCEL jobs, failed kills, crashes and abandoned teardowns. *)
Dir == INSTANCE ExclusiveUse
           WITH Users <- Tasks, inside <- {t \in Tasks : Writing(t)}
ExclusiveDir == Dir!Spec

(* Once task.cancel_finished is written no sandbox of the task is left and none
   can come: "whoever deletes them waits for this record". *)
TornDown ==
    \A t \in finished :
       /\ run[t] \notin {"creating", "live"}
       /\ run[t] = "queued" => t \in superseded
       /\ t \notin owned

(* A merge a cancelled task left open is reported by the time the cancel is
   finished, even when a pass that outlived the cancel opened it.  Two merges are
   not: one in a person's own checkout, which the cancel does not look at, and
   one in a worktree another task still worked in when the cancel looked. *)
LeftOpenReported ==
    \A t \in finished : merge = t => host \/ t \in reported \union spared

(* "A teardown that fails every time is re-driven this often": refused enqueues,
   and deaths between the count and the job, never let the sweep queue more. *)
RedriveCapped == \A t \in Tasks : sent[t] <= MaxRedrives

(* A cancelled task does not keep the directory: its claim is released, or
   stops holding, whatever fails on the way. *)
DirIsFreed ==
    \A t \in Cancellable :
       (status[t] = "cancelled" /\ claim = t) ~> (claim # t \/ ~Holds(t))

(* What the records of a cancel say is so: nothing of a finished one is left or
   comes back unreported, and its attempts were as many as were counted. *)
CancelRecordsTrue == TypeOK /\ TornDown /\ LeftOpenReported /\ RedriveCapped
=============================================================================
