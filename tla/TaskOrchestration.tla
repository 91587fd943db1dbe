--------------------------- MODULE TaskOrchestration ---------------------------
(* One task of Haive and everything that moves it: the task worker
   (packages/worker/src/queues/task-queue.ts, step-engine/step-runner.ts), boot
   recovery, the stalled sweep (stalled-redrive.ts), the CLI runs' completion,
   and the api's actions (packages/api/src/routes/tasks, lib/task-control.ts).

   They share the task's row (status, current step, orchestration epoch), its
   step rows and the BullMQ queue, and nothing else: no lock spans a pass.  What
   keeps them apart is the epoch fence on every task write, the ownership test
   on every row write, the guards at pickup and the in-process hold on a step.

   One action is one database transaction or one read the code acts on later,
   so everything the code does between two of them may be overtaken.  A run
   stands for all the agent work of one pass, and forms, outputs and messages
   are reduced to whether the form was answered.  Fix-loop rounds are left out:
   every row is at round 0. *)
EXTENDS Integers, FiniteSets

CONSTANTS
    N,            \* length of the run list (buildRunList)
    Jobs,         \* slots of the task queue: jobs that exist at one time
    UserActions,  \* the api actions this instance allows
    FaultKinds,   \* the faults this instance allows
    MaxClicks,    \* api actions that restart, stop or end the task
    MaxFaults,    \* faults
    MaxEpoch      \* epochs the recovery passes may reach

AllUserActions ==
    {"stop", "cancel", "retry", "retry_task", "skip", "retry_ai", "auto_resume", "submit"}
AllFaultKinds == {"crash", "lose_job", "lose_run", "duplicate", "throw", "park", "undo"}

ASSUME NAssumption == N \in Nat \ {0}
ASSUME BoundsAssumption == MaxClicks \in Nat /\ MaxFaults \in Nat /\ MaxEpoch \in Nat
ASSUME KindsAssumption ==
    UserActions \subseteq AllUserActions /\ FaultKinds \subseteq AllFaultKinds

Steps == 1..N
NoEpoch == -1

VARIABLES
    status,    \* tasks.status
    epoch,     \* tasks.orchestration_epoch
    cur,       \* tasks.current_step_id; 0: null
    watch,     \* tasks.awaiting_allowance_provider_id is set
    row,       \* task_steps.status of each step; "none": no row yet
    since,     \* history: the epoch at which each row was last reset or reopened
    aim,       \* history: the step the task was last started or restarted at
    answered,  \* the steps whose form_values are set
    run,       \* the step's agent run
    resuming,  \* steps whose ended run is about to queue its continuation
    job,       \* the task queue's jobs and the passes running them
    worker,    \* the worker process: [ph, e, c, todo]
    undo,      \* the epoch a re-drive that could not be queued will put back
    cancel,    \* how far a Cancel has come, and the rows it does not hold
    cut,       \* history: the steps whose pass died before it ended their agents
    clicks, faults

vars == <<status, epoch, cur, watch, row, since, aim, answered, run, resuming, job,
          worker, undo, cancel, cut, clicks, faults>>

-----------------------------------------------------------------------------
Statuses == {"created", "queued", "running", "waiting_user", "failed",
             "completed", "cancelled"}
TerminalTaskStatuses == {"completed", "cancelled"}
StartableTaskStatuses == {"created", "queued"}
OpenTaskStatuses == {"created", "queued", "running", "waiting_user"}

RowStatuses == {"none", "pending", "running", "waiting_cli", "waiting_form",
                "done", "skipped", "failed"}
ActiveStepStatuses == {"running", "waiting_cli", "waiting_form"}
LiveStepStatuses == {"running", "waiting_cli"}

(* "live": queued or running.  "lost": recorded, but no cli-exec job owes it.
   "dead": its process is gone and the row is still open.  "exiting": ended, and
   its handler has not yet asked whether to resume the step.  "orphaned": ended
   by recovery.  A superseded run is no run. *)
RunStates == {"none", "live", "lost", "dead", "exiting", "ended", "orphaned"}
OpenRun == {"live", "lost", "dead"}

(* Where a job is.  "wait": queued or delayed.  "orphan": active in a worker
   that died.  Then the stages of a pass: "start" and "hold" are START's, "look"
   has read the task, "claim" has read the row, "open" has claimed the task,
   "work" runs the step, "release" has failed it and ends its agents, "result"
   hands it off, "next" queues the successor. *)
Stages == {"free", "wait", "orphan", "start", "hold", "look", "claim", "open",
           "work", "release", "result", "next"}
HoldingStages == {"look", "claim", "open", "work", "release", "result", "next"}
RunningStages == HoldingStages \cup {"start", "hold"}
Kinds == {"start", "advance", "answer"}
Results == {"none", "done", "skipped", "failed", "waiting_form", "waiting_cli"}

NoJob == [pc |-> "free", kind |-> "advance", s |-> 1, e |-> NoEpoch,
          ce |-> NoEpoch, cs |-> "created", cc |-> 0, res |-> "none"]
Queued(kind, s, e) == [pc |-> "wait", kind |-> kind, s |-> s, e |-> e,
                       ce |-> NoEpoch, cs |-> "created", cc |-> 0, res |-> "none"]

(* A Cancel stops the agents ("stopped"), cancels the task in a second
   transaction ("owed": the CANCEL job has still to end what is left), and its
   job ends the rows ("rows") and then the runs ("ended").  `late`: the rows that
   do not exist yet when it locks the task's rows. *)
CancelPhases == {"none", "stopped", "owed", "rows", "ended"}
NoCancel == [ph |-> "none", late |-> {}]

Up == [ph |-> "up", e |-> 0, c |-> 0, todo |-> {}]
Down == [Up EXCEPT !.ph = "down"]

Free == {j \in Jobs : job[j].pc = "free"}

(* Mutant: an advance that does not look whether its step is held. *)
HeldByNobody(s) == s \notin Steps

(* advancingSteps: the steps some pass of this process holds. *)
Held(s) == \E j \in Jobs : job[j].pc \in HoldingStages /\ job[j].s = s

(* Mutant: a task write that does not compare the epoch. *)
WriteTargetAnyEpoch(e, revive) ==
    status \notin TerminalTaskStatuses /\ (status = "failed" => revive)

(* taskWriteTarget: a job's write to the task lands only at the epoch the job
   holds, never on an ended task, and on a failed one only if the job may
   revive it. *)
TaskWriteTarget(e, revive) ==
    /\ status \notin TerminalTaskStatuses
    /\ status = "failed" => revive
    /\ epoch = e

(* Mutant: a row a Retry reset still counts as the pass's own. *)
OwnedAfterReset(s) == row[s] \notin {"none", "skipped", "failed"}

(* owned: the row is still the pass's own. *)
Owned(s) == row[s] \notin {"none", "pending", "skipped", "failed"}

(* advanceChainHasMoved and isCurrentStep, on the pointer c that was read. *)
ChainHasMoved(c, s) == c # 0 /\ c # s

Active == {s \in Steps : row[s] \in ActiveStepStatuses}
LiveRows == {s \in Steps : row[s] \in LiveStepStatuses}
OtherActive(s) == Active \ {s} # {}

NonPendingAfter(s) == {t \in Steps : t > s /\ row[t] \notin {"none", "pending"}}

-----------------------------------------------------------------------------
TypeOK ==
    /\ status \in Statuses
    /\ epoch \in Nat
    /\ cur \in 0..N
    /\ watch \in BOOLEAN
    /\ row \in [Steps -> RowStatuses]
    /\ since \in [Steps -> Nat]
    /\ aim \in Steps
    /\ answered \subseteq Steps
    /\ run \in [Steps -> RunStates]
    /\ resuming \subseteq Steps
    /\ job \in [Jobs -> [pc : Stages, kind : Kinds, s : Steps, e : Nat \cup {NoEpoch},
                         ce : Nat \cup {NoEpoch}, cs : Statuses, cc : 0..N, res : Results]]
    /\ worker \in [ph : {"up", "down", "parked", "running"}, e : Nat, c : 0..N, todo : SUBSET Steps]
    /\ undo \in Nat \cup {NoEpoch}
    /\ cancel \in [ph : CancelPhases, late : SUBSET Steps]
    /\ cut \subseteq Steps
    /\ clicks \in 0..MaxClicks
    /\ faults \in 0..MaxFaults

Init ==
    /\ status = "created"
    /\ epoch = 0
    /\ cur = 0
    /\ watch = FALSE
    /\ row = [s \in Steps |-> "none"]
    /\ since = [s \in Steps |-> 0]
    /\ aim = 1
    /\ answered = {}
    /\ run = [s \in Steps |-> "none"]
    /\ resuming = {}
    /\ job = [j \in Jobs |-> NoJob]
    /\ worker = Up
    /\ undo = NoEpoch
    /\ cancel = NoCancel
    /\ cut = {}
    /\ clicks = 0
    /\ faults = 0

-----------------------------------------------------------------------------
(* Helpers of the actions. *)

taskVars == <<status, epoch, cur, watch, aim>>
rowVars == <<row, since, answered, run>>
endVars == <<cancel, cut>>
envVars == <<resuming, worker, undo, endVars, clicks, faults>>

Drop(j) == job' = [job EXCEPT ![j] = NoJob]
Enqueue(kind, s, e) == \E j \in Free : job' = [job EXCEPT ![j] = Queued(kind, s, e)]

(* Mutant: a reset that leaves the runs of its rows standing. *)
ResetRowsKeepRuns(reset, reopened) ==
    /\ row' = [s \in Steps |-> IF s \in reset THEN "pending" ELSE row[s]]
    /\ run' = run
    /\ answered' = answered \ reset
    /\ since' = [s \in Steps |-> IF s \in reset \cup reopened THEN epoch + 1 ELSE since[s]]

(* resetRowsForRerun and the row half of resetStepAndDownstream: the rows go
   back to pending, their runs are superseded, their answers dropped.  The
   epoch bump of the same transaction is what `since` records. *)
ResetRows(reset, reopened) ==
    /\ row' = [s \in Steps |-> IF s \in reset THEN "pending" ELSE row[s]]
    /\ run' = [s \in Steps |-> IF s \in reset THEN "none" ELSE run[s]]
    /\ answered' = answered \ reset
    /\ since' = [s \in Steps |-> IF s \in reset \cup reopened THEN epoch + 1 ELSE since[s]]

Fault(kind) == kind \in FaultKinds /\ faults < MaxFaults /\ faults' = faults + 1
Click(action) == action \in UserActions /\ clicks < MaxClicks /\ clicks' = clicks + 1

-----------------------------------------------------------------------------
(* START (handleStartTask).  The job reads the task and later claims it. *)
TakeStart(j) ==
    /\ worker.ph = "up"
    /\ job[j].pc = "wait" /\ job[j].kind = "start"
    /\ job' = [job EXCEPT ![j].pc = "start", ![j].ce = epoch]
    /\ UNCHANGED <<taskVars, rowVars, envVars>>

(* claimTaskStart, then the pause gate: a paused first step goes to an
   advance, any other is run by this job. *)
ClaimStart(j) ==
    /\ job[j].pc = "start"
    /\ IF status \in StartableTaskStatuses /\ epoch = job[j].ce
       THEN /\ status' = "running"
            /\ cur' = 1
            /\ \/ job' = [job EXCEPT ![j].pc = "hold"] /\ UNCHANGED faults
               \/ Fault("park") /\ job' = [job EXCEPT ![j] = Queued("advance", 1, job[j].ce)]
       ELSE Drop(j) /\ UNCHANGED <<status, cur, faults>>
    /\ UNCHANGED <<epoch, watch, aim, rowVars, resuming, worker, undo, endVars, clicks>>

(* takeStepHold: START waits for a pass that is still on the first step. *)
TakeStepHold(j) ==
    /\ job[j].pc = "hold"
    /\ ~Held(1)
    /\ job' = [job EXCEPT ![j].pc = "open", ![j].s = 1]
    /\ UNCHANGED <<taskVars, rowVars, envVars>>

(* holdStepAdvance and the guards of handleAdvanceStep on the task's row.  A
   job whose step is held stays in the queue (moveToDelayed). *)
TakeAdvance(j) ==
    LET b == job[j]
        stale == b.e # NoEpoch /\ b.e < epoch
        left == b.kind # "answer" /\ ChainHasMoved(cur, b.s)
    IN
    /\ worker.ph = "up"
    /\ b.pc = "wait" /\ b.kind # "start"
    /\ ~Held(b.s)
    /\ IF status \in TerminalTaskStatuses \/ stale \/ left
       THEN Drop(j)
       ELSE job' = [job EXCEPT ![j].pc = "look", ![j].ce = epoch, ![j].cs = status, ![j].cc = cur]
    /\ UNCHANGED <<taskVars, rowVars, envVars>>

(* Mutant: an advance queued before the task failed still runs. *)
FailedTaskNeverRefuses(b) == b.cs \notin Statuses

(* failedTaskRefusesAdvance *)
FailedTaskRefusesAdvance(b) ==
    b.cs = "failed" /\ ~(row[b.s] = "waiting_form" /\ b.kind = "answer")

(* isStaleSubmit: an answer whose form was opened again since, so that the row
   holds no answer. *)
StaleSubmit(b) ==
    b.kind = "answer" /\ row[b.s] = "waiting_form" /\ b.s \notin answered

(* finishFailedStep from `running`, at the epoch the caller holds. *)
FinishFailedStep(e) ==
    LET fails == status = "running" /\ epoch = e IN
    /\ status' = IF fails THEN "failed" ELSE status
    /\ watch' = (watch \/ fails)

(* The guards of handleAdvanceStep on the step rows: the advance is refused
   beside another active step, on a failed task, for a done row the task has
   moved past and for a stale submit; it finishes the failure of a failed row,
   hands a done or skipped row and a form of a running task back, and goes on to
   claim the task otherwise. *)
Refused(b) ==
    \/ OtherActive(b.s)
    \/ FailedTaskRefusesAdvance(b)
    \/ row[b.s] = "done" /\ ChainHasMoved(b.cc, b.s)
    \/ StaleSubmit(b) /\ b.cs # "running"

HandsBack(b) == row[b.s] \in {"done", "skipped"} \/ StaleSubmit(b)

Look(j) ==
    LET b == job[j] IN
    /\ b.pc = "look"
    /\ \/ Refused(b) /\ Drop(j) /\ UNCHANGED <<status, watch>>
       \/ ~Refused(b) /\ row[b.s] = "failed" /\ Drop(j) /\ FinishFailedStep(b.ce)
       \/ /\ ~Refused(b) /\ HandsBack(b)
          /\ job' = [job EXCEPT ![j].pc = "result", ![j].res = row[b.s], ![j].cc = 0]
          /\ UNCHANGED <<status, watch>>
       \/ /\ ~Refused(b) /\ ~HandsBack(b) /\ row[b.s] # "failed"
          /\ job' = [job EXCEPT ![j].pc = "claim", ![j].cc = 0]
          /\ UNCHANGED <<status, watch>>
    /\ UNCHANGED <<epoch, cur, aim, rowVars, envVars>>

(* A pause, a module's schema, a disabled provider or a full runtime pool holds
   a step that has not started: the row is written pending and the task pointed
   at it, both under the fence (writeFencedPark), and the advance queues itself
   again without the answer it carried. *)
Park(j) ==
    LET b == job[j] IN
    /\ b.pc = "claim"
    /\ row[b.s] \in {"none", "pending"}
    /\ Fault("park")
    /\ IF TaskWriteTarget(b.ce, FALSE)
       THEN /\ row' = [row EXCEPT ![b.s] = "pending"]
            /\ status' = "running"
            /\ cur' = b.s
            /\ job' = [job EXCEPT ![j] = Queued("advance", b.s, b.ce)]
       ELSE Drop(j) /\ UNCHANGED <<row, status, cur>>
    /\ UNCHANGED <<epoch, watch, aim, since, answered, run, resuming, worker, undo, endVars, clicks>>

(* markTaskRunningWithStep: the task is running and pointed at the step before
   the step runs. *)
Claim(j) ==
    LET b == job[j] IN
    /\ b.pc = "claim"
    /\ IF TaskWriteTarget(b.ce, b.cs = "failed")
       THEN /\ status' = "running"
            /\ cur' = b.s
            /\ job' = [job EXCEPT ![j].pc = "open", ![j].cs = "created"]
       ELSE Drop(j) /\ UNCHANGED <<status, cur>>
    /\ UNCHANGED <<epoch, watch, aim, rowVars, envVars>>

(* advanceStep up to the step's own work.  An ended row is handed back as it
   is; a pending row is opened, or skipped by shouldRun, under the fence
   (openPendingStep); a parked form resumes only with an answer.  The answer a
   job carries is saved, unless a Retry holds the form (pauseFormOnRetry), the
   provider changed, or agent work due before the form parks the pass first. *)
Open(j) ==
    LET b == job[j]
        fresh == row[b.s] \in {"none", "pending"}
        parked == row[b.s] = "waiting_form"
        hasAnswer == b.s \in answered \/ b.kind = "answer"
        answeredNow == IF b.kind = "answer" THEN answered \cup {b.s} ELSE answered
    IN
    /\ b.pc = "open"
    /\ \/ /\ fresh /\ ~TaskWriteTarget(b.ce, FALSE)
          /\ row' = [row EXCEPT ![b.s] = "pending"]
          /\ Drop(j)
          /\ UNCHANGED answered
       \/ /\ fresh /\ TaskWriteTarget(b.ce, FALSE)
          /\ row' = [row EXCEPT ![b.s] = "skipped"]
          /\ job' = [job EXCEPT ![j].pc = "result", ![j].res = "skipped"]
          /\ UNCHANGED answered
       \/ /\ (fresh /\ TaskWriteTarget(b.ce, FALSE)) \/ (parked /\ hasAnswer)
          /\ answered' \in {answered, answeredNow}
          /\ row' = [row EXCEPT ![b.s] = "running"]
          /\ job' = [job EXCEPT ![j].pc = "work"]
       \/ /\ row[b.s] \in LiveStepStatuses
          /\ answered' \in {answered, answeredNow}
          /\ row' = [row EXCEPT ![b.s] = IF answered' = answered THEN @ ELSE "running"]
          /\ job' = [job EXCEPT ![j].pc = "work"]
       \/ /\ row[b.s] \in {"done", "skipped", "failed"} \/ (parked /\ ~hasAnswer)
          /\ job' = [job EXCEPT ![j].pc = "result", ![j].res = row[b.s]]
          /\ UNCHANGED <<row, answered>>
    /\ UNCHANGED <<taskVars, since, run, envVars>>

(* The end of a pass that still owns its row: the step is done or failed, stops
   at a form nobody answered, or sends its agent work; a pass that finds that
   work unfinished goes on waiting for it. *)
EndPass(j, s, rowNow, res) ==
    /\ row' = [row EXCEPT ![s] = rowNow]
    /\ job' = [job EXCEPT ![j].pc = "result", ![j].res = res]

Finish(j) ==
    LET s == job[j].s IN
    /\ job[j].pc = "work" /\ Owned(s) /\ run[s] \notin OpenRun
    /\ EndPass(j, s, "done", "done")
    /\ UNCHANGED <<taskVars, since, answered, run, envVars>>

(* A pass may fail while agents it sent are open; it ends them once the row's
   end is written. *)
FailStep(j) ==
    LET s == job[j].s IN
    /\ job[j].pc = "work" /\ Owned(s)
    /\ row' = [row EXCEPT ![s] = "failed"]
    /\ job' = [job EXCEPT ![j].pc = IF run[s] \in OpenRun THEN "release" ELSE "result",
                          ![j].res = "failed"]
    /\ UNCHANGED <<taskVars, since, answered, run, envVars>>

(* releaseStepAgents: rolled back when a Retry has reset the row. *)
ReleaseStepAgents(j) ==
    LET s == job[j].s IN
    /\ job[j].pc = "release"
    /\ run' = [run EXCEPT ![s] = IF row[s] # "pending" /\ @ \in OpenRun THEN "none" ELSE @]
    /\ job' = [job EXCEPT ![j].pc = "result"]
    /\ UNCHANGED <<taskVars, row, since, answered, envVars>>

AskForm(j) ==
    LET s == job[j].s IN
    /\ job[j].pc = "work" /\ Owned(s) /\ run[s] \notin OpenRun
    /\ s \notin answered
    /\ EndPass(j, s, "waiting_form", "waiting_form")
    /\ UNCHANGED <<taskVars, since, answered, run, envVars>>

(* insertDispatchRun under the claim, the job queued, the row parked; a fan-out
   leaves the row to handleResult. *)
Dispatch(j) ==
    LET s == job[j].s IN
    /\ job[j].pc = "work" /\ Owned(s) /\ run[s] \in {"none", "orphaned"}
    /\ \E rowNow \in {row[s], "waiting_cli"} : EndPass(j, s, rowNow, "waiting_cli")
    /\ run' = [run EXCEPT ![s] = "live"]
    /\ UNCHANGED <<taskVars, since, answered, envVars>>

KeepWaiting(j) ==
    LET s == job[j].s IN
    /\ job[j].pc = "work" /\ Owned(s) /\ run[s] \in OpenRun
    /\ EndPass(j, s, row[s], "waiting_cli")
    /\ UNCHANGED <<taskVars, since, answered, run, envVars>>

(* The pass lost its row (StepSupersededError), or its poll saw a newer epoch. *)
Superseded(j) ==
    /\ job[j].pc = "work"
    /\ ~Owned(job[j].s) \/ epoch > job[j].ce
    /\ Drop(j)
    /\ UNCHANGED <<taskVars, rowVars, envVars>>

(* Mutant: the run list walked one step too far. *)
SuccessorSkipsOne(s) == s + 2

(* The step after s in the run list. *)
Successor(s) == s + 1

(* handleResult.  Nothing is handed off once the epoch moved; each write to the
   task is fenced besides. *)
Result(j) ==
    LET b == job[j]
        mine == epoch = b.ce
        lands == TaskWriteTarget(b.ce, FALSE)
        next == Successor(b.s)
    IN
    /\ b.pc = "result"
    /\ \/ /\ ~mine \/ (b.res # "failed" /\ ~lands) \/ (b.res = "waiting_form" /\ ~Owned(b.s))
          /\ Drop(j)
          /\ UNCHANGED <<status, watch, cur, row>>
       \/ /\ mine /\ b.res = "failed"
          /\ FinishFailedStep(b.ce)
          /\ Drop(j)
          /\ UNCHANGED <<cur, row>>
       \/ /\ lands /\ b.res \in {"done", "skipped"} /\ next \in Steps
          /\ status' = "running"
          /\ cur' = next
          /\ job' = [job EXCEPT ![j].pc = "next"]
          /\ UNCHANGED <<watch, row>>
       \/ /\ lands /\ b.res \in {"done", "skipped"} /\ next \notin Steps
          /\ status' = "completed"
          /\ Drop(j)
          /\ UNCHANGED <<watch, cur, row>>
       \/ /\ lands /\ b.res = "waiting_form" /\ Owned(b.s)
          /\ status' = "waiting_user"
          /\ cur' = b.s
          /\ Drop(j)
          /\ UNCHANGED <<watch, row>>
       \/ /\ lands /\ b.res = "waiting_cli"
          /\ status' = "running"
          /\ cur' = b.s
          /\ row' = [row EXCEPT ![b.s] = IF @ = "running" THEN "waiting_cli" ELSE @]
          /\ Drop(j)
          /\ UNCHANGED watch
    /\ UNCHANGED <<epoch, aim, since, answered, run, envVars>>

(* enqueueAdvance for the successor, at the epoch this job holds. *)
HandOff(j) ==
    /\ job[j].pc = "next"
    /\ job' = [job EXCEPT ![j] = Queued("advance", Successor(job[j].s), job[j].ce)]
    /\ UNCHANGED <<taskVars, rowVars, envVars>>

(* runTaskJob's catch: a job that throws fails the task at the epoch it holds,
   a START that claimed nothing only one nobody has started.  BullMQ then tries
   the job again, or gives it up after its last attempt. *)
Throw(j) ==
    LET b == job[j]
        from == IF b.pc = "start" THEN StartableTaskStatuses ELSE OpenTaskStatuses
        again == Queued(b.kind, b.s, b.e)
    IN
    /\ b.pc \in RunningStages \ {"work", "release"}
    /\ Fault("throw")
    /\ status' = IF status \in from /\ epoch = b.ce THEN "failed" ELSE status
    /\ \E after \in {again, NoJob} : job' = [job EXCEPT ![j] = after]
    /\ UNCHANGED <<epoch, cur, watch, aim, rowVars, resuming, worker, undo, endVars, clicks>>

JobStep(j) ==
    \/ TakeStart(j) \/ ClaimStart(j) \/ TakeStepHold(j)
    \/ TakeAdvance(j) \/ Look(j) \/ Park(j) \/ Claim(j) \/ Open(j)
    \/ Finish(j) \/ FailStep(j) \/ ReleaseStepAgents(j) \/ AskForm(j) \/ Dispatch(j) \/ KeepWaiting(j) \/ Superseded(j)
    \/ Result(j) \/ HandOff(j)

-----------------------------------------------------------------------------
(* The cli-exec worker.  A run ends; its handler asks whether the run was
   superseded meanwhile, and if not reads the task's epoch and queues the
   step's continuation (resumeStepIfLinked). *)
CliEnd(s) ==
    /\ worker.ph = "up"
    /\ run[s] = "live"
    /\ run' = [run EXCEPT ![s] = "exiting"]
    /\ UNCHANGED <<taskVars, row, since, answered, job, envVars>>

CliCheck(s) ==
    /\ worker.ph = "up"
    /\ run[s] = "exiting"
    /\ run' = [run EXCEPT ![s] = "ended"]
    /\ resuming' = resuming \cup {s}
    /\ UNCHANGED <<taskVars, row, since, answered, job, worker, undo, endVars, clicks, faults>>

CliResume(s) ==
    /\ worker.ph = "up"
    /\ s \in resuming
    /\ resuming' = resuming \ {s}
    /\ Enqueue("advance", s, epoch)
    /\ UNCHANGED <<taskVars, rowVars, worker, undo, endVars, clicks, faults>>

-----------------------------------------------------------------------------
(* The worker dies: its passes are gone and their jobs stay active in Redis; a
   run that had started is dead, one still queued survives; a run that ended
   without queueing its continuation never will. *)
Crash ==
    /\ worker.ph # "down"
    /\ Fault("crash")
    /\ worker' = Down
    /\ job' = [j \in Jobs |->
                 IF job[j].pc \in RunningStages
                 THEN [Queued(job[j].kind, job[j].s, job[j].e) EXCEPT !.pc = "orphan"]
                 ELSE job[j]]
    /\ \E survive \in SUBSET {s \in Steps : run[s] = "live"} :
         run' = [s \in Steps |-> CASE run[s] = "live" /\ s \notin survive -> "dead"
                                   [] run[s] = "exiting" -> "ended"
                                   [] OTHER -> run[s]]
    /\ resuming' = {}
    /\ undo' = NoEpoch
    /\ cut' = cut \cup {s \in Steps : \E j \in Jobs : job[j].pc = "release" /\ job[j].s = s}
    /\ UNCHANGED <<taskVars, row, since, answered, cancel, clicks>>

(* requeueOrphanedActiveJobs at boot, or BullMQ's stalled recovery once the
   job's lock expires. *)
Redeliver(j) ==
    /\ worker.ph # "down"
    /\ job[j].pc = "orphan"
    /\ job' = [job EXCEPT ![j].pc = "wait"]
    /\ UNCHANGED <<taskVars, rowVars, envVars>>

(* reconcileOrphanedSteps runs before the workers start, beside a live api.
   It reads the parked steps of a running task, and after them the running
   ones; what it read may be old by the time a step is recovered. *)
ReadOrphans(phase, rows) ==
    worker' = [ph |-> phase, e |-> epoch, c |-> cur,
               todo |-> IF status = "running" THEN rows ELSE {}]

BootParked ==
    /\ worker.ph = "down"
    /\ ReadOrphans("parked", {s \in Steps : row[s] = "waiting_cli"})
    /\ UNCHANGED <<taskVars, rowVars, job, resuming, undo, endVars, clicks, faults>>

BootRunning ==
    /\ worker.ph = "parked" /\ worker.todo = {}
    /\ undo = NoEpoch
    /\ ReadOrphans("running", {s \in Steps : row[s] = "running"})
    /\ UNCHANGED <<taskVars, rowVars, job, resuming, undo, endVars, clicks, faults>>

BootDone ==
    /\ worker.ph = "running" /\ worker.todo = {}
    /\ undo = NoEpoch
    /\ worker' = Up
    /\ UNCHANGED <<taskVars, rowVars, job, resuming, undo, endVars, clicks, faults>>

(* The epoch bump of a re-drive and its enqueue (enqueueRedrive).  When the
   queue refuses every try, the bump is taken back later (Undo). *)
Redrive(s) ==
    /\ undo = NoEpoch
    /\ epoch < MaxEpoch
    /\ epoch' = epoch + 1
    /\ \/ Enqueue("advance", s, epoch + 1) /\ UNCHANGED <<undo, faults>>
       \/ Fault("undo") /\ undo' = epoch /\ UNCHANGED job

(* Mutant: the bump taken back once too often. *)
UndoTwice ==
    /\ undo # NoEpoch
    /\ epoch' = IF epoch = undo + 1 THEN undo - 1 ELSE epoch
    /\ undo' = NoEpoch
    /\ UNCHANGED <<status, cur, watch, aim, rowVars, job, resuming, worker, endVars, clicks, faults>>

Undo ==
    /\ undo # NoEpoch
    /\ epoch' = IF epoch = undo + 1 THEN undo ELSE epoch
    /\ undo' = NoEpoch
    /\ UNCHANGED <<status, cur, watch, aim, rowVars, job, resuming, worker, endVars, clicks, faults>>

(* recoverParkedStep, with the epoch and pointer the caller read: end the runs
   no process will end; requeue the row if the task has moved past it; otherwise
   bump the epoch, unless the api moved the task meanwhile, and re-drive.
   `rowNow` is the row as the caller leaves it. *)
RecoverParkedStep(s, e, c, rowNow) ==
    LET ended == IF run[s] \in {"dead", "lost"} THEN "orphaned" ELSE run[s]
        fenced == status = "running" /\ epoch = e /\ cur = c
        requeue == ChainHasMoved(c, s)
                     \/ (~fenced /\ status = "running" /\ ChainHasMoved(cur, s))
        requeued == requeue /\ rowNow \in LiveStepStatuses
    IN
    /\ row' = [row EXCEPT ![s] = IF requeued THEN "pending" ELSE rowNow]
    /\ run' = [run EXCEPT ![s] = IF requeued /\ ended \in OpenRun THEN "none" ELSE ended]
    /\ IF ~requeue /\ fenced
       THEN Redrive(s)
       ELSE UNCHANGED <<epoch, job, undo, faults>>
    /\ UNCHANGED <<status, cur, watch, aim, since, answered, resuming, endVars, clicks>>

(* Pass 1 of the boot reconciliation. *)
RecoverParked(s) ==
    /\ worker.ph = "parked" /\ s \in worker.todo
    /\ undo = NoEpoch
    /\ worker' = [worker EXCEPT !.todo = @ \ {s}]
    /\ RecoverParkedStep(s, worker.e, worker.c, row[s])

(* resetStepAndDownstream at an expected epoch, then the re-drive. *)
ResetStepAndDownstream(s, e) ==
    IF epoch = e
    THEN /\ epoch < MaxEpoch
         /\ ResetRows({s} \cup NonPendingAfter(s), {})
         /\ epoch' = epoch + 1
         /\ Enqueue("advance", s, epoch + 1)
    ELSE UNCHANGED <<rowVars, epoch, job>>

(* Pass 2 (bootRecoveryAction): a running row the task has moved past is
   requeued, one with a run behind it is demoted to waiting_cli and recovered as
   a parked one, any other is reset. *)
RecoverRunning(s) ==
    LET abandoned == ChainHasMoved(worker.c, s)
        hasCliWork == run[s] # "none"
    IN
    /\ worker.ph = "running" /\ s \in worker.todo
    /\ undo = NoEpoch
    /\ worker' = [worker EXCEPT !.todo = @ \ {s}]
    /\ \/ /\ abandoned /\ row[s] \in LiveStepStatuses
          /\ row' = [row EXCEPT ![s] = "pending"]
          /\ run' = [run EXCEPT ![s] = IF @ \in OpenRun THEN "none" ELSE @]
          /\ UNCHANGED <<taskVars, since, answered, job, resuming, undo, endVars, clicks, faults>>
       \/ /\ ~abandoned /\ hasCliWork /\ row[s] = "running"
          /\ RecoverParkedStep(s, worker.e, worker.c, "waiting_cli")
       \/ /\ ~abandoned /\ ~hasCliWork
          /\ ResetStepAndDownstream(s, worker.e)
          /\ UNCHANGED <<status, cur, watch, aim, resuming, undo, endVars, clicks, faults>>
       \/ /\ \/ abandoned /\ row[s] \notin LiveStepStatuses
             \/ ~abandoned /\ hasCliWork /\ row[s] # "running"
          /\ UNCHANGED <<taskVars, rowVars, job, resuming, undo, endVars, clicks, faults>>

Boot ==
    \/ BootParked \/ BootRunning \/ BootDone
    \/ \E s \in Steps : RecoverParked(s) \/ RecoverRunning(s)

-----------------------------------------------------------------------------
(* The stalled sweep (redriveStalledTasks).  The fence re-checks the whole
   candidate, timestamps included, in the transaction that bumps the epoch, so a
   candidate is read and fenced in one step; what it never does is run beside a
   job of the task, START excepted. *)
Owing(kinds) == \E j \in Jobs : job[j].pc # "free" /\ job[j].kind \in kinds

(* Mutant: the candidate read joins the step row, so that a task whose row was
   never written is no candidate. *)
StalledRowJoined(s) ==
    \/ row[s] \in {"pending", "done", "skipped"}
    \/ row[s] = "waiting_form" /\ s \in answered
    \/ row[s] \in LiveStepStatuses /\ run[s] \notin OpenRun \cup {"exiting"} /\ s \notin resuming

(* stalledRow: the rows the sweep re-drives a running task for. *)
StalledRow(s) ==
    \/ row[s] \in {"none", "pending", "done", "skipped"}
    \/ row[s] = "waiting_form" /\ s \in answered
    \/ row[s] \in LiveStepStatuses /\ run[s] \notin OpenRun \cup {"exiting"} /\ s \notin resuming

(* Mutant: the sweep leaves every task that waits on a person alone. *)
NoLostAnswer(s) == s \notin Steps

(* answeredFormRow: the answer was saved and its advance never followed. *)
LostAnswer(s) == status = "waiting_user" /\ row[s] = "waiting_form" /\ s \in answered

(* A claimed START with nothing to wait for moves on long before the five
   minutes the sweep lets a task idle. *)
StartMoving ==
    \E j \in Jobs : job[j].pc = "next" \/ (job[j].pc = "hold" /\ ~Held(1))

SweepRedrive ==
    /\ worker.ph = "up"
    /\ cur # 0
    /\ ~Owing({"advance", "answer"}) /\ ~Held(cur)
    /\ ~StartMoving
    /\ \/ /\ status = "running" /\ StalledRow(cur)
          /\ Owing({"start"}) => row[cur] \notin LiveStepStatuses
       \/ LostAnswer(cur)
    /\ Redrive(cur)
    /\ UNCHANGED <<status, cur, watch, aim, rowVars, resuming, worker, endVars, clicks>>

SweepFailed ==
    /\ worker.ph = "up"
    /\ cur # 0 /\ status = "running" /\ row[cur] = "failed"
    /\ ~Owing({"advance", "answer"}) /\ ~Held(cur)
    /\ FinishFailedStep(epoch)
    /\ UNCHANGED <<epoch, cur, aim, rowVars, job, envVars>>

SweepStart ==
    /\ worker.ph = "up"
    /\ status = "queued" /\ ~Owing({"start"})
    /\ Enqueue("start", 1, NoEpoch)
    /\ UNCHANGED <<taskVars, rowVars, envVars>>

SweepLostRun ==
    /\ worker.ph = "up"
    /\ cur # 0 /\ status = "running" /\ row[cur] = "waiting_cli" /\ run[cur] = "lost"
    /\ ~Owing({"advance", "answer"}) /\ ~Held(cur)
    /\ RecoverParkedStep(cur, epoch, cur, row[cur])
    /\ UNCHANGED worker

Sweep == SweepRedrive \/ SweepFailed \/ SweepStart \/ SweepLostRun

-----------------------------------------------------------------------------
(* The api.  Each action is its transaction and the enqueue after it; an
   enqueue that never reaches the queue is LoseJob. *)
Start ==
    /\ status = "created"
    /\ status' = "queued"
    /\ Enqueue("start", 1, NoEpoch)
    /\ UNCHANGED <<epoch, cur, watch, aim, rowVars, envVars>>

(* A form's answer: saved on the row, reopens a failed task, and travels in a
   job that carries no epoch. *)
Submit(s) ==
    /\ row[s] = "waiting_form"
    /\ \/ s \notin answered /\ "submit" \in UserActions /\ UNCHANGED clicks
       \/ s \in answered /\ Click("submit")
    /\ answered' = answered \cup {s}
    /\ status' = IF status = "failed" THEN "running" ELSE status
    /\ watch' = (watch /\ status # "failed")
    /\ Enqueue("answer", s, NoEpoch)
    /\ UNCHANGED <<epoch, cur, aim, row, since, run, resuming, worker, undo, endVars, faults>>

(* supersedeLiveRuns: ends the open runs and fails the rows it finds stuck. *)
SupersedeLiveRuns(rows) ==
    /\ row' = [s \in Steps |-> IF s \in rows THEN "failed" ELSE row[s]]
    /\ run' = [s \in Steps |-> IF run[s] \in OpenRun THEN "none" ELSE run[s]]

(* Stop (stopActiveCliInvocations): ends the open runs, fails the rows at work
   and the current row of a running task still pending, and fails the task if
   it ended anything.  The epoch stays. *)
Stop ==
    LET rows == LiveRows \cup {s \in Steps : status = "running" /\ cur = s /\ row[s] = "pending"}
    IN
    /\ Click("stop")
    /\ rows # {} \/ \E s \in Steps : run[s] \in OpenRun
    /\ SupersedeLiveRuns(rows)
    /\ status' = IF status \in {"running", "queued", "waiting_user"} THEN "failed" ELSE status
    /\ UNCHANGED <<epoch, cur, watch, aim, since, answered, job, resuming, worker, undo, endVars, faults>>

(* Cancel first stops the agents (stopActiveCliInvocations without failTask), in
   a transaction of its own: the task stays open and keeps its epoch.  Of the
   pending rows only a parked one is failed; which one is parked is not kept. *)
CancelStops ==
    /\ Click("cancel")
    /\ status \notin TerminalTaskStatuses
    /\ \E parked \in SUBSET {s \in Steps : cur = s /\ row[s] = "pending"} :
         SupersedeLiveRuns(LiveRows \cup parked)
    /\ cancel' = [ph |-> "stopped", late |-> {s \in Steps : row[s] = "none"}]
    /\ UNCHANGED <<taskVars, since, answered, job, resuming, worker, undo, cut, faults>>

OpenStepStatuses == ActiveStepStatuses \cup {"pending"}

(* Mutant: a cancel that leaves the step rows as they are. *)
CancelLeavesRows ==
    /\ cancel.ph = "stopped"
    /\ status \notin TerminalTaskStatuses
    /\ status' = "cancelled"
    /\ epoch' = epoch + 1
    /\ watch' = FALSE
    /\ cancel' = [ph |-> "owed", late |-> {}]
    /\ UNCHANGED <<cur, aim, rowVars, job, resuming, worker, undo, cut, clicks, faults>>

(* cancelTaskIfOpen: the task ends, with the open rows it holds and, by the
   epoch, its jobs.  It locks the rows there are and then the task; a row that is
   created in between is not held and stays as it is.  A run a pass sent since the
   stop stays open.  Both are left to the CANCEL job. *)
Cancel ==
    /\ cancel.ph = "stopped"
    /\ status \notin TerminalTaskStatuses
    /\ status' = "cancelled"
    /\ epoch' = epoch + 1
    /\ watch' = FALSE
    /\ \E late \in SUBSET {s \in cancel.late : row[s] # "none"} :
         /\ row' = [s \in Steps |-> IF row[s] \in OpenStepStatuses /\ s \notin late
                                     THEN "failed" ELSE row[s]]
         /\ cancel' = [ph |-> "owed", late |-> late]
    /\ UNCHANGED <<cur, aim, since, answered, run, job, resuming, worker, undo, cut, clicks, faults>>

(* handleCancelTask ends every open row, and after that the open runs
   (supersedeTaskRuns).  A lost CANCEL is queued again by the sweep; MergeDir has
   that and the rest of the teardown. *)
CancelEndsRows ==
    /\ worker.ph = "up"
    /\ cancel.ph = "owed"
    /\ row' = [s \in Steps |-> IF row[s] \in OpenStepStatuses THEN "failed" ELSE row[s]]
    /\ cancel' = [cancel EXCEPT !.ph = "rows"]
    /\ UNCHANGED <<taskVars, since, answered, run, job, resuming, worker, undo, cut, clicks, faults>>

(* Mutant: the CANCEL job leaves the runs to their own end. *)
CancelLeavesRuns ==
    /\ worker.ph = "up"
    /\ cancel.ph = "rows"
    /\ cancel' = [cancel EXCEPT !.ph = "ended"]
    /\ UNCHANGED <<taskVars, rowVars, job, resuming, worker, undo, cut, clicks, faults>>

CancelEndsRuns ==
    /\ worker.ph = "up"
    /\ cancel.ph = "rows"
    /\ run' = [s \in Steps |-> IF run[s] \in OpenRun THEN "none" ELSE run[s]]
    /\ cancel' = [cancel EXCEPT !.ph = "ended"]
    /\ UNCHANGED <<taskVars, row, since, answered, job, resuming, worker, undo, cut, clicks, faults>>

CancelJob == CancelEndsRows \/ CancelEndsRuns

(* Mutant: an ended task can be moved too (unendedTask left out). *)
MoveEndedTask(s) ==
    /\ status' = "running"
    /\ cur' = s
    /\ aim' = s
    /\ watch' = FALSE
    /\ epoch' = epoch + 1
    /\ Enqueue("advance", s, epoch + 1)
    /\ UNCHANGED <<resuming, worker, undo, endVars, faults>>

(* moveTaskToStep and the same update in Retry. *)
MoveTaskToStep(s) ==
    /\ status \notin TerminalTaskStatuses
    /\ status' = "running"
    /\ cur' = s
    /\ aim' = s
    /\ watch' = FALSE
    /\ epoch' = epoch + 1
    /\ Enqueue("advance", s, epoch + 1)
    /\ UNCHANGED <<resuming, worker, undo, endVars, faults>>

(* Retry of a step resets it, what ran after it and what is active elsewhere. *)
RetryStep(s) ==
    /\ Click("retry")
    /\ row[s] # "none"
    /\ ResetRows({s} \cup NonPendingAfter(s) \cup Active, {})
    /\ MoveTaskToStep(s)

Skip(s) ==
    LET left == Active \ {s} IN
    /\ Click("skip")
    /\ row[s] \in {"failed", "waiting_form"}
    /\ row' = [t \in Steps |-> IF t = s THEN "skipped" ELSE IF t \in left THEN "pending" ELSE row[t]]
    /\ run' = [t \in Steps |-> IF t \in left THEN "none" ELSE run[t]]
    /\ answered' = answered \ left
    /\ since' = [t \in Steps |-> IF t \in left THEN epoch + 1 ELSE since[t]]
    /\ MoveTaskToStep(s)

(* retry_ai: the failed row itself is put back to running. *)
RetryAi(s) ==
    LET left == Active \ {s} IN
    /\ Click("retry_ai")
    /\ row[s] = "failed"
    /\ row' = [t \in Steps |-> IF t = s THEN "running" ELSE IF t \in left THEN "pending" ELSE row[t]]
    /\ run' = [t \in Steps |-> IF t = s \/ t \in left THEN "none" ELSE run[t]]
    /\ answered' = answered \ left
    /\ since' = [t \in Steps |-> IF t = s \/ t \in left THEN epoch + 1 ELSE since[t]]
    /\ MoveTaskToStep(s)

(* The branch of a task's Retry for a task without a step: it is queued again under
   the next epoch and its START job sent. *)
RestartFromStart ==
    /\ status' = "queued"
    /\ epoch' = epoch + 1
    /\ aim' = 1
    /\ watch' = FALSE
    /\ Enqueue("start", 1, NoEpoch)
    /\ UNCHANGED <<cur, resuming, worker, undo, endVars, faults>>

(* Retry of a failed task: at the step it stands on (retryTaskAtStep), where a
   parked form is offered again with its answers, or from START when it stands
   on none. *)
RetryTask ==
    LET at == cur # 0 /\ row[cur] # "none"
        reset == {s \in {cur} : row[s] \in {"failed"} \cup LiveStepStatuses}
                   \cup NonPendingAfter(cur) \cup LiveRows
    IN
    /\ Click("retry_task")
    /\ status = "failed"
    /\ row' = [s \in Steps |-> IF at /\ s \in reset THEN "pending"
                               ELSE IF ~at /\ row[s] \in LiveStepStatuses THEN "failed"
                               ELSE IF row[s] = "waiting_form" THEN "pending"
                               ELSE row[s]]
    /\ run' = [s \in Steps |-> IF (at /\ s \in reset) \/ run[s] \in OpenRun THEN "none" ELSE run[s]]
    /\ answered' = IF at THEN answered \ reset ELSE answered
    /\ since' = [s \in Steps |-> IF row'[s] # row[s] THEN epoch + 1 ELSE since[s]]
    /\ IF at
       THEN MoveTaskToStep(cur)
       ELSE RestartFromStart

(* autoResumeFailedStep, once the usage poller sees the provider back: the row
   and the task are running again at the epoch they failed at.  Of the runs only
   the last is superseded, and only if it has ended and failed. *)
AutoResume ==
    /\ Click("auto_resume")
    /\ worker.ph = "up"
    /\ status = "failed" /\ watch /\ cur # 0
    /\ status' = "running"
    /\ watch' = FALSE
    /\ row' = [row EXCEPT ![cur] = "running"]
    /\ \E blocker \in {run[cur]} \cup {"none" : e \in {run[cur]} \cap {"exiting", "ended", "orphaned"}} :
         run' = [run EXCEPT ![cur] = blocker]
    /\ Enqueue("advance", cur, epoch)
    /\ UNCHANGED <<epoch, cur, aim, since, answered, resuming, worker, undo, endVars, faults>>

Api ==
    \/ Start \/ Stop \/ CancelStops \/ Cancel \/ RetryTask \/ AutoResume
    \/ \E s \in Steps : Submit(s) \/ RetryStep(s) \/ Skip(s) \/ RetryAi(s)

-----------------------------------------------------------------------------
(* Redis loses a queued job, or the enqueue after a commit never reached it. *)
LoseJob(j) ==
    /\ job[j].pc = "wait"
    /\ Fault("lose_job")
    /\ Drop(j)
    /\ UNCHANGED <<taskVars, rowVars, resuming, worker, undo, endVars, clicks>>

(* A recorded run no cli-exec job owes: the add after the insert was lost. *)
LoseRun(s) ==
    /\ run[s] = "live"
    /\ Fault("lose_run")
    /\ run' = [run EXCEPT ![s] = "lost"]
    /\ UNCHANGED <<taskVars, row, since, answered, job, resuming, worker, undo, endVars, clicks>>

(* BullMQ delivers a job again that is still queued or running. *)
Duplicate(j) ==
    /\ job[j].pc \in RunningStages \cup {"wait"}
    /\ Fault("duplicate")
    /\ Enqueue(job[j].kind, job[j].s, job[j].e)
    /\ UNCHANGED <<taskVars, rowVars, resuming, worker, undo, endVars, clicks>>

Faults ==
    \/ Crash
    \/ \E j \in Jobs : LoseJob(j) \/ Duplicate(j) \/ Throw(j)
    \/ \E s \in Steps : LoseRun(s)

Next ==
    \/ \E j \in Jobs : JobStep(j) \/ Redeliver(j)
    \/ \E s \in Steps : CliEnd(s) \/ CliCheck(s) \/ CliResume(s)
    \/ Boot \/ Undo \/ Sweep \/ Api \/ CancelJob \/ Faults

(* The worker process runs its jobs, its CLI handlers, its boot and its sweep;
   nobody owes the task a click. *)
Fairness ==
    /\ \A j \in Jobs : WF_vars(JobStep(j)) /\ WF_vars(Redeliver(j))
    /\ \A s \in Steps : WF_vars(CliEnd(s)) /\ WF_vars(CliCheck(s)) /\ WF_vars(CliResume(s))
    /\ WF_vars(Boot) /\ WF_vars(Undo) /\ WF_vars(Sweep)

Spec == Init /\ [][Next]_vars /\ Fairness

-----------------------------------------------------------------------------
(* Two passes never work on one step at once, whatever jobs are queued twice,
   redelivered or queued by several actors: the hold of holdStepAdvance and
   takeStepHold. *)
OnePassPerStep ==
    \A i, j \in Jobs :
        job[i].pc \in HoldingStages /\ job[j].pc \in HoldingStages /\ job[i].s = job[j].s
            => i = j

(* Only one step of a task is active at a time (the concurrency guard of
   handleAdvanceStep), although the guard's read, the claim and the opening of
   the row are separate statements. *)
OneActiveStep == Cardinality(Active) <= 1

(* A step is active only after every step before it, from where the task was
   last started or restarted, is done or skipped: no job left over from before a
   Retry opens a later step over the head of the retried one. *)
OpensInOrder ==
    \A s \in Active : \A t \in aim..(s - 1) : row[t] \in {"done", "skipped"}

(* A completed task ran every step from where it was last started or restarted
   (markTaskCompleted is reached only past the end of the run list). *)
CompletedMeansAllDone ==
    status = "completed" => \A s \in aim..N : row[s] \in {"done", "skipped"}

(* The order of the steps, through whatever Retry, Skip, Stop, crash or recovery:
   one at a time, each after the ones before it, the end after all of them. *)
StepsInOrder == OneActiveStep /\ OpensInOrder /\ CompletedMeansAllDone

(* A cancelled task stays idle: no pass, recovery or answer that was under way
   when it was cancelled makes one of its steps active again.  Until the CANCEL job
   has ended the rows, a step that was opened while the cancel took its locks may
   still be active, and no other. *)
CancelledIdle ==
    status = "cancelled" => Active \subseteq (IF cancel.ph = "owed" THEN cancel.late ELSE {})

(* An agent run is open only while its step is at work, or while the pass that
   failed the step is ending its agents: whatever stops, resets, skips, recovers or
   ends a step ends or supersedes the runs of the step too.  Two windows are left:
   runs of a cancelled task until its CANCEL job has ended them, and runs of a step
   that failed, and may be skipped since, whose pass died before it ended them. *)
AgentsBelongToWork ==
    \A s \in Steps : run[s] \in OpenRun =>
        \/ row[s] \in LiveStepStatuses
        \/ \E j \in Jobs : job[j].pc = "release" /\ job[j].s = s
        \/ status = "cancelled" /\ cancel.ph \in {"owed", "rows"}
        \/ s \in cut /\ row[s] \in {"failed", "skipped"}

(* Cancelled and completed are final (TERMINAL_TASK_STATUSES): no queued,
   parked, redelivered or running job and no recovery raises the task again. *)
EndedStaysEnded ==
    [][(status \in TerminalTaskStatuses) => status' = status]_vars

(* A failed task comes back only by a person, the auto-resume, or the job of an
   answer, which was sent to reopen it; an advance queued before the failure
   never revives it (failedTaskRefusesAdvance). *)
FailedNeedsReopening ==
    [][status = "failed" /\ status' \notin {"failed", "cancelled"} =>
          \/ clicks' # clicks
          \/ answered' # answered
          \/ \E j \in Jobs : job[j].pc = "claim" /\ job[j].kind = "answer"]_vars

(* A row becomes done only by a pass that entered it at or after the epoch at
   which it was last reset or reopened: the work of a pass that a Retry, a Skip
   or a recovery overtook is never taken for the step's result. *)
OwnPassFinishes ==
    [][\A s \in Steps : row[s] # "done" /\ row'[s] = "done" =>
          \E j \in Jobs : job[j].pc = "work" /\ job[j].s = s /\ job[j].ce >= since[s]]_vars

(* The current step's form waits for a person. *)
WaitsForAnswer == cur # 0 /\ row[cur] = "waiting_form" /\ cur \notin answered

(* A queued or running task gets on: it fails, ends or comes to wait for a
   person, whatever job, run, enqueue or worker was lost under way. *)
NotStranded ==
    status \in {"queued", "running"} ~> status \notin {"queued", "running"} \/ WaitsForAnswer

(* A saved answer is taken up, even when the job that carried it is lost. *)
AnswerPickedUp ==
    \A s \in Steps :
        (status = "waiting_user" /\ cur = s /\ row[s] = "waiting_form" /\ s \in answered)
            ~> (status # "waiting_user" \/ row[s] # "waiting_form" \/ s \notin answered)

(* Nothing lost is lost for good: neither a job, a run, a hand-off nor an answer. *)
Recovers == NotStranded /\ AnswerPickedUp
=============================================================================
