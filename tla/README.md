# A verification project for Haive

Haive runs software tasks with agents. A task is a list of steps; each step runs
in a worker, asks a person through a form, sends agents (CLI runs in sandboxes)
and hands off to the next. PostgreSQL holds the tasks, step rows and runs; Redis
holds the BullMQ queues. The api, the workers and the recovery passes all write
the same rows, mostly without a lock that spans more than one transaction. This
directory models that core, the claims and journals around it and the updater in
TLA+, checks them with TLC and proves parts of them with TLAPS. Paths below are relative to `src/packages/`.

## Inventory

| Component | State | Operations | What makes it correct | Module |
|---|---|---|---|---|
| Task orchestration (`worker/src/queues/task-queue.ts`, `stalled-redrive.ts`, `_advance-guards.ts`, `_step-reset.ts`, `boot-requeue.ts`; `api/src/routes/tasks`, `api/src/lib/task-control.ts`, `cancel-task.ts`) | task status, current step, orchestration epoch; step rows; queue jobs; in-process holds | START, advance, hand-off, parks, boot recovery, stalled sweep; start, submit, stop, retry, skip, AI retry, cancel | one step at a time, in order; no stale result; ended tasks stay ended; a lost job strands nothing | `TaskOrchestration` |
| Step runner (`worker/src/step-engine/step-runner.ts`, `step-ownership.ts`) | the step's row and runs | open, form, dispatch, finish, fail, release agents | every write only by the pass that owns the row | `TaskOrchestration` |
| CLI run completion (`worker/src/queues/cli-exec`) | run rows | end, resume the step | a superseded run resumes nothing | `TaskOrchestration` |
| DAG executor (`worker/src/step-engine/dag-executor.ts`, `database/src/dag-reset.ts`) | issues of a level, their coders, reviewers and advisors, the replanner | dispatch, ingest, review, fix, advise, split, replan, merge, checkpoint; Retry | no wait for nobody, one agent per worktree, whole checkpoints, every level ends | `DagLevel` |
| Agent slot pool (`worker/src/queues/cli-exec/agent-lease.ts`) | one Redis hash of expiring fields | reserve, beat, release, wipe | the cap; every running holder counted; slots return | `AgentLease` |
| Repository root claim (`database/src/repo-root-claim.ts`) | stamp and owner in the repository's row | claim, renew, take over, release | one writer of the tree | `RootClaim` |
| Merge directory claim, cancel teardown (`worker/src/step-engine/merge-dir-claim.ts`, `merge-resolver.ts`, `left-open-merge.ts`, `sandbox/cli-sandbox-fence.ts`, `handleCancelTask`, `stalled-redrive.ts` from 530) | claim row, advisory lock, sandboxes, task events, attempt counts | sections, fixer, cancel, re-drive, abandon | one task in the directory; a teardown ends or is given up, and left-open merges are reported | `MergeDir` |
| Upload sessions (`api/src/routes/repos.ts`, `api/src/lib/upload-complete-claim.ts`, `upload-chunk-lock.ts`, `worker/src/repo/upload-reaper.ts`) | session row, its file | chunk, complete, renew, cancel, reap | completed whole, once; nothing kept for ever | `UploadSession` |
| Repository preparation (`api/src/routes/repos.ts`, `worker/src/queues/repo-queue.ts`, `repo/clone.ts`, `data-migrations.ts`) | repository status, EXTRACT jobs, archive | queue, extract, retry, sweep | one extraction; no repository stays at `cloning` | `RepoPrep` |
| Updater (`updater/src`, `database/src/upgrade-journal.ts`) | journal, pin, containers, data | phases, resume, rollback | a crash in any phase is finished or undone | `Upgrade` |
| Maintenance and new-work fence (`shared/src/system/maintenance.ts`) | the state, an advisory lock | admit, hold, give back | nothing is live while the updater works | `Upgrade` |
| Migration runner (`database/src/migrate`) | journal, lock, tables | adopt, plan, apply | each file once, onto a database it knows | `Migrate` |
| Mining fan-out (`docs/architecture/fan-out-dispatch.md`) | agent rows of a step | reserve, dispatch waves, barrier, retries | no agent sent twice, the barrier opens | - |
| Fix loop (`handleResult`, `resolveFixLoopGate`) | rounds of the rows | loop back, revise, escalate | rounds bounded, no half-entered round | - |
| Web interface, CLI adapters, sandbox, DDEV runner, RAG, statistics | none the workers coordinate through | rendering, I/O | outside the model | - |

How they interact: the api commits a transaction and then queues a job; a worker
takes the job, reads the task, and writes rows and task in separate transactions;
a CLI run's end queues a continuation; boot and the sweep read rows and queue,
bump the epoch and queue a re-drive; the usage poller reopens a task that failed
on an outage. A step that merges takes the merge directory's claim, one that
rewrites a repository its root claim; an upload's complete ends in a repository
that a job prepares under that root claim; the updater closes admission through
the fence every new piece of work passes. What is hard is all in between: a Retry
while a job is queued, a crash between two writes, an enqueue that never arrives,
an answer that is lost after its write was committed, a read that is old when it
is used. `PROJECT.json` lists these hazards at their lines.

## Modules

Every module has one action per transaction, or per read that the code acts on
later; whatever lies between two of them may be overtaken by any other actor.
Faults are actions of their own or alternatives of an action, guarded by the kinds
an instance allows and a bound. Where a promise of the code holds only as long as
some kind of fault has not struck, `faults` holds the kinds so far and their number
and the property says so in its premise, so that one run meets all the faults and
each property is checked wherever it is promised.

`ExclusiveUse` is the abstract specification of a claim: at most one user is
inside, and one enters only when nobody is. `RootClaim`, `MergeDir` and
`UploadSession` are each shown to implement it, under a mapping that says who is
inside: `ExclusiveTree`, `ExclusiveDir` and `ExclusiveSession`.

### `AgentLease`

One element of `Attempts` is one reservation with its own field (names are fresh:
a job's lock token or a uuid). Time is counted in heartbeat intervals, `ttl` is
the time left of each field.

| Model | Code |
|---|---|
| `Reserve`, `Refused` | `ACQUIRE_LEASE_SCRIPT` through `reserve` |
| `Begin`, `GiveUp`, `ReserveFails`, `FinishUnslotted` | `enforceAgentLaneCap`, `acquireAgentLease` |
| `Beat`, `MissBeat`, `PoolTick` | the heartbeat timer; a failed `HSET` is only logged |
| `ReleaseSlot`, `Restart` | `release`, `clearAgentLeases`, each of which may fail |
| `PublishCap` | the 30-second re-read of the pool's size |

`asked` is the cap a caller compares against: an INVOKE job keeps the one it was
called with, a step command reads it again at every poll. `ReserveFails` covers
an answer lost on the way back, after which a field counts that nobody owns.

### `TaskOrchestration`

One task and everything that moves it.

| State | Code |
|---|---|
| `status`, `epoch`, `cur`, `watch` | `tasks.status`, `orchestration_epoch`, `current_step_id`, the allowance watch |
| `row`, `answered`, `run` | step row status, whether `form_values` are set, the agent work of the step |
| `job` | the queue and the passes: each job is queued, orphaned or at a stage of its handler, with the epoch `ce`, status `cs` and pointer `cc` it read |
| `resuming` | runs whose handler has checked for supersession and not yet queued the continuation |
| `worker` | up, down, or in a pass of boot recovery with what that pass read |
| `undo` | a re-drive whose enqueue failed and whose epoch bump is to be taken back |
| `cancel` | how far a Cancel has come (agents stopped, task cancelled and CANCEL owed, rows ended, runs ended) and the rows created after it took its locks |
| `since`, `aim`, `cut` | history only: the epoch of a row's last reset, the step the task was last (re)started at, the steps whose pass died before it ended their agents |

| Actions | Code |
|---|---|
| `TakeStart`, `ClaimStart`, `TakeStepHold` | `handleStartTask` |
| `TakeAdvance`, `Look`, `Park`, `Claim` | `handleAdvanceStep`: task guards, row guards, holds of a step not started, `markTaskRunningWithStep` |
| `Open`, `Finish`, `FailStep`, `ReleaseStepAgents`, `AskForm`, `Dispatch`, `KeepWaiting`, `Superseded` | `advanceStep` |
| `Result`, `HandOff` | `handleResult` |
| `Throw` | the catch of `runTaskJob` and BullMQ's attempts |
| `CliEnd`, `CliCheck`, `CliResume` | a run ends; `resumeStepIfLinked` |
| `Crash`, `Redeliver`, `BootParked`, `BootRunning`, `RecoverParked`, `RecoverRunning`, `BootDone` | the worker dies; `requeueOrphanedActiveJobs`, `reconcileOrphanedSteps` |
| `SweepRedrive`, `SweepFailed`, `SweepStart`, `SweepLostRun`, `Undo` | `redriveStalledTasks` |
| `Start`, `Submit`, `Stop`, `RetryStep`, `Skip`, `RetryAi`, `RetryTask`, `RestartFromStart` | the api's task and step actions |
| `CancelStops`, `Cancel` | the two transactions of a cancel: `stopActiveCliInvocations` without `failTask`, then `cancelTaskIfOpen` |
| `CancelEndsRows`, `CancelEndsRuns` | the first two of `handleCancelTask`; the rest of the teardown is in `MergeDir` |
| `AutoResume` | `autoResumeFailedStep` |
| `LoseJob`, `LoseRun`, `Duplicate` | Redis and BullMQ, external |

Three things keep the actors apart, and the properties are about them: the epoch
fence on task writes (`TaskWriteTarget`), the ownership test on row writes
(`Owned`), and the in-process hold of a step (`Held`).

What is abstracted:

- a run stands for all the agent work of one pass; loop iterations, mining waves
  and DAG levels inside a step are repeated dispatches of it;
- the answer a job carries may or may not be saved by `Open`: a Retry's hold of
  the form, a changed provider or agent work due before the form keep it off;
- the parks (pause, module schema, disabled provider, full runtime pool) are one
  action that queues the advance again;
- the api's reads before its transaction count as part of it, since the
  transaction repeats the checks that matter; an enqueue that fails after the
  commit is `LoseJob`. So `RetryStep` takes the rows at its commit, and the second
  settle of a Retry from START, for a row opened between the first and the bump, is
  part of the first;
- some neighbouring statements of the worker are one action: the two reads of the row
  guards with the write of a step that failed already (`Look`), the read of the epoch
  with the fenced write it leads to and the task's `waiting_cli` with the row's
  (`Result`), and the statements of the recovery of one step (`RecoverParked`,
  `RecoverRunning`);
- which pending row a park marks is not kept, so `CancelStops` may or may not fail the
  pending row the task points at;
- a CANCEL job that is lost is sent again by the sweep (`MergeDir`): here it is owed
  until it has run;
- boot's requeue of a running row the task has moved past (`RecoverRunning`) is there
  as in the code, but happens only after the counterexamples below: elsewhere a live
  row is the one the task points at;
- the sweep's five-minute cutoff is left out, so the sweep may act at once: only
  where a pass is sure to move within it (`StartMoving`) is it made to wait. The
  sweep that boot runs with no cutoff is the same action right after `BootDone`;
- whether a pending row is parked is not kept: with a START queued the code skips
  a parked row where the model may re-drive it.

Bounds: `N` steps, the slots of `Jobs`, `MaxClicks` actions that restart or end
the task, `MaxFaults` faults, `MaxEpoch` for the bumps of recovery (an api bump
is bounded by `MaxClicks`). They bound TLC only; the theorems hold for all values.

### `DagLevel`

One level of a task's DAG. A pass (`pass`) works through the rows section by
section: worktrees, `DispatchCoder`, `IngestCoder`, `Halt` or `CoderFailures`, the
review (`ReviewIssue`, `ApplyVerdict`, `SpawnAgent`), the escalation (`Escalate`,
`AdviseIssue`, `CountAdvice`, the splits, `SpawnReplanner`), `MergeIssue` and
`Checkpoint`. `pass.next` is the write it owes the issue in hand, lost when the
worker dies. A death ends the runs that had started and those recorded and never
queued; a run whose job waits in the queue stays live (`Orphaned`). Recording a run
and claiming it for its issue (`DispatchCoder`, `SpawnAgent`) or its plan
(`SpawnReplanner`) is one action, without the branches of a claim that was lost or of a
second replanner; `AdviseIssue`, `ReviewIssue` and `IngestCoder` ask for the step
together with their read and write, where the code asks only of a superseded run;
`CoderFailures` marks the issues in one action. That a death may meet a queue that
cannot be read, and then ends no run that was never queued, is left out. `Superseded` is every place where the code asks whether the step is
still its own, and only those: between them a Retry resets rows under it. What an
agent answers is chosen when it is read; debt, prompts and files are left out, and
so is the resolution of a merge conflict: it works in the integration worktree, takes
no claim and is not in `MergeDir` either. `setting`, fixed
at first, is the level: its issues, whether it is reviewed, and its faults.

### `RootClaim`

Time is counted in renewal periods, a stamp is the period it was written in, so
two writers share a stamp whenever they write in one period: the worst case of the
code's "same millisecond". `Acquire`, `Renew` and `Release` are the statements of
`acquireRootClaim`, `renewRootClaim` and `release`, each of which may commit and
lose its answer; `cand` is the list of stamps the row might carry. `late` is
history: the users whose stamp outlived the stale window, whom the code no longer
protects.

### `MergeDir`

Several tasks, one directory. The pass of a merge step takes the claim, enters a
section under the advisory lock, leaves a merge to a fixer in a sandbox that no
lock covers, ingests it and finishes or halts. A cancel supersedes the runs and
queues CANCEL; the job's teardown and the sweep's abandonment (`Actors`) kill the
sandboxes, report an open merge and write `task.cancel_finished`. Faults: a
refused or hung enqueue, a failed kill, a failed report, the death of a worker.

`host`, fixed at first, says that the directory is a person's own checkout, where a
cancel looks for no merge (`Looks`); `Sharers` are the tasks whose `worktree_path` is
the directory, and an open merge is not reported while one of them still works in it
(`WorktreeSharer`). `spared`, history, are the tasks whose merge was left alone for
that reason. Nobody reports it later: two cancelled tasks that share a worktree may
each leave the merge to the other. `Without` is the abort of the task's own merge.

Merged or left out: the release of the claim, the record and the step's done are one
action (`FinishSection`), squash and push are not there (a push that has not happened
is a halt that may keep the claim, `HaltSection`); the sections of an ingest are one
(`Ingest`), which commits, aborts with or without a refund of the attempt, halts or
leaves the merge to a person.

### `UploadSession` and `RepoPrep`

The session's file is one inode, so a chunk's writer holds a descriptor to it
wherever it was moved. `Complete` claims the session, checks the length, moves the
file and commits, renewing its claim (`Renew`) beside that; `Cancel` and `Reap`
share `Removal`; of a cancel refused after it claimed, only that the reaper takes the
row over is kept. Ages stop at the first one past every window. `RepoPrep` begins
where a complete ends: the api queues EXTRACT, the worker claims the root, extracts
and writes `ready` or `error`, a Retry restarts it, the sweep fails a repository
whose job does not exist, the reaper drops old archives (of an old row, where the
code looks at the archive's own age).

### `Upgrade`

The updater, statement by statement: `Hold` closes admission and drains, `Apply`
snapshots, migrates and verifies, `Finish` commits or rolls back. It may throw or
die at any step and is started again; `DecideResume` finishes a run that reached
commit and undoes every other. `Admit`, `AdmitEnds` and `WorkMoves` are the work it
has to hold, through the new-work fence that orders admission against the writes of
the state. Postgres goes down with the snapshot, and the advisory lock with it.
`StateGivenBack` is about runs that recorded the state they found or wrote none: one
that died between `startRun` and `recordFoundState` has recorded nothing, and its
resumed rollback writes `normal` over a hold an administrator had set
(`run.ts:230-237`).

### `Migrate`

Several runners of different versions on one database: lock, read of the session's
pid, journal, classification of the database, adoption of the baseline, plan, and
for each file the comparison of the session and the script with its row. `start`,
fixed at first, is the database found (empty, partial, old, whole; with a journal of
somebody else's or none) and the files each runner brings. A connection may be
replaced between any two statements, a runner may die, a developer may push. The
journal's rows are counted with its columns (`JournalColumns`), before the tables
are read, where the code counts them after; both are under the lock.

## Runs

| Run | Instance | States | Shows |
|---|---|---|---|
| `agent_lease` | two INVOKE jobs, one step command, caps 1 and 2, one lost beat in a row, expiry 3 | 82 540 | the cap, counting, return of slots, end of waits |
| `task_actions` | 2 steps, 3 jobs; two of stop, retry, task retry, skip, auto-resume, cancel beside a lost job; or answers and two of task retry, AI retry, auto-resume, or answers and a skip or a cancel, with one crash, lost, duplicated or failing job, lost run or park | 2 061 828 | one step at a time, in order, completion means all done; no agent without its work; no stale result, ended stays ended and idle, failed stays failed, one pass per step |
| `task_recovery` | 2 steps; answers with one fault of any kind, or answers and one task retry with two among lost job, lost run, park and failed re-drive | 231 461 | the epoch in its range when bumps are taken back; liveness: no fault, of the recovery either, strands the task or loses an answer |
| `dag_level` | five levels: one issue and a sub-issue under a crash; one issue under two faults of a run, or of the worker and the provider, and a Retry; two reviewed issues side by side; two unreviewed issues under three faults | 1 234 266 | no wait for nobody, whole checkpoints, one agent per worktree, refusals not resent, done work not redone, every level ends |
| `root_claim` | two acquisitions, window 2, 3 candidates, 2 retries, 5 periods | 632 k | exclusive use of the tree, no false loss, clean releases, no foreign claim moved |
| `merge_dir` | two tasks, one of them cancelled, the other pointing at the worktree; one conflict retry, one re-drive, one fault; a person's checkout without faults | 977 k | exclusive use of the directory, teardowns that are true, reported merges, capped re-drives, the directory freed |
| `upload` | two completes, two chunks, four requests, one fault of any of seven kinds | 533 k | whole archives, nothing left of a cancelled session, exclusive completes, every session settles |
| `repo_prep` | a complete, two Retry clicks, two job slots, two faults of five kinds | 282 k | one extraction, a sweep that spares live jobs, preparation ends |
| `upgrade` | one task, one updater at a time, three failures or deaths, two runs | 187 k | old containers never on destroyed data, whole releases, nothing live under it, the state given back, every run ends |
| `migrate` | two runners, eight databases, successive and branched versions, two faults of five kinds | 638 k | files once and onto their own, a true journal, refused databases untouched, migration completes |
| `upgrade_overlap` | two updaters at once, no fault | violation | see below |
| `answer_beside_retry` | 2 steps, answers and one retry, no fault | violation | see below |

Two steps are the least that have an order; three jobs are a live pass, a leftover and the job an action
queues; two faults let one hit the recovery from the other. Both
runs of the orchestration are made of cases, sets of actions and faults with bounds of
their own (`MCTaskCases`): a single instance that allowed all of them would run out of
queue slots, which the real queue does not, and would meet the counterexamples below.
No case of `task_actions` takes a bump back or has an answer beside a step's Retry. Of a claim two users are
the holder and its successor; with one more period than the window and the
candidate list together a stamp can be lost, expire and be taken over. Five
periods, three candidates against a window of two keep the relation of the code's
numbers (8 candidates, a window of 3) that the proof needs. Two runners, two tasks,
two completes are the least that overlap; a third meets the same lock. Sub-issues
are split once and the DAG's budgets are 1 or 2, so that each is reached.

The queue's slots and the acquisitions are symmetric, which runs without liveness
use. Deadlock is checked for the slot pool only: everything else may end, or wait
for a person or an operator for ever. Every property of a passing run has a mutant
(a dropped epoch comparison, an off-by-one, a reset that forgets the runs) under
which TLC finds it violated; the mutants stand beside the definitions they change.

The state invariants of a module are named parts of one invariant where they speak
of one thing: `StepsInOrder` (`OneActiveStep`, `OpensInOrder`,
`CompletedMeansAllDone`), `LevelSound` (`NoDeadWait`, `CheckpointWhole`),
`CancelRecordsTrue` (`TornDown`, `LeftOpenReported`, `RedriveCapped`), `RowIsTrue`
(`CompleteIsWhole`, `CancelledIsGone`, `NoAbandonedClaim`), `JournalSound`
(`AppliedOnce`, `JournalIsTrue`, `OneRunner`), `InstallSound` (`DataMatchesImages`,
`EndsWhole`), `PreparationSound` (`OneExtraction`), each with the module's `TypeOK`
but the first; every part has a mutant of its own. `Recovers` is the two liveness
properties of the orchestration. `TypeOK` is not only typing: the epoch taken back
by `Undo` never goes below zero, the budgets of `DagLevel` and the one live run of
the journal are bounds the code keeps by several guards. The types of `AgentLease`
and `RootClaim` are proved and not checked.

### Fairness

- `AgentLease`: the clock and the timers run, a waiter polls, a run ends by its
  own timeout, so its holder leaves.
- `TaskOrchestration`: the worker takes its jobs and finishes their stages, CLI runs
  end (they have a timeout) and their handlers run, boot and the periodic sweep
  run. None on the api: nobody owes the task a click, so `NotStranded` accepts a
  task that waits for an answer.
- `DagLevel`: passes go on, runs end, the sweep runs every minute.
- `MergeDir`: sections and sandbox creations end, the CANCEL job is taken, the sweep
  re-drives and abandons; strong fairness for a teardown's steps, which poll locks
  that are free again and again. Failures are bounded: what fails, fails for a time.
- `UploadSession`: requests that were sent, timers, removals and the reaper run;
  strong fairness for a complete's write, which waits for a renewal in flight and
  has a period to land in before the next, and for time between two sweeps.
- `RepoPrep`: requests, jobs and sweeps run to their end and a dead claim expires.
- `Upgrade`: the updater runs on and its deadline passes; strong fairness for taking
  the fence, which Postgres grants in the order it was asked for; the operator
  brings Postgres up and starts an interrupted upgrade again.
- `Migrate`: a runner that has not succeeded is started again and goes on.

No run assumes fairness of a fault, a click or a client.

## What the violation runs show

`upgrade_overlap`: the upgrade lock is an advisory lock of a Postgres session, and
the snapshot stops Postgres. Nothing takes the lock again. An updater started
meanwhile gets it, finds the run still marked running and rolls it back beside the
updater that works on it: old containers come up under a commit that destroys the
data they need. `cli.ts` says that the lock guards concurrency. The passing run
therefore starts one updater at a time.

`answer_beside_retry`: a submit's job carries no epoch (`steps.ts:907`). A person
answers step 2 and retries step 1 before the job is taken: the job passes the epoch
guard and the moved-chain guard, both of which exempt it, and opens step 2 with step 1
pending (`OpensInOrder`). With the Retry's own advance at the other-step guard, a plain
read, at the same time, two steps are active (`OneActiveStep`). The Retry's comment
(`steps.ts:1145`) says every advance queued before it is skipped as stale, and so does
the schema's (`tasks.ts:398`).

One disagreement within the repository needs no run, since the code agrees with
`EndedStaysEnded`. `api/src/routes/tasks/index.ts:1362-1364` says that "the step-retry
endpoint has no status guard, so a cancelled task is still resumable", `steps.ts:1739`,
`routes/plan.ts:1404` and the tests `api/test/task-cancel-guard-db.test.ts:509-510` and
`api/test/plan-merge-cancel-db.test.ts:636-637` speak of a step Retry that reopens a cancelled
task; the Retry's transaction refuses an ended task with 409 (`unendedTask`,
`steps.ts:399-402`, `1151`), and the model does as the transaction does.

Counterexamples TLC gives when an instance is widened past the runs above, each of
which is why a property has a premise or a run leaves a pair of actions apart:

- *An epoch used twice* (`TaskOrchestration`, two clicks of `retry`, faults
  `lose_job` and `undo`, `MaxEpoch = 2`). A re-drive bumps the epoch to 2 and cannot
  queue its advance; a run's end reads 2 meanwhile and queues a continuation with
  it; the bump is taken back (`stalled-redrive.ts:319`) and the next Retry, of an
  earlier step, bumps to 2 again. The continuation now carries the current epoch,
  claims its later step and opens it before the retried one (`OpensInOrder`). The
  schema says a job queued under an older epoch is skipped as stale
  (`tasks.ts:398`): true of numbers that only grow. The window is a handler that is
  held between its check and its read of the epoch while the sweep bumps and takes
  back. The runs of the order, and its theorem, have no bump taken back;
  `task_recovery` has, for the epoch's range and for liveness.
- *Stop, then an AI retry* (`{"stop", "retry_ai"}`, or `{"cancel", "retry_ai"}` with the
  retry between the cancel's two transactions). Stop fails the row and leaves
  the epoch; an AI retry puts it back to running before the stopped pass polls
  (every 2 s), and the pass writes its old result as done (`OwnPassFinishes`).
- *A START that comes late* (`{"retry_task", "retry"}`, fault `throw`, two steps, two
  clicks). START claims the task, then waits in `takeStepHold` (`task-queue.ts:2801`,
  `4487`) for a pass still on the first step, and does not look at the epoch again. A
  Retry of that step begins a new epoch; its pass opens the row and parks it on an
  agent. START takes the hold, finds a row that is not pending, so that the fence of
  `openPendingStep` is not asked, and, the agent having ended, writes the step done
  (`OwnPassFinishes`). Its own hand-off is then dropped as stale, and the sweep has to
  drive the task again.
- *Lost heartbeats* (`AgentLease`, `MaxMiss = 2`). Three lost in a row, only
  logged, and the field of a run that goes on expires: the pool admits one run over
  its cap.
- *No provider for a retried issue* (`DagLevel`, `NoDeadWait` without its premise):
  the section reports an agent in flight that was never sent
  (`dag-executor.ts:2164`), and the step waits until the sweep finds it.
- *Retry of a reviewed step that still runs* (`CheckpointWhole`, `SentWhereDue`
  without `Overwritten`): a pass and the reset write the same rows; an issue is
  skipped and coded again, or checkpointed without being merged.
- *Split interrupted* (`DagLevel`): the sub-issues are inserted before the parent is
  marked split, so a crash in between lets the parent be coded beside them.
- *A takeover nobody reports* (`RootClaim`): a holder blocked past the window that
  releases after its successor released sees a free row (`repo-root-claim.ts:682`).
- *Upload and preparation*: a renewal whose answer is lost leaves a complete on a
  stamp the row no longer carries; a failed sweep of idle sessions lets the orphan
  pass remove the file of a recent one; an `add` that throws after queueing, or a
  redelivered job, extracts a second time.
- *Migration*: a connection replaced between the lock and the read of its pid makes
  the wrong session the remembered one (`lock.ts:30`).
- *Cancel*: a teardown whose re-drives are used up is abandoned and may never be
  finished; `DirIsFreed` holds because the claim then stops holding.
- *Cancel and its agents* (`AgentsBelongToWork`, `CancelledIdle` without their windows):
  a pass that dispatches between the two transactions of a cancel leaves an open run on
  a failed row, and a row created while the cancel takes its locks stays open, both
  until the CANCEL job. A pass that dies between failing a row and ending its agents
  leaves open runs there until they end by themselves.
- *Orchestration*: a START that dies between parking a form and
  marking the task leaves a `running` task with a form that can be answered.

## Proofs

The theorems hold for every value of the constants (numbers of steps, jobs,
writers, actions, faults, bounds) that meets the assumptions named in the modules:
`N` positive, finite sets, bounds natural.

- `Lease_proofs`, of `AgentLease`. The inductive invariant is
  `PoolTypeOK /\ BeatBound /\ DueHeld`: a holder's field was written at most `MaxMiss` intervals ago (one more while
  its beat is due), and only holders have a beat due. `HolderCounted` alone is not
  inductive, since nothing in it says how far the expiry has run. With
  `MaxMiss + 1 < TTL` it follows, and with it `CapIsExact`: every holder is one of
  the fields the script counts, so adding one keeps the holders within the cap.
- `TaskOrchestration_proofs`. The invariant is `TypeOK /\ OnePassPerStep /\
  PassesSound`; `PassesSound` says that only a step with a successor reaches the
  hand-off, and that only an answer goes on to claim a task it read as failed.
  From it: `OrchestrationTypes`, `OnePassOnAStep`, `EndedIsFinal` and
  `FailedStaysFailed`. The steps of jobs, CLI runs, boot, sweep, api and faults
  are lemmas of their own.
  The second half of the module adds what a pass at work knows of its row
  (`WorkRows`: not absent, done or a parked form), needed so that the last writes of
  a pass overtaken by a cancel find a row they do not own. `CancelledStaysIdle`
  follows, crashes included. `CancelEnded` says that whoever owes or runs a CANCEL job
  belongs to a cancelled task, and `CancelKept` that nobody else moves a cancel on.
  `AgentsOnlyForWork` has no assumption: `AgentsPlaced` strengthens it by the statuses a
  row with an open run may have, which a pass that died and a cancel between its
  transactions leave behind.
  `StepsStayInOrder` proves `StepsInOrder` under `EpochFenced`: no bump is taken back;
  where answers are given, nothing restarts the task; the usage poller and a Retry of
  the whole task do not go together. The first two leave out the counterexamples above,
  the third a START that comes late and sets the pointer back, for which TLC finds no
  violation and the proof no invariant. Everything else (Retry, Skip, AI retry, Stop,
  Cancel, crashes, lost, duplicated and thrown jobs, parks) is covered, in any number. The
  property is far from inductive: the guard of `handleAdvanceStep` reads the other rows
  long before the row is opened. The invariant `OInv` is about `Ready`, the steps all of
  whose predecessors since the last restart have ended: active steps, the steps of passes
  of the current epoch and the task's pointer are all in it (`ActiveReady`, `PassReady`,
  `CurReady`), and two steps of it that have not ended are one. `Stamped` and `Placed`
  say which stamps and answers may be queued, `WorkerFits` that what boot has read holds
  as long as its epoch does, and `NotComing` deals with the one time the pointer is not in
  `Ready`: a task restarted from START keeps its old pointer until START claims it, and no
  advance of the new epoch is queued for it. A step within an epoch only lets `Ready` grow
  (`Steady`); a step that begins one makes every pass stale (`Begins`). The usage poller
  reopens a row in the epoch it failed in, and needs `ResumeFits`: a pass of the current
  epoch is on the pointer, so that a task that waits for its provider points at a failed
  row with no pass on its way to end it.
  `OnlyOwnPassFinishes` proves `OwnPassFinishes` under `PassesFenced`: a task is not
  started again from START, the usage poller reopens nothing, and the AI retry goes
  neither with Stop nor with Cancel, which begins with a stop; answers, taken-back bumps and every fault are covered. The hold of a
  step outlives a Retry, so a pass may sit on a row that was reset under it: `RowOwned`
  says that such a row stays as the reset left it until the pass is gone, `SinceFits` that
  no row was reset in an epoch to come, and `StartsAlone` that until START has its hold
  nothing else is at work.
- `Lease_proofs`, of `RootClaim`. `ExclusiveTreeHolds`: the claim implements
  `ExclusiveUse`, if the candidate list is longer than the stale window (`Stale < Cap`; the code has 3
  and 8). Exclusion alone is not inductive. `Held` says of each user of the tree
  whose stamp is not late that the row is its own and that the stamp the row
  carries is the one it works from or one of its candidates; of an acquisition that
  reads back its claim that the row, if its own, carries this period's stamp. A
  candidate list that overflows forgets its oldest stamp, and `YoungStampKept` is
  the lemma that this is never one inside the window. A step of one acquisition
  frames the others (`Frame`, `RowMove`), so the proof is one lemma per operation.
  `OnlyOwnerMoves` follows from the guards of the conditional writes.
  `ReleaseLeavesNothingHolds` and `LostIsRealHolds` need `Memory` besides: the holder
  of an unexpired claim knows the row's stamp as its own or as a candidate, and a
  release with retries left still has it to try.
- `RepoPrep_proofs`. `PreparationSoundHolds` and `SweepSparesLiveHolds`. That one
  job at most waits or runs is not inductive: `OneJob` counts with it the request
  that has won the row and not yet queued, `OldIsQueued` says that
  the row grows old only once that request has queued its job or marked the row, and
  `SweptIsDead` that what the sweep read as stranded has no job while the row stays
  old. `JobsCounted` is needed for the types: no job waits that no request queued.
- `MergeDir_proofs`. The invariant says of each task what its pass holds (`Passes`),
  whose merge is open (`Merges`), that who has the lock or a sandbox meets no claim
  that holds (`Excludes`), what a teardown at its stage has already made impossible
  (`TearsDown`) and how its attempts are counted (`Attempts`). A step of one task
  frames the others (`Frame`, `Shared`, `OthersSound`). An open merge is its claimant's
  or settled (`SettledFor`: reported, spared, or in a person's checkout), so that a
  release after the record loses none. `CancelRecordsTrueHolds` is read off it; `ExclusiveDirHolds` maps each step to `Enter`, `Leave` or a stutter.
- `Upgrade_proofs`. `InstallSoundHolds`, `HeldMeansIdleHolds` and
  `StateGivenBackHolds`, under `Overlap = FALSE`: one updater is started at a time,
  as an operator does; the upgrade lock does not see to it, and `upgrade_overlap`
  shows what happens when two run. The invariant says that the journal's last run is
  the only live one (`OneLive`) and that it is in `commit` only when the new release
  is whole (`Journal`), so that whoever resumes it commits or undoes rightly; and of
  each place an updater can be at, which phase it has journaled (`OnItsRun`), what is
  installed (`Installs`) and which admission state it found and wrote (`Holds`).
- `Migrate_proofs`. `JournalSoundHolds`, `AppliesOntoItsOwnHolds` and
  `RefusedUntouchedHolds`, for any corpora, runners and databases and without
  further assumptions. `Locked` says that a runner whose session is the one that
  locked holds the lock and that the journal it planned from is still its own history,
  as long as no connection was replaced where it does not look; `Knows` and `Found`
  keep what it has found out of the database before it acts; `Tables` relates the
  baseline's tables, the journal and the scripts that ran.
- `UploadSession_proofs`. `RowIsTrueHolds`, `CompleteIsFinalHolds` and
  `ExclusiveSessionHolds`. A stamp is carried by one complete at most, as the one it
  remembers or in an answer on its way (`Stamps`); a session being completed is
  carried by somebody while only renewals fail (`Claimed`), and the age of the row is
  at most the number of failed renewals plus the one that is due (`InTime`), which is
  why nobody is overtaken while that number is below the window. `ChunksAlone` says
  that no chunk writes once a complete was let in, `FileFound` that what a complete
  saw of the file stays so, `Removes` and `Orphans` that files go only in a session
  that is over, and the partial name before the final one. The types are proved
  with them: that one chunk writes and one complete has the stamp is part of both.
- `DagLevel_proofs`. `LevelIsSound`, `OneWriterAlways` and `SentOnlyWhereDue`, for
  any issues, splits, limits and settings and without further assumptions. A pass
  decides from rows it read earlier and writes in several steps, so none of the
  three is inductive: that an issue in the review is done and unresolved, or that a
  replanner is sent with every issue settled, was established sections before. The
  invariant `DInv` has a part for what each section knows: `Sections` while the step is
  the pass's own, and `Knows`, which is less and survives a Retry under the pass.
  `Places` says which owed write goes with which section, `Quiet` that a Retry left no
  agent in flight, `RowSound` how an issue's outcome, resolution, coder and latest agent
  go together, `Replanning` when a replanner may be about, `Kept` what a Retry and a
  dead pass do not undo. `Stirs` replaces `NoDeadWait` inside a pass: from the moment a
  pass decides to park, an agent is in flight or a job queued. Each action has a lemma;
  most go through `TouchKeeps` (the action writes to one issue), `StaysKeeps` (it only
  moves the pass) or `RunsEndKeeps` (it only ends runs). The proof needs
  `StuckLimit > 0`: with 0 a row would be stuck before its first review.

Only model-checked: every liveness property (fairness and ENABLED are beyond the
prover); `StepsInOrder` and `OwnPassFinishes` for sets of actions outside `EpochFenced`
and `PassesFenced`: false there by the counterexamples above, or, where only the usage
poller is added, not known. The cases of `task_actions` mix some of those actions within
bounds in which the counterexamples do not fit, and find no other. No module
declares a RECURSIVE operator.

## Plan

1. Proofs: `StepsInOrder` with the usage poller beside a Retry of the whole task,
   `OwnPassFinishes` with the usage poller.
2. `MiningFanout` inside a step, `FixLoop` rounds on top of the orchestration, the
   merge-conflict resolution of `DagLevel` composed with `MergeDir`.
3. An abstract life cycle of a task (created, at a step, waiting, failed, ended),
   with `TaskOrchestration` shown to implement it.

## Not modelled

Dead tasks, `waiting_pr`, the `resume` and `clarify` actions of the orchestration;
the completes of dump and bundle uploads; clone, copy, init, scan and refresh jobs;
the cleanup of a deleted repository; the data migrations the worker runs at boot;
and the parts the inventory gives no module. Most of the repository's lines are
of a kind a state machine adds nothing to: pages and client code of the web
interface, the text of prompts and of step definitions, adapters of vendor CLIs,
Docker and DDEV, indexing, statistics and schema declarations. They hold no state
that two actors write. The models cover the code in which actors meet.
