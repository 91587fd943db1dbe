----------------------- MODULE TaskOrchestration_proofs -----------------------
(* Proofs about TaskOrchestration for every length of the run list, every number
   of queue slots, every set of api actions and faults and every bound; of the order of
   the steps, and of who ends them, for the sets of actions and faults named there. *)
EXTENDS TaskOrchestration, FiniteSetTheorems, TLAPS

(* The records a slot of the queue may hold. *)
JobRecords ==
    [pc : Stages, kind : Kinds, s : Steps, e : Nat \cup {NoEpoch},
     ce : Nat \cup {NoEpoch}, cs : Statuses, cc : 0..N, res : Results]

(* What a pass knows of its own job: only a step that has a successor is handed
   off, and only an answer goes on to claim a task it read as failed. *)
Sound(b) ==
    /\ b.pc = "next" => Successor(b.s) \in Steps
    /\ b.pc = "claim" /\ b.cs = "failed" => b.kind = "answer"

PassesSound == \A j \in Jobs : Sound(job[j])

(* The inductive invariant behind the types and the holds. *)
IInv == TypeOK /\ OnePassPerStep /\ PassesSound

(* The part of IInv about the queue, and the part about everything else. *)
JobInv == job \in [Jobs -> JobRecords] /\ OnePassPerStep /\ PassesSound

DataOK ==
    /\ status \in Statuses
    /\ epoch \in Nat
    /\ cur \in 0..N
    /\ watch \in BOOLEAN
    /\ row \in [Steps -> RowStatuses]
    /\ since \in [Steps -> Nat]
    /\ aim \in Steps
    /\ answered \subseteq Steps
    /\ run \in [Steps -> RunStates]
    /\ resuming \subseteq Steps
    /\ worker \in [ph : {"up", "down", "parked", "running"}, e : Nat, c : 0..N, todo : SUBSET Steps]
    /\ undo \in Nat \cup {NoEpoch}
    /\ cancel \in [ph : CancelPhases, late : SUBSET Steps]
    /\ cut \subseteq Steps
    /\ clicks \in 0..MaxClicks
    /\ faults \in 0..MaxFaults

(* The type invariant splits into its two parts. *)
LEMMA Parts == IInv <=> DataOK /\ JobInv
  BY DEF IInv, TypeOK, DataOK, JobInv, JobRecords

(* The same in the next state. *)
LEMMA PartsNext == DataOK' /\ JobInv' => IInv'
  BY DEF IInv, TypeOK, DataOK, JobInv, JobRecords

(* The step b of a job may follow the step a: it holds its step because it held
   it before, or because nobody does. *)
MayFollow(a, b) ==
    b.pc \in HoldingStages =>
        (a.pc \in HoldingStages /\ b.s = a.s) \/ ~Held(b.s)

(* One job of the queue changes, and changes soundly. *)
LEMMA OneJobChanges ==
  ASSUME JobInv, NEW j \in Jobs, NEW b \in JobRecords,
         job' = [job EXCEPT ![j] = b], MayFollow(job[j], b), Sound(b)
  PROVE  JobInv'
<1>1. (job \in [Jobs -> JobRecords])'
  BY DEF JobInv
<1>2. OnePassPerStep'
  BY DEF JobInv, OnePassPerStep, MayFollow, Held
<1>3. PassesSound'
  BY DEF JobInv, PassesSound, Sound
<1> QED
  BY <1>1, <1>2, <1>3 DEF JobInv

(* A free slot and a queued job are sound values of a queue slot. *)
LEMMA QueuedSound ==
  ASSUME NEW k \in Kinds, NEW s \in Steps, NEW e \in Nat \cup {NoEpoch}
  PROVE  /\ Queued(k, s, e) \in JobRecords
         /\ \A a : MayFollow(a, Queued(k, s, e))
         /\ Sound(Queued(k, s, e))
  BY NAssumption DEF Queued, JobRecords, Stages, Statuses, Results, MayFollow, HoldingStages, Sound

(* So is a free slot. *)
LEMMA FreeSound ==
  /\ NoJob \in JobRecords
  /\ \A a : MayFollow(a, NoJob)
  /\ Sound(NoJob)
  BY NAssumption DEF NoJob, JobRecords, Stages, Statuses, Results, MayFollow,
     HoldingStages, Sound, NoEpoch, Kinds, Steps

(* Dropping a job, queueing one and replacing one by a queued one keep the queue sound. *)
LEMMA DropKeeps == ASSUME JobInv, NEW j \in Jobs, Drop(j) PROVE JobInv'
  BY OneJobChanges, FreeSound DEF Drop

(* A job is replaced by a queued one. *)
LEMMA ReplaceKeeps ==
  ASSUME JobInv, NEW j \in Jobs, NEW k \in Kinds, NEW s \in Steps,
         NEW e \in Nat \cup {NoEpoch}, job' = [job EXCEPT ![j] = Queued(k, s, e)]
  PROVE  JobInv'
  BY OneJobChanges, QueuedSound

(* A job is queued in a free slot. *)
LEMMA EnqueueKeeps ==
  ASSUME JobInv, NEW k \in Kinds, NEW s \in Steps, NEW e \in Nat \cup {NoEpoch},
         Enqueue(k, s, e)
  PROVE  JobInv'
  BY ReplaceKeeps DEF Enqueue, Free

(* The queue is left alone. *)
LEMMA SameJobs == ASSUME JobInv, UNCHANGED job PROVE JobInv'
  BY DEF JobInv, OnePassPerStep, PassesSound

(* A step of a job keeps the types of everything but the queue. *)
LEMMA JobStepData == ASSUME DataOK, JobInv, NEW j \in Jobs, JobStep(j) PROVE DataOK'
<1> USE BoundsAssumption
    DEF DataOK, taskVars, rowVars, envVars, endVars, Statuses, RowStatuses, RunStates
<1>0. job[j].s \in Steps /\ 1 \in 0..N /\ \A s \in Steps : s \in 0..N
  BY NAssumption DEF JobInv, JobRecords, Steps
<1>1. CASE TakeStart(j)
  BY <1>1 DEF TakeStart
<1>2. CASE ClaimStart(j)
  BY <1>0, <1>2 DEF ClaimStart, Fault
<1>3. CASE TakeStepHold(j)
  BY <1>3 DEF TakeStepHold
<1>4. CASE TakeAdvance(j)
  BY <1>4 DEF TakeAdvance
<1>5. CASE Look(j)
  BY <1>5 DEF Look, FinishFailedStep
<1>6. CASE Park(j)
  <2>1. faults' \in 0..MaxFaults
    BY <1>6 DEF Park, Fault
  <2>2. row' \in [Steps -> RowStatuses] /\ cur' \in 0..N /\ status' \in Statuses
    BY <1>0, <1>6 DEF Park
  <2> QED
    BY <1>6, <2>1, <2>2 DEF Park
<1>7. CASE Claim(j)
  BY <1>0, <1>7 DEF Claim
<1>8. CASE Open(j)
  <2>1. row' \in [Steps -> RowStatuses] /\ answered' \subseteq Steps
    BY <1>0, <1>8 DEF Open, LiveStepStatuses
  <2>2. UNCHANGED <<taskVars, since, run, envVars>>
    BY <1>8 DEF Open
  <2> QED
    BY <2>1, <2>2
<1>9. CASE Finish(j)
  BY <1>0, <1>9 DEF Finish, EndPass
<1>10. CASE FailStep(j)
  BY <1>0, <1>10 DEF FailStep
<1>11. CASE ReleaseStepAgents(j)
  BY <1>0, <1>11 DEF ReleaseStepAgents
<1>12. CASE AskForm(j)
  BY <1>0, <1>12 DEF AskForm, EndPass
<1>13. CASE Dispatch(j)
  BY <1>0, <1>13 DEF Dispatch, EndPass
<1>14. CASE KeepWaiting(j)
  BY <1>0, <1>14 DEF KeepWaiting, EndPass
<1>15. CASE Superseded(j)
  BY <1>15 DEF Superseded
<1>16. CASE Result(j)
  <2>1. row' \in [Steps -> RowStatuses]
    BY <1>0, <1>16 DEF Result
  <2>2. status' \in Statuses /\ watch' \in BOOLEAN
    BY <1>16 DEF Result, FinishFailedStep
  <2>3. cur' \in 0..N
    BY <1>0, <1>16 DEF Result
  <2>4. UNCHANGED <<epoch, aim, since, answered, run, envVars>>
    BY <1>16 DEF Result
  <2> QED
    BY <2>1, <2>2, <2>3, <2>4
<1>17. CASE HandOff(j)
  BY <1>17 DEF HandOff
<1> QED
  BY <1>1, <1>2, <1>3, <1>4, <1>5, <1>6, <1>7, <1>8, <1>9, <1>10, <1>11, <1>12, <1>13, <1>14, <1>15, <1>16, <1>17 DEF JobStep

(* The CLI runs' completion, redelivery and the faults keep those types. *)
LEMMA WorkerData ==
  ASSUME DataOK, JobInv,
         \/ \E j \in Jobs : Redeliver(j)
         \/ \E s \in Steps : CliEnd(s) \/ CliCheck(s) \/ CliResume(s)
         \/ Faults
  PROVE  DataOK'
<1> USE NAssumption, BoundsAssumption
    DEF DataOK, taskVars, rowVars, envVars, endVars, Statuses, RowStatuses, RunStates
<1>1. ASSUME NEW j \in Jobs, Redeliver(j) PROVE DataOK'
  BY <1>1 DEF Redeliver
<1>2. ASSUME NEW s \in Steps, CliEnd(s) PROVE DataOK'
  BY <1>2 DEF CliEnd
<1>3. ASSUME NEW s \in Steps, CliCheck(s) PROVE DataOK'
  BY <1>3 DEF CliCheck
<1>4. ASSUME NEW s \in Steps, CliResume(s) PROVE DataOK'
  BY <1>4 DEF CliResume
<1>5. CASE Crash
  BY <1>5 DEF Crash, Fault, Down, Up, NoEpoch
<1>6. ASSUME NEW j \in Jobs, LoseJob(j) PROVE DataOK'
  BY <1>6 DEF LoseJob, Fault
<1>7. ASSUME NEW j \in Jobs, Duplicate(j) PROVE DataOK'
  BY <1>7 DEF Duplicate, Fault
<1>8. ASSUME NEW j \in Jobs, Throw(j) PROVE DataOK'
  BY <1>8 DEF Throw, Fault
<1>9. ASSUME NEW s \in Steps, LoseRun(s) PROVE DataOK'
  BY <1>9 DEF LoseRun, Fault
<1> QED
  BY <1>1, <1>2, <1>3, <1>4, <1>5, <1>6, <1>7, <1>8, <1>9 DEF Faults

(* So do boot recovery, the taking back of a bump and the sweep. *)
LEMMA RecoveryData == ASSUME DataOK, JobInv, Boot \/ Undo \/ Sweep PROVE DataOK'
<1> USE NAssumption, BoundsAssumption
    DEF DataOK, taskVars, rowVars, envVars, endVars, Statuses, RowStatuses, RunStates
<1>1. CASE BootParked
  BY <1>1 DEF BootParked, ReadOrphans
<1>2. CASE BootRunning
  BY <1>2 DEF BootRunning, ReadOrphans
<1>3. CASE BootDone
  BY <1>3 DEF BootDone, Up
<1>4. ASSUME NEW s \in Steps, RecoverParked(s) PROVE DataOK'
  BY <1>4 DEF RecoverParked, RecoverParkedStep, Redrive, Fault
<1>5. ASSUME NEW s \in Steps, RecoverRunning(s) PROVE DataOK'
  BY <1>5 DEF RecoverRunning, RecoverParkedStep, Redrive, Fault, ResetStepAndDownstream, ResetRows
<1>6. CASE Undo
  BY <1>6 DEF Undo, NoEpoch
<1>7. CASE SweepRedrive
  BY <1>7 DEF SweepRedrive, Redrive, Fault
<1>8. CASE SweepFailed
  BY <1>8 DEF SweepFailed, FinishFailedStep
<1>9. CASE SweepStart
  BY <1>9 DEF SweepStart
<1>10. CASE SweepLostRun
  <2>1. cur \in Steps
    BY <1>10 DEF SweepLostRun, Steps
  <2> QED
    BY <1>10, <2>1 DEF SweepLostRun, RecoverParkedStep, Redrive, Fault
<1> QED
  BY <1>1, <1>2, <1>3, <1>4, <1>5, <1>6, <1>7, <1>8, <1>9, <1>10 DEF Boot, Sweep

(* So do the actions of the api. *)
LEMMA ApiData == ASSUME DataOK, JobInv, Api PROVE DataOK'
<1> USE NAssumption, BoundsAssumption
    DEF DataOK, taskVars, rowVars, envVars, endVars, Statuses, RowStatuses, RunStates
<1>0. (cur # 0 => cur \in Steps) /\ 1 \in Steps /\ \A s \in Steps : s \in 0..N
  BY DEF Steps
<1>01. ASSUME NEW act, Click(act) PROVE clicks' \in 0..MaxClicks
  BY <1>01 DEF Click
<1>02. ASSUME NEW s \in Steps, MoveTaskToStep(s)
       PROVE  /\ status' \in Statuses /\ epoch' \in Nat /\ cur' \in 0..N /\ aim' \in Steps
              /\ watch' \in BOOLEAN /\ UNCHANGED <<resuming, worker, undo, cancel, cut, faults>>
  <2>1. watch' \in BOOLEAN /\ UNCHANGED <<resuming, worker, undo, cancel, cut, faults>>
    BY <1>02, Zenon DEF MoveTaskToStep, endVars
  <2>2. status' = "running" /\ epoch' = epoch + 1 /\ cur' = s /\ aim' = s
    BY <1>02, Zenon DEF MoveTaskToStep
  <2> QED
    BY <1>0, <2>1, <2>2
<1>03. ASSUME row' \in [Steps -> RowStatuses], run' \in [Steps -> RunStates],
              since' \in [Steps -> Nat], answered' \subseteq Steps, clicks' \in 0..MaxClicks,
              NEW s \in Steps, MoveTaskToStep(s)
       PROVE  DataOK'
  BY <1>02, <1>03
<1>1. CASE Start
  BY <1>1 DEF Start
<1>2. CASE Stop
  BY <1>0, <1>01, <1>2 DEF Stop, SupersedeLiveRuns
<1>3. CASE Cancel
  <2>1. row' \in [Steps -> RowStatuses] /\ cancel' \in [ph : CancelPhases, late : SUBSET Steps]
    BY <1>3 DEF Cancel, CancelPhases
  <2>2. watch' \in BOOLEAN
    BY <1>3, Zenon DEF Cancel
  <2>3. /\ status' = "cancelled" /\ epoch' = epoch + 1
        /\ UNCHANGED <<cur, aim, since, answered, run, resuming, worker, undo, cut, clicks, faults>>
    BY <1>3, Zenon DEF Cancel
  <2> QED
    BY <2>1, <2>2, <2>3
<1>10. CASE CancelStops
  <2>1. row' \in [Steps -> RowStatuses] /\ run' \in [Steps -> RunStates]
    BY <1>10 DEF CancelStops, SupersedeLiveRuns
  <2>2. cancel' \in [ph : CancelPhases, late : SUBSET Steps]
    BY <1>10 DEF CancelStops, CancelPhases
  <2>3. clicks' \in 0..MaxClicks
    BY <1>01, <1>10 DEF CancelStops
  <2>4. UNCHANGED <<taskVars, since, answered, resuming, worker, undo, cut, faults>>
    BY <1>10, Zenon DEF CancelStops
  <2> QED
    BY <2>1, <2>2, <2>3, <2>4
<1>4. CASE RetryTask
  <2>1. row' \in [Steps -> RowStatuses] /\ run' \in [Steps -> RunStates]
    BY <1>4 DEF RetryTask, RestartFromStart
  <2>2. since' \in [Steps -> Nat] /\ answered' \subseteq Steps
    BY <1>4 DEF RetryTask, RestartFromStart
  <2>3. clicks' \in 0..MaxClicks
    BY <1>01, <1>4 DEF RetryTask, RestartFromStart
  <2>4. CASE cur # 0 /\ row[cur] # "none"
    BY <1>0, <1>03, <1>4, <2>1, <2>2, <2>3, <2>4 DEF RetryTask, RestartFromStart
  <2>5. CASE ~(cur # 0 /\ row[cur] # "none")
    <3>1. watch' \in BOOLEAN
      BY <1>4, <2>5, Zenon DEF RetryTask, RestartFromStart
    <3>2. /\ status' = "queued" /\ epoch' = epoch + 1 /\ aim' = 1
          /\ UNCHANGED <<cur, resuming, worker, undo, cancel, cut, faults>>
      BY <1>4, <2>5, Zenon DEF RetryTask, RestartFromStart, endVars
    <3> QED
      BY <1>0, <2>1, <2>2, <2>3, <3>1, <3>2
  <2> QED
    BY <2>4, <2>5
<1>5. CASE AutoResume
  BY <1>0, <1>01, <1>5 DEF AutoResume
<1>6. ASSUME NEW s \in Steps, Submit(s) PROVE DataOK'
  BY <1>6 DEF Submit, Click
<1>7. ASSUME NEW s \in Steps, RetryStep(s) PROVE DataOK'
  <2>1. row' \in [Steps -> RowStatuses] /\ run' \in [Steps -> RunStates]
    BY <1>7 DEF RetryStep, ResetRows
  <2>2. since' \in [Steps -> Nat] /\ answered' \subseteq Steps
    BY <1>7 DEF RetryStep, ResetRows
  <2>3. clicks' \in 0..MaxClicks
    BY <1>01, <1>7 DEF RetryStep, ResetRows
  <2> QED
    BY <1>03, <1>7, <2>1, <2>2, <2>3 DEF RetryStep
<1>8. ASSUME NEW s \in Steps, Skip(s) PROVE DataOK'
  <2>1. row' \in [Steps -> RowStatuses] /\ run' \in [Steps -> RunStates]
    BY <1>8 DEF Skip
  <2>2. since' \in [Steps -> Nat] /\ answered' \subseteq Steps
    BY <1>8 DEF Skip
  <2>3. clicks' \in 0..MaxClicks
    BY <1>01, <1>8 DEF Skip
  <2> QED
    BY <1>03, <1>8, <2>1, <2>2, <2>3 DEF Skip
<1>9. ASSUME NEW s \in Steps, RetryAi(s) PROVE DataOK'
  <2>1. row' \in [Steps -> RowStatuses] /\ run' \in [Steps -> RunStates]
    BY <1>9 DEF RetryAi
  <2>2. since' \in [Steps -> Nat] /\ answered' \subseteq Steps
    BY <1>9 DEF RetryAi
  <2>3. clicks' \in 0..MaxClicks
    BY <1>01, <1>9 DEF RetryAi
  <2> QED
    BY <1>03, <1>9, <2>1, <2>2, <2>3 DEF RetryAi
<1> QED
  BY <1>1, <1>2, <1>3, <1>4, <1>5, <1>6, <1>7, <1>8, <1>9, <1>10 DEF Api

(* So does the job that ends a cancelled task's rows and runs. *)
LEMMA CancelJobData == ASSUME DataOK, CancelJob PROVE DataOK'
<1> USE DEF DataOK, taskVars, rowVars, RowStatuses, RunStates, CancelPhases
<1>1. CASE CancelEndsRows
  BY <1>1 DEF CancelEndsRows
<1>2. CASE CancelEndsRuns
  BY <1>2 DEF CancelEndsRuns
<1> QED
  BY <1>1, <1>2 DEF CancelJob

-----------------------------------------------------------------------------
(* A pass that only moves to its next stage keeps its step. *)
LEMMA StageKeeps ==
  ASSUME JobInv, NEW j \in Jobs, job[j].pc \in HoldingStages,
         NEW p \in {"open", "work", "result"}, job' = [job EXCEPT ![j].pc = p]
  PROVE  JobInv'
<1> DEFINE b == [job[j] EXCEPT !.pc = p]
<1>1. b \in JobRecords /\ MayFollow(job[j], b) /\ Sound(b)
  BY DEF JobInv, JobRecords, Stages, MayFollow, HoldingStages, Sound
<1>2. job' = [job EXCEPT ![j] = b]
  OBVIOUS
<1> QED
  BY <1>1, <1>2, OneJobChanges

(* So does one that records its result on the way. *)
LEMMA ResultKeeps ==
  ASSUME JobInv, NEW j \in Jobs, job[j].pc \in HoldingStages,
         NEW p \in {"release", "result"}, NEW r \in Results,
         job' = [job EXCEPT ![j].pc = p, ![j].res = r]
  PROVE  JobInv'
<1> DEFINE b == [job[j] EXCEPT !.pc = p, !.res = r]
<1>1. b \in JobRecords /\ MayFollow(job[j], b) /\ Sound(b)
  BY DEF JobInv, JobRecords, Stages, MayFollow, HoldingStages, Sound
<1>2. job' = [job EXCEPT ![j] = b]
  OBVIOUS
<1> QED
  BY <1>1, <1>2, OneJobChanges

(* The pickup of a job and its way to the step's row keep the queue sound: a
   step is entered only while nobody holds it, and a task read as failed only
   by an answer. *)
LEMMA PickupJobs ==
  ASSUME DataOK, JobInv, NEW j \in Jobs,
         \/ TakeStart(j) \/ ClaimStart(j) \/ TakeStepHold(j) \/ TakeAdvance(j)
         \/ Look(j) \/ Park(j) \/ Claim(j)
  PROVE  JobInv'
<1>0. job[j] \in JobRecords /\ Sound(job[j])
  BY DEF JobInv, PassesSound
<1>01. job[j].s \in Steps /\ job[j].ce \in Nat \cup {NoEpoch} /\ 1 \in Steps /\ 0 \in 0..N
  BY <1>0, NAssumption DEF JobRecords, Steps
<1>1. CASE TakeStart(j)
  <2> DEFINE b == [job[j] EXCEPT !.pc = "start", !.ce = epoch]
  <2>1. b \in JobRecords /\ MayFollow(job[j], b) /\ Sound(b)
    BY <1>0 DEF JobRecords, Stages, MayFollow, HoldingStages, Sound, DataOK
  <2>2. job' = [job EXCEPT ![j] = b]
    BY <1>1 DEF TakeStart
  <2> QED
    BY <2>1, <2>2, OneJobChanges
<1>2. CASE ClaimStart(j)
  <2> DEFINE b == [job[j] EXCEPT !.pc = "hold"]
  <2>1. b \in JobRecords /\ MayFollow(job[j], b) /\ Sound(b)
    BY <1>0 DEF JobRecords, Stages, MayFollow, HoldingStages, Sound
  <2>2. \/ job' = [job EXCEPT ![j] = b]
        \/ job' = [job EXCEPT ![j] = Queued("advance", 1, job[j].ce)]
        \/ Drop(j)
    BY <1>2 DEF ClaimStart
  <2> QED
    BY <1>01, <2>1, <2>2, OneJobChanges, ReplaceKeeps, DropKeeps DEF Kinds
<1>3. CASE TakeStepHold(j)
  <2> DEFINE b == [job[j] EXCEPT !.pc = "open", !.s = 1]
  <2>1. b \in JobRecords /\ Sound(b) /\ b.s = 1
    BY <1>0, <1>01 DEF JobRecords, Stages, Sound
  <2>2. MayFollow(job[j], b)
    BY <1>3, <2>1 DEF TakeStepHold, MayFollow
  <2>3. job' = [job EXCEPT ![j] = b]
    BY <1>3 DEF TakeStepHold
  <2> QED
    BY <2>1, <2>2, <2>3, OneJobChanges
<1>4. CASE TakeAdvance(j)
  <2> DEFINE b == [job[j] EXCEPT !.pc = "look", !.ce = epoch, !.cs = status, !.cc = cur]
  <2>1. b \in JobRecords /\ Sound(b) /\ b.s = job[j].s
    BY <1>0 DEF JobRecords, Stages, Sound, DataOK
  <2>2. MayFollow(job[j], b)
    BY <1>4, <2>1 DEF TakeAdvance, MayFollow
  <2>3. Drop(j) \/ job' = [job EXCEPT ![j] = b]
    BY <1>4 DEF TakeAdvance
  <2> QED
    BY <2>1, <2>2, <2>3, OneJobChanges, DropKeeps
<1>5. CASE Look(j)
  <2> DEFINE b == [job[j] EXCEPT !.pc = "result", !.res = row[job[j].s], !.cc = 0]
             c == [job[j] EXCEPT !.pc = "claim", !.cc = 0]
  <2>0. job[j].pc = "look"
    BY <1>5 DEF Look
  <2>1. CASE Drop(j)
    BY <2>1, DropKeeps
  <2>2. CASE HandsBack(job[j]) /\ job' = [job EXCEPT ![j] = b]
    <3>1. row[job[j].s] \in Results
      BY <2>2 DEF HandsBack, StaleSubmit, Results
    <3>2. b \in JobRecords /\ Sound(b)
      BY <1>0, <1>01, <3>1 DEF JobRecords, Stages, Sound
    <3>3. MayFollow(job[j], b)
      BY <1>0, <2>0 DEF MayFollow, JobRecords, HoldingStages
    <3> QED
      BY <2>2, <3>2, <3>3, OneJobChanges
  <2>3. CASE ~Refused(job[j]) /\ ~HandsBack(job[j]) /\ job' = [job EXCEPT ![j] = c]
    <3>1. job[j].cs = "failed" => job[j].kind = "answer"
      BY <2>3 DEF Refused, FailedTaskRefusesAdvance
    <3>2. c \in JobRecords /\ Sound(c)
      BY <1>0, <1>01, <3>1 DEF JobRecords, Stages, Sound
    <3>3. MayFollow(job[j], c)
      BY <1>0, <2>0 DEF MayFollow, JobRecords, HoldingStages
    <3> QED
      BY <2>3, <3>2, <3>3, OneJobChanges
  <2> QED
    BY <1>5, <2>1, <2>2, <2>3 DEF Look
<1>6. CASE Park(j)
  <2>1. Drop(j) \/ job' = [job EXCEPT ![j] = Queued("advance", job[j].s, job[j].ce)]
    BY <1>6 DEF Park
  <2> QED
    BY <1>01, <2>1, DropKeeps, ReplaceKeeps DEF Kinds
<1>7. CASE Claim(j)
  <2> DEFINE b == [job[j] EXCEPT !.pc = "open", !.cs = "created"]
  <2>1. b \in JobRecords /\ Sound(b)
    BY <1>0 DEF JobRecords, Stages, Statuses, Sound
  <2>2. MayFollow(job[j], b)
    BY <1>7 DEF Claim, MayFollow, HoldingStages
  <2>3. Drop(j) \/ job' = [job EXCEPT ![j] = b]
    BY <1>7 DEF Claim
  <2> QED
    BY <2>1, <2>2, <2>3, OneJobChanges, DropKeeps
<1> QED
  BY <1>1, <1>2, <1>3, <1>4, <1>5, <1>6, <1>7

(* The rest of a pass keeps the queue sound: it goes on holding the step it
   holds until it drops its job, and only a step with a successor is handed off. *)
LEMMA PassJobs ==
  ASSUME DataOK, JobInv, NEW j \in Jobs,
         \/ Open(j) \/ Finish(j) \/ FailStep(j) \/ ReleaseStepAgents(j) \/ AskForm(j)
         \/ Dispatch(j) \/ KeepWaiting(j) \/ Superseded(j) \/ Result(j) \/ HandOff(j)
  PROVE  JobInv'
<1>0. job[j] \in JobRecords /\ Sound(job[j])
  BY DEF JobInv, PassesSound
<1>1. CASE Open(j)
  <2>0. job[j].pc \in HoldingStages
    BY <1>1 DEF Open, HoldingStages
  <2>1. \/ Drop(j)
        \/ job' = [job EXCEPT ![j].pc = "work"]
        \/ \E r \in Results : job' = [job EXCEPT ![j].pc = "result", ![j].res = r]
    BY <1>1 DEF Open, Results
  <2> QED
    BY <2>0, <2>1, DropKeeps, StageKeeps, ResultKeeps
<1>2. ASSUME NEW s, NEW rowNow, NEW r \in Results, job[j].pc = "work", EndPass(j, s, rowNow, r)
      PROVE  JobInv'
  BY <1>2, ResultKeeps DEF EndPass, HoldingStages
<1>3. CASE Finish(j) \/ AskForm(j) \/ Dispatch(j) \/ KeepWaiting(j)
  BY <1>2, <1>3 DEF Finish, AskForm, Dispatch, KeepWaiting, Results
<1>4. CASE FailStep(j)
  <2>1. \E p \in {"release", "result"} : job' = [job EXCEPT ![j].pc = p, ![j].res = "failed"]
    BY <1>4 DEF FailStep
  <2> QED
    BY <1>4, <2>1, ResultKeeps DEF FailStep, HoldingStages, Results
<1>5. CASE ReleaseStepAgents(j)
  BY <1>5, StageKeeps DEF ReleaseStepAgents, HoldingStages
<1>6. CASE Superseded(j)
  BY <1>6, DropKeeps DEF Superseded
<1>7. CASE Result(j)
  <2> DEFINE b == [job[j] EXCEPT !.pc = "next"]
  <2>0. job[j].pc = "result"
    BY <1>7 DEF Result
  <2>1. CASE Drop(j)
    BY <2>1, DropKeeps
  <2>2. CASE Successor(job[j].s) \in Steps /\ job' = [job EXCEPT ![j].pc = "next"]
    <3>1. b \in JobRecords /\ Sound(b) /\ MayFollow(job[j], b)
      BY <1>0, <2>0, <2>2 DEF JobRecords, Stages, Sound, MayFollow, HoldingStages
    <3>2. job' = [job EXCEPT ![j] = b]
      BY <2>2
    <3> QED
      BY <3>1, <3>2, OneJobChanges
  <2> QED
    BY <1>7, <2>1, <2>2 DEF Result
<1>8. CASE HandOff(j)
  <2>1. Successor(job[j].s) \in Steps /\ job[j].ce \in Nat \cup {NoEpoch}
    BY <1>0, <1>8 DEF HandOff, Sound, JobRecords
  <2> QED
    BY <1>8, <2>1, ReplaceKeeps DEF HandOff, Kinds
<1> QED
  BY <1>1, <1>3, <1>4, <1>5, <1>6, <1>7, <1>8

(* The actors beside the passes queue, redeliver, lose and double jobs, and a
   crash ends every pass: none of it enters a step. *)
LEMMA OtherJobs ==
  ASSUME DataOK, JobInv,
         \/ \E j \in Jobs : Redeliver(j)
         \/ \E s \in Steps : CliEnd(s) \/ CliCheck(s) \/ CliResume(s)
         \/ Boot \/ Undo \/ Sweep \/ Api \/ CancelJob \/ Faults
  PROVE  JobInv'
<1> USE DEF taskVars, rowVars, envVars, Kinds
<1>0. (cur # 0 => cur \in Steps) /\ 1 \in Steps /\ epoch \in Nat /\ epoch + 1 \in Nat
  BY NAssumption DEF DataOK, Steps
<1>1. ASSUME NEW j \in Jobs, Redeliver(j) PROVE JobInv'
  <2> DEFINE b == [job[j] EXCEPT !.pc = "wait"]
  <2>1. b \in JobRecords /\ MayFollow(job[j], b) /\ Sound(b)
    BY DEF JobInv, JobRecords, Stages, MayFollow, HoldingStages, Sound
  <2>2. job' = [job EXCEPT ![j] = b]
    BY <1>1 DEF Redeliver
  <2> QED
    BY <2>1, <2>2, OneJobChanges
<1>2. ASSUME NEW s \in Steps, CliEnd(s) \/ CliCheck(s) \/ LoseRun(s) PROVE JobInv'
  BY <1>2, SameJobs DEF CliEnd, CliCheck, LoseRun
<1>3. ASSUME NEW s \in Steps, CliResume(s) PROVE JobInv'
  BY <1>0, <1>3, EnqueueKeeps DEF CliResume
<1>4. CASE \/ BootParked \/ BootRunning \/ BootDone \/ Undo \/ SweepFailed
           \/ Stop \/ CancelStops \/ Cancel \/ CancelJob
  BY <1>4, SameJobs DEF BootParked, BootRunning, BootDone, Undo, SweepFailed, Stop, CancelStops,
     Cancel, CancelJob, CancelEndsRows, CancelEndsRuns
<1>5. ASSUME NEW s \in Steps, Redrive(s) PROVE JobInv'
  BY <1>0, <1>5, EnqueueKeeps, SameJobs DEF Redrive
<1>6. ASSUME NEW s \in Steps, NEW e, NEW c, NEW rowNow, RecoverParkedStep(s, e, c, rowNow)
      PROVE  JobInv'
  BY <1>5, <1>6, SameJobs DEF RecoverParkedStep
<1>7. ASSUME NEW s \in Steps, RecoverParked(s) \/ RecoverRunning(s) PROVE JobInv'
  <2>1. ASSUME NEW e, ResetStepAndDownstream(s, e) PROVE JobInv'
    BY <1>0, <2>1, EnqueueKeeps, SameJobs DEF ResetStepAndDownstream
  <2> QED
    BY <1>6, <1>7, <2>1, SameJobs DEF RecoverParked, RecoverRunning
<1>8. CASE SweepRedrive
  BY <1>0, <1>5, <1>8 DEF SweepRedrive
<1>9. CASE SweepStart \/ Start
  BY <1>0, <1>9, EnqueueKeeps DEF SweepStart, Start
<1>10. CASE SweepLostRun
  BY <1>0, <1>6, <1>10 DEF SweepLostRun
<1>11. ASSUME NEW s \in Steps, MoveTaskToStep(s) PROVE JobInv'
  BY <1>0, <1>11, EnqueueKeeps DEF MoveTaskToStep
<1>12. ASSUME NEW s \in Steps, RetryStep(s) \/ Skip(s) \/ RetryAi(s) PROVE JobInv'
  BY <1>11, <1>12 DEF RetryStep, Skip, RetryAi
<1>13. ASSUME NEW s \in Steps, Submit(s) PROVE JobInv'
  BY <1>13, EnqueueKeeps DEF Submit
<1>14. CASE RetryTask
  BY <1>0, <1>11, <1>14, EnqueueKeeps DEF RetryTask, RestartFromStart
<1>15. CASE AutoResume
  BY <1>0, <1>15, EnqueueKeeps DEF AutoResume
<1>16. CASE Crash
  <2> DEFINE Left(j) == [Queued(job[j].kind, job[j].s, job[j].e) EXCEPT !.pc = "orphan"]
  <2>1. job' = [j \in Jobs |-> IF job[j].pc \in RunningStages THEN Left(j) ELSE job[j]]
    BY <1>16 DEF Crash
  <2>2. ASSUME NEW j \in Jobs
        PROVE  Left(j) \in JobRecords /\ Left(j).pc \notin HoldingStages /\ Sound(Left(j))
    BY NAssumption DEF JobInv, Queued, JobRecords, Stages, Statuses, Results, HoldingStages, Sound
  <2>3. ASSUME NEW j \in Jobs
        PROVE  job'[j] \in JobRecords /\ job'[j].pc \notin HoldingStages /\ Sound(job'[j])
    BY <2>1, <2>2 DEF JobInv, PassesSound, RunningStages
  <2>4. (job \in [Jobs -> JobRecords])'
    BY <2>1, <2>3
  <2>5. OnePassPerStep' /\ PassesSound'
    BY <2>3 DEF OnePassPerStep, PassesSound, Sound
  <2> QED
    BY <2>4, <2>5 DEF JobInv
<1>17. ASSUME NEW j \in Jobs, LoseJob(j) PROVE JobInv'
  BY <1>17, DropKeeps DEF LoseJob
<1>18. ASSUME NEW j \in Jobs, Duplicate(j) \/ Throw(j) PROVE JobInv'
  <2>1. job[j].kind \in Kinds /\ job[j].s \in Steps /\ job[j].e \in Nat \cup {NoEpoch}
    BY DEF JobInv, JobRecords
  <2>2. CASE Duplicate(j)
    BY <2>1, <2>2, EnqueueKeeps DEF Duplicate
  <2>3. CASE Throw(j)
    <3>1. Drop(j) \/ job' = [job EXCEPT ![j] = Queued(job[j].kind, job[j].s, job[j].e)]
      BY <2>3 DEF Throw, Drop
    <3> QED
      BY <2>1, <3>1, ReplaceKeeps, DropKeeps
  <2> QED
    BY <1>18, <2>2, <2>3
<1> QED
  BY <1>1, <1>2, <1>3, <1>4, <1>7, <1>8, <1>9, <1>10, <1>12, <1>13, <1>14, <1>15,
     <1>16, <1>17, <1>18 DEF Boot, Sweep, Api, Faults

-----------------------------------------------------------------------------
(* The initial state satisfies the inductive invariant: every slot is free. *)
LEMMA InitIInv == Init => IInv
<1> SUFFICES ASSUME Init PROVE DataOK /\ JobInv
  BY Parts
<1>1. DataOK
  <2>1. watch \in BOOLEAN
    BY Zenon DEF Init
  <2>2. row \in [Steps -> RowStatuses] /\ since \in [Steps -> Nat] /\ run \in [Steps -> RunStates]
    BY DEF Init, RowStatuses, RunStates
  <2>3. /\ status = "created" /\ epoch = 0 /\ cur = 0 /\ aim = 1 /\ answered = {}
        /\ resuming = {} /\ worker = Up /\ undo = NoEpoch /\ clicks = 0 /\ faults = 0
        /\ cancel = NoCancel /\ cut = {}
    BY Zenon DEF Init
  <2> QED
    BY NAssumption, BoundsAssumption, <2>1, <2>2, <2>3
       DEF DataOK, Statuses, Steps, Up, NoCancel, CancelPhases
<1>2. JobInv
  BY FreeSound DEF Init, JobInv, OnePassPerStep, PassesSound, NoJob, HoldingStages
<1> QED
  BY <1>1, <1>2

(* Every step keeps the inductive invariant. *)
LEMMA NextIInv == IInv /\ [Next]_vars => IInv'
<1> SUFFICES ASSUME IInv, [Next]_vars PROVE DataOK' /\ JobInv'
  BY PartsNext
<1>0. DataOK /\ JobInv
  BY Parts
<1>1. ASSUME NEW j \in Jobs, JobStep(j) PROVE DataOK' /\ JobInv'
  BY <1>0, <1>1, JobStepData, PickupJobs, PassJobs DEF JobStep
<1>2. CASE \/ \E j \in Jobs : Redeliver(j)
           \/ \E s \in Steps : CliEnd(s) \/ CliCheck(s) \/ CliResume(s)
           \/ Faults
  BY <1>0, <1>2, WorkerData, OtherJobs
<1>3. CASE Boot \/ Undo \/ Sweep
  BY <1>0, <1>3, RecoveryData, OtherJobs
<1>4. CASE Api \/ CancelJob
  BY <1>0, <1>4, ApiData, CancelJobData, OtherJobs
<1>5. CASE UNCHANGED vars
  BY <1>0, <1>5 DEF vars, DataOK, JobInv, OnePassPerStep, PassesSound
<1> QED
  BY <1>1, <1>2, <1>3, <1>4, <1>5 DEF Next

(* The inductive invariant holds in every behaviour. *)
LEMMA AlwaysIInv == Spec => []IInv
  BY InitIInv, NextIInv, PTL DEF Spec

(* Every variable keeps its type, whatever actors, faults and bounds. *)
THEOREM OrchestrationTypes == Spec => []TypeOK
<1>1. IInv => TypeOK
  BY DEF IInv
<1> QED
  BY AlwaysIInv, <1>1, PTL

(* Two passes never hold one step: the holds of holdStepAdvance and
   takeStepHold suffice for any number of queued, redelivered and doubled jobs. *)
THEOREM OnePassOnAStep == Spec => []OnePassPerStep
<1>1. IInv => OnePassPerStep
  BY DEF IInv
<1> QED
  BY AlwaysIInv, <1>1, PTL

(* No step changes the status of an ended task. *)
LEMMA EndedKept ==
  ASSUME status \in TerminalTaskStatuses, [Next]_vars
  PROVE  status' = status
<1> USE DEF TerminalTaskStatuses, taskVars
<1>1. ASSUME NEW j \in Jobs, JobStep(j) \/ Redeliver(j) PROVE status' = status
  BY <1>1 DEF JobStep, Redeliver, TakeStart, ClaimStart, StartableTaskStatuses, TakeStepHold,
     TakeAdvance, Look, FinishFailedStep, Park, TaskWriteTarget, Claim, Open, Finish, FailStep,
     ReleaseStepAgents, AskForm, Dispatch, KeepWaiting, Superseded, Result, HandOff
<1>2. ASSUME NEW s \in Steps, CliEnd(s) \/ CliCheck(s) \/ CliResume(s) PROVE status' = status
  BY <1>2 DEF CliEnd, CliCheck, CliResume
<1>3. CASE Boot \/ Undo
  BY <1>3 DEF Boot, Undo, BootParked, BootRunning, BootDone, RecoverParked, RecoverParkedStep,
     RecoverRunning
<1>4. CASE Sweep
  BY <1>4 DEF Sweep, SweepRedrive, SweepFailed, FinishFailedStep, SweepStart, SweepLostRun,
     RecoverParkedStep
<1>5. CASE Api
  BY <1>5 DEF Api, Start, Stop, CancelStops, Cancel, RetryTask, RestartFromStart, AutoResume, Submit, RetryStep,
     Skip, RetryAi, MoveTaskToStep
<1>6. CASE Faults
  BY <1>6 DEF Faults, Crash, LoseJob, Duplicate, Throw, OpenTaskStatuses, StartableTaskStatuses,
     LoseRun
<1>7. CASE CancelJob
  BY <1>7 DEF CancelJob, CancelEndsRows, CancelEndsRuns
<1>8. CASE UNCHANGED vars
  BY <1>8 DEF vars
<1> QED
  BY <1>1, <1>2, <1>3, <1>4, <1>5, <1>6, <1>7, <1>8 DEF Next

(* Once cancelled or completed a task keeps its status. *)
THEOREM EndedIsFinal == Spec => EndedStaysEnded
<1>1. [Next]_vars => [(status \in TerminalTaskStatuses) => status' = status]_vars
  BY EndedKept
<1> QED
  BY <1>1, PTL DEF Spec, EndedStaysEnded

(* A failed task is raised only by a click, a fresh answer, or the claim of the
   job that carries an answer. *)
THEOREM FailedStaysFailed == Spec => FailedNeedsReopening
<1> DEFINE Reopened ==
      \/ clicks' # clicks
      \/ answered' # answered
      \/ \E j \in Jobs : job[j].pc = "claim" /\ job[j].kind = "answer"
<1>1. ASSUME IInv, status = "failed", [Next]_vars, status' \notin {"failed", "cancelled"}
      PROVE  Reopened
  <2> USE <1>1 DEF taskVars
  <2>0. clicks \in Nat /\ PassesSound
    BY BoundsAssumption DEF IInv, TypeOK
  <2>1. ASSUME NEW j \in Jobs, Claim(j) PROVE Reopened
    BY <2>0, <2>1 DEF Claim, TaskWriteTarget, PassesSound, Sound
  <2>2. ASSUME NEW j \in Jobs, JobStep(j) \/ Redeliver(j) PROVE Reopened
    BY <2>1, <2>2 DEF JobStep, Redeliver, TakeStart, ClaimStart, StartableTaskStatuses, TakeStepHold,
       TakeAdvance, Look, FinishFailedStep, Park, TaskWriteTarget, Open, Finish, FailStep,
       ReleaseStepAgents, AskForm, Dispatch, KeepWaiting, Superseded, Result, HandOff
  <2>3. ASSUME NEW s \in Steps PROVE ~CliEnd(s) /\ ~CliCheck(s) /\ ~CliResume(s)
    BY DEF CliEnd, CliCheck, CliResume
  <2>4. ~Boot /\ ~Undo
    BY DEF Boot, Undo, BootParked, BootRunning, BootDone, RecoverParked, RecoverParkedStep,
       RecoverRunning
  <2>5. ~Sweep
    BY DEF Sweep, SweepRedrive, SweepFailed, FinishFailedStep, SweepStart, SweepLostRun,
       RecoverParkedStep
  <2>6. ASSUME NEW s \in Steps, Submit(s) PROVE Reopened
    BY <2>0, <2>6 DEF Submit, Click
  <2>7. CASE Api
    <3>1. ASSUME NEW a, Click(a) PROVE clicks' # clicks
      BY <2>0, <3>1 DEF Click
    <3>2. CASE Start \/ Stop \/ CancelStops \/ RetryTask \/ AutoResume
      BY <3>1, <3>2, Zenon DEF Start, Stop, CancelStops, RetryTask, RestartFromStart, AutoResume
    <3>4. ~Cancel
      BY DEF Cancel
    <3>3. ASSUME NEW s \in Steps, RetryStep(s) \/ Skip(s) \/ RetryAi(s) PROVE Reopened
      BY <3>1, <3>3, Zenon DEF RetryStep, Skip, RetryAi
    <3> QED
      BY <2>6, <2>7, <3>2, <3>3, <3>4 DEF Api
  <2>8. ~Faults
    BY DEF Faults, Crash, LoseJob, Duplicate, Throw, OpenTaskStatuses, StartableTaskStatuses,
       LoseRun
  <2>9. ~UNCHANGED vars
    BY DEF vars
  <2>10. ~CancelJob
    BY DEF CancelJob, CancelEndsRows, CancelEndsRuns
  <2> QED
    BY <2>2, <2>3, <2>4, <2>5, <2>7, <2>8, <2>9, <2>10 DEF Next
<1>2. IInv /\ [Next]_vars =>
         [status = "failed" /\ status' \notin {"failed", "cancelled"} => Reopened]_vars
  BY <1>1
<1> QED
  BY AlwaysIInv, <1>2, PTL DEF Spec, FailedNeedsReopening

-----------------------------------------------------------------------------
(* The step rows and the agent runs: what a pass may rely on while it works, that
   a cancelled task stays idle, and that no agent outlives the work it was sent
   for. *)

(* While a pass works, its row may be stopped, reset or skipped under it, but
   only the pass itself ends it or parks it at a form. *)
WorkRows ==
    \A j \in Jobs :
        job[j].pc = "work" => row[job[j].s] \notin {"none", "done", "waiting_form"}

(* No job starts to work in this step. *)
NoNewWork ==
    \A i \in Jobs : job'[i].pc = "work" => job[i].pc = "work" /\ job'[i].s = job[i].s

(* A row that changes is set aside, or is put to work in a task not cancelled. *)
RowsAside ==
    \A s \in Steps :
        \/ row'[s] = row[s]
        \/ row'[s] \in {"pending", "skipped", "failed"}
        \/ row'[s] \in LiveStepStatuses /\ (status' = "cancelled" => row[s] \in ActiveStepStatuses)

(* Only a Cancel and its job change how far a Cancel has come, and only a crash
   cuts a pass short. *)
LEMMA CancelKept ==
  ASSUME \/ \E j \in Jobs : JobStep(j) \/ Redeliver(j)
         \/ \E s \in Steps : CliEnd(s) \/ CliCheck(s) \/ CliResume(s)
         \/ Boot \/ Undo \/ Sweep \/ Api \/ Faults
  PROVE  /\ Cancel \/ CancelStops \/ UNCHANGED cancel
         /\ Crash \/ UNCHANGED cut
<1> USE DEF envVars, endVars
<1>1. ASSUME NEW j \in Jobs, JobStep(j) \/ Redeliver(j) PROVE UNCHANGED endVars
  <2>1. CASE TakeStart(j) \/ ClaimStart(j) \/ TakeStepHold(j) \/ TakeAdvance(j) \/ Look(j) \/ Park(j)
    BY <2>1, Zenon DEF TakeStart, ClaimStart, TakeStepHold, TakeAdvance, Look, Park
  <2>2. CASE Claim(j) \/ Open(j) \/ Finish(j) \/ FailStep(j) \/ ReleaseStepAgents(j) \/ AskForm(j)
    BY <2>2, Zenon DEF Claim, Open, Finish, FailStep, ReleaseStepAgents, AskForm
  <2>3. CASE \/ Dispatch(j) \/ KeepWaiting(j) \/ Superseded(j) \/ Result(j) \/ HandOff(j)
             \/ Redeliver(j)
    BY <2>3, Zenon DEF Dispatch, KeepWaiting, Superseded, Result, HandOff, Redeliver
  <2> QED
    BY <1>1, <2>1, <2>2, <2>3 DEF JobStep
<1>2. ASSUME NEW s \in Steps, CliEnd(s) \/ CliCheck(s) \/ CliResume(s) PROVE UNCHANGED endVars
  BY <1>2, Zenon DEF CliEnd, CliCheck, CliResume
<1>3. CASE Boot \/ Undo
  BY <1>3, Zenon DEF Boot, Undo, BootParked, BootRunning, BootDone, RecoverParked,
     RecoverParkedStep, RecoverRunning
<1>4. CASE Sweep
  BY <1>4, Zenon DEF Sweep, SweepRedrive, SweepFailed, SweepStart, SweepLostRun, RecoverParkedStep
<1>5. CASE Api
  <2>1. CASE Start \/ Stop \/ RetryTask \/ AutoResume
    BY <2>1, Zenon DEF Start, Stop, RetryTask, RestartFromStart, AutoResume, MoveTaskToStep
  <2>2. ASSUME NEW s \in Steps, Submit(s) \/ RetryStep(s) \/ Skip(s) \/ RetryAi(s)
        PROVE  UNCHANGED endVars
    BY <2>2, Zenon DEF Submit, RetryStep, Skip, RetryAi, MoveTaskToStep
  <2>3. CASE Cancel \/ CancelStops
    BY <2>3, Zenon DEF Cancel, CancelStops
  <2> QED
    BY <1>5, <2>1, <2>2, <2>3 DEF Api
<1>6. CASE Faults
  <2>1. CASE Crash
    BY <2>1, Zenon DEF Crash
  <2>2. ASSUME NEW j \in Jobs, LoseJob(j) \/ Duplicate(j) \/ Throw(j) PROVE UNCHANGED endVars
    BY <2>2, Zenon DEF LoseJob, Duplicate, Throw
  <2>3. ASSUME NEW s \in Steps, LoseRun(s) PROVE UNCHANGED endVars
    BY <2>3, Zenon DEF LoseRun
  <2> QED
    BY <1>6, <2>1, <2>2, <2>3 DEF Faults
<1> QED
  BY <1>1, <1>2, <1>3, <1>4, <1>5, <1>6

(* Such a step, in a task it does not cancel, keeps both invariants. *)
LEMMA QuietRows ==
  ASSUME IInv, WorkRows, CancelledIdle, NoNewWork, RowsAside,
         status' = "cancelled" => status = "cancelled" /\ UNCHANGED cancel
  PROVE  WorkRows' /\ CancelledIdle'
<1>0. \A i \in Jobs : job[i].s \in Steps
  BY DEF IInv, TypeOK
<1>1. WorkRows'
  BY <1>0 DEF WorkRows, NoNewWork, RowsAside, LiveStepStatuses
<1>2. CancelledIdle'
  BY DEF CancelledIdle, RowsAside, Active, LiveStepStatuses, ActiveStepStatuses
<1> QED
  BY <1>1, <1>2

(* Replacing one job by one that does not work puts no job to work. *)
LEMMA OneJobIdle ==
  ASSUME IInv, NEW j \in Jobs, NEW b, job' = [job EXCEPT ![j] = b], b.pc # "work"
  PROVE  NoNewWork
  BY DEF IInv, TypeOK, NoNewWork

(* The same for a job that goes on to another stage. *)
LEMMA OneStageIdle ==
  ASSUME IInv, NEW j \in Jobs, NEW p \in Stages \ {"work"}, job' = [job EXCEPT ![j].pc = p]
  PROVE  NoNewWork
  BY DEF IInv, TypeOK, NoNewWork

(* And for one that goes on with a result. *)
LEMMA OneResultIdle ==
  ASSUME IInv, NEW j \in Jobs, NEW p \in Stages \ {"work"}, NEW r,
         job' = [job EXCEPT ![j].pc = p, ![j].res = r]
  PROVE  NoNewWork
  BY DEF IInv, TypeOK, NoNewWork

(* Neither does a dropped or a queued job. *)
LEMMA QueueIdle ==
  ASSUME IInv
  PROVE  /\ \A j \in Jobs : Drop(j) => NoNewWork
         /\ \A j \in Jobs : \A k, s, e : job' = [job EXCEPT ![j] = Queued(k, s, e)] => NoNewWork
         /\ \A k, s, e : Enqueue(k, s, e) => NoNewWork
         /\ UNCHANGED job => NoNewWork
<1>1. ASSUME NEW k, NEW s, NEW e PROVE Queued(k, s, e).pc # "work"
  BY DEF Queued
<1>2. NoJob.pc # "work"
  BY DEF NoJob
<1>3. UNCHANGED job => NoNewWork
  BY DEF NoNewWork
<1> QED
  BY <1>1, <1>2, <1>3, OneJobIdle DEF Drop, Enqueue, Free

(* A step of a job keeps both invariants.  Only Open puts a job to work, on a
   row it just opened; only Finish and AskForm leave a row that no longer works,
   and the hold guarantees that no other pass works on it. *)
LEMMA JobRows ==
  ASSUME IInv, WorkRows, CancelledIdle, NEW j \in Jobs, JobStep(j)
  PROVE  WorkRows' /\ CancelledIdle'
<1> USE DEF taskVars, rowVars, envVars
<1>0. /\ \A i \in Jobs : job[i].s \in Steps
      /\ job \in [Jobs -> JobRecords] /\ row \in [Steps -> RowStatuses] /\ OnePassPerStep
  BY DEF IInv, TypeOK, JobRecords
<1>00. UNCHANGED cancel
  BY DEF JobStep, endVars, TakeStart, ClaimStart, TakeStepHold, TakeAdvance, Look, Park, Claim, Open,
     Finish, FailStep, ReleaseStepAgents, AskForm, Dispatch, KeepWaiting, Superseded, Result, HandOff
<1>01. ASSUME UNCHANGED row PROVE RowsAside
  BY <1>01 DEF RowsAside
<1>1. CASE \/ TakeStart(j) \/ ClaimStart(j) \/ TakeStepHold(j) \/ TakeAdvance(j) \/ Look(j)
           \/ Claim(j) \/ ReleaseStepAgents(j) \/ Superseded(j) \/ HandOff(j)
  <2>1. RowsAside
    BY <1>01, <1>1 DEF TakeStart, ClaimStart, TakeStepHold, TakeAdvance, Look, Claim,
       ReleaseStepAgents, Superseded, HandOff
  <2>2. status' = "cancelled" => status = "cancelled"
    BY <1>1 DEF TakeStart, ClaimStart, TakeStepHold, TakeAdvance, Look, FinishFailedStep, Claim,
       ReleaseStepAgents, Superseded, HandOff
  <2>3. NoNewWork
    <3>1. CASE ClaimStart(j) \/ Superseded(j) \/ HandOff(j) \/ ReleaseStepAgents(j)
      BY <3>1, QueueIdle, OneStageIdle DEF ClaimStart, Superseded, HandOff, ReleaseStepAgents, Stages
    <3>2. CASE TakeStart(j) \/ TakeStepHold(j) \/ TakeAdvance(j) \/ Look(j) \/ Claim(j)
      BY <1>0, <3>2, QueueIdle DEF TakeStart, TakeStepHold, TakeAdvance, Look, Claim, NoNewWork,
         JobRecords
    <3> QED
      BY <1>1, <3>1, <3>2
  <2> QED
    BY <2>1, <2>2, <2>3, <1>00, QuietRows
<1>2. CASE Park(j)
  <2>1. RowsAside
    BY <1>0, <1>2 DEF Park, RowsAside
  <2>2. Drop(j) \/ job' = [job EXCEPT ![j] = Queued("advance", job[j].s, job[j].ce)]
    BY <1>2 DEF Park
  <2>3. status' = "cancelled" => status = "cancelled"
    BY <1>2 DEF Park
  <2> QED
    BY <2>1, <2>2, <1>00, <2>3, QueueIdle, QuietRows
<1>3. CASE Result(j)
  <2>1. RowsAside
    BY <1>0, <1>3 DEF Result, RowsAside, LiveStepStatuses, ActiveStepStatuses
  <2>2. NoNewWork
    BY <1>3, QueueIdle, OneStageIdle DEF Result, Stages
  <2>3. status' = "cancelled" => status = "cancelled"
    BY <1>3 DEF Result, FinishFailedStep
  <2> QED
    BY <2>1, <2>2, <2>3, <1>00, QuietRows
<1>4. CASE FailStep(j) \/ Dispatch(j) \/ KeepWaiting(j)
  <2>1. RowsAside
    BY <1>0, <1>4 DEF FailStep, Dispatch, KeepWaiting, EndPass, RowsAside, LiveStepStatuses,
       ActiveStepStatuses, RowStatuses, Owned, WorkRows
  <2>2. NoNewWork
    BY <1>4, OneResultIdle DEF FailStep, Dispatch, KeepWaiting, EndPass, Stages
  <2>3. status' = status
    BY <1>4 DEF FailStep, Dispatch, KeepWaiting
  <2> QED
    BY <2>1, <2>2, <2>3, <1>00, QuietRows
<1>5. CASE Finish(j) \/ AskForm(j)
  <2>1. /\ \A i \in Jobs : job'[i].pc = "work" => i # j /\ job'[i] = job[i]
        /\ \A s \in Steps : s # job[j].s => row'[s] = row[s]
        /\ status' = status /\ job[j].pc = "work" /\ row[job[j].s] \in ActiveStepStatuses
    BY <1>0, <1>5 DEF Finish, AskForm, EndPass, Owned, WorkRows, RowStatuses, ActiveStepStatuses,
       JobRecords
  <2>2. \A i \in Jobs : job[i].pc = "work" /\ i # j => job[i].s # job[j].s
    BY <1>0, <2>1 DEF OnePassPerStep, HoldingStages
  <2>3. WorkRows'
    BY <1>0, <2>1, <2>2 DEF WorkRows
  <2>4. CancelledIdle'
    BY <1>0, <1>00, <2>1 DEF CancelledIdle, Active
  <2> QED
    BY <2>3, <2>4
<1>6. CASE Open(j)
  <2>1. job[j].pc = "open" /\ status' = status
    BY <1>6 DEF Open
  <2>2. RowsAside
    BY <1>0, <1>6 DEF Open, RowsAside, LiveStepStatuses, ActiveStepStatuses, TaskWriteTarget,
       TerminalTaskStatuses
  <2>3. CASE NoNewWork
    BY <2>1, <2>2, <2>3, <1>00, QuietRows
  <2>4. CASE job' = [job EXCEPT ![j].pc = "work"] /\ row'[job[j].s] \in LiveStepStatuses
    <3>1. \A i \in Jobs : i # j => job'[i] = job[i]
      BY <1>0, <2>4
    <3>2. job'[j].s = job[j].s
      BY <1>0, <2>4 DEF JobRecords
    <3>3. WorkRows'
      BY <1>0, <2>2, <2>4, <3>1, <3>2 DEF WorkRows, RowsAside, LiveStepStatuses
    <3>4. CancelledIdle'
      BY <1>00, <2>1, <2>2 DEF CancelledIdle, RowsAside, Active, LiveStepStatuses, ActiveStepStatuses
    <3> QED
      BY <3>3, <3>4
  <2>5. \/ Drop(j)
        \/ \E r : job' = [job EXCEPT ![j].pc = "result", ![j].res = r]
        \/ job' = [job EXCEPT ![j].pc = "work"] /\ row'[job[j].s] \in LiveStepStatuses
    BY <1>0, <1>6 DEF Open, LiveStepStatuses
  <2> QED
    BY <2>3, <2>4, <2>5, QueueIdle, OneResultIdle DEF Stages
<1> QED
  BY <1>1, <1>2, <1>3, <1>4, <1>5, <1>6 DEF JobStep

(* Every other actor keeps them too: it puts no job to work, sets rows aside,
   and puts one to work only in a task that is not cancelled. *)
LEMMA OtherRows ==
  ASSUME IInv, WorkRows, CancelledIdle,
         \/ \E j \in Jobs : Redeliver(j)
         \/ \E s \in Steps : CliEnd(s) \/ CliCheck(s) \/ CliResume(s)
         \/ Boot \/ Undo \/ Sweep \/ Api \/ CancelJob \/ Faults
  PROVE  WorkRows' /\ CancelledIdle'
<1> USE DEF taskVars, rowVars, envVars, endVars
<1>0. /\ \A i \in Jobs : job[i].s \in Steps
      /\ job \in [Jobs -> JobRecords] /\ row \in [Steps -> RowStatuses]
      /\ cur # 0 => cur \in Steps
  BY NAssumption DEF IInv, TypeOK, JobRecords, Steps
<1> DEFINE Goal == WorkRows' /\ CancelledIdle'
<1>01. ASSUME UNCHANGED <<row, status>>, NoNewWork, UNCHANGED cancel PROVE Goal
  BY <1>01, QuietRows DEF RowsAside
<1>02. ASSUME NoNewWork, RowsAside, UNCHANGED cancel, status' = "cancelled" => status = "cancelled"
       PROVE  Goal
  BY <1>02, QuietRows
<1>1. ASSUME NEW j \in Jobs, Redeliver(j) PROVE Goal
  BY <1>01, <1>1, OneStageIdle DEF Redeliver, Stages
<1>2. ASSUME NEW s \in Steps, CliEnd(s) \/ CliCheck(s) \/ CliResume(s) \/ LoseRun(s) PROVE Goal
  BY <1>01, <1>2, QueueIdle DEF CliEnd, CliCheck, CliResume, LoseRun
<1>3. CASE BootParked \/ BootRunning \/ BootDone \/ Undo
  BY <1>01, <1>3, QueueIdle DEF BootParked, BootRunning, BootDone, Undo
<1>4. ASSUME NEW s, Redrive(s) PROVE NoNewWork
  BY <1>4, QueueIdle DEF Redrive
<1>5. ASSUME NEW s \in Steps, NEW e, NEW c, NEW rowNow, RecoverParkedStep(s, e, c, rowNow),
             rowNow = row[s] \/ (row[s] = "running" /\ rowNow = "waiting_cli")
      PROVE  Goal
  <2>1. RowsAside /\ status' = status /\ UNCHANGED cancel
    BY <1>0, <1>5 DEF RecoverParkedStep, RowsAside, LiveStepStatuses, ActiveStepStatuses
  <2>2. NoNewWork
    BY <1>4, <1>5, QueueIdle DEF RecoverParkedStep
  <2> QED
    BY <2>1, <2>2, <1>02
<1>6. ASSUME NEW s \in Steps, RecoverParked(s) PROVE Goal
  BY <1>5, <1>6 DEF RecoverParked
<1>7. ASSUME NEW s \in Steps, RecoverRunning(s) PROVE Goal
  <2>1. CASE RecoverParkedStep(s, worker.e, worker.c, "waiting_cli") /\ row[s] = "running"
    BY <1>5, <2>1
  <2>2. CASE UNCHANGED <<status, job, cancel>> /\ (UNCHANGED row \/ row' = [row EXCEPT ![s] = "pending"])
    BY <1>0, <2>2, QueueIdle, <1>02 DEF RowsAside
  <2>3. CASE UNCHANGED <<status, cancel>> /\ ResetStepAndDownstream(s, worker.e)
    <3>1. RowsAside
      BY <2>3 DEF ResetStepAndDownstream, ResetRows, RowsAside
    <3>2. NoNewWork
      BY <2>3, QueueIdle DEF ResetStepAndDownstream
    <3> QED
      BY <2>3, <3>1, <3>2, <1>02
  <2> QED
    BY <1>7, <2>1, <2>2, <2>3 DEF RecoverRunning
<1>8. CASE SweepRedrive \/ SweepStart
  BY <1>01, <1>4, <1>8, QueueIdle DEF SweepRedrive, SweepStart
<1>9. CASE SweepFailed
  BY <1>9, QueueIdle, <1>02 DEF SweepFailed, FinishFailedStep, RowsAside
<1>10. CASE SweepLostRun
  BY <1>0, <1>5, <1>10 DEF SweepLostRun
<1>11. CASE Cancel
  <2>1. PICK late \in SUBSET {s \in cancel.late : row[s] # "none"} :
          /\ row' = [s \in Steps |-> IF row[s] \in OpenStepStatuses /\ s \notin late
                                      THEN "failed" ELSE row[s]]
          /\ cancel' = [ph |-> "owed", late |-> late]
    BY <1>11 DEF Cancel
  <2>2. UNCHANGED job
    BY <1>11 DEF Cancel
  <2>3. WorkRows'
    BY <1>0, <2>1, <2>2 DEF WorkRows
  <2>4. CancelledIdle'
    BY <2>1 DEF CancelledIdle, Active, ActiveStepStatuses, OpenStepStatuses
  <2> QED
    BY <2>3, <2>4
<1>18. CASE CancelStops
  <2>1. RowsAside
    BY <1>0, <1>18 DEF CancelStops, SupersedeLiveRuns, RowsAside
  <2>2. NoNewWork
    BY <1>18, QueueIdle DEF CancelStops
  <2>3. status' # "cancelled"
    BY <1>18 DEF CancelStops, TerminalTaskStatuses
  <2> QED
    BY <2>1, <2>2, <2>3, QuietRows
<1>19. CASE CancelEndsRows
  <2>1. row' = [s \in Steps |-> IF row[s] \in OpenStepStatuses THEN "failed" ELSE row[s]]
    BY <1>19 DEF CancelEndsRows
  <2>2. UNCHANGED job
    BY <1>19 DEF CancelEndsRows
  <2>3. WorkRows'
    BY <1>0, <2>1, <2>2 DEF WorkRows
  <2>4. CancelledIdle'
    BY <2>1 DEF CancelledIdle, Active, ActiveStepStatuses, OpenStepStatuses
  <2> QED
    BY <2>3, <2>4
<1>20. CASE CancelEndsRuns
  <2>1. UNCHANGED <<row, status, job>>
    BY <1>20 DEF CancelEndsRuns
  <2>2. WorkRows'
    BY <2>1 DEF WorkRows
  <2>3. CancelledIdle'
    BY <1>20, <2>1 DEF CancelEndsRuns, CancelledIdle, Active
  <2> QED
    BY <2>2, <2>3
<1>12. CASE Start \/ Stop \/ RetryTask \/ AutoResume
  <2>1. RowsAside
    BY <1>0, <1>12 DEF Start, Stop, SupersedeLiveRuns, RetryTask, RestartFromStart, MoveTaskToStep, AutoResume, RowsAside, LiveStepStatuses
  <2>2. NoNewWork
    BY <1>12, QueueIdle DEF Start, Stop, RetryTask, RestartFromStart, MoveTaskToStep, AutoResume
  <2>3. UNCHANGED cancel /\ (status' = "cancelled" => status = "cancelled")
    BY <1>12 DEF Start, Stop, RetryTask, RestartFromStart, MoveTaskToStep, AutoResume
  <2> QED
    BY <2>1, <2>2, <2>3, <1>02
<1>13. ASSUME NEW s \in Steps, Submit(s) PROVE Goal
  BY <1>13, QueueIdle, <1>02 DEF Submit, RowsAside
<1>14. ASSUME NEW s \in Steps, RetryStep(s) \/ Skip(s) \/ RetryAi(s) PROVE Goal
  <2>1. status' = "running" /\ UNCHANGED cancel
    BY <1>14 DEF RetryStep, Skip, RetryAi, MoveTaskToStep
  <2>2. RowsAside
    BY <1>14, <2>1 DEF RetryStep, ResetRows, Skip, RetryAi, RowsAside, LiveStepStatuses
  <2>3. NoNewWork
    BY <1>14, QueueIdle DEF RetryStep, Skip, RetryAi, MoveTaskToStep
  <2> QED
    BY <2>1, <2>2, <2>3, <1>02
<1>15. CASE Crash
  <2>1. \A i \in Jobs : job'[i].pc # "work"
    BY <1>0, <1>15 DEF Crash, Queued, RunningStages, HoldingStages, JobRecords
  <2> QED
    BY <1>01, <1>15, <2>1 DEF Crash, NoNewWork
<1>16. ASSUME NEW j \in Jobs, LoseJob(j) \/ Duplicate(j) PROVE Goal
  BY <1>01, <1>16, QueueIdle DEF LoseJob, Duplicate
<1>17. ASSUME NEW j \in Jobs, Throw(j) PROVE Goal
  <2>1. Drop(j) \/ job' = [job EXCEPT ![j] = Queued(job[j].kind, job[j].s, job[j].e)]
    BY <1>17 DEF Throw, Drop
  <2>2. RowsAside
    BY <1>17 DEF Throw, RowsAside
  <2>3. UNCHANGED cancel /\ (status' = "cancelled" => status = "cancelled")
    BY <1>17 DEF Throw
  <2> QED
    BY <2>1, <2>2, <2>3, QueueIdle, <1>02
<1> QED
  BY <1>1, <1>2, <1>3, <1>6, <1>7, <1>8, <1>9, <1>10, <1>11, <1>12, <1>13, <1>14,
     <1>15, <1>16, <1>17, <1>18, <1>19, <1>20 DEF Boot, Sweep, Api, CancelJob, Faults

(* What the CANCEL job has still to end is a cancelled task's. *)
CancelEnded == cancel.ph \in {"owed", "rows", "ended"} => status = "cancelled"

(* Every step keeps it: a cancelled task stays cancelled. *)
LEMMA NextCancelEnded == ASSUME IInv, CancelEnded, [Next]_vars PROVE CancelEnded'
<1>1. CASE Cancel
  BY <1>1 DEF Cancel, CancelEnded
<1>2. CASE CancelStops
  BY <1>2 DEF CancelStops, CancelEnded
<1>3. CASE CancelJob
  <2>1. status = "cancelled"
    BY <1>3 DEF CancelJob, CancelEndsRows, CancelEndsRuns, CancelEnded
  <2> QED
    BY <2>1, EndedKept DEF CancelEnded, TerminalTaskStatuses
<1>4. CASE UNCHANGED cancel
  BY <1>4, EndedKept DEF CancelEnded, TerminalTaskStatuses
<1>5. CASE UNCHANGED vars
  BY <1>4, <1>5 DEF vars
<1> QED
  BY <1>1, <1>2, <1>3, <1>4, <1>5, CancelKept DEF Next

RowInv == IInv /\ WorkRows /\ CancelledIdle /\ CancelEnded

(* The rows start absent and keep the invariant with every step. *)
LEMMA AlwaysRowInv == Spec => []RowInv
<1>1. Init => RowInv
  BY InitIInv DEF Init, RowInv, WorkRows, CancelledIdle, CancelEnded, NoCancel, NoJob
<1>2. RowInv /\ [Next]_vars => RowInv'
  <2> SUFFICES ASSUME RowInv, [Next]_vars PROVE WorkRows' /\ CancelledIdle'
    BY NextIInv, NextCancelEnded DEF RowInv
  <2>1. CASE UNCHANGED vars
    BY <2>1 DEF vars, RowInv, WorkRows, CancelledIdle, Active
  <2> QED
    BY <2>1, JobRows, OtherRows DEF RowInv, Next
<1> QED
  BY <1>1, <1>2, PTL DEF Spec

(* A cancelled task stays idle, whatever was queued, running, parked or being
   recovered when it was cancelled. *)
THEOREM CancelledStaysIdle == Spec => []CancelledIdle
<1>1. RowInv => CancelledIdle
  BY DEF RowInv
<1> QED
  BY AlwaysRowInv, <1>1, PTL

-----------------------------------------------------------------------------
(* Where an open run may be found: its step works, has failed or was skipped
   since, and it works, its pass is ending the run, the CANCEL job will, or that
   pass died. *)
AgentsPlaced ==
    \A s \in Steps : run[s] \in OpenRun =>
        /\ row[s] \in LiveStepStatuses \cup {"failed", "skipped"}
        /\ \/ row[s] \in LiveStepStatuses
           \/ \E j \in Jobs : job[j].pc = "release" /\ job[j].s = s
           \/ status = "cancelled" /\ cancel.ph \in {"owed", "rows"}
           \/ s \in cut

(* No pass begins or stops to end agents in this step. *)
SameReleases ==
    \A i \in Jobs : /\ job[i].pc = "release" <=> job'[i].pc = "release"
                    /\ job[i].pc = "release" => job'[i].s = job[i].s

(* No run is opened, and a row whose run stays open stays as it is, is put to
   work, or was not at work and is failed or skipped. *)
RunsKept ==
    \A s \in Steps : run'[s] \in OpenRun =>
        /\ run[s] \in OpenRun
        /\ \/ row'[s] = row[s]
           \/ row'[s] \in LiveStepStatuses
           \/ row[s] \notin LiveStepStatuses /\ row'[s] \in {"failed", "skipped"}

(* What the CANCEL job and a dead pass leave stays as it is. *)
EndsKept ==
    /\ status = "cancelled" => status' = "cancelled" /\ UNCHANGED cancel
    /\ UNCHANGED cut

(* Every step but a Cancel, its job and a crash keeps that. *)
LEMMA MostKeepEnds ==
  ASSUME \/ \E j \in Jobs : JobStep(j) \/ Redeliver(j)
         \/ \E s \in Steps : CliEnd(s) \/ CliCheck(s) \/ CliResume(s)
         \/ Boot \/ Undo \/ Sweep \/ Api \/ Faults,
         ~Cancel, ~Crash
  PROVE  EndsKept
<1>1. UNCHANGED cut /\ (CancelStops \/ UNCHANGED cancel)
  BY CancelKept
<1>2. status = "cancelled" => status' = "cancelled" /\ ~CancelStops
  BY EndedKept DEF Next, TerminalTaskStatuses, CancelStops
<1> QED
  BY <1>1, <1>2 DEF EndsKept

(* Such a step keeps every run with its work. *)
LEMMA QuietRuns ==
  ASSUME AgentsPlaced, SameReleases, RunsKept, EndsKept
  PROVE  AgentsPlaced'
  BY DEF AgentsPlaced, SameReleases, RunsKept, EndsKept

(* Replacing a job that ends no agents by one that does not either. *)
LEMMA OneJobReleases ==
  ASSUME IInv, NEW j \in Jobs, job[j].pc # "release", NEW b, job' = [job EXCEPT ![j] = b],
         b.pc # "release"
  PROVE  SameReleases
  BY DEF IInv, TypeOK, SameReleases

(* The same for a job that goes on to another stage. *)
LEMMA OneStageReleases ==
  ASSUME IInv, NEW j \in Jobs, job[j].pc # "release", NEW p \in Stages \ {"release"},
         job' = [job EXCEPT ![j].pc = p]
  PROVE  SameReleases
  BY DEF IInv, TypeOK, SameReleases

(* And for one that goes on with a result. *)
LEMMA OneResultReleases ==
  ASSUME IInv, NEW j \in Jobs, job[j].pc # "release", NEW p \in Stages \ {"release"}, NEW r,
         job' = [job EXCEPT ![j].pc = p, ![j].res = r]
  PROVE  SameReleases
  BY DEF IInv, TypeOK, SameReleases

(* The same for a dropped and a queued job. *)
LEMMA QueueReleases ==
  ASSUME IInv
  PROVE  /\ \A j \in Jobs : job[j].pc # "release" /\ Drop(j) => SameReleases
         /\ \A j \in Jobs : \A k, s, e :
              job[j].pc # "release" /\ job' = [job EXCEPT ![j] = Queued(k, s, e)] => SameReleases
         /\ \A k, s, e : Enqueue(k, s, e) => SameReleases
         /\ UNCHANGED job => SameReleases
<1>1. ASSUME NEW k, NEW s, NEW e PROVE Queued(k, s, e).pc # "release"
  BY DEF Queued
<1>2. NoJob.pc # "release"
  BY DEF NoJob
<1>3. UNCHANGED job => SameReleases
  BY DEF SameReleases
<1> QED
  BY <1>1, <1>2, <1>3, OneJobReleases DEF Drop, Enqueue, Free

(* A step of a job keeps every run with its work. *)
LEMMA JobRuns ==
  ASSUME RowInv, AgentsPlaced, NEW j \in Jobs, JobStep(j), EndsKept
  PROVE  AgentsPlaced'
<1> USE DEF taskVars, rowVars, envVars
<1>0. /\ IInv /\ WorkRows /\ job[j].s \in Steps /\ job[j] \in JobRecords
      /\ job \in [Jobs -> JobRecords] /\ row \in [Steps -> RowStatuses]
      /\ run \in [Steps -> RunStates] /\ OnePassPerStep
  BY DEF RowInv, IInv, TypeOK, JobRecords
<1>01. ASSUME UNCHANGED <<row, run>> PROVE RunsKept
  BY <1>01 DEF RunsKept
(* A row that waits to be opened has no open run. *)
<1>02. row[job[j].s] \in {"none", "pending"} => run[job[j].s] \notin OpenRun
  BY <1>0 DEF AgentsPlaced, LiveStepStatuses
<1>1. CASE TakeStart(j) \/ TakeStepHold(j) \/ TakeAdvance(j) \/ Look(j) \/ Claim(j)
  <2>1. RunsKept
    BY <1>01, <1>1 DEF TakeStart, TakeStepHold, TakeAdvance, Look, Claim
  <2>2. SameReleases
    BY <1>0, <1>1, QueueReleases DEF TakeStart, TakeStepHold, TakeAdvance, Look, Claim,
       SameReleases, JobRecords
  <2> QED
    BY <1>0, <2>1, <2>2, QuietRuns
<1>2. CASE ClaimStart(j) \/ Superseded(j) \/ HandOff(j)
  <2>1. RunsKept
    BY <1>01, <1>2 DEF ClaimStart, Superseded, HandOff
  <2>2. SameReleases
    BY <1>0, <1>2, QueueReleases, OneStageReleases DEF ClaimStart, Superseded, HandOff, Stages
  <2> QED
    BY <1>0, <2>1, <2>2, QuietRuns
<1>3. CASE Park(j)
  <2>1. /\ Drop(j) \/ job' = [job EXCEPT ![j] = Queued("advance", job[j].s, job[j].ce)]
        /\ job[j].pc = "claim"
    BY <1>3 DEF Park
  <2>2. RunsKept
    BY <1>0, <1>02, <1>3 DEF Park, RunsKept
  <2> QED
    BY <1>0, <2>1, <2>2, QueueReleases, QuietRuns
<1>4. CASE Open(j)
  <2>1. RunsKept
    BY <1>0, <1>02, <1>4 DEF Open, RunsKept, LiveStepStatuses
  <2>2. \/ Drop(j)
        \/ \E r : job' = [job EXCEPT ![j].pc = "result", ![j].res = r]
        \/ job' = [job EXCEPT ![j].pc = "work"]
    BY <1>4 DEF Open
  <2>3. job[j].pc # "release"
    BY <1>4 DEF Open
  <2>4. SameReleases
    BY <1>0, <2>2, <2>3, QueueReleases, OneStageReleases, OneResultReleases DEF Stages
  <2> QED
    BY <1>0, <2>1, <2>4, QuietRuns
<1>5. CASE Finish(j) \/ AskForm(j) \/ KeepWaiting(j)
  <2>1. RunsKept
    BY <1>0, <1>5 DEF Finish, AskForm, KeepWaiting, EndPass, RunsKept
  <2>2. SameReleases
    BY <1>0, <1>5, OneResultReleases DEF Finish, AskForm, KeepWaiting, EndPass, Stages
  <2> QED
    BY <1>0, <2>1, <2>2, QuietRuns
<1>6. CASE Result(j)
  <2>1. RunsKept
    BY <1>0, <1>6 DEF Result, RunsKept, LiveStepStatuses
  <2>2. SameReleases
    BY <1>0, <1>6, QueueReleases, OneStageReleases DEF Result, Stages
  <2> QED
    BY <1>0, <2>1, <2>2, QuietRuns
<1>8. CASE Dispatch(j)
  <2>1. row'[job[j].s] \in LiveStepStatuses /\ job[j].pc = "work"
    BY <1>0, <1>8 DEF Dispatch, EndPass, Owned, WorkRows, RowStatuses, LiveStepStatuses
  <2>2. SameReleases
    BY <1>0, <1>8, OneResultReleases DEF Dispatch, EndPass, Stages
  <2>3. \A s \in Steps : s # job[j].s => row'[s] = row[s] /\ run'[s] = run[s]
    BY <1>0, <1>8 DEF Dispatch, EndPass
  <2> QED
    BY <1>0, <2>1, <2>2, <2>3 DEF AgentsPlaced, SameReleases, EndsKept
<1>9. CASE FailStep(j)
  <2>1. /\ job[j].pc = "work" /\ row' = [row EXCEPT ![job[j].s] = "failed"] /\ run' = run
        /\ job' = [job EXCEPT ![j].pc = IF run[job[j].s] \in OpenRun THEN "release" ELSE "result",
                              ![j].res = "failed"]
    BY <1>9 DEF FailStep
  <2>2. /\ \A i \in Jobs : i # j => job'[i] = job[i]
        /\ job'[j].s = job[j].s
        /\ run[job[j].s] \in OpenRun => job'[j].pc = "release"
    BY <1>0, <2>1 DEF JobRecords
  <2> QED
    BY <1>0, <2>1, <2>2 DEF AgentsPlaced, EndsKept
<1>10. CASE ReleaseStepAgents(j)
  <2>1. /\ job[j].pc = "release" /\ row' = row
        /\ run' = [run EXCEPT ![job[j].s] =
                     IF row[job[j].s] # "pending" /\ run[job[j].s] \in OpenRun
                     THEN "none" ELSE run[job[j].s]]
        /\ job' = [job EXCEPT ![j].pc = "result"]
    BY <1>10 DEF ReleaseStepAgents
  <2>2. run'[job[j].s] \notin OpenRun
    BY <1>0, <1>02, <2>1 DEF OpenRun
  <2>3. /\ \A i \in Jobs : i # j => job'[i] = job[i]
        /\ job'[j].pc = "result"
        /\ \A s \in Steps : s # job[j].s => run'[s] = run[s]
    BY <1>0, <2>1 DEF JobRecords
  <2> QED
    BY <1>0, <2>1, <2>2, <2>3 DEF AgentsPlaced, EndsKept
<1> QED
  BY <1>1, <1>2, <1>3, <1>4, <1>5, <1>6, <1>8, <1>9, <1>10 DEF JobStep

(* So does every other actor but a Cancel, its job and a crash: whatever resets,
   stops, skips or recovers a step closes its runs in the same transaction. *)
LEMMA OtherRuns ==
  ASSUME RowInv, AgentsPlaced, EndsKept,
         \/ \E j \in Jobs : Redeliver(j)
         \/ \E s \in Steps : CliEnd(s) \/ CliCheck(s) \/ CliResume(s)
         \/ Boot \/ Undo \/ Sweep \/ Api \/ Faults
  PROVE  AgentsPlaced' \/ Cancel \/ Crash
<1> USE DEF taskVars, rowVars, envVars
<1>0. /\ IInv /\ \A i \in Jobs : job[i].s \in Steps
      /\ job \in [Jobs -> JobRecords] /\ row \in [Steps -> RowStatuses]
      /\ run \in [Steps -> RunStates] /\ (cur # 0 => cur \in Steps)
  <2>1. IInv /\ TypeOK /\ cur \in 0..N
    BY DEF RowInv, IInv, TypeOK
  <2>2. cur # 0 => cur \in Steps
    BY <2>1, NAssumption DEF Steps
  <2> QED
    BY <2>1, <2>2 DEF TypeOK, JobRecords
<1> DEFINE Goal == AgentsPlaced'
<1>01. ASSUME UNCHANGED <<row, run>>, SameReleases PROVE Goal
  BY <1>0, <1>01, QuietRuns DEF RunsKept
<1>02. ASSUME NEW s, Redrive(s) PROVE SameReleases
  BY <1>0, <1>02, QueueReleases DEF Redrive
<1>1. ASSUME NEW j \in Jobs, Redeliver(j) PROVE Goal
  <2>1. SameReleases
    BY <1>0, <1>1, OneStageReleases DEF Redeliver, Stages
  <2> QED
    BY <1>01, <1>1, <2>1 DEF Redeliver
<1>2. ASSUME NEW s \in Steps, CliEnd(s) \/ CliCheck(s) \/ LoseRun(s) PROVE Goal
  <2>1. RunsKept
    BY <1>0, <1>2 DEF CliEnd, CliCheck, LoseRun, RunsKept, OpenRun
  <2>2. SameReleases
    BY <1>0, <1>2, QueueReleases DEF CliEnd, CliCheck, LoseRun
  <2> QED
    BY <1>0, <2>1, <2>2, QuietRuns
<1>3. ASSUME NEW s \in Steps, CliResume(s) PROVE Goal
  <2>1. SameReleases
    BY <1>0, <1>3, QueueReleases DEF CliResume
  <2> QED
    BY <1>01, <1>3, <2>1 DEF CliResume
<1>4. CASE BootParked \/ BootRunning \/ BootDone \/ Undo \/ SweepFailed
  BY <1>0, <1>01, <1>4, QueueReleases DEF BootParked, BootRunning, BootDone, Undo, SweepFailed
<1>5. ASSUME NEW s \in Steps, NEW e, NEW c, NEW rowNow, RecoverParkedStep(s, e, c, rowNow),
             rowNow = row[s] \/ rowNow = "waiting_cli"
      PROVE  Goal
  <2>1. RunsKept
    BY <1>0, <1>5 DEF RecoverParkedStep, RunsKept, OpenRun, LiveStepStatuses
  <2>2. SameReleases
    BY <1>0, <1>02, <1>5, QueueReleases DEF RecoverParkedStep
  <2> QED
    BY <1>0, <2>1, <2>2, QuietRuns
<1>6. ASSUME NEW s \in Steps, RecoverParked(s) PROVE Goal
  BY <1>5, <1>6 DEF RecoverParked
<1>7. ASSUME NEW s \in Steps, RecoverRunning(s) PROVE Goal
  <2>1. CASE RecoverParkedStep(s, worker.e, worker.c, "waiting_cli")
    BY <1>5, <2>1
  <2>2. CASE /\ UNCHANGED job
             /\ \/ UNCHANGED <<row, run>>
                \/ /\ row' = [row EXCEPT ![s] = "pending"]
                   /\ run' = [run EXCEPT ![s] = IF run[s] \in OpenRun THEN "none" ELSE run[s]]
    BY <1>0, <2>2, QueueReleases, QuietRuns DEF RunsKept, OpenRun
  <2>3. CASE ResetStepAndDownstream(s, worker.e)
    <3>1. RunsKept
      BY <2>3 DEF ResetStepAndDownstream, ResetRows, RunsKept, OpenRun
    <3>2. SameReleases
      BY <1>0, <2>3, QueueReleases DEF ResetStepAndDownstream
    <3> QED
      BY <1>0, <3>1, <3>2, QuietRuns
  <2> QED
    BY <1>7, <2>1, <2>2, <2>3 DEF RecoverRunning
<1>8. CASE SweepRedrive \/ SweepStart
  BY <1>0, <1>01, <1>02, <1>8, QueueReleases DEF SweepRedrive, SweepStart
<1>9. CASE SweepLostRun
  BY <1>0, <1>5, <1>9 DEF SweepLostRun
<1>10. CASE Start \/ Stop \/ CancelStops \/ RetryTask \/ AutoResume
  <2>1. CASE AutoResume
    <3>1. /\ row' = [row EXCEPT ![cur] = "running"] /\ cur \in Steps
          /\ \E r : run' = [run EXCEPT ![cur] = r] /\ r \in {run[cur], "none"}
      BY <1>0, <2>1 DEF AutoResume
    <3>2. RunsKept
      BY <1>0, <3>1 DEF RunsKept, OpenRun, LiveStepStatuses
    <3>3. SameReleases
      BY <1>0, <2>1, QueueReleases DEF AutoResume
    <3> QED
      BY <3>2, <3>3, QuietRuns
  <2>2. CASE Start \/ Stop \/ CancelStops \/ RetryTask
    <3>1. RunsKept
      BY <1>0, <2>2 DEF Start, Stop, CancelStops, SupersedeLiveRuns, RetryTask, RestartFromStart, RunsKept, OpenRun
    <3>2. SameReleases
      BY <1>0, <2>2, QueueReleases DEF Start, Stop, CancelStops, RetryTask, RestartFromStart, MoveTaskToStep
    <3> QED
      BY <3>1, <3>2, QuietRuns
  <2> QED
    BY <1>10, <2>1, <2>2
<1>11. ASSUME NEW s \in Steps, Submit(s) PROVE Goal
  BY <1>0, <1>01, <1>11, QueueReleases DEF Submit
<1>12. ASSUME NEW s \in Steps, RetryStep(s) \/ Skip(s) \/ RetryAi(s) PROVE Goal
  <2>1. RunsKept
    BY <1>0, <1>12 DEF RetryStep, ResetRows, Skip, RetryAi, RunsKept, OpenRun, LiveStepStatuses
  <2>2. SameReleases
    BY <1>0, <1>12, QueueReleases DEF RetryStep, Skip, RetryAi, MoveTaskToStep
  <2> QED
    BY <1>0, <2>1, <2>2, QuietRuns
<1>14. ASSUME NEW j \in Jobs, LoseJob(j) \/ Duplicate(j) PROVE Goal
  BY <1>0, <1>01, <1>14, QueueReleases DEF LoseJob, Duplicate
<1>15. ASSUME NEW j \in Jobs, Throw(j) PROVE Goal
  <2>1. Drop(j) \/ job' = [job EXCEPT ![j] = Queued(job[j].kind, job[j].s, job[j].e)]
    BY <1>15 DEF Throw, Drop
  <2>2. job[j].pc # "release" /\ UNCHANGED <<row, run>>
    BY <1>15 DEF Throw
  <2> QED
    BY <1>0, <1>01, <2>1, <2>2, QueueReleases
<1> QED
  BY <1>1, <1>2, <1>3, <1>4, <1>6, <1>7, <1>8, <1>9, <1>10, <1>11, <1>12,
     <1>14, <1>15 DEF Boot, Sweep, Api, Faults

(* A Cancel leaves the runs sent since its stop to its job, which ends them. *)
LEMMA CancelRuns ==
  ASSUME RowInv, AgentsPlaced, Cancel \/ CancelJob
  PROVE  AgentsPlaced'
<1>1. CASE Cancel
  <2>1. /\ \A s \in Steps : row'[s] \in {row[s], "failed"}
        /\ UNCHANGED run /\ status' = "cancelled" /\ cancel'.ph = "owed"
    BY <1>1 DEF Cancel
  <2> QED
    BY <2>1 DEF AgentsPlaced
<1>2. CASE CancelEndsRows
  <2>1. /\ \A s \in Steps : row'[s] \in {row[s], "failed"}
        /\ UNCHANGED run /\ status' = status /\ cancel.ph = "owed"
    BY <1>2 DEF CancelEndsRows, taskVars
  <2>2. cancel'.ph = "rows" /\ status = "cancelled"
    BY <1>2 DEF CancelEndsRows, RowInv, IInv, TypeOK, CancelEnded
  <2> QED
    BY <2>1, <2>2 DEF AgentsPlaced
<1>3. CASE CancelEndsRuns
  <2>1. \A s \in Steps : run'[s] \notin OpenRun
    BY <1>3 DEF CancelEndsRuns, OpenRun
  <2> QED
    BY <2>1 DEF AgentsPlaced
<1> QED
  BY <1>1, <1>2, <1>3 DEF CancelJob

(* A crash ends no agent: the runs whose pass was ending them are in cut. *)
LEMMA CrashRuns ==
  ASSUME RowInv, AgentsPlaced, Crash
  PROVE  AgentsPlaced'
<1>1. \A s \in Steps : run'[s] \in OpenRun => run[s] \in OpenRun
  BY DEF Crash, OpenRun
<1>2. UNCHANGED <<row, status, cancel>>
  BY DEF Crash, taskVars
<1>3. /\ cut \subseteq cut'
      /\ \A s \in Steps : (\E j \in Jobs : job[j].pc = "release" /\ job[j].s = s) => s \in cut'
  BY DEF Crash
<1> QED
  BY <1>1, <1>2, <1>3 DEF AgentsPlaced

(* No agent outlives the work it was sent for, through crashes, stops, resets,
   skips, recoveries and cancels: an open run's step is at work, or the pass that
   failed it is ending the run, or the CANCEL job is about to, or that pass died. *)
THEOREM AgentsOnlyForWork == Spec => []AgentsBelongToWork
<1>1. Init => AgentsPlaced
  BY DEF Init, AgentsPlaced, OpenRun
<1>2. RowInv /\ AgentsPlaced /\ [Next]_vars => AgentsPlaced'
  <2> SUFFICES ASSUME RowInv, AgentsPlaced, [Next]_vars PROVE AgentsPlaced'
    OBVIOUS
  <2>1. CASE UNCHANGED vars
    BY <2>1 DEF vars, AgentsPlaced
  <2>2. CASE Cancel \/ CancelJob \/ Crash
    BY <2>2, CancelRuns, CrashRuns
  <2>3. CASE Next /\ ~Cancel /\ ~CancelJob /\ ~Crash
    <3>1. EndsKept
      BY <2>3, MostKeepEnds DEF Next
    <3> QED
      BY <2>3, <3>1, JobRuns, OtherRuns DEF Next
  <2> QED
    BY <2>1, <2>2, <2>3
<1>3. AgentsPlaced => AgentsBelongToWork
  BY DEF AgentsPlaced, AgentsBelongToWork
<1> QED
  BY AlwaysRowInv, <1>1, <1>2, <1>3, PTL DEF Spec

-----------------------------------------------------------------------------
(* Before the first step: nothing but START is at work. *)

(* A slot that holds at most a START that has not claimed the task. *)
StartJob(j) ==
    job[j].pc = "free" \/ (job[j].kind = "start" /\ job[j].pc \in {"wait", "orphan", "start"})

(* No step has a row, a run or a resumption. *)
NothingBegun == \A s \in Steps : row[s] = "none" /\ run[s] = "none" /\ s \notin resuming

(* Until START has claimed the task and taken the hold of its first step, nothing else
   is queued or at work, and no row is there. *)
StartsAlone ==
    /\ status \in StartableTaskStatuses => cur = 0
    /\ cur = 0 => NothingBegun /\ \A j \in Jobs : StartJob(j)
    /\ \A j \in Jobs : job[j].pc = "hold" =>
          job[j].kind = "start" /\ NothingBegun /\ \A i \in Jobs \ {j} : StartJob(i)
    /\ \A s \in worker.todo : row[s] # "none"

(* START has claimed the task and taken its hold. *)
Begun == cur # 0 /\ \A j \in Jobs : job[j].pc # "hold"

(* A step that leaves the beginning as it is. *)
LEMMA BeginningStays ==
    ASSUME StartsAlone, NothingBegun', cur' = cur, worker'.todo = {},
           status' \in StartableTaskStatuses => status \in StartableTaskStatuses,
           \A i \in Jobs : job'[i] = job[i] \/ StartJob(i)'
    PROVE  StartsAlone'
<1>1. (cur = 0)' => \A j \in Jobs : StartJob(j)'
  BY DEF StartsAlone, StartJob
<1>2. ASSUME NEW j \in Jobs, job'[j].pc = "hold", NEW i \in Jobs \ {j} PROVE StartJob(i)'
  BY <1>2 DEF StartsAlone, StartJob
<1>3. ASSUME NEW j \in Jobs, job'[j].pc = "hold" PROVE job'[j].kind = "start"
  BY <1>3 DEF StartsAlone, StartJob
<1> QED
  BY <1>1, <1>2, <1>3 DEF StartsAlone

(* A step that leaves it behind, or comes after it. *)
LEMMA BegunIsFine ==
    ASSUME StartsAlone, Begun', status' \notin StartableTaskStatuses,
           \A s \in worker'.todo : row'[s] # "none"
    PROVE  StartsAlone'
  BY DEF StartsAlone, Begun

(* The beginning: only START, the queue and the worker's own life go on. *)
LEMMA EarlySteps ==
    ASSUME IInv, StartsAlone, ~Begun, Next, "retry_task" \notin UserActions, ~AutoResume
    PROVE  StartsAlone'
<1> USE DEF taskVars, rowVars, envVars
<1>0. /\ NothingBegun /\ worker.todo = {} /\ job \in [Jobs -> JobRecords] /\ 1 \in Steps
      /\ (cur # 0 => cur \in Steps) /\ status \in Statuses
  <2>1. NothingBegun /\ cur \in 0..N /\ job \in [Jobs -> JobRecords] /\ worker.todo \subseteq Steps
        /\ status \in Statuses
    BY DEF StartsAlone, Begun, IInv, TypeOK, JobRecords
  <2>2. worker.todo = {}
    BY <2>1 DEF StartsAlone, NothingBegun
  <2> QED
    BY <2>1, <2>2, NAssumption DEF Steps
<1>01. ASSUME NEW i \in Jobs PROVE StartJob(i) \/ (job[i].pc = "hold" /\ job[i].kind = "start")
  BY DEF StartsAlone, Begun
<1>02. Active = {} /\ LiveRows = {}
  BY <1>0 DEF NothingBegun, Active, LiveRows, ActiveStepStatuses, LiveStepStatuses
<1>03. ASSUME UNCHANGED <<row, run>>, resuming' \subseteq resuming, cur' = cur, worker'.todo = {},
              status' \in StartableTaskStatuses => status \in StartableTaskStatuses,
              \A i \in Jobs : job'[i] = job[i] \/ StartJob(i)'
       PROVE  StartsAlone'
  BY <1>0, <1>03, BeginningStays DEF NothingBegun
<1>04. ASSUME NEW i \in Jobs, job' = [job EXCEPT ![i] = NoJob]
             PROVE \A k \in Jobs : job'[k] = job[k] \/ StartJob(k)'
  BY <1>0, <1>04 DEF StartJob, NoJob
<1>05. ASSUME NEW e, NEW i \in Jobs, job' = [job EXCEPT ![i] = Queued("start", 1, e)]
       PROVE \A k \in Jobs : job'[k] = job[k] \/ StartJob(k)'
  BY <1>0, <1>05 DEF StartJob, Queued
<1>1. ASSUME NEW j \in Jobs, JobStep(j) PROVE StartsAlone'
  <2>1. CASE TakeStart(j)
    <3>1. \A i \in Jobs : job'[i] = job[i] \/ StartJob(i)'
      BY <1>0, <2>1 DEF TakeStart, StartJob, JobRecords
    <3> QED
      BY <1>0, <1>03, <2>1, <3>1 DEF TakeStart
  <2>2. CASE ClaimStart(j)
    <3>1. CASE status \in StartableTaskStatuses /\ epoch = job[j].ce
      <4>1. cur = 0 /\ cur' = 1 /\ status' = "running" /\ UNCHANGED <<row, run, resuming, worker>>
        BY <2>2, <3>1 DEF ClaimStart, StartsAlone
      <4>2. \A i \in Jobs : StartJob(i)
        BY <4>1 DEF StartsAlone
      <4>3. CASE job' = [job EXCEPT ![j].pc = "hold"]
        <5>1. /\ job'[j].pc = "hold" /\ job'[j].kind = "start" /\ \A i \in Jobs : i # j => job'[i] = job[i]
          BY <1>0, <2>2, <4>2, <4>3 DEF ClaimStart, StartJob, JobRecords
        <5>2. NothingBegun' /\ worker'.todo = {}
          BY <1>0, <4>1 DEF NothingBegun
        <5> QED
          BY <4>1, <4>2, <5>1, <5>2 DEF StartsAlone, StartJob, StartableTaskStatuses
      <4>4. CASE job' = [job EXCEPT ![j] = Queued("advance", 1, job[j].ce)]
        <5>1. \A i \in Jobs : job'[i].pc # "hold"
          BY <1>0, <4>2, <4>4 DEF StartJob, Queued
        <5> QED
          BY <1>0, <4>1, <5>1, BegunIsFine DEF Begun, StartableTaskStatuses
      <4> QED
        BY <2>2, <3>1, <4>3, <4>4 DEF ClaimStart
    <3>2. CASE ~(status \in StartableTaskStatuses /\ epoch = job[j].ce)
      BY <1>0, <1>03, <1>04, <2>2, <3>2 DEF ClaimStart, Drop
    <3> QED
      BY <3>1, <3>2
  <2>3. CASE TakeStepHold(j)
    <3>1. job[j].pc = "hold" /\ UNCHANGED <<status, cur, row, worker>>
          /\ job' = [job EXCEPT ![j].pc = "open", ![j].s = 1]
      BY <2>3 DEF TakeStepHold
    <3>2. cur # 0
      BY <3>1 DEF StartsAlone, StartJob
    <3>3. \A i \in Jobs : job'[i].pc # "hold"
      <4>1. \A i \in Jobs : i # j => job'[i] = job[i] /\ StartJob(i)
        BY <1>0, <3>1 DEF StartsAlone
      <4> QED
        BY <1>0, <3>1, <4>1 DEF StartJob, JobRecords
    <3> QED
      BY <1>0, <3>1, <3>2, <3>3, BegunIsFine DEF Begun, StartsAlone
  <2>4. CASE ~(TakeStart(j) \/ ClaimStart(j) \/ TakeStepHold(j))
    BY <1>01, <1>1, <2>4 DEF JobStep, StartJob, TakeAdvance, Look, Park, Claim, Open, Finish,
       FailStep,
       ReleaseStepAgents, AskForm, Dispatch, KeepWaiting, Superseded, Result, HandOff
  <2> QED
    BY <2>1, <2>2, <2>3, <2>4
<1>2. ASSUME NEW j \in Jobs, Redeliver(j) PROVE StartsAlone'
  <2>1. \A i \in Jobs : job'[i] = job[i] \/ StartJob(i)'
    BY <1>0, <1>01, <1>2 DEF Redeliver, StartJob, JobRecords
  <2> QED
    BY <1>0, <1>03, <1>2, <2>1 DEF Redeliver
<1>3. ASSUME NEW s \in Steps PROVE ~(CliEnd(s) \/ CliCheck(s) \/ CliResume(s) \/ LoseRun(s))
  BY <1>0 DEF NothingBegun, CliEnd, CliCheck, CliResume, LoseRun
<1>4. CASE Boot
  <2>1. BootParked \/ BootRunning \/ BootDone
    BY <1>0, <1>4 DEF Boot, RecoverParked, RecoverRunning
  <2>2. worker'.todo = {} /\ UNCHANGED <<status, cur, row, run, resuming, job>>
    BY <1>0, <2>1 DEF BootParked, BootRunning, BootDone, ReadOrphans, NothingBegun, Up
  <2> QED
    BY <1>03, <2>2
<1>5. CASE Undo
  BY <1>0, <1>03, <1>5 DEF Undo
<1>6. CASE Sweep
  <2>1. ~SweepRedrive
    <3> SUFFICES ASSUME SweepRedrive PROVE FALSE
      OBVIOUS
    <3>1. PICK j \in Jobs : job[j].pc = "hold"
      BY DEF SweepRedrive, Begun
    <3>2. ~Held(1)
      BY <1>01 DEF Held, StartJob, HoldingStages
    <3> QED
      BY <3>1, <3>2 DEF SweepRedrive, StartMoving
  <2>2. ~SweepFailed /\ ~SweepLostRun
    BY <1>0 DEF SweepFailed, SweepLostRun, NothingBegun
  <2>3. SweepStart
    BY <1>6, <2>1, <2>2 DEF Sweep
  <2>4. PICK i \in Jobs : job' = [job EXCEPT ![i] = Queued("start", 1, NoEpoch)]
    BY <2>3 DEF SweepStart, Enqueue, Free
  <2> QED
    BY <1>0, <1>03, <1>05, <2>3, <2>4 DEF SweepStart
<1>7. CASE Api
  <2>1. CASE Start
    <3>1. PICK i \in Jobs : job' = [job EXCEPT ![i] = Queued("start", 1, NoEpoch)]
      BY <2>1 DEF Start, Enqueue, Free
    <3> QED
      BY <1>0, <1>03, <1>05, <2>1, <3>1 DEF Start, StartableTaskStatuses
  <2>2. CASE Cancel
    <3>1. /\ UNCHANGED <<cur, resuming, worker, job>> /\ status' = "cancelled"
          /\ NothingBegun'
      BY <1>0, <2>2 DEF Cancel, NothingBegun, OpenStepStatuses, ActiveStepStatuses
    <3> QED
      BY <1>0, <3>1, BeginningStays DEF StartableTaskStatuses
  <2>5. CASE CancelStops
    <3>1. UNCHANGED <<status, cur, resuming, worker, job>> /\ NothingBegun'
      BY <1>0, <1>02, <2>5 DEF CancelStops, SupersedeLiveRuns, NothingBegun, OpenRun
    <3> QED
      BY <1>0, <3>1, BeginningStays
  <2>3. ~Stop /\ ~RetryTask
    BY <1>0, <1>02 DEF Stop, RetryTask, Click, NothingBegun, OpenRun
  <2>4. ASSUME NEW s \in Steps PROVE ~(Submit(s) \/ RetryStep(s) \/ Skip(s) \/ RetryAi(s))
    BY <1>0 DEF NothingBegun, Submit, RetryStep, Skip, RetryAi
  <2> QED
    BY <1>7, <2>1, <2>2, <2>3, <2>4, <2>5 DEF Api
<1>8. CASE Faults
  <2>1. CASE Crash
    <3>1. UNCHANGED <<status, cur, row>> /\ worker' = Down /\ resuming' = {}
      BY <2>1 DEF Crash
    <3>2. \A s \in Steps : run'[s] = "none"
      BY <1>0, <2>1 DEF Crash, NothingBegun
    <3>3. \A i \in Jobs : job'[i] = job[i] \/ StartJob(i)'
      <4>1. ASSUME NEW i \in Jobs, job[i].pc \in RunningStages PROVE StartJob(i)'
        <5>1. job'[i] = [Queued(job[i].kind, job[i].s, job[i].e) EXCEPT !.pc = "orphan"]
          BY <2>1, <4>1 DEF Crash
        <5>2. job'[i].pc = "orphan" /\ job'[i].kind = job[i].kind
          BY <5>1 DEF Queued
        <5> QED
          BY <1>01, <4>1, <5>2 DEF StartJob, RunningStages, HoldingStages
      <4> QED
        BY <2>1, <4>1 DEF Crash
    <3> QED
      BY <1>0, <3>1, <3>2, <3>3, BeginningStays DEF NothingBegun, Down, Up
  <2>2. ASSUME NEW j \in Jobs, LoseJob(j) PROVE StartsAlone'
    BY <1>0, <1>03, <1>04, <2>2 DEF LoseJob, Drop
  <2>3. ASSUME NEW j \in Jobs, Duplicate(j) PROVE StartsAlone'
    <3>1. job[j].kind = "start"
      BY <1>01, <2>3 DEF Duplicate, StartJob, RunningStages, HoldingStages
    <3>2. PICK i \in Jobs : job' = [job EXCEPT ![i] = Queued("start", job[j].s, job[j].e)]
      BY <2>3, <3>1 DEF Duplicate, Enqueue, Free
    <3>3. \A k \in Jobs : job'[k] = job[k] \/ StartJob(k)'
      BY <1>0, <3>2 DEF StartJob, Queued
    <3> QED
      BY <1>0, <1>03, <2>3, <3>3 DEF Duplicate
  <2>4. ASSUME NEW j \in Jobs, Throw(j) PROVE StartsAlone'
    <3>1. job[j].kind = "start" /\ UNCHANGED <<cur, row, run, resuming, worker>>
          /\ (status' \in StartableTaskStatuses => status \in StartableTaskStatuses)
      BY <1>01, <2>4 DEF Throw, StartJob, RunningStages, HoldingStages, StartableTaskStatuses
    <3>2. \/ job' = [job EXCEPT ![j] = NoJob]
          \/ job' = [job EXCEPT ![j] = Queued("start", job[j].s, job[j].e)]
      BY <2>4, <3>1 DEF Throw
    <3>3. \A k \in Jobs : job'[k] = job[k] \/ StartJob(k)'
      BY <1>0, <3>2 DEF StartJob, Queued, NoJob
    <3> QED
      BY <1>0, <1>03, <3>1, <3>3
  <2> QED
    BY <1>3, <1>8, <2>1, <2>2, <2>3, <2>4 DEF Faults
<1>9. CASE CancelJob
  <2>1. UNCHANGED <<status, cur, resuming, worker, job>> /\ NothingBegun'
    BY <1>0, <1>9 DEF CancelJob, CancelEndsRows, CancelEndsRuns, NothingBegun, OpenStepStatuses,
       ActiveStepStatuses, OpenRun
  <2> QED
    BY <1>0, <2>1, BeginningStays
<1> QED
  BY <1>1, <1>2, <1>3, <1>4, <1>5, <1>6, <1>7, <1>8, <1>9 DEF Next

(* Later steps do not come back to it. *)
LEMMA LaterSteps ==
    ASSUME IInv, StartsAlone, Begun, Next, "retry_task" \notin UserActions
    PROVE  StartsAlone'
<1> USE DEF taskVars, rowVars, envVars
<1>0. /\ status \notin StartableTaskStatuses /\ cur # 0 /\ \A j \in Jobs : job[j].pc # "hold"
      /\ job \in [Jobs -> JobRecords] /\ 0 \notin Steps /\ \A j \in Jobs : job[j].s \in Steps
  BY DEF StartsAlone, Begun, IInv, TypeOK, JobRecords, Steps
<1>00. worker \in [ph : {"up", "down", "parked", "running"}, e : Nat, c : 0..N, todo : SUBSET Steps]
       /\ row \in [Steps -> RowStatuses] /\ (cur # 0 => cur \in Steps)
       /\ \A s \in worker.todo : s \in Steps /\ row[s] # "none"
  <2>1. /\ worker \in [ph : {"up", "down", "parked", "running"}, e : Nat, c : 0..N, todo : SUBSET Steps]
        /\ row \in [Steps -> RowStatuses] /\ cur \in 0..N
    BY DEF IInv, TypeOK
  <2> QED
    BY <2>1, NAssumption DEF StartsAlone, Steps
<1> DEFINE Goal == /\ cur' # 0 /\ status' \notin StartableTaskStatuses
                   /\ \A i \in Jobs : job'[i].pc # "hold"
                   /\ \A s \in worker'.todo : row'[s] # "none"
<1>01. ASSUME Goal PROVE StartsAlone'
  BY <1>01, BegunIsFine DEF Begun
<1>02. ASSUME NEW i \in Jobs, job' = [job EXCEPT ![i] = NoJob]
             PROVE \A k \in Jobs : job'[k].pc # "hold"
  BY <1>0, <1>02 DEF NoJob
<1>03. ASSUME NEW k, NEW s, NEW e, Enqueue(k, s, e) PROVE \A i \in Jobs : job'[i].pc # "hold"
  BY <1>0, <1>03 DEF Enqueue, Free, Queued
<1>04. ASSUME worker' = worker, \A s \in Steps : row'[s] = "none" => row[s] = "none"
       PROVE  \A s \in worker'.todo : row'[s] # "none"
  BY <1>00, <1>04
<1>1. ASSUME NEW j \in Jobs, JobStep(j) PROVE Goal
  <2>1. CASE TakeStart(j) \/ ClaimStart(j) \/ TakeStepHold(j) \/ TakeAdvance(j) \/ Look(j)
    <3>1. UNCHANGED <<cur, row, worker>> /\ status' \notin StartableTaskStatuses
      BY <1>0, <2>1 DEF TakeStart, ClaimStart, TakeStepHold, TakeAdvance, Look, FinishFailedStep,
         StartableTaskStatuses
    <3>2. \A i \in Jobs : job'[i].pc # "hold"
      BY <1>0, <1>02, <2>1 DEF TakeStart, ClaimStart, TakeStepHold, TakeAdvance, Look, Drop,
         JobRecords
    <3> QED
      BY <1>0, <1>04, <3>1, <3>2
  <2>2. CASE Park(j) \/ Claim(j) \/ Open(j)
    <3>1. cur' # 0 /\ worker' = worker /\ status' \notin StartableTaskStatuses
      BY <1>0, <2>2 DEF Park, Claim, Open, StartableTaskStatuses
    <3>2. \A s \in Steps : row'[s] = "none" => row[s] = "none"
      BY <1>0, <1>00, <2>2 DEF Park, Claim, Open
    <3>3. \/ Drop(j)
          \/ job' = [job EXCEPT ![j] = Queued("advance", job[j].s, job[j].ce)]
          \/ \E c : job' = [job EXCEPT ![j].pc = "open", ![j].cs = c]
          \/ \E r : job' = [job EXCEPT ![j].pc = "result", ![j].res = r]
          \/ job' = [job EXCEPT ![j].pc = "work"]
      BY <2>2 DEF Park, Claim, Open
    <3>4. \A i \in Jobs : job'[i].pc # "hold"
      BY <1>0, <1>02, <3>3 DEF Drop, JobRecords, Queued
    <3> QED
      BY <1>04, <3>1, <3>2, <3>4
  <2>3. CASE Finish(j) \/ FailStep(j) \/ ReleaseStepAgents(j) \/ AskForm(j) \/ Dispatch(j)
             \/ KeepWaiting(j) \/ Superseded(j)
    <3>1. UNCHANGED <<status, cur, worker>>
      BY <2>3 DEF Finish, FailStep, ReleaseStepAgents, AskForm, Dispatch, KeepWaiting, Superseded
    <3>2. \A s \in Steps : row'[s] = "none" => row[s] = "none"
      BY <1>0, <1>00, <2>3 DEF Finish, FailStep, ReleaseStepAgents, AskForm, Dispatch, KeepWaiting,
         Superseded, EndPass, Owned
    <3>3. \A i \in Jobs : job'[i].pc # "hold"
      BY <1>0, <1>02, <2>3 DEF Finish, FailStep, ReleaseStepAgents, AskForm, Dispatch, KeepWaiting,
         Superseded, EndPass, Drop, JobRecords
    <3> QED
      BY <1>0, <1>04, <3>1, <3>2, <3>3
  <2>4. CASE Result(j) \/ HandOff(j)
    <3>1. cur' # 0 /\ worker' = worker /\ status' \notin StartableTaskStatuses
      BY <1>0, <2>4 DEF Result, HandOff, FinishFailedStep, StartableTaskStatuses
    <3>2. \A s \in Steps : row'[s] = "none" => row[s] = "none"
      BY <1>0, <1>00, <2>4 DEF Result, HandOff
    <3>3. \/ Drop(j)
          \/ job' = [job EXCEPT ![j] = Queued("advance", Successor(job[j].s), job[j].ce)]
          \/ job' = [job EXCEPT ![j].pc = "next"]
      BY <2>4 DEF Result, HandOff
    <3>4. \A i \in Jobs : job'[i].pc # "hold"
      BY <1>0, <1>02, <3>3 DEF Drop, JobRecords, Queued
    <3> QED
      BY <1>04, <3>1, <3>2, <3>4
  <2> QED
    BY <1>1, <2>1, <2>2, <2>3, <2>4 DEF JobStep
<1>2. ASSUME NEW j \in Jobs, Redeliver(j) \/ LoseJob(j) \/ Duplicate(j) \/ Throw(j) PROVE Goal
  <2>1. UNCHANGED <<cur, row, worker>> /\ status' \notin StartableTaskStatuses
    BY <1>0, <1>2 DEF Redeliver, LoseJob, Duplicate, Throw, StartableTaskStatuses
  <2>2. \A i \in Jobs : job'[i].pc # "hold"
    BY <1>0, <1>02, <1>03, <1>2
       DEF Redeliver, LoseJob, Duplicate, Throw, Drop, Queued, NoJob, JobRecords
  <2> QED
    BY <1>0, <1>04, <2>1, <2>2
<1>3. ASSUME NEW s \in Steps, CliEnd(s) \/ CliCheck(s) \/ CliResume(s) \/ LoseRun(s) PROVE Goal
  BY <1>0, <1>03, <1>04, <1>3 DEF CliEnd, CliCheck, CliResume, LoseRun
<1>4. CASE Crash
  <2>1. UNCHANGED <<status, cur>> /\ worker'.todo = {}
    BY <1>4 DEF Crash, Down, Up
  <2>2. \A i \in Jobs : job'[i].pc # "hold"
    BY <1>0, <1>4 DEF Crash, Queued
  <2> QED
    BY <1>0, <1>01, <2>1, <2>2
<1>5. CASE BootParked \/ BootRunning \/ BootDone
  <2>1. UNCHANGED <<status, cur, row, job>>
    BY <1>5 DEF BootParked, BootRunning, BootDone
  <2>2. \A s \in worker'.todo : row[s] # "none"
    BY <1>5 DEF BootParked, BootRunning, BootDone, ReadOrphans, Up
  <2> QED
    BY <1>0, <1>01, <2>1, <2>2
<1>6. ASSUME NEW s \in Steps, NEW e, NEW c, NEW rowNow, RecoverParkedStep(s, e, c, rowNow),
             rowNow = row[s] \/ rowNow = "waiting_cli"
      PROVE  /\ UNCHANGED <<status, cur>> /\ \A i \in Jobs : job'[i].pc # "hold"
             /\ \A t \in Steps : row'[t] = "none" => row[t] = "none"
  BY <1>0, <1>00, <1>03, <1>6 DEF RecoverParkedStep, Redrive
<1>7. ASSUME NEW s \in Steps, RecoverParked(s) \/ RecoverRunning(s) PROVE Goal
  <2>1. worker'.todo \subseteq worker.todo
    BY <1>00, <1>7 DEF RecoverParked, RecoverRunning
  <2>2. /\ UNCHANGED <<status, cur>> /\ \A i \in Jobs : job'[i].pc # "hold"
        /\ \A t \in Steps : row'[t] = "none" => row[t] = "none"
    BY <1>0, <1>00, <1>03, <1>6, <1>7
       DEF RecoverParked, RecoverRunning, ResetStepAndDownstream, ResetRows
  <2> QED
    BY <1>0, <1>00, <2>1, <2>2
<1>8. CASE Undo \/ SweepRedrive \/ SweepFailed \/ SweepStart
  <2>1. UNCHANGED <<cur, row, worker>> /\ status' \notin StartableTaskStatuses
    BY <1>0, <1>8 DEF Undo, SweepRedrive, SweepFailed, SweepStart, FinishFailedStep,
       StartableTaskStatuses
  <2>2. \A i \in Jobs : job'[i].pc # "hold"
    BY <1>0, <1>03, <1>8 DEF Undo, SweepRedrive, SweepFailed, SweepStart, Redrive
  <2> QED
    BY <1>0, <1>01, <1>04, <2>1, <2>2
<1>9. CASE SweepLostRun
  BY <1>0, <1>00, <1>01, <1>04, <1>6, <1>9 DEF SweepLostRun
<1>10. CASE Start \/ RetryTask
  BY <1>0, <1>10 DEF Start, RetryTask, Click, StartableTaskStatuses
<1>11. CASE Stop \/ CancelStops \/ Cancel \/ CancelJob \/ AutoResume
  <2>1. UNCHANGED <<cur, worker>> /\ status' \notin StartableTaskStatuses
    BY <1>0, <1>11 DEF Stop, CancelStops, Cancel, CancelJob, CancelEndsRows, CancelEndsRuns,
       AutoResume, StartableTaskStatuses
  <2>2. \A s \in Steps : row'[s] = "none" => row[s] = "none"
    BY <1>00, <1>11 DEF Stop, SupersedeLiveRuns, CancelStops, Cancel, CancelJob, CancelEndsRows,
       CancelEndsRuns, AutoResume
  <2>3. \A i \in Jobs : job'[i].pc # "hold"
    BY <1>0, <1>03, <1>11 DEF Stop, CancelStops, Cancel, CancelJob, CancelEndsRows,
       CancelEndsRuns, AutoResume
  <2> QED
    BY <1>0, <1>01, <1>04, <2>1, <2>2, <2>3
<1>12. ASSUME NEW s \in Steps, Submit(s) PROVE Goal
  <2>1. UNCHANGED <<cur, row, worker>> /\ status' \notin StartableTaskStatuses
    BY <1>0, <1>12 DEF Submit, StartableTaskStatuses
  <2>2. \A i \in Jobs : job'[i].pc # "hold"
    BY <1>03, <1>12 DEF Submit
  <2> QED
    BY <1>0, <1>04, <2>1, <2>2
<1>13. ASSUME NEW s \in Steps, RetryStep(s) \/ Skip(s) \/ RetryAi(s) PROVE Goal
  <2>1. cur' = s /\ worker' = worker /\ status' \notin StartableTaskStatuses
    BY <1>13 DEF RetryStep, Skip, RetryAi, MoveTaskToStep, StartableTaskStatuses
  <2>2. \A t \in Steps : row'[t] = "none" => row[t] = "none"
    BY <1>13 DEF RetryStep, Skip, RetryAi, ResetRows
  <2>3. \A i \in Jobs : job'[i].pc # "hold"
    BY <1>03, <1>13 DEF RetryStep, Skip, RetryAi, MoveTaskToStep
  <2> QED
    BY <1>0, <1>04, <2>1, <2>2, <2>3
<1> QED
  BY <1>01, <1>1, <1>2, <1>3, <1>4, <1>5, <1>7, <1>8, <1>9, <1>10, <1>11, <1>12, <1>13
     DEF Next, Boot, Sweep, Api, Faults

-----------------------------------------------------------------------------
(* The steps run in order: StepsInOrder, where every restart begins an epoch of its own or
   meets no pass of the one it goes on in. *)

(* The rows that count as ended, and a task that has ended. *)
EndedRow == {"done", "skipped"}
Ended == status \in TerminalTaskStatuses

(* The steps that may be opened: all before it, from where the task was last started
   or restarted, have ended. *)
Ready == {s \in Steps : s >= aim /\ \A t \in Steps : aim <= t /\ t < s => row[t] \in EndedRow}

(* The stamps of a job: no job and no pass is ahead of the task, a pass is not behind
   the job it runs, and an advance carries a stamp. *)
Stamped(j) ==
    /\ job[j].ce <= epoch /\ job[j].e <= epoch
    /\ job[j].kind = "start" => job[j].s = 1
    /\ job[j].pc \in {"start", "hold"} => job[j].kind = "start"
    /\ job[j].pc \in RunningStages => job[j].e <= job[j].ce /\ job[j].ce # NoEpoch
    /\ job[j].kind = "advance" /\ job[j].pc # "free" => job[j].e # NoEpoch

(* Before START nothing but START is queued, no pass runs while the worker is down or
   recovering, and an answer is for a step that may be opened. *)
Placed(j) ==
    /\ cur = 0 => job[j].pc = "free" \/ (job[j].kind = "start"
       /\ job[j].pc \in {"wait", "orphan", "start"})
    /\ worker.ph # "up" => job[j].pc \notin RunningStages
    /\ job[j].kind = "answer" => job[j].s \in Ready /\ "submit" \in UserActions

(* A pass of the task's own epoch is on a step that may be opened, and what it hands
   off has ended. *)
PassReady(j) ==
    ~Ended /\ job[j].ce = epoch =>
        /\ job[j].pc \in HoldingStages \cup {"hold"} => job[j].s \in Ready
        /\ job[j].pc \in {"release", "result"}
           /\ job[j].res \in EndedRow => row[job[j].s] \in EndedRow
        /\ job[j].pc = "next" => Successor(job[j].s) \in Ready

(* A task restarted from START keeps its old pointer until START claims it: no advance
   of the new epoch is queued for the step it points at. *)
NotComing(j) ==
    cur # 0 /\ ~Ended /\ cur \notin Ready =>
        ~(/\ job[j].pc \in {"wait", "orphan"} /\ job[j].kind = "advance"
          /\ job[j].s = cur /\ job[j].e >= epoch)

(* What holds of every slot of the queue. *)
JobFits(j) == Stamped(j) /\ Placed(j) /\ PassReady(j) /\ NotComing(j)
JobsFit == \A j \in Jobs : JobFits(j)

(* Runs belong to rows, and before START there are none. *)
RunsFit ==
    /\ \A s \in Steps : row[s] = "none" => run[s] = "none" /\ s \notin resuming
    /\ cur = 0 => \A s \in Steps : row[s] = "none"

(* What boot has read holds as long as its epoch does. *)
WorkerFits ==
    /\ worker.e <= epoch
    /\ worker.ph \in {"up", "down"} => worker.todo = {}
    /\ worker.todo # {} /\ worker.e = epoch =>
         /\ ~Ended /\ cur # 0 /\ cur = worker.c /\ cur \in Ready
         /\ \A s \in worker.todo : row[s] \notin EndedRow

(* Every active step may be opened. *)
ActiveReady == Active \subseteq Ready

(* The pointer is on a step that may be opened, except on a task restarted from START, or
   failed, that still carries its old pointer: nothing runs there, and neither an answer nor
   the usage poller can bring it back. *)
CurReady ==
    /\ status \in StartableTaskStatuses => aim = 1
    /\ cur # 0 /\ ~Ended /\ cur \notin Ready =>
         /\ status \in StartableTaskStatuses \cup {"failed"}
         /\ run[cur] = "none" /\ cur \notin resuming
         /\ UserActions \cap {"submit", "auto_resume"} = {}

(* What holds of the task beside the queue. *)
TaskFits == undo = NoEpoch /\ RunsFit /\ WorkerFits /\ ActiveReady /\ CurReady
/\ CompletedMeansAllDone

(* The inductive invariant behind StepsInOrder. *)
OInv == IInv /\ WorkRows /\ JobsFit /\ TaskFits

(* Every restart begins an epoch of its own, so that a pass of before it is stale: no bump
   is taken back, an answer, which carries no epoch, does not meet a restart, and a row the
   usage poller reopens in the epoch it failed in does not meet a START that comes late. *)
EpochFenced ==
    /\ "undo" \notin FaultKinds
    /\ "submit" \in UserActions =>
         UserActions \cap {"retry", "retry_task", "skip", "retry_ai", "auto_resume"} = {}
    /\ ~({"retry_task", "auto_resume"} \subseteq UserActions)

(* A pass of the task's own epoch that has not handed off is on the step the task points
   at; a failure it reports is its row's; and none goes on while a failed task waits for
   its provider. *)
AtCur(j) ==
    job[j].ce = epoch /\ job[j].pc \in (HoldingStages \ {"next"}) \cup {"hold"} =>
        /\ job[j].s = cur
        /\ job[j].pc \in {"release", "result"} /\ job[j].res = "failed" => row[job[j].s] = "failed"
        /\ watch => job[j].pc = "look"

(* What a resumption by the usage poller finds: the task failed at a failed row, and boot
   has nothing to recover. *)
ResumeFits ==
    /\ \A j \in Jobs : AtCur(j)
    /\ watch => status = "failed" /\ cur # 0 /\ row[cur] = "failed"
    /\ worker.todo # {} /\ worker.e = epoch => ~watch

-----------------------------------------------------------------------------
(* Nothing that ended is reopened. *)
Grows == aim' = aim /\ \A t \in Steps : row[t] \in EndedRow => row'[t] \in EndedRow

(* A step within an epoch. *)
Steady ==
    /\ epoch' = epoch
    /\ Grows
    /\ Ended => Ended'
    /\ cur' = cur \/ cur' \in Ready'

(* Within an epoch a step that may be opened stays so. *)
LEMMA ReadyGrows == ASSUME IInv, Grows PROVE Ready \subseteq Ready'
  BY DEF Ready, Grows

(* A job that such a step leaves alone keeps its part of the invariant. *)
LEMMA KeptSteady ==
    ASSUME IInv, IInv', JobsFit, Steady, NEW j \in Jobs, job'[j] = job[j],
           worker'.ph # "up" => worker.ph # "up" \/ job[j].pc \notin RunningStages
    PROVE  JobFits(j)'
<1>0. JobFits(j) /\ epoch' = epoch /\ Ready \subseteq Ready' /\ 0 \notin Steps
  BY ReadyGrows DEF JobsFit, Steady, Steps
<1>1. Stamped(j)'
  BY <1>0 DEF JobFits, Stamped
<1>2. Placed(j)'
  BY <1>0 DEF JobFits, Placed, Steady, Ready
<1>3. PassReady(j)'
  BY <1>0 DEF JobFits, PassReady, Steady, Grows, IInv, TypeOK, Successor
<1>4. NotComing(j)'
  BY <1>0 DEF JobFits, NotComing, Steady
<1> QED
  BY <1>1, <1>2, <1>3, <1>4 DEF JobFits

(* The same when a new epoch begins: no old job is of it. *)
LEMMA KeptBump ==
    ASSUME IInv, IInv', JobsFit, epoch' = epoch + 1, cur' = 0 => cur = 0,
           worker'.ph # "up" => worker.ph # "up",
           NEW j \in Jobs, job'[j] = job[j],
           job[j].kind = "answer" => job[j].s \in Ready'
    PROVE  JobFits(j)'
<1>0. /\ JobFits(j) /\ epoch \in Nat
      /\ job[j].ce \in Nat \cup {NoEpoch} /\ job[j].e \in Nat \cup {NoEpoch}
  BY DEF JobsFit, IInv, TypeOK
<1> USE DEF NoEpoch
<1>1. Stamped(j)'
  BY <1>0 DEF JobFits, Stamped
<1>2. Placed(j)'
  BY <1>0 DEF JobFits, Placed
<1>3. PassReady(j)'
  BY <1>0 DEF JobFits, PassReady, Stamped
<1>4. NotComing(j)'
  BY <1>0 DEF JobFits, NotComing, Stamped
<1> QED
  BY <1>1, <1>2, <1>3, <1>4 DEF JobFits

(* A free slot, and a queued job. *)
LEMMA FreeFits == ASSUME IInv', NEW j \in Jobs, job'[j] = NoJob PROVE JobFits(j)'
  BY DEF IInv, TypeOK, JobFits, Stamped, Placed, PassReady, NotComing, NoJob, NoEpoch,
     RunningStages, HoldingStages

(* A queued advance: where it is for the pointer, the pointer may be opened. *)
LEMMA AdvanceFits ==
    ASSUME IInv', NEW j \in Jobs, NEW s \in Steps, NEW e \in Nat,
           job'[j] = Queued("advance", s, e), e <= epoch', cur' # 0,
           e = epoch' /\ s = cur' => Ended' \/ cur' \in Ready'
    PROVE  JobFits(j)'
  BY DEF IInv, TypeOK, JobFits, Stamped, Placed, PassReady, NotComing, Queued, NoEpoch,
     RunningStages, HoldingStages

(* A queued START. *)
LEMMA StartFits ==
    ASSUME IInv', NEW j \in Jobs, job'[j] = Queued("start", 1, NoEpoch) PROVE JobFits(j)'
  BY DEF IInv, TypeOK, JobFits, Stamped, Placed, PassReady, NotComing, Queued, NoEpoch,
     RunningStages, HoldingStages

(* A queued answer to a form of a step that may be opened. *)
LEMMA AnswerFits ==
    ASSUME IInv', NEW j \in Jobs, NEW s \in Ready', "submit" \in UserActions, cur' # 0,
           job'[j] = Queued("answer", s, NoEpoch)
    PROVE  JobFits(j)'
  BY DEF IInv, TypeOK, JobFits, Stamped, Placed, PassReady, NotComing, Queued, NoEpoch,
     RunningStages, HoldingStages

-----------------------------------------------------------------------------
(* One job changes in a step of the same epoch. *)
LEMMA OneJobFits ==
    ASSUME IInv, IInv', JobsFit, Steady, worker'.ph # "up" => worker.ph # "up", NEW j \in Jobs,
           \A i \in Jobs : i # j => job'[i] = job[i], JobFits(j)'
    PROVE  JobsFit'
<1> SUFFICES ASSUME NEW i \in Jobs PROVE JobFits(i)'
  BY DEF JobsFit
<1>1. CASE i = j
  BY <1>1
<1>2. CASE i # j
  BY <1>2, KeptSteady
<1> QED
  BY <1>1, <1>2

(* The task in such a step. *)
LEMMA TaskSteady ==
    ASSUME IInv, IInv', TaskFits, Steady, undo' = undo, RunsFit', WorkerFits',
           \A s \in Active' : s \in Active \/ s \in Ready',
           status' \in StartableTaskStatuses => status \in StartableTaskStatuses,
           status' \in {status, "failed"} \cup StartableTaskStatuses \/ Ended' \/ cur' \in Ready',
           cur # 0 /\ cur \notin Ready /\ run[cur] = "none" /\ cur \notin resuming =>
              run'[cur] = "none" /\ cur \notin resuming',
           status' = "completed" => status = "completed" \/ CompletedMeansAllDone'
    PROVE  TaskFits'
<1>0. Ready \subseteq Ready' /\ aim' = aim /\ 0 \notin Steps
  BY ReadyGrows DEF Steady, Grows, Steps
<1>1. ActiveReady'
  BY <1>0 DEF TaskFits, ActiveReady
<1>2. CurReady'
  BY <1>0 DEF TaskFits, CurReady, Steady
<1>3. CompletedMeansAllDone'
  <2>1. CASE status = "completed"
    <3>1. \A s \in aim..N : s \in Steps /\ row[s] \in EndedRow
      BY <2>1 DEF TaskFits, CompletedMeansAllDone, EndedRow, IInv, TypeOK, Steps
    <3> QED
      BY <1>0, <3>1 DEF CompletedMeansAllDone, EndedRow, Steady, Grows
  <2>2. CASE status # "completed"
    BY <2>2 DEF CompletedMeansAllDone
  <2> QED
    BY <2>1, <2>2
<1> QED
  BY <1>1, <1>2, <1>3 DEF TaskFits

(* A running pass finds the worker up, with no recovery under way. *)
LEMMA PassUp ==
    ASSUME OInv, NEW j \in Jobs, job[j].pc \in RunningStages
    PROVE  /\ worker.ph = "up" /\ worker.todo = {}
           /\ job[j].pc # "start" => cur # 0
  BY DEF OInv, JobsFit, JobFits, Placed, TaskFits, WorkerFits, RunningStages, HoldingStages

(* What a job's step does to the rows: one that ended stays, one that becomes active is
   of a step that may be opened, and a run is only sent from an active row. *)
RowsMove ==
    /\ \A s \in Steps : \/ row'[s] = row[s]
                        \/ /\ row[s] \notin EndedRow /\ row'[s] # "none"
                           /\ row'[s] \in ActiveStepStatuses =>
                                 row[s] \in ActiveStepStatuses \/ s \in Ready'
    /\ \A s \in Steps : run'[s] \in {run[s], "none"} \/ row[s] \in ActiveStepStatuses
    /\ cur = 0 => row' = row

(* Such a step reopens nothing. *)
LEMMA MoveGrows == ASSUME RowsMove, aim' = aim PROVE Grows
  BY DEF RowsMove, Grows

(* A step of one job within its epoch keeps the invariant of the task. *)
LEMMA PassKeeps ==
    ASSUME OInv, IInv', NEW j \in Jobs, worker.ph = "up",
           UNCHANGED <<epoch, aim, worker, undo, resuming>>,
           \A i \in Jobs : i # j => job'[i] = job[i], JobFits(j)', RowsMove,
           Ended => Ended', cur' = cur \/ cur' \in Ready',
           status' \in StartableTaskStatuses => status \in StartableTaskStatuses,
           status' \in {status, "failed"} \/ Ended' \/ cur' \in Ready',
           status' = "completed" => status = "completed" \/ CompletedMeansAllDone'
    PROVE  JobsFit' /\ TaskFits'
<1>0. IInv /\ JobsFit /\ TaskFits /\ ActiveReady
  BY DEF OInv, TaskFits
<1>1. Steady
  BY MoveGrows DEF Steady
<1>2. JobsFit'
  BY <1>0, <1>1, OneJobFits
<1>3. 0 \notin Steps /\ (cur # 0 => cur \in Steps) /\ (cur' = 0 => cur = 0)
  BY <1>0 DEF Steps, Ready, IInv, TypeOK
<1>4. RunsFit'
  BY <1>0, <1>3 DEF TaskFits, RunsFit, RowsMove, ActiveStepStatuses
<1>5. WorkerFits'
  BY <1>0 DEF TaskFits, WorkerFits
<1>6. \A s \in Active' : s \in Active \/ s \in Ready'
  BY DEF Active, RowsMove
<1>7. cur # 0 /\ cur \notin Ready => run'[cur] \in {run[cur], "none"}
  BY <1>0, <1>3 DEF RowsMove, ActiveReady, Active
<1> QED
  BY <1>0, <1>1, <1>2, <1>4, <1>5, <1>6, <1>7, TaskSteady

(* A pass goes on to another stage. *)
LEMMA StageFits ==
    ASSUME OInv, IInv', NEW j \in Jobs,
           job[j].pc \in HoldingStages \/ (job[j].pc = "hold" /\ job'[j].pc = "open"),
           job'[j].pc \in HoldingStages,
           job'[j].s = job[j].s, job'[j].kind = job[j].kind,
           job'[j].e = job[j].e, job'[j].ce = job[j].ce,
           epoch' = epoch, worker' = worker, Grows, Ended => Ended', cur' = cur \/ cur' \in Ready',
           job'[j].pc \in {"release", "result"} /\ job'[j].res \in EndedRow /\ ~Ended'
           /\ job[j].ce = epoch
              => row'[job[j].s] \in EndedRow,
           job'[j].pc = "next" /\ ~Ended' /\ job[j].ce = epoch => Successor(job[j].s) \in Ready'
    PROVE  JobFits(j)'
<1>0. /\ JobFits(j) /\ IInv /\ Ready \subseteq Ready' /\ 0 \notin Steps
      /\ job[j].pc \in RunningStages /\ job'[j].pc \in RunningStages
      /\ cur # 0 /\ worker.ph = "up"
  BY ReadyGrows, PassUp DEF OInv, JobsFit, Steps, RunningStages, HoldingStages
<1>1. cur' # 0 /\ worker'.ph = "up"
  BY <1>0 DEF Ready
<1>2. Stamped(j)'
  BY <1>0 DEF JobFits, Stamped, HoldingStages
<1>3. Placed(j)'
  BY <1>0, <1>1 DEF JobFits, Placed
<1>4. PassReady(j)'
  BY <1>0 DEF JobFits, PassReady, HoldingStages, Successor
<1>5. NotComing(j)'
  BY <1>0 DEF NotComing, RunningStages, HoldingStages
<1> QED
  BY <1>2, <1>3, <1>4, <1>5 DEF JobFits

(* START and the guards of an advance. *)
LEMMA PickupOrder ==
    ASSUME OInv, IInv', NEW j \in Jobs,
           \/ TakeStart(j) \/ ClaimStart(j) \/ TakeStepHold(j)
           \/ TakeAdvance(j) \/ Look(j)
    PROVE  JobsFit' /\ TaskFits'
<1> USE DEF taskVars, rowVars, envVars
<1>0. /\ IInv /\ JobFits(j) /\ TaskFits /\ job \in [Jobs -> JobRecords] /\ epoch \in Nat
      /\ 1 \in Steps /\ 0 \notin Steps /\ cur \in 0..N /\ status \in Statuses
  <2>1. IInv /\ JobFits(j) /\ TaskFits
    BY DEF OInv, JobsFit
  <2>2. 1 \in Steps /\ 0 \notin Steps
    BY NAssumption DEF Steps
  <2> QED
    BY <2>1, <2>2 DEF IInv, TypeOK, JobRecords
<1>1. ASSUME UNCHANGED <<row, run>> PROVE RowsMove
  BY <1>1 DEF RowsMove
<1>2. CASE TakeStart(j)
  <2>1. /\ \A i \in Jobs : i # j => job'[i] = job[i]
        /\ job'[j].pc = "start" /\ job'[j].kind = "start" /\ job'[j].s = job[j].s
        /\ job'[j].e = job[j].e /\ job'[j].ce = epoch
    BY <1>0, <1>2 DEF TakeStart, JobRecords
  <2>2. JobFits(j)'
    BY <1>0, <1>2, <2>1 DEF TakeStart, JobFits, Stamped, Placed, PassReady, NotComing,
       HoldingStages,
       RunningStages, NoEpoch
  <2> QED
    BY <1>1, <1>2, <2>1, <2>2, PassKeeps DEF TakeStart, Ended
<1>3. CASE ClaimStart(j)
  <2>0. job[j].pc = "start" /\ job[j].kind = "start" /\ job[j].s = 1 /\ worker.ph = "up"
    BY <1>0, <1>3, PassUp DEF ClaimStart, JobFits, Stamped, RunningStages
  <2>1. CASE status \in StartableTaskStatuses /\ epoch = job[j].ce
    <3>1. aim = 1 /\ aim' = 1 /\ cur' = 1 /\ status' = "running" /\ epoch' = epoch
      BY <1>0, <1>3, <2>1 DEF ClaimStart, TaskFits, CurReady
    <3>2. 1 \in Ready'
      BY <1>0, <3>1 DEF Ready, Steps
    <3>3. \A i \in Jobs : i # j => job'[i] = job[i]
      BY <1>0, <1>3, <2>1 DEF ClaimStart
    <3>4. JobFits(j)'
      <4>1. CASE job' = [job EXCEPT ![j].pc = "hold"]
        <5>1. /\ job'[j].pc = "hold" /\ job'[j].kind = "start" /\ job'[j].s = 1
              /\ job'[j].e = job[j].e /\ job'[j].ce = job[j].ce
          BY <1>0, <2>0, <4>1 DEF JobRecords
        <5>2. worker' = worker /\ job[j].e <= job[j].ce /\ job[j].ce # NoEpoch
          BY <1>0, <1>3, <2>0 DEF ClaimStart, JobFits, Stamped, RunningStages
        <5> QED
          BY <1>0, <2>0, <2>1, <3>1, <3>2, <5>1, <5>2
             DEF JobFits, Stamped, Placed, PassReady, NotComing,
             HoldingStages, RunningStages
      <4>2. CASE job' = [job EXCEPT ![j] = Queued("advance", 1, job[j].ce)]
        <5>1. job'[j] = Queued("advance", 1, epoch)
          BY <1>0, <2>1, <4>2
        <5> QED
          BY <1>0, <3>1, <3>2, <5>1, AdvanceFits
      <4> QED
        BY <1>3, <2>1, <4>1, <4>2 DEF ClaimStart
    <3>5. ~Ended /\ ~Ended'
      BY <2>1, <3>1 DEF Ended, StartableTaskStatuses, TerminalTaskStatuses
    <3> QED
      BY <1>1, <1>3, <2>0, <3>1, <3>2, <3>3, <3>4, <3>5, PassKeeps
         DEF ClaimStart, StartableTaskStatuses
  <2>2. CASE ~(status \in StartableTaskStatuses /\ epoch = job[j].ce)
    <3>1. Drop(j) /\ UNCHANGED <<status, cur, epoch, aim, row, run, worker, undo, resuming>>
      BY <1>3, <2>2 DEF ClaimStart
    <3>2. JobFits(j)' /\ \A i \in Jobs : i # j => job'[i] = job[i]
      BY <1>0, <3>1, FreeFits DEF Drop
    <3> QED
      BY <1>1, <2>0, <3>1, <3>2, PassKeeps DEF Ended
  <2> QED
    BY <2>1, <2>2
<1>4. CASE TakeStepHold(j)
  <2>1. /\ \A i \in Jobs : i # j => job'[i] = job[i]
        /\ job'[j].pc = "open" /\ job'[j].kind = job[j].kind /\ job'[j].s = 1
        /\ job'[j].e = job[j].e /\ job'[j].ce = job[j].ce /\ job[j].pc = "hold"
    BY <1>0, <1>4 DEF TakeStepHold, JobRecords
  <2>2. job[j].s = 1 /\ worker.ph = "up"
    BY <1>0, <2>1, PassUp DEF JobFits, Stamped, RunningStages
  <2>3. Grows /\ epoch' = epoch /\ worker' = worker /\ (Ended => Ended') /\ cur' = cur
    BY <1>4 DEF TakeStepHold, Grows, Ended
  <2>4. JobFits(j)'
    BY <2>1, <2>2, <2>3, StageFits DEF HoldingStages
  <2> QED
    BY <1>1, <1>4, <2>1, <2>2, <2>3, <2>4, PassKeeps DEF TakeStepHold
<1>5. CASE TakeAdvance(j)
  <2>0. worker.ph = "up" /\ job[j].pc = "wait" /\ job[j].kind # "start"
        /\ UNCHANGED <<status, cur, epoch, aim, row, run, worker, undo, resuming>>
    BY <1>5 DEF TakeAdvance
  <2>1. CASE Drop(j)
    <3>1. JobFits(j)' /\ \A i \in Jobs : i # j => job'[i] = job[i]
      BY <1>0, <2>1, FreeFits DEF Drop
    <3> QED
      BY <1>1, <2>0, <3>1, PassKeeps DEF Ended
  <2>2. CASE /\ status \notin TerminalTaskStatuses
             /\ ~(job[j].e # NoEpoch /\ job[j].e < epoch)
             /\ ~(job[j].kind # "answer" /\ ChainHasMoved(cur, job[j].s))
             /\ job' = [job EXCEPT ![j].pc = "look", ![j].ce = epoch, ![j].cs = status, ![j].cc = cur]
    <3>1. /\ \A i \in Jobs : i # j => job'[i] = job[i]
          /\ job'[j].pc = "look" /\ job'[j].kind = job[j].kind /\ job'[j].s = job[j].s
          /\ job'[j].e = job[j].e /\ job'[j].ce = epoch
      BY <1>0, <2>2 DEF JobRecords
    <3>2. cur # 0
      BY <1>0, <2>0 DEF JobFits, Placed
    <3>3. job[j].s \in Ready
      <4>1. CASE job[j].kind = "answer"
        BY <1>0, <4>1 DEF JobFits, Placed
      <4>2. CASE job[j].kind = "advance"
        <5>1. job[j].e >= epoch
          BY <1>0, <2>0, <2>2, <4>2 DEF JobFits, Stamped, JobRecords
        <5>2. job[j].s = cur
          BY <2>2, <3>2, <4>2 DEF ChainHasMoved
        <5> QED
          BY <1>0, <2>0, <2>2, <3>2, <4>2, <5>1, <5>2 DEF JobFits, NotComing, Ended
      <4> QED
        BY <1>0, <2>0, <4>1, <4>2 DEF JobRecords, Kinds
    <3>4. Ready' = Ready
      BY <2>0 DEF Ready
    <3>5. JobFits(j)'
      BY <1>0, <2>0, <3>1, <3>2, <3>3, <3>4 DEF JobFits, Stamped, Placed, PassReady, NotComing,
         HoldingStages, RunningStages, NoEpoch
    <3> QED
      BY <1>1, <2>0, <3>1, <3>5, PassKeeps DEF Ended
  <2> QED
    BY <1>5, <2>1, <2>2 DEF TakeAdvance
<1>6. CASE Look(j)
  <2>0. /\ job[j].pc = "look" /\ worker.ph = "up"
        /\ UNCHANGED <<cur, epoch, aim, row, run, worker, undo, resuming>>
    BY <1>6, PassUp DEF Look, RunningStages, HoldingStages
  <2>1. status' \in {status, "failed"} /\ (Ended => Ended')
    BY <1>6 DEF Look, FinishFailedStep, Ended, TerminalTaskStatuses
  <2>2. \A i \in Jobs : i # j => job'[i] = job[i]
    BY <1>0, <1>6 DEF Look, Drop
  <2>3. JobFits(j)'
    <3>1. CASE Drop(j)
      BY <1>0, <3>1, FreeFits DEF Drop
    <3>2. CASE /\ HandsBack(job[j])
               /\ job' = [job EXCEPT ![j].pc = "result", ![j].res = row[job[j].s], ![j].cc = 0]
      <4>1. /\ job'[j].pc = "result" /\ job'[j].kind = job[j].kind /\ job'[j].s = job[j].s
            /\ job'[j].e = job[j].e /\ job'[j].ce = job[j].ce /\ job'[j].res = row[job[j].s]
        BY <1>0, <3>2 DEF JobRecords
      <4> QED
        BY <2>0, <2>1, <4>1, StageFits DEF HoldingStages, Grows
    <3>3. CASE job' = [job EXCEPT ![j].pc = "claim", ![j].cc = 0]
      <4>1. /\ job'[j].pc = "claim" /\ job'[j].kind = job[j].kind /\ job'[j].s = job[j].s
            /\ job'[j].e = job[j].e /\ job'[j].ce = job[j].ce
        BY <1>0, <3>3 DEF JobRecords
      <4> QED
        BY <2>0, <2>1, <4>1, StageFits DEF HoldingStages, Grows
    <3> QED
      BY <1>6, <3>1, <3>2, <3>3 DEF Look
  <2> QED
    BY <1>1, <2>0, <2>1, <2>2, <2>3, PassKeeps DEF StartableTaskStatuses
<1> QED
  BY <1>2, <1>3, <1>4, <1>5, <1>6

(* The claim of the task and the opening of the row. *)
LEMMA OpenOrder ==
    ASSUME OInv, IInv', NEW j \in Jobs, Park(j) \/ Claim(j) \/ Open(j)
    PROVE  JobsFit' /\ TaskFits'
<1> USE DEF taskVars, rowVars, envVars
<1>0. /\ IInv /\ JobFits(j) /\ TaskFits /\ job \in [Jobs -> JobRecords] /\ epoch \in Nat
      /\ job[j].s \in Steps /\ 0 \notin Steps /\ row \in [Steps -> RowStatuses]
  <2>1. IInv /\ JobFits(j) /\ TaskFits
    BY DEF OInv, JobsFit
  <2>2. 0 \notin Steps
    BY NAssumption DEF Steps
  <2> QED
    BY <2>1, <2>2 DEF IInv, TypeOK, JobRecords
<1>01. job[j].pc \in {"claim", "open"} /\ worker.ph = "up" /\ cur # 0
  BY PassUp DEF Park, Claim, Open, RunningStages, HoldingStages
<1>02. UNCHANGED <<epoch, aim, worker, undo, resuming>>
  BY DEF Park, Claim, Open
<1>03. ASSUME NEW r, TaskWriteTarget(job[j].ce, r)
       PROVE  ~Ended /\ epoch = job[j].ce /\ job[j].s \in Ready
  BY <1>0, <1>01, <1>03 DEF TaskWriteTarget, Ended, JobFits, PassReady, HoldingStages
<1>04. ASSUME Drop(j) PROVE JobFits(j)' /\ \A i \in Jobs : i # j => job'[i] = job[i]
  BY <1>0, <1>04, FreeFits DEF Drop
<1>1. CASE Park(j)
  <2>1. CASE TaskWriteTarget(job[j].ce, FALSE)
    <3>1. /\ row' = [row EXCEPT ![job[j].s] = "pending"] /\ status' = "running" /\ cur' = job[j].s
          /\ job' = [job EXCEPT ![j] = Queued("advance", job[j].s, job[j].ce)]
          /\ run' = run /\ row[job[j].s] \in {"none", "pending"}
      BY <1>1, <2>1 DEF Park
    <3>2. RowsMove
      BY <1>0, <1>01, <3>1 DEF RowsMove, EndedRow, ActiveStepStatuses
    <3>3. ~Ended /\ epoch = job[j].ce /\ cur' \in Ready'
      BY <1>0, <1>02, <1>03, <2>1, <3>1, <3>2, MoveGrows, ReadyGrows
    <3>4. JobFits(j)'
      <4>1. job'[j] = Queued("advance", job[j].s, epoch)
        BY <1>0, <3>1, <3>3
      <4> QED
        BY <1>0, <1>02, <3>1, <3>3, <4>1, AdvanceFits
    <3>5. \A i \in Jobs : i # j => job'[i] = job[i]
      BY <1>0, <3>1
    <3> QED
      BY <1>01, <1>02, <3>1, <3>2, <3>3, <3>4, <3>5, PassKeeps DEF StartableTaskStatuses
  <2>2. CASE ~TaskWriteTarget(job[j].ce, FALSE)
    <3>1. Drop(j) /\ UNCHANGED <<row, status, cur, run>>
      BY <1>1, <2>2 DEF Park
    <3>2. RowsMove
      BY <3>1 DEF RowsMove
    <3> QED
      BY <1>01, <1>02, <1>04, <3>1, <3>2, PassKeeps DEF Ended
  <2> QED
    BY <2>1, <2>2
<1>2. CASE Claim(j)
  <2>0. UNCHANGED <<row, run>> /\ RowsMove /\ Grows
    BY <1>2 DEF Claim, RowsMove, Grows
  <2>1. CASE TaskWriteTarget(job[j].ce, job[j].cs = "failed")
    <3>1. /\ status' = "running" /\ cur' = job[j].s
          /\ job' = [job EXCEPT ![j].pc = "open", ![j].cs = "created"]
      BY <1>2, <2>1 DEF Claim
    <3>2. ~Ended /\ ~Ended' /\ cur' \in Ready'
      BY <1>0, <1>03, <2>0, <2>1, <3>1, ReadyGrows DEF Ended, TerminalTaskStatuses
    <3>3. /\ \A i \in Jobs : i # j => job'[i] = job[i]
          /\ job'[j].pc = "open" /\ job'[j].kind = job[j].kind /\ job'[j].s = job[j].s
          /\ job'[j].e = job[j].e /\ job'[j].ce = job[j].ce
      BY <1>0, <3>1 DEF JobRecords
    <3>4. JobFits(j)'
      BY <1>01, <1>02, <2>0, <3>2, <3>3, StageFits DEF HoldingStages
    <3> QED
      BY <1>01, <1>02, <2>0, <3>1, <3>2, <3>3, <3>4, PassKeeps DEF StartableTaskStatuses
  <2>2. CASE Drop(j) /\ UNCHANGED <<status, cur>>
    BY <1>01, <1>02, <1>04, <2>0, <2>2, PassKeeps DEF Ended
  <2> QED
    BY <1>2, <2>1, <2>2 DEF Claim
<1>3. CASE Open(j)
  <2>0. UNCHANGED <<status, cur, run>> /\ job[j].pc = "open"
    BY <1>3 DEF Open
  <2>1. RowsMove
    <3>1. \A s \in Steps : s # job[j].s => row'[s] = row[s]
      BY <1>0, <1>3 DEF Open
    <3>2. \/ row'[job[j].s] = row[job[j].s]
          \/ /\ row[job[j].s] \in {"none", "pending"}
             /\ row'[job[j].s] \in {"pending", "skipped"}
          \/ /\ row[job[j].s] \in {"none", "pending"} /\ TaskWriteTarget(job[j].ce, FALSE)
             /\ row'[job[j].s] = "running"
          \/ /\ row[job[j].s] \in ActiveStepStatuses
             /\ row'[job[j].s] = "running"
      BY <1>0, <1>3 DEF Open, LiveStepStatuses, ActiveStepStatuses
    <3>3. aim' = aim /\ \A t \in Steps : row[t] \in EndedRow => row'[t] \in EndedRow
      BY <1>02, <3>1, <3>2 DEF EndedRow, ActiveStepStatuses
    <3>4. Ready \subseteq Ready'
      BY <1>0, <3>3, ReadyGrows DEF Grows
    <3>5. \/ row'[job[j].s] = row[job[j].s]
          \/ /\ row[job[j].s] \notin EndedRow /\ row'[job[j].s] # "none"
             /\ row'[job[j].s] \in ActiveStepStatuses =>
                   row[job[j].s] \in ActiveStepStatuses \/ job[j].s \in Ready'
      BY <1>03, <3>2, <3>4 DEF EndedRow, ActiveStepStatuses
    <3> QED
      BY <1>01, <2>0, <3>1, <3>5 DEF RowsMove
  <2>2. Grows
    BY <1>02, <2>1, MoveGrows
  <2>3. JobFits(j)' /\ \A i \in Jobs : i # j => job'[i] = job[i]
    <3>1. CASE Drop(j)
      BY <1>04, <3>1
    <3>2. CASE job' = [job EXCEPT ![j].pc = "work"]
      <4>1. /\ \A i \in Jobs : i # j => job'[i] = job[i]
            /\ job'[j].pc = "work" /\ job'[j].kind = job[j].kind /\ job'[j].s = job[j].s
            /\ job'[j].e = job[j].e /\ job'[j].ce = job[j].ce
        BY <1>0, <3>2 DEF JobRecords
      <4> QED
        BY <1>02, <2>0, <2>2, <4>1, StageFits DEF HoldingStages, Ended
    <3>3. CASE job' = [job EXCEPT ![j].pc = "result", ![j].res = row'[job[j].s]]
      <4>1. /\ \A i \in Jobs : i # j => job'[i] = job[i]
            /\ job'[j].pc = "result" /\ job'[j].kind = job[j].kind /\ job'[j].s = job[j].s
            /\ job'[j].e = job[j].e /\ job'[j].ce = job[j].ce /\ job'[j].res = row'[job[j].s]
        BY <1>0, <3>3 DEF JobRecords
      <4> QED
        BY <1>02, <2>0, <2>2, <4>1, StageFits DEF HoldingStages, Ended
    <3> QED
      BY <1>0, <1>3, <3>1, <3>2, <3>3 DEF Open
  <2> QED
    BY <1>01, <1>02, <2>0, <2>1, <2>3, PassKeeps DEF Ended
<1> QED
  BY <1>1, <1>2, <1>3

(* The step's own work and its end. *)
LEMMA WorkOrder ==
    ASSUME OInv, IInv', NEW j \in Jobs,
           \/ Finish(j) \/ FailStep(j) \/ ReleaseStepAgents(j) \/ AskForm(j) \/ Dispatch(j)
           \/ KeepWaiting(j) \/ Superseded(j)
    PROVE  JobsFit' /\ TaskFits'
<1> USE DEF taskVars, rowVars, envVars
<1>0. /\ IInv /\ job \in [Jobs -> JobRecords] /\ job[j].s \in Steps /\ 0 \notin Steps
      /\ row \in [Steps -> RowStatuses] /\ run \in [Steps -> RunStates]
  <2>1. IInv
    BY DEF OInv
  <2>2. 0 \notin Steps
    BY NAssumption DEF Steps
  <2> QED
    BY <2>1, <2>2 DEF IInv, TypeOK, JobRecords
<1>01. /\ job[j].pc \in {"work", "release"} /\ worker.ph = "up" /\ cur # 0
  BY PassUp DEF Finish, FailStep, ReleaseStepAgents, AskForm, Dispatch, KeepWaiting, Superseded,
     RunningStages, HoldingStages
<1>02. UNCHANGED <<status, cur, epoch, aim, worker, undo, resuming>>
  BY DEF Finish, FailStep, ReleaseStepAgents, AskForm, Dispatch, KeepWaiting, Superseded
<1>03. ASSUME job[j].pc = "work", Owned(job[j].s) PROVE row[job[j].s] \in LiveStepStatuses
  BY <1>0, <1>03 DEF OInv, WorkRows, Owned, RowStatuses, LiveStepStatuses
<1>1. RowsMove
  <2>1. CASE Finish(j) \/ FailStep(j) \/ AskForm(j) \/ Dispatch(j) \/ KeepWaiting(j)
    <3>1. job[j].pc = "work" /\ row[job[j].s] \in LiveStepStatuses
      BY <1>03, <2>1 DEF Finish, FailStep, AskForm, Dispatch, KeepWaiting
    <3>2. /\ \A s \in Steps : s # job[j].s => row'[s] = row[s] /\ run'[s] = run[s]
          /\ row'[job[j].s] # "none"
      BY <1>0, <2>1, <3>1 DEF Finish, FailStep, AskForm, Dispatch, KeepWaiting, EndPass,
         LiveStepStatuses
    <3> QED
      BY <1>01, <3>1, <3>2 DEF RowsMove, LiveStepStatuses, ActiveStepStatuses, EndedRow
  <2>2. CASE ReleaseStepAgents(j) \/ Superseded(j)
    BY <1>0, <2>2 DEF ReleaseStepAgents, Superseded, RowsMove
  <2> QED
    BY <2>1, <2>2
<1>2. Grows
  BY <1>02, <1>1, MoveGrows
<1>3. JobFits(j)' /\ \A i \in Jobs : i # j => job'[i] = job[i]
  <2>1. CASE Superseded(j)
    BY <1>0, <2>1, FreeFits DEF Superseded, Drop
  <2>2. CASE Finish(j) \/ AskForm(j) \/ Dispatch(j) \/ KeepWaiting(j) \/ FailStep(j) \/ ReleaseStepAgents(j)
    <3>1. /\ \A i \in Jobs : i # j => job'[i] = job[i]
          /\ job'[j].kind = job[j].kind /\ job'[j].s = job[j].s
          /\ job'[j].e = job[j].e /\ job'[j].ce = job[j].ce
          /\ job'[j].pc \in {"result", "release"}
          /\ job'[j].res \in EndedRow =>
                \/ job'[j].res = row'[job[j].s]
                \/ job[j].pc = "release" /\ job'[j].res = job[j].res /\ row' = row
      BY <1>0, <2>2 DEF Finish, FailStep, AskForm, Dispatch, KeepWaiting, ReleaseStepAgents,
         EndPass,
         EndedRow, JobRecords
    <3>2. job'[j].res \in EndedRow /\ ~Ended' /\ job[j].ce = epoch => row'[job[j].s] \in EndedRow
      BY <1>02, <3>1 DEF OInv, JobsFit, JobFits, PassReady, Ended
    <3> QED
      BY <1>01, <1>02, <1>2, <3>1, <3>2, StageFits DEF HoldingStages, Ended
  <2> QED
    BY <2>1, <2>2
<1> QED
  BY <1>01, <1>02, <1>1, <1>3, PassKeeps DEF Ended

(* A job that is queued again keeps its place: the slot j takes over kind, step and
   stamp of the job i. *)
LEMMA AgainFits ==
    ASSUME IInv, IInv', JobsFit, Steady, NEW i \in Jobs, NEW j \in Jobs, job[i].pc # "free",
           job'[j].pc \in {"wait", "orphan"}, job'[j].kind = job[i].kind, job'[j].s = job[i].s,
           job'[j].e = job[i].e, job'[j].ce = NoEpoch
    PROVE  JobFits(j)'
<1>0. /\ JobFits(i) /\ Ready \subseteq Ready' /\ epoch' = epoch /\ epoch \in Nat /\ 0 \notin Steps
      /\ job[i].ce \in Nat \cup {NoEpoch} /\ job[i].e \in Nat \cup {NoEpoch} /\ job[i].pc \in Stages
  <2>1. JobFits(i) /\ Ready \subseteq Ready' /\ epoch' = epoch
    BY ReadyGrows DEF JobsFit, Steady
  <2>2. 0 \notin Steps
    BY DEF Steps
  <2> QED
    BY <2>1, <2>2 DEF IInv, TypeOK
<1>1. Stamped(j)'
  BY <1>0 DEF JobFits, Stamped, NoEpoch, RunningStages, HoldingStages
<1>2. Placed(j)'
  BY <1>0 DEF JobFits, Placed, Steady, Ready, RunningStages, HoldingStages
<1>3. PassReady(j)'
  BY <1>0 DEF PassReady, NoEpoch
<1>4. NotComing(j)'
  <2>1. SUFFICES ASSUME cur' # 0, ~Ended', cur' \notin Ready', job[i].kind = "advance",
                        job[i].s = cur', job[i].e >= epoch
                 PROVE  FALSE
    BY <1>0 DEF NotComing
  <2>2. cur' = cur /\ cur \notin Ready /\ ~Ended
    BY <1>0, <2>1 DEF Steady
  <2>3. job[i].pc \in RunningStages /\ job[i].pc # "start"
    BY <1>0, <2>1, <2>2 DEF JobFits, NotComing, Stamped, Stages, RunningStages, HoldingStages
  <2>4. job[i].ce = epoch
    BY <1>0, <2>1, <2>3 DEF JobFits, Stamped, NoEpoch
  <2> QED
    BY <1>0, <2>1, <2>2, <2>3, <2>4 DEF JobFits, PassReady, RunningStages
<1> QED
  BY <1>1, <1>2, <1>3, <1>4 DEF JobFits

(* After an ended step comes its successor. *)
LEMMA SuccessorReady ==
    ASSUME IInv, NEW s \in Ready, row[s] \in EndedRow, Successor(s) \in Steps
    PROVE  Successor(s) \in Ready
  BY DEF IInv, TypeOK, Ready, Successor, Steps

(* What a pass hands off. *)
LEMMA ResultOrder ==
    ASSUME OInv, IInv', NEW j \in Jobs, Result(j) \/ HandOff(j)
    PROVE  JobsFit' /\ TaskFits'
<1> USE DEF taskVars, rowVars, envVars
<1>0. /\ IInv /\ JobFits(j) /\ job \in [Jobs -> JobRecords] /\ job[j].s \in Steps
      /\ row \in [Steps -> RowStatuses] /\ epoch \in Nat /\ aim \in Steps
  <2>1. IInv /\ JobFits(j)
    BY DEF OInv, JobsFit
  <2> QED
    BY <2>1 DEF IInv, TypeOK, JobRecords
<1>01. job[j].pc \in {"result", "next"} /\ worker.ph = "up" /\ cur # 0
  BY PassUp DEF Result, HandOff, RunningStages, HoldingStages
<1>02. UNCHANGED <<epoch, aim, worker, undo, resuming, run>>
  BY DEF Result, HandOff
<1>03. ASSUME TaskWriteTarget(job[j].ce, FALSE)
       PROVE  /\ ~Ended /\ epoch = job[j].ce /\ job[j].s \in Ready
              /\ job[j].pc = "result" /\ job[j].res \in EndedRow => row[job[j].s] \in EndedRow
  BY <1>0, <1>01, <1>03 DEF TaskWriteTarget, Ended, JobFits, PassReady, HoldingStages
<1>04. ASSUME Drop(j) PROVE JobFits(j)' /\ \A i \in Jobs : i # j => job'[i] = job[i]
  BY <1>0, <1>04, FreeFits DEF Drop
<1>05. ASSUME row' = row PROVE RowsMove /\ Grows /\ Ready' = Ready
  BY <1>02, <1>05 DEF RowsMove, Grows, Ready
<1>1. CASE HandOff(j)
  <2>1. /\ job[j].pc = "next" /\ UNCHANGED <<status, cur, row>>
        /\ job' = [job EXCEPT ![j] = Queued("advance", Successor(job[j].s), job[j].ce)]
    BY <1>1 DEF HandOff
  <2>2. Successor(job[j].s) \in Steps
    BY <1>0, <2>1 DEF IInv, PassesSound, Sound
  <2>3. job[j].ce \in Nat /\ job[j].ce <= epoch
    BY <1>0, <2>1 DEF JobFits, Stamped, RunningStages, HoldingStages, JobRecords
  <2>4. job[j].ce = epoch' /\ Successor(job[j].s) = cur' => Ended' \/ cur' \in Ready'
    BY <1>0, <1>02, <1>05, <2>1 DEF JobFits, PassReady, Ended
  <2>5. JobFits(j)'
    <3>1. job'[j] = Queued("advance", Successor(job[j].s), job[j].ce)
      BY <1>0, <2>1
    <3> QED
      BY <1>01, <1>02, <2>1, <2>2, <2>3, <2>4, <3>1, AdvanceFits
  <2>6. \A i \in Jobs : i # j => job'[i] = job[i]
    BY <1>0, <2>1
  <2> QED
    BY <1>01, <1>02, <1>05, <2>1, <2>5, <2>6, PassKeeps DEF Ended
<1>2. CASE Result(j)
  <2>0. job[j].pc = "result"
    BY <1>2 DEF Result
  <2>1. CASE Drop(j) /\ UNCHANGED <<status, cur, row>>
    BY <1>01, <1>02, <1>04, <1>05, <2>1, PassKeeps DEF Ended
  <2>2. CASE FinishFailedStep(job[j].ce) /\ Drop(j) /\ UNCHANGED <<cur, row>>
    <3>1. status' \in {status, "failed"} /\ (Ended => Ended')
      BY <2>2 DEF FinishFailedStep, Ended, TerminalTaskStatuses
    <3> QED
      BY <1>01, <1>02, <1>04, <1>05, <2>2, <3>1, PassKeeps DEF StartableTaskStatuses
  <2>3. CASE /\ TaskWriteTarget(job[j].ce, FALSE) /\ job[j].res \in {"done", "skipped"}
             /\ Successor(job[j].s) \in Steps
             /\ status' = "running" /\ cur' = Successor(job[j].s)
             /\ job' = [job EXCEPT ![j].pc = "next"] /\ UNCHANGED row
    <3>1. cur' \in Ready' /\ ~Ended /\ ~Ended'
      BY <1>0, <1>03, <1>05, <2>0, <2>3, SuccessorReady DEF EndedRow, Ended, TerminalTaskStatuses
    <3>2. /\ \A i \in Jobs : i # j => job'[i] = job[i]
          /\ job'[j].pc = "next" /\ job'[j].kind = job[j].kind /\ job'[j].s = job[j].s
          /\ job'[j].e = job[j].e /\ job'[j].ce = job[j].ce
      BY <1>0, <2>3 DEF JobRecords
    <3>3. JobFits(j)'
      BY <1>02, <1>05, <2>0, <2>3, <3>1, <3>2, StageFits DEF HoldingStages
    <3> QED
      BY <1>01, <1>02, <1>05, <2>3, <3>1, <3>2, <3>3, PassKeeps DEF StartableTaskStatuses
  <2>4. CASE /\ TaskWriteTarget(job[j].ce, FALSE) /\ job[j].res \in {"done", "skipped"}
             /\ Successor(job[j].s) \notin Steps
             /\ status' = "completed" /\ Drop(j) /\ UNCHANGED <<cur, row>>
    <3>1. job[j].s = N
      BY <1>0, <2>4, NAssumption DEF Successor, Steps
    <3>2. N \in Ready /\ row[N] \in EndedRow
      BY <1>03, <2>0, <2>4, <3>1 DEF EndedRow
    <3>3. CompletedMeansAllDone'
      BY <1>0, <1>02, <2>4, <3>2, NAssumption DEF CompletedMeansAllDone, Ready, EndedRow, Steps
    <3>4. Ended'
      BY <2>4 DEF Ended, TerminalTaskStatuses
    <3> QED
      BY <1>01, <1>02, <1>04, <1>05, <2>4, <3>3, <3>4, PassKeeps DEF StartableTaskStatuses
  <2>5. CASE /\ TaskWriteTarget(job[j].ce, FALSE)
             /\ status' \in {"waiting_user", "running"} /\ cur' = job[j].s /\ Drop(j)
             /\ row' = row \/ row' = [row EXCEPT ![job[j].s] = IF @ = "running" THEN "waiting_cli" ELSE @]
    <3>1. RowsMove
      BY <1>0, <1>01, <1>02, <2>5 DEF RowsMove, EndedRow, ActiveStepStatuses
    <3>2. cur' \in Ready' /\ ~Ended
      BY <1>0, <1>02, <1>03, <2>5, <3>1, MoveGrows, ReadyGrows
    <3> QED
      BY <1>01, <1>02, <1>04, <2>5, <3>1, <3>2, PassKeeps DEF StartableTaskStatuses
  <2> QED
    BY <1>2, <2>1, <2>2, <2>3, <2>4, <2>5 DEF Result
<1> QED
  BY <1>1, <1>2

(* Every step of a job. *)
LEMMA JobOrder ==
    ASSUME OInv, IInv', NEW j \in Jobs, JobStep(j) PROVE JobsFit' /\ TaskFits'
  BY PickupOrder, OpenOrder, WorkOrder, ResultOrder DEF JobStep

-----------------------------------------------------------------------------
(* The other actors.  What a step does that leaves the epoch alone: rows that have not
   ended are set aside, and no run begins. *)
SetAside ==
    /\ UNCHANGED <<epoch, aim, undo, cur>>
    /\ \A s \in Steps : \/ row'[s] = row[s]
                        \/ /\ row[s] \notin EndedRow
                           /\ row'[s] \notin EndedRow \cup {"none"}
                           /\ row'[s] \in ActiveStepStatuses => row[s] \in ActiveStepStatuses
    /\ cur = 0 => row' = row
    /\ \A s \in Steps : run[s] = "none" /\ s \notin resuming => run'[s] = "none" /\ s \notin resuming'
    /\ Ended' <=> Ended
    /\ status' \in StartableTaskStatuses => status \in StartableTaskStatuses
    /\ status' = "completed" => status = "completed"

(* Setting rows aside is a step within the epoch. *)
LEMMA AsideSteady == ASSUME SetAside PROVE Steady
  BY DEF SetAside, Steady, Grows

(* It keeps the invariant of the task. *)
LEMMA AsideKeeps ==
    ASSUME OInv, IInv', SetAside, WorkerFits',
           status' \in {status, "failed"} \cup StartableTaskStatuses \/ Ended' \/ cur' \in Ready'
    PROVE  TaskFits'
<1>0. IInv /\ TaskFits /\ ActiveReady /\ 0 \notin Steps /\ (cur # 0 => cur \in Steps)
  <2>1. IInv /\ TaskFits /\ ActiveReady
    BY DEF OInv, TaskFits
  <2>2. cur \in 0..N
    BY <2>1 DEF IInv, TypeOK
  <2> QED
    BY <2>1, <2>2, NAssumption DEF Steps
<1>1. RunsFit'
  BY <1>0 DEF TaskFits, RunsFit, SetAside
<1>2. \A s \in Active' : s \in Active \/ s \in Ready'
  BY DEF SetAside, Active
<1>3. /\ undo' = undo
      /\ cur # 0 /\ cur \notin Ready /\ run[cur] = "none" /\ cur \notin resuming
           => run'[cur] = "none" /\ cur \notin resuming'
  BY <1>0 DEF SetAside
<1> QED
  BY <1>0, <1>1, <1>2, <1>3, AsideSteady, TaskSteady DEF SetAside

(* The recovery's list stays good in such a step. *)
LEMMA AsideWorker ==
    ASSUME OInv, SetAside,
          worker' = worker \/ (worker' = [worker EXCEPT !.todo = worker'.todo]
          /\ worker'.todo \subseteq worker.todo)
    PROVE  WorkerFits'
<1>0. /\ IInv /\ WorkerFits /\ Ready \subseteq Ready' /\ worker'.todo \subseteq worker.todo
      /\ worker'.e = worker.e /\ worker'.c = worker.c /\ worker'.ph = worker.ph
  BY AsideSteady, ReadyGrows DEF OInv, TaskFits, Steady, IInv, TypeOK
<1>1. \A s \in worker.todo : s \in Steps
  BY <1>0 DEF IInv, TypeOK
<1> QED
  BY <1>0, <1>1 DEF WorkerFits, SetAside

(* The queue, the cli-exec worker and the faults of a job or a run. *)
LEMMA QueueOrder ==
    ASSUME OInv, IInv',
           \/ \E j \in Jobs : Redeliver(j) \/ LoseJob(j) \/ Duplicate(j) \/ Throw(j)
           \/ \E s \in Steps : CliEnd(s) \/ CliCheck(s) \/ CliResume(s) \/ LoseRun(s)
           \/ SweepFailed \/ SweepStart
    PROVE  JobsFit' /\ TaskFits'
<1> USE DEF taskVars, rowVars, envVars
<1>0. /\ IInv /\ JobsFit /\ TaskFits /\ job \in [Jobs -> JobRecords] /\ run \in [Steps -> RunStates]
      /\ epoch \in Nat /\ \A i \in Jobs : job[i].s \in Steps
  <2>1. IInv /\ JobsFit /\ TaskFits
    BY DEF OInv
  <2> QED
    BY <2>1 DEF IInv, TypeOK, JobRecords
<1>01. ASSUME SetAside, worker' = worker, status' \in {status, "failed"},
              NEW j \in Jobs, \A i \in Jobs : i # j => job'[i] = job[i], JobFits(j)'
       PROVE  JobsFit' /\ TaskFits'
  BY <1>0, <1>01, AsideSteady, AsideWorker, AsideKeeps, OneJobFits
<1>02. ASSUME SetAside, worker' = worker, status' \in {status, "failed"}, job' = job
       PROVE  JobsFit' /\ TaskFits'
  <2>1. JobsFit'
    BY <1>0, <1>02, AsideSteady, KeptSteady DEF JobsFit
  <2> QED
    BY <1>02, <2>1, AsideWorker, AsideKeeps
<1>03. ASSUME UNCHANGED <<status, epoch, cur, aim, undo, row, run>>, resuming' \subseteq resuming
       PROVE  SetAside
  BY <1>03 DEF SetAside, Ended
<1>1. ASSUME NEW j \in Jobs, Redeliver(j) PROVE JobsFit' /\ TaskFits'
  <2>1. SetAside /\ worker' = worker /\ status' = status /\ job[j].pc = "orphan"
    BY <1>03, <1>1 DEF Redeliver
  <2>2. /\ \A i \in Jobs : i # j => job'[i] = job[i]
        /\ job'[j].pc = "wait" /\ job'[j].kind = job[j].kind /\ job'[j].s = job[j].s
        /\ job'[j].e = job[j].e /\ job'[j].ce = job[j].ce
    BY <1>0, <1>1 DEF Redeliver, JobRecords
  <2>3. Ready' = Ready /\ UNCHANGED <<epoch, cur, status, worker>>
    BY <1>1 DEF Redeliver, Ready
  <2>4. JobFits(j)'
    BY <1>0, <2>1, <2>2, <2>3
       DEF JobsFit, JobFits, Stamped, Placed, PassReady, NotComing, RunningStages,
       HoldingStages, Ended
  <2> QED
    BY <1>01, <2>1, <2>2, <2>4
<1>2. ASSUME NEW j \in Jobs, LoseJob(j) PROVE JobsFit' /\ TaskFits'
  <2>1. SetAside /\ worker' = worker /\ status' = status
    BY <1>03, <1>2 DEF LoseJob
  <2>2. JobFits(j)' /\ \A i \in Jobs : i # j => job'[i] = job[i]
    BY <1>0, <1>2, FreeFits DEF LoseJob, Drop
  <2> QED
    BY <1>01, <2>1, <2>2
<1>3. ASSUME NEW j \in Jobs, Duplicate(j) PROVE JobsFit' /\ TaskFits'
  <2>1. SetAside /\ worker' = worker /\ status' = status /\ job[j].pc # "free"
    BY <1>03, <1>3 DEF Duplicate, RunningStages, HoldingStages
  <2>2. PICK i \in Jobs : job' = [job EXCEPT ![i] = Queued(job[j].kind, job[j].s, job[j].e)]
    BY <1>3 DEF Duplicate, Enqueue, Free
  <2>3. /\ \A k \in Jobs : k # i => job'[k] = job[k]
        /\ job'[i] = Queued(job[j].kind, job[j].s, job[j].e)
    BY <1>0, <2>2
  <2>4. JobFits(i)'
    BY <1>0, <2>1, <2>3, AsideSteady, AgainFits DEF Queued
  <2> QED
    BY <1>01, <2>1, <2>3, <2>4
<1>4. ASSUME NEW j \in Jobs, Throw(j) PROVE JobsFit' /\ TaskFits'
  <2>1. /\ UNCHANGED <<epoch, cur, aim, undo, row, run, resuming, worker>>
        /\ job[j].pc \in RunningStages /\ status' \in {status, "failed"}
        /\ status \in TerminalTaskStatuses => status' = status
    BY <1>4 DEF Throw, StartableTaskStatuses, OpenTaskStatuses, TerminalTaskStatuses
  <2>2. SetAside /\ job[j].pc # "free"
    BY <2>1 DEF SetAside, Ended, StartableTaskStatuses, TerminalTaskStatuses, RunningStages,
       HoldingStages
  <2>3. CASE job' = [job EXCEPT ![j] = NoJob]
    <3>1. JobFits(j)' /\ \A i \in Jobs : i # j => job'[i] = job[i]
      BY <1>0, <2>3, FreeFits
    <3> QED
      BY <1>01, <2>1, <2>2, <3>1
  <2>4. CASE job' = [job EXCEPT ![j] = Queued(job[j].kind, job[j].s, job[j].e)]
    <3>1. /\ \A i \in Jobs : i # j => job'[i] = job[i]
          /\ job'[j] = Queued(job[j].kind, job[j].s, job[j].e)
      BY <1>0, <2>4
    <3>2. JobFits(j)'
      BY <1>0, <2>2, <3>1, AsideSteady, AgainFits DEF Queued
    <3> QED
      BY <1>01, <2>1, <2>2, <3>1, <3>2
  <2> QED
    BY <1>4, <2>3, <2>4 DEF Throw
<1>5. ASSUME NEW s \in Steps, CliEnd(s) \/ CliCheck(s) \/ LoseRun(s) PROVE JobsFit' /\ TaskFits'
  <2>1. UNCHANGED <<status, epoch, cur, aim, undo, row, worker, job>>
    BY <1>5 DEF CliEnd, CliCheck, LoseRun
  <2>2. \A t \in Steps : run[t] = "none" /\ t \notin resuming => run'[t] = "none" /\ t \notin resuming'
    BY <1>0, <1>5 DEF CliEnd, CliCheck, LoseRun
  <2>3. SetAside
    BY <2>1, <2>2 DEF SetAside, Ended
  <2> QED
    BY <1>02, <2>1, <2>3
<1>6. ASSUME NEW s \in Steps, CliResume(s) PROVE JobsFit' /\ TaskFits'
  <2>1. SetAside /\ worker' = worker /\ status' = status /\ epoch' = epoch /\ cur' = cur
        /\ s \in resuming
    BY <1>03, <1>6 DEF CliResume
  <2>2. PICK i \in Jobs : job' = [job EXCEPT ![i] = Queued("advance", s, epoch)]
    BY <1>6 DEF CliResume, Enqueue, Free
  <2>3. cur # 0
    BY <1>0, <2>1 DEF TaskFits, RunsFit
  <2>4. s = cur => Ended \/ cur \in Ready
    BY <1>0, <2>1, <2>3 DEF TaskFits, CurReady
  <2>5. Ready \subseteq Ready' /\ (Ended => Ended')
    BY <1>0, <2>1, AsideSteady, ReadyGrows DEF Steady
  <2>6. /\ \A k \in Jobs : k # i => job'[k] = job[k]
        /\ job'[i] = Queued("advance", s, epoch)
    BY <1>0, <2>2
  <2>7. JobFits(i)'
    BY <1>0, <2>1, <2>3, <2>4, <2>5, <2>6, AdvanceFits
  <2> QED
    BY <1>01, <2>1, <2>6, <2>7
<1>7. CASE SweepFailed
  <2>1. /\ UNCHANGED <<epoch, cur, aim, undo, row, run, resuming, worker, job>>
        /\ status' = "failed" /\ status = "running"
    BY <1>7 DEF SweepFailed, FinishFailedStep
  <2>2. SetAside
    BY <2>1 DEF SetAside, Ended, StartableTaskStatuses, TerminalTaskStatuses
  <2> QED
    BY <1>02, <2>1, <2>2
<1>8. CASE SweepStart
  <2>1. SetAside /\ worker' = worker /\ status' = status
    BY <1>03, <1>8 DEF SweepStart
  <2>2. PICK i \in Jobs : job' = [job EXCEPT ![i] = Queued("start", 1, NoEpoch)]
    BY <1>8 DEF SweepStart, Enqueue, Free
  <2>3. /\ \A k \in Jobs : k # i => job'[k] = job[k]
        /\ job'[i] = Queued("start", 1, NoEpoch)
    BY <1>0, <2>2
  <2>4. JobFits(i)'
    BY <2>3, StartFits
  <2> QED
    BY <1>01, <2>1, <2>3, <2>4
<1> QED
  BY <1>1, <1>2, <1>3, <1>4, <1>5, <1>6, <1>7, <1>8

(* The worker dies, and reads what it must recover. *)
LEMMA BootOrder ==
    ASSUME OInv, IInv', Crash \/ BootParked \/ BootRunning \/ BootDone
    PROVE  JobsFit' /\ TaskFits'
<1> USE DEF taskVars, rowVars, envVars
<1>0. /\ IInv /\ JobsFit /\ TaskFits /\ job \in [Jobs -> JobRecords] /\ run \in [Steps -> RunStates]
      /\ epoch \in Nat
  <2>1. IInv /\ JobsFit /\ TaskFits
    BY DEF OInv
  <2> QED
    BY <2>1 DEF IInv, TypeOK, JobRecords
<1>1. CASE Crash
  <2>1. UNCHANGED <<status, epoch, cur, aim, row>> /\ worker' = Down /\ resuming' = {}
        /\ undo' = NoEpoch
    BY <1>1 DEF Crash
  <2>2. \A s \in Steps : run[s] = "none" => run'[s] = "none"
    BY <1>1 DEF Crash
  <2>3. SetAside
    BY <1>0, <2>1, <2>2 DEF SetAside, Ended, TaskFits
  <2>4. WorkerFits'
    BY <1>0, <2>1 DEF WorkerFits, Down, Up
  <2>5. JobsFit'
    <3> SUFFICES ASSUME NEW j \in Jobs PROVE JobFits(j)'
      BY DEF JobsFit
    <3>1. CASE job[j].pc \in RunningStages
      <4>1. job'[j] = [Queued(job[j].kind, job[j].s, job[j].e) EXCEPT !.pc = "orphan"]
        BY <1>1, <3>1 DEF Crash
      <4>2. /\ job'[j].pc = "orphan" /\ job'[j].kind = job[j].kind /\ job'[j].s = job[j].s
            /\ job'[j].e = job[j].e /\ job'[j].ce = NoEpoch /\ job[j].pc # "free"
        BY <3>1, <4>1 DEF Queued, RunningStages, HoldingStages
      <4> QED
        BY <1>0, <2>3, <4>2, AsideSteady, AgainFits
    <3>2. CASE job[j].pc \notin RunningStages
      <4>1. job'[j] = job[j]
        BY <1>1, <3>2 DEF Crash
      <4> QED
        BY <1>0, <2>3, <3>2, <4>1, AsideSteady, KeptSteady
    <3> QED
      BY <3>1, <3>2
  <2> QED
    BY <2>1, <2>3, <2>4, <2>5, AsideKeeps
<1>2. CASE BootParked \/ BootRunning \/ BootDone
  <2>1. /\ UNCHANGED <<status, epoch, cur, aim, row, run, resuming, undo, job>> /\ worker.ph # "up"
    BY <1>2 DEF BootParked, BootRunning, BootDone
  <2>2. SetAside
    BY <2>1 DEF SetAside, Ended
  <2>3. WorkerFits'
    <3>1. CASE worker' = Up
      BY <1>0, <2>1, <3>1 DEF WorkerFits, Up
    <3>2. ASSUME NEW p \in {"parked", "running"}, NEW R \in SUBSET Steps,
                 \A s \in R : row[s] \in LiveStepStatuses, ReadOrphans(p, R)
          PROVE  WorkerFits'
      <4>1. /\ worker'.ph = p /\ worker'.e = epoch /\ worker'.c = cur
            /\ worker'.todo = IF status = "running" THEN R ELSE {}
        BY <3>2 DEF ReadOrphans
      <4>2. SUFFICES ASSUME status = "running", NEW s \in R
                     PROVE  ~Ended' /\ cur' # 0 /\ cur' \in Ready'
        BY <1>0, <2>1, <3>2, <4>1 DEF WorkerFits, LiveStepStatuses, EndedRow
      <4>3. cur # 0
        BY <1>0, <3>2, <4>2 DEF TaskFits, RunsFit, LiveStepStatuses
      <4>4. ~Ended
        BY <4>2 DEF Ended, TerminalTaskStatuses
      <4>5. cur \in Ready
        BY <1>0, <4>2, <4>3, <4>4 DEF TaskFits, CurReady, StartableTaskStatuses
      <4> QED
        BY <2>1, <4>3, <4>4, <4>5 DEF Ended, Ready
    <3> QED
      BY <1>2, <3>1, <3>2 DEF BootParked, BootRunning, BootDone, LiveStepStatuses
  <2>4. JobsFit'
    BY <1>0, <2>1, <2>2, AsideSteady, KeptSteady DEF JobsFit
  <2> QED
    BY <2>1, <2>2, <2>3, <2>4, AsideKeeps
<1> QED
  BY <1>1, <1>2

-----------------------------------------------------------------------------
(* A step that begins an epoch: every job and pass before it is behind. *)
Begins ==
    /\ epoch' = epoch + 1
    /\ undo' = undo
    /\ cur' = 0 => cur = 0
    /\ worker'.e = worker.e /\ worker'.ph = worker.ph /\ worker'.todo \subseteq worker.todo
    /\ \A i \in Jobs : job[i].kind = "answer" => job[i].s \in Ready'
    /\ \A i \in Jobs : job'[i] = job[i] \/ JobFits(i)'

(* A new epoch keeps the invariant: only what it queues or sets anew has to be shown. *)
LEMMA BeginsKeeps ==
    ASSUME OInv, IInv', Begins, RunsFit', ActiveReady', CurReady', CompletedMeansAllDone'
    PROVE  JobsFit' /\ TaskFits'
<1>0. IInv /\ JobsFit /\ TaskFits /\ epoch \in Nat /\ worker.e \in Nat
  <2>1. IInv /\ JobsFit /\ TaskFits
    BY DEF OInv
  <2> QED
    BY <2>1 DEF IInv, TypeOK
<1>1. JobsFit'
  <2> SUFFICES ASSUME NEW j \in Jobs, job'[j] = job[j] PROVE JobFits(j)'
    BY DEF JobsFit, Begins
  <2> QED
    BY <1>0, KeptBump DEF Begins
<1>2. WorkerFits'
  BY <1>0 DEF TaskFits, WorkerFits, Begins
<1> QED
  BY <1>0, <1>1, <1>2 DEF TaskFits, Begins

(* Its advance, for the step the task points at or another. *)
LEMMA EnqueueBegins ==
    ASSUME OInv, IInv', NEW s \in Steps, Enqueue("advance", s, epoch + 1), epoch' = epoch + 1,
           cur' # 0, s = cur' => Ended' \/ cur' \in Ready'
    PROVE  \A i \in Jobs : job'[i] = job[i] \/ JobFits(i)'
<1>0. job \in [Jobs -> JobRecords] /\ epoch \in Nat
  BY DEF OInv, IInv, TypeOK, JobRecords
<1>1. PICK j \in Jobs : job' = [job EXCEPT ![j] = Queued("advance", s, epoch + 1)]
  BY DEF Enqueue, Free
<1>2. /\ \A i \in Jobs : i # j => job'[i] = job[i]
      /\ job'[j] = Queued("advance", s, epoch + 1)
  BY <1>0, <1>1
<1>3. JobFits(j)'
  BY <1>0, <1>2, AdvanceFits
<1> QED
  BY <1>2, <1>3

(* A re-drive of the current step, with the rows set aside as above. *)
LEMMA RedriveOrder ==
    ASSUME OInv, IInv', EpochFenced, NEW s \in Steps, Redrive(s), status \in {"running",
          "waiting_user"}, cur # 0,
           UNCHANGED <<status, cur, aim>>,
           worker'.e = worker.e, worker'.ph = worker.ph, worker'.todo \subseteq worker.todo,
           \A t \in Steps : \/ row'[t] = row[t]
                            \/ /\ row[t] \notin EndedRow /\ row'[t] # "none"
                               /\ row'[t] \in ActiveStepStatuses => row[t] \in ActiveStepStatuses,
           \A t \in Steps : run[t] = "none" /\ t \notin resuming => run'[t] = "none" /\ t \notin resuming'
    PROVE  JobsFit' /\ TaskFits'
<1>0. IInv /\ JobsFit /\ TaskFits /\ cur \in Steps
  <2>1. IInv /\ JobsFit /\ TaskFits
    BY DEF OInv
  <2>2. cur \in 0..N
    BY <2>1 DEF IInv, TypeOK
  <2> QED
    BY <2>1, <2>2, NAssumption DEF Steps
<1>1. epoch' = epoch + 1 /\ undo' = undo /\ Enqueue("advance", s, epoch + 1)
  BY DEF Redrive, EpochFenced, Fault
<1>2. Ready \subseteq Ready'
  BY <1>0, ReadyGrows DEF Grows
<1>3. cur \in Ready /\ ~Ended
  BY <1>0 DEF TaskFits, CurReady, StartableTaskStatuses, Ended, TerminalTaskStatuses
<1>4. \A i \in Jobs : job'[i] = job[i] \/ JobFits(i)'
  BY <1>1, <1>2, <1>3, EnqueueBegins
<1>5. Begins
  BY <1>0, <1>1, <1>2, <1>4 DEF Begins, JobsFit, JobFits, Placed
<1>6. RunsFit'
  BY <1>0 DEF TaskFits, RunsFit
<1>7. ActiveReady'
  BY <1>0, <1>2 DEF TaskFits, ActiveReady, Active
<1>8. CurReady' /\ CompletedMeansAllDone'
  BY <1>2, <1>3 DEF CurReady, CompletedMeansAllDone, StartableTaskStatuses
<1> QED
  BY <1>5, <1>6, <1>7, <1>8, BeginsKeeps

(* recoverParkedStep: the row is kept, requeued or re-driven. *)
LEMMA RecoverStepOrder ==
    ASSUME OInv, IInv', EpochFenced, NEW s \in Steps, NEW e, NEW c, NEW rowNow,
           RecoverParkedStep(s, e, c, rowNow),
           rowNow = row[s] \/ (row[s] = "running" /\ rowNow = "waiting_cli"),
           epoch = e => cur # 0,
           \/ worker' = worker
           \/ worker' = [worker EXCEPT !.todo = worker'.todo] /\ worker'.todo \subseteq worker.todo
    PROVE  JobsFit' /\ TaskFits'
<1>0. /\ IInv /\ JobsFit /\ TaskFits /\ row \in [Steps -> RowStatuses]
         /\ run \in [Steps -> RunStates]
      /\ worker'.e = worker.e /\ worker'.ph = worker.ph /\ worker'.todo \subseteq worker.todo
  <2>1. IInv /\ JobsFit /\ TaskFits
    BY DEF OInv
  <2> QED
    BY <2>1 DEF IInv, TypeOK
<1>1. UNCHANGED <<status, cur, aim, resuming>>
  BY DEF RecoverParkedStep
<1>2. \A t \in Steps : \/ row'[t] = row[t]
                       \/ /\ row[t] \notin EndedRow /\ row'[t] \notin EndedRow \cup {"none"}
                          /\ row'[t] \in ActiveStepStatuses => row[t] \in ActiveStepStatuses
  BY <1>0 DEF RecoverParkedStep, EndedRow, ActiveStepStatuses, LiveStepStatuses
<1>3. \A t \in Steps : run[t] = "none" => run'[t] = "none"
  BY <1>0 DEF RecoverParkedStep
<1>4. cur = 0 => row' = row
  <2> SUFFICES ASSUME cur = 0 PROVE row' = row
    OBVIOUS
  <2>1. row[s] = "none" /\ rowNow = "none"
    BY <1>0 DEF TaskFits, RunsFit
  <2> QED
    BY <1>0, <2>1 DEF RecoverParkedStep, LiveStepStatuses
<1>5. CASE UNCHANGED <<epoch, job, undo>>
  <2>1. SetAside
    BY <1>1, <1>2, <1>3, <1>4, <1>5 DEF SetAside, Ended
  <2>2. WorkerFits'
    BY <2>1, AsideWorker
  <2>3. JobsFit'
    BY <1>0, <1>5, <2>1, AsideSteady, KeptSteady DEF JobsFit
  <2> QED
    BY <1>1, <2>1, <2>2, <2>3, AsideKeeps
<1>6. CASE status = "running" /\ epoch = e /\ Redrive(s)
  BY <1>0, <1>1, <1>2, <1>3, <1>6, RedriveOrder
<1> QED
  BY <1>5, <1>6 DEF RecoverParkedStep

(* The recoveries of boot and of the sweep. *)
LEMMA RecoveryOrder ==
    ASSUME OInv, IInv', EpochFenced,
           \/ \E s \in Steps : RecoverParked(s) \/ RecoverRunning(s)
           \/ SweepRedrive \/ SweepLostRun \/ Undo
    PROVE  JobsFit' /\ TaskFits'
<1> USE DEF taskVars, rowVars, envVars
<1>0. /\ IInv /\ JobsFit /\ TaskFits /\ row \in [Steps -> RowStatuses]
         /\ run \in [Steps -> RunStates]
      /\ epoch \in Nat
  <2>1. IInv /\ JobsFit /\ TaskFits
    BY DEF OInv
  <2> QED
    BY <2>1 DEF IInv, TypeOK
<1>00. cur # 0 => cur \in Steps
  <2>1. cur \in 0..N
    BY <1>0 DEF IInv, TypeOK
  <2> QED
    BY <2>1, NAssumption DEF Steps
<1>01. ASSUME NEW s \in worker.todo, worker' = [worker EXCEPT !.todo = @ \ {s}]
       PROVE  /\ worker' = [worker EXCEPT !.todo = worker'.todo]
       /\ worker'.todo \subseteq worker.todo
              /\ epoch = worker.e => cur # 0
  <2>1. worker \in [ph : {"up", "down", "parked", "running"}, e : Nat, c : 0..N, todo : SUBSET Steps]
    BY <1>0 DEF IInv, TypeOK
  <2>2. epoch = worker.e => cur # 0
    BY <1>0, <1>01 DEF TaskFits, WorkerFits
  <2> QED
    BY <1>01, <2>1, <2>2
<1>1. ASSUME NEW s \in Steps, RecoverParked(s) PROVE JobsFit' /\ TaskFits'
  <2>1. s \in worker.todo /\ worker' = [worker EXCEPT !.todo = @ \ {s}]
        /\ RecoverParkedStep(s, worker.e, worker.c, row[s])
    BY <1>1 DEF RecoverParked
  <2> QED
    BY <1>01, <2>1, RecoverStepOrder
<1>2. ASSUME NEW s \in Steps, RecoverRunning(s) PROVE JobsFit' /\ TaskFits'
  <2>1. s \in worker.todo /\ worker' = [worker EXCEPT !.todo = @ \ {s}]
    BY <1>2 DEF RecoverRunning
  <2>2. CASE row[s] = "running" /\ RecoverParkedStep(s, worker.e, worker.c, "waiting_cli")
    BY <1>01, <2>1, <2>2, RecoverStepOrder
  <2>3. ASSUME SetAside, job' = job, status' = status PROVE JobsFit' /\ TaskFits'
    <3>1. WorkerFits' /\ worker'.ph = worker.ph
      BY <1>0, <1>01, <2>1, <2>3, AsideWorker DEF IInv, TypeOK
    <3>2. JobsFit'
      BY <1>0, <2>3, <3>1, AsideSteady, KeptSteady DEF JobsFit
    <3> QED
      BY <2>3, <3>1, <3>2, AsideKeeps
  <2>4. CASE /\ row[s] \in LiveStepStatuses /\ row' = [row EXCEPT ![s] = "pending"]
             /\ run' = [run EXCEPT ![s] = IF @ \in OpenRun THEN "none" ELSE @]
             /\ UNCHANGED <<status, epoch, cur, aim, job, resuming, undo>>
    <3>1. cur # 0
      BY <1>0, <2>4 DEF TaskFits, RunsFit, LiveStepStatuses
    <3>2. SetAside
      BY <1>0, <2>4, <3>1 DEF SetAside, Ended, LiveStepStatuses, ActiveStepStatuses, EndedRow
    <3> QED
      BY <2>3, <2>4, <3>2
  <2>5. CASE UNCHANGED <<status, epoch, cur, aim, row, run, job, resuming, undo>>
    <3>1. SetAside
      BY <2>5 DEF SetAside, Ended
    <3> QED
      BY <2>3, <2>5, <3>1
  <2>6. CASE /\ ~ChainHasMoved(worker.c, s) /\ epoch = worker.e
             /\ ResetStepAndDownstream(s, worker.e)
             /\ UNCHANGED <<status, cur, aim, resuming, undo>>
    <3>1. cur = s /\ cur # 0 /\ cur \in Ready /\ ~Ended /\ row[s] \notin EndedRow
      BY <1>0, <2>1, <2>6 DEF TaskFits, WorkerFits, ChainHasMoved
    <3>2. /\ epoch' = epoch + 1 /\ Enqueue("advance", s, epoch + 1)
          /\ row' = [t \in Steps |-> IF t \in {s} \cup NonPendingAfter(s) THEN "pending" ELSE row[t]]
          /\ run' = [t \in Steps |-> IF t \in {s} \cup NonPendingAfter(s) THEN "none" ELSE run[t]]
      BY <2>6 DEF ResetStepAndDownstream, ResetRows
    <3>3. \A t \in Steps : t < s => row'[t] = row[t]
      BY <3>2 DEF NonPendingAfter, Steps
    <3>4. \A t \in Ready : t <= s
      BY <3>1 DEF Ready, Steps
    <3>5. Ready \subseteq Ready'
      BY <1>0, <2>6, <3>3, <3>4 DEF Ready, Steps
    <3>6. ~Ended' /\ cur' = cur /\ cur' \in Ready'
      BY <2>6, <3>1, <3>5 DEF Ended
    <3>7. \A i \in Jobs : job'[i] = job[i] \/ JobFits(i)'
      BY <3>1, <3>2, <3>6, EnqueueBegins
    <3>8. Begins
      <4>1. worker'.e = worker.e /\ worker'.ph = worker.ph /\ worker'.todo \subseteq worker.todo
        BY <1>0, <2>1 DEF IInv, TypeOK
      <4> QED
        BY <1>0, <2>6, <3>1, <3>2, <3>5, <3>7, <4>1 DEF Begins, JobsFit, JobFits, Placed
    <3>9. RunsFit'
      BY <1>0, <2>6, <3>1, <3>2 DEF TaskFits, RunsFit
    <3>10. ActiveReady'
      <4>1. \A t \in Active' : t \in Active
        BY <3>2 DEF Active, ActiveStepStatuses
      <4> QED
        BY <1>0, <3>5, <4>1 DEF TaskFits, ActiveReady
    <3>11. CurReady' /\ CompletedMeansAllDone'
      BY <1>0, <2>6, <3>1, <3>6
         DEF TaskFits, CurReady, CompletedMeansAllDone, Ended, TerminalTaskStatuses
    <3> QED
      BY <3>8, <3>9, <3>10, <3>11, BeginsKeeps
  <2>7. CASE /\ epoch # worker.e /\ ResetStepAndDownstream(s, worker.e)
             /\ UNCHANGED <<status, cur, aim, resuming, undo>>
    BY <2>5, <2>7 DEF ResetStepAndDownstream
  <2> QED
    BY <1>2, <2>2, <2>4, <2>5, <2>6, <2>7 DEF RecoverRunning
<1>3. CASE SweepRedrive
  <2>1. /\ Redrive(cur) /\ cur # 0 /\ UNCHANGED <<status, cur, aim, row, run, resuming, worker>>
        /\ status \in {"running", "waiting_user"}
    BY <1>3 DEF SweepRedrive, LostAnswer
  <2> QED
    BY <1>00, <2>1, RedriveOrder
<1>4. CASE SweepLostRun
  <2>1. /\ RecoverParkedStep(cur, epoch, cur, row[cur]) /\ cur # 0 /\ worker' = worker
    BY <1>4 DEF SweepLostRun
  <2> QED
    BY <1>00, <2>1, RecoverStepOrder
<1>5. CASE Undo
  BY <1>0, <1>5 DEF Undo, TaskFits
<1> QED
  BY <1>1, <1>2, <1>3, <1>4, <1>5

-----------------------------------------------------------------------------
(* A restart at step s: the step is where the order begins again, and no other step is
   active. *)
LEMMA RestartOrder ==
    ASSUME OInv, IInv', EpochFenced, NEW s \in Steps, MoveTaskToStep(s),
           \A t \in Steps : row'[t] \in ActiveStepStatuses => t = s,
           \A t \in Steps : row'[t] = "none" => row[t] = "none" /\ run'[t] = "none",
           UserActions \cap {"retry", "retry_task", "skip", "retry_ai"} # {}
    PROVE  JobsFit' /\ TaskFits'
<1>0. IInv /\ JobsFit /\ TaskFits /\ 0 \notin Steps
  BY DEF OInv, Steps
<1>1. /\ status' = "running" /\ cur' = s /\ aim' = s /\ epoch' = epoch + 1
      /\ Enqueue("advance", s, epoch + 1) /\ UNCHANGED <<resuming, worker, undo>>
  BY DEF MoveTaskToStep
<1>2. s \in Ready' /\ cur' # 0
  BY <1>0, <1>1 DEF Ready, Steps
<1>3. \A i \in Jobs : job'[i] = job[i] \/ JobFits(i)'
  BY <1>1, <1>2, EnqueueBegins
<1>4. \A i \in Jobs : job[i].kind # "answer"
  BY <1>0 DEF EpochFenced, JobsFit, JobFits, Placed
<1>5. Begins
  BY <1>1, <1>2, <1>3, <1>4 DEF Begins
<1>6. RunsFit'
  BY <1>0, <1>1, <1>2 DEF TaskFits, RunsFit
<1>7. ActiveReady'
  BY <1>2 DEF ActiveReady, Active
<1>8. CurReady' /\ CompletedMeansAllDone'
  BY <1>1, <1>2 DEF CurReady, CompletedMeansAllDone, StartableTaskStatuses
<1> QED
  BY <1>5, <1>6, <1>7, <1>8, BeginsKeeps

(* The api's actions, and the job of a Cancel. *)
LEMMA ApiOrder ==
    ASSUME OInv, IInv', EpochFenced, "auto_resume" \in UserActions => ResumeFits,
           Api \/ CancelJob
    PROVE  JobsFit' /\ TaskFits'
<1> USE DEF taskVars, rowVars, envVars
<1>0. /\ IInv /\ JobsFit /\ TaskFits /\ row \in [Steps -> RowStatuses]
         /\ run \in [Steps -> RunStates]
      /\ job \in [Jobs -> JobRecords] /\ epoch \in Nat /\ status \in Statuses
  <2>1. IInv /\ JobsFit /\ TaskFits
    BY DEF OInv
  <2> QED
    BY <2>1 DEF IInv, TypeOK, JobRecords
<1>00. (cur # 0 => cur \in Steps) /\ 0 \notin Steps
  <2>1. cur \in 0..N
    BY <1>0 DEF IInv, TypeOK
  <2> QED
    BY <2>1, NAssumption DEF Steps
<1>01. ASSUME NEW s \in Steps, row[s] # "none" PROVE cur # 0
  BY <1>0, <1>01 DEF TaskFits, RunsFit
<1>1. CASE Start
  <2>1. /\ UNCHANGED <<epoch, cur, aim, undo, row, run, resuming, worker>>
        /\ status = "created" /\ status' = "queued"
    BY <1>1 DEF Start
  <2>2. SetAside
    BY <2>1 DEF SetAside, Ended, StartableTaskStatuses, TerminalTaskStatuses
  <2>3. PICK i \in Jobs : job' = [job EXCEPT ![i] = Queued("start", 1, NoEpoch)]
    BY <1>1 DEF Start, Enqueue, Free
  <2>4. /\ \A k \in Jobs : k # i => job'[k] = job[k]
        /\ job'[i] = Queued("start", 1, NoEpoch)
    BY <1>0, <2>3
  <2>5. JobFits(i)'
    BY <2>4, StartFits
  <2>6. JobsFit'
    BY <1>0, <2>1, <2>2, <2>4, <2>5, AsideSteady, OneJobFits
  <2> QED
    BY <2>1, <2>2, <2>6, AsideWorker, AsideKeeps DEF StartableTaskStatuses
<1>2. CASE Stop \/ CancelStops \/ CancelJob
  <2>1. /\ UNCHANGED <<epoch, cur, aim, undo, resuming, worker, job>>
        /\ status' \in {status, "failed"} /\ (status' # status => status \in OpenTaskStatuses)
    BY <1>2 DEF Stop, CancelStops, CancelJob, CancelEndsRows, CancelEndsRuns, OpenTaskStatuses
  <2>2. \A s \in Steps : \/ row'[s] = row[s]
                         \/ row[s] \in ActiveStepStatuses \cup {"pending"} /\ row'[s] = "failed"
    BY <1>2 DEF Stop, CancelStops, SupersedeLiveRuns, LiveRows, LiveStepStatuses, CancelJob,
       CancelEndsRows, CancelEndsRuns, OpenStepStatuses, ActiveStepStatuses
  <2>3. \A s \in Steps : run[s] = "none" => run'[s] = "none"
    BY <1>2 DEF Stop, CancelStops, SupersedeLiveRuns, CancelJob, CancelEndsRows, CancelEndsRuns
  <2>4. cur = 0 => row' = row
    <3>1. row' \in [Steps -> RowStatuses]
      BY DEF IInv, TypeOK
    <3>2. cur = 0 => \A s \in Steps : row'[s] = row[s]
      BY <1>01, <2>2 DEF ActiveStepStatuses
    <3> QED
      BY <1>0, <3>1, <3>2
  <2>5. SetAside
    BY <2>1, <2>2, <2>3, <2>4 DEF SetAside, Ended, LiveStepStatuses, ActiveStepStatuses, EndedRow,
       OpenTaskStatuses, StartableTaskStatuses, TerminalTaskStatuses
  <2>6. JobsFit'
    BY <1>0, <2>1, <2>5, AsideSteady, KeptSteady DEF JobsFit
  <2> QED
    BY <2>1, <2>5, <2>6, AsideWorker, AsideKeeps
<1>3. ASSUME NEW s \in Steps, Submit(s) PROVE JobsFit' /\ TaskFits'
  <2>1. /\ UNCHANGED <<epoch, cur, aim, undo, row, run, resuming, worker>>
        /\ row[s] = "waiting_form" /\ "submit" \in UserActions
        /\ status' = IF status = "failed" THEN "running" ELSE status
    BY <1>3 DEF Submit, Click
  <2>2. cur # 0 /\ s \in Ready /\ Ready' = Ready
    <3>1. s \in Active
      BY <2>1 DEF Active, ActiveStepStatuses
    <3> QED
      BY <1>0, <1>01, <2>1, <3>1 DEF TaskFits, ActiveReady, Ready
  <2>3. SetAside
    BY <2>1 DEF SetAside, Ended, StartableTaskStatuses, TerminalTaskStatuses
  <2>4. Ended' \/ cur' \in Ready'
    BY <1>0, <2>1, <2>2, <2>3 DEF TaskFits, CurReady, SetAside
  <2>5. PICK i \in Jobs : job' = [job EXCEPT ![i] = Queued("answer", s, NoEpoch)]
    BY <1>3 DEF Submit, Enqueue, Free
  <2>6. /\ \A k \in Jobs : k # i => job'[k] = job[k]
        /\ job'[i] = Queued("answer", s, NoEpoch)
    BY <1>0, <2>5
  <2>7. JobFits(i)'
    BY <2>1, <2>2, <2>6, AnswerFits
  <2>8. JobsFit'
    BY <1>0, <2>1, <2>3, <2>6, <2>7, AsideSteady, OneJobFits
  <2> QED
    BY <2>1, <2>3, <2>4, <2>8, AsideWorker, AsideKeeps
<1>4. CASE Cancel
  <2>1. /\ UNCHANGED <<cur, aim, undo, resuming, worker, job>>
        /\ status' = "cancelled" /\ epoch' = epoch + 1
    BY <1>4 DEF Cancel
  <2>2. \A s \in Steps : /\ row'[s] = row[s] \/ (row[s] \in ActiveStepStatuses \cup {"pending"} /\ row'[s] = "failed")
                         /\ run[s] = "none" => run'[s] = "none"
    BY <1>4 DEF Cancel, OpenStepStatuses
  <2>3. Ready \subseteq Ready'
    BY <1>0, <2>1, <2>2, ReadyGrows DEF Grows, ActiveStepStatuses, EndedRow
  <2>4. Begins
    BY <1>0, <2>1, <2>3 DEF Begins, JobsFit, JobFits, Placed
  <2>5. RunsFit'
    BY <1>0, <2>1, <2>2 DEF TaskFits, RunsFit, ActiveStepStatuses
  <2>6. ActiveReady'
    <3>1. Active' \subseteq Active
      BY <2>2 DEF Active, ActiveStepStatuses
    <3> QED
      BY <1>0, <2>3, <3>1 DEF TaskFits, ActiveReady
  <2>7. CurReady' /\ CompletedMeansAllDone'
    BY <2>1 DEF CurReady, CompletedMeansAllDone, Ended, TerminalTaskStatuses, StartableTaskStatuses
  <2> QED
    BY <2>4, <2>5, <2>6, <2>7, BeginsKeeps
<1>5. ASSUME NEW s \in Steps, RetryStep(s) PROVE JobsFit' /\ TaskFits'
  <2>1. /\ \A t \in Steps : row'[t] \in ActiveStepStatuses => t = s
        /\ \A t \in Steps : row'[t] = "none" => row[t] = "none" /\ run'[t] = "none"
    BY <1>0, <1>5 DEF RetryStep, ResetRows, Active, ActiveStepStatuses, TaskFits, RunsFit
  <2> QED
    BY <1>5, <2>1, RestartOrder DEF RetryStep, Click
<1>6. ASSUME NEW s \in Steps, Skip(s) PROVE JobsFit' /\ TaskFits'
  <2>1. /\ \A t \in Steps : row'[t] \in ActiveStepStatuses => t = s
        /\ \A t \in Steps : row'[t] = "none" => row[t] = "none" /\ run'[t] = "none"
    BY <1>0, <1>6 DEF Skip, Active, ActiveStepStatuses, TaskFits, RunsFit
  <2> QED
    BY <1>6, <2>1, RestartOrder DEF Skip, Click
<1>7. ASSUME NEW s \in Steps, RetryAi(s) PROVE JobsFit' /\ TaskFits'
  <2>1. /\ \A t \in Steps : row'[t] \in ActiveStepStatuses => t = s
        /\ \A t \in Steps : row'[t] = "none" => row[t] = "none" /\ run'[t] = "none"
    BY <1>0, <1>7 DEF RetryAi, Active, ActiveStepStatuses, TaskFits, RunsFit
  <2> QED
    BY <1>7, <2>1, RestartOrder DEF RetryAi, Click
<1>8. CASE RetryTask
  <2>0. "retry_task" \in UserActions
    BY <1>8 DEF RetryTask, RestartFromStart, Click
  <2>1. \A t \in Steps : /\ row'[t] \notin ActiveStepStatuses
                         /\ row'[t] = "none" => row[t] = "none" /\ run'[t] = "none"
                         /\ row[t] = "none" => row'[t] = "none" \/ row'[t] = "pending"
    BY <1>0, <1>8 DEF RetryTask, RestartFromStart, LiveRows, LiveStepStatuses, ActiveStepStatuses, TaskFits, RunsFit
  <2>2. CASE cur # 0 /\ row[cur] # "none"
    <3>1. MoveTaskToStep(cur)
      BY <1>8, <2>2 DEF RetryTask, RestartFromStart
    <3> QED
      BY <1>00, <2>0, <2>1, <2>2, <3>1, RestartOrder
  <2>3. CASE ~(cur # 0 /\ row[cur] # "none")
    <3>1. /\ UNCHANGED <<cur, resuming, worker, undo>>
          /\ status' = "queued" /\ epoch' = epoch + 1 /\ aim' = 1 /\ Enqueue("start", 1, NoEpoch)
          /\ \A t \in Steps : row[t] = "none" => row'[t] = "none"
      BY <1>8, <2>3 DEF RetryTask, RestartFromStart, LiveStepStatuses
    <3>2. PICK i \in Jobs : job' = [job EXCEPT ![i] = Queued("start", 1, NoEpoch)]
      BY <3>1 DEF Enqueue, Free
    <3>3. /\ \A k \in Jobs : k # i => job'[k] = job[k]
          /\ job'[i] = Queued("start", 1, NoEpoch)
      BY <1>0, <3>2
    <3>4. JobFits(i)'
      BY <3>3, StartFits
    <3>5. \A k \in Jobs : job[k].kind # "answer"
      BY <1>0, <2>0 DEF EpochFenced, JobsFit, JobFits, Placed
    <3>6. Begins
      BY <1>0, <3>1, <3>3, <3>4, <3>5 DEF Begins
    <3>7. RunsFit'
      BY <1>0, <2>1, <3>1 DEF TaskFits, RunsFit
    <3>8. CurReady'
      <4>1. cur # 0 => run'[cur] = "none" /\ cur \notin resuming'
        BY <1>0, <1>00, <2>1, <2>3, <3>1 DEF TaskFits, RunsFit
      <4> QED
        BY <2>0, <3>1, <4>1 DEF CurReady, StartableTaskStatuses, EpochFenced
    <3>9. ActiveReady' /\ CompletedMeansAllDone'
      BY <2>1, <3>1 DEF ActiveReady, Active, CompletedMeansAllDone
    <3> QED
      BY <3>6, <3>7, <3>8, <3>9, BeginsKeeps
  <2> QED
    BY <2>2, <2>3
<1>9. CASE AutoResume
  <2>1. /\ UNCHANGED <<epoch, cur, aim, undo, resuming, worker>> /\ cur # 0 /\ cur \in Steps
        /\ row[cur] = "failed" /\ row' = [row EXCEPT ![cur] = "running"]
        /\ \A s \in Steps : run'[s] \in {run[s], "none"}
        /\ status = "failed" /\ status' = "running"
        /\ "auto_resume" \in UserActions /\ worker.ph = "up" /\ Enqueue("advance", cur, epoch)
    BY <1>0, <1>00, <1>9 DEF AutoResume, Click, ResumeFits
  <2>2. Grows
    BY <1>0, <2>1 DEF Grows, EndedRow
  <2>3. cur \in Ready /\ Ready \subseteq Ready'
    <3>1. cur \in Ready
      BY <1>0, <2>1 DEF TaskFits, CurReady, Ended, TerminalTaskStatuses
    <3> QED
      BY <1>0, <2>2, <3>1, ReadyGrows
  <2>4. Steady
    BY <2>1, <2>2 DEF Steady, Ended, TerminalTaskStatuses
  <2>5. PICK i \in Jobs : job' = [job EXCEPT ![i] = Queued("advance", cur, epoch)]
    BY <2>1 DEF Enqueue, Free
  <2>6. /\ \A k \in Jobs : k # i => job'[k] = job[k]
        /\ job'[i] = Queued("advance", cur, epoch)
    BY <1>0, <2>5
  <2>7. JobFits(i)'
    <3>1. epoch \in Nat /\ epoch <= epoch' /\ cur' # 0 /\ cur' \in Ready'
      BY <1>0, <2>1, <2>3 DEF IInv, TypeOK
    <3> QED
      BY <2>1, <2>6, <3>1, AdvanceFits
  <2>8. JobsFit'
    BY <1>0, <2>1, <2>4, <2>6, <2>7, OneJobFits
  <2>9. RunsFit' /\ WorkerFits'
    BY <1>0, <2>1 DEF TaskFits, RunsFit, WorkerFits
  <2>10. \A s \in Active' : s \in Active \/ s \in Ready'
    BY <1>0, <2>1, <2>3 DEF Active
  <2>11. TaskFits'
    BY <1>0, <2>1, <2>3, <2>4, <2>9, <2>10, TaskSteady DEF StartableTaskStatuses
  <2> QED
    BY <2>8, <2>11
<1> QED
  BY <1>1, <1>2, <1>3, <1>4, <1>5, <1>6, <1>7, <1>8, <1>9 DEF Api

-----------------------------------------------------------------------------
(* The first state. *)
LEMMA InitOrder == Init => JobsFit /\ TaskFits
<1> SUFFICES ASSUME Init PROVE JobsFit /\ TaskFits
  OBVIOUS
<1>0. /\ status = "created" /\ epoch = 0 /\ cur = 0 /\ aim = 1 /\ resuming = {} /\ undo = NoEpoch
      /\ worker = Up
  BY Zenon DEF Init
<1>1. \A s \in Steps : row[s] = "none" /\ run[s] = "none"
  BY DEF Init
<1>2. \A j \in Jobs : job[j] = NoJob
  BY DEF Init
<1>3. JobsFit
  BY <1>0, <1>2 DEF JobsFit, JobFits, Stamped, Placed, PassReady, NotComing, NoJob, NoEpoch,
     RunningStages,
     HoldingStages
<1>4. RunsFit /\ WorkerFits
  BY <1>0, <1>1 DEF RunsFit, WorkerFits, Up
<1>5. ActiveReady /\ CurReady /\ CompletedMeansAllDone
  BY <1>0, <1>1 DEF ActiveReady, Active, ActiveStepStatuses, CurReady, CompletedMeansAllDone
<1> QED
  BY <1>0, <1>3, <1>4, <1>5 DEF TaskFits

(* Every step of the specification. *)
LEMMA NextOrder ==
    ASSUME EpochFenced, OInv, IInv', "auto_resume" \in UserActions => ResumeFits, [Next]_vars
    PROVE  JobsFit' /\ TaskFits'
<1>1. CASE UNCHANGED vars
  <2>1. SetAside /\ worker' = worker /\ status' = status /\ job' = job
    BY <1>1 DEF vars, SetAside, Ended
  <2>2. JobsFit'
    BY <2>1, AsideSteady, KeptSteady DEF JobsFit, OInv
  <2> QED
    BY <2>1, <2>2, AsideWorker, AsideKeeps
<1>2. CASE Next
  BY <1>2, JobOrder, QueueOrder, BootOrder, RecoveryOrder, ApiOrder DEF Next, Boot, Sweep, Faults
<1> QED
  BY <1>1, <1>2

(* The invariant gives the property: two steps that may be opened and have not ended are one. *)
LEMMA InOrder == ASSUME OInv PROVE StepsInOrder
<1>0. ActiveReady /\ CompletedMeansAllDone /\ aim \in Steps
  BY DEF OInv, TaskFits, IInv, TypeOK
<1>1. OpensInOrder
  <2> SUFFICES ASSUME NEW s \in Active, NEW t \in aim..(s - 1) PROVE row[t] \in EndedRow
    BY DEF OpensInOrder, EndedRow
  <2>1. s \in Steps /\ s \in Ready
    BY <1>0 DEF ActiveReady, Active
  <2>2. t \in Steps /\ aim <= t /\ t < s
    BY <1>0, <2>1, NAssumption DEF Steps
  <2> QED
    BY <2>1, <2>2 DEF Ready
<1>2. \A s, t \in Active : s = t
  BY <1>0 DEF ActiveReady, Active, Ready, EndedRow, ActiveStepStatuses, Steps
<1>3. OneActiveStep
  <2>1. CASE Active = {}
    BY <2>1, FS_EmptySet DEF OneActiveStep
  <2>2. CASE Active # {}
    <3>1. PICK s \in Active : TRUE
      BY <2>2
    <3>2. Active = {s}
      BY <1>2, <3>1
    <3>3. Cardinality({s}) = 1
      BY FS_Singleton
    <3> QED
      BY <3>2, <3>3 DEF OneActiveStep
  <2> QED
    BY <2>1, <2>2
<1> QED
  BY <1>0, <1>1, <1>3 DEF StepsInOrder

-----------------------------------------------------------------------------
(* What the usage poller resumes: every step keeps ResumeFits. *)

(* What the types give these proofs. *)
LEMMA PointerTypes ==
    ASSUME IInv
    PROVE  /\ job \in [Jobs -> JobRecords] /\ 0 \notin Steps /\ \A i \in Jobs : job[i].s \in Steps
           /\ row \in [Steps -> RowStatuses] /\ (cur # 0 => cur \in Steps)
<1>1. job \in [Jobs -> JobRecords] /\ row \in [Steps -> RowStatuses] /\ cur \in 0..N
  BY DEF IInv, TypeOK, JobRecords
<1>2. \A i \in Jobs : job[i].s \in Steps
  BY <1>1 DEF JobRecords
<1>3. 0 \notin Steps /\ (cur # 0 => cur \in Steps)
  BY <1>1, NAssumption DEF Steps
<1> QED
  BY <1>1, <1>2, <1>3

(* A step within the epoch that does not touch the pointer, nor a failed row it is on. *)
LEMMA ResumeStays ==
    ASSUME ResumeFits, epoch' = epoch, cur' = cur, watch' => watch,
           watch => status' = "failed" \/ ~watch',
           cur # 0 /\ row[cur] = "failed" => row'[cur] = "failed",
           worker'.todo # {} /\ worker'.e = epoch' => ~watch',
           \A j \in Jobs : job[j].s # 0,
           \A j \in Jobs : job'[j] = job[j] \/ AtCur(j)'
    PROVE  ResumeFits'
<1>1. ASSUME NEW j \in Jobs, job'[j] = job[j] PROVE AtCur(j)'
  BY <1>1 DEF ResumeFits, AtCur
<1>2. \A j \in Jobs : AtCur(j)'
  BY <1>1
<1> QED
  BY <1>2 DEF ResumeFits

(* A step that begins an epoch, of a task that waits for no provider. *)
LEMMA ResumeBegins ==
    ASSUME IInv, JobsFit, epoch' = epoch + 1, ~watch',
           \A j \in Jobs : job'[j] = job[j] \/ job'[j].pc = "wait"
    PROVE  ResumeFits'
<1>0. epoch \in Nat /\ \A j \in Jobs : job[j].ce \in Nat \cup {NoEpoch} /\ job[j].ce <= epoch
  BY DEF IInv, TypeOK, JobsFit, JobFits, Stamped
<1>1. ASSUME NEW j \in Jobs PROVE AtCur(j)'
  BY <1>0, <1>1 DEF AtCur, HoldingStages, NoEpoch
<1> QED
  BY <1>1 DEF ResumeFits

(* The pass j is alone: no other pass of the epoch is on the pointer. *)
LEMMA AloneAtCur ==
    ASSUME IInv, StartsAlone, ResumeFits, NEW j \in Jobs, NEW i \in Jobs, i # j,
           job[j].ce = epoch, job[j].pc \in HoldingStages \ {"next"}
    PROVE  ~(job[i].ce = epoch /\ job[i].pc \in (HoldingStages \ {"next"}) \cup {"hold"})
<1>1. job[j].s = cur
  BY DEF ResumeFits, AtCur
<1>2. job[i].pc # "hold"
  BY DEF StartsAlone, StartJob, HoldingStages
<1>3. job[i].ce = epoch /\ job[i].pc \in HoldingStages \ {"next"} => job[i].s = cur
  BY DEF ResumeFits, AtCur
<1> QED
  BY <1>1, <1>2, <1>3 DEF IInv, OnePassPerStep

(* The task fails at the pointer: by a pass of the epoch that is gone with it. *)
LEMMA ResumeFails ==
    ASSUME OInv, StartsAlone, ResumeFits, NEW j \in Jobs, Drop(j), FinishFailedStep(job[j].ce),
           job[j].pc \in HoldingStages \ {"next"},
           job[j].ce = epoch => row[job[j].s] = "failed",
           UNCHANGED <<epoch, cur, row, worker>>
    PROVE  ResumeFits'
<1>0. /\ IInv /\ job \in [Jobs -> JobRecords] /\ 0 \notin Steps /\ \A i \in Jobs : job[i].s \in Steps
      /\ worker.todo = {}
  <2>1. IInv
    BY DEF OInv
  <2>2. job[j].pc \in RunningStages
    BY DEF RunningStages
  <2> QED
    BY <2>1, <2>2, PassUp, PointerTypes
<1>1. \A i \in Jobs : i # j => job'[i] = job[i]
  BY <1>0 DEF Drop
<1>2. AtCur(j)'
  BY <1>0 DEF Drop, AtCur, NoJob, HoldingStages
<1>3. CASE job[j].ce = epoch /\ status = "running"
  <2>1. job[j].s = cur
    BY <1>3 DEF ResumeFits, AtCur
  <2>2. row'[cur] = "failed" /\ cur' # 0 /\ status' = "failed"
    BY <1>0, <1>3, <2>1 DEF FinishFailedStep
  <2>3. ASSUME NEW i \in Jobs, i # j PROVE AtCur(i)'
    BY <1>0, <1>1, <1>3, <2>3, AloneAtCur DEF AtCur
  <2> QED
    BY <1>0, <1>2, <2>2, <2>3 DEF ResumeFits
<1>4. CASE ~(job[j].ce = epoch /\ status = "running")
  <2>1. status' = status /\ (watch' => watch)
    <3>1. watch \in BOOLEAN
      BY <1>0 DEF IInv, TypeOK
    <3> QED
      BY <1>4, <3>1 DEF FinishFailedStep
  <2> QED
    BY <1>0, <1>1, <1>2, <2>1, ResumeStays DEF ResumeFits
<1> QED
  BY <1>3, <1>4

(* Steps of a job up to the claim of the task. *)
LEMMA PickupResumes ==
    ASSUME OInv, StartsAlone, ResumeFits, "auto_resume" \in UserActions, EpochFenced,
           NEW j \in Jobs,
           TakeStart(j) \/ ClaimStart(j) \/ TakeStepHold(j) \/ TakeAdvance(j) \/ Look(j)
             \/ Park(j) \/ Claim(j)
    PROVE  ResumeFits'
<1> USE DEF taskVars, rowVars, envVars
<1>0. /\ IInv /\ job \in [Jobs -> JobRecords] /\ 0 \notin Steps /\ \A i \in Jobs : job[i].s \in Steps
      /\ JobFits(j) /\ AtCur(j) /\ row \in [Steps -> RowStatuses] /\ (cur # 0 => cur \in Steps)
  <2>1. IInv /\ JobFits(j) /\ AtCur(j)
    BY DEF OInv, JobsFit, ResumeFits
  <2> QED
    BY <2>1, PointerTypes
<1>00. worker.todo # {} /\ worker.e = epoch => ~watch
  BY DEF ResumeFits
<1>01. job[j].kind # "answer"
  BY <1>0 DEF JobFits, Placed, EpochFenced
<1>02. watch => status = "failed" /\ cur # 0 /\ row[cur] = "failed"
  BY DEF ResumeFits
<1>03. ASSUME Drop(j) PROVE AtCur(j)' /\ \A i \in Jobs : i # j => job'[i] = job[i]
  BY <1>0, <1>03 DEF Drop, NoJob, AtCur, HoldingStages
<1>04. ASSUME NEW e, job' = [job EXCEPT ![j] = Queued("advance", job[j].s, e)]
       PROVE  AtCur(j)' /\ \A i \in Jobs : i # j => job'[i] = job[i]
  BY <1>0, <1>04 DEF Queued, AtCur, HoldingStages
<1> DEFINE Others == \A i \in Jobs : i # j => job'[i] = job[i]
<1>05. ASSUME UNCHANGED <<status, watch, epoch, cur, row, worker>>, Others, AtCur(j)'
             PROVE ResumeFits'
  BY <1>0, <1>00, <1>02, <1>05, ResumeStays
<1>1. CASE TakeStart(j)
  <2>1. UNCHANGED <<status, watch, epoch, cur, row, worker>> /\ Others /\ job'[j].pc = "start"
    BY <1>0, <1>1 DEF TakeStart
  <2> QED
    BY <1>05, <2>1 DEF AtCur, HoldingStages
<1>2. CASE ClaimStart(j)
  <2>1. CASE status \in StartableTaskStatuses /\ epoch = job[j].ce
    <3>1. /\ UNCHANGED <<watch, epoch, row, worker>> /\ cur' = 1 /\ cur = 0 /\ ~watch
          /\ \A i \in Jobs : StartJob(i)
      BY <1>02, <1>2, <2>1 DEF ClaimStart, StartsAlone, StartableTaskStatuses
    <3>2. Others /\ ((job'[j].pc = "hold" /\ job'[j].s = 1) \/ job'[j].pc = "wait")
      <4>1. job[j].s = 1
        BY <1>0, <1>2 DEF ClaimStart, JobFits, Stamped
      <4>2. \/ job' = [job EXCEPT ![j].pc = "hold"]
            \/ job' = [job EXCEPT ![j] = Queued("advance", 1, job[j].ce)]
        BY <1>2, <2>1 DEF ClaimStart
      <4> QED
        BY <1>0, <4>1, <4>2 DEF Queued, JobRecords
    <3>3. AtCur(j)'
      BY <3>1, <3>2 DEF AtCur, HoldingStages
    <3>4. ASSUME NEW i \in Jobs, i # j PROVE AtCur(i)'
      BY <3>1, <3>2, <3>4 DEF AtCur, HoldingStages, StartJob
    <3> QED
      BY <3>1, <3>3, <3>4 DEF ResumeFits
  <2>2. CASE ~(status \in StartableTaskStatuses /\ epoch = job[j].ce)
    BY <1>03, <1>05, <1>2, <2>2 DEF ClaimStart
  <2> QED
    BY <2>1, <2>2
<1>3. CASE TakeStepHold(j)
  <2>1. /\ UNCHANGED <<status, watch, epoch, cur, row, worker>> /\ Others /\ job[j].pc = "hold"
        /\ job'[j].pc = "open" /\ job'[j].s = 1 /\ job'[j].ce = job[j].ce
    BY <1>0, <1>3 DEF TakeStepHold
  <2>2. job[j].s = 1
    BY <1>0, <2>1 DEF JobFits, Stamped
  <2> QED
    BY <1>0, <1>05, <2>1, <2>2 DEF AtCur
<1>4. CASE TakeAdvance(j)
  <2>1. UNCHANGED <<status, watch, epoch, cur, row, worker>>
    BY <1>4 DEF TakeAdvance
  <2>2. CASE Drop(j)
    BY <1>03, <1>05, <2>1, <2>2
  <2>3. CASE ~Drop(j)
    <3>0. /\ job[j].pc = "wait" /\ job[j].kind # "start" /\ ~ChainHasMoved(cur, job[j].s)
          /\ job' = [job EXCEPT ![j].pc = "look", ![j].ce = epoch, ![j].cs = status,
                               ![j].cc = cur]
      BY <1>01, <1>4, <2>3 DEF TakeAdvance
    <3>1. Others /\ job'[j].pc = "look" /\ job'[j].s = job[j].s
      BY <1>0, <3>0 DEF JobRecords
    <3>2. job'[j].s = cur'
      BY <1>0, <2>1, <3>0, <3>1 DEF JobFits, Placed, ChainHasMoved
    <3> QED
      BY <1>05, <2>1, <3>1, <3>2 DEF AtCur
  <2> QED
    BY <2>2, <2>3
<1>5. CASE Look(j)
  <2>1. UNCHANGED <<epoch, cur, row, worker>> /\ job[j].pc = "look"
    BY <1>5 DEF Look
  <2>2. CASE Drop(j) /\ UNCHANGED <<status, watch>>
    BY <1>03, <1>05, <2>1, <2>2
  <2>3. CASE row[job[j].s] = "failed" /\ Drop(j) /\ FinishFailedStep(job[j].ce)
    BY <2>1, <2>3, ResumeFails DEF HoldingStages
  <2>4. CASE /\ HandsBack(job[j]) /\ UNCHANGED <<status, watch>>
             /\ job' = [job EXCEPT ![j].pc = "result", ![j].res = row[job[j].s], ![j].cc = 0]
    <3>1. /\ Others /\ job'[j].pc = "result" /\ job'[j].s = job[j].s /\ job'[j].ce = job[j].ce
          /\ job'[j].res = row[job[j].s]
      BY <1>0, <2>4
    <3>2. row[job[j].s] # "failed"
      BY <2>4 DEF HandsBack, StaleSubmit
    <3> QED
      BY <1>0, <1>02, <1>05, <2>1, <2>4, <3>1, <3>2 DEF AtCur, HoldingStages
  <2>5. CASE /\ row[job[j].s] # "failed" /\ UNCHANGED <<status, watch>>
             /\ job' = [job EXCEPT ![j].pc = "claim", ![j].cc = 0]
    <3>1. Others /\ job'[j].pc = "claim" /\ job'[j].s = job[j].s /\ job'[j].ce = job[j].ce
      BY <1>0, <2>5
    <3> QED
      BY <1>0, <1>02, <1>05, <2>1, <2>5, <3>1 DEF AtCur, HoldingStages
  <2> QED
    BY <1>5, <2>2, <2>3, <2>4, <2>5 DEF Look
<1>6. CASE Park(j) \/ Claim(j)
  <2>1. /\ UNCHANGED <<epoch, watch, worker>> /\ job[j].pc = "claim"
        /\ job[j].pc \in (HoldingStages \ {"next"}) \cup {"hold"}
    BY <1>6 DEF Park, Claim, HoldingStages
  <2>2. CASE Drop(j) /\ UNCHANGED <<row, status, cur>>
    BY <1>03, <1>05, <2>1, <2>2
  <2>3. CASE ~(Drop(j) /\ UNCHANGED <<row, status, cur>>)
    <3>1. job[j].ce = epoch /\ cur' = job[j].s
      BY <1>6, <2>3 DEF Park, Claim, TaskWriteTarget
    <3>2. cur' = cur /\ ~watch
      BY <1>0, <2>1, <3>1 DEF AtCur
    <3>3. row' = row \/ (row[job[j].s] # "failed" /\ row' = [row EXCEPT ![job[j].s] = "pending"])
      BY <1>6, <2>3 DEF Park, Claim
    <3>4. cur # 0 /\ row[cur] = "failed" => row'[cur] = "failed"
      BY <1>0, <3>3
    <3>5. AtCur(j)' /\ Others
      <4>1. CASE Park(j)
        BY <1>04, <2>3, <4>1 DEF Park
      <4>2. CASE Claim(j)
        <5>0. job' = [job EXCEPT ![j].pc = "open", ![j].cs = "created"]
          BY <2>1, <2>3, <4>2 DEF Claim
        <5>1. Others /\ job'[j].pc = "open" /\ job'[j].s = job[j].s
          BY <1>0, <5>0 DEF JobRecords
        <5> QED
          BY <2>1, <3>1, <3>2, <5>1 DEF AtCur
      <4> QED
        BY <1>6, <4>1, <4>2
    <3> QED
      BY <1>0, <2>1, <3>2, <3>4, <3>5, ResumeStays
  <2> QED
    BY <2>2, <2>3
<1> QED
  BY <1>1, <1>2, <1>3, <1>4, <1>5, <1>6

(* Steps of a pass at work. *)
LEMMA WorkResumes ==
    ASSUME OInv, StartsAlone, ResumeFits, NEW j \in Jobs,
           Open(j) \/ Finish(j) \/ FailStep(j) \/ ReleaseStepAgents(j) \/ AskForm(j)
             \/ Dispatch(j) \/ KeepWaiting(j) \/ Superseded(j)
    PROVE  ResumeFits'
<1> USE DEF taskVars, rowVars, envVars
<1>0. /\ IInv /\ job \in [Jobs -> JobRecords] /\ 0 \notin Steps /\ \A i \in Jobs : job[i].s \in Steps
      /\ AtCur(j) /\ row \in [Steps -> RowStatuses] /\ (cur # 0 => cur \in Steps)
  <2>1. IInv /\ AtCur(j)
    BY DEF OInv, ResumeFits
  <2> QED
    BY <2>1, PointerTypes
<1>00. worker.todo # {} /\ worker.e = epoch => ~watch
  BY DEF ResumeFits
<1>02. watch => status = "failed" /\ cur # 0 /\ row[cur] = "failed"
  BY DEF ResumeFits
<1>1. UNCHANGED <<status, watch, epoch, cur, worker>> /\ job[j].pc \in {"open", "work", "release"}
  BY DEF Open, Finish, FailStep, ReleaseStepAgents, AskForm, Dispatch, KeepWaiting, Superseded
<1>2. row' = row \/ (row[job[j].s] # "failed" /\ \E r : row' = [row EXCEPT ![job[j].s] = r])
  BY DEF Open, Finish, FailStep, ReleaseStepAgents, AskForm, Dispatch, KeepWaiting, Superseded,
     EndPass,
     Owned, LiveStepStatuses
<1>3. cur # 0 /\ row[cur] = "failed" => row'[cur] = "failed"
  BY <1>0, <1>2
<1>4. \/ Drop(j)
      \/ job' = [job EXCEPT ![j].pc = "work"]
      \/ job[j].pc = "release" /\ job' = [job EXCEPT ![j].pc = "result"] /\ row' = row
      \/ \E r : /\ job' = [job EXCEPT ![j].pc = "result", ![j].res = r]
                /\ r = "failed" => row'[job[j].s] = "failed"
      \/ \E p \in {"release", "result"} :
            /\ job' = [job EXCEPT ![j].pc = p, ![j].res = "failed"]
            /\ row'[job[j].s] = "failed"
  <2>1. CASE Open(j)
    <3>1. ASSUME row[job[j].s] \in {"done", "skipped", "failed"} \/ row[job[j].s] = "waiting_form",
                 job' = [job EXCEPT ![j].pc = "result", ![j].res = row[job[j].s]], row' = row
          PROVE  \E r : /\ job' = [job EXCEPT ![j].pc = "result", ![j].res = r]
                        /\ r = "failed" => row'[job[j].s] = "failed"
      BY <3>1
    <3>2. \/ Drop(j) \/ job' = [job EXCEPT ![j].pc = "work"]
          \/ job' = [job EXCEPT ![j].pc = "result", ![j].res = "skipped"]
          \/ /\ row[job[j].s] \in {"done", "skipped", "failed"} \/ row[job[j].s] = "waiting_form"
             /\ job' = [job EXCEPT ![j].pc = "result", ![j].res = row[job[j].s]] /\ row' = row
      BY <2>1 DEF Open
    <3>3. "skipped" # "failed"
      OBVIOUS
    <3> QED
      BY <3>1, <3>2, <3>3
  <2>2. CASE FailStep(j)
    BY <1>0, <2>2 DEF FailStep
  <2>3. CASE ReleaseStepAgents(j)
    BY <2>3 DEF ReleaseStepAgents
  <2>4. CASE Finish(j) \/ AskForm(j) \/ Dispatch(j) \/ KeepWaiting(j) \/ Superseded(j)
    <3>1. Drop(j) \/ \E r : r # "failed" /\ job' = [job EXCEPT ![j].pc = "result", ![j].res = r]
      BY <2>4 DEF Finish, AskForm, Dispatch, KeepWaiting, Superseded, EndPass
    <3> QED
      BY <3>1
  <2> QED
    BY <2>1, <2>2, <2>3, <2>4
<1>5. AtCur(j)' /\ \A i \in Jobs : i # j => job'[i] = job[i]
  <2>1. CASE Drop(j)
    BY <1>0, <2>1 DEF Drop, NoJob, AtCur, HoldingStages
  <2>2. CASE ~Drop(j)
    <3>1. /\ \A i \in Jobs : i # j => job'[i] = job[i]
          /\ job'[j].s = job[j].s /\ job'[j].ce = job[j].ce
          /\ job'[j].pc \in {"release", "result"} /\ job'[j].res = "failed" =>
                \/ row'[job[j].s] = "failed"
                \/ job[j].pc = "release" /\ job[j].res = "failed" /\ row' = row
      <4>1. CASE job' = [job EXCEPT ![j].pc = "work"]
        BY <1>0, <4>1 DEF JobRecords
      <4>2. CASE job[j].pc = "release" /\ job' = [job EXCEPT ![j].pc = "result"] /\ row' = row
        BY <1>0, <4>2 DEF JobRecords
      <4>3. ASSUME NEW p, NEW r, job' = [job EXCEPT ![j].pc = p, ![j].res = r],
                   r = "failed" => row'[job[j].s] = "failed"
            PROVE  /\ \A i \in Jobs : i # j => job'[i] = job[i]
                   /\ job'[j].s = job[j].s /\ job'[j].ce = job[j].ce
                   /\ job'[j].res = "failed" => row'[job[j].s] = "failed"
        BY <1>0, <4>3 DEF JobRecords
      <4> QED
        BY <1>4, <2>2, <4>1, <4>2, <4>3
    <3> QED
      BY <1>0, <1>1, <3>1 DEF AtCur, HoldingStages
  <2> QED
    BY <2>1, <2>2
<1> QED
  BY <1>0, <1>00, <1>02, <1>1, <1>3, <1>5, ResumeStays

(* The end of a pass, and a job that throws. *)
LEMMA ResultResumes ==
    ASSUME OInv, StartsAlone, ResumeFits, NEW j \in Jobs, Result(j) \/ HandOff(j) \/ Throw(j)
    PROVE  ResumeFits'
<1> USE DEF taskVars, rowVars, envVars
<1>0. /\ IInv /\ job \in [Jobs -> JobRecords] /\ 0 \notin Steps /\ \A i \in Jobs : job[i].s \in Steps
      /\ AtCur(j) /\ row \in [Steps -> RowStatuses] /\ (cur # 0 => cur \in Steps)
  <2>1. IInv /\ AtCur(j)
    BY DEF OInv, ResumeFits
  <2> QED
    BY <2>1, PointerTypes
<1>00. worker.todo # {} /\ worker.e = epoch => ~watch
  BY DEF ResumeFits
<1>02. watch => status = "failed" /\ cur # 0 /\ row[cur] = "failed"
  BY DEF ResumeFits
<1>03. ASSUME Drop(j) PROVE AtCur(j)' /\ \A i \in Jobs : i # j => job'[i] = job[i]
  BY <1>0, <1>03 DEF Drop, NoJob, AtCur, HoldingStages
<1>04. ASSUME NEW k, NEW s, NEW e, job' = [job EXCEPT ![j] = Queued(k, s, e)]
       PROVE  AtCur(j)' /\ \A i \in Jobs : i # j => job'[i] = job[i]
  BY <1>0, <1>04 DEF Queued, AtCur, HoldingStages
<1>1. CASE Result(j)
  <2>0. UNCHANGED <<epoch, worker>> /\ job[j].pc = "result"
        /\ job[j].pc \in HoldingStages \ {"next"}
    BY <1>1 DEF Result, HoldingStages
  <2>1. CASE Drop(j) /\ UNCHANGED <<status, watch, cur, row>>
    BY <1>0, <1>00, <1>02, <1>03, <2>0, <2>1, ResumeStays
  <2>2. CASE /\ job[j].res = "failed" /\ FinishFailedStep(job[j].ce) /\ Drop(j)
             /\ UNCHANGED <<cur, row>>
    <3>1. job[j].ce = epoch => row[job[j].s] = "failed"
      BY <1>0, <2>0, <2>2 DEF AtCur
    <3>2. UNCHANGED <<epoch, cur, row, worker>>
      BY <2>0, <2>2
    <3> QED
      BY <2>0, <2>2, <3>1, <3>2, ResumeFails
  <2>3. CASE /\ TaskWriteTarget(job[j].ce, FALSE) /\ cur' = Successor(job[j].s)
             /\ job' = [job EXCEPT ![j].pc = "next"] /\ UNCHANGED <<watch, row>>
    <3>1. job[j].ce = epoch /\ ~watch
      BY <1>02, <2>3 DEF TaskWriteTarget
    <3>2. job'[j].pc = "next" /\ \A i \in Jobs : i # j => job'[i] = job[i]
      BY <1>0, <2>3 DEF JobRecords
    <3>3. ASSUME NEW i \in Jobs PROVE AtCur(i)'
      BY <1>0, <2>0, <3>1, <3>2, <3>3, AloneAtCur DEF AtCur, HoldingStages
    <3> QED
      BY <2>3, <3>1, <3>3 DEF ResumeFits
  <2>4. CASE /\ TaskWriteTarget(job[j].ce, FALSE) /\ cur' \in {cur, job[j].s} /\ Drop(j)
             /\ watch' = watch
             /\ row' = row \/ row' = [row EXCEPT ![job[j].s] = IF @ = "running" THEN "waiting_cli" ELSE @]
    <3>1. job[j].ce = epoch /\ ~watch
      BY <1>02, <2>4 DEF TaskWriteTarget
    <3>2. cur' = cur
      BY <1>0, <2>0, <2>4, <3>1 DEF AtCur
    <3>3. cur # 0 /\ row[cur] = "failed" => row'[cur] = "failed"
      BY <1>0, <2>4
    <3> QED
      BY <1>0, <1>03, <2>0, <2>4, <3>1, <3>2, <3>3, ResumeStays
  <2> QED
    BY <1>1, <2>1, <2>2, <2>3, <2>4 DEF Result
<1>2. CASE HandOff(j)
  BY <1>0, <1>00, <1>02, <1>04, <1>2, ResumeStays DEF HandOff
<1>3. CASE Throw(j)
  <2>1. /\ UNCHANGED <<epoch, cur, watch, row, worker>>
        /\ Drop(j) \/ job' = [job EXCEPT ![j] = Queued(job[j].kind, job[j].s, job[j].e)]
        /\ status' \in {status, "failed"}
    BY <1>3 DEF Throw, Drop
  <2> QED
    BY <1>0, <1>00, <1>02, <1>03, <1>04, <2>1, ResumeStays
<1> QED
  BY <1>1, <1>2, <1>3

(* The queue, the agents and the faults. *)
LEMMA QueueResumes ==
    ASSUME OInv, StartsAlone, ResumeFits,
           \/ \E j \in Jobs : Redeliver(j) \/ LoseJob(j) \/ Duplicate(j)
           \/ \E s \in Steps : CliEnd(s) \/ CliCheck(s) \/ CliResume(s) \/ LoseRun(s)
           \/ Crash \/ SweepStart \/ Start
    PROVE  ResumeFits'
<1> USE DEF taskVars, rowVars, envVars
<1>0. /\ IInv /\ job \in [Jobs -> JobRecords] /\ 0 \notin Steps /\ \A i \in Jobs : job[i].s \in Steps
      /\ (watch => status = "failed" /\ cur # 0 /\ row[cur] = "failed")
      /\ (worker.todo # {} /\ worker.e = epoch => ~watch)
  <2>1. IInv
    BY DEF OInv
  <2> QED
    BY <2>1, PointerTypes DEF ResumeFits
<1>1. UNCHANGED <<epoch, cur, watch, row>> /\ (watch => status' = "failed")
  BY <1>0 DEF Redeliver, LoseJob, Duplicate, CliEnd, CliCheck, CliResume, LoseRun, Crash,
     SweepStart, Start
<1>2. worker' = worker \/ worker'.todo = {}
  BY DEF Redeliver, LoseJob, Duplicate, CliEnd, CliCheck, CliResume, LoseRun, Crash, SweepStart,
     Start,
     Down, Up
<1>3. \A i \in Jobs : job'[i] = job[i] \/ job'[i].pc \in {"free", "wait", "orphan"}
  <2>1. CASE Crash
    BY <1>0, <2>1 DEF Crash, Queued
  <2>2. CASE ~Crash
    <3>1. \/ job' = job
          \/ \E k \in Jobs : \/ job' = [job EXCEPT ![k] = NoJob]
                             \/ job' = [job EXCEPT ![k].pc = "wait"]
                             \/ \E kind, s, e : job' = [job EXCEPT ![k] = Queued(kind, s, e)]
      BY <2>2 DEF Redeliver, LoseJob, Duplicate, CliEnd, CliCheck, CliResume, LoseRun, SweepStart,
         Start,
         Drop, Enqueue, Free
    <3> QED
      BY <1>0, <3>1 DEF NoJob, Queued, JobRecords
  <2> QED
    BY <2>1, <2>2
<1>4. \A i \in Jobs : job'[i] = job[i] \/ AtCur(i)'
  BY <1>3 DEF AtCur, HoldingStages
<1> QED
  BY <1>0, <1>1, <1>2, <1>4, ResumeStays

(* Boot reads what is to be recovered only of a running task. *)
LEMMA BootResumes ==
    ASSUME OInv, StartsAlone, ResumeFits, BootParked \/ BootRunning \/ BootDone
    PROVE  ResumeFits'
<1> USE DEF taskVars, rowVars, envVars
<1>0. /\ IInv /\ \A i \in Jobs : job[i].s # 0
      /\ (watch => status = "failed" /\ cur # 0 /\ row[cur] = "failed")
  <2>1. IInv
    BY DEF OInv
  <2> QED
    BY <2>1, PointerTypes DEF ResumeFits
<1>1. UNCHANGED <<status, epoch, cur, watch, row, job>>
  BY DEF BootParked, BootRunning, BootDone
<1>2. status # "running" => worker'.todo = {}
  BY DEF BootParked, BootRunning, BootDone, ReadOrphans, Up
<1> QED
  BY <1>0, <1>1, <1>2, ResumeStays

(* A re-drive, of a task that waits for no provider. *)
LEMMA RedriveResumes ==
    ASSUME OInv, EpochFenced, ResumeFits, NEW s \in Steps, Redrive(s), watch' = watch, ~watch
    PROVE  ResumeFits'
<1>0. IInv /\ JobsFit /\ job \in [Jobs -> JobRecords]
  <2>1. IInv /\ JobsFit
    BY DEF OInv
  <2> QED
    BY <2>1, PointerTypes
<1>1. epoch' = epoch + 1 /\ Enqueue("advance", s, epoch + 1)
  BY DEF Redrive, EpochFenced, Fault
<1>2. \A i \in Jobs : job'[i] = job[i] \/ job'[i].pc = "wait"
  BY <1>0, <1>1 DEF Enqueue, Free, Queued
<1> QED
  BY <1>0, <1>1, <1>2, ResumeBegins

(* One step of a recovery. *)
LEMMA RecoverStepResumes ==
    ASSUME OInv, EpochFenced, ResumeFits, NEW s \in Steps, NEW e, NEW c, NEW rowNow,
           RecoverParkedStep(s, e, c, rowNow), rowNow = row[s] \/ row[s] = "running",
           worker'.e = worker.e, worker'.todo \subseteq worker.todo
    PROVE  ResumeFits'
<1>0. /\ IInv /\ \A i \in Jobs : job[i].s # 0
      /\ row \in [Steps -> RowStatuses] /\ (cur # 0 => cur \in Steps)
      /\ (watch => status = "failed" /\ cur # 0 /\ row[cur] = "failed")
      /\ (worker.todo # {} /\ worker.e = epoch => ~watch)
  <2>1. IInv
    BY DEF OInv
  <2> QED
    BY <2>1, PointerTypes DEF ResumeFits
<1>1. UNCHANGED <<status, cur, watch>>
  BY DEF RecoverParkedStep
<1>2. CASE Redrive(s) /\ status = "running"
  BY <1>0, <1>1, <1>2, RedriveResumes
<1>3. CASE ~(Redrive(s) /\ status = "running")
  <2>1. UNCHANGED <<epoch, job>>
    BY <1>3 DEF RecoverParkedStep
  <2>2. row' = row \/ (row[s] # "failed" /\ \E r : row' = [row EXCEPT ![s] = r])
    <3>1. row' = [row EXCEPT ![s] = rowNow]
            \/ (rowNow \in LiveStepStatuses /\ row' = [row EXCEPT ![s] = "pending"])
      BY DEF RecoverParkedStep
    <3> QED
      BY <1>0, <3>1 DEF LiveStepStatuses
  <2>3. cur # 0 /\ row[cur] = "failed" => row'[cur] = "failed"
    BY <1>0, <2>2
  <2>4. worker'.todo # {} /\ worker'.e = epoch' => ~watch'
    BY <1>0, <1>1, <2>1
  <2> QED
    BY <1>0, <1>1, <2>1, <2>3, <2>4, ResumeStays
<1> QED
  BY <1>2, <1>3

(* Boot's recovery and the sweep. *)
LEMMA RecoveryResumes ==
    ASSUME OInv, StartsAlone, EpochFenced, ResumeFits,
           \/ \E s \in Steps : RecoverParked(s) \/ RecoverRunning(s)
           \/ SweepRedrive \/ SweepFailed \/ SweepLostRun
    PROVE  ResumeFits'
<1> USE DEF taskVars, rowVars, envVars
<1>0. /\ IInv /\ JobsFit /\ \A i \in Jobs : job[i].s # 0
      /\ job \in [Jobs -> JobRecords] /\ row \in [Steps -> RowStatuses]
         /\ (cur # 0 => cur \in Steps)
      /\ (watch => status = "failed" /\ cur # 0 /\ row[cur] = "failed")
      /\ (worker.todo # {} /\ worker.e = epoch => ~watch)
  <2>1. IInv /\ JobsFit
    BY DEF OInv
  <2> QED
    BY <2>1, PointerTypes DEF ResumeFits
<1>1. ASSUME NEW s \in Steps, worker' = [worker EXCEPT !.todo = @ \ {s}]
      PROVE  worker'.e = worker.e /\ worker'.todo \subseteq worker.todo
  <2>1. worker \in [ph : {"up", "down", "parked", "running"}, e : Nat, c : 0..N, todo : SUBSET Steps]
    BY <1>0 DEF IInv, TypeOK
  <2> QED
    BY <1>1, <2>1
<1>2. ASSUME NEW s \in Steps, RecoverParked(s) PROVE ResumeFits'
  BY <1>1, <1>2, RecoverStepResumes DEF RecoverParked
<1>3. ASSUME NEW s \in Steps, RecoverRunning(s) PROVE ResumeFits'
  <2>1. worker'.e = worker.e /\ worker'.todo \subseteq worker.todo /\ s \in worker.todo
    BY <1>1, <1>3 DEF RecoverRunning
  <2>2. CASE row[s] = "running" /\ RecoverParkedStep(s, worker.e, worker.c, "waiting_cli")
    BY <2>1, <2>2, RecoverStepResumes
  <2>3. CASE ResetStepAndDownstream(s, worker.e) /\ epoch = worker.e /\ watch' = watch
    <3>1. epoch' = epoch + 1 /\ Enqueue("advance", s, epoch + 1) /\ ~watch'
      BY <1>0, <2>1, <2>3 DEF ResetStepAndDownstream
    <3>2. \A i \in Jobs : job'[i] = job[i] \/ job'[i].pc = "wait"
      BY <1>0, <3>1 DEF Enqueue, Free, Queued
    <3> QED
      BY <1>0, <3>1, <3>2, ResumeBegins
  <2>4. CASE /\ UNCHANGED <<status, epoch, cur, watch, job>>
             /\ row' = row \/ (row[s] \in LiveStepStatuses /\ row' = [row EXCEPT ![s] = "pending"])
    <3>1. cur # 0 /\ row[cur] = "failed" => row'[cur] = "failed"
      BY <1>0, <2>4 DEF LiveStepStatuses
    <3>2. worker'.todo # {} /\ worker'.e = epoch' => ~watch'
      BY <1>0, <2>1, <2>4
    <3> QED
      BY <1>0, <2>4, <3>1, <3>2, ResumeStays
  <2> QED
    BY <1>3, <2>2, <2>3, <2>4 DEF RecoverRunning, ResetStepAndDownstream
<1>4. CASE SweepRedrive
  <2>1. cur \in Steps /\ Redrive(cur) /\ watch' = watch /\ status \in {"running", "waiting_user"}
    BY <1>0, <1>4 DEF SweepRedrive, LostAnswer
  <2> QED
    BY <1>0, <2>1, RedriveResumes
<1>5. CASE SweepLostRun
  <2>1. cur \in Steps /\ RecoverParkedStep(cur, epoch, cur, row[cur]) /\ worker' = worker
    BY <1>0, <1>5 DEF SweepLostRun
  <2> QED
    BY <2>1, RecoverStepResumes
<1>6. CASE SweepFailed
  <2>1. /\ UNCHANGED <<epoch, cur, row, job, worker>> /\ status' = "failed" /\ cur # 0
           /\ cur \in Steps
        /\ row[cur] = "failed" /\ worker.todo = {} /\ ~Held(cur)
    <3>1. worker.ph = "up" => worker.todo = {}
      BY DEF OInv, TaskFits, WorkerFits
    <3> QED
      BY <1>0, <1>6, <3>1 DEF SweepFailed, FinishFailedStep
  <2>2. ASSUME NEW j \in Jobs
              PROVE ~(job[j].ce = epoch /\ job[j].pc \in (HoldingStages \ {"next"}) \cup {"hold"})
    <3>1. job[j].pc # "hold"
      BY <2>1 DEF StartsAlone, NothingBegun
    <3>2. job[j].ce = epoch /\ job[j].pc \in HoldingStages \ {"next"} => job[j].s = cur
      BY DEF ResumeFits, AtCur
    <3> QED
      BY <2>1, <3>1, <3>2 DEF Held
  <2>3. \A j \in Jobs : AtCur(j)'
    BY <2>1, <2>2 DEF AtCur
  <2> QED
    BY <2>1, <2>3 DEF ResumeFits
<1> QED
  BY <1>2, <1>3, <1>4, <1>5, <1>6

(* The api. *)
LEMMA ApiResumes ==
    ASSUME OInv, StartsAlone, EpochFenced, ResumeFits, "auto_resume" \in UserActions,
           Api \/ CancelJob
    PROVE  ResumeFits'
<1> USE DEF taskVars, rowVars, envVars
<1>0. /\ IInv /\ JobsFit /\ \A i \in Jobs : job[i].s # 0
      /\ job \in [Jobs -> JobRecords] /\ row \in [Steps -> RowStatuses]
         /\ (cur # 0 => cur \in Steps)
      /\ (watch => status = "failed" /\ cur # 0 /\ row[cur] = "failed")
      /\ (worker.todo # {} /\ worker.e = epoch => ~watch)
  <2>1. IInv /\ JobsFit
    BY DEF OInv
  <2> QED
    BY <2>1, PointerTypes DEF ResumeFits
<1>01. ASSUME NEW k, NEW s, NEW e, Enqueue(k, s, e)
       PROVE  \A i \in Jobs : job'[i] = job[i] \/ job'[i].pc = "wait"
  BY <1>0, <1>01 DEF Enqueue, Free, Queued
<1>1. CASE Start
  BY <1>1, QueueResumes
<1>2. CASE Stop \/ CancelStops \/ CancelJob
  <2>1. UNCHANGED <<epoch, cur, watch, job, worker>> /\ (status = "failed" => status' = "failed")
    BY <1>2 DEF Stop, CancelStops, CancelJob, CancelEndsRows, CancelEndsRuns
  <2>2. \A s \in Steps : row[s] = "failed" => row'[s] = "failed"
    BY <1>2 DEF Stop, CancelStops, SupersedeLiveRuns, CancelJob, CancelEndsRows, CancelEndsRuns
  <2> QED
    BY <1>0, <2>1, <2>2, ResumeStays
<1>3. CASE Cancel
  BY <1>0, <1>3, ResumeBegins DEF Cancel
<1>4. ASSUME NEW s \in Steps, RetryStep(s) \/ Skip(s) \/ RetryAi(s) PROVE ResumeFits'
  <2>1. MoveTaskToStep(s)
    BY <1>4 DEF RetryStep, Skip, RetryAi
  <2>2. epoch' = epoch + 1 /\ ~watch' /\ Enqueue("advance", s, epoch + 1)
    BY <2>1 DEF MoveTaskToStep
  <2> QED
    BY <1>0, <1>01, <2>2, ResumeBegins
<1>5. CASE AutoResume
  <2>1. /\ UNCHANGED <<epoch, cur, worker>> /\ ~watch' /\ watch /\ Enqueue("advance", cur, epoch)
    BY <1>5 DEF AutoResume
  <2>2. ASSUME NEW j \in Jobs PROVE AtCur(j)'
    <3>1. AtCur(j) /\ (job'[j] = job[j] \/ job'[j].pc = "wait")
      BY <1>01, <2>1 DEF ResumeFits
    <3> QED
      BY <2>1, <3>1 DEF AtCur, HoldingStages
  <2> QED
    BY <2>1, <2>2 DEF ResumeFits
<1>6. ~RetryTask /\ \A s \in Steps : ~Submit(s)
  BY DEF RetryTask, Submit, Click, EpochFenced
<1> QED
  BY <1>1, <1>2, <1>3, <1>4, <1>5, <1>6 DEF Api

(* Every step. *)
LEMMA NextResumes ==
    ASSUME EpochFenced, OInv, StartsAlone, ResumeFits, "auto_resume" \in UserActions, [Next]_vars
    PROVE  StartsAlone' /\ ResumeFits'
<1>0. IInv /\ "retry_task" \notin UserActions
  BY DEF OInv, EpochFenced
<1>1. CASE UNCHANGED vars
  <2>1. StartsAlone'
    BY <1>1 DEF vars, StartsAlone, NothingBegun, StartJob
  <2>2. ResumeFits'
    BY <1>1 DEF vars, ResumeFits, AtCur
  <2> QED
    BY <2>1, <2>2
<1>2. CASE Next
  <2>1. StartsAlone'
    <3>1. CASE Begun
      BY <1>0, <1>2, <3>1, LaterSteps
    <3>2. CASE ~Begun
      <4>1. ~AutoResume
        <5>1. cur # 0 => cur \in Steps
          BY <1>0, PointerTypes
        <5> QED
          BY <3>2, <5>1 DEF Begun, StartsAlone, NothingBegun, ResumeFits, AutoResume
      <4> QED
        BY <1>0, <1>2, <3>2, <4>1, EarlySteps
    <3> QED
      BY <3>1, <3>2
  <2>2. ~Undo
    BY DEF Undo, OInv, TaskFits
  <2>3. ResumeFits'
    BY <1>2, <2>2, PickupResumes, WorkResumes, ResultResumes, QueueResumes, BootResumes,
       RecoveryResumes,
       ApiResumes DEF Next, JobStep, Boot, Sweep, Faults
  <2> QED
    BY <2>1, <2>3
<1> QED
  BY <1>1, <1>2

(* The first state. *)
LEMMA InitResumes == Init => StartsAlone /\ ResumeFits
<1> SUFFICES ASSUME Init PROVE StartsAlone /\ ResumeFits
  OBVIOUS
<1>1. /\ status = "created" /\ epoch = 0 /\ cur = 0 /\ resuming = {} /\ watch = FALSE
      /\ worker = Up
  BY Zenon DEF Init
<1>2. \A s \in Steps : row[s] = "none" /\ run[s] = "none"
  BY DEF Init
<1>3. \A j \in Jobs : job[j] = NoJob
  BY DEF Init
<1>4. StartsAlone
  BY <1>1, <1>2, <1>3 DEF StartsAlone, NothingBegun, StartJob, NoJob, Up
<1>5. ResumeFits
  BY <1>1, <1>3 DEF ResumeFits, AtCur, NoJob, HoldingStages, Up
<1> QED
  BY <1>4, <1>5

(* The steps of a task run in the order of its run list: at most one is active, none opens
   before all that precede it have ended, and a completed task has run them all. *)
THEOREM StepsStayInOrder ==
    ASSUME EpochFenced
    PROVE  Spec => []StepsInOrder
<1> DEFINE Resumes == "auto_resume" \in UserActions => StartsAlone /\ ResumeFits
<1>1. Init => Resumes
  BY InitResumes
<1>2. RowInv /\ RowInv' /\ JobsFit /\ TaskFits /\ Resumes /\ [Next]_vars
        => JobsFit' /\ TaskFits' /\ Resumes'
  <2> SUFFICES ASSUME RowInv, RowInv', JobsFit, TaskFits, Resumes, [Next]_vars
               PROVE  JobsFit' /\ TaskFits' /\ Resumes'
    OBVIOUS
  <2>1. OInv /\ IInv'
    BY DEF RowInv, OInv
  <2>2. JobsFit' /\ TaskFits'
    BY <2>1, NextOrder
  <2>3. Resumes'
    BY <2>1, NextResumes
  <2> QED
    BY <2>2, <2>3
<1>3. RowInv /\ JobsFit /\ TaskFits => StepsInOrder
  BY InOrder DEF RowInv, OInv
<1> HIDE DEF Resumes
<1> QED
  BY AlwaysRowInv, InitOrder, <1>1, <1>2, <1>3, PTL DEF Spec

-----------------------------------------------------------------------------
(* Who may end a step: OwnPassFinishes, where no START comes late and nothing puts a
   failed row back to work under the pass that worked on it. *)

(* The task is started once, no row is reopened in the epoch it failed in, and a stopped
   step, be it by Stop or by the stop a Cancel begins with, is not put back to work. *)
PassesFenced ==
    /\ UserActions \cap {"retry_task", "auto_resume"} = {}
    /\ "retry_ai" \in UserActions => UserActions \cap {"stop", "cancel"} = {}

(* How a row may come to be failed under a pass. *)
MayStop == UserActions \cap {"stop", "cancel"} # {} \/ status = "cancelled"

(* No row was reset in an epoch to come, not even once a bump is taken back. *)
SinceFits ==
    /\ \A s \in Steps : since[s] <= epoch /\ (row[s] = "none" => since[s] = 0)
    /\ undo # NoEpoch => /\ epoch > undo
                         /\ epoch = undo + 1 => \A s \in Steps : since[s] <= undo

(* A row that was reset after its pass claimed the task is not the pass's to end: it
   stays as the reset left it until the pass is gone. *)
RowOwned(j) ==
    /\ job[j].pc \in RunningStages => job[j].ce # NoEpoch
    /\ job[j].pc \in {"claim", "open", "work"} /\ row[job[j].s] = "failed" => MayStop
    /\ job[j].pc \in {"open", "work"} /\ job[j].ce < since[job[j].s]
          => row[job[j].s] \in {"pending", "skipped", "failed"}

(* The rows of every pass, and the inductive invariant behind OwnPassFinishes. *)
RowsOwned == \A j \in Jobs : RowOwned(j)

FInv == IInv /\ CancelEnded /\ StartsAlone /\ SinceFits /\ RowsOwned

(* What others may do to the rows of a pass. *)
RowsTaken ==
    \A s \in Steps :
        \/ row'[s] = row[s] /\ since'[s] = since[s]
        \/ row'[s] = "pending" /\ since'[s] \in {since[s], epoch + 1}
        \/ row'[s] = "skipped" /\ since'[s] = since[s]
        \/ row'[s] = "failed" /\ since'[s] = since[s] /\ MayStop'
        \/ row'[s] \in ActiveStepStatuses /\ row[s] \in ActiveStepStatuses /\ since'[s] = since[s]

(* The epoch goes on, or is taken back. *)
EpochMoves ==
    \/ epoch' = epoch /\ undo' \in {undo, NoEpoch} /\ since' = since
    \/ epoch' = epoch + 1 /\ undo' = undo
    \/ epoch' = epoch + 1 /\ undo' = epoch /\ since' = since
    \/ epoch' = undo /\ epoch = undo + 1 /\ undo # NoEpoch /\ undo' = NoEpoch /\ since' = since

(* A step beside the passes. *)
LEMMA BesideOwned ==
    ASSUME FInv, RowsTaken, EpochMoves, MayStop => MayStop',
           \A i \in Jobs : job'[i] = job[i] \/ job'[i].pc \notin RunningStages
    PROVE  SinceFits' /\ RowsOwned'
<1>0. /\ SinceFits /\ RowsOwned /\ epoch \in Nat /\ undo \in Nat \cup {NoEpoch}
      /\ since \in [Steps -> Nat] /\ \A i \in Jobs : job[i].s \in Steps
  <2>1. SinceFits /\ RowsOwned /\ IInv
    BY DEF FInv
  <2> QED
    BY <2>1 DEF IInv, TypeOK
<1>1. \A s \in Steps : since'[s] <= epoch' /\ (row'[s] = "none" => since'[s] = 0)
  <2>1. \A s \in Steps : row'[s] = "none" => row[s] = "none" /\ since'[s] = since[s]
    BY DEF RowsTaken, ActiveStepStatuses
  <2>2. \A s \in Steps : since'[s] \in {since[s], epoch + 1}
    BY DEF RowsTaken
  <2> QED
    BY <1>0, <2>1, <2>2 DEF SinceFits, EpochMoves, NoEpoch
<1>2. undo' # NoEpoch => /\ epoch' > undo'
                         /\ epoch' = undo' + 1 => \A s \in Steps : since'[s] <= undo'
  BY <1>0 DEF SinceFits, EpochMoves, NoEpoch, RowsTaken
<1>3. RowsOwned'
  <2> SUFFICES ASSUME NEW i \in Jobs, job'[i] = job[i] PROVE RowOwned(i)'
    BY DEF RowsOwned, RowOwned, RunningStages, HoldingStages
  <2>1. RowOwned(i) /\ job[i].s \in Steps
    BY <1>0 DEF RowsOwned
  <2> QED
    BY <2>1 DEF RowOwned, RowsTaken, ActiveStepStatuses
<1> QED
  BY <1>1, <1>2, <1>3 DEF SinceFits

(* A step of a pass. *)
LEMMA PassOwned ==
    ASSUME FInv, NEW j \in Jobs, UNCHANGED <<since, epoch, undo>>,
           \A i \in Jobs : i # j => job'[i] = job[i],
           \A s \in Steps : \/ row'[s] = row[s]
                            \/ s = job[j].s /\ job[j].pc \in HoldingStages /\ row'[s] # "none",
           MayStop => MayStop', RowOwned(j)'
    PROVE  SinceFits' /\ RowsOwned'
<1>0. SinceFits /\ RowsOwned /\ OnePassPerStep /\ \A i \in Jobs : job[i].s \in Steps
  <2>1. SinceFits /\ RowsOwned /\ IInv
    BY DEF FInv
  <2> QED
    BY <2>1 DEF IInv, TypeOK
<1>1. SinceFits'
  BY <1>0 DEF SinceFits
<1>2. RowsOwned'
  <2> SUFFICES ASSUME NEW i \in Jobs, i # j PROVE RowOwned(i)'
    BY DEF RowsOwned
  <2>1. job[i].pc \in {"claim", "open", "work"} => row'[job[i].s] = row[job[i].s]
    BY <1>0 DEF OnePassPerStep, HoldingStages
  <2> QED
    BY <1>0, <2>1 DEF RowsOwned, RowOwned
<1> QED
  BY <1>1, <1>2

(* The steps of START and of the passes. *)
LEMMA JobOwned ==
    ASSUME FInv, NEW j \in Jobs, JobStep(j) PROVE SinceFits' /\ RowsOwned'
<1> USE DEF taskVars, rowVars, envVars
<1>0. /\ RowOwned(j) /\ SinceFits /\ job[j].s \in Steps /\ job[j].ce \in Nat \cup {NoEpoch}
      /\ epoch \in Nat /\ job \in [Jobs -> JobRecords] /\ row \in [Steps -> RowStatuses]
      /\ since \in [Steps -> Nat] /\ 1 \in Steps
  <2>1. RowsOwned /\ SinceFits /\ IInv
    BY DEF FInv
  <2>2. 1 \in Steps
    BY NAssumption DEF Steps
  <2> QED
    BY <2>1, <2>2 DEF IInv, TypeOK, JobRecords, RowsOwned
<1>01. ASSUME job'[j].pc \notin RunningStages PROVE RowOwned(j)'
  BY <1>01 DEF RowOwned, RunningStages, HoldingStages
<1>02. ASSUME job' = [job EXCEPT ![j] = NoJob]
       PROVE  RowOwned(j)' /\ \A i \in Jobs : i # j => job'[i] = job[i]
  BY <1>0, <1>01, <1>02 DEF NoJob, RunningStages, HoldingStages
<1>03. ASSUME NEW k, NEW s, NEW e, job' = [job EXCEPT ![j] = Queued(k, s, e)]
       PROVE  RowOwned(j)' /\ \A i \in Jobs : i # j => job'[i] = job[i]
  BY <1>0, <1>01, <1>03 DEF Queued, RunningStages, HoldingStages
<1>04. ASSUME job[j].pc \in RunningStages, job'[j].ce = job[j].ce, job'[j].pc \notin {"claim",
             "open", "work"}
       PROVE  RowOwned(j)'
  BY <1>0, <1>04 DEF RowOwned
<1>1. CASE TakeStart(j) \/ TakeAdvance(j)
  <2>1. UNCHANGED <<since, epoch, undo, row, status>>
    BY <1>1 DEF TakeStart, TakeAdvance
  <2>2. RowOwned(j)' /\ \A i \in Jobs : i # j => job'[i] = job[i]
    <3>1. CASE job'[j].pc \in {"start", "look"} /\ job'[j].ce = epoch
      <4>1. RowOwned(j)'
        BY <1>0, <3>1 DEF RowOwned, NoEpoch
      <4> QED
        BY <1>0, <1>1, <4>1 DEF TakeStart, TakeAdvance, Drop
    <3> QED
      BY <1>0, <1>1, <1>02, <3>1 DEF TakeStart, TakeAdvance, Drop, JobRecords
  <2> QED
    BY <2>1, <2>2, PassOwned DEF MayStop
<1>2. CASE ClaimStart(j)
  <2>1. UNCHANGED <<since, epoch, undo, row>> /\ (MayStop => MayStop')
    BY <1>2 DEF ClaimStart, MayStop, StartableTaskStatuses
  <2>2. RowOwned(j)' /\ \A i \in Jobs : i # j => job'[i] = job[i]
    <3>1. CASE job' = [job EXCEPT ![j].pc = "hold"]
      <4>1. /\ job'[j].pc = "hold" /\ job'[j].ce = job[j].ce /\ job[j].pc = "start"
            /\ \A i \in Jobs : i # j => job'[i] = job[i]
        BY <1>0, <1>2, <3>1 DEF ClaimStart, JobRecords
      <4> QED
        BY <1>04, <4>1 DEF RunningStages
    <3> QED
      BY <1>2, <1>02, <1>03, <3>1 DEF ClaimStart, Drop
  <2> QED
    BY <2>1, <2>2, PassOwned
<1>3. CASE TakeStepHold(j)
  <2>1. UNCHANGED <<since, epoch, undo, row, status>> /\ job[j].pc = "hold"
        /\ job' = [job EXCEPT ![j].pc = "open", ![j].s = 1]
    BY <1>3 DEF TakeStepHold
  <2>2. /\ job'[j].pc = "open" /\ job'[j].s = 1 /\ job'[j].ce = job[j].ce
        /\ \A i \in Jobs : i # j => job'[i] = job[i]
    BY <1>0, <2>1 DEF JobRecords
  <2>3. row[1] = "none" /\ since[1] = 0 /\ job[j].ce \in Nat
    BY <1>0, <2>1 DEF FInv, StartsAlone, NothingBegun, SinceFits, RowOwned, RunningStages
  <2>4. RowOwned(j)'
    BY <2>1, <2>2, <2>3 DEF RowOwned, NoEpoch
  <2> QED
    BY <2>1, <2>2, <2>4, PassOwned DEF MayStop
<1>4. CASE Look(j)
  <2>1. UNCHANGED <<since, epoch, undo, row>> /\ (MayStop => MayStop') /\ job[j].pc = "look"
    BY <1>4 DEF Look, FinishFailedStep, MayStop
  <2>2. \/ Drop(j)
        \/ job' = [job EXCEPT ![j].pc = "result", ![j].res = row[job[j].s], ![j].cc = 0]
        \/ row[job[j].s] # "failed" /\ job' = [job EXCEPT ![j].pc = "claim", ![j].cc = 0]
    BY <1>4 DEF Look
  <2>3. /\ \A i \in Jobs : i # j => job'[i] = job[i]
        /\ \/ Drop(j)
           \/ job'[j].pc = "result" /\ job'[j].ce = job[j].ce
           \/ /\ row[job[j].s] # "failed" /\ job'[j].pc = "claim" /\ job'[j].ce = job[j].ce
              /\ job'[j].s = job[j].s
    BY <1>0, <2>2 DEF Drop, JobRecords
  <2>4. RowOwned(j)'
    BY <1>0, <1>02, <2>1, <2>3 DEF RowOwned, Drop, RunningStages, HoldingStages
  <2> QED
    BY <2>1, <2>3, <2>4, PassOwned
<1>5. CASE Park(j)
  <2>1. /\ UNCHANGED <<since, epoch, undo>> /\ (MayStop => MayStop') /\ job[j].pc \in HoldingStages
        /\ row' = row \/ row' = [row EXCEPT ![job[j].s] = "pending"]
    BY <1>5 DEF Park, TaskWriteTarget, TerminalTaskStatuses, MayStop, HoldingStages
  <2>2. RowOwned(j)' /\ \A i \in Jobs : i # j => job'[i] = job[i]
    <3>1. \/ job' = [job EXCEPT ![j] = NoJob]
          \/ job' = [job EXCEPT ![j] = Queued("advance", job[j].s, job[j].ce)]
      BY <1>5 DEF Park, Drop
    <3> QED
      BY <1>02, <1>03, <3>1
  <2>3. \A s \in Steps : row'[s] = row[s] \/ (s = job[j].s /\ row'[s] # "none")
    BY <1>0, <2>1
  <2> QED
    BY <2>1, <2>2, <2>3, PassOwned
<1>6. CASE Claim(j)
  <2>1. UNCHANGED <<since, epoch, undo, row>> /\ (MayStop => MayStop') /\ job[j].pc = "claim"
    BY <1>6 DEF Claim, TaskWriteTarget, TerminalTaskStatuses, MayStop
  <2>2. CASE TaskWriteTarget(job[j].ce, job[j].cs = "failed")
    <3>1. /\ job'[j].pc = "open" /\ job'[j].ce = job[j].ce /\ job'[j].s = job[j].s
          /\ \A i \in Jobs : i # j => job'[i] = job[i]
      BY <1>0, <1>6, <2>2 DEF Claim, JobRecords
    <3>2. job[j].ce = epoch
      BY <2>2 DEF TaskWriteTarget
    <3>3. RowOwned(j)'
      BY <1>0, <2>1, <3>1, <3>2 DEF RowOwned, SinceFits, RunningStages, HoldingStages
    <3> QED
      BY <2>1, <3>1, <3>3, PassOwned
  <2>3. CASE ~TaskWriteTarget(job[j].ce, job[j].cs = "failed")
    BY <1>02, <1>6, <2>1, <2>3, PassOwned DEF Claim, Drop
  <2> QED
    BY <2>2, <2>3
<1>7. CASE Open(j)
  <2>1. UNCHANGED <<since, epoch, undo, status>> /\ job[j].pc = "open"
        /\ job[j].pc \in HoldingStages
    BY <1>7 DEF Open, HoldingStages
  <2>2. \A s \in Steps : row'[s] = row[s] \/ (s = job[j].s /\ row'[s] # "none")
    BY <1>0, <1>7 DEF Open
  <2>3. \/ Drop(j)
        \/ \E r : job' = [job EXCEPT ![j].pc = "result", ![j].res = r]
        \/ /\ job' = [job EXCEPT ![j].pc = "work"]
           /\ row'[job[j].s] # "failed"
           /\ \/ TaskWriteTarget(job[j].ce, FALSE)
              \/ row[job[j].s] \in ActiveStepStatuses
    BY <1>0, <1>7 DEF Open, ActiveStepStatuses, LiveStepStatuses
  <2>4. /\ \A i \in Jobs : i # j => job'[i] = job[i]
        /\ \/ Drop(j)
           \/ job'[j].pc = "result" /\ job'[j].ce = job[j].ce
           \/ /\ job'[j].pc = "work" /\ job'[j].ce = job[j].ce /\ job'[j].s = job[j].s
              /\ row'[job[j].s] # "failed"
              /\ \/ TaskWriteTarget(job[j].ce, FALSE)
                 \/ row[job[j].s] \in ActiveStepStatuses
    BY <1>0, <2>3 DEF Drop, JobRecords
  <2>5. ASSUME \/ TaskWriteTarget(job[j].ce, FALSE)
               \/ row[job[j].s] \in ActiveStepStatuses
        PROVE  ~(job[j].ce < since[job[j].s])
    BY <1>0, <2>1, <2>5 DEF TaskWriteTarget, RowOwned, SinceFits, ActiveStepStatuses, NoEpoch,
       RunningStages, HoldingStages
  <2>6. job[j].ce # NoEpoch
    BY <1>0, <2>1 DEF RowOwned, RunningStages
  <2>7. RowOwned(j)'
    <3>1. CASE Drop(j)
      BY <1>02, <3>1 DEF Drop
    <3>2. CASE job'[j].pc = "result" /\ job'[j].ce = job[j].ce
      BY <1>04, <2>1, <3>2 DEF RunningStages
    <3>3. CASE /\ job'[j].pc = "work" /\ job'[j].ce = job[j].ce /\ job'[j].s = job[j].s
               /\ row'[job[j].s] # "failed"
               /\ \/ TaskWriteTarget(job[j].ce, FALSE)
                  \/ row[job[j].s] \in ActiveStepStatuses
      <4>1. ~(job'[j].ce < since'[job'[j].s]) /\ job'[j].ce # NoEpoch /\ row'[job'[j].s] # "failed"
        BY <2>1, <2>5, <2>6, <3>3
      <4> QED
        BY <4>1 DEF RowOwned
    <3> QED
      BY <2>4, <3>1, <3>2, <3>3
  <2> QED
    BY <2>1, <2>2, <2>4, <2>7, PassOwned DEF MayStop
<1>8. CASE \/ Finish(j) \/ FailStep(j) \/ ReleaseStepAgents(j) \/ AskForm(j) \/ Dispatch(j)
           \/ KeepWaiting(j) \/ Superseded(j)
  <2>1. UNCHANGED <<since, epoch, undo, status>> /\ job[j].pc \in HoldingStages
    BY <1>8 DEF Finish, FailStep, ReleaseStepAgents, AskForm, Dispatch, KeepWaiting, Superseded,
       HoldingStages
  <2>2. \A s \in Steps : row'[s] = row[s] \/ (s = job[j].s /\ row'[s] # "none")
    BY <1>0, <1>8 DEF Finish, FailStep, ReleaseStepAgents, AskForm, Dispatch, KeepWaiting,
       Superseded, EndPass
  <2>3. /\ \A i \in Jobs : i # j => job'[i] = job[i]
        /\ Drop(j) \/ (job'[j].ce = job[j].ce /\ job'[j].pc \in {"result", "release"})
    BY <1>0, <1>8 DEF Finish, FailStep, ReleaseStepAgents, AskForm, Dispatch, KeepWaiting,
       Superseded, EndPass, Drop, JobRecords
  <2>4. RowOwned(j)'
    BY <1>02, <1>04, <2>1, <2>3 DEF Drop, RunningStages
  <2> QED
    BY <2>1, <2>2, <2>3, <2>4, PassOwned DEF MayStop
<1>9. CASE Result(j) \/ HandOff(j)
  <2>1. /\ UNCHANGED <<since, epoch, undo>> /\ (MayStop => MayStop') /\ job[j].pc \in HoldingStages
        /\ \/ row' = row
           \/ row' = [row EXCEPT ![job[j].s] = IF @ = "running" THEN "waiting_cli" ELSE @]
    BY <1>9 DEF Result, HandOff, FinishFailedStep, TaskWriteTarget, TerminalTaskStatuses, MayStop,
       HoldingStages
  <2>2. \A s \in Steps : row'[s] = row[s] \/ (s = job[j].s /\ row'[s] # "none")
    BY <1>0, <2>1
  <2>3. \/ Drop(j)
        \/ job' = [job EXCEPT ![j] = Queued("advance", Successor(job[j].s), job[j].ce)]
        \/ job' = [job EXCEPT ![j].pc = "next"]
    BY <1>9 DEF Result, HandOff
  <2>4. RowOwned(j)' /\ \A i \in Jobs : i # j => job'[i] = job[i]
    <3>1. CASE job' = [job EXCEPT ![j].pc = "next"]
      <4>1. /\ job'[j].pc = "next" /\ job'[j].ce = job[j].ce /\ \A i \in Jobs : i # j => job'[i] = job[i]
        BY <1>0, <3>1 DEF JobRecords
      <4> QED
        BY <1>04, <2>1, <4>1 DEF RunningStages
    <3> QED
      BY <1>02, <1>03, <2>3, <3>1 DEF Drop
  <2> QED
    BY <2>1, <2>2, <2>4, PassOwned
<1> QED
  BY <1>1, <1>2, <1>3, <1>4, <1>5, <1>6, <1>7, <1>8, <1>9 DEF JobStep

(* The other actors: whatever they take from a pass, they do not give it back. *)
LEMMA OtherOwned ==
    ASSUME FInv, PassesFenced,
           \/ \E j \in Jobs : Redeliver(j)
           \/ \E s \in Steps : CliEnd(s) \/ CliCheck(s) \/ CliResume(s)
           \/ Boot \/ Undo \/ Sweep \/ Api \/ CancelJob \/ Faults
    PROVE  SinceFits' /\ RowsOwned'
<1> USE DEF taskVars, rowVars, envVars
<1>0. /\ job \in [Jobs -> JobRecords] /\ row \in [Steps -> RowStatuses] /\ since \in [Steps -> Nat]
      /\ (cur # 0 => cur \in Steps) /\ epoch \in Nat
  <2>1. /\ job \in [Jobs -> JobRecords] /\ row \in [Steps -> RowStatuses]
           /\ since \in [Steps -> Nat]
        /\ cur \in 0..N /\ epoch \in Nat
    BY DEF FInv, IInv, TypeOK, JobRecords
  <2> QED
    BY <2>1, NAssumption DEF Steps
<1> DEFINE Goal == SinceFits' /\ RowsOwned'
           Aside == \A i \in Jobs : job'[i] = job[i] \/ job'[i].pc \notin RunningStages
<1>01. ASSUME UNCHANGED <<row, since, epoch>>, undo' \in {undo, NoEpoch}, MayStop => MayStop',
             Aside PROVE Goal
  BY <1>01, BesideOwned DEF RowsTaken, EpochMoves
<1>02. ASSUME NEW i \in Jobs, job' = [job EXCEPT ![i] = NoJob] PROVE Aside
  BY <1>0, <1>02 DEF NoJob, RunningStages, HoldingStages
<1>03. ASSUME NEW k, NEW s, NEW e, Enqueue(k, s, e) PROVE Aside
  BY <1>0, <1>03 DEF Enqueue, Free, Queued, RunningStages, HoldingStages
<1>1. ASSUME NEW j \in Jobs, Redeliver(j) \/ LoseJob(j) \/ Duplicate(j) \/ Throw(j) PROVE Goal
  <2>1. UNCHANGED <<row, since, epoch, undo>> /\ (MayStop => MayStop')
    BY <1>1 DEF Redeliver, LoseJob, Duplicate, Throw, MayStop, StartableTaskStatuses,
       OpenTaskStatuses
  <2>2. Aside
    <3>1. CASE Redeliver(j)
      BY <1>0, <3>1 DEF Redeliver, JobRecords, RunningStages, HoldingStages
    <3>2. CASE LoseJob(j) \/ Duplicate(j)
      BY <1>02, <1>03, <3>2 DEF LoseJob, Duplicate, Drop
    <3>3. CASE Throw(j)
      <4>1. \/ job' = [job EXCEPT ![j] = NoJob]
            \/ job' = [job EXCEPT ![j] = Queued(job[j].kind, job[j].s, job[j].e)]
        BY <3>3 DEF Throw
      <4> QED
        BY <1>0, <1>02, <4>1 DEF Queued, RunningStages, HoldingStages
    <3> QED
      BY <1>1, <3>1, <3>2, <3>3
  <2> QED
    BY <1>01, <2>1, <2>2
<1>2. ASSUME NEW s \in Steps, CliEnd(s) \/ CliCheck(s) \/ CliResume(s) \/ LoseRun(s) PROVE Goal
  BY <1>01, <1>03, <1>2 DEF CliEnd, CliCheck, CliResume, LoseRun, MayStop
<1>3. CASE Crash
  <2>1. UNCHANGED <<row, since, epoch, status>> /\ undo' = NoEpoch
    BY <1>3 DEF Crash
  <2>2. Aside
    BY <1>3 DEF Crash, Queued, RunningStages, HoldingStages
  <2> QED
    BY <1>01, <2>1, <2>2 DEF MayStop
<1>4. CASE BootParked \/ BootRunning \/ BootDone
  BY <1>01, <1>4 DEF BootParked, BootRunning, BootDone, MayStop
<1>5. CASE Undo
  <2>1. UNCHANGED <<row, since, status, job>> /\ EpochMoves
    BY <1>5 DEF Undo, EpochMoves
  <2> QED
    BY <2>1, BesideOwned DEF RowsTaken, MayStop
<1>6. ASSUME NEW s, Redrive(s), UNCHANGED <<since, status>>, RowsTaken PROVE Goal
  <2>1. Aside
    BY <1>03, <1>6 DEF Redrive
  <2>2. EpochMoves
    BY <1>6 DEF Redrive, EpochMoves
  <2> QED
    BY <1>6, <2>1, <2>2, BesideOwned DEF MayStop
<1>7. ASSUME NEW s \in Steps, NEW e, NEW c, NEW rowNow, RecoverParkedStep(s, e, c, rowNow),
             rowNow = row[s] \/ (row[s] = "running" /\ rowNow = "waiting_cli")
      PROVE  Goal
  <2>1. UNCHANGED <<status, since>>
    BY <1>7 DEF RecoverParkedStep
  <2>2. RowsTaken
    BY <1>0, <1>7 DEF RecoverParkedStep, RowsTaken, ActiveStepStatuses
  <2>3. CASE Redrive(s)
    BY <1>6, <2>1, <2>2, <2>3
  <2>4. CASE UNCHANGED <<epoch, job, undo>>
    BY <2>1, <2>2, <2>4, BesideOwned DEF EpochMoves, MayStop
  <2> QED
    BY <1>7, <2>3, <2>4 DEF RecoverParkedStep
<1>8. ASSUME NEW reset \in SUBSET Steps, ResetRows(reset, {}), epoch' = epoch + 1, undo' = undo,
            Aside,
             MayStop => MayStop'
      PROVE  Goal
  <2>1. RowsTaken
    BY <1>8 DEF ResetRows, RowsTaken
  <2> QED
    BY <1>8, <2>1, BesideOwned DEF EpochMoves
<1>9. ASSUME NEW s \in Steps, RecoverParked(s) PROVE Goal
  BY <1>7, <1>9 DEF RecoverParked
<1>10. ASSUME NEW s \in Steps, RecoverRunning(s) PROVE Goal
  <2>1. CASE row[s] = "running" /\ RecoverParkedStep(s, worker.e, worker.c, "waiting_cli")
    BY <1>7, <2>1
  <2>2. CASE /\ row' = [row EXCEPT ![s] = "pending"]
             /\ UNCHANGED <<status, epoch, since, job, undo>>
    <3>1. RowsTaken
      BY <1>0, <2>2 DEF RowsTaken
    <3> QED
      BY <2>2, <3>1, BesideOwned DEF EpochMoves, MayStop
  <2>3. CASE UNCHANGED <<status, epoch, row, since, job, undo>>
    BY <1>01, <2>3 DEF MayStop
  <2>4. CASE ResetStepAndDownstream(s, worker.e) /\ UNCHANGED <<status, undo>>
    <3>1. CASE epoch = worker.e
      <4>1. /\ ResetRows({s} \cup NonPendingAfter(s), {}) /\ epoch' = epoch + 1
            /\ Enqueue("advance", s, epoch + 1)
        BY <2>4, <3>1 DEF ResetStepAndDownstream
      <4>2. {s} \cup NonPendingAfter(s) \in SUBSET Steps
        BY DEF NonPendingAfter
      <4> QED
        BY <1>03, <1>8, <2>4, <4>1, <4>2 DEF MayStop
    <3>2. CASE epoch # worker.e
      BY <2>3, <2>4, <3>2 DEF ResetStepAndDownstream
    <3> QED
      BY <3>1, <3>2
  <2> QED
    BY <1>10, <2>1, <2>2, <2>3, <2>4 DEF RecoverRunning
<1>11. CASE SweepRedrive
  BY <1>6, <1>11 DEF SweepRedrive, RowsTaken
<1>12. CASE SweepFailed \/ SweepStart
  <2>1. UNCHANGED <<row, since, epoch, undo>> /\ (MayStop => MayStop')
    BY <1>12 DEF SweepFailed, SweepStart, FinishFailedStep, MayStop
  <2>2. Aside
    BY <1>03, <1>12 DEF SweepFailed, SweepStart
  <2> QED
    BY <1>01, <2>1, <2>2
<1>13. CASE SweepLostRun
  BY <1>0, <1>7, <1>13 DEF SweepLostRun
<1>14. CASE Start
  BY <1>01, <1>03, <1>14 DEF Start, MayStop
<1>15. ASSUME NEW s \in Steps, Submit(s) PROVE Goal
  BY <1>01, <1>03, <1>15 DEF Submit, MayStop
<1>16. CASE Stop \/ CancelStops \/ CancelJob
  <2>1. UNCHANGED <<since, epoch, undo, job>> /\ MayStop' /\ (MayStop => MayStop')
    <3>1. CASE Stop \/ CancelStops
      BY <3>1 DEF Stop, CancelStops, Click, MayStop
    <3>2. CASE CancelJob
      BY <3>2 DEF CancelJob, CancelEndsRows, CancelEndsRuns, FInv, CancelEnded, MayStop
    <3> QED
      BY <1>16, <3>1, <3>2
  <2>2. \A s \in Steps : row'[s] = row[s] \/ row'[s] = "failed"
    BY <1>16 DEF Stop, CancelStops, SupersedeLiveRuns, CancelJob, CancelEndsRows, CancelEndsRuns
  <2>3. RowsTaken
    BY <2>1, <2>2 DEF RowsTaken
  <2> QED
    BY <2>1, <2>3, BesideOwned DEF EpochMoves
<1>17. CASE Cancel
  <2>1. UNCHANGED <<since, undo, job>> /\ status' = "cancelled" /\ epoch' = epoch + 1
    BY <1>17 DEF Cancel
  <2>2. \A s \in Steps : row'[s] = row[s] \/ row'[s] = "failed"
    BY <1>17 DEF Cancel
  <2>3. RowsTaken
    BY <2>1, <2>2 DEF RowsTaken, MayStop
  <2> QED
    BY <2>1, <2>3, BesideOwned DEF EpochMoves, MayStop
<1>18. ~RetryTask /\ ~AutoResume
  BY DEF RetryTask, AutoResume, Click, PassesFenced
<1>19. ASSUME NEW s \in Steps, MoveTaskToStep(s)
       PROVE  Aside /\ epoch' = epoch + 1 /\ undo' = undo /\ (MayStop => MayStop')
  BY <1>03, <1>19 DEF MoveTaskToStep, MayStop, TerminalTaskStatuses
<1>20. ASSUME NEW s \in Steps, RetryStep(s) PROVE Goal
  <2>1. {s} \cup NonPendingAfter(s) \cup Active \in SUBSET Steps
    BY DEF NonPendingAfter, Active
  <2> QED
    BY <1>8, <1>19, <1>20, <2>1 DEF RetryStep
<1>21. ASSUME NEW s \in Steps, Skip(s) PROVE Goal
  <2>1. RowsTaken
    BY <1>0, <1>21 DEF Skip, RowsTaken, Active
  <2>2. EpochMoves
    BY <1>19, <1>21 DEF Skip, EpochMoves
  <2> QED
    BY <1>19, <1>21, <2>1, <2>2, BesideOwned DEF Skip
(* No pass is left on a failed row when an AI retry puts it back to work. *)
<1>22. ASSUME NEW s \in Steps, RetryAi(s) PROVE Goal
  <2>0. /\ RowsOwned /\ SinceFits /\ undo \in Nat \cup {NoEpoch} /\ \A i \in Jobs : job[i].s \in Steps
    <3>1. RowsOwned /\ SinceFits /\ IInv
      BY DEF FInv
    <3> QED
      BY <3>1 DEF IInv, TypeOK
  <2>1. Aside /\ epoch' = epoch + 1 /\ undo' = undo /\ (MayStop => MayStop')
    BY <1>19, <1>22 DEF RetryAi
  <2>2. ~MayStop /\ row[s] = "failed"
    BY <1>22 DEF RetryAi, MoveTaskToStep, Click, PassesFenced, MayStop, TerminalTaskStatuses
  <2>3. \A i \in Jobs : job[i].pc \in {"claim", "open", "work"} => job[i].s # s
    BY <2>0, <2>2 DEF RowsOwned, RowOwned
  <2>4. /\ row'[s] = "running"
        /\ \A t \in Steps \ {s} : \/ row'[t] = row[t] /\ since'[t] = since[t]
                                  \/ row'[t] = "pending" /\ since'[t] \in {since[t], epoch + 1}
        /\ \A t \in Steps : since'[t] \in {since[t], epoch + 1}
    BY <1>0, <1>22 DEF RetryAi
  <2>5. SinceFits'
    BY <1>0, <2>0, <2>1, <2>4 DEF SinceFits, NoEpoch
  <2>6. RowsOwned'
    <3> SUFFICES ASSUME NEW i \in Jobs, job'[i] = job[i] PROVE RowOwned(i)'
      BY <2>1 DEF RowsOwned, RowOwned, RunningStages, HoldingStages
    <3>1. CASE job[i].pc \in {"claim", "open", "work"}
      <4>1. RowOwned(i) /\ job[i].s \in Steps \ {s}
        BY <2>0, <2>3, <3>1 DEF RowsOwned
      <4> QED
        BY <2>1, <2>4, <4>1 DEF RowOwned
    <3>2. CASE job[i].pc \notin {"claim", "open", "work"}
      BY <2>0, <3>2 DEF RowsOwned, RowOwned
    <3> QED
      BY <3>1, <3>2
  <2> QED
    BY <2>5, <2>6
<1> QED
  BY <1>1, <1>2, <1>3, <1>4, <1>5, <1>9, <1>10, <1>11, <1>12, <1>13, <1>14, <1>15, <1>16, <1>17,
     <1>18,
     <1>20, <1>21, <1>22 DEF Boot, Sweep, Api, Faults

(* The invariant holds at first, and every step keeps it. *)
LEMMA AlwaysFInv == ASSUME PassesFenced PROVE Spec => []FInv
<1>1. Init => FInv
  <2> SUFFICES ASSUME Init PROVE FInv
    OBVIOUS
  <2>0. status = "created" /\ epoch = 0 /\ cur = 0 /\ resuming = {} /\ undo = NoEpoch /\ worker = Up
    BY Zenon DEF Init
  <2>1. /\ \A s \in Steps : row[s] = "none" /\ run[s] = "none" /\ since[s] = 0
        /\ \A j \in Jobs : job[j] = NoJob
    BY DEF Init
  <2>2. StartsAlone
    BY <2>0, <2>1 DEF StartsAlone, NothingBegun, StartJob, NoJob, Up
  <2>3. SinceFits /\ RowsOwned
    BY <2>0, <2>1 DEF SinceFits, RowsOwned, RowOwned, NoJob, RunningStages, HoldingStages
  <2> QED
    BY <2>2, <2>3, InitIInv DEF FInv, Init, CancelEnded, NoCancel
<1>2. FInv /\ [Next]_vars => FInv'
  <2> SUFFICES ASSUME FInv, [Next]_vars PROVE StartsAlone' /\ SinceFits' /\ RowsOwned'
    BY NextIInv, NextCancelEnded DEF FInv
  <2>1. CASE UNCHANGED vars
    BY <2>1 DEF vars, FInv, StartsAlone, NothingBegun, StartJob, SinceFits, RowsOwned, RowOwned,
       MayStop
  <2>2. CASE Next
    <3>1. "retry_task" \notin UserActions /\ ~AutoResume
      BY DEF PassesFenced, AutoResume, Click
    <3>2. StartsAlone'
      BY <2>2, <3>1, EarlySteps, LaterSteps DEF FInv
    <3>3. SinceFits' /\ RowsOwned'
      BY <2>2, JobOwned, OtherOwned DEF Next
    <3> QED
      BY <3>2, <3>3
  <2> QED
    BY <2>1, <2>2
<1> QED
  BY <1>1, <1>2, PTL DEF Spec

(* A row becomes done only by a pass that claimed the task at or after the epoch of the
   row's last reset. *)
THEOREM OnlyOwnPassFinishes ==
    ASSUME PassesFenced
    PROVE  Spec => OwnPassFinishes
<1>1. ASSUME FInv, [Next]_vars, NEW s \in Steps, row[s] # "done", row'[s] = "done"
      PROVE  \E j \in Jobs : job[j].pc = "work" /\ job[j].s = s /\ job[j].ce >= since[s]
  <2> USE DEF taskVars, rowVars, envVars
  <2>0. row \in [Steps -> RowStatuses] /\ (cur # 0 => cur \in Steps)
    <3>1. row \in [Steps -> RowStatuses] /\ cur \in 0..N
      BY <1>1 DEF FInv, IInv, TypeOK
    <3> QED
      BY <3>1, NAssumption DEF Steps
  <2>1. PICK j \in Jobs : Finish(j)
    <3>1. ASSUME NEW j \in Jobs, JobStep(j) PROVE Finish(j)
      BY <1>1, <2>0, <3>1 DEF JobStep, TakeStart, ClaimStart, TakeStepHold, TakeAdvance, Look,
         Park, Claim,
         Open, FailStep, ReleaseStepAgents, AskForm, Dispatch, KeepWaiting, EndPass, Superseded,
         Result,
         HandOff
    <3>2. ASSUME NEW j \in Jobs PROVE ~(Redeliver(j) \/ LoseJob(j) \/ Duplicate(j) \/ Throw(j))
      BY <1>1 DEF Redeliver, LoseJob, Duplicate, Throw
    <3>3. ASSUME NEW t \in Steps
                PROVE ~(CliEnd(t) \/ CliCheck(t) \/ CliResume(t) \/ LoseRun(t) \/ Submit(t))
      BY <1>1 DEF CliEnd, CliCheck, CliResume, LoseRun, Submit
    <3>4. ~Boot /\ ~Undo /\ ~Crash
      BY <1>1, <2>0 DEF Boot, BootParked, BootRunning, BootDone, RecoverParked, RecoverRunning,
         RecoverParkedStep, ResetStepAndDownstream, ResetRows, Undo, Crash
    <3>5. ~Sweep
      BY <1>1, <2>0 DEF Sweep, SweepRedrive, SweepFailed, SweepStart, SweepLostRun,
         RecoverParkedStep
    <3>6. ~Start /\ ~Stop /\ ~CancelStops /\ ~Cancel /\ ~CancelJob /\ ~RetryTask /\ ~AutoResume
      BY <1>1, <2>0 DEF Start, Stop, CancelStops, SupersedeLiveRuns, Cancel, CancelJob,
         CancelEndsRows, CancelEndsRuns, RetryTask, RestartFromStart, AutoResume
    <3>7. ASSUME NEW t \in Steps PROVE ~(RetryStep(t) \/ Skip(t) \/ RetryAi(t))
      BY <1>1 DEF RetryStep, ResetRows, Skip, RetryAi
    <3>8. ~UNCHANGED vars
      BY <1>1 DEF vars
    <3> QED
      BY <1>1, <3>1, <3>2, <3>3, <3>4, <3>5, <3>6, <3>7, <3>8 DEF Next, Api, Faults
  <2>2. job[j].pc = "work" /\ job[j].s = s /\ Owned(s)
    BY <1>1, <2>0, <2>1 DEF Finish, EndPass
  <2>3. RowOwned(j) /\ since[s] \in Nat /\ job[j].ce \in Nat \cup {NoEpoch}
    <3>1. RowsOwned /\ IInv
      BY <1>1 DEF FInv
    <3> QED
      BY <1>1, <3>1 DEF RowsOwned, IInv, TypeOK
  <2>4. ~(job[j].ce < since[s])
    BY <2>2, <2>3 DEF RowOwned, Owned
  <2>5. job[j].ce >= since[s]
    BY <2>3, <2>4 DEF NoEpoch
  <2> QED
    BY <2>2, <2>5
<1>2. FInv /\ [Next]_vars =>
        [\A s \in Steps : row[s] # "done" /\ row'[s] = "done" =>
            \E j \in Jobs : job[j].pc = "work" /\ job[j].s = s /\ job[j].ce >= since[s]]_vars
  BY <1>1
<1> QED
  BY AlwaysFInv, <1>2, PTL DEF Spec, OwnPassFinishes
=============================================================================
