--------------------------- MODULE MergeDir_proofs ---------------------------
(* Proofs about MergeDir, for every number of tasks, retries, re-drives and
   faults. *)
EXTENDS MergeDir, TLAPS

Locked == Inside \union {"putting"}
Claimed == {"dispatch"} \union Wanting \union Inside

(* A fixer run that has, or may still get, a sandbox. *)
Active(t) == \/ run[t] \in {"creating", "live"}
             \/ run[t] = "queued" /\ t \notin superseded

(* The pass of a task: inside a section it has the lock and, unless it only puts
   files back, the claim; a live task that took the claim keeps it. *)
Passes(t) ==
    /\ pc[t] \in Locked <=> lock = t
    /\ pc[t] \in Inside => claim = t
    /\ status[t] = "running" /\ pc[t] \in Claimed => claim = t
    /\ status[t] # "running" => t \notin owned
    /\ status[t] \in {"failed", "completed"} => pc[t] = "idle"
    /\ pc[t] # "idle" => run[t] \in {"none", "ended"} /\ phase[t] \in {"pending", "resolving"}
    /\ status[t] = "completed" => run[t] \in {"none", "ended"}
    /\ phase[t] = "done" => status[t] = "completed"
    /\ pc[t] = "dispatch" => tries[t] < Retries
    /\ pc[t] \in {"open", "opening"} /\ phase[t] = "resolving" => tries[t] < Retries

(* The cancel has said of the task's merge what it says: it reported it, or left
   it to the checkout's owner or to a task that shares the worktree. *)
SettledFor(t) == host \/ t \in reported \union spared

(* An open merge is its claimant's, or settled. *)
Merges(t) ==
    /\ merge = t => claim = t \/ SettledFor(t)
    /\ merge = t => phase[t] # "new" /\ status[t] # "completed"
    /\ pc[t] \in {"finish", "finishing"} => merge # t

(* Whoever writes keeps the others out. *)
Excludes(t) ==
    /\ lock = t => ~HeldByOther(t)
    /\ Active(t) => claim = t

(* How far a teardown has come, and what is true from there on. *)
NoNewSandbox(t) == run[t] # "creating" /\ (run[t] = "queued" => t \in superseded)
NoSandbox(t) == NoNewSandbox(t) /\ run[t] # "live"
MergeReported(t) ==
    host \/ (pc[t] \notin Inside /\ (merge = t => t \in reported \union spared))

TearsDown(t) ==
    /\ t \in hung \union queued \union sweep \union finished \union old => status[t] = "cancelled"
    /\ \A k \in Actors :
          /\ td[k][t] # "none" => status[t] = "cancelled"
          /\ td[k][t] \in {"kill", "list"} => NoNewSandbox(t)
          /\ td[k][t] \in {"record", "release", "finish"} => NoSandbox(t)
          /\ td[k][t] \in {"release", "finish"} => MergeReported(t)
    /\ t \in finished => NoSandbox(t) /\ MergeReported(t)

(* Every job the sweep queued, or is about to, was counted. *)
Attempts(t) == sent[t] + (IF t \in sweep THEN 1 ELSE 0) <= redriven[t]


Sound(t) == Passes(t) /\ Merges(t) /\ Excludes(t) /\ TearsDown(t) /\ Attempts(t)
Inv == TypeOK /\ \A t \in Tasks : Sound(t)

-----------------------------------------------------------------------------
(* What a step of task t's pass, fixer, teardowns or sweep leaves alone. *)
Frame(t) ==
    /\ host' = host
    /\ \A u \in Tasks \ {t} :
       /\ status'[u] = status[u] /\ pc'[u] = pc[u] /\ phase'[u] = phase[u]
       /\ tries'[u] = tries[u] /\ run'[u] = run[u]
       /\ redriven'[u] = redriven[u] /\ sent'[u] = sent[u]
       /\ \A k \in Actors : td'[k][u] = td[k][u]
       /\ u \in owned' <=> u \in owned
       /\ u \in superseded' <=> u \in superseded
       /\ u \in hung' <=> u \in hung
       /\ u \in queued' <=> u \in queued
       /\ u \in old' <=> u \in old
       /\ u \in sweep' <=> u \in sweep
       /\ u \in reported' <=> u \in reported
       /\ u \in spared' <=> u \in spared
       /\ u \in finished' <=> u \in finished

(* What it may do to what the tasks share: the lock and the merge are taken only
   for t, and the claim changes hands only under the lock. *)
Shared(t) ==
    /\ \/ lock' = lock
       \/ lock = None /\ lock' = t /\ ~HeldByOther(t)
       \/ lock = t /\ lock' = None
    /\ \/ claim' = claim
       \/ lock = None /\ ~HeldByOther(t) /\ claim' = t
       \/ lock \in {None, t} /\ claim = t /\ claim' = None
    /\ merge' \in {merge, None, t}
    /\ ~Holds(t) => ~Holds(t)'
    /\ run'[t] = "live" => run[t] \in {"creating", "live"}

Moves(t) ==
    \/ Pass(t) \/ Fixer(t) \/ StopRuns(t) \/ Cancel(t) \/ HungLands(t) \/ CancelJob(t)
    \/ \E k \in Actors : Teardown(k, t)
    \/ Sweep(t)

-----------------------------------------------------------------------------
(* A task has nothing open at first. *)
LEMMA InitInv == ASSUME Init PROVE Inv
  <1>1. TypeOK
    BY MergeAssumption DEF Init, TypeOK, Stages
  <1>2. ASSUME NEW t \in Tasks PROVE Sound(t)
    BY MergeAssumption
    DEF Init, Sound, Passes, Merges, Excludes, TearsDown, Attempts, Active, Locked, Claimed,
        Inside, Wanting, Actors
  <1> QED
    BY <1>1, <1>2 DEF Inv

(* The other tasks keep what is true of them. *)
LEMMA OthersSound ==
    ASSUME TypeOK, NEW t \in Tasks, NEW u \in Tasks \ {t}, Sound(t), Sound(u), Frame(t), Shared(t)
    PROVE  Sound(u)'
  <1>1. u # t /\ u # None /\ t # None
    BY MergeAssumption
  <1>2. lock' = u <=> lock = u
    BY <1>1 DEF Shared
  <1>3. lock = u => claim' = claim
    BY <1>1 DEF Shared
  <1>4. claim' = u => claim = u
    BY <1>1 DEF Shared
  <1>5. claim = u => claim' = u \/ ~Holds(u)
    BY <1>1 DEF Shared, HeldByOther
  <1>6. merge' = u => merge = u
    BY <1>1 DEF Shared
  <1>7. Holds(u)' <=> Holds(u)
    BY DEF Holds, Frame
  <1>8. pc'[u] = pc[u] /\ status'[u] = status[u] /\ run'[u] = run[u] /\ phase'[u] = phase[u]
    BY DEF Frame
  <1>9. Passes(u)'
    BY <1>2, <1>3, <1>5, <1>8 DEF Sound, Passes, Frame, Holds, Locked
  <1>10. Merges(u)'
    <2>1. ASSUME merge' = u PROVE claim' = u \/ SettledFor(u)'
      <3>1. claim = u \/ SettledFor(u)
        BY <1>6, <2>1 DEF Sound, Merges
      <3>2. CASE claim = u /\ ~Holds(u)
        BY <1>6, <2>1, <3>2 DEF Sound, Merges, TearsDown, MergeReported, SettledFor, Holds, Frame
      <3> QED
        BY <1>5, <3>1, <3>2 DEF Frame, SettledFor
    <2> QED
      BY <1>6, <1>8, <2>1 DEF Sound, Merges
  <1>11. Excludes(u)'
    <2>1. ASSUME lock' = u PROVE ~HeldByOther(u)'
      <3>1. lock = u /\ claim' = claim /\ ~HeldByOther(u)
        BY <1>2, <1>3, <2>1 DEF Sound, Excludes
      <3>2. CASE claim \in {u, None}
        BY <3>1, <3>2 DEF HeldByOther
      <3>3. CASE claim \in Tasks /\ ~Holds(claim)
        <4>1. ~Holds(claim)'
          BY <3>1, <3>3 DEF Holds, Frame, Shared
        <4> QED
          BY <3>1, <4>1 DEF HeldByOther
      <3> QED
        BY <3>1, <3>2, <3>3 DEF HeldByOther, TypeOK
    <2>2. ASSUME Active(u)' PROVE claim' = u
      <3>1. Active(u)
        BY <2>2 DEF Active, Frame
      <3>2. claim = u /\ Holds(u)
        BY <3>1 DEF Sound, Excludes, Active, Holds, Passes, TearsDown, NoSandbox, NoNewSandbox
      <3> QED
        BY <1>5, <3>2
    <2> QED
      BY <2>1, <2>2 DEF Excludes
  <1>12. TearsDown(u)'
    BY <1>6, <1>8 DEF Sound, TearsDown, NoNewSandbox, NoSandbox, MergeReported, Frame
  <1>13. Attempts(u)'
    BY DEF Sound, Attempts, Frame
  <1> QED
    BY <1>9, <1>10, <1>11, <1>12, <1>13 DEF Sound

-----------------------------------------------------------------------------
(* Each step is framed so: those of a pass, *)
LEMMA PassFrame ==
    ASSUME TypeOK, NEW t \in Tasks, Sound(t), Pass(t)
    PROVE  Frame(t) /\ Shared(t)
  <1> USE MergeAssumption
      DEF TypeOK, Frame, Shared, Sound, Passes, Goto, Holds, HeldByOther, Live, Locked, Inside,
          passVars, runVars, jobVars, recVars
  <1>1. CASE PassStart(t)
    BY <1>1 DEF PassStart
  <1>2. CASE ClaimDir(t)
    BY <1>2 DEF ClaimDir
  <1>3. CASE EnterSection(t)
    BY <1>3 DEF EnterSection
  <1>4. CASE OpenMerge(t)
    BY <1>4 DEF OpenMerge
  <1>5. CASE AbortMerge(t)
    BY <1>5 DEF AbortMerge, Without
  <1>6. CASE Dispatch(t)
    BY <1>6 DEF Dispatch
  <1>7. CASE Ingest(t)
    BY <1>7 DEF Ingest, Without
  <1>8. CASE FinishSection(t)
    BY <1>8 DEF FinishSection
  <1>9. CASE HaltSection(t)
    BY <1>9 DEF HaltSection
  <1>10. CASE PutBack(t)
    BY <1>10 DEF PutBack
  <1>11. CASE PutBackEnds(t)
    BY <1>11 DEF PutBackEnds
  <1>12. CASE PassCrash(t)
    BY <1>12 DEF PassCrash
  <1> QED
    BY <1>1, <1>2, <1>3, <1>4, <1>5, <1>6, <1>7, <1>8, <1>9, <1>10, <1>11, <1>12 DEF Pass

(* of a fixer and of those who cancel, *)
LEMMA CancelFrame ==
    ASSUME TypeOK, NEW t \in Tasks, Sound(t),
           Fixer(t) \/ StopRuns(t) \/ Cancel(t) \/ HungLands(t) \/ CancelJob(t)
    PROVE  Frame(t) /\ Shared(t)
  <1> USE MergeAssumption
      DEF TypeOK, Frame, Shared, Sound, Passes, Holds, passVars, runVars, jobVars, recVars, Stage,
          Actors
  <1>1. CASE CreateCheck(t)
    BY <1>1 DEF CreateCheck
  <1>2. CASE Created(t)
    BY <1>2 DEF Created
  <1>3. CASE RunEnds(t)
    BY <1>3 DEF RunEnds
  <1>4. CASE StopRuns(t)
    BY <1>4 DEF StopRuns
  <1>5. CASE Cancel(t)
    BY <1>5 DEF Cancel
  <1>6. CASE HungLands(t)
    BY <1>6 DEF HungLands
  <1>7. CASE CancelJob(t)
    BY <1>7 DEF CancelJob
  <1> QED
    BY <1>1, <1>2, <1>3, <1>4, <1>5, <1>6, <1>7 DEF Fixer

(* of the teardowns, *)
LEMMA TeardownFrame ==
    ASSUME TypeOK, NEW t \in Tasks, Sound(t), NEW k \in Actors, Teardown(k, t)
    PROVE  Frame(t) /\ Shared(t)
  <1> USE MergeAssumption
      DEF TypeOK, Frame, Shared, Holds, passVars, runVars, jobVars, recVars, Stage, Fault
  <1>1. CASE Supersede(k, t)
    BY <1>1 DEF Supersede
  <1>2. CASE Kill(k, t)
    BY <1>2 DEF Kill
  <1>3. CASE KillFails(k, t)
    BY <1>3 DEF KillFails
  <1>4. CASE List(k, t)
    BY <1>4 DEF List
  <1>5. CASE Record(k, t)
    BY <1>5 DEF Record, ReportOrSpare, LeftOpen, Looks
  <1>6. CASE ReleaseClaims(k, t)
    BY <1>6 DEF ReleaseClaims
  <1>7. CASE FinishCancel(k, t)
    BY <1>7 DEF FinishCancel
  <1>8. CASE TeardownFails(k, t)
    BY <1>8 DEF TeardownFails
  <1> QED
    BY <1>1, <1>2, <1>3, <1>4, <1>5, <1>6, <1>7, <1>8 DEF Teardown, TeardownWorks

(* and of the sweep. *)
LEMMA SweepFrame ==
    ASSUME TypeOK, NEW t \in Tasks, Sound(t), Sweep(t)
    PROVE  Frame(t) /\ Shared(t)
  <1> USE MergeAssumption
      DEF TypeOK, Frame, Shared, Holds, passVars, runVars, jobVars, recVars, Stage, Fault, Actors
  <1>1. CASE Redrive(t)
    BY <1>1 DEF Redrive
  <1>2. CASE RedriveQueues(t)
    BY <1>2 DEF RedriveQueues
  <1>3. CASE RedriveRefused(t)
    BY <1>3 DEF RedriveRefused
  <1>4. CASE RedriveCrash(t)
    BY <1>4 DEF RedriveCrash
  <1>5. CASE Age(t)
    BY <1>5 DEF Age
  <1>6. CASE Abandon(t)
    BY <1>6 DEF Abandon
  <1> QED
    BY <1>1, <1>2, <1>3, <1>4, <1>5, <1>6 DEF Sweep

-----------------------------------------------------------------------------
(* The types, which every step keeps: a pass counts no fixer past Retries, *)
LEMMA PassTypes ==
    ASSUME TypeOK, NEW t \in Tasks, Sound(t), Pass(t)
    PROVE  TypeOK'
  <1> USE MergeAssumption
      DEF TypeOK, Sound, Passes, Attempts, Wanting, Inside, passVars, runVars, jobVars, recVars, Stages, Goto, Into, Again, Resume, Live
  <1>1. CASE PassStart(t)
    BY <1>1 DEF PassStart
  <1>2. CASE ClaimDir(t)
    BY <1>2 DEF ClaimDir
  <1>3. CASE EnterSection(t)
    BY <1>3 DEF EnterSection
  <1>4. CASE OpenMerge(t)
    BY <1>4 DEF OpenMerge
  <1>5. CASE AbortMerge(t)
    BY <1>5 DEF AbortMerge, Without
  <1>6. CASE Dispatch(t)
    BY <1>6 DEF Dispatch
  <1>7. CASE Ingest(t)
    BY <1>7 DEF Ingest, Without
  <1>8. CASE FinishSection(t)
    BY <1>8 DEF FinishSection
  <1>9. CASE HaltSection(t)
    BY <1>9 DEF HaltSection
  <1>10. CASE PutBack(t)
    BY <1>10 DEF PutBack
  <1>11. CASE PutBackEnds(t)
    BY <1>11 DEF PutBackEnds
  <1>12. CASE PassCrash(t)
    BY <1>12 DEF PassCrash
  <1> QED
    BY <1>1, <1>2, <1>3, <1>4, <1>5, <1>6, <1>7, <1>8, <1>9, <1>10, <1>11, <1>12 DEF Pass

(* a cancel changes rows of tasks, *)
LEMMA CancelTypes ==
    ASSUME TypeOK, NEW t \in Tasks, Sound(t),
           Fixer(t) \/ StopRuns(t) \/ Cancel(t) \/ HungLands(t) \/ CancelJob(t)
    PROVE  TypeOK'
  <1> USE MergeAssumption
      DEF TypeOK, Sound, Passes, Attempts, Wanting, Inside, passVars, runVars, jobVars, recVars, Stages, Stage, Actors
  <1>1. CASE CreateCheck(t)
    BY <1>1 DEF CreateCheck
  <1>2. CASE Created(t)
    BY <1>2 DEF Created
  <1>3. CASE RunEnds(t)
    BY <1>3 DEF RunEnds
  <1>4. CASE StopRuns(t)
    BY <1>4 DEF StopRuns
  <1>5. CASE Cancel(t)
    BY <1>5 DEF Cancel
  <1>6. CASE HungLands(t)
    BY <1>6 DEF HungLands
  <1>7. CASE CancelJob(t)
    BY <1>7 DEF CancelJob
  <1> QED
    BY <1>1, <1>2, <1>3, <1>4, <1>5, <1>6, <1>7 DEF Fixer

(* a teardown goes from stage to stage, *)
LEMMA TeardownTypes ==
    ASSUME TypeOK, NEW t \in Tasks, Sound(t), NEW k \in Actors, Teardown(k, t)
    PROVE  TypeOK'
  <1> USE MergeAssumption
      DEF TypeOK, Sound, Passes, Attempts, Wanting, Inside, passVars, runVars, jobVars, recVars, Stages, Stage, Fault
  <1>1. CASE Supersede(k, t)
    BY <1>1 DEF Supersede
  <1>2. CASE Kill(k, t)
    BY <1>2 DEF Kill
  <1>3. CASE KillFails(k, t)
    BY <1>3 DEF KillFails
  <1>4. CASE List(k, t)
    BY <1>4 DEF List
  <1>5. CASE Record(k, t)
    BY <1>5 DEF Record, ReportOrSpare, LeftOpen, Looks
  <1>6. CASE ReleaseClaims(k, t)
    BY <1>6 DEF ReleaseClaims
  <1>7. CASE FinishCancel(k, t)
    BY <1>7 DEF FinishCancel
  <1>8. CASE TeardownFails(k, t)
    BY <1>8 DEF TeardownFails
  <1> QED
    BY <1>1, <1>2, <1>3, <1>4, <1>5, <1>6, <1>7, <1>8 DEF Teardown, TeardownWorks

(* and the sweep gives back only attempts it counted. *)
LEMMA SweepTypes ==
    ASSUME TypeOK, NEW t \in Tasks, Sound(t), Sweep(t)
    PROVE  TypeOK'
  <1> USE MergeAssumption
      DEF TypeOK, Sound, Passes, Attempts, Wanting, Inside, passVars, runVars, jobVars, recVars, Stages, Stage, Fault, Actors
  <1>1. CASE Redrive(t)
    BY <1>1 DEF Redrive
  <1>2. CASE RedriveQueues(t)
    BY <1>2 DEF RedriveQueues
  <1>3. CASE RedriveRefused(t)
    BY <1>3 DEF RedriveRefused
  <1>4. CASE RedriveCrash(t)
    BY <1>4 DEF RedriveCrash
  <1>5. CASE Age(t)
    BY <1>5 DEF Age
  <1>6. CASE Abandon(t)
    BY <1>6 DEF Abandon
  <1> QED
    BY <1>1, <1>2, <1>3, <1>4, <1>5, <1>6 DEF Sweep

-----------------------------------------------------------------------------
(* The acting task keeps what is true of it: in its pass, *)
LEMMA PassSound ==
    ASSUME TypeOK, NEW t \in Tasks, Sound(t), Pass(t)
    PROVE  Sound(t)'
  <1> USE MergeAssumption
      DEF TypeOK, Sound, Passes, Merges, Excludes, TearsDown, Attempts, Active, NoNewSandbox, NoSandbox,
          MergeReported, SettledFor, HeldByOther, Holds, Locked, Claimed, Wanting, Inside, passVars, runVars,
          jobVars, recVars, Stages, Goto, Into, Again, Resume, Live
  <1>1. CASE PassStart(t)
    BY <1>1 DEF PassStart
  <1>2. CASE ClaimDir(t)
    BY <1>2 DEF ClaimDir
  <1>3. CASE EnterSection(t)
    BY <1>3 DEF EnterSection
  <1>4. CASE OpenMerge(t)
    BY <1>4 DEF OpenMerge
  <1>5. CASE AbortMerge(t)
    BY <1>5 DEF AbortMerge, Without
  <1>6. CASE Dispatch(t)
    BY <1>6 DEF Dispatch
  <1>7. CASE Ingest(t)
    BY <1>7 DEF Ingest, Without
  <1>8. CASE FinishSection(t)
    BY <1>8 DEF FinishSection
  <1>9. CASE HaltSection(t)
    BY <1>9 DEF HaltSection
  <1>10. CASE PutBack(t)
    BY <1>10 DEF PutBack
  <1>11. CASE PutBackEnds(t)
    BY <1>11 DEF PutBackEnds
  <1>12. CASE PassCrash(t)
    BY <1>12 DEF PassCrash
  <1> QED
    BY <1>1, <1>2, <1>3, <1>4, <1>5, <1>6, <1>7, <1>8, <1>9, <1>10, <1>11, <1>12 DEF Pass

(* in its fixer and when it is cancelled, *)
LEMMA CancelSound ==
    ASSUME TypeOK, NEW t \in Tasks, Sound(t),
           Fixer(t) \/ StopRuns(t) \/ Cancel(t) \/ HungLands(t) \/ CancelJob(t)
    PROVE  Sound(t)'
  <1> USE MergeAssumption
      DEF TypeOK, Sound, Passes, Merges, Excludes, TearsDown, Attempts, Active, NoNewSandbox, NoSandbox,
          MergeReported, SettledFor, HeldByOther, Holds, Locked, Claimed, Wanting, Inside, passVars, runVars,
          jobVars, recVars, Stages, Stage, Actors
  <1>1. CASE CreateCheck(t)
    BY <1>1 DEF CreateCheck
  <1>2. CASE Created(t)
    BY <1>2 DEF Created
  <1>3. CASE RunEnds(t)
    BY <1>3 DEF RunEnds
  <1>4. CASE StopRuns(t)
    BY <1>4 DEF StopRuns
  <1>5. CASE Cancel(t)
    BY <1>5 DEF Cancel
  <1>6. CASE HungLands(t)
    BY <1>6 DEF HungLands
  <1>7. CASE CancelJob(t)
    BY <1>7 DEF CancelJob
  <1> QED
    BY <1>1, <1>2, <1>3, <1>4, <1>5, <1>6, <1>7 DEF Fixer

(* in its teardowns, *)
LEMMA TeardownSound ==
    ASSUME TypeOK, NEW t \in Tasks, Sound(t), NEW k \in Actors, Teardown(k, t)
    PROVE  Sound(t)'
  <1> USE MergeAssumption
      DEF TypeOK, Sound, Passes, Merges, Excludes, TearsDown, Attempts, Active, NoNewSandbox, NoSandbox,
          MergeReported, SettledFor, HeldByOther, Holds, Locked, Claimed, Wanting, Inside, passVars, runVars,
          jobVars, recVars, Stages, Stage, Fault
  <1>1. CASE Supersede(k, t)
    BY <1>1 DEF Supersede
  <1>2. CASE Kill(k, t)
    BY <1>2 DEF Kill
  <1>3. CASE KillFails(k, t)
    BY <1>3 DEF KillFails
  <1>4. CASE List(k, t)
    BY <1>4 DEF List
  <1>5. CASE Record(k, t)
    BY <1>5 DEF Record, ReportOrSpare, LeftOpen, Looks
  <1>6. CASE ReleaseClaims(k, t)
    BY <1>6 DEF ReleaseClaims
  <1>7. CASE FinishCancel(k, t)
    BY <1>7 DEF FinishCancel
  <1>8. CASE TeardownFails(k, t)
    BY <1>8 DEF TeardownFails
  <1> QED
    BY <1>1, <1>2, <1>3, <1>4, <1>5, <1>6, <1>7, <1>8 DEF Teardown, TeardownWorks

(* and in the sweep. *)
LEMMA SweepSound ==
    ASSUME TypeOK, NEW t \in Tasks, Sound(t), Sweep(t)
    PROVE  Sound(t)'
  <1> USE MergeAssumption
      DEF TypeOK, Sound, Passes, Merges, Excludes, TearsDown, Attempts, Active, NoNewSandbox, NoSandbox,
          MergeReported, SettledFor, HeldByOther, Holds, Locked, Claimed, Wanting, Inside, passVars, runVars,
          jobVars, recVars, Stages, Stage, Fault, Actors
  <1>1. CASE Redrive(t)
    BY <1>1 DEF Redrive
  <1>2. CASE RedriveQueues(t)
    BY <1>2 DEF RedriveQueues
  <1>3. CASE RedriveRefused(t)
    BY <1>3 DEF RedriveRefused
  <1>4. CASE RedriveCrash(t)
    BY <1>4 DEF RedriveCrash
  <1>5. CASE Age(t)
    BY <1>5 DEF Age
  <1>6. CASE Abandon(t)
    BY <1>6 DEF Abandon
  <1> QED
    BY <1>1, <1>2, <1>3, <1>4, <1>5, <1>6 DEF Sweep

-----------------------------------------------------------------------------
(* A step is some task's. *)
LEMMA NextIsSomebodys == Next <=> \E t \in Tasks : Moves(t)
  BY DEF Next, Moves

(* Whoever moves is framed. *)
LEMMA MovesFramed ==
    ASSUME TypeOK, NEW t \in Tasks, Sound(t), Moves(t)
    PROVE  Frame(t) /\ Shared(t)
  BY PassFrame, CancelFrame, TeardownFrame, SweepFrame DEF Moves

(* The invariant is inductive. *)
LEMMA MovesInv ==
    ASSUME Inv, NEW t \in Tasks, Moves(t)
    PROVE  Inv'
  <1>1. TypeOK /\ Sound(t)
    BY DEF Inv
  <1>2. TypeOK'
    BY <1>1, PassTypes, CancelTypes, TeardownTypes, SweepTypes DEF Moves
  <1>3. Sound(t)'
    BY <1>1, PassSound, CancelSound, TeardownSound, SweepSound DEF Moves
  <1>4. ASSUME NEW u \in Tasks \ {t} PROVE Sound(u)'
    BY <1>1, MovesFramed, OthersSound DEF Inv
  <1> QED
    BY <1>2, <1>3, <1>4 DEF Inv

(* It holds throughout. *)
LEMMA Inductive == Spec => []Inv
  <1>1. Inv /\ [Next]_vars => Inv'
    <2>1. CASE UNCHANGED vars
      BY <2>1
      DEF vars, Inv, TypeOK, Sound, Passes, Merges, Excludes, TearsDown, Attempts, Active,
          NoNewSandbox, NoSandbox, MergeReported, SettledFor, HeldByOther, Holds
    <2> QED
      BY <2>1, MovesInv, NextIsSomebodys
  <1> QED
    BY <1>1, InitInv, PTL DEF Spec

(* task.cancel_finished is true for any tasks, however often their teardowns fail
   and are repeated: no sandbox is left or comes; an open merge is reported,
   unless it is in a person's own checkout or another task still worked in the
   worktree when the cancel looked; and the sweep queued no job beyond
   CANCEL_REDRIVE_MAX. *)
THEOREM CancelRecordsTrueHolds == Spec => []CancelRecordsTrue
  <1>1. Inv => CancelRecordsTrue
    <2> SUFFICES ASSUME Inv PROVE TornDown /\ LeftOpenReported /\ RedriveCapped
      BY DEF Inv, CancelRecordsTrue
    <2>1. ASSUME NEW t \in finished
          PROVE  /\ run[t] \notin {"creating", "live"}
                 /\ run[t] = "queued" => t \in superseded
                 /\ t \notin owned
                 /\ merge = t => host \/ t \in reported \union spared
      BY DEF Inv, TypeOK, Sound, Passes, TearsDown, NoSandbox, NoNewSandbox, MergeReported
    <2>2. ASSUME NEW t \in Tasks PROVE sent[t] <= MaxRedrives
      BY MergeAssumption DEF Inv, TypeOK, Sound, Attempts
    <2> QED
      BY <2>1, <2>2 DEF TornDown, LeftOpenReported, RedriveCapped
  <1> QED
    BY <1>1, Inductive, PTL

-----------------------------------------------------------------------------
(* A task that begins to write finds nobody writing: a fixer has its task's claim
   for as long as it can have a sandbox, and no section is entered against a
   claim that holds. *)
LEMMA EnteredAlone ==
    ASSUME Inv, NEW t \in Tasks, Moves(t), ~Writing(t), Writing(t)', NEW u \in Tasks
    PROVE  ~Writing(u)
  <1> SUFFICES ASSUME u # t, Writing(u) PROVE FALSE
    OBVIOUS
  <1>1. TypeOK /\ Sound(t) /\ Sound(u) /\ Shared(t) /\ t # None /\ u # None
    BY MovesFramed, MergeAssumption DEF Inv
  <1>2. \/ lock = None /\ ~HeldByOther(t)
        \/ run[t] = "creating"
    BY <1>1 DEF Writing, Shared
  <1>3. ASSUME NEW v \in Tasks, Sound(v), run[v] \in {"creating", "live"}
        PROVE  claim = v /\ Holds(v)
    BY <1>3 DEF Sound, Excludes, Active, Holds, Passes, TearsDown, NoSandbox, NoNewSandbox
  <1>4. CASE lock = None /\ ~HeldByOther(t)
    <2>1. run[u] = "live"
      BY <1>1, <1>4 DEF Writing
    <2> QED
      BY <1>1, <1>3, <1>4, <2>1 DEF HeldByOther
  <1>5. CASE run[t] = "creating"
    <2>1. claim = t /\ Holds(t)
      BY <1>1, <1>3, <1>5
    <2>2. lock = u
      BY <1>1, <1>3, <2>1 DEF Writing
    <2> QED
      BY <1>1, <2>1, <2>2 DEF Sound, Excludes, HeldByOther
  <1> QED
    BY <1>2, <1>4, <1>5

(* merge_dir_claims is exclusive use of the directory, for any number of tasks:
   the sections of the passes and the sandboxes of the fixers implement
   ExclusiveUse. *)
THEOREM ExclusiveDirHolds == Spec => ExclusiveDir
  <1> DEFINE W == {t \in Tasks : Writing(t)}
  <1>1. Init => W = {}
    BY MergeAssumption DEF Init, Writing
  <1>2. Inv /\ [Next]_vars => [\E u \in Tasks : Dir!Enter(u) \/ Dir!Leave(u)]_W
    <2>1. CASE UNCHANGED vars
      BY <2>1 DEF vars, Writing
    <2>2. ASSUME Inv, NEW t \in Tasks, Moves(t), W' # W
          PROVE  \E u \in Tasks : Dir!Enter(u) \/ Dir!Leave(u)
      <3>1. ASSUME NEW u \in Tasks \ {t} PROVE Writing(u)' <=> Writing(u)
        <4>1. Frame(t) /\ Shared(t)
          BY <2>2, MovesFramed DEF Inv
        <4> QED
          BY <4>1, MergeAssumption DEF Writing, Frame, Shared
      <3>2. CASE Writing(t) /\ ~Writing(t)'
        <4>1. t \in W /\ W' = W \ {t}
          BY <3>1, <3>2
        <4> QED
          BY <4>1 DEF Dir!Leave
      <3>3. CASE ~Writing(t) /\ Writing(t)'
        <4>1. W = {}
          BY <2>2, <3>3, EnteredAlone
        <4>2. W' = {t}
          BY <3>1, <3>3, <4>1
        <4> QED
          BY <4>1, <4>2 DEF Dir!Enter
      <3>4. CASE Writing(t)' <=> Writing(t)
        BY <2>2, <3>1, <3>4
      <3> QED
        BY <3>2, <3>3, <3>4
    <2> QED
      BY <2>1, <2>2, NextIsSomebodys
  <1> QED
    BY <1>1, <1>2, Inductive, PTL DEF Spec, ExclusiveDir, Dir!Spec, Dir!Init, Dir!Next
=============================================================================
