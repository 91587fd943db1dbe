---------------------------- MODULE Upgrade_proofs ----------------------------
(* Proofs about Upgrade, for every number of updaters, runs, faults and pieces of
   work, where no updater is started while another is still running. *)
EXTENDS Upgrade, SequenceTheorems, FiniteSetTheorems, TLAPS

(* One process at a time, and one live run, which is the journal's last. *)
OneUpdater == \A u, v \in Updaters : pc[u] # "off" /\ pc[v] # "off" => u = v
OneLive == \A i \in Live : i = Len(runs)
Done == \E i \in 1..Len(runs) : runs[i].status = "done"
WholeNew == pin = "new" /\ images = "new" /\ schema = "new"

Row(u) == runs[run[u]]

(* An updater past its lock works on the live run.  Whether it goes forward,
   commits or undoes agrees with the phase it journaled. *)
OnItsRun(u) ==
    /\ pc[u] = "start" => Live = {} /\ pin = "old"
    /\ pc[u] \notin {"off", "start"} => run[u] \in Live
    /\ pc[u] \in Before \union Undo => Row(u).phase # "commit"
    /\ pc[u] \in Commit \ {"commit"} => Row(u).phase = "commit"

(* What it has done to the install. *)
Installs(u) ==
    /\ pc[u] \in {"verifyUp", "awaitVersion"} => pin = "new"
    /\ pc[u] \in Commit => WholeNew
    /\ pc[u] \in {"commitState", "commitEnd"} => destroyed
    /\ pc[u] \in {"undoUp", "undoState", "undoEnd"} => pin = "old"
    /\ pc[u] \in {"undoState", "undoEnd"} => images = "old"

(* What it has done to the maintenance state. *)
Entering == {"holdWrite", "drain", "maintenance", "recount", "redrain", "setMaintenance"}
Holding == {"snapshot", "stop", "up", "migrate", "migrating", "verify", "verifyPin",
            "verifyUp", "awaitVersion"}

Holds(u) ==
    /\ untouched[u] => /\ pc[u] \in {"draining", "hold"} \union Undo
                       /\ mstate = before /\ Row(u).found = "none"
    /\ pc[u] \in {"draining", "hold"} => untouched[u]
    /\ pc[u] \in Entering \union Holding => Row(u).found # "none"
    /\ pc[u] \in Entering /\ Row(u).found # "maintenance" => mstate # "maintenance"
    /\ pc[u] = "setMaintenance" => forced[u]
    /\ pc[u] \in Holding /\ ~forced[u] /\ Row(u).found # "maintenance"
       => mstate = "maintenance" /\ \A w \in Work : work[w] = "ended"
    /\ pc[u] \in {"commitEnd", "undoEnd"} /\ Row(u).found # "none" => mstate = Row(u).found

(* What the journal says of the install, whether or not an updater runs. *)
Journal ==
    /\ \A i \in Live : /\ runs[i].found # "none" => runs[i].found = before
                       /\ runs[i].phase = "commit" => WholeNew
    /\ destroyed => Done \/ \E i \in Live : runs[i].phase = "commit"
    /\ Live = {} /\ ~Done => pin = "old" /\ images = "old"
    /\ Done => Live = {} /\ WholeNew /\ destroyed

Sound(u) == OnItsRun(u) /\ Installs(u) /\ Holds(u)
Inv == TypeOK /\ OneUpdater /\ OneLive /\ Journal /\ \A u \in Updaters : Sound(u)

-----------------------------------------------------------------------------
(* A row of the journal is rewritten. *)
LEMMA RowWritten ==
    ASSUME NEW s \in Seq(Run), NEW i \in 1..Len(s), NEW r \in Run, NEW s2,
           s2 = [s EXCEPT ![i] = r]
    PROVE  /\ s2 \in Seq(Run) /\ Len(s2) = Len(s) /\ s2[i] = r
           /\ \A j \in 1..Len(s) : j # i => s2[j] = s[j]
  BY ExceptSeq

(* At most one run is live. *)
LEMMA LiveIsOne ==
    ASSUME runs \in Seq(Run), OneLive
    PROVE  Cardinality(Live) <= 1
  <1>1. Live = {} \/ Live = {Len(runs)}
    BY DEF OneLive, Live
  <1>2. Cardinality({}) = 0 /\ Cardinality({Len(runs)}) = 1
    BY FS_EmptySet, FS_Singleton
  <1>3. CASE Live = {}
    BY <1>2, <1>3
  <1>4. CASE Live = {Len(runs)}
    BY <1>2, <1>4
  <1> QED
    BY <1>1, <1>3, <1>4

(* The live run of an updater is the only one. *)
LEMMA ItsRun ==
    ASSUME Inv, NEW u \in Updaters, pc[u] \notin {"off", "start"}
    PROVE  /\ run[u] \in 1..Len(runs) /\ run[u] = Len(runs) /\ Live = {run[u]}
           /\ Row(u) \in Run /\ Row(u).status = "running" /\ ~Done
  BY DEF Inv, TypeOK, Sound, OnItsRun, OneLive, Live, Row, Journal

(* It journals a phase, *)
LEMMA PhaseJournaled ==
    ASSUME Inv, NEW u \in Updaters, pc[u] \notin {"off", "start"}, NEW p \in Phases,
           EnterPhase(u, p)
    PROVE  /\ runs' \in Seq(Run) /\ Len(runs') = Len(runs)
           /\ runs'[run[u]].phase = p /\ runs'[run[u]].found = Row(u).found
           /\ Live' = Live /\ (Done' <=> Done)
  <1>1. runs' = [runs EXCEPT ![run[u]] = [Row(u) EXCEPT !.phase = p]]
    BY DEF EnterPhase, Row
  <1>2. [Row(u) EXCEPT !.phase = p] \in Run
    BY ItsRun DEF Run
  <1>3. /\ runs' \in Seq(Run) /\ Len(runs') = Len(runs)
        /\ runs'[run[u]] = [Row(u) EXCEPT !.phase = p]
        /\ \A j \in 1..Len(runs) : j # run[u] => runs'[j] = runs[j]
    <2>1. runs \in Seq(Run) /\ run[u] \in 1..Len(runs)
      BY ItsRun DEF Inv, TypeOK
    <2> QED
      BY <1>1, <1>2, <2>1, RowWritten
  <1>4. \A j \in 1..Len(runs) : runs'[j].status = runs[j].status
    BY <1>3, ItsRun DEF Row, Run
  <1>5. Live' = Live
    <2>1. \A j : j \in Live' <=> j \in Live
      BY <1>3, <1>4 DEF Live
    <2> QED
      BY <2>1
  <1>6. Done' <=> Done
    BY <1>3, <1>4 DEF Done
  <1>7. runs'[run[u]].phase = p /\ runs'[run[u]].found = Row(u).found
    BY <1>3, ItsRun DEF Run
  <1> QED
    BY <1>3, <1>5, <1>6, <1>7

(* or the state it found, *)
LEMMA FoundJournaled ==
    ASSUME Inv, NEW u \in Updaters, pc[u] \notin {"off", "start"}, NEW f \in MStates,
           runs' = [runs EXCEPT ![run[u]].found = f]
    PROVE  /\ runs' \in Seq(Run) /\ Len(runs') = Len(runs)
           /\ runs'[run[u]].found = f /\ runs'[run[u]].phase = Row(u).phase
           /\ Live' = Live /\ (Done' <=> Done)
  <1>1. runs' = [runs EXCEPT ![run[u]] = [Row(u) EXCEPT !.found = f]]
    BY DEF Row
  <1>2. [Row(u) EXCEPT !.found = f] \in Run
    BY ItsRun DEF Run
  <1>3. /\ runs' \in Seq(Run) /\ Len(runs') = Len(runs)
        /\ runs'[run[u]] = [Row(u) EXCEPT !.found = f]
        /\ \A j \in 1..Len(runs) : j # run[u] => runs'[j] = runs[j]
    <2>1. runs \in Seq(Run) /\ run[u] \in 1..Len(runs)
      BY ItsRun DEF Inv, TypeOK
    <2> QED
      BY <1>1, <1>2, <2>1, RowWritten
  <1>4. \A j \in 1..Len(runs) : runs'[j].status = runs[j].status
    BY <1>3, ItsRun DEF Row, Run
  <1>5. Live' = Live
    <2>1. \A j : j \in Live' <=> j \in Live
      BY <1>3, <1>4 DEF Live
    <2> QED
      BY <2>1
  <1>6. Done' <=> Done
    BY <1>3, <1>4 DEF Done
  <1>7. runs'[run[u]].found = f /\ runs'[run[u]].phase = Row(u).phase
    BY <1>3, ItsRun DEF Run
  <1> QED
    BY <1>3, <1>5, <1>6, <1>7

(* or the end of its run. *)
LEMMA EndJournaled ==
    ASSUME Inv, NEW u \in Updaters, pc[u] \notin {"off", "start"},
           NEW e \in {"done", "rolled_back"}, runs' = [runs EXCEPT ![run[u]].status = e]
    PROVE  /\ runs' \in Seq(Run) /\ Len(runs') = Len(runs)
           /\ Live' = {} /\ (Done' <=> e = "done")
           /\ \A j \in 1..Len(runs) : j # run[u] => runs'[j] = runs[j]
  <1>1. runs' = [runs EXCEPT ![run[u]] = [Row(u) EXCEPT !.status = e]]
    BY DEF Row
  <1>2. [Row(u) EXCEPT !.status = e] \in Run
    BY ItsRun DEF Run, Statuses
  <1>3. /\ runs' \in Seq(Run) /\ Len(runs') = Len(runs)
        /\ runs'[run[u]] = [Row(u) EXCEPT !.status = e]
        /\ \A j \in 1..Len(runs) : j # run[u] => runs'[j] = runs[j]
    <2>1. runs \in Seq(Run) /\ run[u] \in 1..Len(runs)
      BY ItsRun DEF Inv, TypeOK
    <2> QED
      BY <1>1, <1>2, <2>1, RowWritten
  <1>4. runs'[run[u]].status = e
    BY <1>3, ItsRun DEF Run
  <1>5. Live' = {}
    BY <1>3, <1>4, ItsRun DEF Live
  <1>6. Done' <=> e = "done"
    BY <1>3, <1>4, ItsRun DEF Done
  <1> QED
    BY <1>3, <1>5, <1>6

(* A new run is the journal's last and its only live one. *)
LEMMA RunJournaled ==
    ASSUME Inv, Live = {}, NEW r \in Run, r.status = "running", runs' = Append(runs, r)
    PROVE  /\ runs' \in Seq(Run) /\ Len(runs') = Len(runs) + 1
           /\ runs'[Len(runs) + 1] = r
           /\ Live' = {Len(runs) + 1} /\ (Done' <=> Done)
  <1>1. /\ runs' \in Seq(Run) /\ Len(runs') = Len(runs) + 1
        /\ runs'[Len(runs) + 1] = r
        /\ \A j \in 1..Len(runs) : runs'[j] = runs[j]
        /\ Len(runs) \in Nat
    BY AppendProperties DEF Inv, TypeOK
  <1> QED
    BY <1>1 DEF Live, Done

(* A step that leaves the journal alone. *)
LEMMA JournalLeft ==
    ASSUME Inv, UNCHANGED runs
    PROVE  /\ runs' \in Seq(Run) /\ Len(runs') = Len(runs)
           /\ Live' = Live /\ (Done' <=> Done)
  BY DEF Inv, TypeOK, Live, Done

-----------------------------------------------------------------------------
(* What a step of the acting updater has to keep. *)
Kept(u) ==
    /\ runs' \in Seq(Run) /\ Len(runs') <= MaxRuns
    /\ OneLive' /\ Journal' /\ Sound(u)'

(* The journal of an updater past its lock, before and after its step: the step
   journals a phase or leaves the journal alone. *)
AfterPhase(u, p) ==
    /\ runs' \in Seq(Run) /\ Len(runs') = Len(runs)
    /\ runs'[run[u]].phase = p /\ runs'[run[u]].found = Row(u).found
    /\ Live' = Live /\ ~Done'

Journaled(u) ==
    /\ Live = {run[u]} /\ run[u] = Len(runs) /\ ~Done
    /\ Row(u).phase \in Phases /\ Row(u).found \in MStates \union {"none"}
    /\ \A p \in Phases : EnterPhase(u, p) => AfterPhase(u, p)
    /\ runs' = runs => AfterPhase(u, Row(u).phase)

(* So it is, for every updater past its lock. *)
LEMMA JournalSteps ==
    ASSUME Inv, NEW u \in Updaters, pc[u] \notin {"off", "start"}
    PROVE  Journaled(u)
  <1>1. /\ Live = {run[u]} /\ run[u] = Len(runs) /\ ~Done
        /\ Row(u).phase \in Phases /\ Row(u).found \in MStates \union {"none"}
    BY ItsRun DEF Run
  <1>2. ASSUME NEW p \in Phases, EnterPhase(u, p) PROVE AfterPhase(u, p)
    BY <1>1, <1>2, PhaseJournaled DEF AfterPhase
  <1>3. ASSUME runs' = runs PROVE AfterPhase(u, Row(u).phase)
    BY <1>1, <1>3, JournalLeft DEF AfterPhase, Row
  <1> QED
    BY <1>1, <1>2, <1>3 DEF Journaled

(* Taking the system out of use. *)
LEMMA HoldKept ==
    ASSUME Inv, NEW u \in Updaters, pc[u] \notin {"off", "start"}, Hold(u)
    PROVE  Kept(u)
  <1>0. TypeOK /\ Journal /\ Sound(u) /\ Journaled(u)
    BY JournalSteps DEF Inv
  <1> USE <1>0, BoundsAssumption
      DEF Journaled, AfterPhase, TypeOK, Kept, OneLive, Journal, Sound, OnItsRun, Installs, Holds, Row, WholeNew,
          Go, Before, Undo, Commit, Entering, Holding, Phases, system, install, context
  <1>1. CASE Draining(u)
    BY <1>1 DEF Draining
  <1>2. CASE HoldDraining(u)
    <2>1. runs' = [runs EXCEPT ![run[u]].found = mstate]
      BY <1>2 DEF HoldDraining
    <2>2. /\ runs' \in Seq(Run) /\ Len(runs') = Len(runs)
          /\ runs'[run[u]].found = mstate /\ runs'[run[u]].phase = Row(u).phase
          /\ Live' = Live /\ ~Done'
      BY <2>1, FoundJournaled
    <2> QED
      BY <1>2, <2>2 DEF HoldDraining, MStates
  <1>3. CASE HoldDrainingWrite(u)
    BY <1>3 DEF HoldDrainingWrite
  <1>4. CASE AwaitDrain(u)
    BY <1>4 DEF AwaitDrain
  <1>5. CASE Maintenance(u)
    BY <1>5 DEF Maintenance
  <1>6. CASE EnterMaintenance(u)
    <2>1. CASE mstate # "normal" /\ LiveWork(mstate) = {}
      <3>1. mstate' = "maintenance" /\ work' = work /\ runs' = runs /\ pc' = [pc EXCEPT ![u] = "snapshot"]
        BY <1>6, <2>1 DEF EnterMaintenance
      <3>2. mstate # "maintenance" => \A w \in Work : work[w] = "ended"
        BY <1>6, <2>1 DEF EnterMaintenance, FenceForWrites, LiveWork
      <3> QED
        BY <1>6, <3>1, <3>2 DEF EnterMaintenance
    <2>2. CASE ~(mstate # "normal" /\ LiveWork(mstate) = {})
      <3>1. /\ mstate' = IF mstate = "normal" THEN "draining" ELSE mstate
            /\ EnterPhase(u, "draining") /\ pc' = [pc EXCEPT ![u] = "redrain"]
        BY <1>6, <2>2 DEF EnterMaintenance
      <3> QED
        BY <1>6, <3>1 DEF EnterMaintenance
    <2> QED
      BY <2>1, <2>2
  <1>7. CASE Redrain(u)
    BY <1>7 DEF Redrain
  <1>8. CASE SetMaintenance(u)
    BY <1>8 DEF SetMaintenance
  <1> QED
    BY <1>1, <1>2, <1>3, <1>4, <1>5, <1>6, <1>7, <1>8 DEF Hold

(* Taking the install to the new release. *)
LEMMA ApplyKept ==
    ASSUME Inv, NEW u \in Updaters, pc[u] \notin {"off", "start"}, Apply(u)
    PROVE  Kept(u)
  <1>0. TypeOK /\ Journal /\ Sound(u) /\ Journaled(u)
    BY JournalSteps DEF Inv
  <1> USE <1>0, BoundsAssumption
      DEF Journaled, AfterPhase, TypeOK, Kept, OneLive, Journal, Sound, OnItsRun, Installs, Holds, Row, WholeNew,
          Go, Before, Undo, Commit, Entering, Holding, Phases, system, install, context
  <1>1. CASE Snapshot(u)
    BY <1>1 DEF Snapshot
  <1>2. CASE StopPostgres(u)
    BY <1>2 DEF StopPostgres
  <1>3. CASE StartPostgres(u)
    BY <1>3 DEF StartPostgres
  <1>4. CASE Migrate(u)
    BY <1>4 DEF Migrate
  <1>5. CASE Migrating(u)
    BY <1>5 DEF Migrating
  <1>6. CASE Verify(u)
    BY <1>6 DEF Verify
  <1>7. CASE VerifyPin(u)
    BY <1>7 DEF VerifyPin
  <1>8. CASE VerifyUp(u)
    BY <1>8 DEF VerifyUp
  <1>9. CASE AwaitVersion(u)
    BY <1>9 DEF AwaitVersion
  <1> QED
    BY <1>1, <1>2, <1>3, <1>4, <1>5, <1>6, <1>7, <1>8, <1>9 DEF Apply

(* The end of a run, forward or back. *)
LEMMA FinishKept ==
    ASSUME Inv, NEW u \in Updaters, pc[u] \notin {"off", "start"}, Finish(u)
    PROVE  Kept(u)
  <1>0. TypeOK /\ Journal /\ Sound(u) /\ Journaled(u)
    BY JournalSteps DEF Inv
  <1> USE <1>0, BoundsAssumption
      DEF Journaled, AfterPhase, TypeOK, Kept, OneLive, Journal, Sound, OnItsRun, Installs, Holds, Row, WholeNew,
          Go, Before, Undo, Commit, Entering, Holding, Phases, system, install, context
  <1>1. CASE CommitPhase(u)
    BY <1>1 DEF CommitPhase
  <1>2. CASE Destroy(u)
    BY <1>2 DEF Destroy
  <1>3. CASE CommitState(u)
    BY <1>3 DEF CommitState, RestoreState
  <1>4. CASE CommitEnd(u)
    <2>1. /\ runs' \in Seq(Run) /\ Len(runs') = Len(runs)
          /\ Live' = {} /\ Done'
      BY <1>4, EndJournaled DEF CommitEnd
    <2> QED
      BY <1>4, <2>1 DEF CommitEnd, Exit
  <1>5. CASE UndoPin(u)
    BY <1>5 DEF UndoPin
  <1>6. CASE UndoUp(u)
    BY <1>6 DEF UndoUp
  <1>7. CASE UndoState(u)
    BY <1>7 DEF UndoState, RestoreState
  <1>8. CASE UndoEnd(u)
    <2>1. /\ runs' \in Seq(Run) /\ Len(runs') = Len(runs)
          /\ Live' = {} /\ ~Done'
      BY <1>8, EndJournaled DEF UndoEnd
    <2> QED
      BY <1>8, <2>1 DEF UndoEnd, Exit
  <1> QED
    BY <1>1, <1>2, <1>3, <1>4, <1>5, <1>6, <1>7, <1>8 DEF Finish

(* A failure, a death or a deadline changes no row and nothing of the install. *)
LEMMA FailureKept ==
    ASSUME Inv, NEW u \in Updaters, pc[u] # "off", Throws(u) \/ Dies(u) \/ Deadline(u) \/ StartRefused(u)
    PROVE  Kept(u)
  <1>0. /\ TypeOK /\ OneLive /\ Journal /\ Sound(u)
        /\ runs' \in Seq(Run) /\ Len(runs') = Len(runs)
        /\ Live' = Live /\ (Done' <=> Done) /\ runs' = runs
        /\ pc[u] # "start" => run[u] \in Live
    <2>1. UNCHANGED runs
      BY DEF Throws, Dies, Deadline, StartRefused
    <2> QED
      BY <2>1, JournalLeft DEF Inv, Sound, OnItsRun
  <1> USE <1>0, BoundsAssumption
      DEF TypeOK, Kept, OneLive, Journal, Sound, OnItsRun, Installs, Holds, Row, WholeNew,
          Go, Exit, Before, Undo, Commit, Entering, Holding, Phases, system, install, context
  <1>1. CASE Throws(u)
    <2>1. CASE pc[u] \in Before
      BY <1>1, <2>1 DEF Throws
    <2>2. CASE pc[u] \notin Before
      BY <1>1, <2>2, SMTT(30) DEF Throws
    <2> QED
      BY <2>1, <2>2
  <1>2. CASE Dies(u) \/ StartRefused(u)
    BY <1>2 DEF Dies, StartRefused
  <1>3. CASE Deadline(u)
    BY <1>3 DEF Deadline
  <1> QED
    BY <1>1, <1>2, <1>3

(* An updater resumes the live run where the journal says, or finds none. *)
LEMMA StartKept ==
    ASSUME Inv, NEW u \in Updaters, Start(u)
    PROVE  Kept(u)
  <1>0. /\ TypeOK /\ OneLive /\ Journal /\ Sound(u)
        /\ runs' \in Seq(Run) /\ Len(runs') = Len(runs)
        /\ Live' = Live /\ (Done' <=> Done) /\ runs' = runs
    <2>1. UNCHANGED runs
      BY DEF Start
    <2> QED
      BY <2>1, JournalLeft DEF Inv
  <1> USE <1>0, BoundsAssumption
      DEF TypeOK, Kept, OneLive, Journal, Sound, OnItsRun, Installs, Holds, Row, WholeNew,
          Go, Exit, Before, Undo, Commit, Entering, Holding, Phases, system, install, context
  <1>1. CASE Live # {}
    <2>1. PICK i \in Live : /\ run' = [run EXCEPT ![u] = i]
                            /\ pc' = [pc EXCEPT ![u] = DecideResume(runs[i].phase)]
      BY <1>1 DEF Start
    <2>2. CASE runs[i].phase = "commit"
      BY <2>1, <2>2 DEF Start, DecideResume
    <2>3. CASE runs[i].phase # "commit"
      BY <2>1, <2>3 DEF Start, DecideResume
    <2> QED
      BY <2>2, <2>3
  <1>2. CASE Live = {}
    BY <1>2 DEF Start
  <1> QED
    BY <1>1, <1>2

(* A new run starts from an install that was not changed. *)
LEMMA StartRunKept ==
    ASSUME Inv, NEW u \in Updaters, StartRun(u)
    PROVE  Kept(u)
  <1> DEFINE r == [status |-> "running", phase |-> "preflight", found |-> "none"]
  <1>0. /\ TypeOK /\ Journal /\ Sound(u)
        /\ runs' \in Seq(Run) /\ Len(runs') = Len(runs) + 1 /\ Len(runs) \in Nat
        /\ runs'[Len(runs) + 1] = r
        /\ Live' = {Len(runs) + 1} /\ (Done' <=> Done)
    <2>1. r \in Run /\ r.status = "running" /\ Live = {} /\ runs' = Append(runs, r)
      BY DEF StartRun, Run, Statuses, Phases, MStates
    <2>2. runs \in Seq(Run)
      BY DEF Inv, TypeOK
    <2> HIDE DEF r
    <2> QED
      BY <2>1, <2>2, RunJournaled, LenProperties DEF Inv
  <1> QED
    BY <1>0, BoundsAssumption
    DEF StartRun, TypeOK, Kept, OneLive, Journal, Sound, OnItsRun, Installs, Holds, Row, WholeNew,
          Go, Exit, Before, Undo, Commit, Entering, Holding, Phases, system, install, context

(* Work and administrators move only where no updater holds the system, and the
   operator only where none runs. *)
LEMMA OthersKept ==
    ASSUME Inv, Users \/ HaiveUp
    PROVE  /\ runs' = runs /\ OneUpdater' /\ OneLive' /\ Journal'
           /\ \A v \in Updaters : Sound(v)'
  <1>0. /\ TypeOK /\ OneUpdater /\ OneLive /\ Journal
        /\ Live' = Live /\ (Done' <=> Done) /\ runs' = runs
        /\ pc' = pc /\ run' = run /\ untouched' = untouched /\ forced' = forced
    <2>1. UNCHANGED <<runs, pc, run, untouched, forced>>
      BY DEF Users, Admit, AdmitEnds, WorkMoves, SetState, HaiveUp, context
    <2> QED
      BY <2>1, JournalLeft DEF Inv
  <1>1. OneUpdater' /\ OneLive'
    BY <1>0 DEF OneUpdater, OneLive
  <1>2. ASSUME NEW w \in Work, Admit(w) \/ AdmitEnds(w) \/ WorkMoves(w)
        PROVE  Journal' /\ \A v \in Updaters : Sound(v)'
    <2>1. /\ UNCHANGED <<mstate, before, install>>
          /\ work[w] # "ended" \/ mstate = "normal"
      BY <1>2 DEF Admit, AdmitEnds, WorkMoves
    <2>2. Journal'
      BY <1>0, <2>1 DEF Journal, WholeNew, install
    <2>3. ASSUME NEW v \in Updaters PROVE Sound(v)'
      <3>1. Sound(v)
        BY DEF Inv
      <3> QED
        BY <1>0, <2>1, <3>1 DEF Sound, OnItsRun, Installs, Holds, Row, WholeNew, install
    <2> QED
      BY <2>2, <2>3
  <1>3. ASSUME NEW s \in MStates, SetState(s)
        PROVE  Journal' /\ \A v \in Updaters : Sound(v)'
    <2>1. Live = {} /\ UNCHANGED <<install, work>>
      BY <1>3 DEF SetState
    <2>2. Journal'
      BY <1>0, <2>1 DEF Journal, WholeNew, install
    <2>3. ASSUME NEW v \in Updaters PROVE Sound(v)'
      <3>1. Sound(v) /\ pc[v] \in {"off", "start"}
        BY <2>1 DEF Inv, Sound, OnItsRun
      <3> QED
        BY <1>0, <2>1, <3>1
        DEF Sound, OnItsRun, Installs, Holds, Row, WholeNew, install, Before, Commit, Undo, Entering,
            Holding
    <2> QED
      BY <2>2, <2>3
  <1>4. CASE HaiveUp
    <2>1. ASSUME NEW v \in Updaters PROVE Sound(v)'
      <3>1. Sound(v) /\ pc[v] = "off"
        BY <1>4 DEF Inv, HaiveUp
      <3> QED
        BY <1>0, <3>1
        DEF Sound, OnItsRun, Installs, Holds, Row, Before, Commit, Undo, Entering, Holding
    <2>2. /\ before' = before /\ pin' = pin /\ images' = pin /\ destroyed' = destroyed
          /\ pin = "new" => schema' = "new"
      BY <1>4 DEF HaiveUp, system
    <2>3. WholeNew => WholeNew'
      BY <2>2 DEF WholeNew
    <2>4. Journal'
      <3>1. \A i \in Live' : /\ runs'[i].found # "none" => runs'[i].found = before'
                             /\ runs'[i].phase = "commit" => WholeNew'
        BY <1>0, <2>2, <2>3 DEF Journal
      <3>2. destroyed' => Done' \/ \E i \in Live' : runs'[i].phase = "commit"
        BY <1>0, <2>2 DEF Journal
      <3>3. Live' = {} /\ ~Done' => pin' = "old" /\ images' = "old"
        BY <1>0, <2>2 DEF Journal
      <3>4. Done' => Live' = {} /\ WholeNew' /\ destroyed'
        BY <1>0, <2>2, <2>3 DEF Journal
      <3> QED
        BY <3>1, <3>2, <3>3, <3>4 DEF Journal
    <2> QED
      BY <1>0, <1>1, <2>1, <2>4
  <1> QED
    BY <1>0, <1>1, <1>2, <1>3, <1>4 DEF Users

-----------------------------------------------------------------------------
(* The variables beside the journal are of their types. *)
Typed ==
    /\ mstate \in MStates /\ before \in MStates
    /\ work \in [Work -> {"ended", "admitting", "live", "parked"}]
    /\ db \in BOOLEAN
    /\ lock \in Updaters \union {Nobody}
    /\ pc \in [Updaters -> Steps]
    /\ run \in [Updaters -> 0..MaxRuns]
    /\ force \in [Updaters -> BOOLEAN] /\ late \in [Updaters -> BOOLEAN]
    /\ forced \in [Updaters -> BOOLEAN] /\ untouched \in [Updaters -> BOOLEAN]
    /\ last \in [Updaters -> MStates]
    /\ pin \in Versions /\ images \in Versions /\ schema \in Versions
    /\ destroyed \in BOOLEAN
    /\ faults \in 0..MaxFaults

(* So they stay, while the system is taken out of use, *)
LEMMA HoldTyped ==
    ASSUME Inv, Typed, NEW u \in Updaters, Hold(u)
    PROVE  Typed'
  <1>0. runs \in Seq(Run) /\ Len(runs) \in Nat /\ Len(runs) <= MaxRuns
    BY LenProperties DEF Inv, TypeOK
  <1> USE BoundsAssumption
      DEF Typed, Steps, Before, Commit, Undo, MStates, Versions, Go, Exit, system, install, context
  <1>1. CASE Draining(u)
    BY <1>1 DEF Draining
  <1>2. CASE HoldDraining(u)
    BY <1>2 DEF HoldDraining
  <1>3. CASE HoldDrainingWrite(u)
    BY <1>3 DEF HoldDrainingWrite
  <1>4. CASE AwaitDrain(u)
    <2>1. pc' \in [Updaters -> Steps]
      BY <1>4 DEF AwaitDrain
    <2>2. forced' \in [Updaters -> BOOLEAN]
      BY <1>4 DEF AwaitDrain
    <2> QED
      BY <1>4, <2>1, <2>2 DEF AwaitDrain
  <1>5. CASE Maintenance(u)
    BY <1>5 DEF Maintenance
  <1>6. CASE EnterMaintenance(u)
    <2>1. mstate' \in MStates
      BY <1>6 DEF EnterMaintenance
    <2>2. pc' \in [Updaters -> Steps]
      BY <1>6 DEF EnterMaintenance
    <2>3. last' \in [Updaters -> MStates]
      BY <1>6 DEF EnterMaintenance
    <2>4. UNCHANGED <<before, work, db, lock, run, force, late, forced, untouched, install, faults>>
      BY <1>6 DEF EnterMaintenance
    <2> QED
      BY <2>1, <2>2, <2>3, <2>4
  <1>7. CASE Redrain(u)
    <2>1. pc' \in [Updaters -> Steps]
      BY <1>7 DEF Redrain
    <2>2. forced' = forced \/ forced' = [forced EXCEPT ![u] = TRUE]
      BY <1>7 DEF Redrain
    <2>3. UNCHANGED <<system, db, lock, run, force, late, last, untouched, install, faults>>
      BY <1>7 DEF Redrain
    <2> QED
      BY <2>1, <2>2, <2>3
  <1>8. CASE SetMaintenance(u)
    BY <1>8 DEF SetMaintenance
  <1> QED
    BY <1>1, <1>2, <1>3, <1>4, <1>5, <1>6, <1>7, <1>8 DEF Hold

(* while the release is applied, *)
LEMMA ApplyTyped ==
    ASSUME Inv, Typed, NEW u \in Updaters, Apply(u)
    PROVE  Typed'
  <1>0. runs \in Seq(Run) /\ Len(runs) \in Nat /\ Len(runs) <= MaxRuns
    BY LenProperties DEF Inv, TypeOK
  <1> USE BoundsAssumption
      DEF Typed, Steps, Before, Commit, Undo, MStates, Versions, Go, Exit, system, install, context
  <1>1. CASE Snapshot(u)
    BY <1>1 DEF Snapshot
  <1>2. CASE StopPostgres(u)
    BY <1>2 DEF StopPostgres
  <1>3. CASE StartPostgres(u)
    BY <1>3 DEF StartPostgres
  <1>4. CASE Migrate(u)
    BY <1>4 DEF Migrate
  <1>5. CASE Migrating(u)
    BY <1>5 DEF Migrating
  <1>6. CASE Verify(u)
    BY <1>6 DEF Verify
  <1>7. CASE VerifyPin(u)
    BY <1>7 DEF VerifyPin
  <1>8. CASE VerifyUp(u)
    BY <1>8 DEF VerifyUp
  <1>9. CASE AwaitVersion(u)
    BY <1>9 DEF AwaitVersion
  <1> QED
    BY <1>1, <1>2, <1>3, <1>4, <1>5, <1>6, <1>7, <1>8, <1>9 DEF Apply

(* at the end of a run, *)
LEMMA FinishTyped ==
    ASSUME Inv, Typed, NEW u \in Updaters, pc[u] \notin {"off", "start"}, Finish(u)
    PROVE  Typed'
  <1>0. runs \in Seq(Run) /\ Len(runs) \in Nat /\ Len(runs) <= MaxRuns
    BY LenProperties DEF Inv, TypeOK
  <1>a. Row(u).found \in MStates \union {"none"}
    BY ItsRun DEF Run
  <1> USE DEF Row
  <1> USE BoundsAssumption
      DEF Typed, Steps, Before, Commit, Undo, MStates, Versions, Go, Exit, system, install, context
  <1>1. CASE CommitPhase(u)
    BY <1>1 DEF CommitPhase
  <1>2. CASE Destroy(u)
    BY <1>2 DEF Destroy
  <1>3. CASE CommitState(u)
    BY <1>3, <1>a DEF CommitState, RestoreState
  <1>4. CASE CommitEnd(u)
    BY <1>4 DEF CommitEnd
  <1>5. CASE UndoPin(u)
    BY <1>5 DEF UndoPin
  <1>6. CASE UndoUp(u)
    BY <1>6 DEF UndoUp
  <1>7. CASE UndoState(u)
    BY <1>7, <1>a DEF UndoState, RestoreState
  <1>8. CASE UndoEnd(u)
    BY <1>8 DEF UndoEnd
  <1> QED
    BY <1>1, <1>2, <1>3, <1>4, <1>5, <1>6, <1>7, <1>8 DEF Finish

(* where an updater starts, fails or dies. *)
LEMMA ControlTyped ==
    ASSUME Inv, Typed, NEW u \in Updaters, Start(u) \/ StartRun(u) \/ StartRefused(u) \/ Deadline(u) \/ Throws(u) \/ Dies(u)
    PROVE  Typed'
  <1>0. runs \in Seq(Run) /\ Len(runs) \in Nat /\ Len(runs) <= MaxRuns
    BY LenProperties DEF Inv, TypeOK
  <1> USE BoundsAssumption
      DEF Typed, Steps, Before, Commit, Undo, MStates, Versions, Go, Exit, system, install, context
  <1>1. CASE Start(u)
    <2>1. pc' \in [Updaters -> Steps]
      BY <1>1 DEF Start, DecideResume
    <2>2. run' \in [Updaters -> 0..MaxRuns]
      <3>1. run' = run \/ \E i \in 0..MaxRuns : run' = [run EXCEPT ![u] = i]
        <4>1. Live \subseteq 0..MaxRuns
          BY <1>0 DEF Live
        <4> QED
          BY <1>1, <4>1 DEF Start
      <3> QED
        BY <3>1
    <2>3. force' \in [Updaters -> BOOLEAN] /\ lock' \in Updaters \union {Nobody}
      <3>1. lock' = u /\ \E f \in BOOLEAN : force' = [force EXCEPT ![u] = f]
        BY <1>1, Zenon DEF Start
      <3> QED
        BY <3>1
    <2>4. UNCHANGED <<system, db, late, forced, last, untouched, install, faults>>
      BY <1>1 DEF Start
    <2> QED
      BY <2>1, <2>2, <2>3, <2>4
  <1>2. CASE StartRun(u)
    BY <1>2, <1>0 DEF StartRun
  <1>3. CASE StartRefused(u)
    BY <1>3 DEF StartRefused
  <1>4. CASE Deadline(u)
    BY <1>4 DEF Deadline
  <1>5. CASE Throws(u)
    <2>1. CASE pc[u] \in Before
      BY <1>5, <2>1 DEF Throws
    <2>2. CASE pc[u] \notin Before
      <3>1. Exit(u) /\ faults' = faults + 1 /\ faults < MaxFaults
            /\ UNCHANGED <<system, db, runs, install>>
        BY <1>5, <2>2, Zenon DEF Throws
      <3> QED
        BY <3>1
    <2> QED
      BY <2>1, <2>2
  <1>6. CASE Dies(u)
    BY <1>6 DEF Dies
  <1> QED
    BY <1>1, <1>2, <1>3, <1>4, <1>5, <1>6

(* Nor do the others change a type. *)
LEMMA OthersTyped ==
    ASSUME Typed, Users \/ HaiveUp
    PROVE  Typed'
  <1>1. ASSUME NEW w \in Work, Admit(w) \/ AdmitEnds(w) \/ WorkMoves(w)
        PROVE  Typed'
    <2>1. /\ work' \in [Work -> {"ended", "admitting", "live", "parked"}]
          /\ UNCHANGED <<mstate, before, db, lock, runs, pc, context, install, faults>>
      BY <1>1 DEF Typed, Admit, AdmitEnds, WorkMoves
    <2> QED
      BY <2>1 DEF Typed, context, install
  <1>2. ASSUME NEW s \in MStates, SetState(s)
        PROVE  Typed'
    BY <1>2 DEF Typed, SetState, context, install
  <1>3. CASE HaiveUp
    BY <1>3 DEF Typed, HaiveUp, Versions, system, context
  <1> QED
    BY <1>1, <1>2, <1>3 DEF Users

-----------------------------------------------------------------------------
(* A step of an updater moves no other, *)
LEMMA OthersStay ==
    ASSUME Inv, NEW u \in Updaters, NEW v \in Updaters, v # u,
           Start(u) \/ Step(u) \/ Deadline(u) \/ Throws(u) \/ Dies(u)
    PROVE  pc'[v] = pc[v] /\ untouched'[v] = untouched[v]
  <1>0. pc \in [Updaters -> Steps] /\ untouched \in [Updaters -> BOOLEAN]
    BY DEF Inv, TypeOK
  <1>1. CASE Hold(u)
    BY <1>0, <1>1
    DEF Hold, Draining, HoldDraining, HoldDrainingWrite, AwaitDrain, Maintenance,
        EnterMaintenance, Redrain, SetMaintenance, Go, context
  <1>2. CASE Apply(u)
    BY <1>0, <1>2
    DEF Apply, Snapshot, StopPostgres, StartPostgres, Migrate, Migrating, Verify, VerifyPin,
        VerifyUp, AwaitVersion, Go, context
  <1>3. CASE Finish(u)
    BY <1>0, <1>3
    DEF Finish, CommitPhase, Destroy, CommitState, CommitEnd, UndoPin, UndoUp, UndoState,
        UndoEnd, Exit, Go, context
  <1>4. CASE Start(u) \/ StartRun(u) \/ StartRefused(u)
    BY <1>0, <1>4 DEF Start, StartRun, StartRefused, Exit, Go
  <1>5. CASE Deadline(u) \/ Throws(u) \/ Dies(u)
    BY <1>0, <1>5 DEF Deadline, Throws, Dies, Exit, Go, context
  <1> QED
    BY <1>1, <1>2, <1>3, <1>4, <1>5 DEF Step

(* and no other runs. *)
LEMMA OthersAreOff ==
    ASSUME Overlap = FALSE, Inv, NEW u \in Updaters, NEW v \in Updaters, v # u,
           Start(u) \/ Step(u) \/ Deadline(u) \/ Throws(u) \/ Dies(u)
    PROVE  pc[v] = "off"
  <1>1. CASE Start(u)
    BY <1>1 DEF Start
  <1>2. CASE ~Start(u)
    <2>1. pc[u] # "off"
      BY <1>2
      DEF Step, Hold, Draining, HoldDraining, HoldDrainingWrite, AwaitDrain, Maintenance,
          EnterMaintenance, Redrain, SetMaintenance, Apply, Snapshot, StopPostgres, StartPostgres,
          Migrate, Migrating, Verify, VerifyPin, VerifyUp, AwaitVersion, Finish, CommitPhase,
          Destroy, CommitState, CommitEnd, UndoPin, UndoUp, UndoState, UndoEnd, StartRun,
          StartRefused, Deadline, Throws, Dies
    <2> QED
      BY <2>1 DEF Inv, OneUpdater
  <1> QED
    BY <1>1, <1>2

(* The type invariant is that of the variables and that of the journal. *)
LEMMA TypesSplit ==
    /\ TypeOK => Typed
    /\ Typed' /\ runs' \in Seq(Run) /\ Len(runs') <= MaxRuns /\ OneLive' => TypeOK'
  <1>1. runs' \in Seq(Run) /\ OneLive' => Cardinality(Live') <= 1
    <2>1. ASSUME runs' \in Seq(Run), OneLive' PROVE Cardinality(Live') <= 1
      <3>1. Live' = {} \/ Live' = {Len(runs')}
        BY <2>1 DEF OneLive, Live
      <3>2. Cardinality({}) = 0 /\ Cardinality({Len(runs')}) = 1
        BY FS_EmptySet, FS_Singleton
      <3>3. CASE Live' = {}
        BY <3>2, <3>3
      <3>4. CASE Live' = {Len(runs')}
        BY <3>2, <3>4
      <3> QED
        BY <3>1, <3>3, <3>4
    <2> QED
      BY <2>1
  <1>2. TypeOK => Typed
    BY DEF TypeOK, Typed
  <1> QED
    BY <1>1, <1>2 DEF TypeOK, Typed

(* Every step of an updater keeps the invariant. *)
LEMMA UpdaterKeeps ==
    ASSUME Overlap = FALSE, Inv, NEW u \in Updaters,
           Start(u) \/ Step(u) \/ Deadline(u) \/ Throws(u) \/ Dies(u)
    PROVE  Inv'
  <1>0. Typed
    BY TypesSplit DEF Inv
  <1>1. Hold(u) \/ Apply(u) \/ Finish(u) => pc[u] \notin {"off", "start"}
    BY DEF Hold, Draining, HoldDraining, HoldDrainingWrite, AwaitDrain, Maintenance,
           EnterMaintenance, Redrain, SetMaintenance, Apply, Snapshot, StopPostgres, StartPostgres,
           Migrate, Migrating, Verify, VerifyPin, VerifyUp, AwaitVersion, Finish, CommitPhase,
           Destroy, CommitState, CommitEnd, UndoPin, UndoUp, UndoState, UndoEnd
  <1>2. Throws(u) \/ Dies(u) \/ Deadline(u) \/ StartRefused(u) => pc[u] # "off"
    BY DEF Throws, Dies, Deadline, StartRefused
  <1>3. Kept(u)
    BY <1>1, <1>2, HoldKept, ApplyKept, FinishKept, FailureKept, StartKept, StartRunKept DEF Step
  <1>4. Typed'
    BY <1>0, <1>1, HoldTyped, ApplyTyped, FinishTyped, ControlTyped DEF Step
  <1>5. TypeOK'
    BY <1>3, <1>4, TypesSplit DEF Kept
  <1>6. \A v \in Updaters : v # u => pc'[v] = "off" /\ ~untouched'[v]
    <2>1. SUFFICES ASSUME NEW v \in Updaters, v # u PROVE pc'[v] = "off" /\ ~untouched'[v]
      OBVIOUS
    <2>2. pc[v] = "off" /\ pc'[v] = pc[v] /\ untouched'[v] = untouched[v]
      BY <2>1, OthersStay, OthersAreOff
    <2>3. ~untouched[v]
      <3>1. Holds(v)
        BY DEF Inv, Sound
      <3> QED
        BY <2>2, <3>1 DEF Holds, Undo
    <2> QED
      BY <2>2, <2>3
  <1>7. OneUpdater'
    BY <1>6 DEF OneUpdater
  <1>8. \A v \in Updaters : Sound(v)'
    <2>1. ASSUME NEW v \in Updaters, v # u PROVE Sound(v)'
      BY <1>6, <2>1
      DEF Sound, OnItsRun, Installs, Holds, Before, Commit, Undo, Entering, Holding
    <2> QED
      BY <1>3, <2>1 DEF Kept
  <1> QED
    BY <1>3, <1>5, <1>7, <1>8 DEF Inv, Kept

(* The first state satisfies it. *)
LEMMA InitInv ==
    Init => Inv
  <1> SUFFICES ASSUME Init PROVE Inv
    OBVIOUS
  <1>1. runs = <<>> /\ Len(runs) = 0 /\ Live = {} /\ ~Done /\ runs \in Seq(Run)
    BY DEF Init, Live, Done
  <1>2. OneLive /\ OneUpdater
    BY <1>1 DEF Init, OneLive, OneUpdater
  <1>3. TypeOK
    <2>1. Cardinality(Live) <= 1 /\ Len(runs) <= MaxRuns
      BY <1>1, <1>2, LiveIsOne, BoundsAssumption
    <2>2. Typed
      <3>1. /\ force \in [Updaters -> BOOLEAN] /\ late \in [Updaters -> BOOLEAN]
            /\ forced \in [Updaters -> BOOLEAN] /\ untouched \in [Updaters -> BOOLEAN]
        BY Zenon DEF Init
      <3>2. faults \in 0..MaxFaults /\ run \in [Updaters -> 0..MaxRuns]
        BY BoundsAssumption DEF Init
      <3>3. /\ mstate \in MStates /\ before \in MStates /\ last \in [Updaters -> MStates]
            /\ work \in [Work -> {"ended", "admitting", "live", "parked"}]
            /\ pc \in [Updaters -> Steps]
        BY DEF Init, MStates, Steps
      <3>4. /\ db \in BOOLEAN /\ lock \in Updaters \union {Nobody}
            /\ pin \in Versions /\ images \in Versions /\ schema \in Versions
            /\ destroyed \in BOOLEAN
        BY DEF Init, Versions
      <3> QED
        BY <3>1, <3>2, <3>3, <3>4 DEF Typed
    <2> QED
      BY <1>1, <2>1, <2>2 DEF TypeOK, Typed
  <1>4. Journal
    BY <1>1 DEF Init, Journal
  <1>5. \A u \in Updaters : Sound(u)
    BY <1>1
    DEF Init, Sound, OnItsRun, Installs, Holds, Before, Commit, Undo, Entering, Holding
  <1> QED
    BY <1>2, <1>3, <1>4, <1>5 DEF Inv

(* Every step keeps it. *)
LEMMA NextKeeps ==
    ASSUME Overlap = FALSE, Inv, [Next]_vars
    PROVE  Inv'
  <1>1. CASE Users \/ HaiveUp
    <2>1. Typed'
      BY <1>1, OthersTyped, TypesSplit DEF Inv
    <2>2. /\ runs' = runs /\ OneUpdater' /\ OneLive' /\ Journal'
          /\ \A v \in Updaters : Sound(v)'
      BY <1>1, OthersKept
    <2>3. TypeOK'
      <3>1. runs' \in Seq(Run) /\ Len(runs') <= MaxRuns
        BY <2>2 DEF Inv, TypeOK
      <3> QED
        BY <2>1, <2>2, <3>1, TypesSplit
    <2> QED
      BY <2>2, <2>3 DEF Inv
  <1>2. CASE UNCHANGED vars
    <2> USE <1>2 DEF vars
    <2>1. TypeOK' /\ OneUpdater' /\ OneLive' /\ Journal'
      BY DEF Inv, TypeOK, OneUpdater, OneLive, Journal, Live, Done, WholeNew
    <2>2. \A v \in Updaters : Sound(v)'
      BY DEF Inv, Sound, OnItsRun, Installs, Holds, Row, Live, WholeNew
    <2> QED
      BY <2>1, <2>2 DEF Inv
  <1> QED
    BY <1>1, <1>2, UpdaterKeeps DEF Next

(* The invariant holds. *)
THEOREM UpgradeInvariant ==
    ASSUME Overlap = FALSE
    PROVE  Spec => []Inv
  <1>1. Inv /\ [Next]_vars => Inv'
    BY NextKeeps
  <1> QED
    BY InitInv, <1>1, PTL DEF Spec

(* InstallSound, whatever the updater was doing when it failed or died: no old
   container runs on data the commit destroyed, and an upgrade that ended left
   one whole release. *)
THEOREM InstallSoundHolds ==
    ASSUME Overlap = FALSE
    PROVE  Spec => []InstallSound
  <1>1. ASSUME Inv PROVE InstallSound
    <2>1. TypeOK /\ Journal
      BY <1>1 DEF Inv
    <2>2. DataMatchesImages
      BY <2>1 DEF Journal, DataMatchesImages, WholeNew
    <2>3. EndsWhole
      BY <2>1 DEF Journal, EndsWhole, WholeNew, Done
    <2> QED
      BY <2>1, <2>2, <2>3 DEF InstallSound
  <1>2. Inv => InstallSound
    BY <1>1
  <1> QED
    BY <1>2, UpgradeInvariant, PTL

(* HeldMeansIdle: while an updater that did not force its way snapshots, migrates
   or verifies, nothing is live or being admitted. *)
THEOREM HeldMeansIdleHolds ==
    ASSUME Overlap = FALSE
    PROVE  Spec => []HeldMeansIdle
  <1>1. Inv => HeldMeansIdle
    BY DEF Inv, Sound, Holds, HeldMeansIdle, Holding, Row
  <1> QED
    BY <1>1, UpgradeInvariant, PTL

(* Only the end of a commit or of a rollback ends a run, and only its updater's. *)
LEMMA RunEndedBy ==
    ASSUME Overlap = FALSE, Inv, [Next]_vars, NEW i \in 1..Len(runs),
           runs[i].status = "running", runs'[i].status # "running"
    PROVE  \E u \in Updaters : run[u] = i /\ (CommitEnd(u) \/ UndoEnd(u))
  <1>1. runs' # runs
    OBVIOUS
  <1>2. ~(Users \/ HaiveUp) /\ ~UNCHANGED vars
    BY <1>1 DEF Users, Admit, AdmitEnds, WorkMoves, SetState, HaiveUp, vars
  <1>3. PICK u \in Updaters : StartRun(u) \/ Hold(u) \/ Apply(u) \/ Finish(u)
    BY <1>1, <1>2 DEF Next, Step, Start, StartRefused, Deadline, Throws, Dies
  <1>4. ASSUME StartRun(u) PROVE FALSE
    BY <1>4 DEF StartRun, Live
  <1>5. pc[u] \notin {"off", "start"}
    BY <1>3, <1>4
    DEF Hold, Draining, HoldDraining, HoldDrainingWrite, AwaitDrain, Maintenance,
        EnterMaintenance, Redrain, SetMaintenance, Apply, Snapshot, StopPostgres, StartPostgres,
        Migrate, Migrating, Verify, VerifyPin, VerifyUp, AwaitVersion, Finish, CommitPhase,
        Destroy, CommitState, CommitEnd, UndoPin, UndoUp, UndoState, UndoEnd
  <1>6. i \in Live /\ i = run[u]
    BY <1>5, ItsRun DEF Live
  <1>7. i \notin Live'
    BY DEF Live
  <1>8. ASSUME NEW p \in Phases, EnterPhase(u, p) PROVE FALSE
    BY <1>5, <1>6, <1>7, <1>8, PhaseJournaled
  <1>9. ASSUME HoldDraining(u) PROVE FALSE
    <2>1. PICK f \in MStates : runs' = [runs EXCEPT ![run[u]].found = f]
      <3>1. runs' = [runs EXCEPT ![run[u]].found = mstate] /\ mstate \in MStates
        BY <1>9 DEF HoldDraining, Inv, Sound, Holds, TypeOK, Row
      <3> QED
        BY <3>1
    <2> QED
      BY <1>5, <1>6, <1>7, <2>1, FoundJournaled
  <1>10. ~Hold(u)
    BY <1>1, <1>8, <1>9
    DEF Hold, Draining, HoldDrainingWrite, AwaitDrain, Maintenance,
        EnterMaintenance, Redrain, SetMaintenance, Phases
  <1>11. ~Apply(u)
    BY <1>1, <1>8
    DEF Apply, Snapshot, StopPostgres, StartPostgres, Migrate, Migrating, Verify, VerifyPin,
        VerifyUp, AwaitVersion, Phases
  <1>12. CommitEnd(u) \/ UndoEnd(u)
    BY <1>1, <1>3, <1>4, <1>8, <1>10, <1>11
    DEF Finish, CommitPhase, Destroy, CommitState, UndoPin, UndoUp, UndoState, Phases
  <1> QED
    BY <1>6, <1>12

(* StateGivenBack: a run that ends gives back the state in force when it started. *)
THEOREM StateGivenBackHolds ==
    ASSUME Overlap = FALSE
    PROVE  Spec => StateGivenBack
  <1> DEFINE Given ==
        \A i \in 1..Len(runs) :
          /\ runs[i].status = "running" /\ runs'[i].status # "running"
          /\ \/ runs[i].found # "none"
             \/ \E u \in Updaters : pc[u] = "undoEnd" /\ untouched[u]
          => mstate = before
  <1>1. ASSUME Inv, [Next]_vars PROVE Given
    <2> SUFFICES ASSUME NEW i \in 1..Len(runs),
                        runs[i].status = "running", runs'[i].status # "running",
                        \/ runs[i].found # "none"
                        \/ \E u \in Updaters : pc[u] = "undoEnd" /\ untouched[u]
                 PROVE  mstate = before
      OBVIOUS
    <2>1. PICK u \in Updaters : run[u] = i /\ (CommitEnd(u) \/ UndoEnd(u))
      BY <1>1, RunEndedBy
    <2>2. pc[u] \in {"commitEnd", "undoEnd"}
      BY <2>1 DEF CommitEnd, UndoEnd
    <2>3. CASE runs[i].found # "none"
      <3>1. mstate = runs[i].found
        BY <1>1, <2>1, <2>2, <2>3 DEF Inv, Sound, Holds, Row
      <3>2. runs[i].found = before
        BY <1>1, <2>3 DEF Inv, Journal, Live
      <3> QED
        BY <3>1, <3>2
    <2>4. CASE \E v \in Updaters : pc[v] = "undoEnd" /\ untouched[v]
      BY <1>1, <2>4 DEF Inv, Sound, Holds
    <2> QED
      BY <2>3, <2>4
  <1>2. Inv /\ [Next]_vars => [Given]_vars
    BY <1>1
  <1> HIDE DEF Given
  <1>3. Spec => [][Given]_vars
    BY <1>2, UpgradeInvariant, PTL DEF Spec
  <1> QED
    BY <1>3 DEF StateGivenBack, Given
=============================================================================
