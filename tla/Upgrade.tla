------------------------------ MODULE Upgrade ------------------------------
(* An upgrade of an install: packages/updater (cli.ts, run.ts, phases.ts,
   journal.ts), the maintenance state it holds the system with, and the new-work
   fence that orders that state against the admission of work
   (packages/shared/src/system/maintenance.ts and its callers).

   The updater is a process of its own, started by an operator.  It writes each
   phase to a journal in Postgres before it acts, and may die or fail anywhere;
   the next one finds the run still marked running and finishes or undoes it.
   "old" and "new" are the release an install runs and the one it is taken to. *)
EXTENDS Naturals, Sequences, FiniteSets

CONSTANTS
    Updaters,   \* updater processes an operator may start
    Nobody,     \* no session holds the lock
    Work,       \* tasks and background jobs
    MaxFaults,  \* failures and deaths of updaters
    MaxRuns,    \* rows of the journal
    Overlap     \* whether an updater is started while another is still running

ASSUME UpdatersAssumption == Nobody \notin Updaters
ASSUME BoundsAssumption ==
    MaxFaults \in Nat /\ MaxRuns \in Nat /\ Overlap \in BOOLEAN

VARIABLES
    mstate,     \* MAINTENANCE_STATE
    before,     \* history: the state in force when the last run started, or set since
    work,       \* each task or job
    db,         \* whether Postgres is up
    lock,       \* the session that holds the advisory lock haive:upgrade
    runs,       \* upgrade_runs: status, phase and metadata.foundState
    pc,         \* the next step of each updater
    run,        \* the run it works on
    force,      \* its --force flag
    late,       \* its drain deadline has passed
    forced,     \* drainForced: it passed live work
    last,       \* lastState
    untouched,  \* stateUntouched
    pin,        \* HAIVE_VERSION in the install's .env
    images,     \* the release the containers run
    schema,     \* whether the new release's migrations are applied
    destroyed,  \* whether its destructive data migrations have run
    faults

system == <<mstate, before, work>>
install == <<pin, images, schema, destroyed>>
context == <<run, force, late, forced, last, untouched>>
vars == <<mstate, before, work, db, lock, runs, pc, run, force, late, forced,
          last, untouched, pin, images, schema, destroyed, faults>>

MStates == {"normal", "draining", "maintenance"}
Versions == {"old", "new"}
Phases == {"preflight", "draining", "maintenance", "snapshot", "migrate",
           "verify", "commit"}
Statuses == {"running", "done", "rolled_back"}

(* The steps between startRun and phaseCommit, those of phaseCommit, and those
   of rollback, in order. *)
Before == {"draining", "hold", "holdWrite", "drain", "maintenance", "recount",
           "redrain", "setMaintenance", "snapshot", "stop", "up", "migrate",
           "migrating", "verify", "verifyPin", "verifyUp", "awaitVersion"}
Commit == {"commit", "destroy", "commitState", "commitEnd"}
Undo == {"undoPin", "undoUp", "undoState", "undoEnd"}
Steps == {"off", "start"} \union Before \union Commit \union Undo

Run == [status : Statuses, phase : Phases, found : MStates \union {"none"}]
Live == {i \in 1..Len(runs) : runs[i].status = "running"}

TypeOK ==
    /\ mstate \in MStates /\ before \in MStates
    /\ work \in [Work -> {"ended", "admitting", "live", "parked"}]
    /\ db \in BOOLEAN
    /\ lock \in Updaters \union {Nobody}
    /\ runs \in Seq(Run) /\ Len(runs) <= MaxRuns /\ Cardinality(Live) <= 1
    /\ pc \in [Updaters -> Steps]
    /\ run \in [Updaters -> 0..MaxRuns]
    /\ force \in [Updaters -> BOOLEAN] /\ late \in [Updaters -> BOOLEAN]
    /\ forced \in [Updaters -> BOOLEAN] /\ untouched \in [Updaters -> BOOLEAN]
    /\ last \in [Updaters -> MStates]
    /\ pin \in Versions /\ images \in Versions /\ schema \in Versions
    /\ destroyed \in BOOLEAN
    /\ faults \in 0..MaxFaults

Init ==
    /\ mstate \in MStates
    /\ before = mstate
    /\ work = [w \in Work |-> "ended"]
    /\ db = TRUE
    /\ lock = Nobody
    /\ runs = <<>>
    /\ pc = [u \in Updaters |-> "off"]
    /\ run = [u \in Updaters |-> 0]
    /\ force = [u \in Updaters |-> FALSE]
    /\ late = [u \in Updaters |-> FALSE]
    /\ forced = [u \in Updaters |-> FALSE]
    /\ last = [u \in Updaters |-> "normal"]
    /\ untouched = [u \in Updaters |-> FALSE]
    /\ pin = "old" /\ images = "old" /\ schema = "old"
    /\ destroyed = FALSE
    /\ faults = 0

-----------------------------------------------------------------------------
(* The fence.  An admission holds it shared from its read of the state to its
   commit; a state write takes it exclusively, so it waits for the admissions
   in flight.  Between holdDraining's record and its write an updater keeps it. *)
FenceFree == \A u \in Updaters : pc[u] # "holdWrite"
NoFenceForWrites == db
FenceForWrites == db /\ FenceFree /\ \A w \in Work : work[w] # "admitting"

(* admitNewWork and admitReopen: refused unless the state is normal. *)
Admit(w) ==
    /\ db /\ FenceFree
    /\ work[w] = "ended"
    /\ mstate = "normal"
    /\ work' = [work EXCEPT ![w] = "admitting"]
    /\ UNCHANGED <<mstate, before, db, lock, runs, pc, context, install, faults>>

(* The admission commits, or its transaction rolls back. *)
AdmitEnds(w) ==
    /\ db
    /\ work[w] = "admitting"
    /\ \E s \in {"live", "ended"} : work' = [work EXCEPT ![w] = s]
    /\ UNCHANGED <<mstate, before, db, lock, runs, pc, context, install, faults>>

(* Work parks on a person, is taken up again (by its owner, or under maintenance
   by an administrator), or ends. *)
WorkMoves(w) ==
    /\ db
    /\ \/ work[w] = "live" /\ \E s \in {"parked", "ended"} : work' = [work EXCEPT ![w] = s]
       \/ work[w] = "parked" /\ \E s \in {"live", "ended"} : work' = [work EXCEPT ![w] = s]
    /\ UNCHANGED <<mstate, before, db, lock, runs, pc, context, install, faults>>

(* PUT /admin/maintenance, refused while a run is live. *)
SetState(s) ==
    /\ FenceForWrites
    /\ Live = {}
    /\ mstate' = s
    /\ before' = s
    /\ UNCHANGED <<work, db, lock, runs, pc, context, install, faults>>

(* liveWorkCount: under maintenance a parked task holds nothing open. *)
LiveWork(s) ==
    {w \in Work : \/ work[w] = "live"
                  \/ work[w] = "parked" /\ s # "maintenance"}

-----------------------------------------------------------------------------
Go(u, step) == pc' = [pc EXCEPT ![u] = step]
EnterPhase(u, phase) == db /\ runs' = [runs EXCEPT ![run[u]].phase = phase]

(* The process ends: its context and its session's lock go with it. *)
Exit(u) ==
    /\ Go(u, "off")
    /\ lock' = IF lock = u THEN Nobody ELSE lock
    /\ run' = [run EXCEPT ![u] = 0]
    /\ force' = [force EXCEPT ![u] = FALSE]
    /\ late' = [late EXCEPT ![u] = FALSE]
    /\ forced' = [forced EXCEPT ![u] = FALSE]
    /\ last' = [last EXCEPT ![u] = "normal"]
    /\ untouched' = [untouched EXCEPT ![u] = FALSE]

(* decideResume *)
DecideAlwaysReverse(phase) == "undoPin"
DecideResume(phase) == IF phase = "commit" THEN "commit" ELSE "undoPin"

(* main, to its lock: a live run is resumed before anything new; otherwise a
   preflight that passes leads to a new run.  Nothing is touched before that. *)
Start(u) ==
    /\ pc[u] = "off"
    /\ Overlap \/ \A v \in Updaters : pc[v] = "off"
    /\ db /\ lock = Nobody
    /\ lock' = u
    /\ \/ /\ Live # {}
          /\ \E i \in Live :
                /\ run' = [run EXCEPT ![u] = i]
                /\ Go(u, DecideResume(runs[i].phase))
          /\ force' = [force EXCEPT ![u] = TRUE]
       \/ /\ Live = {} /\ pin = "old" /\ Len(runs) < MaxRuns
          /\ Go(u, "start")
          /\ \E f \in BOOLEAN : force' = [force EXCEPT ![u] = f]
          /\ UNCHANGED run
    /\ UNCHANGED <<system, db, runs, late, forced, last, untouched, install, faults>>

(* The images are pulled and the run is written; the partial unique index
   refuses a second live one.  Before it awaits anything else, phaseDraining
   notes that this run has written no state. *)
StartRun(u) ==
    /\ pc[u] = "start"
    /\ db /\ Live = {} /\ Len(runs) < MaxRuns
    /\ runs' = Append(runs, [status |-> "running", phase |-> "preflight", found |-> "none"])
    /\ run' = [run EXCEPT ![u] = Len(runs) + 1]
    /\ untouched' = [untouched EXCEPT ![u] = TRUE]
    /\ before' = mstate
    /\ Go(u, "draining")
    /\ UNCHANGED <<mstate, work, db, lock, force, late, forced, last, install, faults>>

(* The preflight refuses, or the pull fails. *)
StartRefused(u) ==
    /\ pc[u] = "start"
    /\ Exit(u)
    /\ UNCHANGED <<system, db, runs, install, faults>>

-----------------------------------------------------------------------------
(* phaseDraining *)
Draining(u) ==
    /\ pc[u] = "draining"
    /\ EnterPhase(u, "draining")
    /\ Go(u, "hold")
    /\ UNCHANGED <<system, db, lock, context, install, faults>>

(* holdDraining, under the fence: the state found is recorded once, before the
   first write of a state. *)
HoldDraining(u) ==
    /\ pc[u] = "hold"
    /\ FenceForWrites
    /\ runs' = [runs EXCEPT ![run[u]].found = IF @ = "none" THEN mstate ELSE @]
    /\ untouched' = [untouched EXCEPT ![u] = FALSE]
    /\ last' = [last EXCEPT ![u] = mstate]
    /\ Go(u, "holdWrite")
    /\ UNCHANGED <<system, db, lock, run, force, late, forced, install, faults>>

HoldDrainingWrite(u) ==
    /\ pc[u] = "holdWrite"
    /\ mstate' = IF mstate = "normal" THEN "draining" ELSE mstate
    /\ Go(u, "drain")
    /\ UNCHANGED <<before, work, db, lock, runs, context, install, faults>>

Deadline(u) ==
    /\ pc[u] \in {"drain", "recount", "redrain"}
    /\ ~late[u]
    /\ late' = [late EXCEPT ![u] = TRUE]
    /\ UNCHANGED <<system, db, lock, runs, pc, run, force, forced, last, untouched, install, faults>>

(* awaitDrain: nothing is live, or the deadline passed and the work is passed by
   (--force) or the upgrade undone. *)
Drained(u) == LiveWork(last[u]) = {}

AwaitDrain(u) ==
    /\ pc[u] = "drain"
    /\ db
    /\ \/ Drained(u) /\ Go(u, "maintenance") /\ UNCHANGED forced
       \/ /\ ~Drained(u) /\ late[u] /\ force[u]
          /\ Go(u, "maintenance")
          /\ forced' = [forced EXCEPT ![u] = TRUE]
       \/ ~Drained(u) /\ late[u] /\ ~force[u] /\ Go(u, "undoPin") /\ UNCHANGED forced
    /\ UNCHANGED <<system, db, lock, runs, run, force, late, last, untouched, install, faults>>

(* phaseMaintenance *)
Maintenance(u) ==
    /\ pc[u] = "maintenance"
    /\ EnterPhase(u, "maintenance")
    /\ Go(u, IF forced[u] THEN "setMaintenance" ELSE "recount")
    /\ UNCHANGED <<system, db, lock, context, install, faults>>

(* enterMaintenance: it recounts under the fence. *)
EnterMaintenance(u) ==
    /\ pc[u] = "recount"
    /\ FenceForWrites
    /\ last' = [last EXCEPT ![u] = mstate]
    /\ LET entered == mstate # "normal" /\ LiveWork(mstate) = {}
       IN  /\ mstate' = IF mstate = "normal" THEN "draining"
                        ELSE IF entered THEN "maintenance" ELSE mstate
           /\ \/ entered /\ Go(u, "snapshot") /\ UNCHANGED runs
              \/ ~entered /\ Go(u, "redrain") /\ EnterPhase(u, "draining")
    /\ UNCHANGED <<before, work, db, lock, run, force, late, forced, untouched, install, faults>>

(* The recount found work: the wait again, up to the one deadline. *)
RedrainNoDeadline(u) ==
    /\ pc[u] = "redrain"
    /\ db
    /\ Drained(u)
    /\ EnterPhase(u, "maintenance")
    /\ Go(u, "recount")
    /\ UNCHANGED <<system, db, lock, context, install, faults>>

Redrain(u) ==
    /\ pc[u] = "redrain"
    /\ db
    /\ \/ /\ Drained(u) /\ ~late[u]
          /\ EnterPhase(u, "maintenance")
          /\ Go(u, "recount")
          /\ UNCHANGED forced
       \/ /\ late[u] /\ force[u]
          /\ EnterPhase(u, "maintenance")
          /\ Go(u, "setMaintenance")
          /\ forced' = [forced EXCEPT ![u] = TRUE]
       \/ late[u] /\ ~force[u] /\ Go(u, "undoPin") /\ UNCHANGED <<runs, forced>>
    /\ UNCHANGED <<system, db, lock, run, force, late, last, untouched, install, faults>>

SetMaintenance(u) ==
    /\ pc[u] = "setMaintenance"
    /\ FenceForWrites
    /\ mstate' = "maintenance"
    /\ Go(u, "snapshot")
    /\ UNCHANGED <<before, work, db, lock, runs, context, install, faults>>

-----------------------------------------------------------------------------
(* phaseSnapshot, skipped when no volume is named.  Stopping Postgres ends every
   session: the admissions in flight roll back and the upgrade lock is gone. *)
Snapshot(u) ==
    /\ pc[u] = "snapshot"
    /\ \/ EnterPhase(u, "snapshot") /\ Go(u, "stop")
       \/ Go(u, "migrate") /\ UNCHANGED runs
    /\ UNCHANGED <<system, db, lock, context, install, faults>>

StopPostgres(u) ==
    /\ pc[u] = "stop"
    /\ db' = FALSE
    /\ lock' = Nobody
    /\ work' = [w \in Work |-> IF work[w] = "admitting" THEN "ended" ELSE work[w]]
    /\ Go(u, "up")
    /\ UNCHANGED <<mstate, before, runs, context, install, faults>>

(* The volume is copied, or not: Postgres comes back either way. *)
StartPostgres(u) ==
    /\ pc[u] = "up"
    /\ db' = TRUE
    /\ \/ Go(u, "migrate") /\ UNCHANGED faults
       \/ faults < MaxFaults /\ Go(u, "undoPin") /\ faults' = faults + 1
    /\ UNCHANGED <<system, lock, runs, context, install>>

(* phaseMigrate *)
Migrate(u) ==
    /\ pc[u] = "migrate"
    /\ EnterPhase(u, "migrate")
    /\ Go(u, "migrating")
    /\ UNCHANGED <<system, db, lock, context, install, faults>>

Migrating(u) ==
    /\ pc[u] = "migrating"
    /\ db
    /\ schema' = "new"
    /\ Go(u, "verify")
    /\ UNCHANGED <<system, db, lock, runs, context, pin, images, destroyed, faults>>

(* phaseVerify: the pin, the containers, then the wait for their answer. *)
Verify(u) ==
    /\ pc[u] = "verify"
    /\ EnterPhase(u, "verify")
    /\ Go(u, "verifyPin")
    /\ UNCHANGED <<system, db, lock, context, install, faults>>

VerifyPin(u) ==
    /\ pc[u] = "verifyPin"
    /\ pin' = "new"
    /\ Go(u, "verifyUp")
    /\ UNCHANGED <<system, db, lock, runs, context, images, schema, destroyed, faults>>

VerifyUp(u) ==
    /\ pc[u] = "verifyUp"
    /\ images' = "new" /\ db' = TRUE
    /\ Go(u, "awaitVersion")
    /\ UNCHANGED <<system, lock, runs, context, pin, schema, destroyed, faults>>

(* awaitVersion: it reports both the release and the migration head. *)
AwaitVersion(u) ==
    /\ pc[u] = "awaitVersion"
    /\ \/ images = "new" /\ schema = "new" /\ Go(u, "commit")
       \/ Go(u, "undoPin")
    /\ UNCHANGED <<system, db, lock, runs, context, install, faults>>

-----------------------------------------------------------------------------
(* phaseCommit *)
CommitPhase(u) ==
    /\ pc[u] = "commit"
    /\ EnterPhase(u, "commit")
    /\ Go(u, "destroy")
    /\ UNCHANGED <<system, db, lock, context, install, faults>>

Destroy(u) ==
    /\ pc[u] = "destroy"
    /\ db
    /\ destroyed' = TRUE
    /\ Go(u, "commitState")
    /\ UNCHANGED <<system, db, lock, runs, context, pin, images, schema, faults>>

(* restoreMaintenanceState: from the journal, unless this run wrote no state. *)
RestoreAlways(u) ==
    /\ FenceForWrites
    /\ mstate' = IF runs[run[u]].found = "none" THEN "normal" ELSE runs[run[u]].found
RestoreState(u) ==
    IF untouched[u] THEN UNCHANGED mstate
    ELSE /\ FenceForWrites
         /\ mstate' = IF runs[run[u]].found = "none" THEN "normal" ELSE runs[run[u]].found

CommitState(u) ==
    /\ pc[u] = "commitState"
    /\ RestoreState(u)
    /\ Go(u, "commitEnd")
    /\ UNCHANGED <<before, work, db, lock, runs, context, install, faults>>

CommitEnd(u) ==
    /\ pc[u] = "commitEnd"
    /\ db
    /\ runs' = [runs EXCEPT ![run[u]].status = "done"]
    /\ Exit(u)
    /\ UNCHANGED <<system, db, install, faults>>

(* rollback *)
UndoPinSkipped(u) ==
    /\ pc[u] = "undoPin"
    /\ Go(u, "undoUp")
    /\ UNCHANGED <<system, db, lock, runs, context, install, faults>>
UndoPin(u) ==
    /\ pc[u] = "undoPin"
    /\ pin' = "old"
    /\ Go(u, "undoUp")
    /\ UNCHANGED <<system, db, lock, runs, context, images, schema, destroyed, faults>>

UndoUp(u) ==
    /\ pc[u] = "undoUp"
    /\ images' = "old" /\ db' = TRUE
    /\ Go(u, "undoState")
    /\ UNCHANGED <<system, lock, runs, context, pin, schema, destroyed, faults>>

UndoState(u) ==
    /\ pc[u] = "undoState"
    /\ RestoreState(u)
    /\ Go(u, "undoEnd")
    /\ UNCHANGED <<before, work, db, lock, runs, context, install, faults>>

UndoEnd(u) ==
    /\ pc[u] = "undoEnd"
    /\ db
    /\ runs' = [runs EXCEPT ![run[u]].status = "rolled_back"]
    /\ Exit(u)
    /\ UNCHANGED <<system, db, install, faults>>

-----------------------------------------------------------------------------
(* A step throws.  Before the commit the run is undone; a commit or a rollback
   that throws leaves it running for the next updater. *)
Throws(u) ==
    /\ faults < MaxFaults
    /\ pc[u] \notin {"off", "start"}
    /\ faults' = faults + 1
    /\ IF pc[u] \in Before THEN Go(u, "undoPin") /\ UNCHANGED <<lock, context>> ELSE Exit(u)
    /\ UNCHANGED <<system, db, runs, install>>

(* The updater is killed. *)
Dies(u) ==
    /\ faults < MaxFaults
    /\ pc[u] # "off"
    /\ faults' = faults + 1
    /\ Exit(u)
    /\ UNCHANGED <<system, db, runs, install>>

(* The operator brings the stack up again: ./haive up, at the pinned release,
   after its migrations. *)
HaiveUp ==
    /\ ~db /\ \A u \in Updaters : pc[u] = "off"
    /\ db' = TRUE
    /\ images' = pin
    /\ schema' = IF pin = "new" THEN "new" ELSE schema
    /\ UNCHANGED <<system, lock, runs, pc, context, pin, destroyed, faults>>

Hold(u) == \/ Draining(u) \/ HoldDraining(u) \/ HoldDrainingWrite(u)
           \/ AwaitDrain(u) \/ Maintenance(u)
           \/ EnterMaintenance(u) \/ Redrain(u) \/ SetMaintenance(u)
Apply(u) == \/ Snapshot(u) \/ StopPostgres(u) \/ StartPostgres(u)
            \/ Migrate(u) \/ Migrating(u)
            \/ Verify(u) \/ VerifyPin(u) \/ VerifyUp(u) \/ AwaitVersion(u)
Finish(u) == \/ CommitPhase(u) \/ Destroy(u) \/ CommitState(u) \/ CommitEnd(u)
             \/ UndoPin(u) \/ UndoUp(u) \/ UndoState(u) \/ UndoEnd(u)
Step(u) == StartRun(u) \/ StartRefused(u) \/ Hold(u) \/ Apply(u) \/ Finish(u)

Users == \/ \E w \in Work : Admit(w) \/ AdmitEnds(w) \/ WorkMoves(w)
         \/ \E s \in MStates : SetState(s)

Next ==
    \/ Users
    \/ HaiveUp
    \/ \E u \in Updaters : Start(u) \/ Step(u) \/ Deadline(u) \/ Throws(u) \/ Dies(u)

Spec == Init /\ [][Next]_vars

(* An updater runs on, time passes, transactions end, Postgres grants the fence in the order
   it was asked for (so a writer that waits is not overtaken for ever), and the
   operator answers an interrupted run by bringing Postgres up where it is down
   and starting the updater again, as the refusal of PUT /admin/maintenance
   tells them to. *)
Fenced(u) == \/ HoldDraining(u) \/ EnterMaintenance(u) \/ SetMaintenance(u)
             \/ CommitState(u) \/ UndoState(u)

Fairness ==
    /\ \A u \in Updaters : WF_vars(Step(u)) /\ SF_vars(Fenced(u)) /\ WF_vars(Deadline(u))
    /\ \A w \in Work : WF_vars(AdmitEnds(w))
    /\ WF_vars(HaiveUp)
    /\ WF_vars(Live # {} /\ \E u \in Updaters : Start(u))

FairSpec == Spec /\ Fairness

-----------------------------------------------------------------------------
(* Old containers never run on data the new release's destructive migrations
   have changed: "reversing would restore old images onto data the new version
   has already removed". *)
DataMatchesImages == destroyed => pin = "new" /\ images = "new"

(* An upgrade that ended left one whole release: done is the new one, migrated;
   rolled back is the old one. *)
EndsWhole ==
    Live = {} /\ runs # <<>> =>
       IF \E i \in 1..Len(runs) : runs[i].status = "done"
       THEN pin = "new" /\ images = "new" /\ schema = "new" /\ destroyed
       ELSE pin = "old" /\ images = "old"

(* While an updater that did not force its way snapshots, migrates or verifies,
   no work is live or being admitted; under a maintenance it found, no parked
   work is taken up but by an administrator. *)
HeldMeansIdle ==
    \A u \in Updaters :
       /\ pc[u] \in {"snapshot", "stop", "up", "migrate", "migrating", "verify",
                     "verifyPin", "verifyUp", "awaitVersion"}
       /\ ~forced[u] /\ runs[run[u]].found # "maintenance"
       => /\ mstate = "maintenance"
          /\ \A w \in Work : work[w] = "ended"

(* A run that recorded the state it found, or wrote none, gives back the state
   in force when it started when it ends, however often it was interrupted.  A
   run that died between startRun and recordFoundState recorded nothing: its
   resumed rollback writes 'normal', over an administrator's hold too. *)
StateGivenBack ==
    [][\A i \in 1..Len(runs) :
          /\ runs[i].status = "running" /\ runs'[i].status # "running"
          /\ \/ runs[i].found # "none"
             \/ \E u \in Updaters : pc[u] = "undoEnd" /\ untouched[u]
          => mstate = before]_vars

(* An interrupted upgrade is eventually finished or undone. *)
RunEnds == Live # {} ~> Live = {}

(* Whatever the updater was doing when it failed or died, the install is one that
   works or that the next updater knows how to finish or undo. *)
InstallSound == TypeOK /\ DataMatchesImages /\ EndsWhole
=============================================================================
