------------------------------ MODULE RepoPrep ------------------------------
(* Preparing an uploaded repository: from the commit of /upload/:id/complete,
   which leaves the repository at `cloning` and its archive on disk, to `ready`
   or `error`.  The routes queue the EXTRACT job (packages/api/src/routes/
   repos.ts), the worker runs it (packages/worker/src/queues/repo-queue.ts,
   repo/clone.ts), a sweep fails the repositories whose job never existed
   (data-migrations.ts), and the upload reaper drops old archives.

   UploadSession ends where this module begins, and the root claim is the one of
   RootClaim, used through what it promises.  BullMQ is external: a job whose
   worker died or whose lock ran out is delivered again. *)
EXTENDS Naturals, FiniteSets

CONSTANTS
    Posts,       \* clients' requests: the complete and the Retry clicks
    First,       \* the complete among them
    Slots,       \* job slots of the worker process
    Free, Left,  \* the root claim is free, or was left by a dead worker
    Faults,      \* the kinds of fault that may happen
    MaxFaults    \* bound on how many do

(* "api", "worker": the process dies.  "add": queue.add throws and queues
   nothing.  "lost": it throws and the job is queued.  "stall": a running job's
   lock runs out and BullMQ delivers it again. *)
ASSUME PrepAssumption ==
    /\ IsFiniteSet(Posts) /\ IsFiniteSet(Slots)
    /\ First \in Posts /\ {Free, Left} \cap Slots = {} /\ Free # Left
    /\ MaxFaults \in Nat /\ Faults \subseteq {"api", "worker", "add", "lost", "stall"}

VARIABLES
    repo,     \* status, and whether updatedAt is older than the sweep's cutoff
    upload,   \* the upload session's status: complete, or cancelled
    archive,  \* the archive is on disk
    post,     \* where each request is
    waiting,  \* EXTRACT jobs to be delivered
    run,      \* where the job of each slot is
    zombies,  \* slots whose job was delivered again while they run it
    claim,    \* the repository's root claim
    sweep,    \* where the sweep is
    reap,     \* the reaper decided to remove the archive
    faults    \* the kinds of fault so far, and their number

vars == <<repo, upload, archive, post, waiting, run, zombies, claim, sweep, reap, faults>>

Running(x) == run[x] \in {"claim", "extract", "ready", "remove", "release"}
Live(x) == run[x] # "idle"
LiveJob == waiting > 0 \/ \E x \in Slots : Live(x) /\ x \notin zombies

TypeOK ==
    /\ repo \in [status : {"cloning", "ready", "error"}, old : BOOLEAN]
    /\ upload \in {"complete", "cancelled"}
    /\ archive \in BOOLEAN
    /\ post \in [Posts -> {"idle", "live", "swap", "add", "mark", "done"}]
    /\ waiting \in 0..Cardinality(Posts)
    /\ run \in [Slots -> {"idle", "claim", "extract", "ready", "remove",
                          "release", "fail", "mark", "failed"}]
    /\ zombies \subseteq {x \in Slots : Live(x)}
    /\ claim \in {Free, Left} \union {x \in Slots : run[x] \notin {"idle", "claim", "mark", "failed"}}
    /\ sweep \in {"idle", "queue", "mark"}
    /\ reap \in BOOLEAN
    /\ faults \in [kinds : SUBSET Faults, count : 0..MaxFaults]

Init ==
    /\ repo = [status |-> "cloning", old |-> FALSE]
    /\ upload = "complete"
    /\ archive = TRUE
    /\ post = [q \in Posts |-> IF q = First THEN "add" ELSE "idle"]
    /\ waiting = 0
    /\ run = [x \in Slots |-> "idle"]
    /\ zombies = {}
    /\ claim = Free
    /\ sweep = "idle"
    /\ reap = FALSE
    /\ faults = [kinds |-> {}, count |-> 0]

Fault(kind) ==
    /\ kind \in Faults
    /\ faults.count < MaxFaults
    /\ faults' = [kinds |-> faults.kinds \union {kind}, count |-> faults.count + 1]

Status(s) == repo' = [status |-> s, old |-> FALSE]
PostTo(q, at) == post' = [post EXCEPT ![q] = at]
RunTo(x, at) == run' = [run EXCEPT ![x] = at]

-----------------------------------------------------------------------------
(* The Retry of a failed upload: the checks on what was read. *)
RetryLoad(q) ==
    /\ post[q] = "idle"
    /\ claim = Free
    /\ repo.status = "error"
    /\ upload = "complete"
    /\ PostTo(q, "live")
    /\ UNCHANGED <<repo, upload, archive, waiting, run, zombies, claim, sweep, reap, faults>>

(* The read of the queue. *)
RetryLive(q) ==
    /\ post[q] = "live"
    /\ PostTo(q, IF LiveJob THEN "done" ELSE "swap")
    /\ UNCHANGED <<repo, upload, archive, waiting, run, zombies, claim, sweep, reap, faults>>

(* Only one request moves the row from error to cloning. *)
RetrySwapUnguarded(q) ==
    /\ post[q] = "swap"
    /\ Status("cloning")
    /\ PostTo(q, "add")
    /\ UNCHANGED <<upload, archive, waiting, run, zombies, claim, sweep, reap, faults>>
RetrySwap(q) ==
    /\ post[q] = "swap"
    /\ IF repo.status = "error"
       THEN Status("cloning") /\ PostTo(q, "add")
       ELSE PostTo(q, "done") /\ UNCHANGED repo
    /\ UNCHANGED <<upload, archive, waiting, run, zombies, claim, sweep, reap, faults>>

(* addRepoJobOrMarkError *)
AddJob(q) ==
    /\ post[q] = "add"
    /\ \/ /\ waiting' = waiting + 1
          /\ PostTo(q, "done")
          /\ UNCHANGED faults
       \/ /\ Fault("add")
          /\ PostTo(q, "mark")
          /\ UNCHANGED waiting
       \/ /\ Fault("lost")
          /\ waiting' = waiting + 1
          /\ PostTo(q, "mark")
    /\ UNCHANGED <<repo, upload, archive, run, zombies, claim, sweep, reap>>

MarkError(q) ==
    /\ post[q] = "mark"
    /\ Status("error")
    /\ PostTo(q, "done")
    /\ UNCHANGED <<upload, archive, waiting, run, zombies, claim, sweep, reap, faults>>

-----------------------------------------------------------------------------
(* The worker takes a job. *)
TakeJob(x) ==
    /\ run[x] = "idle"
    /\ waiting > 0
    /\ waiting' = waiting - 1
    /\ RunTo(x, "claim")
    /\ UNCHANGED <<repo, upload, archive, post, zombies, claim, sweep, reap, faults>>

(* withRootClaim: a claimed root fails the job. *)
ClaimRoot(x) ==
    /\ run[x] = "claim"
    /\ IF claim = Free
       THEN claim' = x /\ RunTo(x, "extract")
       ELSE RunTo(x, "mark") /\ UNCHANGED claim
    /\ UNCHANGED <<repo, upload, archive, post, waiting, zombies, sweep, reap, faults>>

(* extractArchive.  A missing archive ends the session's availability; a task
   that uses the repository, or an archive that does not unpack, fails the job. *)
Extract(x) ==
    /\ run[x] = "extract"
    /\ \/ /\ archive
          /\ RunTo(x, "ready")
          /\ UNCHANGED upload
       \/ /\ RunTo(x, "fail")
          /\ UNCHANGED upload
       \/ /\ ~archive
          /\ RunTo(x, "fail")
          /\ upload' = "cancelled"
    /\ UNCHANGED <<repo, archive, post, waiting, zombies, claim, sweep, reap, faults>>

PersistDetection(x) ==
    /\ run[x] = "ready"
    /\ Status("ready")
    /\ RunTo(x, "remove")
    /\ UNCHANGED <<upload, archive, post, waiting, zombies, claim, sweep, reap, faults>>

(* The archive goes only now; a removal that fails is logged. *)
RemoveArchive(x) ==
    /\ run[x] = "remove"
    /\ archive' \in {archive, FALSE}
    /\ RunTo(x, "release")
    /\ UNCHANGED <<repo, upload, post, waiting, zombies, claim, sweep, reap, faults>>

JobOver(x) == RunTo(x, "idle") /\ zombies' = zombies \ {x}

Release(x) ==
    /\ run[x] \in {"release", "fail"}
    /\ claim' = Free
    /\ IF run[x] = "fail" THEN RunTo(x, "mark") /\ UNCHANGED zombies ELSE JobOver(x)
    /\ UNCHANGED <<repo, upload, archive, post, waiting, sweep, reap, faults>>

(* The processor's catch, and the end of the failed job. *)
JobFails(x) ==
    /\ run[x] = "mark"
    /\ Status("error")
    /\ RunTo(x, "failed")
    /\ UNCHANGED <<upload, archive, post, waiting, zombies, claim, sweep, reap, faults>>

JobFailed(x) ==
    /\ run[x] = "failed"
    /\ JobOver(x)
    /\ UNCHANGED <<repo, upload, archive, post, waiting, claim, sweep, reap, faults>>

-----------------------------------------------------------------------------
(* reconcileStrandedCloningRepos: the rows, the queue, the guarded write. *)
StrandedIfClaimed == repo.status = "cloning" /\ repo.old /\ claim = Left
Stranded == repo.status = "cloning" /\ repo.old /\ claim = Free

SweepRows ==
    /\ sweep = "idle"
    /\ Stranded
    /\ sweep' = "queue"
    /\ UNCHANGED <<repo, upload, archive, post, waiting, run, zombies, claim, reap, faults>>

SweepQueue ==
    /\ sweep = "queue"
    /\ sweep' = IF LiveJob THEN "idle" ELSE "mark"
    /\ UNCHANGED <<repo, upload, archive, post, waiting, run, zombies, claim, reap, faults>>

SweepMarkAnyAge ==
    /\ sweep = "mark"
    /\ IF repo.status = "cloning" THEN Status("error") ELSE UNCHANGED repo
    /\ sweep' = "idle"
    /\ UNCHANGED <<upload, archive, post, waiting, run, zombies, claim, reap, faults>>
SweepMark ==
    /\ sweep = "mark"
    /\ IF Stranded THEN Status("error") ELSE UNCHANGED repo
    /\ sweep' = "idle"
    /\ UNCHANGED <<upload, archive, post, waiting, run, zombies, claim, reap, faults>>

(* The finished-archive pass: an archive a day old, which is past the sweep's
   cutoff too, stays for a cloning repository only; it is removed after that was
   read. *)
ReapRead ==
    /\ archive /\ ~reap
    /\ repo.status # "cloning" /\ repo.old
    /\ reap' = TRUE
    /\ UNCHANGED <<repo, upload, archive, post, waiting, run, zombies, claim, sweep, faults>>

ReapRemove ==
    /\ reap
    /\ archive' = FALSE
    /\ reap' = FALSE
    /\ UNCHANGED <<repo, upload, post, waiting, run, zombies, claim, sweep, faults>>

(* Five minutes pass.  No request takes that long to queue its job, and no sweep
   to read the queue. *)
Ages ==
    /\ ~repo.old
    /\ sweep = "idle" /\ ~reap
    /\ \A q \in Posts : post[q] \notin {"add", "mark"}
    /\ repo' = [repo EXCEPT !.old = TRUE]
    /\ UNCHANGED <<upload, archive, post, waiting, run, zombies, claim, sweep, reap, faults>>

(* A dead worker's claim goes stale. *)
ClaimExpires ==
    /\ claim = Left
    /\ claim' = Free
    /\ UNCHANGED <<repo, upload, archive, post, waiting, run, zombies, sweep, reap, faults>>

-----------------------------------------------------------------------------
ApiDies ==
    /\ Fault("api")
    /\ post' = [q \in Posts |-> IF post[q] = "idle" THEN "idle" ELSE "done"]
    /\ UNCHANGED <<repo, upload, archive, waiting, run, zombies, claim, sweep, reap>>

(* The worker dies; BullMQ delivers its jobs again. *)
WorkerDies ==
    /\ Fault("worker")
    /\ waiting' = waiting + Cardinality({x \in Slots : Live(x) /\ x \notin zombies})
    /\ run' = [x \in Slots |-> "idle"]
    /\ zombies' = {}
    /\ claim' = IF claim \in Slots THEN Left ELSE claim
    /\ sweep' = "idle"
    /\ reap' = FALSE
    /\ UNCHANGED <<repo, upload, archive, post>>

(* The lock of a running job runs out: it is delivered again while it runs. *)
Stall(x) ==
    /\ Live(x) /\ x \notin zombies
    /\ Fault("stall")
    /\ waiting' = waiting + 1
    /\ zombies' = zombies \union {x}
    /\ UNCHANGED <<repo, upload, archive, post, run, claim, sweep, reap>>

Post(q) == RetryLive(q) \/ RetrySwap(q) \/ AddJob(q) \/ MarkError(q)
Work(x) == \/ TakeJob(x) \/ ClaimRoot(x) \/ Extract(x) \/ PersistDetection(x)
           \/ RemoveArchive(x) \/ Release(x) \/ JobFails(x) \/ JobFailed(x)
Sweep == SweepRows \/ SweepQueue \/ SweepMark

Next ==
    \/ \E q \in Posts : RetryLoad(q) \/ Post(q)
    \/ \E x \in Slots : Work(x) \/ Stall(x)
    \/ Sweep \/ ReapRead \/ ReapRemove \/ Ages \/ ClaimExpires
    \/ ApiDies \/ WorkerDies

Spec == Init /\ [][Next]_vars

(* A request that was sent, a delivered job and a minute's sweep run to their
   end, and time passes; whether anybody clicks Retry is up to them. *)
FairSpec ==
    /\ Spec
    /\ \A q \in Posts : WF_vars(Post(q))
    /\ \A x \in Slots : WF_vars(Work(x))
    /\ WF_vars(Sweep) /\ WF_vars(ReapRemove) /\ SF_vars(Ages) /\ WF_vars(ClaimExpires)

-----------------------------------------------------------------------------
(* "a second click before pickup cannot queue a second destructive
   extraction": unless a worker died, a job stalled or an answer of the queue was
   lost, at most one job waits or rewrites the tree. *)
OneExtraction ==
    faults.kinds \subseteq {"api", "add"} =>
        waiting + Cardinality({x \in Slots : Running(x)}) <= 1

(* The rows are of their types and the tree is rewritten by one job at a time. *)
PreparationSound == TypeOK /\ OneExtraction

(* The sweep fails no repository whose job is queued or running, although it
   reads the row, then the queue, and writes after both. *)
SweepSparesLive ==
    [][sweep = "mark" /\ sweep' = "idle" /\ repo' # repo
          => ~LiveJob /\ \A q \in Posts : post[q] # "add"]_vars

(* A repository does not stay cloning, whichever process dies before its job
   exists, while it runs or between: it ends ready, or in the error that gives
   the user the Retry. *)
PreparationEnds == repo.status = "cloning" ~> repo.status # "cloning"
=============================================================================
