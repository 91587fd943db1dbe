--------------------------- MODULE RepoPrep_proofs ---------------------------
(* Proofs about RepoPrep, for every number of requests, job slots and faults. *)
EXTENDS RepoPrep, FiniteSetTheorems, TLAPS

Busy(x) == run[x] \notin {"idle", "failed"}
Queueing(q) == post[q] \in {"add", "mark"}

(* Every job that waits or runs was queued by a request of its own: what is
   delivered again left the slot it ran in, or counts there no longer. *)
Delivered == {x \in Slots : Live(x) /\ x \notin zombies}
Unqueued == {q \in Posts : post[q] \notin {"mark", "done"}}
JobsCounted ==
    waiting + Cardinality(Delivered) + Cardinality(Unqueued) <= Cardinality(Posts)

(* updatedAt grows old only once the request that wrote the row has queued its
   job or marked the row; a sweep that found no live job is overtaken by none
   as long as the row it read stays as it was. *)
OldIsQueued == repo.old => \A q \in Posts : ~Queueing(q)
SweptIsDead == sweep = "mark" /\ repo.old => ~LiveJob

(* Unless a worker died, a job stalled or an answer of the queue was lost: of
   the requests that queue, the jobs that wait and those that run there is one
   at most, and none when the row may be taken from error to cloning. *)
Quiet == faults.kinds \subseteq {"api", "add"}
NoJob == /\ waiting = 0
         /\ \A x \in Slots : ~Busy(x)
         /\ \A q \in Posts : ~Queueing(q)
OneJob ==
    Quiet =>
       /\ zombies = {}
       /\ waiting <= 1
       /\ \A x, y \in Slots : Busy(x) /\ Busy(y) => x = y
       /\ \A p, q \in Posts : Queueing(p) /\ Queueing(q) => p = q
       /\ \A x \in Slots : Busy(x) => waiting = 0
       /\ \A q \in Posts : Queueing(q) => waiting = 0 /\ \A x \in Slots : ~Busy(x)
       /\ repo.status = "error" => NoJob

(* TypeOK without the bound that JobsCounted puts on the queue. *)
Typed ==
    /\ repo \in [status : {"cloning", "ready", "error"}, old : BOOLEAN]
    /\ upload \in {"complete", "cancelled"}
    /\ archive \in BOOLEAN
    /\ post \in [Posts -> {"idle", "live", "swap", "add", "mark", "done"}]
    /\ waiting \in Nat
    /\ run \in [Slots -> {"idle", "claim", "extract", "ready", "remove",
                          "release", "fail", "mark", "failed"}]
    /\ zombies \subseteq {x \in Slots : Live(x)}
    /\ claim \in {Free, Left} \union {x \in Slots : run[x] \notin {"idle", "claim", "mark", "failed"}}
    /\ sweep \in {"idle", "queue", "mark"}
    /\ reap \in BOOLEAN
    /\ faults \in [kinds : SUBSET Faults, count : 0..MaxFaults]

Rest == OldIsQueued /\ SweptIsDead /\ OneJob

-----------------------------------------------------------------------------
(* The jobs and the requests are finite sets. *)
LEMMA Counts ==
    /\ IsFiniteSet(Delivered) /\ Cardinality(Delivered) \in Nat
    /\ IsFiniteSet(Unqueued) /\ Cardinality(Unqueued) \in Nat
    /\ IsFiniteSet(Posts) /\ Cardinality(Posts) \in Nat
  <1>1. Delivered \subseteq Slots /\ Unqueued \subseteq Posts
    BY DEF Delivered, Unqueued
  <1>2. IsFiniteSet(Delivered) /\ IsFiniteSet(Unqueued) /\ IsFiniteSet(Posts)
    BY <1>1, PrepAssumption, FS_Subset
  <1> QED
    BY <1>2, FS_CardinalityType

(* What is counted bounds the queue. *)
LEMMA CountedIsTyped == ASSUME Typed, JobsCounted PROVE TypeOK
  <1>1. waiting \in 0..Cardinality(Posts)
    BY Counts DEF Typed, JobsCounted
  <1> QED
    BY <1>1 DEF Typed, TypeOK

(* Every request starts with its job unqueued. *)
LEMMA InitInv == ASSUME Init PROVE Typed /\ JobsCounted /\ Rest
  <1>1. Typed
    <2>1. faults \in [kinds : SUBSET Faults, count : 0..MaxFaults]
      BY PrepAssumption DEF Init
    <2>2. post \in [Posts -> {"idle", "live", "swap", "add", "mark", "done"}]
      BY DEF Init
    <2> QED
      BY <2>1, <2>2 DEF Init, Typed, Live
  <1>2. JobsCounted
    <2>1. Delivered = {} /\ Unqueued = Posts
      BY DEF Init, Delivered, Unqueued, Live
    <2> QED
      BY <2>1, Counts, FS_EmptySet DEF Init, JobsCounted
  <1>3. Rest
    BY DEF Init, Rest, OldIsQueued, SweptIsDead, OneJob, Queueing, Busy
  <1> QED
    BY <1>1, <1>2, <1>3

-----------------------------------------------------------------------------
(* Every step keeps the types: a request's, a job's, and those of the sweep, the
   reaper, time and the processes. *)
LEMMA PostTyped ==
    ASSUME Typed, NEW q \in Posts, RetryLoad(q) \/ Post(q)
    PROVE  Typed'
  <1> USE DEF Typed, Live, PostTo, Status, Fault
  <1>1. CASE RetryLoad(q)
    BY <1>1 DEF RetryLoad
  <1>2. CASE RetryLive(q)
    BY <1>2 DEF RetryLive
  <1>3. CASE RetrySwap(q)
    <2>1. CASE repo.status = "error"
      <3>1. /\ repo' = [status |-> "cloning", old |-> FALSE]
            /\ post' = [post EXCEPT ![q] = "add"]
        BY <1>3, <2>1 DEF RetrySwap
      <3> QED
        BY <1>3, <3>1 DEF RetrySwap
    <2>2. CASE repo.status # "error"
      BY <1>3, <2>2 DEF RetrySwap
    <2> QED
      BY <2>1, <2>2
  <1>4. CASE AddJob(q)
    <2>1. waiting' \in Nat
      BY <1>4 DEF AddJob
    <2>2. post' \in [Posts -> {"idle", "live", "swap", "add", "mark", "done"}]
      BY <1>4 DEF AddJob
    <2>3. faults' \in [kinds : SUBSET Faults, count : 0..MaxFaults]
      BY <1>4, PrepAssumption DEF AddJob
    <2> QED
      BY <1>4, <2>1, <2>2, <2>3 DEF AddJob
  <1>5. CASE MarkError(q)
    BY <1>5 DEF MarkError
  <1> QED
    BY <1>1, <1>2, <1>3, <1>4, <1>5 DEF Post

LEMMA WorkTyped ==
    ASSUME Typed, NEW x \in Slots, Work(x) \/ Stall(x)
    PROVE  Typed'
  <1> USE PrepAssumption DEF Typed, Live, RunTo, Status, Fault, JobOver
  <1>1. CASE TakeJob(x)
    BY <1>1 DEF TakeJob
  <1>2. CASE ClaimRoot(x)
    BY <1>2 DEF ClaimRoot
  <1>3. CASE Extract(x)
    BY <1>3 DEF Extract
  <1>4. CASE PersistDetection(x)
    BY <1>4 DEF PersistDetection
  <1>5. CASE RemoveArchive(x)
    BY <1>5 DEF RemoveArchive
  <1>6. CASE Release(x)
    BY <1>6 DEF Release
  <1>7. CASE JobFails(x)
    BY <1>7 DEF JobFails
  <1>8. CASE JobFailed(x)
    BY <1>8 DEF JobFailed
  <1>9. CASE Stall(x)
    BY <1>9 DEF Stall
  <1> QED
    BY <1>1, <1>2, <1>3, <1>4, <1>5, <1>6, <1>7, <1>8, <1>9 DEF Work

LEMMA OthersTyped ==
    ASSUME Typed,
           Sweep \/ ReapRead \/ ReapRemove \/ Ages \/ ClaimExpires \/ ApiDies \/ WorkerDies
    PROVE  Typed'
  <1> USE PrepAssumption DEF Typed, Live, Status, Fault
  <1>1. CASE SweepRows
    BY <1>1 DEF SweepRows
  <1>2. CASE SweepQueue
    BY <1>2 DEF SweepQueue
  <1>3. CASE SweepMark
    <2>1. CASE Stranded
      <3>1. repo' = [status |-> "error", old |-> FALSE]
        BY <1>3, <2>1 DEF SweepMark
      <3> QED
        BY <1>3, <3>1 DEF SweepMark
    <2>2. CASE ~Stranded
      BY <1>3, <2>2 DEF SweepMark
    <2> QED
      BY <2>1, <2>2
  <1>4. CASE ReapRead
    BY <1>4 DEF ReapRead
  <1>5. CASE ReapRemove
    BY <1>5 DEF ReapRemove
  <1>6. CASE Ages
    BY <1>6 DEF Ages
  <1>7. CASE ClaimExpires
    BY <1>7 DEF ClaimExpires
  <1>8. CASE ApiDies
    BY <1>8 DEF ApiDies
  <1>9. CASE WorkerDies
    <2>1. Cardinality({x \in Slots : Live(x) /\ x \notin zombies}) \in Nat
      BY Counts DEF Delivered
    <2>2. waiting' \in Nat
      BY <1>9, <2>1 DEF WorkerDies
    <2>3. faults' \in [kinds : SUBSET Faults, count : 0..MaxFaults]
      BY <1>9 DEF WorkerDies
    <2>4. claim' \in {Free, Left}
      BY <1>9 DEF WorkerDies
    <2> QED
      BY <1>9, <2>2, <2>3, <2>4 DEF WorkerDies
  <1> QED
    BY <1>1, <1>2, <1>3, <1>4, <1>5, <1>6, <1>7, <1>8, <1>9 DEF Sweep

-----------------------------------------------------------------------------
(* A request's steps: only one that finds the row at error begins to queue, and
   then nothing waits or runs. *)
LEMMA PostKeeps ==
    ASSUME Typed, Rest, NEW q \in Posts, RetryLoad(q) \/ Post(q)
    PROVE  Rest'
  <1> USE DEF Typed, Rest, OldIsQueued, SweptIsDead, OneJob, NoJob, Quiet, Queueing, Busy,
              LiveJob, Live, PostTo, Status, Fault
  <1>1. CASE RetryLoad(q)
    BY <1>1 DEF RetryLoad
  <1>2. CASE RetryLive(q)
    BY <1>2 DEF RetryLive
  <1>3. CASE RetrySwap(q)
    BY <1>3 DEF RetrySwap
  <1>4. CASE AddJob(q)
    BY <1>4 DEF AddJob
  <1>5. CASE MarkError(q)
    BY <1>5 DEF MarkError
  <1> QED
    BY <1>1, <1>2, <1>3, <1>4, <1>5 DEF Post

(* A job's steps: it is the last one when it marks the row. *)
LEMMA WorkKeeps ==
    ASSUME Typed, Rest, NEW x \in Slots, Work(x) \/ Stall(x)
    PROVE  Rest'
  <1> USE PrepAssumption
      DEF Typed, Rest, OldIsQueued, SweptIsDead, OneJob, NoJob, Quiet, Queueing, Busy,
          LiveJob, Live, RunTo, Status, Fault, JobOver
  <1>1. CASE TakeJob(x)
    BY <1>1 DEF TakeJob
  <1>2. CASE ClaimRoot(x)
    BY <1>2 DEF ClaimRoot
  <1>3. CASE Extract(x)
    BY <1>3 DEF Extract
  <1>4. CASE PersistDetection(x)
    BY <1>4 DEF PersistDetection
  <1>5. CASE RemoveArchive(x)
    BY <1>5 DEF RemoveArchive
  <1>6. CASE Release(x)
    BY <1>6 DEF Release
  <1>7. CASE JobFails(x)
    BY <1>7 DEF JobFails
  <1>8. CASE JobFailed(x)
    BY <1>8 DEF JobFailed
  <1>9. CASE Stall(x)
    BY <1>9 DEF Stall
  <1> QED
    BY <1>1, <1>2, <1>3, <1>4, <1>5, <1>6, <1>7, <1>8, <1>9 DEF Work

(* The steps of the sweep, which marks a row nobody works for, the reaper, time and
   the processes. *)
LEMMA OthersKeep ==
    ASSUME Typed, Rest,
           Sweep \/ ReapRead \/ ReapRemove \/ Ages \/ ClaimExpires \/ ApiDies \/ WorkerDies
    PROVE  Rest'
  <1> USE PrepAssumption
      DEF Typed, Rest, OldIsQueued, SweptIsDead, OneJob, NoJob, Quiet, Queueing, Busy,
          LiveJob, Live, Status, Fault
  <1>1. CASE SweepRows
    BY <1>1 DEF SweepRows
  <1>2. CASE SweepQueue
    BY <1>2 DEF SweepQueue
  <1>3. CASE SweepMark
    BY <1>3 DEF SweepMark, Stranded
  <1>4. CASE ReapRead
    BY <1>4 DEF ReapRead
  <1>5. CASE ReapRemove
    BY <1>5 DEF ReapRemove
  <1>6. CASE Ages
    BY <1>6 DEF Ages
  <1>7. CASE ClaimExpires
    BY <1>7 DEF ClaimExpires
  <1>8. CASE ApiDies
    BY <1>8 DEF ApiDies
  <1>9. CASE WorkerDies
    BY <1>9 DEF WorkerDies
  <1> QED
    BY <1>1, <1>2, <1>3, <1>4, <1>5, <1>6, <1>7, <1>8, <1>9 DEF Sweep

-----------------------------------------------------------------------------
(* The sum does not grow: of a request that queues, a job that is taken, and one
   that is delivered again, one summand goes down where another goes up. *)
LEMMA Counted ==
    ASSUME Typed, Typed', JobsCounted, NEW D, NEW U,
           D = Delivered', U = Unqueued',
           waiting' + Cardinality(D) + Cardinality(U)
              <= waiting + Cardinality(Delivered) + Cardinality(Unqueued)
    PROVE  JobsCounted'
  <1>1. Cardinality(D) \in Nat /\ Cardinality(U) \in Nat /\ waiting' \in Nat
    <2>1. D \subseteq Slots /\ U \subseteq Posts
      BY DEF Delivered, Unqueued
    <2> QED
      BY <2>1, PrepAssumption, FS_Subset, FS_CardinalityType DEF Typed
  <1> QED
    BY <1>1, Counts DEF JobsCounted, Typed

(* A step that queues, takes and delivers nothing again. *)
LEMMA CountKept ==
    ASSUME Typed, Typed', JobsCounted, waiting' = waiting,
           Delivered' \subseteq Delivered, Unqueued' \subseteq Unqueued
    PROVE  JobsCounted'
  <1>1. /\ Cardinality(Delivered') <= Cardinality(Delivered)
        /\ Cardinality(Unqueued') <= Cardinality(Unqueued)
        /\ Cardinality(Delivered') \in Nat /\ Cardinality(Unqueued') \in Nat
    BY Counts, FS_Subset, FS_CardinalityType
  <1> QED
    BY <1>1, Counts, Counted DEF Typed

(* Every step keeps the count. *)
LEMMA NextCounted ==
    ASSUME Typed, Typed', JobsCounted, Next
    PROVE  JobsCounted'
  <1> USE DEF Typed, Live, PostTo, RunTo, JobOver
  <1>1. ASSUME NEW q \in Posts, RetryLoad(q) \/ Post(q) PROVE JobsCounted'
    <2>1. Delivered' = Delivered
      BY <1>1 DEF RetryLoad, Post, RetryLive, RetrySwap, AddJob, MarkError, Delivered
    <2>2. CASE RetryLoad(q) \/ RetryLive(q) \/ RetrySwap(q) \/ MarkError(q)
      <3>1. waiting' = waiting /\ Unqueued' \subseteq Unqueued
        BY <2>2 DEF RetryLoad, RetryLive, RetrySwap, MarkError, Unqueued
      <3> QED
        BY <2>1, <3>1, CountKept
    <2>3. CASE AddJob(q)
      <3>1. /\ Unqueued' = Unqueued \ {q} /\ q \in Unqueued
            /\ waiting' <= waiting + 1 /\ waiting' \in Nat
        BY <2>3 DEF AddJob, Unqueued
      <3>2. Cardinality(Unqueued') = Cardinality(Unqueued) - 1
        BY <3>1, Counts, FS_RemoveElement
      <3> QED
        BY <2>1, <3>1, <3>2, Counts, Counted
    <2> QED
      BY <1>1, <2>2, <2>3 DEF Post
  <1>2. ASSUME NEW x \in Slots, Work(x) \/ Stall(x) PROVE JobsCounted'
    <2>1. Unqueued' = Unqueued
      BY <1>2 DEF Work, TakeJob, ClaimRoot, Extract, PersistDetection, RemoveArchive, Release,
                  JobFails, JobFailed, Stall, Unqueued
    <2>2. CASE TakeJob(x)
      <3>1. /\ Delivered' = Delivered \union {x} /\ x \notin Delivered
            /\ waiting' = waiting - 1
        BY <2>2 DEF TakeJob, Delivered
      <3>2. Cardinality(Delivered') = Cardinality(Delivered) + 1
        BY <3>1, Counts, FS_AddElement
      <3> QED
        BY <2>1, <3>1, <3>2, Counts, Counted
    <2>3. CASE Stall(x)
      <3>1. /\ Delivered' = Delivered \ {x} /\ x \in Delivered
            /\ waiting' = waiting + 1
        BY <2>3 DEF Stall, Delivered
      <3>2. Cardinality(Delivered') = Cardinality(Delivered) - 1
        BY <3>1, Counts, FS_RemoveElement
      <3> QED
        BY <2>1, <3>1, <3>2, Counts, Counted
    <2>4. CASE Work(x) /\ ~TakeJob(x)
      <3>0. /\ waiting' = waiting
            /\ run[x] # "idle"
            /\ \A y \in Slots : y # x => run'[y] = run[y]
            /\ \/ zombies' = zombies
               \/ run'[x] = "idle" /\ zombies' = zombies \ {x}
        <4>1. CASE Release(x) \/ JobFailed(x)
          BY <4>1 DEF Release, JobFailed
        <4>2. CASE ClaimRoot(x)
          BY <4>2 DEF ClaimRoot
        <4>3. CASE Extract(x)
          BY <4>3 DEF Extract
        <4>4. CASE PersistDetection(x)
          BY <4>4 DEF PersistDetection
        <4>5. CASE RemoveArchive(x)
          BY <4>5 DEF RemoveArchive
        <4>6. CASE JobFails(x)
          BY <4>6 DEF JobFails
        <4> QED
          BY <2>4, <4>1, <4>2, <4>3, <4>4, <4>5, <4>6 DEF Work
      <3>1. waiting' = waiting /\ Delivered' \subseteq Delivered
        BY <3>0 DEF Delivered
      <3> QED
        BY <2>1, <3>1, CountKept
    <2> QED
      BY <1>2, <2>2, <2>3, <2>4
  <1>3. CASE WorkerDies
    <2>1. /\ Delivered' = {} /\ Unqueued' = Unqueued
          /\ waiting' = waiting + Cardinality(Delivered)
      BY <1>3 DEF WorkerDies, Delivered, Unqueued
    <2>2. Cardinality(Delivered') = 0
      BY <2>1, FS_EmptySet
    <2> QED
      BY <2>1, <2>2, Counts, Counted
  <1>4. CASE Sweep \/ ReapRead \/ ReapRemove \/ Ages \/ ClaimExpires \/ ApiDies
    <2>1. waiting' = waiting /\ Delivered' = Delivered /\ Unqueued' \subseteq Unqueued
      BY <1>4 DEF Sweep, SweepRows, SweepQueue, SweepMark, ReapRead, ReapRemove, Ages,
                  ClaimExpires, ApiDies, Delivered, Unqueued
    <2> QED
      BY <2>1, CountKept
  <1> QED
    BY <1>1, <1>2, <1>3, <1>4 DEF Next

(* The inductive invariant. *)
LEMMA Inductive == Spec => [](Typed /\ JobsCounted /\ Rest)
  <1> DEFINE Inv == Typed /\ JobsCounted /\ Rest
  <1>1. Init => Inv
    BY InitInv
  <1>2. Inv /\ [Next]_vars => Inv'
    <2>1. CASE Inv /\ Next
      <3>1. Typed'
        BY <2>1, PostTyped, WorkTyped, OthersTyped DEF Next
      <3>2. Rest'
        BY <2>1, PostKeeps, WorkKeeps, OthersKeep DEF Next
      <3> QED
        BY <2>1, <3>1, <3>2, NextCounted
    <2>2. CASE Inv /\ UNCHANGED vars
      BY <2>2 DEF vars, Typed, JobsCounted, Rest, OldIsQueued, SweptIsDead, OneJob, NoJob, Quiet,
                  Queueing, Busy, LiveJob, Live, Delivered, Unqueued
    <2> QED
      BY <2>1, <2>2
  <1> QED
    BY <1>1, <1>2, PTL DEF Spec

(* A second click queues no second extraction: the request that takes the row
   from error to cloning is alone with it, for any number of requests and job
   slots, deaths of the api and refusals of the queue, and in any case no job is
   counted that no request queued. *)
THEOREM PreparationSoundHolds == Spec => []PreparationSound
  <1>1. Typed /\ JobsCounted /\ Rest => PreparationSound
    <2> SUFFICES ASSUME Typed, JobsCounted, Rest PROVE OneExtraction
      BY CountedIsTyped DEF PreparationSound
    <2> DEFINE Rewriting == {x \in Slots : Running(x)}
    <2> SUFFICES ASSUME Quiet PROVE waiting + Cardinality(Rewriting) <= 1
      BY DEF OneExtraction, Quiet
    <2>1. CASE Rewriting = {}
      <3>1. Cardinality(Rewriting) = 0
        BY <2>1, FS_EmptySet
      <3> QED
        BY <3>1 DEF Rest, OneJob, Typed
    <2>2. CASE Rewriting # {}
      <3>1. PICK x \in Slots : Running(x)
        BY <2>2
      <3>2. Rewriting = {x} /\ waiting = 0
        BY <3>1 DEF Rest, OneJob, Running, Busy
      <3>3. Cardinality(Rewriting) = 1
        BY <3>2, FS_Singleton
      <3> QED
        BY <3>2, <3>3
    <2> QED
      BY <2>1, <2>2
  <1> QED
    BY <1>1, Inductive, PTL

(* reconcileStrandedCloningRepos writes its error over no repository with a job:
   the cutoff in the guarded write covers the time since its two reads. *)
THEOREM SweepSparesLiveHolds == Spec => SweepSparesLive
  <1> DEFINE Spared == sweep = "mark" /\ sweep' = "idle" /\ repo' # repo
                          => ~LiveJob /\ \A q \in Posts : post[q] # "add"
  <1>1. Typed /\ JobsCounted /\ Rest /\ [Next]_vars => [Spared]_vars
    <2> SUFFICES ASSUME Typed, Rest, Next, sweep = "mark", sweep' = "idle", repo' # repo
                 PROVE  ~LiveJob /\ \A q \in Posts : post[q] # "add"
      OBVIOUS
    <2>1. SweepMark
      BY DEF Next, Post, Work, Sweep, RetryLoad, RetryLive, RetrySwap, AddJob, MarkError, TakeJob,
             ClaimRoot, Extract, PersistDetection, RemoveArchive, Release, JobFails, JobFailed,
             Stall, SweepRows, SweepQueue, ReapRead, ReapRemove, Ages, ClaimExpires, ApiDies,
             WorkerDies
    <2>2. repo.old
      BY <2>1 DEF SweepMark, Stranded
    <2> QED
      BY <2>2 DEF Rest, SweptIsDead, OldIsQueued, Queueing
  <1> QED
    BY <1>1, Inductive, PTL DEF Spec, SweepSparesLive
=============================================================================
