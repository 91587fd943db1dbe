--------------------------- MODULE UploadSession ---------------------------
(* One upload session of a repository archive: the routes under /upload in
   packages/api/src/routes/repos.ts, the claim a complete holds
   (packages/api/src/lib/upload-complete-claim.ts), the chunk lock
   (upload-chunk-lock.ts) and the reaper of abandoned sessions
   (packages/worker/src/repo/upload-reaper.ts).  The dump and bundle sessions
   share the claim, the cancel and the reaper.

   The session's file is one inode: init creates it under the partial name and
   nothing creates it again, a complete moves it to the final name, a cancel or
   the reaper removes it, and a chunk's writer holds a descriptor to it wherever
   it is.  A chunk is one unit long.

   Time is counted in renewal periods, and only ages matter: an age stops at the
   first one past every window.  A stamp is a time nobody else wrote, so all
   that counts of the stamp a complete remembers is whether it is the row's. *)
EXTENDS Naturals, FiniteSets

CONSTANTS
    Completes,   \* clients' POSTs of /complete
    Chunks,      \* clients' PUTs of /chunk
    Total,       \* totalSize, in chunks
    Stale,       \* COMPLETE_CLAIM_STALE_MS / COMPLETE_CLAIM_RENEW_MS
    Idle,        \* IDLE_MS and REAP_RETRY_MS; longer than Stale
    Requests,    \* bound on the requests the clients send
    Faults,      \* the kinds of fault that may happen
    MaxFaults    \* bound on how many do

(* "api", "worker": the process dies.  "renew": a renewal fails or its timer
   does not run.  "db": another statement fails.  "lost": a statement commits
   and its answer is lost.  "disk": a removal or a rollback of a file fails.
   "sweep": the reaper's pass over the idle sessions fails. *)
FaultKinds == {"api", "worker", "renew", "db", "lost", "disk", "sweep"}

ASSUME SessionAssumption ==
    /\ Total \in Nat \ {0} /\ Stale \in Nat \ {0}
    /\ Idle \in Nat /\ Idle > Stale
    /\ Requests \in Nat /\ MaxFaults \in Nat /\ Faults \subseteq FaultKinds

VARIABLES
    row,      \* the session's status, bytesReceived and the age of updatedAt
    file,     \* the name it has, its length and the age of its mtime
    pc,       \* where each complete is
    staged,   \* completes that found the whole file under the partial name
    knows,    \* completes whose remembered stamp is the row's
    timer,    \* completes whose renewal timer runs
    due,      \* those of them whose timer fired in this period
    answer,   \* of the renewal in flight, if any
    put,      \* where each chunk is, and its start
    rm,       \* where the cancel and the reaper are in removing the files
    left,     \* requests not yet sent
    faults    \* the kinds of fault so far, and their number

claims == <<pc, staged, knows, timer, due, answer>>
vars == <<row, file, pc, staged, knows, timer, due, answer, put, rm, left, faults>>

Removers == {"cancel", "reaper"}
MaxAge == Idle + 1
Older(age) == IF age < MaxAge THEN age + 1 ELSE age

Statuses == {"uploading", "completing", "complete", "reaping", "cancelled",
             "reap_failed", "none"}   \* none: the row was deleted
Over == {"reaping", "cancelled", "reap_failed", "none"}

Holding(c) == pc[c] \in {"stat", "move", "write", "fail"}
Working(c) == pc[c] \in {"stat", "move", "write"}
Writing(p) == put[p].at \in {"open", "write", "advance"}

TypeOK ==
    /\ row \in [status : Statuses, got : 0..Total, age : 0..MaxAge]
    /\ file \in [name : {"partial", "final", "gone"}, len : 0..Total, age : 0..MaxAge]
    /\ pc \in [Completes -> {"idle", "loaded", "stat", "move", "write", "fail"}]
    /\ staged \subseteq Completes
    /\ knows \subseteq Completes /\ Cardinality(knows) <= 1
    /\ timer \subseteq Completes
    /\ due \subseteq timer
    /\ answer \in [Completes -> {"none", "hit", "late", "miss"}]
    /\ put \in [Chunks -> [at : {"idle", "loaded", "open", "write", "advance"},
                           start : 0..Total]]
    /\ Cardinality({p \in Chunks : Writing(p)}) <= 1
    /\ rm \in [Removers -> [at : {"idle", "partial", "final", "close", "orphans",
                                  "orphanPartial", "orphanFinal"},
                            gone : BOOLEAN]]
    /\ left \in 0..Requests
    /\ faults \in [kinds : SUBSET Faults, count : 0..MaxFaults]

(* After /upload/init; a process that died in it left a row without a file. *)
Init ==
    /\ row = [status |-> "uploading", got |-> 0, age |-> 0]
    /\ file \in [name : {"partial", "gone"}, len : {0}, age : {0}]
    /\ pc = [c \in Completes |-> "idle"]
    /\ staged = {} /\ knows = {} /\ timer = {} /\ due = {}
    /\ answer = [c \in Completes |-> "none"]
    /\ put = [p \in Chunks |-> [at |-> "idle", start |-> 0]]
    /\ rm = [r \in Removers |-> [at |-> "idle", gone |-> TRUE]]
    /\ left = Requests
    /\ faults = [kinds |-> {}, count |-> 0]

Fault(kind) ==
    /\ kind \in Faults
    /\ faults.count < MaxFaults
    /\ faults' = [kinds |-> faults.kinds \union {kind}, count |-> faults.count + 1]

Send == left > 0 /\ left' = left - 1

(* A write of the row by somebody other than a holding complete: no remembered
   stamp is the row's any more, nor is one that an answer brings. *)
Stamped(status, got) ==
    /\ row' = [status |-> status, got |-> got, age |-> 0]
    /\ knows' = {}
    /\ answer' = [c \in Completes |-> IF answer[c] = "hit" THEN "late" ELSE answer[c]]

-----------------------------------------------------------------------------
(* PUT /upload/:id/chunk *)
ChunkLoad(p) ==
    /\ put[p].at = "idle"
    /\ Send
    /\ row.status = "uploading" /\ row.got < Total
    /\ put' = [put EXCEPT ![p] = [at |-> "loaded", start |-> row.got]]
    /\ UNCHANGED <<row, file, claims, rm, faults>>

ChunkEnds(p) == put' = [put EXCEPT ![p] = [at |-> "idle", start |-> 0]]
ChunkTo(p, at) == put' = [put EXCEPT ![p].at = at]

(* withUploadChunkLock, and the claim of the row under it. *)
ChunkClaimAnyOffset(p) ==
    /\ put[p].at = "loaded"
    /\ \/ /\ \A q \in Chunks : ~Writing(q)
          /\ row.status = "uploading"
          /\ Stamped("uploading", row.got)
          /\ ChunkTo(p, "open")
       \/ /\ \/ \E q \in Chunks : Writing(q)
             \/ row.status # "uploading"
          /\ ChunkEnds(p)
          /\ UNCHANGED <<row, knows, answer>>
    /\ UNCHANGED <<file, pc, staged, timer, due, rm, left, faults>>
ChunkClaim(p) ==
    /\ put[p].at = "loaded"
    /\ \/ /\ \A q \in Chunks : ~Writing(q)
          /\ row.status = "uploading" /\ row.got = put[p].start
          /\ Stamped("uploading", row.got)
          /\ ChunkTo(p, "open")
       \/ /\ \/ \E q \in Chunks : Writing(q)
             \/ row.status # "uploading" \/ row.got # put[p].start
          /\ ChunkEnds(p)
          /\ UNCHANGED <<row, knows, answer>>
    /\ UNCHANGED <<file, pc, staged, timer, due, rm, left, faults>>

(* The partial is opened by its name. *)
ChunkOpen(p) ==
    /\ put[p].at = "open"
    /\ IF file.name = "partial" THEN ChunkTo(p, "write") ELSE ChunkEnds(p)
    /\ UNCHANGED <<row, file, claims, rm, left, faults>>

(* writeBodyToHeld at the session's offset. *)
ChunkWrite(p) ==
    /\ put[p].at = "write"
    /\ file' = [file EXCEPT !.len = IF @ > put[p].start THEN @ ELSE put[p].start + 1,
                            !.age = 0]
    /\ ChunkTo(p, "advance")
    /\ UNCHANGED <<row, claims, rm, left, faults>>

(* A body too short, too long or cut off: rolled back through the descriptor,
   unless the rollback fails too. *)
ChunkWriteFails(p) ==
    /\ put[p].at = "write"
    /\ \/ /\ file' = [file EXCEPT !.len = put[p].start, !.age = 0]
          /\ UNCHANGED faults
       \/ /\ Fault("disk")
          /\ file' = [file EXCEPT !.len = IF @ > put[p].start THEN @ ELSE put[p].start + 1,
                                  !.age = 0]
    /\ ChunkEnds(p)
    /\ UNCHANGED <<row, claims, rm, left>>

ChunkAdvance(p) ==
    /\ put[p].at = "advance"
    /\ IF row.status = "uploading"
       THEN Stamped("uploading", put[p].start + 1)
       ELSE UNCHANGED <<row, knows, answer>>
    /\ ChunkEnds(p)
    /\ UNCHANGED <<file, pc, staged, timer, due, rm, left, faults>>

ChunkAdvanceFails(p) ==
    /\ put[p].at = "advance"
    /\ Fault("db")
    /\ ChunkEnds(p)
    /\ UNCHANGED <<row, file, claims, rm, left>>

-----------------------------------------------------------------------------
(* POST /upload/:id/complete: the checks on the row as it was read. *)
CompleteLoad(c) ==
    /\ pc[c] = "idle"
    /\ Send
    /\ row.status \notin Over \union {"complete"}
    /\ row.got = Total
    /\ pc' = [pc EXCEPT ![c] = "loaded"]
    /\ UNCHANGED <<row, file, staged, knows, timer, due, answer, put, rm, faults>>

CompleteEnds(c) ==
    /\ pc' = [pc EXCEPT ![c] = "idle"]
    /\ staged' = staged \ {c}
    /\ timer' = timer \ {c}
    /\ due' = due \ {c}

(* takeClaim *)
ClaimableEvenHeld == row.status \in {"uploading", "completing"}
Claimable ==
    \/ row.status = "uploading"
    \/ row.status = "completing" /\ row.age > Stale

TakeClaim(c) ==
    /\ pc[c] = "loaded"
    /\ Claimable
    /\ row' = [row EXCEPT !.status = "completing", !.age = 0]
    /\ knows' = {c}
    /\ answer' = [d \in Completes |-> IF answer[d] = "hit" THEN "late" ELSE answer[d]]
    /\ timer' = timer \union {c}
    /\ pc' = [pc EXCEPT ![c] = "stat"]
    /\ UNCHANGED <<file, staged, due, put, rm, left, faults>>

(* Refused, by the claim or by the maintenance check before it. *)
TakeClaimRefused(c) ==
    /\ pc[c] = "loaded"
    /\ CompleteEnds(c)
    /\ UNCHANGED <<row, file, knows, answer, put, rm, left, faults>>

TakeClaimLost(c) ==
    /\ pc[c] = "loaded"
    /\ Claimable
    /\ Fault("lost")
    /\ Stamped("completing", row.got)
    /\ CompleteEnds(c)
    /\ UNCHANGED <<file, put, rm, left>>

(* The timer's renew: its UPDATE, and its answer. *)
RenewRuns(c) ==
    /\ c \in due
    /\ due' = due \ {c}
    /\ IF c \in knows /\ row.status = "completing"
       THEN /\ row' = [row EXCEPT !.age = 0]
            /\ knows' = {}
            /\ answer' = [answer EXCEPT ![c] = "hit"]
       ELSE /\ answer' = [answer EXCEPT ![c] = "miss"]
            /\ UNCHANGED <<row, knows>>
    /\ UNCHANGED <<file, pc, staged, timer, put, rm, left, faults>>

RenewAnswered(c) ==
    /\ answer[c] # "none"
    /\ knows' = IF answer[c] = "hit" THEN {c} ELSE knows \ {c}
    /\ timer' = IF answer[c] = "miss" THEN timer \ {c} ELSE timer
    /\ due' = IF answer[c] = "miss" THEN due \ {c} ELSE due
    /\ answer' = [answer EXCEPT ![c] = "none"]
    /\ UNCHANGED <<row, file, pc, staged, put, rm, left, faults>>

RenewFails(c) ==
    /\ c \in due
    /\ Fault("renew")
    /\ due' = due \ {c}
    /\ UNCHANGED <<row, file, pc, staged, knows, timer, answer, put, rm, left>>

RenewAnswerLost(c) ==
    /\ answer[c] # "none"
    /\ Fault("lost")
    /\ answer' = [answer EXCEPT ![c] = "none"]
    /\ UNCHANGED <<row, file, pc, staged, knows, timer, due, put, rm, left>>

(* The catch of withCompleteClaim: the timer stops before the give-back. *)
CompleteFails(c) ==
    /\ pc' = [pc EXCEPT ![c] = "fail"]
    /\ timer' = timer \ {c}
    /\ due' = due \ {c}

(* isWholeFile of the partial, then of the final name. *)
StatFile(c) ==
    /\ pc[c] = "stat"
    /\ IF file.name \in {"partial", "final"} /\ file.len = Total
       THEN /\ pc' = [pc EXCEPT ![c] = "move"]
            /\ staged' = IF file.name = "partial" THEN staged \union {c} ELSE staged
            /\ UNCHANGED <<timer, due>>
       ELSE CompleteFails(c) /\ UNCHANGED staged
    /\ UNCHANGED <<row, file, knows, answer, put, rm, left, faults>>

(* In the transaction: the rename, which fails when the partial is gone. *)
MoveFile(c) ==
    /\ pc[c] = "move"
    /\ IF c \in staged /\ file.name # "partial"
       THEN CompleteFails(c) /\ UNCHANGED file
       ELSE /\ file' = IF c \in staged THEN [file EXCEPT !.name = "final"] ELSE file
            /\ pc' = [pc EXCEPT ![c] = "write"]
            /\ UNCHANGED <<timer, due>>
    /\ UNCHANGED <<row, staged, knows, answer, put, rm, left, faults>>

(* admitNewWork refuses. *)
MoveRefused(c) ==
    /\ pc[c] = "move"
    /\ CompleteFails(c)
    /\ UNCHANGED <<row, file, staged, knows, answer, put, rm, left, faults>>

Held(c) == c \in knows /\ row.status = "completing"

(* claim.write and the commit; a miss waits for a renewal in flight first. *)
WriteComplete(c) ==
    /\ pc[c] = "write"
    /\ Held(c)
    /\ row' = [row EXCEPT !.status = "complete", !.age = 0]
    /\ knows' = {}
    /\ CompleteEnds(c)
    /\ answer' = [answer EXCEPT ![c] = "none"]
    /\ UNCHANGED <<file, put, rm, left, faults>>

WriteMisses(c) ==
    /\ pc[c] = "write"
    /\ ~Held(c) /\ answer[c] = "none"
    /\ CompleteFails(c)
    /\ UNCHANGED <<row, file, staged, knows, answer, put, rm, left, faults>>

(* The transaction fails: rolled back, except for the file it moved, or
   committed with the answer lost. *)
WriteFails(c) ==
    /\ pc[c] = "write"
    /\ CompleteFails(c)
    /\ \/ Fault("db") /\ UNCHANGED <<row, knows>>
       \/ /\ Fault("lost")
          /\ Held(c)
          /\ row' = [row EXCEPT !.status = "complete", !.age = 0]
          /\ knows' = {}
    /\ UNCHANGED <<file, staged, answer, put, rm, left>>

(* The give-back. *)
GiveBackUnheld(c) ==
    /\ pc[c] = "fail"
    /\ Stamped("uploading", row.got)
    /\ CompleteEnds(c)
    /\ UNCHANGED <<file, put, rm, left, faults>>
GiveBack(c) ==
    /\ pc[c] = "fail"
    /\ Held(c)
    /\ Stamped("uploading", row.got)
    /\ CompleteEnds(c)
    /\ UNCHANGED <<file, put, rm, left, faults>>

GiveBackAtOnceMisses(c) ==
    /\ pc[c] = "fail"
    /\ ~Held(c)
    /\ CompleteEnds(c)
    /\ answer' = [answer EXCEPT ![c] = "none"]
    /\ UNCHANGED <<row, file, knows, put, rm, left, faults>>
GiveBackMisses(c) ==
    /\ pc[c] = "fail"
    /\ ~Held(c) /\ answer[c] = "none"
    /\ CompleteEnds(c)
    /\ UNCHANGED <<row, file, knows, answer, put, rm, left, faults>>

GiveBackFails(c) ==
    /\ pc[c] = "fail"
    /\ Fault("db")
    /\ CompleteEnds(c)
    /\ knows' = knows \ {c}
    /\ answer' = [answer EXCEPT ![c] = "none"]
    /\ UNCHANGED <<row, file, put, rm, left>>

-----------------------------------------------------------------------------
(* Removing the files of a reaping session. *)
RemoverTo(r, at, gone) == rm' = [rm EXCEPT ![r] = [at |-> at, gone |-> gone]]

(* cancelUploadSession: DELETE /upload/:id. *)
Cancel ==
    /\ rm["cancel"].at = "idle"
    /\ Send
    /\ row.status = "uploading"
    /\ Stamped("reaping", row.got)
    /\ RemoverTo("cancel", "partial", TRUE)
    /\ UNCHANGED <<file, pc, staged, timer, due, put, faults>>

(* reapAbandonedUploads: claimIdleSessions, unless it fails, then finishReaping
   of the row if it is being reaped, then the passes over orphans. *)
IdleUploading == row.status = "uploading" /\ row.age > Idle
IdleSession == row.status \in {"uploading", "completing"} /\ row.age > Idle
ReapPass ==
    /\ rm["reaper"].at = "idle"
    /\ \/ /\ IdleSession
          /\ Stamped("reaping", row.got)
          /\ RemoverTo("reaper", "partial", TRUE)
          /\ UNCHANGED faults
       \/ /\ IdleSession
          /\ Fault("sweep")
          /\ RemoverTo("reaper", "orphans", TRUE)
          /\ UNCHANGED <<row, knows, answer>>
       \/ /\ ~IdleSession
          /\ RemoverTo("reaper", IF row.status = "reaping" THEN "partial" ELSE "orphans", TRUE)
          /\ UNCHANGED <<row, knows, answer, faults>>
    /\ UNCHANGED <<file, pc, staged, timer, due, put, left>>

(* The file under the partial name goes first, then the final one. *)
RemoveFinalFirst(r) ==
    /\ rm[r].at \in {"partial", "final"}
    /\ file' = [file EXCEPT !.name = IF @ = (IF rm[r].at = "partial" THEN "final" ELSE "partial")
                                     THEN "gone" ELSE @]
    /\ RemoverTo(r, IF rm[r].at = "partial" THEN "final" ELSE "close", rm[r].gone)
    /\ UNCHANGED <<row, claims, put, left, faults>>
Remove(r) ==
    /\ rm[r].at \in {"partial", "final"}
    /\ file' = [file EXCEPT !.name = IF @ = rm[r].at THEN "gone" ELSE @]
    /\ RemoverTo(r, IF rm[r].at = "partial" THEN "final" ELSE "close", rm[r].gone)
    /\ UNCHANGED <<row, claims, put, left, faults>>

RemoveFails(r) ==
    /\ rm[r].at \in {"partial", "final"}
    /\ file.name = rm[r].at
    /\ Fault("disk")
    /\ RemoverTo(r, IF rm[r].at = "partial" THEN "final" ELSE "close", FALSE)
    /\ UNCHANGED <<row, file, claims, put, left>>

(* All gone: cancelled.  A file that stays a day parks the row. *)
Close(r) ==
    /\ rm[r].at = "close"
    /\ IF row.status = "reaping" /\ rm[r].gone THEN Stamped("cancelled", row.got)
       ELSE IF row.status = "reaping" /\ r = "reaper" /\ row.age > Idle
       THEN Stamped("reap_failed", row.got)
       ELSE UNCHANGED <<row, knows, answer>>
    /\ RemoverTo(r, IF r = "reaper" THEN "orphans" ELSE "idle", TRUE)
    /\ UNCHANGED <<file, pc, staged, timer, due, put, left, faults>>

(* The write that closes the removal fails: the reaper finds it reaping. *)
CloseFails(r) ==
    /\ rm[r].at = "close"
    /\ Fault("db")
    /\ RemoverTo(r, IF r = "reaper" THEN "orphans" ELSE "idle", TRUE)
    /\ UNCHANGED <<row, file, claims, put, left>>

(* deleteCancelledSessions, then reapOrphanPartials: the file under the name it
   has is an orphan.  A completed session's repository is still cloning here
   and keeps the archive; one that no repository names may be kept as well. *)
Recent == row.status # "none" /\ (row.age <= Idle \/ row.status = "reap_failed")
OrphanRead ==
    /\ rm["reaper"].at = "orphans"
    /\ IF row.status = "cancelled" /\ row.age > Idle
       THEN Stamped("none", row.got)
       ELSE UNCHANGED <<row, knows, answer>>
    /\ \/ /\ file.age > Idle /\ ~Recent
          /\ \/ file.name = "partial" /\ RemoverTo("reaper", "orphanPartial", TRUE)
             \/ /\ file.name = "final" /\ row.status # "complete"
                /\ RemoverTo("reaper", "orphanFinal", TRUE)
       \/ /\ file.age <= Idle \/ Recent \/ file.name # "partial"
          /\ RemoverTo("reaper", "idle", TRUE)
    /\ UNCHANGED <<file, pc, staged, timer, due, put, left, faults>>

OrphanRemove ==
    /\ rm["reaper"].at \in {"orphanPartial", "orphanFinal"}
    /\ file' = [file EXCEPT !.name =
                  IF \/ @ = "partial" /\ rm["reaper"].at = "orphanPartial"
                     \/ @ = "final" /\ rm["reaper"].at = "orphanFinal"
                  THEN "gone" ELSE @]
    /\ RemoverTo("reaper", "idle", TRUE)
    /\ UNCHANGED <<row, claims, put, left, faults>>

-----------------------------------------------------------------------------
(* The api process dies with its requests, the chunk lock and the timers. *)
ApiDies ==
    /\ Fault("api")
    /\ pc' = [c \in Completes |-> "idle"]
    /\ staged' = {} /\ knows' = {} /\ timer' = {} /\ due' = {}
    /\ answer' = [c \in Completes |-> "none"]
    /\ put' = [p \in Chunks |-> [at |-> "idle", start |-> 0]]
    /\ RemoverTo("cancel", "idle", TRUE)
    /\ UNCHANGED <<row, file, left>>

WorkerDies ==
    /\ rm["reaper"].at # "idle"
    /\ Fault("worker")
    /\ RemoverTo("reaper", "idle", TRUE)
    /\ UNCHANGED <<row, file, claims, put, left>>

(* A period passes: every running timer fires once in it, and a pass of the
   reaper, whose cutoff is fixed when it starts, ends in the period it began. *)
Tick ==
    /\ due = {}
    /\ \A c \in Completes : answer[c] = "none"
    /\ rm["reaper"].at = "idle"
    /\ row' = [row EXCEPT !.age = Older(@)]
    /\ file' = [file EXCEPT !.age = Older(@)]
    /\ due' = timer
    /\ <<row, file, due>>' # <<row, file, due>>
    /\ UNCHANGED <<pc, staged, knows, timer, answer, put, rm, left, faults>>

Chunk(p) == \/ ChunkClaim(p) \/ ChunkOpen(p) \/ ChunkWrite(p)
            \/ ChunkWriteFails(p) \/ ChunkAdvance(p) \/ ChunkAdvanceFails(p)
Renew(c) == RenewRuns(c) \/ RenewAnswered(c) \/ RenewFails(c) \/ RenewAnswerLost(c)
Complete(c) == \/ TakeClaim(c) \/ TakeClaimRefused(c) \/ TakeClaimLost(c)
               \/ StatFile(c) \/ MoveFile(c) \/ MoveRefused(c)
               \/ WriteComplete(c) \/ WriteMisses(c) \/ WriteFails(c)
               \/ GiveBack(c) \/ GiveBackMisses(c) \/ GiveBackFails(c)
Removal(r) == Remove(r) \/ RemoveFails(r) \/ Close(r) \/ CloseFails(r)
Reap == ReapPass \/ OrphanRead \/ OrphanRemove

Next ==
    \/ \E p \in Chunks : ChunkLoad(p) \/ Chunk(p)
    \/ \E c \in Completes : CompleteLoad(c) \/ Complete(c) \/ Renew(c)
    \/ Cancel \/ Reap \/ \E r \in Removers : Removal(r)
    \/ ApiDies \/ WorkerDies \/ Tick

Spec == Init /\ [][Next]_vars

(* A request that was sent runs to its end, timers fire, time passes and the
   reaper sweeps every 15 minutes, with time passing between its sweeps; a write
   that waits for a renewal has a period to land in before the next one.
   Whether a client sends anything is its own. *)
Fairness ==
    /\ \A p \in Chunks : WF_vars(Chunk(p))
    /\ \A c \in Completes : SF_vars(Complete(c)) /\ WF_vars(Renew(c))
    /\ \A r \in Removers : WF_vars(Removal(r))
    /\ WF_vars(Reap) /\ SF_vars(Tick)

FairSpec == Spec /\ Fairness

-----------------------------------------------------------------------------
(* Only renewals failed, and fewer of them than the window has periods. *)
Renewed ==
    faults.kinds \subseteq {"renew"} /\ faults.count < Stale

(* While no renewal loses its answer and fewer of them fail than the window
   has periods, the claim is exclusive use of the session: no two completes
   work on it at once. *)
Session == INSTANCE ExclusiveUse
               WITH Users <- Completes,
                    inside <- {c \in Completes : Renewed /\ Working(c)}
ExclusiveSession == Session!Spec

(* A completed session has its whole archive under the final name, whichever
   chunk, late complete, cancel or reaper still runs and whatever failed but
   the reaper's sweep of idle sessions. *)
CompleteIsWhole ==
    row.status = "complete" /\ "sweep" \notin faults.kinds =>
       file.name = "final" /\ file.len = Total

(* "A row turns cancelled only once every file of it is gone": no file of a
   cancelled session is left, although a complete that lost its claim may still
   move the file while it is being removed. *)
CancelledIsGone == row.status \in {"cancelled", "none"} => file.name = "gone"

(* A completed session stays completed: no complete that lost its claim gives
   it back, and neither the cancel nor the reaper takes it. *)
CompleteIsFinal == [][row.status = "complete" => row'.status = "complete"]_vars

(* "a failure gives the session back if still held": a session is completing
   only while a complete works on it. *)
NoAbandonedClaim ==
    row.status = "completing" /\ Renewed => \E c \in Completes : Holding(c)

(* A session whose client went away is completed, or removed with its file, or
   parked for the operator: nothing keeps it or its file for ever. *)
SessionSettles ==
    <>[](\/ row.status \in {"complete", "reap_failed"}
         \/ row.status = "none" /\ file.name = "gone")

(* The session's row says what is so of its file and of the requests at work. *)
RowIsTrue == TypeOK /\ CompleteIsWhole /\ CancelledIsGone /\ NoAbandonedClaim
=============================================================================
