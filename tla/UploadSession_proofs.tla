------------------------- MODULE UploadSession_proofs -------------------------
(* Proofs about UploadSession, for every number of completes, chunks, requests and
   faults, every size of the archive and every window. *)
EXTENDS UploadSession, FiniteSetTheorems, TLAPS

(* TypeOK without its two bounds on the number of holders. *)
Typed ==
    /\ row \in [status : Statuses, got : 0..Total, age : 0..MaxAge]
    /\ file \in [name : {"partial", "final", "gone"}, len : 0..Total, age : 0..MaxAge]
    /\ pc \in [Completes -> {"idle", "loaded", "stat", "move", "write", "fail"}]
    /\ staged \subseteq Completes
    /\ knows \subseteq Completes
    /\ timer \subseteq Completes
    /\ due \subseteq timer
    /\ answer \in [Completes -> {"none", "hit", "late", "miss"}]
    /\ put \in [Chunks -> [at : {"idle", "loaded", "open", "write", "advance"},
                           start : 0..Total]]
    /\ rm \in [Removers -> [at : {"idle", "partial", "final", "close", "orphans",
                                  "orphanPartial", "orphanFinal"},
                            gone : BOOLEAN]]
    /\ left \in 0..Requests
    /\ faults \in [kinds : SUBSET Faults, count : 0..MaxFaults]

(* A chunk writes alone, where the row says the file ends, and none writes once
   the client has sent it all. *)
ChunksAlone ==
    /\ \A p \in Chunks : put[p].at # "idle" => put[p].start < Total
    /\ \A p \in Chunks : Writing(p) => row.got = put[p].start
    /\ \A p, q \in Chunks : Writing(p) /\ Writing(q) => p = q
    /\ \A c \in Completes : pc[c] # "idle" => row.got = Total
    /\ row.status \in {"completing", "complete"} => row.got = Total

(* One complete has the row's stamp, or a renewal's answer that brings it. *)
Carries(c) == c \in knows \/ answer[c] = "hit"
Stamps(c) ==
    /\ c \in timer => Working(c)
    /\ answer[c] # "none" => Holding(c)
    /\ c \in due => answer[c] = "none"
    /\ c \in knows => answer[c] = "none" /\ Holding(c)
    /\ Carries(c) => row.status = "completing" /\ \A d \in Completes : Carries(d) => d = c

(* While only renewals fail, a session that is being completed is somebody's, and
   while few do, nobody is overtaken at work. *)
OnlyRenew == faults.kinds \subseteq {"renew"}
Claimed == row.status = "completing" /\ OnlyRenew => \E c \in Completes : Carries(c)
InTime(c) ==
    Renewed /\ Working(c) =>
       /\ Carries(c) /\ c \in timer
       /\ row.age <= faults.count + (IF c \in due THEN 1 ELSE 0)

(* A session that is being removed stays so, and the removal of its files meets
   the one name they may still have. *)
Removes(r) ==
    /\ rm[r].at \in {"partial", "final", "close"} => row.status \in Over
    /\ rm[r].at = "final" /\ rm[r].gone => file.name # "partial"
    /\ rm[r].at = "close" /\ rm[r].gone => file.name = "gone"

(* As long as the reaper's sweep worked, nothing else is removed. *)
Swept == "sweep" \notin faults.kinds
Orphans ==
    Swept =>
       /\ rm["reaper"].at = "orphans" => ~IdleSession
       /\ rm["reaper"].at \in {"orphanPartial", "orphanFinal"} => row.status \in Over

(* What a complete that goes on knows of the file. *)
FileFound(c) ==
    Swept /\ row.status \notin Over =>
       /\ pc[c] \in {"move", "write"} => file.len = Total
       /\ pc[c] = "move" => (file.name = "final" \/ (c \in staged /\ file.name = "partial"))
       /\ pc[c] = "write" => file.name = "final"

Sound(c) == Stamps(c) /\ InTime(c) /\ FileFound(c)

Inv ==
    /\ Typed /\ ChunksAlone /\ Claimed /\ Orphans
    /\ CompleteIsWhole /\ CancelledIsGone
    /\ \A r \in Removers : Removes(r)
    /\ \A c \in Completes : Sound(c)

-----------------------------------------------------------------------------
(* The types.  A chunk starts before the end of the archive and writes one unit. *)
LEMMA ChunkTypes ==
    ASSUME Typed, ChunksAlone, NEW p \in Chunks, ChunkLoad(p) \/ Chunk(p)
    PROVE  Typed'
  <1> USE SessionAssumption
      DEF Typed, Statuses, Removers, Stamped, Fault, Send, claims, MaxAge, ChunkEnds, ChunkTo,
          ChunksAlone, Writing
  <1>1. CASE ChunkLoad(p)
    BY <1>1 DEF ChunkLoad
  <1>2. CASE ChunkClaim(p)
    BY <1>2 DEF ChunkClaim
  <1>3. CASE ChunkOpen(p)
    <2>1. CASE ChunkTo(p, "write")
      BY <1>3, <2>1 DEF ChunkOpen
    <2>2. CASE ChunkEnds(p)
      BY <1>3, <2>2 DEF ChunkOpen
    <2> QED
      BY <1>3, <2>1, <2>2 DEF ChunkOpen
  <1>4. CASE ChunkWrite(p)
    <2>1. put[p].start \in 0..Total /\ put[p].start + 1 \in 0..Total
      BY <1>4 DEF ChunkWrite
    <2>2. \E n \in 0..Total : file' = [name |-> file.name, len |-> n, age |-> 0]
      BY <1>4, <2>1 DEF ChunkWrite
    <2> QED
      BY <1>4, <2>2 DEF ChunkWrite
  <1>5. CASE ChunkWriteFails(p)
    <2>1. put[p].start \in 0..Total /\ put[p].start + 1 \in 0..Total
      BY <1>5 DEF ChunkWriteFails
    <2>2. \E n \in 0..Total : file' = [name |-> file.name, len |-> n, age |-> 0]
      BY <1>5, <2>1 DEF ChunkWriteFails
    <2> QED
      BY <1>5, <2>2 DEF ChunkWriteFails
  <1>6. CASE ChunkAdvance(p)
    BY <1>6 DEF ChunkAdvance
  <1>7. CASE ChunkAdvanceFails(p)
    BY <1>7 DEF ChunkAdvanceFails
  <1> QED
    BY <1>1, <1>2, <1>3, <1>4, <1>5, <1>6, <1>7 DEF Chunk

(* The steps of a complete keep them, *)
LEMMA CompleteTypes ==
    ASSUME Typed, ChunksAlone, NEW c \in Completes, CompleteLoad(c) \/ Complete(c)
    PROVE  Typed'
  <1> USE SessionAssumption
      DEF Typed, Statuses, Over, Removers, Stamped, Fault, Send, MaxAge, CompleteEnds,
          CompleteFails, ChunksAlone, Writing
  <1>1. CASE CompleteLoad(c)
    BY <1>1 DEF CompleteLoad
  <1>2. CASE TakeClaim(c)
    <2>1. row' = [status |-> "completing", got |-> row.got, age |-> 0]
      BY <1>2 DEF TakeClaim
    <2> QED
      BY <1>2, <2>1 DEF TakeClaim
  <1>3. CASE TakeClaimRefused(c)
    BY <1>3 DEF TakeClaimRefused
  <1>4. CASE TakeClaimLost(c)
    BY <1>4 DEF TakeClaimLost
  <1>5. CASE StatFile(c)
    BY <1>5 DEF StatFile
  <1>6. CASE MoveFile(c)
    BY <1>6 DEF MoveFile
  <1>7. CASE MoveRefused(c)
    BY <1>7 DEF MoveRefused
  <1>8. CASE WriteComplete(c)
    <2>1. row' = [status |-> "complete", got |-> row.got, age |-> 0]
      BY <1>8 DEF WriteComplete
    <2> QED
      BY <1>8, <2>1 DEF WriteComplete
  <1>9. CASE WriteMisses(c)
    BY <1>9 DEF WriteMisses
  <1>10. CASE WriteFails(c)
    <2>1. \/ row' = row
          \/ row' = [status |-> "complete", got |-> row.got, age |-> 0]
      BY <1>10 DEF WriteFails
    <2> QED
      BY <1>10, <2>1 DEF WriteFails
  <1>11. CASE GiveBack(c)
    BY <1>11 DEF GiveBack
  <1>12. CASE GiveBackMisses(c)
    BY <1>12 DEF GiveBackMisses
  <1>13. CASE GiveBackFails(c)
    BY <1>13 DEF GiveBackFails
  <1> QED
    BY <1>1, <1>2, <1>3, <1>4, <1>5, <1>6, <1>7, <1>8, <1>9, <1>10, <1>11, <1>12, <1>13 DEF Complete

(* those of its renewals, *)
LEMMA RenewTypes ==
    ASSUME Typed, ChunksAlone, NEW c \in Completes, Renew(c)
    PROVE  Typed'
  BY SessionAssumption
  DEF Renew, RenewRuns, RenewAnswered, RenewFails, RenewAnswerLost, Typed, Statuses, Removers,
      Fault, MaxAge, ChunksAlone, Writing

(* those of a removal *)
LEMMA RemovalTypes ==
    ASSUME Typed, ChunksAlone, NEW r \in Removers, Removal(r)
    PROVE  Typed'
  <1> USE SessionAssumption
      DEF Typed, Statuses, Removers, Stamped, Fault, claims, MaxAge, RemoverTo, ChunksAlone,
          Writing
  <1>1. CASE Remove(r)
    BY <1>1 DEF Remove
  <1>2. CASE RemoveFails(r)
    BY <1>2 DEF RemoveFails
  <1>3. CASE Close(r)
    BY <1>3 DEF Close
  <1>4. CASE CloseFails(r)
    BY <1>4 DEF CloseFails
  <1> QED
    BY <1>1, <1>2, <1>3, <1>4 DEF Removal

(* and the rest. *)
LEMMA OtherTypes ==
    ASSUME Typed, ChunksAlone, Cancel \/ Reap \/ ApiDies \/ WorkerDies \/ Tick
    PROVE  Typed'
  <1> USE SessionAssumption
      DEF Typed, Statuses, Removers, Stamped, Fault, Send, claims, MaxAge, Older, RemoverTo,
          ChunksAlone, Writing
  <1>1. CASE Cancel
    BY <1>1 DEF Cancel
  <1>2. CASE ReapPass
    <2>1. /\ row' \in [status : Statuses, got : 0..Total, age : 0..MaxAge]
          /\ knows' \subseteq Completes
          /\ answer' \in [Completes -> {"none", "hit", "late", "miss"}]
      BY <1>2 DEF ReapPass
    <2>2. \E at \in {"idle", "partial", "orphans", "orphanPartial", "orphanFinal"} :
             rm' = [rm EXCEPT !["reaper"] = [at |-> at, gone |-> TRUE]]
      BY <1>2 DEF ReapPass
    <2>3. rm' \in [Removers -> [at : {"idle", "partial", "final", "close", "orphans",
                                     "orphanPartial", "orphanFinal"},
                               gone : BOOLEAN]]
      BY <2>2
    <2> QED
      BY <1>2, <2>1, <2>3 DEF ReapPass
  <1>3. CASE OrphanRead
    <2>1. /\ row' \in [status : Statuses, got : 0..Total, age : 0..MaxAge]
          /\ knows' \subseteq Completes
          /\ answer' \in [Completes -> {"none", "hit", "late", "miss"}]
      BY <1>3 DEF OrphanRead
    <2>2. \E at \in {"idle", "partial", "orphans", "orphanPartial", "orphanFinal"} :
             rm' = [rm EXCEPT !["reaper"] = [at |-> at, gone |-> TRUE]]
      BY <1>3 DEF OrphanRead
    <2>3. rm' \in [Removers -> [at : {"idle", "partial", "final", "close", "orphans",
                                     "orphanPartial", "orphanFinal"},
                               gone : BOOLEAN]]
      BY <2>2
    <2> QED
      BY <1>3, <2>1, <2>3 DEF OrphanRead
  <1>4. CASE OrphanRemove
    BY <1>4 DEF OrphanRemove
  <1>5. CASE ApiDies
    BY <1>5 DEF ApiDies
  <1>6. CASE WorkerDies
    BY <1>6 DEF WorkerDies
  <1>7. CASE Tick
    BY <1>7 DEF Tick
  <1> QED
    BY <1>1, <1>2, <1>3, <1>4, <1>5, <1>6, <1>7 DEF Reap

-----------------------------------------------------------------------------
(* Chunks write one at a time, where the row says the file ends: the lock lets one in
   and the claim compares the offset. *)
LEMMA ChunkAlone ==
    ASSUME Typed, ChunksAlone, NEW p \in Chunks, ChunkLoad(p) \/ Chunk(p)
    PROVE  ChunksAlone'
  <1> USE SessionAssumption
      DEF Typed, ChunksAlone, Writing, Stamped, Send, claims, ChunkEnds, ChunkTo, Statuses,
          MaxAge
  <1>1. CASE ChunkLoad(p)
    BY <1>1 DEF ChunkLoad
  <1>2. CASE ChunkClaim(p)
    <2>1. row'.got = row.got /\ row'.status = row.status
      BY <1>2 DEF ChunkClaim
    <2>2. ASSUME NEW q \in Chunks, put'[q].at # "idle"
          PROVE  put'[q].start < Total /\ put[q].at # "idle" /\ put'[q].start = put[q].start
      BY <1>2, <2>2 DEF ChunkClaim
    <2>3. ASSUME NEW q \in Chunks, Writing(q)', q # p
          PROVE  Writing(q) /\ ~Writing(p)'
      BY <1>2, <2>3 DEF ChunkClaim
    <2>4. Writing(p)' => row.got = put[p].start
      BY <1>2 DEF ChunkClaim
    <2> QED
      BY <1>2, <2>1, <2>2, <2>3, <2>4 DEF ChunkClaim
  <1>3. CASE ChunkOpen(p)
    <2>1. CASE ChunkTo(p, "write")
      BY <1>3, <2>1 DEF ChunkOpen
    <2>2. CASE ChunkEnds(p)
      BY <1>3, <2>2 DEF ChunkOpen
    <2> QED
      BY <1>3, <2>1, <2>2 DEF ChunkOpen
  <1>4. CASE ChunkWrite(p)
    BY <1>4 DEF ChunkWrite
  <1>5. CASE ChunkWriteFails(p)
    BY <1>5 DEF ChunkWriteFails
  <1>6. CASE ChunkAdvance(p)
    BY <1>6 DEF ChunkAdvance
  <1>7. CASE ChunkAdvanceFails(p)
    BY <1>7 DEF ChunkAdvanceFails
  <1> QED
    BY <1>1, <1>2, <1>3, <1>4, <1>5, <1>6, <1>7 DEF Chunk

(* A complete is read off a row that has it all, so no chunk writes beside it. *)
LEMMA CompleteAlone ==
    ASSUME Typed, ChunksAlone, NEW c \in Completes, CompleteLoad(c) \/ Complete(c)
    PROVE  ChunksAlone'
  <1> USE SessionAssumption
      DEF Typed, ChunksAlone, Writing, Stamped, Send, CompleteEnds, CompleteFails, Held,
          Statuses, Over, Claimable, MaxAge
  <1>1. CASE CompleteLoad(c)
    BY <1>1 DEF CompleteLoad
  <1>2. CASE TakeClaim(c)
    BY <1>2 DEF TakeClaim
  <1>3. CASE TakeClaimRefused(c)
    BY <1>3 DEF TakeClaimRefused
  <1>4. CASE TakeClaimLost(c)
    BY <1>4 DEF TakeClaimLost
  <1>5. CASE StatFile(c)
    BY <1>5 DEF StatFile
  <1>6. CASE MoveFile(c)
    BY <1>6 DEF MoveFile
  <1>7. CASE MoveRefused(c)
    BY <1>7 DEF MoveRefused
  <1>8. CASE WriteComplete(c)
    BY <1>8 DEF WriteComplete
  <1>9. CASE WriteMisses(c)
    BY <1>9 DEF WriteMisses
  <1>10. CASE WriteFails(c)
    BY <1>10 DEF WriteFails
  <1>11. CASE GiveBack(c)
    BY <1>11 DEF GiveBack
  <1>12. CASE GiveBackMisses(c)
    BY <1>12 DEF GiveBackMisses
  <1>13. CASE GiveBackFails(c)
    BY <1>13 DEF GiveBackFails
  <1> QED
    BY <1>1, <1>2, <1>3, <1>4, <1>5, <1>6, <1>7, <1>8, <1>9, <1>10, <1>11, <1>12, <1>13 DEF Complete

(* A renewal writes no offset, *)
LEMMA RenewAlone ==
    ASSUME Typed, ChunksAlone, NEW c \in Completes, Renew(c)
    PROVE  ChunksAlone'
  BY SessionAssumption
  DEF Renew, RenewRuns, RenewAnswered, RenewFails, RenewAnswerLost, Typed, ChunksAlone, Writing,
      Statuses, MaxAge

(* a removal neither, *)
LEMMA RemovalAlone ==
    ASSUME Typed, ChunksAlone, NEW r \in Removers, Removal(r)
    PROVE  ChunksAlone'
  <1> USE SessionAssumption
      DEF Typed, ChunksAlone, Writing, Stamped, claims, Statuses, MaxAge
  <1>1. CASE Remove(r)
    BY <1>1 DEF Remove
  <1>2. CASE RemoveFails(r)
    BY <1>2 DEF RemoveFails
  <1>3. CASE Close(r)
    BY <1>3 DEF Close
  <1>4. CASE CloseFails(r)
    BY <1>4 DEF CloseFails
  <1> QED
    BY <1>1, <1>2, <1>3, <1>4 DEF Removal

(* nor does the rest. *)
LEMMA OtherAlone ==
    ASSUME Typed, ChunksAlone, Cancel \/ Reap \/ ApiDies \/ WorkerDies \/ Tick
    PROVE  ChunksAlone'
  <1> USE SessionAssumption
      DEF Typed, ChunksAlone, Writing, Stamped, Send, claims, Statuses, MaxAge
  <1>1. CASE Cancel
    BY <1>1 DEF Cancel
  <1>2. CASE ReapPass
    <2>1. CASE IdleSession /\ Stamped("reaping", row.got)
      BY <1>2, <2>1 DEF ReapPass
    <2>2. CASE UNCHANGED <<row, knows, answer>>
      BY <1>2, <2>2 DEF ReapPass
    <2> QED
      BY <1>2, <2>1, <2>2 DEF ReapPass
  <1>3. CASE OrphanRead
    BY <1>3 DEF OrphanRead
  <1>4. CASE OrphanRemove
    BY <1>4 DEF OrphanRemove
  <1>5. CASE ApiDies
    BY <1>5 DEF ApiDies
  <1>6. CASE WorkerDies
    BY <1>6 DEF WorkerDies
  <1>7. CASE Tick
    BY <1>7 DEF Tick
  <1> QED
    BY <1>1, <1>2, <1>3, <1>4, <1>5, <1>6, <1>7 DEF Reap

-----------------------------------------------------------------------------
(* The stamps.  Whoever writes the row leaves nobody with its stamp, *)
LEMMA ChunkStamps ==
    ASSUME Typed, \A e \in Completes : Stamps(e), NEW d \in Completes,
           NEW p \in Chunks, ChunkLoad(p) \/ Chunk(p)
    PROVE  Stamps(d)'
  BY SessionAssumption
  DEF Chunk, ChunkLoad, ChunkClaim, ChunkOpen, ChunkWrite, ChunkWriteFails, ChunkAdvance,
      ChunkAdvanceFails, Typed, Stamps, Carries, Holding, Working, Stamped, claims

(* a complete that claims it is the only one that has it, *)
LEMMA CompleteStamps ==
    ASSUME Typed, \A e \in Completes : Stamps(e), NEW d \in Completes,
           NEW c \in Completes, CompleteLoad(c) \/ Complete(c)
    PROVE  Stamps(d)'
  <1> USE SessionAssumption
      DEF Typed, Stamps, Carries, Holding, Working, Stamped, CompleteEnds, CompleteFails, Held,
          Claimable
  <1>1. CASE CompleteLoad(c)
    BY <1>1 DEF CompleteLoad
  <1>2. CASE TakeClaim(c)
    BY <1>2 DEF TakeClaim
  <1>3. CASE TakeClaimRefused(c)
    BY <1>3 DEF TakeClaimRefused
  <1>4. CASE TakeClaimLost(c)
    BY <1>4 DEF TakeClaimLost
  <1>5. CASE StatFile(c)
    BY <1>5 DEF StatFile
  <1>6. CASE MoveFile(c)
    BY <1>6 DEF MoveFile
  <1>7. CASE MoveRefused(c)
    BY <1>7 DEF MoveRefused
  <1>8. CASE WriteComplete(c)
    BY <1>8 DEF WriteComplete
  <1>9. CASE WriteMisses(c)
    BY <1>9 DEF WriteMisses
  <1>10. CASE WriteFails(c)
    BY <1>10 DEF WriteFails
  <1>11. CASE GiveBack(c)
    BY <1>11 DEF GiveBack
  <1>12. CASE GiveBackMisses(c)
    BY <1>12 DEF GiveBackMisses
  <1>13. CASE GiveBackFails(c)
    BY <1>13 DEF GiveBackFails
  <1> QED
    BY <1>1, <1>2, <1>3, <1>4, <1>5, <1>6, <1>7, <1>8, <1>9, <1>10, <1>11, <1>12, <1>13 DEF Complete

(* a renewal hands the stamp to the answer and the answer to its complete, *)
LEMMA RenewStamps ==
    ASSUME Typed, \A e \in Completes : Stamps(e), NEW d \in Completes,
           NEW c \in Completes, Renew(c)
    PROVE  Stamps(d)'
  BY SessionAssumption
  DEF Renew, RenewRuns, RenewAnswered, RenewFails, RenewAnswerLost, Typed, Stamps, Carries,
      Holding, Working

(* a removal leaves the claims alone *)
LEMMA RemovalStamps ==
    ASSUME Typed, \A e \in Completes : Stamps(e), NEW d \in Completes,
           NEW r \in Removers, Removal(r)
    PROVE  Stamps(d)'
  <1> USE SessionAssumption
      DEF Typed, Stamps, Carries, Holding, Working, Stamped, claims
  <1>1. CASE Remove(r)
    BY <1>1 DEF Remove
  <1>2. CASE RemoveFails(r)
    BY <1>2 DEF RemoveFails
  <1>3. CASE Close(r)
    BY <1>3 DEF Close
  <1>4. CASE CloseFails(r)
    BY <1>4 DEF CloseFails
  <1> QED
    BY <1>1, <1>2, <1>3, <1>4 DEF Removal

(* and a cancel or a sweep meets nobody with a stamp, or takes it. *)
LEMMA OtherStamps ==
    ASSUME Typed, \A e \in Completes : Stamps(e), NEW d \in Completes,
           Cancel \/ Reap \/ ApiDies \/ WorkerDies \/ Tick
    PROVE  Stamps(d)'
  <1> USE SessionAssumption
      DEF Typed, Stamps, Carries, Holding, Working, Stamped, claims
  <1>1. CASE Cancel
    BY <1>1 DEF Cancel
  <1>2. CASE ReapPass
    <2>1. CASE IdleSession /\ Stamped("reaping", row.got)
      BY <1>2, <2>1 DEF ReapPass
    <2>2. CASE UNCHANGED <<row, knows, answer>>
      BY <1>2, <2>2 DEF ReapPass
    <2> QED
      BY <1>2, <2>1, <2>2 DEF ReapPass
  <1>3. CASE OrphanRead
    BY <1>3 DEF OrphanRead
  <1>4. CASE OrphanRemove
    BY <1>4 DEF OrphanRemove
  <1>5. CASE ApiDies
    BY <1>5 DEF ApiDies
  <1>6. CASE WorkerDies
    BY <1>6 DEF WorkerDies
  <1>7. CASE Tick
    BY <1>7 DEF Tick
  <1> QED
    BY <1>1, <1>2, <1>3, <1>4, <1>5, <1>6, <1>7 DEF Reap

-----------------------------------------------------------------------------
(* Nobody is overtaken at work while few renewals fail.  A chunk leaves a session that is
   being completed alone, *)
LEMMA ChunkInTime ==
    ASSUME Typed, \A e \in Completes : Stamps(e) /\ InTime(e), NEW d \in Completes,
           NEW p \in Chunks, ChunkLoad(p) \/ Chunk(p)
    PROVE  InTime(d)'
  BY SessionAssumption
  DEF Chunk, ChunkLoad, ChunkClaim, ChunkOpen, ChunkWrite, ChunkWriteFails, ChunkAdvance,
      ChunkAdvanceFails, Typed, Stamps, InTime, Renewed, Fault, MaxAge, Carries, Holding,
      Working, Stamped, claims

(* a second complete finds the claim fresh, *)
LEMMA CompleteInTime ==
    ASSUME Typed, \A e \in Completes : Stamps(e) /\ InTime(e), NEW d \in Completes,
           NEW c \in Completes, CompleteLoad(c) \/ Complete(c)
    PROVE  InTime(d)'
  <1> USE SessionAssumption
      DEF Typed, Stamps, InTime, Renewed, Fault, MaxAge, Carries, Holding, Working, Stamped,
          CompleteEnds, CompleteFails, Held, Claimable
  <1>1. CASE CompleteLoad(c)
    BY <1>1 DEF CompleteLoad
  <1>2. CASE TakeClaim(c)
    BY <1>2 DEF TakeClaim
  <1>3. CASE TakeClaimRefused(c)
    BY <1>3 DEF TakeClaimRefused
  <1>4. CASE TakeClaimLost(c)
    BY <1>4 DEF TakeClaimLost
  <1>5. CASE StatFile(c)
    BY <1>5 DEF StatFile
  <1>6. CASE MoveFile(c)
    BY <1>6 DEF MoveFile
  <1>7. CASE MoveRefused(c)
    BY <1>7 DEF MoveRefused
  <1>8. CASE WriteComplete(c)
    BY <1>8 DEF WriteComplete
  <1>9. CASE WriteMisses(c)
    BY <1>9 DEF WriteMisses
  <1>10. CASE WriteFails(c)
    BY <1>10 DEF WriteFails
  <1>11. CASE GiveBack(c)
    BY <1>11 DEF GiveBack
  <1>12. CASE GiveBackMisses(c)
    BY <1>12 DEF GiveBackMisses
  <1>13. CASE GiveBackFails(c)
    BY <1>13 DEF GiveBackFails
  <1> QED
    BY <1>1, <1>2, <1>3, <1>4, <1>5, <1>6, <1>7, <1>8, <1>9, <1>10, <1>11, <1>12, <1>13 DEF Complete

(* a renewal that runs starts the window again and one that fails is counted, *)
LEMMA RenewInTime ==
    ASSUME Typed, \A e \in Completes : Stamps(e) /\ InTime(e), NEW d \in Completes,
           NEW c \in Completes, Renew(c)
    PROVE  InTime(d)'
  <1> USE SessionAssumption
      DEF Typed, Stamps, InTime, Renewed, Fault, MaxAge, Carries, Holding, Working
  <1>1. CASE RenewRuns(c)
    BY <1>1 DEF RenewRuns
  <1>2. CASE RenewAnswered(c)
    BY <1>2 DEF RenewAnswered
  <1>3. CASE RenewFails(c)
    BY <1>3 DEF RenewFails
  <1>4. CASE RenewAnswerLost(c)
    BY <1>4 DEF RenewAnswerLost
  <1> QED
    BY <1>1, <1>2, <1>3, <1>4 DEF Renew

(* a removal is of a session that nobody completes, *)
LEMMA RemovalInTime ==
    ASSUME Typed, \A e \in Completes : Stamps(e) /\ InTime(e), NEW d \in Completes,
           NEW r \in Removers, Removal(r)
    PROVE  InTime(d)'
  <1> USE SessionAssumption
      DEF Typed, Stamps, InTime, Renewed, Fault, MaxAge, Carries, Holding, Working, Stamped,
          claims
  <1>1. CASE Remove(r)
    BY <1>1 DEF Remove
  <1>2. CASE RemoveFails(r)
    BY <1>2 DEF RemoveFails
  <1>3. CASE Close(r)
    BY <1>3 DEF Close
  <1>4. CASE CloseFails(r)
    BY <1>4 DEF CloseFails
  <1> QED
    BY <1>1, <1>2, <1>3, <1>4 DEF Removal

(* the sweep spares what is fresher than Idle, and no period ends before the renewals of
   it have run or failed. *)
LEMMA OtherInTime ==
    ASSUME Typed, \A e \in Completes : Stamps(e) /\ InTime(e), NEW d \in Completes,
           Cancel \/ Reap \/ ApiDies \/ WorkerDies \/ Tick
    PROVE  InTime(d)'
  <1> USE SessionAssumption
      DEF Typed, Stamps, InTime, OnlyRenew, Renewed, Fault, Older, MaxAge, Carries, Holding,
          Working, Stamped, claims, IdleSession
  <1>1. CASE Cancel
    BY <1>1 DEF Cancel
  <1>2. CASE ReapPass
    <2>1. CASE IdleSession /\ Stamped("reaping", row.got) /\ UNCHANGED faults
      BY <1>2, <2>1 DEF ReapPass
    <2>2. CASE Fault("sweep") /\ UNCHANGED <<row, knows, answer>>
      <3>1. ~OnlyRenew'
        BY <2>2
      <3> QED
        BY <3>1
    <2>3. CASE UNCHANGED <<row, knows, answer, faults>>
      BY <1>2, <2>3 DEF ReapPass
    <2> QED
      BY <1>2, <2>1, <2>2, <2>3 DEF ReapPass
  <1>3. CASE OrphanRead
    BY <1>3 DEF OrphanRead
  <1>4. CASE OrphanRemove
    BY <1>4 DEF OrphanRemove
  <1>5. CASE ApiDies
    BY <1>5 DEF ApiDies
  <1>6. CASE WorkerDies
    BY <1>6 DEF WorkerDies
  <1>7. CASE Tick
    BY <1>7 DEF Tick
  <1> QED
    BY <1>1, <1>2, <1>3, <1>4, <1>5, <1>6, <1>7 DEF Reap

-----------------------------------------------------------------------------
(* A session that is being completed is somebody's unless an answer or a give-back was
   lost.  No chunk makes it so, *)
LEMMA ChunkClaimed ==
    ASSUME Typed, Claimed, \A e \in Completes : Stamps(e),
           NEW p \in Chunks, ChunkLoad(p) \/ Chunk(p)
    PROVE  Claimed'
  BY SessionAssumption
  DEF Chunk, ChunkLoad, ChunkClaim, ChunkOpen, ChunkWrite, ChunkWriteFails, ChunkAdvance,
      ChunkAdvanceFails, Typed, Stamps, Claimed, OnlyRenew, Fault, MaxAge, Carries, Holding,
      Working, Stamped, claims

(* a complete that ends without having given it back has failed to reach the database, *)
LEMMA CompleteClaimed ==
    ASSUME Typed, Claimed, \A e \in Completes : Stamps(e),
           NEW c \in Completes, CompleteLoad(c) \/ Complete(c)
    PROVE  Claimed'
  <1> USE SessionAssumption
      DEF Typed, Stamps, Claimed, OnlyRenew, Fault, MaxAge, Carries, Holding, Working, Stamped,
          CompleteEnds, CompleteFails, Held, Claimable
  <1>1. CASE CompleteLoad(c)
    BY <1>1 DEF CompleteLoad
  <1>2. CASE TakeClaim(c)
    BY <1>2 DEF TakeClaim
  <1>3. CASE TakeClaimRefused(c)
    BY <1>3 DEF TakeClaimRefused
  <1>4. CASE TakeClaimLost(c)
    BY <1>4 DEF TakeClaimLost
  <1>5. CASE StatFile(c)
    BY <1>5 DEF StatFile
  <1>6. CASE MoveFile(c)
    BY <1>6 DEF MoveFile
  <1>7. CASE MoveRefused(c)
    BY <1>7 DEF MoveRefused
  <1>8. CASE WriteComplete(c)
    BY <1>8 DEF WriteComplete
  <1>9. CASE WriteMisses(c)
    BY <1>9 DEF WriteMisses
  <1>10. CASE WriteFails(c)
    <2>1. Fault("db") \/ Fault("lost")
      BY <1>10 DEF WriteFails
    <2>2. CASE Fault("db")
      BY <2>2
    <2>3. CASE Fault("lost")
      BY <2>3
    <2> QED
      BY <2>1, <2>2, <2>3
  <1>11. CASE GiveBack(c)
    BY <1>11 DEF GiveBack
  <1>12. CASE GiveBackMisses(c)
    BY <1>12 DEF GiveBackMisses
  <1>13. CASE GiveBackFails(c)
    BY <1>13 DEF GiveBackFails
  <1> QED
    BY <1>1, <1>2, <1>3, <1>4, <1>5, <1>6, <1>7, <1>8, <1>9, <1>10, <1>11, <1>12, <1>13 DEF Complete

(* a renewal only moves the stamp, *)
LEMMA RenewClaimed ==
    ASSUME Typed, Claimed, \A e \in Completes : Stamps(e), NEW c \in Completes, Renew(c)
    PROVE  Claimed'
  <1> USE SessionAssumption
      DEF Typed, Stamps, Claimed, OnlyRenew, Fault, MaxAge, Carries, Holding, Working
  <1>1. CASE RenewRuns(c)
    BY <1>1 DEF RenewRuns
  <1>2. CASE RenewAnswered(c)
    BY <1>2 DEF RenewAnswered
  <1>3. CASE RenewFails(c)
    BY <1>3 DEF RenewFails
  <1>4. CASE RenewAnswerLost(c)
    BY <1>4 DEF RenewAnswerLost
  <1> QED
    BY <1>1, <1>2, <1>3, <1>4 DEF Renew

(* a removal does not make it so *)
LEMMA RemovalClaimed ==
    ASSUME Typed, Claimed, \A e \in Completes : Stamps(e), NEW r \in Removers, Removal(r)
    PROVE  Claimed'
  <1> USE SessionAssumption
      DEF Typed, Stamps, Claimed, OnlyRenew, Fault, MaxAge, Carries, Holding, Working, Stamped,
          claims
  <1>1. CASE Remove(r)
    BY <1>1 DEF Remove
  <1>2. CASE RemoveFails(r)
    BY <1>2 DEF RemoveFails
  <1>3. CASE Close(r)
    BY <1>3 DEF Close
  <1>4. CASE CloseFails(r)
    BY <1>4 DEF CloseFails
  <1> QED
    BY <1>1, <1>2, <1>3, <1>4 DEF Removal

(* and neither does the rest. *)
LEMMA OtherClaimed ==
    ASSUME Typed, Claimed, \A e \in Completes : Stamps(e),
           Cancel \/ Reap \/ ApiDies \/ WorkerDies \/ Tick
    PROVE  Claimed'
  <1> USE SessionAssumption
      DEF Typed, Stamps, Claimed, OnlyRenew, Fault, Older, MaxAge, Carries, Holding, Working,
          Stamped, claims, IdleSession
  <1>1. CASE Cancel
    BY <1>1 DEF Cancel
  <1>2. CASE ReapPass
    <2>1. CASE IdleSession /\ Stamped("reaping", row.got) /\ UNCHANGED faults
      BY <1>2, <2>1 DEF ReapPass
    <2>2. CASE Fault("sweep") /\ UNCHANGED <<row, knows, answer>>
      <3>1. ~OnlyRenew'
        BY <2>2
      <3> QED
        BY <3>1
    <2>3. CASE UNCHANGED <<row, knows, answer, faults>>
      BY <1>2, <2>3 DEF ReapPass
    <2> QED
      BY <1>2, <2>1, <2>2, <2>3 DEF ReapPass
  <1>3. CASE OrphanRead
    BY <1>3 DEF OrphanRead
  <1>4. CASE OrphanRemove
    BY <1>4 DEF OrphanRemove
  <1>5. CASE ApiDies
    BY <1>5 DEF ApiDies
  <1>6. CASE WorkerDies
    BY <1>6 DEF WorkerDies
  <1>7. CASE Tick
    BY <1>7 DEF Tick
  <1> QED
    BY <1>1, <1>2, <1>3, <1>4, <1>5, <1>6, <1>7 DEF Reap

-----------------------------------------------------------------------------
(* What a complete has seen of the file stays so.  No chunk writes beside it, *)
LEMMA ChunkFileFound ==
    ASSUME Typed, ChunksAlone, Orphans, \A s \in Removers : Removes(s), NEW d \in Completes,
           FileFound(d), NEW p \in Chunks, ChunkLoad(p) \/ Chunk(p)
    PROVE  FileFound(d)'
  BY SessionAssumption
  DEF Chunk, ChunkLoad, ChunkClaim, ChunkOpen, ChunkWrite, ChunkWriteFails, ChunkAdvance,
      ChunkAdvanceFails, Typed, Statuses, Swept, FileFound, ChunksAlone, Writing, Removers,
      Removes, Orphans, Over, Fault, ChunkEnds, ChunkTo, Stamped, claims, MaxAge

(* another complete only gives the file its final name, *)
LEMMA CompleteFileFound ==
    ASSUME Typed, ChunksAlone, Orphans, \A s \in Removers : Removes(s), NEW d \in Completes,
           FileFound(d), NEW c \in Completes, CompleteLoad(c) \/ Complete(c)
    PROVE  FileFound(d)'
  BY SessionAssumption
  DEF Complete, CompleteLoad, TakeClaim, TakeClaimRefused, TakeClaimLost, StatFile, MoveFile,
      MoveRefused, WriteComplete, WriteMisses, WriteFails, GiveBack, GiveBackMisses,
      GiveBackFails, Typed, Statuses, Swept, FileFound, ChunksAlone, Writing, Removers, Removes,
      Orphans, Over, Fault, Held, Claimable, CompleteEnds, CompleteFails, Stamped, MaxAge

(* a renewal does not touch it, *)
LEMMA RenewFileFound ==
    ASSUME Typed, ChunksAlone, Orphans, \A s \in Removers : Removes(s), NEW d \in Completes,
           FileFound(d), NEW c \in Completes, Renew(c)
    PROVE  FileFound(d)'
  BY SessionAssumption
  DEF Renew, RenewRuns, RenewAnswered, RenewFails, RenewAnswerLost, Typed, Statuses, Swept,
      FileFound, ChunksAlone, Writing, Removers, Removes, Orphans, Over, Fault, MaxAge

(* a removal is of a session that is over *)
LEMMA RemovalFileFound ==
    ASSUME Typed, ChunksAlone, Orphans, \A s \in Removers : Removes(s), NEW d \in Completes,
           FileFound(d), NEW r \in Removers, Removal(r)
    PROVE  FileFound(d)'
  BY SessionAssumption
  DEF Removal, Remove, RemoveFails, Close, CloseFails, Typed, Statuses, Swept, FileFound,
      ChunksAlone, Writing, Removers, Removes, Orphans, Over, Fault, RemoverTo, Stamped, claims,
      MaxAge

(* and so is what the reaper takes for an orphan. *)
LEMMA OtherFileFound ==
    ASSUME Typed, ChunksAlone, Orphans, \A s \in Removers : Removes(s), NEW d \in Completes,
           FileFound(d), Cancel \/ Reap \/ ApiDies \/ WorkerDies \/ Tick
    PROVE  FileFound(d)'
  BY SessionAssumption
  DEF Reap, Cancel, ReapPass, OrphanRead, OrphanRemove, ApiDies, WorkerDies, Tick, Typed,
      Statuses, Swept, FileFound, ChunksAlone, Writing, Removers, Removes, Orphans, Over, Fault,
      RemoverTo, Stamped, claims, MaxAge

-----------------------------------------------------------------------------
(* A removal takes the partial name first, and nothing has that name again.  A chunk
   names no file, *)
LEMMA ChunkRemoves ==
    ASSUME Typed, CancelledIsGone, \A s \in Removers : Removes(s),
           NEW p \in Chunks, ChunkLoad(p) \/ Chunk(p)
    PROVE  CancelledIsGone' /\ \A s \in Removers : Removes(s)'
  <1> USE SessionAssumption
      DEF Typed, Statuses, Writing, Removers, Removes, Over, Fault, ChunkEnds, ChunkTo, Stamped,
          claims, MaxAge, CancelledIsGone
  <1>1. CASE ChunkLoad(p)
    BY <1>1 DEF ChunkLoad
  <1>2. CASE ChunkClaim(p)
    BY <1>2 DEF ChunkClaim
  <1>3. CASE ChunkOpen(p)
    BY <1>3 DEF ChunkOpen
  <1>4. CASE ChunkWrite(p)
    BY <1>4 DEF ChunkWrite
  <1>5. CASE ChunkWriteFails(p)
    BY <1>5 DEF ChunkWriteFails
  <1>6. CASE ChunkAdvance(p)
    BY <1>6 DEF ChunkAdvance
  <1>7. CASE ChunkAdvanceFails(p)
    BY <1>7 DEF ChunkAdvanceFails
  <1> QED
    BY <1>1, <1>2, <1>3, <1>4, <1>5, <1>6, <1>7 DEF Chunk

(* a complete moves the file from the partial to the final name, which is looked at last, *)
LEMMA CompleteRemoves ==
    ASSUME Typed, CancelledIsGone, \A s \in Removers : Removes(s),
           NEW c \in Completes, CompleteLoad(c) \/ Complete(c)
    PROVE  CancelledIsGone' /\ \A s \in Removers : Removes(s)'
  <1> USE SessionAssumption
      DEF Typed, Statuses, Removers, Removes, Over, Fault, Held, Claimable, CompleteEnds,
          CompleteFails, Stamped, MaxAge, CancelledIsGone
  <1>1. CASE CompleteLoad(c)
    BY <1>1 DEF CompleteLoad
  <1>2. CASE TakeClaim(c)
    BY <1>2 DEF TakeClaim
  <1>3. CASE TakeClaimRefused(c)
    BY <1>3 DEF TakeClaimRefused
  <1>4. CASE TakeClaimLost(c)
    BY <1>4 DEF TakeClaimLost
  <1>5. CASE StatFile(c)
    BY <1>5 DEF StatFile
  <1>6. CASE MoveFile(c)
    BY <1>6 DEF MoveFile
  <1>7. CASE MoveRefused(c)
    BY <1>7 DEF MoveRefused
  <1>8. CASE WriteComplete(c)
    BY <1>8 DEF WriteComplete
  <1>9. CASE WriteMisses(c)
    BY <1>9 DEF WriteMisses
  <1>10. CASE WriteFails(c)
    BY <1>10 DEF WriteFails
  <1>11. CASE GiveBack(c)
    BY <1>11 DEF GiveBack
  <1>12. CASE GiveBackMisses(c)
    BY <1>12 DEF GiveBackMisses
  <1>13. CASE GiveBackFails(c)
    BY <1>13 DEF GiveBackFails
  <1> QED
    BY <1>1, <1>2, <1>3, <1>4, <1>5, <1>6, <1>7, <1>8, <1>9, <1>10, <1>11, <1>12, <1>13 DEF Complete

(* a renewal names no file, *)
LEMMA RenewRemoves ==
    ASSUME Typed, CancelledIsGone, \A s \in Removers : Removes(s),
           NEW c \in Completes, Renew(c)
    PROVE  CancelledIsGone' /\ \A s \in Removers : Removes(s)'
  BY SessionAssumption
  DEF Renew, RenewRuns, RenewAnswered, RenewFails, RenewAnswerLost, Typed, Statuses, Removers,
      Removes, Over, Fault, MaxAge, CancelledIsGone

(* the removal closes the row when both names are gone *)
LEMMA RemovalRemoves ==
    ASSUME Typed, CancelledIsGone, \A s \in Removers : Removes(s),
           NEW r \in Removers, Removal(r)
    PROVE  CancelledIsGone' /\ \A s \in Removers : Removes(s)'
  BY SessionAssumption
  DEF Removal, Remove, RemoveFails, Close, CloseFails, Typed, Statuses, Removers, Removes, Over,
      Fault, RemoverTo, Stamped, claims, MaxAge, CancelledIsGone

(* and nothing else names a file. *)
LEMMA OtherRemoves ==
    ASSUME Typed, CancelledIsGone, \A s \in Removers : Removes(s),
           Cancel \/ Reap \/ ApiDies \/ WorkerDies \/ Tick
    PROVE  CancelledIsGone' /\ \A s \in Removers : Removes(s)'
  BY SessionAssumption
  DEF Reap, Cancel, ReapPass, OrphanRead, OrphanRemove, ApiDies, WorkerDies, Tick, Typed,
      Statuses, Removers, Removes, Over, Fault, RemoverTo, Stamped, claims, MaxAge,
      CancelledIsGone

-----------------------------------------------------------------------------
(* A completed session keeps its archive.  No chunk writes to it, *)
LEMMA ChunkWhole ==
    ASSUME Typed, ChunksAlone, Orphans, CompleteIsWhole, \A s \in Removers : Removes(s),
           \A e \in Completes : FileFound(e), NEW p \in Chunks, ChunkLoad(p) \/ Chunk(p)
    PROVE  CompleteIsWhole'
  BY SessionAssumption
  DEF Chunk, ChunkLoad, ChunkClaim, ChunkOpen, ChunkWrite, ChunkWriteFails, ChunkAdvance,
      ChunkAdvanceFails, Typed, Statuses, Swept, FileFound, ChunksAlone, Writing, Removers,
      Removes, Orphans, CompleteIsWhole, Over, Fault, ChunkEnds, ChunkTo, Stamped, claims,
      MaxAge

(* the complete that writes the row has found the file whole and moved it, *)
LEMMA CompleteWhole ==
    ASSUME Typed, ChunksAlone, Orphans, CompleteIsWhole, \A s \in Removers : Removes(s),
           \A e \in Completes : FileFound(e),
           NEW c \in Completes, CompleteLoad(c) \/ Complete(c)
    PROVE  CompleteIsWhole'
  <1> USE SessionAssumption
      DEF Typed, Statuses, Swept, FileFound, ChunksAlone, Writing, Removers, Removes, Orphans,
          CompleteIsWhole, Over, Fault, Held, Claimable, CompleteEnds, CompleteFails, Stamped,
          MaxAge
  <1>1. CASE CompleteLoad(c)
    BY <1>1 DEF CompleteLoad
  <1>2. CASE TakeClaim(c)
    BY <1>2 DEF TakeClaim
  <1>3. CASE TakeClaimRefused(c)
    BY <1>3 DEF TakeClaimRefused
  <1>4. CASE TakeClaimLost(c)
    BY <1>4 DEF TakeClaimLost
  <1>5. CASE StatFile(c)
    BY <1>5 DEF StatFile
  <1>6. CASE MoveFile(c)
    BY <1>6 DEF MoveFile
  <1>7. CASE MoveRefused(c)
    BY <1>7 DEF MoveRefused
  <1>8. CASE WriteComplete(c)
    BY <1>8 DEF WriteComplete
  <1>9. CASE WriteMisses(c)
    BY <1>9 DEF WriteMisses
  <1>10. CASE WriteFails(c)
    BY <1>10 DEF WriteFails
  <1>11. CASE GiveBack(c)
    BY <1>11 DEF GiveBack
  <1>12. CASE GiveBackMisses(c)
    BY <1>12 DEF GiveBackMisses
  <1>13. CASE GiveBackFails(c)
    BY <1>13 DEF GiveBackFails
  <1> QED
    BY <1>1, <1>2, <1>3, <1>4, <1>5, <1>6, <1>7, <1>8, <1>9, <1>10, <1>11, <1>12, <1>13 DEF Complete

(* a renewal does not touch it, *)
LEMMA RenewWhole ==
    ASSUME Typed, ChunksAlone, Orphans, CompleteIsWhole, \A s \in Removers : Removes(s),
           \A e \in Completes : FileFound(e), NEW c \in Completes, Renew(c)
    PROVE  CompleteIsWhole'
  BY SessionAssumption
  DEF Renew, RenewRuns, RenewAnswered, RenewFails, RenewAnswerLost, Typed, Statuses, Swept,
      FileFound, ChunksAlone, Writing, Removers, Removes, Orphans, CompleteIsWhole, Over, Fault,
      MaxAge

(* a removal is of a session that is over *)
LEMMA RemovalWhole ==
    ASSUME Typed, ChunksAlone, Orphans, CompleteIsWhole, \A s \in Removers : Removes(s),
           \A e \in Completes : FileFound(e), NEW r \in Removers, Removal(r)
    PROVE  CompleteIsWhole'
  BY SessionAssumption
  DEF Removal, Remove, RemoveFails, Close, CloseFails, Typed, Statuses, Swept, FileFound,
      ChunksAlone, Writing, Removers, Removes, Orphans, CompleteIsWhole, Over, Fault, RemoverTo,
      Stamped, claims, MaxAge

(* and so is what the reaper takes for an orphan. *)
LEMMA OtherWhole ==
    ASSUME Typed, ChunksAlone, Orphans, CompleteIsWhole, \A s \in Removers : Removes(s),
           \A e \in Completes : FileFound(e),
           Cancel \/ Reap \/ ApiDies \/ WorkerDies \/ Tick
    PROVE  CompleteIsWhole'
  BY SessionAssumption
  DEF Reap, Cancel, ReapPass, OrphanRead, OrphanRemove, ApiDies, WorkerDies, Tick, Typed,
      Statuses, Swept, FileFound, ChunksAlone, Writing, Removers, Removes, Orphans,
      CompleteIsWhole, Over, Fault, RemoverTo, Stamped, claims, MaxAge

-----------------------------------------------------------------------------
(* The reaper looks for orphans after it has taken the idle sessions.  A chunk makes no
   session idle, *)
LEMMA ChunkOrphans ==
    ASSUME Typed, CompleteIsWhole, Orphans, \A s \in Removers : Removes(s),
           NEW p \in Chunks, ChunkLoad(p) \/ Chunk(p)
    PROVE  Orphans'
  BY SessionAssumption
  DEF Chunk, ChunkLoad, ChunkClaim, ChunkOpen, ChunkWrite, ChunkWriteFails, ChunkAdvance,
      ChunkAdvanceFails, Typed, Statuses, Swept, Writing, Removers, Removes, Orphans,
      CompleteIsWhole, Over, Fault, ChunkEnds, ChunkTo, Stamped, claims, MaxAge, IdleSession

(* a complete neither, *)
LEMMA CompleteOrphans ==
    ASSUME Typed, CompleteIsWhole, Orphans, \A s \in Removers : Removes(s),
           NEW c \in Completes, CompleteLoad(c) \/ Complete(c)
    PROVE  Orphans'
  <1> USE SessionAssumption
      DEF Typed, Statuses, Swept, Removers, Removes, Orphans, CompleteIsWhole, Over, Fault,
          Held, Claimable, CompleteEnds, CompleteFails, Stamped, MaxAge, IdleSession
  <1>1. CASE CompleteLoad(c)
    BY <1>1 DEF CompleteLoad
  <1>2. CASE TakeClaim(c)
    BY <1>2 DEF TakeClaim
  <1>3. CASE TakeClaimRefused(c)
    BY <1>3 DEF TakeClaimRefused
  <1>4. CASE TakeClaimLost(c)
    BY <1>4 DEF TakeClaimLost
  <1>5. CASE StatFile(c)
    BY <1>5 DEF StatFile
  <1>6. CASE MoveFile(c)
    BY <1>6 DEF MoveFile
  <1>7. CASE MoveRefused(c)
    BY <1>7 DEF MoveRefused
  <1>8. CASE WriteComplete(c)
    BY <1>8 DEF WriteComplete
  <1>9. CASE WriteMisses(c)
    BY <1>9 DEF WriteMisses
  <1>10. CASE WriteFails(c)
    <2>1. Swept' => Swept
      BY <1>10 DEF WriteFails
    <2>2. row'.status = row.status \/ row'.status = "complete"
      BY <1>10 DEF WriteFails
    <2>3. IdleSession' => IdleSession
      BY <1>10, <2>2 DEF WriteFails
    <2> QED
      BY <1>10, <2>1, <2>2, <2>3 DEF WriteFails
  <1>11. CASE GiveBack(c)
    BY <1>11 DEF GiveBack
  <1>12. CASE GiveBackMisses(c)
    BY <1>12 DEF GiveBackMisses
  <1>13. CASE GiveBackFails(c)
    BY <1>13 DEF GiveBackFails
  <1> QED
    BY <1>1, <1>2, <1>3, <1>4, <1>5, <1>6, <1>7, <1>8, <1>9, <1>10, <1>11, <1>12, <1>13 DEF Complete

(* nor a renewal, *)
LEMMA RenewOrphans ==
    ASSUME Typed, CompleteIsWhole, Orphans, \A s \in Removers : Removes(s),
           NEW c \in Completes, Renew(c)
    PROVE  Orphans'
  BY SessionAssumption
  DEF Renew, RenewRuns, RenewAnswered, RenewFails, RenewAnswerLost, Typed, Statuses, Swept,
      Removers, Removes, Orphans, CompleteIsWhole, Over, Fault, MaxAge, IdleSession

(* a removal ends in a session that is over *)
LEMMA RemovalOrphans ==
    ASSUME Typed, CompleteIsWhole, Orphans, \A s \in Removers : Removes(s),
           NEW r \in Removers, Removal(r)
    PROVE  Orphans'
  BY SessionAssumption
  DEF Removal, Remove, RemoveFails, Close, CloseFails, Typed, Statuses, Swept, Removers,
      Removes, Orphans, CompleteIsWhole, Over, Fault, RemoverTo, Stamped, claims, MaxAge,
      IdleSession

(* and time does not pass while the reaper is at it. *)
LEMMA OtherOrphans ==
    ASSUME Typed, CompleteIsWhole, Orphans, \A s \in Removers : Removes(s),
           Cancel \/ Reap \/ ApiDies \/ WorkerDies \/ Tick
    PROVE  Orphans'
  BY SessionAssumption
  DEF Reap, Cancel, ReapPass, OrphanRead, OrphanRemove, ApiDies, WorkerDies, Tick, Typed,
      Statuses, Swept, Removers, Removes, Orphans, CompleteIsWhole, Over, Fault, RemoverTo,
      Stamped, claims, MaxAge, IdleSession, Recent, Older

-----------------------------------------------------------------------------
(* Nothing takes a completed session: a chunk is for one that is uploading, *)
LEMMA ChunkFinal ==
    ASSUME Typed, NEW p \in Chunks, ChunkLoad(p) \/ Chunk(p)
    PROVE  row.status = "complete" => row'.status = "complete"
  BY SessionAssumption
  DEF Chunk, ChunkLoad, ChunkClaim, ChunkOpen, ChunkWrite, ChunkWriteFails, ChunkAdvance,
      ChunkAdvanceFails, Typed, Stamped, Statuses, claims, MaxAge

(* a complete writes only a row whose stamp it has, *)
LEMMA CompleteFinal ==
    ASSUME Typed, NEW c \in Completes, CompleteLoad(c) \/ Complete(c)
    PROVE  row.status = "complete" => row'.status = "complete"
  BY SessionAssumption
  DEF Complete, CompleteLoad, TakeClaim, TakeClaimRefused, TakeClaimLost, StatFile, MoveFile,
      MoveRefused, WriteComplete, WriteMisses, WriteFails, GiveBack, GiveBackMisses,
      GiveBackFails, Typed, Stamped, Over, Statuses, Held, Claimable, MaxAge

(* and so does a renewal, *)
LEMMA RenewFinal ==
    ASSUME Typed, NEW c \in Completes, Renew(c)
    PROVE  row.status = "complete" => row'.status = "complete"
  BY SessionAssumption
  DEF Renew, RenewRuns, RenewAnswered, RenewFails, RenewAnswerLost, Typed, Statuses, MaxAge

(* a removal closes one that is being reaped, *)
LEMMA RemovalFinal ==
    ASSUME Typed, NEW r \in Removers, Removal(r)
    PROVE  row.status = "complete" => row'.status = "complete"
  BY SessionAssumption
  DEF Removal, Remove, RemoveFails, Close, CloseFails, Typed, Stamped, Statuses, claims, MaxAge

(* and a cancel or a sweep takes what is uploading or idle. *)
LEMMA OtherFinal ==
    ASSUME Typed, Cancel \/ Reap \/ ApiDies \/ WorkerDies \/ Tick
    PROVE  row.status = "complete" => row'.status = "complete"
  BY SessionAssumption
  DEF Reap, Cancel, ReapPass, OrphanRead, OrphanRemove, ApiDies, WorkerDies, Tick, Typed,
      Stamped, Statuses, claims, IdleSession, MaxAge

-----------------------------------------------------------------------------
(* Every step is of a chunk, of a complete, of a renewal, of a removal, or one of
   the rest. *)
LEMMA Steps ==
    ASSUME Next
    PROVE  \/ \E p \in Chunks : ChunkLoad(p) \/ Chunk(p)
           \/ \E c \in Completes : CompleteLoad(c) \/ Complete(c)
           \/ \E c \in Completes : Renew(c)
           \/ \E r \in Removers : Removal(r)
           \/ Cancel \/ Reap \/ ApiDies \/ WorkerDies \/ Tick
  BY DEF Next

(* A session starts with nothing sent. *)
LEMMA InitInv == ASSUME Init PROVE Inv
  <1> USE SessionAssumption DEF Init
  <1>1. Typed
    BY DEF Typed, Statuses, MaxAge, Removers
  <1>2. ChunksAlone /\ Claimed /\ Orphans /\ CompleteIsWhole /\ CancelledIsGone
    BY DEF ChunksAlone, Writing, Claimed, Orphans, IdleSession, CompleteIsWhole, CancelledIsGone,
           Removers
  <1>3. ASSUME NEW r \in Removers PROVE Removes(r)
    BY DEF Removes
  <1>4. ASSUME NEW c \in Completes PROVE Sound(c)
    BY DEF Sound, Stamps, InTime, FileFound, Carries, Working, Holding
  <1> QED
    BY <1>1, <1>2, <1>3, <1>4 DEF Inv

(* The invariant is inductive, *)
LEMMA NextInv == ASSUME Inv, Next PROVE Inv'
  <1> DEFINE Parts == /\ Typed /\ ChunksAlone /\ Claimed /\ Orphans
                      /\ CompleteIsWhole /\ CancelledIsGone
                      /\ \A r \in Removers : Removes(r)
                      /\ \A c \in Completes : Stamps(c)
                      /\ \A c \in Completes : InTime(c)
                      /\ \A c \in Completes : FileFound(c)
  <1>1. Parts /\ (Parts' => Inv')
    BY DEF Inv, Sound
  <1>2. \A c \in Completes : Stamps(c) /\ InTime(c)
    BY <1>1
  <1>3. ASSUME NEW p \in Chunks, ChunkLoad(p) \/ Chunk(p) PROVE Parts'
    BY <1>1, <1>2, <1>3, ChunkTypes, ChunkAlone, ChunkStamps, ChunkInTime, ChunkClaimed,
       ChunkFileFound, ChunkRemoves, ChunkWhole, ChunkOrphans
  <1>4. ASSUME NEW c \in Completes, CompleteLoad(c) \/ Complete(c) PROVE Parts'
    BY <1>1, <1>2, <1>4, CompleteTypes, CompleteAlone, CompleteStamps, CompleteInTime,
       CompleteClaimed, CompleteFileFound, CompleteRemoves, CompleteWhole, CompleteOrphans
  <1>5. ASSUME NEW c \in Completes, Renew(c) PROVE Parts'
    BY <1>1, <1>2, <1>5, RenewTypes, RenewAlone, RenewStamps, RenewInTime, RenewClaimed,
       RenewFileFound, RenewRemoves, RenewWhole, RenewOrphans
  <1>6. ASSUME NEW r \in Removers, Removal(r) PROVE Parts'
    BY <1>1, <1>2, <1>6, RemovalTypes, RemovalAlone, RemovalStamps, RemovalInTime,
       RemovalClaimed, RemovalFileFound, RemovalRemoves, RemovalWhole, RemovalOrphans
  <1>7. CASE Cancel \/ Reap \/ ApiDies \/ WorkerDies \/ Tick
    BY <1>1, <1>2, <1>7, OtherTypes, OtherAlone, OtherStamps, OtherInTime, OtherClaimed,
       OtherFileFound, OtherRemoves, OtherWhole, OtherOrphans
  <1> HIDE DEF Parts
  <1> QED
    BY <1>1, <1>3, <1>4, <1>5, <1>6, <1>7, Steps

(* and holds throughout. *)
LEMMA Inductive == Spec => []Inv
  <1>1. Inv /\ [Next]_vars => Inv'
    <2>1. ASSUME Inv, UNCHANGED vars PROVE Inv'
      BY <2>1
      DEF vars, Inv, Typed, ChunksAlone, Writing, Claimed, OnlyRenew, Orphans, Swept,
          IdleSession, CompleteIsWhole, CancelledIsGone, Removes, Sound, Stamps, InTime, Renewed,
          FileFound, Carries, Working, Holding
    <2> QED
      BY <2>1, NextInv
  <1> QED
    BY <1>1, InitInv, PTL DEF Spec

-----------------------------------------------------------------------------
(* A set whose members are all one has no two. *)
LEMMA AtMostOne ==
    ASSUME NEW S, \A x, y \in S : x = y
    PROVE  Cardinality(S) <= 1
  <1>1. CASE S = {}
    BY <1>1, FS_EmptySet
  <1>2. CASE S # {}
    <2>1. \E x : S = {x}
      BY <1>2
    <2> QED
      BY <2>1, FS_Singleton
  <1> QED
    BY <1>1, <1>2

(* The session's row tells the truth for any number of completes, chunks, requests
   and faults and any windows: a completed session has its whole archive unless the
   reaper's sweep failed, a cancelled one has no file, a claim is somebody's, and no
   two chunks write and no two completes have the row's stamp. *)
THEOREM RowIsTrueHolds == Spec => []RowIsTrue
  <1>1. Inv => RowIsTrue
    <2> SUFFICES ASSUME Inv PROVE RowIsTrue
      OBVIOUS
    <2>1. Cardinality(knows) <= 1
      <3>1. \A c, d \in knows : c = d
        BY DEF Inv, Typed, Sound, Stamps, Carries
      <3> QED
        BY <3>1, AtMostOne
    <2>2. Cardinality({p \in Chunks : Writing(p)}) <= 1
      <3> DEFINE Writers == {p \in Chunks : Writing(p)}
      <3>1. \A p, q \in Writers : p = q
        BY DEF Inv, ChunksAlone
      <3> HIDE DEF Writers
      <3>2. Cardinality(Writers) <= 1
        BY <3>1, AtMostOne
      <3> QED
        BY <3>2 DEF Writers
    <2>3. TypeOK
      BY <2>1, <2>2 DEF Inv, Typed, TypeOK
    <2>4. NoAbandonedClaim
      BY DEF Inv, Claimed, Sound, Stamps, Carries, NoAbandonedClaim, Renewed, OnlyRenew
    <2> QED
      BY <2>3, <2>4 DEF Inv, RowIsTrue
  <1> QED
    BY <1>1, Inductive, PTL

(* No complete that lost its claim, no cancel and no reaper takes a session from
   completed to anything else, whatever fails. *)
THEOREM CompleteIsFinalHolds == Spec => CompleteIsFinal
  <1>1. Inv /\ [Next]_vars => [row.status = "complete" => row'.status = "complete"]_vars
    <2> SUFFICES ASSUME Typed, Next PROVE row.status = "complete" => row'.status = "complete"
      BY DEF Inv
    <2>1. CASE Cancel \/ Reap \/ ApiDies \/ WorkerDies \/ Tick
      BY <2>1, OtherFinal
    <2> QED
      BY <2>1, Steps, ChunkFinal, CompleteFinal, RenewFinal, RemovalFinal
  <1> QED
    BY <1>1, Inductive, PTL DEF Spec, CompleteIsFinal

-----------------------------------------------------------------------------
(* One complete moves at a time, unless the process dies with all of them. *)
LEMMA OneMoves ==
    ASSUME Typed, Next
    PROVE  \/ \A d \in Completes : ~Working(d)'
           \/ \E c : \A d \in Completes \ {c} : pc'[d] = pc[d]
  <1> USE DEF Typed, Stamped, claims, CompleteEnds, CompleteFails
  <1>1. ASSUME NEW p \in Chunks, ChunkLoad(p) \/ Chunk(p) PROVE pc' = pc
    BY <1>1
    DEF ChunkLoad, Chunk, ChunkClaim, ChunkOpen, ChunkWrite, ChunkWriteFails, ChunkAdvance,
        ChunkAdvanceFails
  <1>2. ASSUME NEW c \in Completes, CompleteLoad(c) \/ Complete(c)
        PROVE  \A d \in Completes \ {c} : pc'[d] = pc[d]
    BY <1>2
    DEF CompleteLoad, Complete, TakeClaim, TakeClaimRefused, TakeClaimLost, StatFile, MoveFile,
        MoveRefused, WriteComplete, WriteMisses, WriteFails, GiveBack, GiveBackMisses,
        GiveBackFails
  <1>3. ASSUME NEW c \in Completes, Renew(c) PROVE pc' = pc
    BY <1>3 DEF Renew, RenewRuns, RenewAnswered, RenewFails, RenewAnswerLost
  <1>4. ASSUME NEW r \in Removers, Removal(r) PROVE pc' = pc
    BY <1>4 DEF Removal, Remove, RemoveFails, Close, CloseFails
  <1>5. CASE ApiDies
    BY <1>5 DEF ApiDies, Working
  <1>6. CASE Cancel \/ Reap \/ WorkerDies \/ Tick
    <2>1. pc' = pc
      BY <1>6 DEF Cancel, Reap, ReapPass, OrphanRead, OrphanRemove, WorkerDies, Tick
    <2> QED
      BY <2>1
  <1> QED
    BY Steps, <1>1, <1>2, <1>3, <1>4, <1>5, <1>6

(* The claim is exclusive use of the session for any number of completes, while no
   renewal loses its answer and fewer of them fail than the window has periods: the
   completes at work implement ExclusiveUse.  When too many have failed the promise
   ends, and the one inside leaves. *)
THEOREM ExclusiveSessionHolds == Spec => ExclusiveSession
  <1> DEFINE W == {c \in Completes : Renewed /\ Working(c)}
  <1>1. Init => W = {}
    BY DEF Init, Working
  <1>2. ASSUME Inv, Inv', Next, W' # W
        PROVE  \E u \in Completes : Session!Enter(u) \/ Session!Leave(u)
    <2>1. \A c, d \in W : c = d
      BY <1>2 DEF Inv, Sound, InTime, Stamps
    <2>2. \A c, d \in W' : c = d
      BY <1>2 DEF Inv, Sound, InTime, Stamps
    <2>3. W = {} \/ W' = {}
      <3> SUFFICES ASSUME NEW u \in W, NEW v \in W' PROVE FALSE
        OBVIOUS
      <3>1. Renewed' /\ Renewed /\ Working(u) /\ Working(v)'
        OBVIOUS
      <3>2. u # v
        BY <1>2, <2>1, <2>2
      <3>3. ~Working(u)' /\ ~Working(v)
        BY <2>1, <2>2, <3>1, <3>2
      <3>4. PICK c : \A d \in Completes \ {c} : pc'[d] = pc[d]
        BY <1>2, <3>1, OneMoves DEF Inv
      <3> QED
        BY <3>1, <3>2, <3>3, <3>4 DEF Working
    <2>4. CASE W = {}
      <3>1. PICK u \in W' : W' = {u}
        BY <1>2, <2>2, <2>4
      <3> QED
        BY <2>4, <3>1 DEF Session!Enter
    <2>5. CASE W # {}
      <3>1. PICK u \in W : W = {u}
        BY <2>1, <2>5
      <3>2. W' = W \ {u}
        BY <2>3, <2>5, <3>1
      <3> QED
        BY <3>1, <3>2 DEF Session!Leave
    <2> QED
      BY <2>4, <2>5
  <1>3. UNCHANGED vars => UNCHANGED W
    BY DEF vars, Working, Renewed
  <1>4. Inv /\ Inv' /\ [Next]_vars
        => [\E u \in Completes : Session!Enter(u) \/ Session!Leave(u)]_W
    BY <1>2, <1>3
  <1> QED
    BY <1>1, <1>4, Inductive, PTL
    DEF Spec, ExclusiveSession, Session!Spec, Session!Init, Session!Next
=============================================================================
