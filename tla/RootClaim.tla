----------------------------- MODULE RootClaim -----------------------------
(* The claim on a repository's root directory: acquireRootClaim and its helpers
   in packages/database/src/repo-root-claim.ts.  A claim is a stamp and an owner
   token in the repository's row.  Its holder renews the stamp once per period
   while it rewrites the tree, and anybody may take over a stamp older than the
   stale window.  Every conditional write may commit and lose its answer; the
   code then reads the row back, and when that read fails as well it remembers
   the stamp it tried to write as one the row might carry.

   Time is counted in renewal periods (ROOT_CLAIM_RENEW_MS) and a stamp is the
   period it was written in, so two writers share a stamp when they write in the
   same period: the worst case of the code's "same millisecond".  One holder
   never commits two stamps in a period.  A statement ends in the period that
   issued it.  An element of Writers is one acquisition: a token is fresh for
   every attempt, so one that failed without leaving a claim may start again.  *)
EXTENDS Naturals, FiniteSets

CONSTANTS
    Writers,    \* acquisitions, each with its own owner token
    Nobody,     \* the NULL owner
    Stale,      \* ROOT_CLAIM_STALE_MS / ROOT_CLAIM_RENEW_MS
    Cap,        \* CANDIDATE_STAMP_CAP
    Retries,    \* RELEASE_RETRIES
    MaxClock    \* bound on time

ASSUME WritersAssumption == IsFiniteSet(Writers) /\ Nobody \notin Writers
ASSUME NumbersAssumption ==
    /\ Stale \in Nat /\ Cap \in Nat \ {0} /\ Retries \in Nat \ {0}
    /\ MaxClock \in Nat

VARIABLES
    now,     \* the clock, from 1
    row,     \* rootClaimedAt (0: NULL) and rootClaimOwner
    pc,      \* where each acquisition is
    cur,     \* `current`: the stamp the holder works from; 0: null
    cand,    \* the stamps the row might carry; the list is in ascending order
    todo,    \* the stamps the running renewal or release has yet to try
    lost,    \* the answer of lost()
    due,     \* holders whose renewal timer fired in this period
    tries,   \* clears of the first stamp of todo that did not settle
    late,    \* history: users of the tree whose stamp outlived the stale window
    gaveUp   \* history: a release ran out of retries

hist == <<late, gaveUp>>
vars == <<now, row, pc, cur, cand, todo, lost, due, tries, late, gaveUp>>

(* "work": the tree is being rewritten.  "renew", "renewRead": it still is, and
   a renewal's UPDATE or its read-back is next.  "clear", "miss", "threw": the
   work is over and the release's UPDATE, the reading of a clear that matched
   nothing, or the read-back of one that threw, is next.  "gone": the process
   died, or an unproven claim was abandoned. *)
States == {"idle", "claimRead", "work", "renew", "renewRead",
           "clear", "miss", "threw", "done", "gone"}

Using(w) == pc[w] \in {"work", "renew", "renewRead"}
InFlight(w) == pc[w] \notin {"idle", "work", "done", "gone"}

Free == [at |-> 0, owner |-> Nobody]

TypeOK ==
    /\ now \in 1..(MaxClock + 1)
    /\ row \in [at : 0..now, owner : Writers \union {Nobody}]
    /\ pc \in [Writers -> States]
    /\ cur \in [Writers -> 0..now]
    /\ cand \in [Writers -> SUBSET (1..now)]
    /\ \A w \in Writers : Cardinality(cand[w]) <= Cap
    /\ todo \in [Writers -> SUBSET (1..now)]
    /\ lost \in [Writers -> BOOLEAN]
    /\ due \subseteq Writers
    /\ tries \in [Writers -> 0..(Retries - 1)]
    /\ late \subseteq Writers
    /\ gaveUp \subseteq Writers

(* The row is free, or carries a claim taken before the owner column existed. *)
Init ==
    /\ now = 1
    /\ row \in {Free, [at |-> 1, owner |-> Nobody]}
    /\ pc = [w \in Writers |-> "idle"]
    /\ cur = [w \in Writers |-> 0]
    /\ cand = [w \in Writers |-> {}]
    /\ todo = [w \in Writers |-> {}]
    /\ lost = [w \in Writers |-> FALSE]
    /\ due = {}
    /\ tries = [w \in Writers |-> 0]
    /\ late = {}
    /\ gaveUp = {}

-----------------------------------------------------------------------------
(* The first of a list kept in ascending order, as a set with one element. *)
Oldest(S) == {s \in S : \A t \in S : s <= t}

(* CandidateStamps.remember *)
RememberOneSlot(S, s) == {s}
Remember(S, s) ==
    LET T == S \union {s}
    IN  IF Cardinality(T) > Cap THEN T \ Oldest(T) ELSE T

(* The row predicate of a renewal and of a release. *)
MatchesStampOnly(w, s) == row.at = s
Matches(w, s) == row.at = s /\ row.owner \in {w, Nobody}

(* The row predicate of a claim: free, or older than the stale window. *)
Expired == row.at # 0 /\ row.at + Stale < now
Claimable == row.at = 0 \/ Expired

-----------------------------------------------------------------------------
(* acquireRootClaim: the claim's UPDATE.  A refusal changes nothing. *)
TakeRow(w) ==
    /\ Claimable
    /\ row' = [at |-> now, owner |-> w]

Claim(w) ==
    /\ pc[w] = "idle"
    /\ TakeRow(w)
    /\ pc' = [pc EXCEPT ![w] = "work"]
    /\ cur' = [cur EXCEPT ![w] = now]
    /\ UNCHANGED <<now, cand, todo, lost, due, tries, hist>>

(* It threw, after committing or without. *)
ClaimThrows(w) ==
    /\ pc[w] = "idle"
    /\ TakeRow(w) \/ UNCHANGED row
    /\ pc' = [pc EXCEPT ![w] = "claimRead"]
    /\ cur' = [cur EXCEPT ![w] = now]
    /\ UNCHANGED <<now, cand, todo, lost, due, tries, hist>>

(* The read-back: only the token proves the claim; without it the caller is
   refused or gets the error, and holds nothing. *)
ClaimReadStamp(w) ==
    /\ pc[w] = "claimRead"
    /\ \/ /\ row.at = cur[w]
          /\ pc' = [pc EXCEPT ![w] = "work"]
          /\ UNCHANGED cur
       \/ /\ row.at # cur[w]
          /\ pc' = [pc EXCEPT ![w] = "idle"]
          /\ cur' = [cur EXCEPT ![w] = 0]
    /\ UNCHANGED <<now, row, cand, todo, lost, due, tries, hist>>

ClaimRead(w) ==
    /\ pc[w] = "claimRead"
    /\ \/ /\ row.owner = w
          /\ pc' = [pc EXCEPT ![w] = "work"]
          /\ UNCHANGED cur
       \/ /\ row.owner # w
          /\ pc' = [pc EXCEPT ![w] = "idle"]
          /\ cur' = [cur EXCEPT ![w] = 0]
    /\ UNCHANGED <<now, row, cand, todo, lost, due, tries, hist>>

(* Every read failed: the error goes to the caller, and a claim that may have
   committed is left to expire. *)
ClaimReadFails(w) ==
    /\ pc[w] = "claimRead"
    /\ pc' = [pc EXCEPT ![w] = "gone"]
    /\ cur' = [cur EXCEPT ![w] = 0]
    /\ UNCHANGED <<now, row, cand, todo, lost, due, tries, hist>>

-----------------------------------------------------------------------------
(* renewOnce.  It tries the held stamp, then every candidate, until one write
   matches or an answer is unproven. *)
RenewStart(w) ==
    /\ pc[w] = "work"
    /\ w \in due
    /\ pc' = [pc EXCEPT ![w] = "renew"]
    /\ todo' = [todo EXCEPT ![w] = {cur[w]} \union cand[w]]
    /\ due' = due \ {w}
    /\ UNCHANGED <<now, row, cur, cand, lost, tries, hist>>

(* The renewal ends; the holder works from stamp s. *)
RenewEnds(w, s) ==
    /\ pc' = [pc EXCEPT ![w] = "work"]
    /\ cur' = [cur EXCEPT ![w] = s]
    /\ todo' = [todo EXCEPT ![w] = {}]

(* A proven answer with a stamp: nothing is a candidate any more. *)
Settled(w, s) ==
    /\ RenewEnds(w, s)
    /\ cand' = [cand EXCEPT ![w] = {}]
    /\ UNCHANGED lost

(* An unproven one: the row may hold what was attempted. *)
Unproven(w) ==
    /\ RenewEnds(w, cur[w])
    /\ cand' = [cand EXCEPT ![w] = Remember(cand[w], now)]
    /\ UNCHANGED lost

(* A proven miss of stamp s: the next candidate, or the lease is lost. *)
Miss(w, s) ==
    /\ cand' = [cand EXCEPT ![w] = @ \ {s}]
    /\ \/ /\ todo[w] # {s}
          /\ todo' = [todo EXCEPT ![w] = @ \ {s}]
          /\ pc' = [pc EXCEPT ![w] = "renew"]
          /\ UNCHANGED <<cur, lost>>
       \/ /\ todo[w] = {s}
          /\ RenewEnds(w, 0)
          /\ lost' = [lost EXCEPT ![w] = TRUE]

(* renewRootClaim answers. *)
RenewAnswers(w) ==
    /\ pc[w] = "renew"
    /\ \E s \in Oldest(todo[w]) :
          \/ /\ Matches(w, s)
             /\ row' = [row EXCEPT !.at = now]
             /\ Settled(w, now)
          \/ /\ ~Matches(w, s)
             /\ Miss(w, s)
             /\ UNCHANGED row
    /\ UNCHANGED <<now, due, tries, hist>>

(* It throws, after committing or without. *)
RenewThrows(w) ==
    /\ pc[w] = "renew"
    /\ \/ /\ \E s \in Oldest(todo[w]) : Matches(w, s)
          /\ row' = [row EXCEPT !.at = now]
       \/ UNCHANGED row
    /\ pc' = [pc EXCEPT ![w] = "renewRead"]
    /\ UNCHANGED <<now, cur, cand, todo, lost, due, tries, hist>>

(* reconcileAmbiguousRenewal *)
RenewRead(w) ==
    /\ pc[w] = "renewRead"
    /\ IF row.at # 0 /\ row.owner = w THEN Settled(w, row.at)
       ELSE IF row.at # 0 /\ row.owner = Nobody THEN Unproven(w)
       ELSE \E s \in Oldest(todo[w]) : Miss(w, s)
    /\ UNCHANGED <<now, row, due, tries, hist>>

RenewReadFails(w) ==
    /\ pc[w] = "renewRead"
    /\ Unproven(w)
    /\ UNCHANGED <<now, row, due, tries, hist>>

(* The timer did not run in this period: the event loop was blocked. *)
RenewalSkipped(w) ==
    /\ pc[w] = "work"
    /\ w \in due
    /\ due' = due \ {w}
    /\ UNCHANGED <<now, row, pc, cur, cand, todo, lost, tries, hist>>

-----------------------------------------------------------------------------
(* release.  A lease known to be lost is left alone; otherwise the held stamp
   is cleared, and every candidate after it until the row is known free. *)
ReleaseStart(w) ==
    /\ pc[w] = "work"
    /\ due' = due \ {w}
    /\ \/ /\ cur[w] = 0
          /\ pc' = [pc EXCEPT ![w] = "done"]
          /\ UNCHANGED todo
       \/ /\ cur[w] # 0
          /\ pc' = [pc EXCEPT ![w] = "clear"]
          /\ todo' = [todo EXCEPT ![w] = {cur[w]} \union cand[w]]
    /\ UNCHANGED <<now, row, cur, cand, lost, tries, hist>>

Finish(w) ==
    /\ pc' = [pc EXCEPT ![w] = "done"]
    /\ cur' = [cur EXCEPT ![w] = 0]
    /\ cand' = [cand EXCEPT ![w] = {}]
    /\ todo' = [todo EXCEPT ![w] = {}]
    /\ tries' = [tries EXCEPT ![w] = 0]

(* The outcome for the first stamp was not 'free': the next stamp, if any. *)
NextStampNone(w) == Finish(w)
NextStamp(w) ==
    \E s \in Oldest(todo[w]) :
       IF todo[w] = {s} THEN Finish(w)
       ELSE /\ todo' = [todo EXCEPT ![w] = @ \ {s}]
            /\ pc' = [pc EXCEPT ![w] = "clear"]
            /\ tries' = [tries EXCEPT ![w] = 0]
            /\ UNCHANGED <<cur, cand>>

(* releaseWithRetry: 'still-ours' and 'unknown' are tried again. *)
RetryClear(w) ==
    IF tries[w] + 1 < Retries
    THEN /\ tries' = [tries EXCEPT ![w] = @ + 1]
         /\ pc' = [pc EXCEPT ![w] = "clear"]
         /\ UNCHANGED <<cur, cand, todo, gaveUp>>
    ELSE NextStamp(w) /\ gaveUp' = gaveUp \union {w}

(* releaseRepositoryRoot answers. *)
ClearAnswers(w) ==
    /\ pc[w] = "clear"
    /\ \E s \in Oldest(todo[w]) :
          \/ /\ Matches(w, s)
             /\ row' = Free
             /\ Finish(w)
          \/ /\ ~Matches(w, s)
             /\ pc' = [pc EXCEPT ![w] = "miss"]
             /\ UNCHANGED <<row, cur, cand, todo, tries>>
    /\ UNCHANGED <<now, lost, due, hist>>

ClearThrows(w) ==
    /\ pc[w] = "clear"
    /\ \/ /\ \E s \in Oldest(todo[w]) : Matches(w, s)
          /\ row' = Free
       \/ UNCHANGED row
    /\ pc' = [pc EXCEPT ![w] = "threw"]
    /\ UNCHANGED <<now, cur, cand, todo, lost, due, tries, hist>>

TakenOver(w) == row.at # 0 /\ row.owner \notin {w, Nobody}

(* classifyUnmatchedClear *)
ClassifyMiss(w) ==
    /\ pc[w] = "miss"
    /\ IF row.at = 0 THEN Finish(w) ELSE NextStamp(w)
    /\ lost' = [lost EXCEPT ![w] = @ \/ TakenOver(w)]
    /\ UNCHANGED <<now, row, due, hist>>

ClassifyFails(w) ==
    /\ pc[w] = "miss"
    /\ NextStamp(w)
    /\ UNCHANGED <<now, row, lost, due, hist>>

(* releaseReconciled's catch *)
ClearRead(w) ==
    /\ pc[w] = "threw"
    /\ IF row.at = 0 THEN Finish(w) /\ UNCHANGED gaveUp
       ELSE IF row.owner = w /\ row.at \in Oldest(todo[w]) THEN RetryClear(w)
       ELSE NextStamp(w) /\ UNCHANGED gaveUp
    /\ lost' = [lost EXCEPT ![w] = @ \/ TakenOver(w)]
    /\ UNCHANGED <<now, row, due, late>>

ClearReadFails(w) ==
    /\ pc[w] = "threw"
    /\ RetryClear(w)
    /\ UNCHANGED <<now, row, lost, due, late>>

-----------------------------------------------------------------------------
(* The process dies; its claim stays on the row. *)
Crash(w) ==
    /\ pc[w] \notin {"idle", "done", "gone"}
    /\ pc' = [pc EXCEPT ![w] = "gone"]
    /\ cur' = [cur EXCEPT ![w] = 0]
    /\ cand' = [cand EXCEPT ![w] = {}]
    /\ todo' = [todo EXCEPT ![w] = {}]
    /\ tries' = [tries EXCEPT ![w] = 0]
    /\ due' = due \ {w}
    /\ UNCHANGED <<now, row, lost, hist>>

(* A period passes: the timer of every holder that renews fires. *)
Tick ==
    /\ now <= MaxClock
    /\ due = {}
    /\ \A w \in Writers : ~InFlight(w)
    /\ now' = now + 1
    /\ due' = {w \in Writers : pc[w] = "work" /\ ~lost[w]}
    /\ late' = late \union
                  {w \in Writers : Using(w) /\ row.owner = w /\ row.at + Stale < now'}
    /\ UNCHANGED <<row, pc, cur, cand, todo, lost, tries, gaveUp>>

Acquire(w) == Claim(w) \/ ClaimThrows(w) \/ ClaimRead(w) \/ ClaimReadFails(w)
Renew(w) == \/ RenewStart(w) \/ RenewAnswers(w) \/ RenewThrows(w)
            \/ RenewRead(w) \/ RenewReadFails(w) \/ RenewalSkipped(w)
Release(w) == \/ ReleaseStart(w) \/ ClearAnswers(w) \/ ClearThrows(w)
              \/ ClassifyMiss(w) \/ ClassifyFails(w)
              \/ ClearRead(w) \/ ClearReadFails(w)

Next ==
    \/ Tick
    \/ \E w \in Writers : Acquire(w) \/ Renew(w) \/ Release(w) \/ Crash(w)

Spec == Init /\ [][Next]_vars

-----------------------------------------------------------------------------
(* The promise of the claim: of the writers whose stamp never outlived the stale
   window at most one uses the tree, whatever statements fail or lose their
   answers and whichever holders die. *)
Root == INSTANCE ExclusiveUse
            WITH Users <- Writers,
                 inside <- {w \in Writers : Using(w) /\ w \notin late}
ExclusiveTree == Root!Spec

(* A holder concludes that its lease was taken over only when the row is no
   longer its own, or is past the window in which a takeover is refused:
   "Only once every candidate is excluded is this really a takeover". *)
LostIsReal ==
    [][\A w \in Writers :
          ~lost[w] /\ lost'[w] => row.owner # w \/ Expired]_vars

(* A release that did not run out of retries leaves nothing of its holder's on
   the row, whichever renewals and clears lost their answers before, unless the
   stamp was already open to takeover: otherwise the repository stays claimed
   for a window with nobody working on it. *)
ReleaseLeavesNothing ==
    \A w \in Writers : pc[w] = "done" /\ w \notin gaveUp \union late => row.owner # w

(* Nobody but its owner moves or clears a claim that has not expired: an
   expired holder, whose stamps may equal the successor's, never strips or
   extends the successor's claim. *)
OnlyOwnerMovesClaim ==
    [][\A u \in Writers :
          row.owner = u /\ row' # row /\ ~Expired =>
             \/ Using(u) /\ row' = [at |-> now, owner |-> u]
             \/ pc[u] = "clear" /\ row' = Free]_vars
=============================================================================
