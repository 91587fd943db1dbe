---------------------------- MODULE Lease_proofs ----------------------------
(* Proofs about the two leases a holder keeps alive, for every set of holders and every
   bound.

   RootClaim, the claim on a repository's root: that it is exclusive use of the tree for
   those whose stamp never went stale, that only its owner moves a claim that has not
   expired, that a release leaves nothing behind, and that a loss that is reported is real.

   AgentLease, the slot pool, at the end: that every holder is
   counted, and that the cap is exact. *)
EXTENDS AgentLease, RootClaim, FiniteSetTheorems, TLAPS

(* What the proofs need of the types. *)
Types ==
    /\ now \in Nat \ {0}
    /\ row \in [at : 0..now, owner : Writers \union {Nobody}]
    /\ pc \in [Writers -> States]
    /\ cur \in [Writers -> 0..now]
    /\ cand \in [Writers -> SUBSET (0..now)]
    /\ todo \in [Writers -> SUBSET (0..now)]
    /\ lost \in [Writers -> BOOLEAN]
    /\ due \subseteq Writers

(* A row without a stamp has no owner. *)
FreeIsNobodys == row.at = 0 => row.owner = Nobody

-----------------------------------------------------------------------------
(* Remember keeps what it adds to, but for the oldest stamp when it is full. *)
LEMMA RememberTypes ==
    ASSUME NEW n \in Nat, NEW S \in SUBSET (0..n), NEW s \in 0..n
    PROVE  Remember(S, s) \in SUBSET (0..n)
  BY DEF Remember, Oldest

(* A stamp less than Cap periods old is never the one that is forgotten: there
   are not enough younger ones to fill the list. *)
LEMMA YoungStampKept ==
    ASSUME NEW n \in Nat, NEW S \in SUBSET (0..n), NEW x \in S \union {n},
           n - x < Cap
    PROVE  x \in Remember(S, n)
  <1> DEFINE T == S \union {n}
  <1>1. CASE ~(Cardinality(T) > Cap)
    BY <1>1 DEF Remember
  <1>2. CASE Cardinality(T) > Cap
    <2>1. SUFFICES ASSUME x \in Oldest(T) PROVE FALSE
      BY <1>2 DEF Remember
    <2>2. x \in 0..n
      OBVIOUS
    <2>3. T \subseteq x..n
      BY <2>1, <2>2 DEF Oldest
    <2>4. IsFiniteSet(x..n) /\ Cardinality(x..n) = n - x + 1
      BY <2>2, FS_Interval
    <2>5. Cardinality(T) <= Cardinality(x..n) /\ IsFiniteSet(T)
      BY <2>3, <2>4, FS_Subset
    <2>6. Cardinality(T) \in Nat
      BY <2>5, FS_CardinalityType
    <2> QED
      BY <1>2, <2>2, <2>4, <2>5, <2>6, NumbersAssumption
  <1> QED
    BY <1>1, <1>2

-----------------------------------------------------------------------------
(* The types hold at first. *)
LEMMA InitTypes == Init => Types /\ FreeIsNobodys
  BY NumbersAssumption DEF Init, Types, FreeIsNobodys, States, Free

(* The steps of an acquisition. *)
LEMMA AcquireTypes ==
    ASSUME Types, FreeIsNobodys, NEW w \in Writers, Acquire(w)
    PROVE  Types' /\ FreeIsNobodys'
  <1> USE DEF Types, FreeIsNobodys, States
  <1>1. CASE Claim(w)
    BY <1>1 DEF Claim, TakeRow
  <1>2. CASE ClaimThrows(w)
    BY <1>2 DEF ClaimThrows, TakeRow
  <1>3. CASE ClaimRead(w)
    BY <1>3 DEF ClaimRead
  <1>4. CASE ClaimReadFails(w)
    BY <1>4 DEF ClaimReadFails
  <1> QED
    BY <1>1, <1>2, <1>3, <1>4 DEF Acquire

(* The steps of a renewal. *)
LEMMA RenewTypes ==
    ASSUME Types, FreeIsNobodys, NEW w \in Writers, Renew(w)
    PROVE  Types' /\ FreeIsNobodys'
  <1> USE DEF Types, FreeIsNobodys, States
  <1>1. CASE RenewStart(w)
    BY <1>1 DEF RenewStart
  <1>0. ASSUME NEW s, Miss(w, s), UNCHANGED <<now, row, due>>
        PROVE  Types' /\ FreeIsNobodys'
    <2>1. cand' \in [Writers -> SUBSET (0..now)]
      BY <1>0 DEF Miss
    <2>2. CASE todo[w] # {s}
      <3>1. /\ pc' = [pc EXCEPT ![w] = "renew"]
            /\ todo' = [todo EXCEPT ![w] = @ \ {s}]
            /\ UNCHANGED <<cur, lost>>
        BY <1>0, <2>2 DEF Miss
      <3>2. todo' \in [Writers -> SUBSET (0..now)]
        BY <3>1
      <3> QED
        BY <1>0, <2>1, <3>1, <3>2
    <2>3. CASE todo[w] = {s}
      <3>1. RenewEnds(w, 0) /\ lost' = [lost EXCEPT ![w] = TRUE]
        BY <1>0, <2>3 DEF Miss
      <3> QED
        BY <1>0, <2>1, <3>1 DEF RenewEnds
    <2> QED
      BY <2>2, <2>3
  <1>2. CASE RenewAnswers(w)
    <2>1. PICK s \in Oldest(todo[w]) :
             \/ Matches(w, s) /\ row' = [row EXCEPT !.at = now] /\ Settled(w, now)
             \/ ~Matches(w, s) /\ Miss(w, s) /\ UNCHANGED row
      BY <1>2 DEF RenewAnswers
    <2>2. CASE Matches(w, s) /\ row' = [row EXCEPT !.at = now] /\ Settled(w, now)
      BY <1>2, <2>2 DEF RenewAnswers, Settled, RenewEnds
    <2>3. CASE Miss(w, s) /\ UNCHANGED row
      BY <1>0, <1>2, <2>3 DEF RenewAnswers
    <2> QED
      BY <2>1, <2>2, <2>3
  <1>3. CASE RenewThrows(w)
    BY <1>3 DEF RenewThrows
  <1>4. ASSUME Unproven(w), UNCHANGED <<now, row, due>> PROVE Types' /\ FreeIsNobodys'
    <2>1. Remember(cand[w], now) \in SUBSET (0..now)
      BY RememberTypes
    <2> QED
      BY <1>4, <2>1 DEF Unproven, RenewEnds
  <1>5. CASE RenewRead(w)
    <2>1. CASE row.at # 0 /\ row.owner = w
      BY <1>5, <2>1 DEF RenewRead, Settled, RenewEnds
    <2>2. CASE row.at # 0 /\ row.owner = Nobody
      BY <1>4, <1>5, <2>2, WritersAssumption DEF RenewRead
    <2>3. CASE ~(row.at # 0 /\ row.owner = w) /\ ~(row.at # 0 /\ row.owner = Nobody)
      <3>1. PICK s \in Oldest(todo[w]) : Miss(w, s)
        BY <1>5, <2>3 DEF RenewRead
      <3> QED
        BY <1>0, <1>5, <3>1 DEF RenewRead
    <2> QED
      BY <2>1, <2>2, <2>3
  <1>6. CASE RenewReadFails(w)
    BY <1>4, <1>6 DEF RenewReadFails
  <1>7. CASE RenewalSkipped(w)
    BY <1>7 DEF RenewalSkipped
  <1> QED
    BY <1>1, <1>2, <1>3, <1>5, <1>6, <1>7 DEF Renew

(* The steps of a release. *)
LEMMA ReleaseTypes ==
    ASSUME Types, FreeIsNobodys, NEW w \in Writers, Release(w)
    PROVE  Types' /\ FreeIsNobodys'
  <1> USE DEF Types, FreeIsNobodys, States
  <1>1. CASE ReleaseStart(w)
    BY <1>1 DEF ReleaseStart
  <1>2. CASE ClearAnswers(w)
    BY <1>2 DEF ClearAnswers, Finish, Free
  <1>3. CASE ClearThrows(w)
    BY <1>3 DEF ClearThrows, Free
  <1>4. CASE ClassifyMiss(w)
    BY <1>4 DEF ClassifyMiss, NextStamp, Finish
  <1>5. CASE ClassifyFails(w)
    BY <1>5 DEF ClassifyFails, NextStamp, Finish
  <1>6. CASE ClearRead(w)
    BY <1>6 DEF ClearRead, RetryClear, NextStamp, Finish
  <1>7. CASE ClearReadFails(w)
    BY <1>7 DEF ClearReadFails, RetryClear, NextStamp, Finish
  <1> QED
    BY <1>1, <1>2, <1>3, <1>4, <1>5, <1>6, <1>7 DEF Release

(* Every step keeps the types, and that a row without a stamp has no owner. *)
LEMMA NextTypes == Types /\ FreeIsNobodys /\ [Next]_vars => Types' /\ FreeIsNobodys'
  <1> SUFFICES ASSUME Types, FreeIsNobodys, [Next]_vars PROVE Types' /\ FreeIsNobodys'
    OBVIOUS
  <1>1. CASE Tick
    BY <1>1 DEF Tick, Types, FreeIsNobodys, hist
  <1>2. CASE \E w \in Writers : Acquire(w)
    BY <1>2, AcquireTypes
  <1>3. CASE \E w \in Writers : Renew(w)
    BY <1>3, RenewTypes
  <1>4. CASE \E w \in Writers : Release(w)
    BY <1>4, ReleaseTypes
  <1>5. CASE \E w \in Writers : Crash(w)
    BY <1>5 DEF Crash, Types, FreeIsNobodys, States
  <1>6. CASE UNCHANGED vars
    BY <1>6 DEF vars, Types, FreeIsNobodys
  <1> QED
    BY <1>1, <1>2, <1>3, <1>4, <1>5, <1>6 DEF Next

(* So they hold throughout. *)
LEMMA Typed == Spec => [](Types /\ FreeIsNobodys)
  <1> QED
    BY InitTypes, NextTypes, PTL DEF Spec

-----------------------------------------------------------------------------
(* What an acquisition whose stamp never outlived the stale window is sure of
   between two of its statements: the row is its own, is not open to takeover,
   and carries a stamp it still remembers. *)
Kept(w) ==
    /\ pc[w] = "idle" => row.owner # w
    /\ pc[w] = "claimRead" =>
          cur[w] = now /\ (row.owner = w => row.at = now)
    /\ pc[w] \in {"idle", "claimRead"} => ~lost[w] /\ w \notin late
    /\ w \notin late =>
          /\ Using(w) => /\ row.owner = w /\ row.at # 0 /\ now - row.at <= Stale
                        /\ ~lost[w]
          /\ pc[w] = "work" => row.at \in {cur[w]} \union cand[w]
          /\ pc[w] = "renew" =>
                row.at \in todo[w] /\ todo[w] \subseteq {cur[w]} \union cand[w]
          /\ pc[w] = "renewRead" => row.at \in {cur[w], now} \union cand[w]

Held == \A w \in Writers : Kept(w)

(* A step of w leaves every other acquisition and the clock alone. *)
Frame(w) ==
    /\ now' = now
    /\ \A u \in Writers \ {w} :
          /\ pc'[u] = pc[u] /\ cur'[u] = cur[u] /\ cand'[u] = cand[u]
          /\ todo'[u] = todo[u] /\ lost'[u] = lost[u]
          /\ u \in late' <=> u \in late

(* It writes the row only when that is free, expired, its own or nobody's. *)
RowMove(w) ==
    \/ row' = row
    \/ /\ row'.owner \in {w, Nobody}
       /\ row.owner \in {w, Nobody} \/ Claimable

(* Nobody owns the row at first. *)
LEMMA InitHeld == ASSUME Init PROVE Held
  BY WritersAssumption DEF Init, Held, Kept, Using, Free

(* The steps of an acquisition touch nobody else. *)
LEMMA AcquireFrame ==
    ASSUME Types, NEW w \in Writers, Acquire(w) PROVE Frame(w) /\ RowMove(w)
  <1> USE DEF Types, Frame, RowMove, hist
  <1>1. CASE Claim(w)
    BY <1>1 DEF Claim, TakeRow
  <1>2. CASE ClaimThrows(w)
    BY <1>2 DEF ClaimThrows, TakeRow
  <1>3. CASE ClaimRead(w)
    BY <1>3 DEF ClaimRead
  <1>4. CASE ClaimReadFails(w)
    BY <1>4 DEF ClaimReadFails
  <1> QED
    BY <1>1, <1>2, <1>3, <1>4 DEF Acquire

(* Nor do those of a renewal, and they write only the holder's or nobody's row. *)
LEMMA RenewFrame ==
    ASSUME Types, NEW w \in Writers, Renew(w) PROVE Frame(w) /\ RowMove(w)
  <1> USE DEF Types, Frame, RowMove, hist
  <1>1. CASE RenewStart(w)
    BY <1>1 DEF RenewStart
  <1>2. CASE RenewAnswers(w)
    <2>1. PICK s \in Oldest(todo[w]) :
             \/ Matches(w, s) /\ row' = [row EXCEPT !.at = now] /\ Settled(w, now)
             \/ ~Matches(w, s) /\ Miss(w, s) /\ UNCHANGED row
      BY <1>2 DEF RenewAnswers
    <2>2. CASE Matches(w, s) /\ row' = [row EXCEPT !.at = now] /\ Settled(w, now)
      BY <1>2, <2>2 DEF RenewAnswers, Matches, Settled, RenewEnds
    <2>3. CASE Miss(w, s) /\ UNCHANGED row
      BY <1>2, <2>3 DEF RenewAnswers, Miss, RenewEnds
    <2> QED
      BY <2>1, <2>2, <2>3
  <1>3. CASE RenewThrows(w)
    BY <1>3 DEF RenewThrows, Matches
  <1>4. CASE RenewRead(w)
    <2>1. CASE Settled(w, row.at)
      BY <1>4, <2>1 DEF RenewRead, Settled, RenewEnds
    <2>2. CASE Unproven(w)
      BY <1>4, <2>2 DEF RenewRead, Unproven, RenewEnds
    <2>3. CASE \E s \in Oldest(todo[w]) : Miss(w, s)
      BY <1>4, <2>3 DEF RenewRead, Miss, RenewEnds
    <2> QED
      BY <1>4, <2>1, <2>2, <2>3 DEF RenewRead
  <1>5. CASE RenewReadFails(w)
    BY <1>5 DEF RenewReadFails, Unproven, RenewEnds
  <1>6. CASE RenewalSkipped(w)
    BY <1>6 DEF RenewalSkipped
  <1> QED
    BY <1>1, <1>2, <1>3, <1>4, <1>5, <1>6 DEF Renew

(* Nor do those of a release, after which the tree is no longer used. *)
LEMMA ReleaseFrame ==
    ASSUME Types, NEW w \in Writers, Release(w)
    PROVE  /\ Frame(w) /\ RowMove(w)
           /\ ~Using(w)' /\ pc'[w] \notin {"idle", "claimRead"}
  <1> USE DEF Types, Frame, RowMove, Using, hist
  <1>1. CASE ReleaseStart(w)
    BY <1>1 DEF ReleaseStart
  <1>2. CASE ClearAnswers(w)
    BY <1>2, WritersAssumption DEF ClearAnswers, Finish, Free, Matches, hist
  <1>3. CASE ClearThrows(w)
    BY <1>3 DEF ClearThrows, Free, Matches
  <1>4. CASE ClassifyMiss(w)
    BY <1>4 DEF ClassifyMiss, NextStamp, Finish
  <1>5. CASE ClassifyFails(w)
    BY <1>5 DEF ClassifyFails, NextStamp, Finish
  <1>6. CASE ClearRead(w)
    BY <1>6 DEF ClearRead, RetryClear, NextStamp, Finish
  <1>7. CASE ClearReadFails(w)
    BY <1>7 DEF ClearReadFails, RetryClear, NextStamp, Finish
  <1> QED
    BY <1>1, <1>2, <1>3, <1>4, <1>5, <1>6, <1>7 DEF Release

(* While a holder's stamp is younger than the stale window the row cannot be
   claimed. *)
LEMMA HeldNotClaimable ==
    ASSUME Types, NEW u \in Writers, Kept(u), Using(u), u \notin late
    PROVE  ~Claimable
  BY NumbersAssumption DEF Types, Kept, Claimable, Expired

(* What a step of w preserves of everybody else. *)
LEMMA StepKeepsOthers ==
    ASSUME Types, Held, NEW w \in Writers,
           Frame(w), RowMove(w), Kept(w)'
    PROVE  Held'
  <1> SUFFICES ASSUME NEW u \in Writers, u # w PROVE Kept(u)'
    BY DEF Held
  <1>1. Kept(u)
    BY DEF Held
  <1>2. CASE row' = row
    BY <1>1, <1>2 DEF Frame, Kept, Using
  <1>3. CASE row' # row
    <2>1. row'.owner # u
      BY <1>3, WritersAssumption DEF RowMove
    <2>2. ~Using(u) \/ u \in late
      BY <1>1, <1>3, HeldNotClaimable, WritersAssumption DEF RowMove, Kept
    <2> QED
      BY <1>1, <2>1, <2>2 DEF Frame, Kept, Using
  <1> QED
    BY <1>2, <1>3

(* A claim is proven by its answer or by the token on the row. *)
LEMMA AcquireKeeps ==
    ASSUME Types, NEW w \in Writers, Kept(w), Acquire(w)
    PROVE  Kept(w)'
  <1> USE NumbersAssumption DEF Types, Kept, Using, hist
  <1>1. CASE Claim(w)
    BY <1>1 DEF Claim, TakeRow
  <1>2. CASE ClaimThrows(w)
    BY <1>2 DEF ClaimThrows, TakeRow
  <1>3. CASE ClaimRead(w)
    BY <1>3 DEF ClaimRead, hist
  <1>4. CASE ClaimReadFails(w)
    BY <1>4 DEF ClaimReadFails, hist
  <1> QED
    BY <1>1, <1>2, <1>3, <1>4 DEF Acquire

(* The held stamp is one of those the renewal tries, so it ends with the claim
   proven, or with the stamp it wrote remembered: the list is long enough. *)
LEMMA RenewKeeps ==
    ASSUME Stale < Cap, Types, NEW w \in Writers,
           Kept(w), Renew(w)
    PROVE  Kept(w)'
  <1> USE NumbersAssumption DEF Types, Kept, Using, hist
  <1>1. CASE RenewStart(w)
    BY <1>1 DEF RenewStart, hist
  <1>2. CASE RenewAnswers(w)
    <2>1. PICK s \in Oldest(todo[w]) :
             \/ Matches(w, s) /\ row' = [row EXCEPT !.at = now] /\ Settled(w, now)
             \/ ~Matches(w, s) /\ Miss(w, s) /\ UNCHANGED row
      BY <1>2 DEF RenewAnswers
    <2>2. CASE Matches(w, s) /\ row' = [row EXCEPT !.at = now] /\ Settled(w, now)
      BY <1>2, <2>2 DEF RenewAnswers, Settled, RenewEnds, hist
    <2>3. CASE ~Matches(w, s) /\ Miss(w, s) /\ UNCHANGED row
      <3>0. CASE w \in late
        BY <1>2, <2>3, <3>0 DEF RenewAnswers, Miss, RenewEnds
      <3> SUFFICES ASSUME w \notin late PROVE Kept(w)'
        BY <3>0
      <3>1. row.owner = w /\ row.at # s /\ row.at \in todo[w]
        BY <1>2, <2>3 DEF RenewAnswers, Matches
      <3>2. /\ cand' = [cand EXCEPT ![w] = @ \ {s}]
            /\ todo' = [todo EXCEPT ![w] = @ \ {s}]
            /\ pc' = [pc EXCEPT ![w] = "renew"]
            /\ UNCHANGED <<cur, lost>>
        BY <2>3, <3>1 DEF Miss
      <3> QED
        BY <1>2, <2>3, <3>1, <3>2 DEF RenewAnswers, hist
    <2> QED
      BY <2>1, <2>2, <2>3
  <1>3. CASE RenewThrows(w)
    BY <1>3 DEF RenewThrows, hist
  <1>4. CASE RenewRead(w)
    <2>0. CASE w \in late
      <3>1. CASE Settled(w, row.at)
        BY <1>4, <2>0, <3>1 DEF RenewRead, Settled, RenewEnds
      <3>2. CASE Unproven(w)
        BY <1>4, <2>0, <3>2 DEF RenewRead, Unproven, RenewEnds
      <3>3. CASE \E s \in Oldest(todo[w]) : Miss(w, s)
        BY <1>4, <2>0, <3>3 DEF RenewRead, Miss, RenewEnds
      <3> QED
        BY <1>4, <3>1, <3>2, <3>3 DEF RenewRead
    <2> SUFFICES ASSUME w \notin late PROVE Kept(w)'
      BY <2>0
    <2>1. Settled(w, row.at)
      BY <1>4 DEF RenewRead
    <2> QED
      BY <1>4, <2>1 DEF RenewRead, Settled, RenewEnds, hist
  <1>5. CASE RenewReadFails(w)
    <2>1. pc[w] = "renewRead" /\ Unproven(w) /\ UNCHANGED <<now, row, late>>
      BY <1>5 DEF RenewReadFails
    <2>0. CASE w \in late
      BY <2>0, <2>1 DEF Unproven, RenewEnds
    <2> SUFFICES ASSUME w \notin late PROVE Kept(w)'
      BY <2>0
    <2>2. row.at \in {cur[w]} \union Remember(cand[w], now)
      <3>1. CASE row.at \in cand[w] \union {now}
        BY <2>1, <3>1, YoungStampKept, NumbersAssumption
      <3> QED
        BY <2>1, <3>1
    <2> QED
      BY <2>1, <2>2 DEF Unproven, RenewEnds
  <1>6. CASE RenewalSkipped(w)
    BY <1>6 DEF RenewalSkipped, hist
  <1> QED
    BY <1>1, <1>2, <1>3, <1>4, <1>5, <1>6 DEF Renew

(* A period passes only once every due renewal was tried. *)
LEMMA TickKeeps ==
    ASSUME Types, Held, Tick PROVE Held'
  <1> SUFFICES ASSUME NEW w \in Writers PROVE Kept(w)'
    BY DEF Held
  <1>1. Kept(w) /\ pc[w] \in {"idle", "work", "done", "gone"}
    BY DEF Held, Tick, InFlight
  <1>2. w \in late' <=> w \in late \/ (Using(w) /\ row.owner = w /\ row.at + Stale < now + 1)
    BY DEF Tick
  <1> QED
    BY <1>1, <1>2, NumbersAssumption DEF Tick, Types, Kept, Using

(* A dead holder leaves the row alone. *)
LEMMA CrashKeeps ==
    ASSUME Types, NEW w \in Writers, Crash(w)
    PROVE  Frame(w) /\ RowMove(w) /\ Kept(w)'
  BY DEF Crash, Types, Frame, RowMove, Kept, Using, hist

(* Every step of an acquisition leaves the others alone. *)
LEMMA WriterFrame ==
    ASSUME Types, Held, NEW w \in Writers,
           Acquire(w) \/ Renew(w) \/ Release(w) \/ Crash(w)
    PROVE  Frame(w) /\ RowMove(w)
  BY AcquireFrame, RenewFrame, ReleaseFrame, CrashKeeps DEF Held, Kept

(* The invariant is inductive. *)
LEMMA NextHeld ==
    ASSUME Stale < Cap, Types, Held, [Next]_vars
    PROVE  Held'
  <1> USE NumbersAssumption
  <1>1. CASE Tick
    BY <1>1, TickKeeps
  <1>2. ASSUME NEW w \in Writers, Acquire(w) \/ Renew(w) \/ Release(w) \/ Crash(w)
        PROVE  Held'
    <2>1. Kept(w) /\ Frame(w) /\ RowMove(w)
      BY <1>2, WriterFrame DEF Held
    <2>2. CASE Acquire(w)
      BY <2>1, <2>2, AcquireKeeps, StepKeepsOthers
    <2>3. CASE Renew(w)
      BY <2>1, <2>3, RenewKeeps, StepKeepsOthers
    <2>4. CASE Release(w)
      <3>1. Kept(w)'
        BY <2>1, <2>4, ReleaseFrame DEF Kept, Using
      <3> QED
        BY <2>1, <3>1, StepKeepsOthers
    <2>5. CASE Crash(w)
      BY <2>1, <2>5, CrashKeeps, StepKeepsOthers
    <2> QED
      BY <1>2, <2>2, <2>3, <2>4, <2>5
  <1>3. CASE UNCHANGED vars
    BY <1>3 DEF vars, Held, Kept, Using
  <1> QED
    BY <1>1, <1>2, <1>3 DEF Next
-----------------------------------------------------------------------------
(* A step of the claim enters, leaves or changes nobody's use of the tree. *)
LEMMA StepRefines ==
    ASSUME Types, Held, Held', [Next]_vars
    PROVE  [Root!Next]_{w \in Writers : Using(w) /\ w \notin late}
  <1> DEFINE I == {w \in Writers : Using(w) /\ w \notin late}
  <1>1. CASE Tick
    <2>1. I' \subseteq I
      BY <1>1 DEF Tick, Using
    <2>2. \A u, v \in I : u = v
      BY DEF Held, Kept
    <2>3. CASE I' = I
      BY <2>3
    <2>4. CASE I' # I
      <3>1. PICK u \in I : u \notin I'
        BY <2>1, <2>4
      <3>2. I' = I \ {u}
        BY <2>1, <2>2, <3>1
      <3> QED
        BY <3>1, <3>2 DEF Root!Next, Root!Leave
    <2> QED
      BY <2>3, <2>4
  <1>2. ASSUME NEW w \in Writers, Acquire(w) \/ Renew(w) \/ Release(w) \/ Crash(w)
        PROVE  [Root!Next]_I
    <2>1. \A u \in Writers \ {w} : u \in I' <=> u \in I
      BY <1>2, WriterFrame DEF Frame, Using
    <2>2. CASE w \in I' /\ w \notin I
      <3>1. I' = {w}
        <4>1. ASSUME NEW u \in I' PROVE u = w
          BY <2>2, <4>1 DEF Held, Kept
        <4> QED
          BY <2>2, <4>1
      <3>2. I = {}
        BY <2>1, <2>2, <3>1
      <3>3. Root!Enter(w)
        BY <3>1, <3>2 DEF Root!Enter
      <3> QED
        BY <3>3 DEF Root!Next
    <2>3. CASE w \notin I' /\ w \in I
      <3>1. I' = I \ {w}
        BY <2>1, <2>3
      <3>2. Root!Leave(w)
        BY <2>3, <3>1 DEF Root!Leave
      <3> QED
        BY <3>2 DEF Root!Next
    <2>4. CASE w \in I' <=> w \in I
      <3>1. I' = I
        BY <2>1, <2>4
      <3> QED
        BY <3>1
    <2> QED
      BY <2>2, <2>3, <2>4
  <1>3. CASE UNCHANGED vars
    BY <1>3 DEF vars, Using
  <1> QED
    BY <1>1, <1>2, <1>3 DEF Next

(* acquireRootClaim, renewOnce and release implement exclusive use of the tree:
   for any number of writers, whatever statements throw after or before
   committing and whichever processes die, of the writers whose stamp never
   outlived the stale window one at most uses the tree, provided that the list of
   candidate stamps (CANDIDATE_STAMP_CAP) is longer than the window. *)
THEOREM ExclusiveTreeHolds ==
    ASSUME Stale < Cap
    PROVE  Spec => ExclusiveTree
  <1>1. Init => Types /\ FreeIsNobodys /\ Held
    BY InitTypes, InitHeld
  <1>2. Types /\ FreeIsNobodys /\ Held /\ [Next]_vars
        => (Types /\ FreeIsNobodys /\ Held)'
    BY NextTypes, NextHeld
  <1>3. Types /\ Held /\ Held' /\ [Next]_vars
        => [Root!Next]_{w \in Writers : Using(w) /\ w \notin late}
    BY StepRefines
  <1>4. Init => Root!Init
    BY DEF Init, Root!Init, Using
  <1> QED
    BY <1>1, <1>2, <1>3, <1>4, PTL DEF Spec, ExclusiveTree, Root!Spec

(* renewRootClaim and releaseRepositoryRoot never move or clear an unexpired
   claim of another writer, whatever stamps the two share: with no assumption
   on how long a stamp is held. *)
THEOREM OnlyOwnerMoves == Spec => OnlyOwnerMovesClaim
  <1> DEFINE Moves ==
        \A u \in Writers :
          row.owner = u /\ row' # row /\ ~Expired =>
             \/ Using(u) /\ row' = [at |-> now, owner |-> u]
             \/ pc[u] = "clear" /\ row' = Free
  <1>1. Types /\ FreeIsNobodys /\ [Next]_vars => [Moves]_vars
    <2> SUFFICES ASSUME Types, FreeIsNobodys, Next, NEW u \in Writers,
                        row.owner = u, row' # row, ~Expired
                 PROVE  \/ Using(u) /\ row' = [at |-> now, owner |-> u]
                        \/ pc[u] = "clear" /\ row' = Free
      OBVIOUS
    <2>1. ~Claimable
      BY WritersAssumption DEF FreeIsNobodys, Claimable
    <2>2. PICK w \in Writers : Acquire(w) \/ Renew(w) \/ Release(w) \/ Crash(w)
      BY DEF Next, Tick
    <2>3. ~Acquire(w) /\ ~Crash(w)
      BY <2>1 DEF Acquire, Claim, ClaimThrows, ClaimRead, ClaimReadFails, TakeRow, Crash
    <2>4. CASE Renew(w)
      <3>1. RenewAnswers(w) \/ RenewThrows(w)
        BY <2>4 DEF Renew, RenewStart, RenewRead, RenewReadFails, RenewalSkipped
      <3>2. row' = [row EXCEPT !.at = now] /\ row.owner \in {w, Nobody} /\ Using(w)
        BY <3>1 DEF RenewAnswers, RenewThrows, Matches, Using
      <3> QED
        BY <3>2, WritersAssumption DEF Types
    <2>5. CASE Release(w)
      <3>1. ClearAnswers(w) \/ ClearThrows(w)
        BY <2>5 DEF Release, ReleaseStart, ClassifyMiss, ClassifyFails, ClearRead,
                    ClearReadFails
      <3>2. row' = Free /\ row.owner \in {w, Nobody} /\ pc[w] = "clear"
        BY <3>1 DEF ClearAnswers, ClearThrows, Matches
      <3> QED
        BY <3>2, WritersAssumption
    <2> QED
      BY <2>2, <2>3, <2>4, <2>5
  <1> QED
    BY <1>1, Typed, PTL DEF Spec, OnlyOwnerMovesClaim

-----------------------------------------------------------------------------
(* What an acquisition remembers of its own claim, late or not: a holder of an
   unexpired claim knows its stamp, and a release that has retries left has the
   row's stamp still to try. *)
Remembered(w) ==
    /\ Using(w) /\ cur[w] = 0 => lost[w]
    /\ pc[w] \in {"renew", "renewRead"} => todo[w] \subseteq {cur[w]} \union cand[w]
    /\ row.owner = w /\ ~Expired =>
          /\ pc[w] = "work" => row.at \in {cur[w]} \union cand[w]
          /\ pc[w] = "renew" => row.at \in todo[w]
          /\ pc[w] = "renewRead" => row.at \in {cur[w], now} \union cand[w]
    /\ row.owner = w /\ w \notin gaveUp \union late =>
          /\ pc[w] \in {"clear", "threw"} => row.at \in todo[w]
          /\ pc[w] = "miss" => row.at \in todo[w] \ Oldest(todo[w])
          /\ pc[w] # "done"

Memory == \A w \in Writers : Remembered(w)

(* Nobody owns the row at first. *)
LEMMA InitMemory == ASSUME Init PROVE Memory
  BY WritersAssumption DEF Init, Memory, Remembered, Using, Free

(* An acquisition that claims works from the stamp it wrote. *)
LEMMA AcquireRemembers ==
    ASSUME Types, FreeIsNobodys, NEW w \in Writers, Kept(w), Remembered(w), Acquire(w)
    PROVE  Remembered(w)'
  <1> USE DEF Types, Kept, Remembered, Using, Expired, hist
  <1>1. CASE Claim(w)
    BY <1>1 DEF Claim, TakeRow
  <1>2. CASE ClaimThrows(w)
    BY <1>2 DEF ClaimThrows, TakeRow
  <1>3. CASE ClaimRead(w)
    BY <1>3 DEF ClaimRead
  <1>4. CASE ClaimReadFails(w)
    BY <1>4 DEF ClaimReadFails
  <1> QED
    BY <1>1, <1>2, <1>3, <1>4 DEF Acquire

(* A renewal forgets the row's stamp only once that is past the window: until
   then it is too young to be the one a full list drops. *)
LEMMA RenewRemembers ==
    ASSUME Stale < Cap, Types, FreeIsNobodys, NEW w \in Writers, Remembered(w), Renew(w)
    PROVE  Remembered(w)'
  <1> USE NumbersAssumption DEF Types, Remembered, Using, Expired, hist
  <1>1. CASE RenewStart(w)
    BY <1>1 DEF RenewStart
  <1>0. ASSUME NEW s, Miss(w, s), pc[w] \in {"renew", "renewRead"},
               pc[w] = "renewRead" => row.owner # w,
               row.owner = w => row.at # s, UNCHANGED <<now, row, hist>>
        PROVE  Remembered(w)'
    <2>1. CASE todo[w] # {s}
      <3>1. /\ cand' = [cand EXCEPT ![w] = @ \ {s}]
            /\ todo' = [todo EXCEPT ![w] = @ \ {s}]
            /\ pc' = [pc EXCEPT ![w] = "renew"]
            /\ UNCHANGED <<cur, lost>>
        BY <1>0, <2>1 DEF Miss
      <3> QED
        BY <1>0, <3>1
    <2>2. CASE todo[w] = {s}
      BY <1>0, <2>2 DEF Miss, RenewEnds
    <2> QED
      BY <2>1, <2>2
  <1>2. CASE RenewAnswers(w)
    <2>1. PICK s \in Oldest(todo[w]) :
             \/ Matches(w, s) /\ row' = [row EXCEPT !.at = now] /\ Settled(w, now)
             \/ ~Matches(w, s) /\ Miss(w, s) /\ UNCHANGED row
      BY <1>2 DEF RenewAnswers
    <2>2. CASE Matches(w, s) /\ row' = [row EXCEPT !.at = now] /\ Settled(w, now)
      BY <1>2, <2>2 DEF RenewAnswers, Settled, RenewEnds
    <2>3. CASE ~Matches(w, s) /\ Miss(w, s) /\ UNCHANGED row
      BY <1>0, <1>2, <2>3 DEF RenewAnswers, Matches
    <2> QED
      BY <2>1, <2>2, <2>3
  <1>3. CASE RenewThrows(w)
    BY <1>3 DEF RenewThrows
  <1>4. ASSUME Unproven(w), pc[w] = "renewRead", UNCHANGED <<now, row, hist>>
        PROVE  Remembered(w)'
    <2>1. row.owner = w /\ ~Expired => row.at \in {cur[w]} \union Remember(cand[w], now)
      <3>1. ASSUME row.owner = w, ~Expired PROVE row.at \in {cur[w]} \union Remember(cand[w], now)
        <4>1. row.at # 0 /\ now - row.at < Cap
          BY <3>1, WritersAssumption DEF FreeIsNobodys
        <4>2. row.at \in {cur[w], now} \union cand[w]
          BY <1>4, <3>1
        <4>3. CASE row.at \in cand[w] \union {now}
          BY <4>1, <4>3, YoungStampKept
        <4> QED
          BY <4>2, <4>3
      <3> QED
        BY <3>1
    <2> QED
      BY <1>4, <2>1 DEF Unproven, RenewEnds
  <1>5. CASE RenewRead(w)
    <2>1. CASE row.at # 0 /\ row.owner = w
      BY <1>5, <2>1 DEF RenewRead, Settled, RenewEnds
    <2>2. CASE row.at # 0 /\ row.owner = Nobody
      BY <1>4, <1>5, <2>2, WritersAssumption DEF RenewRead
    <2>3. CASE ~(row.at # 0 /\ row.owner = w) /\ ~(row.at # 0 /\ row.owner = Nobody)
      <3>1. PICK s \in Oldest(todo[w]) : Miss(w, s)
        BY <1>5, <2>3 DEF RenewRead
      <3>2. row.owner # w
        BY <2>3, WritersAssumption DEF FreeIsNobodys
      <3> QED
        BY <1>0, <1>5, <3>1, <3>2 DEF RenewRead
    <2> QED
      BY <2>1, <2>2, <2>3
  <1>6. CASE RenewReadFails(w)
    BY <1>4, <1>6 DEF RenewReadFails
  <1>7. CASE RenewalSkipped(w)
    BY <1>7 DEF RenewalSkipped
  <1> QED
    BY <1>1, <1>2, <1>3, <1>5, <1>6, <1>7 DEF Renew

(* A release passes a stamp by only when the row does not carry it, or when its
   retries are over. *)
LEMMA ReleaseRemembers ==
    ASSUME Types, FreeIsNobodys, NEW w \in Writers, Kept(w), Remembered(w), Release(w)
    PROVE  Remembered(w)'
  <1> USE WritersAssumption DEF Types, Remembered, Using, hist
  <1>1. CASE ReleaseStart(w)
    BY <1>1 DEF ReleaseStart, Kept
  <1>0. ASSUME NextStamp(w), UNCHANGED row, late' = late, gaveUp \subseteq gaveUp',
               row.owner = w /\ w \notin gaveUp' \union late
                  => row.at \in todo[w] \ Oldest(todo[w])
        PROVE  Remembered(w)'
    <2>1. PICK s \in Oldest(todo[w]) :
             IF todo[w] = {s} THEN Finish(w)
             ELSE /\ todo' = [todo EXCEPT ![w] = @ \ {s}]
                  /\ pc' = [pc EXCEPT ![w] = "clear"]
                  /\ tries' = [tries EXCEPT ![w] = 0]
                  /\ UNCHANGED <<cur, cand>>
      BY <1>0 DEF NextStamp
    <2>2. CASE todo[w] = {s}
      <3>1. pc' = [pc EXCEPT ![w] = "done"]
        BY <2>1, <2>2 DEF Finish
      <3>2. row.owner = w => w \in gaveUp' \union late
        BY <1>0, <2>1, <2>2
      <3> QED
        BY <1>0, <3>1, <3>2
    <2>3. CASE todo[w] # {s}
      BY <1>0, <2>1, <2>3
    <2> QED
      BY <2>2, <2>3
  <1>9. ASSUME Finish(w), row'.owner # w PROVE Remembered(w)'
    BY <1>9 DEF Finish
  <1>2. CASE ClearAnswers(w)
    <2>1. PICK s \in Oldest(todo[w]) :
             \/ Matches(w, s) /\ row' = Free /\ Finish(w)
             \/ /\ ~Matches(w, s)
                /\ pc' = [pc EXCEPT ![w] = "miss"]
                /\ UNCHANGED <<row, cur, cand, todo, tries>>
      BY <1>2 DEF ClearAnswers
    <2>2. CASE row' = Free /\ Finish(w)
      BY <1>9, <2>2 DEF Free
    <2>3. CASE /\ ~Matches(w, s)
               /\ pc' = [pc EXCEPT ![w] = "miss"]
               /\ UNCHANGED <<row, cur, cand, todo, tries>>
      BY <1>2, <2>1, <2>3 DEF ClearAnswers, Matches, Oldest
    <2> QED
      BY <2>1, <2>2, <2>3
  <1>3. CASE ClearThrows(w)
    BY <1>3 DEF ClearThrows, Free
  <1>4. CASE ClassifyMiss(w)
    <2>1. CASE row.at = 0
      BY <1>4, <1>9, <2>1 DEF ClassifyMiss, FreeIsNobodys
    <2>2. CASE row.at # 0
      BY <1>0, <1>4, <2>2 DEF ClassifyMiss
    <2> QED
      BY <2>1, <2>2
  <1>5. CASE ClassifyFails(w)
    BY <1>0, <1>5 DEF ClassifyFails
  <1>10. ASSUME RetryClear(w), pc[w] = "threw", UNCHANGED <<row, late>> PROVE Remembered(w)'
    <2>1. CASE tries[w] + 1 < Retries
      BY <1>10, <2>1 DEF RetryClear
    <2>2. CASE ~(tries[w] + 1 < Retries)
      BY <1>0, <1>10, <2>2 DEF RetryClear
    <2> QED
      BY <2>1, <2>2
  <1>6. CASE ClearRead(w)
    <2>1. CASE row.at = 0
      BY <1>6, <1>9, <2>1 DEF ClearRead, FreeIsNobodys
    <2>2. CASE row.at # 0 /\ row.owner = w /\ row.at \in Oldest(todo[w])
      BY <1>6, <1>10, <2>2 DEF ClearRead
    <2>3. CASE row.at # 0 /\ ~(row.owner = w /\ row.at \in Oldest(todo[w]))
      BY <1>0, <1>6, <2>3 DEF ClearRead
    <2> QED
      BY <2>1, <2>2, <2>3
  <1>7. CASE ClearReadFails(w)
    BY <1>7, <1>10 DEF ClearReadFails
  <1> QED
    BY <1>1, <1>2, <1>3, <1>4, <1>5, <1>6, <1>7 DEF Release

(* Giving up is not taken back. *)
LEMMA GaveUpGrows ==
    ASSUME NEW w \in Writers, Acquire(w) \/ Renew(w) \/ Release(w) \/ Crash(w)
    PROVE  gaveUp \subseteq gaveUp'
  <1> USE DEF hist
  <1>1. CASE Acquire(w)
    BY <1>1 DEF Acquire, Claim, ClaimThrows, ClaimRead, ClaimReadFails
  <1>2. CASE Renew(w)
    BY <1>2 DEF Renew, RenewStart, RenewAnswers, RenewThrows, RenewRead, RenewReadFails,
                RenewalSkipped
  <1>3. CASE Release(w)
    BY <1>3 DEF Release, ReleaseStart, ClearAnswers, ClearThrows, ClassifyMiss, ClassifyFails,
                ClearRead, ClearReadFails, RetryClear
  <1>4. CASE Crash(w)
    BY <1>4 DEF Crash
  <1> QED
    BY <1>1, <1>2, <1>3, <1>4

(* Every step keeps what the acquisitions remember. *)
LEMMA NextMemory ==
    ASSUME Stale < Cap, Types, FreeIsNobodys, Held, Memory, [Next]_vars
    PROVE  Memory'
  <1>1. CASE Tick
    <2> SUFFICES ASSUME NEW w \in Writers PROVE Remembered(w)'
      BY DEF Memory
    <2>1. Remembered(w) /\ pc[w] \in {"idle", "work", "done", "gone"}
      BY <1>1 DEF Memory, Tick, InFlight
    <2>2. /\ UNCHANGED <<row, pc, cur, cand, todo, lost, gaveUp>>
          /\ late \subseteq late' /\ (Expired => Expired')
      BY <1>1, NumbersAssumption DEF Tick, Expired, Types
    <2> QED
      BY <2>1, <2>2 DEF Remembered, Using
  <1>2. ASSUME NEW w \in Writers, Acquire(w) \/ Renew(w) \/ Release(w) \/ Crash(w)
        PROVE  Memory'
    <2>1. Frame(w) /\ RowMove(w) /\ gaveUp \subseteq gaveUp' /\ Kept(w) /\ Remembered(w)
      BY <1>2, WriterFrame, GaveUpGrows DEF Held, Memory
    <2>2. Remembered(w)'
      <3>1. CASE Crash(w)
        BY <3>1 DEF Crash, Remembered, Using, Types
      <3> QED
        BY <1>2, <2>1, <3>1, AcquireRemembers, RenewRemembers, ReleaseRemembers
    <2>3. ASSUME NEW u \in Writers, u # w PROVE Remembered(u)'
      <3>1. Remembered(u)
        BY DEF Memory
      <3>2. row' = row \/ row'.owner # u
        BY <2>3, WritersAssumption, <2>1 DEF RowMove
      <3> QED
        BY <2>1, <2>3, <3>1, <3>2 DEF Frame, Remembered, Using, Expired
    <2> QED
      BY <2>2, <2>3 DEF Memory
  <1>3. CASE UNCHANGED vars
    BY <1>3 DEF vars, Memory, Remembered, Using, Expired
  <1> QED
    BY <1>1, <1>2, <1>3 DEF Next

(* What the claim's holders know, throughout. *)
LEMMA HeldAndRemembered ==
    ASSUME Stale < Cap
    PROVE  Spec => [](Types /\ FreeIsNobodys /\ Held /\ Memory)
  <1>1. Init => Types /\ FreeIsNobodys /\ Held /\ Memory
    BY InitTypes, InitHeld, InitMemory
  <1>2. Types /\ FreeIsNobodys /\ Held /\ Memory /\ [Next]_vars
        => (Types /\ FreeIsNobodys /\ Held /\ Memory)'
    BY NextTypes, NextHeld, NextMemory
  <1> QED
    BY <1>1, <1>2, PTL DEF Spec

(* release leaves nothing of its holder's on the row, for every number of
   holders, retries and lost answers, unless it ran out of retries or its stamp
   was already open to takeover, provided that CANDIDATE_STAMP_CAP is longer than
   the window. *)
THEOREM ReleaseLeavesNothingHolds ==
    ASSUME Stale < Cap
    PROVE  Spec => []ReleaseLeavesNothing
  <1>1. Memory => ReleaseLeavesNothing
    BY DEF Memory, Remembered, ReleaseLeavesNothing
  <1> QED
    BY <1>1, HeldAndRemembered, PTL

(* renewOnce and release report a takeover only when the row is somebody else's
   or could have been: an unexpired claim is never given up by its holder, however
   many renewals lost their answers before. *)
THEOREM LostIsRealHolds ==
    ASSUME Stale < Cap
    PROVE  Spec => LostIsReal
  <1> DEFINE Real == \A w \in Writers : ~lost[w] /\ lost'[w] => row.owner # w \/ Expired
  <1>1. Types /\ FreeIsNobodys /\ Held /\ Memory /\ [Next]_vars => [Real]_vars
    <2> SUFFICES ASSUME Types, FreeIsNobodys, Held, Memory, Next, NEW w \in Writers,
                        ~lost[w], lost'[w], row.owner = w, ~Expired
                 PROVE  FALSE
      OBVIOUS
    <2>0. Remembered(w) /\ row.at # 0
      BY WritersAssumption DEF Memory, FreeIsNobodys
    <2>1. PICK v \in Writers : Acquire(v) \/ Renew(v) \/ Release(v) \/ Crash(v)
      BY DEF Next, Tick
    <2>2. v = w
      BY <2>1, WriterFrame DEF Frame
    <2>3. ~Acquire(w) /\ ~Crash(w)
      BY DEF Acquire, Claim, ClaimThrows, ClaimRead, ClaimReadFails, Crash
    <2>4. CASE Renew(w)
      <3>1. PICK s \in Oldest(todo[w]) :
               Miss(w, s) /\ ((RenewAnswers(w) /\ ~Matches(w, s)) \/ RenewRead(w))
        BY <2>4 DEF Renew, RenewStart, RenewAnswers, RenewThrows, RenewRead, RenewReadFails,
                    RenewalSkipped, Settled, Unproven
      <3>2. todo[w] = {s}
        BY <3>1 DEF Miss
      <3>3. CASE RenewAnswers(w) /\ ~Matches(w, s)
        BY <2>0, <3>2, <3>3 DEF RenewAnswers, Matches, Remembered
      <3>4. CASE RenewRead(w)
        BY <2>0, <3>4 DEF RenewRead, Settled
      <3> QED
        BY <3>1, <3>3, <3>4
    <2>5. CASE Release(w)
      <3>1. lost' = lost \/ lost' = [lost EXCEPT ![w] = @ \/ TakenOver(w)]
        BY <2>5 DEF Release, ReleaseStart, ClearAnswers, ClearThrows, ClassifyMiss,
                    ClassifyFails, ClearRead, ClearReadFails
      <3> QED
        BY <3>1 DEF TakenOver, Types
    <2> QED
      BY <2>1, <2>2, <2>3, <2>4, <2>5
  <1> QED
    BY <1>1, HeldAndRemembered, PTL DEF Spec, LostIsReal

-----------------------------------------------------------------------------
(* The slot pool. *)

(* The inductive invariant: types, the age of a held field, and no heartbeat
   without a holder. *)
PoolInv == PoolTypeOK /\ BeatBound /\ DueHeld

(* The pool starts empty with nobody running. *)
LEMMA InitPoolInv == PoolInit => PoolInv
  BY CapsAssumption, TTLAssumption DEF PoolInit, PoolInv,
     PoolTypeOK, SlotStates, BeatBound, DueHeld, Holding

(* A step of one attempt, or of the clock, keeps the invariant: the field of a
   holder was written at most MaxMiss intervals ago. *)
LEMMA NextPoolInv ==
    PoolInv /\ [PoolNext]_poolVars => PoolInv'
  <1> SUFFICES ASSUME PoolInv, [PoolNext]_poolVars PROVE PoolInv'
    OBVIOUS
  <1> USE CapsAssumption, TTLAssumption DEF PoolInv, PoolTypeOK,
              SlotStates, BeatBound, DueHeld, Holding
  <1>1. ASSUME NEW a \in Attempts, Begin(a) PROVE PoolInv'
    BY <1>1 DEF Begin
  <1>2. ASSUME NEW a \in Attempts, Reserve(a) PROVE PoolInv'
    BY <1>2 DEF Reserve
  <1>3. ASSUME NEW a \in Attempts, Refused(a) PROVE PoolInv'
    BY <1>3 DEF Refused
  <1>4. ASSUME NEW a \in Attempts, GiveUp(a) PROVE PoolInv'
    BY <1>4 DEF GiveUp
  <1>5. ASSUME NEW a \in Attempts, Abort(a) PROVE PoolInv'
    BY <1>5 DEF Abort
  <1>6. ASSUME NEW a \in Attempts, ReserveFails(a) PROVE PoolInv'
    BY <1>6 DEF ReserveFails
  <1>7. ASSUME NEW a \in Attempts, ReleaseSlot(a) PROVE PoolInv'
    BY <1>7 DEF ReleaseSlot, Leave
  <1>8. ASSUME NEW a \in Attempts, FinishUnslotted(a) PROVE PoolInv'
    BY <1>8 DEF FinishUnslotted, Leave
  <1>9. ASSUME NEW a \in Attempts, Beat(a) PROVE PoolInv'
    BY <1>9 DEF Beat
  <1>10. ASSUME NEW a \in Attempts, MissBeat(a) PROVE PoolInv'
    BY <1>10 DEF MissBeat
  <1>11. CASE PoolTick
    BY <1>11 DEF PoolTick
  <1>12. CASE PublishCap
    BY <1>12 DEF PublishCap
  <1>13. CASE Restart
    BY <1>13 DEF Restart
  <1>14. CASE UNCHANGED poolVars
    BY <1>14 DEF poolVars
  <1> QED
    BY <1>1, <1>2, <1>3, <1>4, <1>5, <1>6, <1>7, <1>8, <1>9, <1>10,
       <1>11, <1>12, <1>13, <1>14 DEF PoolNext

(* Every variable keeps its type. *)
THEOREM LeaseTypes == PoolSpec => []PoolTypeOK
  <1>0. /\ PoolInit => PoolInv
        /\ PoolInv /\ [PoolNext]_poolVars => PoolInv'
    BY InitPoolInv, NextPoolInv
  <1>1. PoolInv => PoolTypeOK
    BY DEF PoolInv
  <1> QED
    BY <1>0, <1>1, PTL DEF PoolSpec

(* A run holding a slot is always counted by the pool, provided that fewer
   heartbeats are lost in a row than the expiry spans, less one: the last beat
   that could save the field fires when the field is already due to expire. *)
THEOREM HolderIsCounted ==
    ASSUME MaxMiss + 1 < TTL PROVE PoolSpec => []HolderCounted
  <1>0. /\ PoolInit => PoolInv
        /\ PoolInv /\ [PoolNext]_poolVars => PoolInv'
    BY InitPoolInv, NextPoolInv
  <1>1. PoolInv => HolderCounted
    BY TTLAssumption DEF PoolInv, PoolTypeOK, BeatBound,
       HolderCounted
  <1> QED
    BY <1>0, <1>1, PTL DEF PoolSpec

(* Granting a slot to one more run keeps the runs within the cap it compared
   the pool's live fields with. *)
LEMMA GrantWithinCap ==
    ASSUME PoolInv, HolderCounted, NEW a \in Attempts, Reserve(a)
    PROVE  Cardinality(Holding') <= asked[a]
  <1>1. IsFiniteSet(Live) /\ IsFiniteSet(Holding)
    BY AttemptsAssumption, FS_Subset DEF Live, Holding
  <1>2. Cardinality(Holding) <= Cardinality(Live)
    <2>1. Holding \subseteq Live
      BY DEF HolderCounted, Holding, Live
    <2> QED
      BY <1>1, <2>1, FS_Subset
  <1>3. Holding' = Holding \cup {a}
    BY DEF Reserve, Holding, PoolInv, PoolTypeOK
  <1>4. Cardinality(Holding') <= Cardinality(Holding) + 1
    <2>1. a \notin Holding
      BY DEF Reserve, Holding
    <2>2. Cardinality(Holding \cup {a}) = Cardinality(Holding) + 1
      BY <1>1, <2>1, FS_AddElement
    <2> QED
      BY <1>1, <1>3, <2>2, FS_CardinalityType
  <1>5. Cardinality(Live) < asked[a] /\ asked[a] \in Nat
    BY CapsAssumption DEF Reserve, PoolInv, PoolTypeOK
  <1>6. IsFiniteSet(Holding')
    BY <1>1, <1>3, FS_AddElement
  <1> QED
    BY <1>1, <1>2, <1>4, <1>5, <1>6, FS_CardinalityType

(* "The cap is exact across both lanes": whatever the callers, the pool sizes
   and the restarts, a slot is granted only while the runs that hold one,
   including the new one, are within the cap read by the caller. *)
THEOREM CapIsExact ==
    ASSUME MaxMiss + 1 < TTL PROVE PoolSpec => AdmissionWithinCap
  <1>0. /\ PoolInit => PoolInv
        /\ PoolInv /\ [PoolNext]_poolVars => PoolInv'
    BY InitPoolInv, NextPoolInv
  <1>1. PoolInv => HolderCounted
    BY TTLAssumption DEF PoolInv, PoolTypeOK, BeatBound,
       HolderCounted
  <1>2. ASSUME PoolInv, [PoolNext]_poolVars
        PROVE [\A a \in Attempts : st[a] # "holding" /\ st'[a] = "holding"
                  => Cardinality(Holding') <= asked[a]]_poolVars
    <2>1. SUFFICES ASSUME NEW a \in Attempts, PoolNext,
                          st[a] # "holding", st'[a] = "holding"
                   PROVE  Cardinality(Holding') <= asked[a]
      BY <1>2
    <2>2. Reserve(a)
      BY <1>2, <2>1 DEF PoolNext, Begin, Refused, GiveUp, Abort,
         ReserveFails, ReleaseSlot, FinishUnslotted, Leave, Beat,
         MissBeat, PoolTick, PublishCap, Restart, PoolInv, PoolTypeOK,
         Reserve
    <2> QED
      BY <1>1, <1>2, <2>2, GrantWithinCap
  <1> QED
    BY <1>0, <1>2, PTL DEF PoolSpec, AdmissionWithinCap
=============================================================================
