----------------------------- MODULE AgentLease -----------------------------
(* The agent slot pool of packages/worker/src/queues/cli-exec/agent-lease.ts:
   one Redis hash whose fields are slots, each with its own expiry.  An INVOKE
   job (enforceAgentLaneCap in handlers.ts) and a step's own command
   (runStepCommandInSandbox) reserve through one Lua script, refresh their
   field with a heartbeat while they run, and delete it when they leave.

   A field name is fresh for every reservation (a job's lock token, a uuid),
   so an attempt and its field are one element of Attempts.  Time is counted
   in heartbeat intervals.  The names differ from those of RootClaim, whose
   proofs share a module with this one's. *)
EXTENDS Naturals, FiniteSets

CONSTANTS
    Attempts,   \* reservations, each with its own field of the hash
    Invokes,    \* those made by INVOKE jobs; the others are step-command leases
    Caps,       \* the pool sizes the cap re-read may publish
    TTL,        \* LEASE_TTL_MS / HEARTBEAT_MS
    MaxMiss,    \* consecutive heartbeats that may be lost
    MaxTries    \* polls before a wait times out

ASSUME AttemptsAssumption == IsFiniteSet(Attempts) /\ Invokes \subseteq Attempts
ASSUME CapsAssumption == Caps # {} /\ Caps \subseteq Nat \ {0}
ASSUME TTLAssumption == TTL \in Nat \ {0} /\ MaxMiss \in Nat /\ MaxTries \in Nat

VARIABLES
    cap,        \* publishedAgentCap
    st,         \* where each attempt is
    asked,      \* the cap an attempt compares against, read before its script runs
    refusals,   \* refusals of each attempt so far
    ttl,        \* intervals until the field expires; 0: absent or expired
    beats       \* the holders whose heartbeat timer fired and whose HSET is not done

poolVars == <<cap, st, asked, refusals, ttl, beats>>

(* "waiting": in the retry or poll loop.  "holding": running with a slot.
   "unslotted": an INVOKE job let through because Redis failed. *)
SlotStates == {"idle", "waiting", "holding", "unslotted"}

Holding == {a \in Attempts : st[a] = "holding"}
Live == {a \in Attempts : ttl[a] > 0}

PoolTypeOK ==
    /\ cap \in Caps
    /\ st \in [Attempts -> SlotStates]
    /\ asked \in [Attempts -> Caps]
    /\ refusals \in [Attempts -> 0..MaxTries]
    /\ ttl \in [Attempts -> 0..TTL]
    /\ beats \subseteq Attempts

PoolInit ==
    /\ cap \in Caps
    /\ st = [a \in Attempts |-> "idle"]
    /\ asked = [a \in Attempts |-> cap]
    /\ refusals = [a \in Attempts |-> 0]
    /\ ttl = [a \in Attempts |-> 0]
    /\ beats = {}

Leave(a) ==
    /\ st' = [st EXCEPT ![a] = "idle"]
    /\ beats' = beats \ {a}

-----------------------------------------------------------------------------
(* A job is picked up, or a step command asks for a slot: it reads the
   published cap.  Its field name is fresh, so no old field carries it. *)
Begin(a) ==
    /\ st[a] = "idle"
    /\ ttl[a] = 0
    /\ st' = [st EXCEPT ![a] = "waiting"]
    /\ asked' = [asked EXCEPT ![a] = cap]
    /\ refusals' = [refusals EXCEPT ![a] = 0]
    /\ UNCHANGED <<cap, ttl, beats>>

(* Mutant: the script admits one run too many. *)
ReserveOffByOne(a) ==
    /\ st[a] = "waiting"
    /\ Cardinality(Live) <= asked[a]
    /\ ttl' = [ttl EXCEPT ![a] = TTL]
    /\ st' = [st EXCEPT ![a] = "holding"]
    /\ beats' = beats \ {a}
    /\ UNCHANGED <<cap, asked, refusals>>

(* ACQUIRE_LEASE_SCRIPT on a field the pool does not hold: expired fields are
   pruned, and the field is inserted only while the live ones are below the
   cap.  The heartbeat timer starts with the slot. *)
Reserve(a) ==
    /\ st[a] = "waiting"
    /\ Cardinality(Live) < asked[a]
    /\ ttl' = [ttl EXCEPT ![a] = TTL]
    /\ st' = [st EXCEPT ![a] = "holding"]
    /\ beats' = beats \ {a}
    /\ UNCHANGED <<cap, asked, refusals>>

(* Mutant: the wait has no deadline. *)
RefusedForever(a) ==
    /\ st[a] = "waiting"
    /\ Cardinality(Live) >= asked[a]
    /\ asked' = [asked EXCEPT ![a] = cap]
    /\ UNCHANGED <<cap, st, refusals, ttl, beats>>

(* A refused attempt polls again.  A step command reads the cap again
   (attempt); an INVOKE job keeps the cap it was called with. *)
Refused(a) ==
    /\ st[a] = "waiting"
    /\ Cardinality(Live) >= asked[a]
    /\ refusals[a] < MaxTries
    /\ refusals' = [refusals EXCEPT ![a] = @ + 1]
    /\ asked' = [asked EXCEPT ![a] = IF a \in Invokes THEN @ ELSE cap]
    /\ UNCHANGED <<cap, st, ttl, beats>>

(* The wait times out on a refusal: AgentLeaseTimeoutError, or the job defers
   itself.  A defer that fails lets the job through with no slot. *)
GiveUp(a) ==
    /\ st[a] = "waiting"
    /\ Cardinality(Live) >= asked[a]
    /\ refusals[a] = MaxTries
    /\ \/ st' = [st EXCEPT ![a] = "idle"]
       \/ a \in Invokes /\ st' = [st EXCEPT ![a] = "unslotted"]
    /\ UNCHANGED <<cap, asked, refusals, ttl, beats>>

(* The step's signal fires: AgentLeaseAbortedError. *)
Abort(a) ==
    /\ st[a] = "waiting"
    /\ a \notin Invokes
    /\ st' = [st EXCEPT ![a] = "idle"]
    /\ UNCHANGED <<cap, asked, refusals, ttl, beats>>

(* The script's call fails, before the script ran or with its answer lost on
   the way back: nobody owns the field then.  An INVOKE job is let through with
   no slot, a step command fails. *)
ReserveFails(a) ==
    /\ st[a] = "waiting"
    /\ st' = [st EXCEPT ![a] = IF a \in Invokes THEN "unslotted" ELSE "idle"]
    /\ \/ ttl' = ttl
       \/ Cardinality(Live) < asked[a] /\ ttl' = [ttl EXCEPT ![a] = TTL]
    /\ UNCHANGED <<cap, asked, refusals, beats>>

(* The holder leaves: its timer is cleared, and HDEL frees the field.  A
   failed HDEL is logged and leaves the field to its expiry. *)
ReleaseSlot(a) ==
    /\ st[a] = "holding"
    /\ Leave(a)
    /\ \/ ttl' = [ttl EXCEPT ![a] = 0]
       \/ ttl' = ttl
    /\ UNCHANGED <<cap, asked, refusals>>

FinishUnslotted(a) ==
    /\ st[a] = "unslotted"
    /\ Leave(a)
    /\ UNCHANGED <<cap, asked, refusals, ttl>>

(* Mutant: the timer's write does not move the expiry. *)
BeatKeepsExpiry(a) ==
    /\ a \in beats
    /\ beats' = beats \ {a}
    /\ UNCHANGED <<cap, st, asked, refusals, ttl>>

(* The timer's HSET writes the field whatever the hash holds: no cap check,
   and a field that expired meanwhile is back. *)
Beat(a) ==
    /\ a \in beats
    /\ ttl' = [ttl EXCEPT ![a] = TTL]
    /\ beats' = beats \ {a}
    /\ UNCHANGED <<cap, st, asked, refusals>>

(* The HSET fails and is logged.  TTL - ttl[a] intervals have passed since the
   field was last written. *)
MissBeat(a) ==
    /\ a \in beats
    /\ TTL - ttl[a] <= MaxMiss
    /\ beats' = beats \ {a}
    /\ UNCHANGED <<cap, st, asked, refusals, ttl>>

(* Mutant: release does not clear the timer, so a freed or dead slot beats on. *)
PoolTickTimersLeak ==
    /\ beats = {}
    /\ \E a \in Attempts : ttl[a] > 0
    /\ ttl' = [a \in Attempts |-> IF ttl[a] > 0 THEN ttl[a] - 1 ELSE 0]
    /\ beats' = Live
    /\ UNCHANGED <<cap, st, asked, refusals>>

(* One heartbeat interval passes: every field is that much nearer its expiry,
   and every holder's timer fires. *)
PoolTick ==
    /\ beats = {}
    /\ \E a \in Attempts : ttl[a] > 0
    /\ ttl' = [a \in Attempts |-> IF ttl[a] > 0 THEN ttl[a] - 1 ELSE 0]
    /\ beats' = Holding
    /\ UNCHANGED <<cap, st, asked, refusals>>

(* The 30-second re-read publishes the pool's current size. *)
PublishCap ==
    /\ \E c \in Caps \ {cap} : cap' = c
    /\ UNCHANGED <<st, asked, refusals, ttl, beats>>

(* The worker dies and boots: every run is gone with its sandbox, and
   clearAgentLeases wipes the hash, or fails and is logged. *)
Restart ==
    /\ st' = [a \in Attempts |-> "idle"]
    /\ beats' = {}
    /\ \/ ttl' = [a \in Attempts |-> 0]
       \/ ttl' = ttl
    /\ UNCHANGED <<cap, asked, refusals>>

PoolNext ==
    \/ \E a \in Attempts :
        \/ Begin(a) \/ Reserve(a) \/ Refused(a) \/ GiveUp(a) \/ Abort(a)
        \/ ReserveFails(a)
        \/ ReleaseSlot(a) \/ FinishUnslotted(a) \/ Beat(a) \/ MissBeat(a)
    \/ PoolTick
    \/ PublishCap
    \/ Restart

(* Timers run (Tick, Beat), a waiter keeps polling, and a sandboxed run ends
   by its own timeout, so its holder leaves. *)
Fairness ==
    /\ WF_poolVars(PoolTick)
    /\ \A a \in Attempts :
        /\ WF_poolVars(Beat(a) \/ MissBeat(a))
        /\ WF_poolVars(ReleaseSlot(a))
        /\ WF_poolVars(FinishUnslotted(a))
        /\ WF_poolVars(Reserve(a) \/ Refused(a) \/ GiveUp(a))

PoolSpec == PoolInit /\ [][PoolNext]_poolVars /\ Fairness

-----------------------------------------------------------------------------
(* A run that holds a slot is counted by the pool: while it runs its field has
   not expired, even between its timer firing and the write. *)
HolderCounted == \A a \in Attempts : st[a] = "holding" => ttl[a] > 0

(* The strengthening of HolderCounted that a step preserves: the field was
   written within the last MaxMiss intervals, one more while a beat is due. *)
BeatBound ==
    \A a \in Attempts : st[a] = "holding" =>
        ttl[a] + MaxMiss + (IF a \in beats THEN 1 ELSE 0) >= TTL

(* Only a holder's timer is pending: a released or dead run sends no beat. *)
DueHeld == beats \subseteq Holding

(* "The cap holds exactly across the two lanes": a reservation is granted only
   if the runs holding a slot, itself included, are within the cap it read.
   It counts runs, not fields. *)
AdmissionWithinCap ==
    [][\A a \in Attempts : st[a] # "holding" /\ st'[a] = "holding"
            => Cardinality(Holding') <= asked[a]]_poolVars

(* A slot whose holder is gone (a failed HDEL, a dead worker, a failed wipe)
   does not count against the pool for good. *)
SlotReturns ==
    \A a \in Attempts : st[a] = "idle" /\ ttl[a] > 0 ~> ttl[a] = 0

(* A caller waiting for a slot gets one, runs without one, or gives up. *)
WaitEnds == \A a \in Attempts : st[a] = "waiting" ~> st[a] # "waiting"
=============================================================================
