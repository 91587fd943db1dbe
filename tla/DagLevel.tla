----------------------------- MODULE DagLevel ------------------------------
(* One level of a task's DAG, from the planned issues to the checkpoint:
   packages/worker/src/step-engine/dag-executor.ts (resolveDagPhase and the
   coder, review and escalation phases it drives) and the reset a Retry makes of
   it (packages/database/src/dag-reset.ts).

   A pass reads the rows and works through them until it parks on a run, fails
   the step or checkpoints the level.  The worker holds a step's passes to one at
   a time, but nothing holds the rows: a pass dies anywhere, the agents end
   meanwhile, and a Retry resets rows under a pass, which notices only at the
   next write that asks whether the step is still its own.

   What an agent says is chosen when it is read.  An issue's debt, its prompt,
   its files and its branch are left out, but for whether it reported any files
   and whether it was merged; so is the conflict resolution inside a merge. *)
EXTENDS Naturals, FiniteSets

CONSTANTS
    Issues,          \* the level's issues, those a split may add included
    Parent,          \* of those a split may add: the issue split
    MaxInfra,        \* DAG_MAX_INFRA_RETRIES
    MaxIters,        \* MAX_REVIEW_ITERS
    StuckLimit,      \* STUCK_LIMIT
    MaxAdvisor,      \* MAX_ADVISOR_INVOCATIONS
    MaxReplanner,    \* MAX_REPLANNER_INVOCATIONS
    Settings         \* the levels: the issues planned, the sub-issues a split may
                     \* add, whether it is reviewed (task_dag_plans.review_enabled),
                     \* the kinds of fault it may meet, and bounds on how many of
                     \* them and on the Retries

(* "die": the worker dies.  "killed", "free", "cut", "refused", "outage": a run
   is killed, is preempted or never starts, is cut at the output limit, is
   refused by the provider's filter, meets a provider that is down.
   "provider": no provider takes a dispatch.  "merge": git refuses a merge.
   "busy": a Retry is asked for while the step is open, not after it failed. *)
FaultKinds == {"die", "killed", "free", "cut", "refused", "outage", "provider", "merge",
               "busy"}

Subs == DOMAIN Parent

ASSUME LevelAssumption ==
    /\ IsFiniteSet(Issues) /\ Subs \subseteq Issues
    /\ \A j \in Subs : Parent[j] \in Issues
    /\ \A n \in {MaxInfra, MaxIters, MaxAdvisor, MaxReplanner} : n \in Nat
    /\ StuckLimit \in Nat \ {0}
    /\ Settings \subseteq [planned : SUBSET (Issues \ Subs), subs : SUBSET Subs,
                           review : BOOLEAN, kinds : SUBSET FaultKinds,
                           faults : 0..9, clicks : 0..9]

VARIABLES
    setting,    \* the level's, fixed at first
    present,    \* the issues that have a row
    iss,        \* their rows
    coder,      \* the run cli_invocation_id names; "agent": the latest agent's
    agent,      \* the latest dag_agent_runs row of each issue
    replanner,  \* the run replanner_invocation_id names
    replans,    \* replanner_invocations
    outage,     \* an ended run of this attempt met a provider outage
    step,       \* the step's row; "open": running or waiting for an agent
    level,      \* the level's row
    pass,       \* where the pass is, what it has still to do, what it found
    wake,       \* a job that continues the step is queued
    clicks,     \* Retries so far
    faults      \* the kinds of fault so far, and their number

vars == <<setting, present, iss, coder, agent, replanner, replans, outage, step, level, pass,
          wake, clicks, faults>>

ReviewEnabled == setting.review
Children(i) == {j \in setting.subs : Parent[j] = i}

-----------------------------------------------------------------------------
(* Runs.  The second of each is the one retry a run cut at the output limit
   gets.  "unsent": recorded, and its job not queued yet. *)
Unsent(again) == IF again THEN "unsent2" ELSE "unsent"
Sent(r) == CASE r = "unsent" -> "live" [] r = "unsent2" -> "live2" [] OTHER -> r
RunIsLive(r) == r \in {"unsent", "unsent2", "live", "live2"}
Ended == {"ok", "bad", "killed", "free", "cut", "cut2", "refused"}
Runs == {"none", "unsent", "unsent2", "live", "live2"} \cup Ended

NoAgent == [role |-> "none", run |-> "none", used |-> FALSE]
NewAgent(role, again) == [role |-> role, run |-> Unsent(again), used |-> FALSE]

Fresh == [wt |-> FALSE, outcome |-> "pending", res |-> "none", iter |-> 0, stuck |-> 0,
          infra |-> 0, revs |-> 0, adv |-> 0, esc |-> FALSE, err |-> "none",
          files |-> FALSE, merged |-> FALSE]

(* todo: the issues the section has still to see, the first of them in hand;
   seen: the rows as the escalation read them; hold: an agent is in flight, so the
   pass parks; again: the rows changed, so it reads the level again; kids: the
   sub-issues it has still to insert. *)
Off == [at |-> "off", todo |-> {}, seen |-> [i \in Issues |-> Fresh], kids |-> {},
        hold |-> FALSE, again |-> FALSE, next |-> "none"]

(* The write a pass owes the issue in hand: all of it is lost with the worker. *)
Spawns == {"spawnReview", "respawnReview", "respawnReview2", "spawnFix", "spawnAdvisor",
           "spawnAdvisor2", "spawnRetry"}
Verdicts == {"approve", "fix", "fail", "failEnv", "failRefused", "charge"}
Advices == {"accept", "split", "retry", "escalate"}
Nexts == Spawns \cup Verdicts \cup Advices
           \cup {"none", "enqueue", "doAccept", "doSplit", "doRetry", "skip", "abort",
                 "spawnReplanner", "spawnReplanner2"}

IssueRows ==
    [wt : BOOLEAN, outcome : {"pending", "running", "done", "failed"},
     res : {"none", "accepted", "failed", "split", "skipped"},
     iter : Nat, stuck : 0..StuckLimit, infra : 0..MaxInfra,
     revs : 0..MaxInfra, adv : 0..MaxAdvisor, esc : BOOLEAN,
     err : {"none", "cut", "env", "refused"}, files : BOOLEAN, merged : BOOLEAN]

TypeOK ==
    /\ present \subseteq Issues
    /\ iss \in [Issues -> IssueRows]
    /\ coder \in [Issues -> Runs \cup {"agent"}]
    /\ agent \in [Issues -> [role : {"none", "reviewer", "coder", "advisor"},
                             run : Runs, used : BOOLEAN]]
    /\ replanner \in Runs /\ replans \in 0..MaxReplanner
    /\ outage \in BOOLEAN /\ wake \in BOOLEAN
    /\ step \in {"pending", "open", "failed", "done"}
    /\ level \in {"open", "checkpointed"}
    /\ pass \in [at : {"off", "loop", "dispatch", "ingest", "halt", "failures", "review",
                       "escalate", "advise", "merge"},
                 todo : SUBSET Issues, seen : [Issues -> IssueRows],
                 kids : SUBSET Issues, hold : BOOLEAN, again : BOOLEAN, next : Nexts]
    /\ setting \in Settings /\ clicks <= setting.clicks
    /\ faults \in [kinds : SUBSET setting.kinds, count : 0..setting.faults]

Init ==
    /\ setting \in Settings
    /\ present = setting.planned
    /\ iss = [i \in Issues |-> Fresh]
    /\ coder = [i \in Issues |-> "none"]
    /\ agent = [i \in Issues |-> NoAgent]
    /\ replanner = "none" /\ replans = 0
    /\ outage = FALSE /\ wake = FALSE
    /\ step = "pending" /\ level = "open"
    /\ pass = Off
    /\ clicks = 0 /\ faults = [kinds |-> {}, count |-> 0]

rows == <<present, iss, coder, agent, replanner, replans>>
outside == <<outage, wake, clicks>>

Owned == step = "open"

Fault(k) ==
    /\ k \in setting.kinds /\ faults.count < setting.faults
    /\ faults' = [kinds |-> faults.kinds \union {k}, count |-> faults.count + 1]

Go(at, todo) == pass' = [Off EXCEPT !.at = at, !.todo = todo]
Park == pass' = Off
FailStep == step' = "failed" /\ Park

(* The pass is at a and has no write of the issue in hand left to make. *)
At(a) == pass.at = a /\ pass.next = "none"
Then(n) == pass' = [pass EXCEPT !.next = n]
DoneWith(i) == pass' = [pass EXCEPT !.todo = @ \ {i}, !.next = "none"]
HoldFor(i) == pass' = [pass EXCEPT !.todo = @ \ {i}, !.next = "none", !.hold = TRUE]

(* The issue a pass has in hand is the first of those left to do. *)
Hand == CHOOSE i \in pass.todo : TRUE
InHand(i) == pass.todo # {} /\ i = Hand

Set(i, r) == iss' = [iss EXCEPT ![i] = r]

-----------------------------------------------------------------------------
(* A job that continues the step starts a pass, on the attempt it finds. *)
OpenPass ==
    /\ pass.at = "off"
    /\ step = "pending" \/ (step = "open" /\ wake)
    /\ wake' = FALSE
    /\ IF outage /\ step = "open"
       THEN /\ coder' = [i \in Issues |-> IF RunIsLive(coder[i]) THEN "free" ELSE coder[i]]
            /\ agent' = [i \in Issues |->
                 IF RunIsLive(agent[i].run) THEN [agent[i] EXCEPT !.run = "free"] ELSE agent[i]]
            /\ replanner' = IF RunIsLive(replanner) THEN "free" ELSE replanner
            /\ FailStep
       ELSE /\ step' = "open" /\ Go("loop", {})
            /\ UNCHANGED <<coder, agent, replanner>>
    /\ UNCHANGED <<present, iss, replans, outage, level, clicks, faults>>

(* The head of the loop: the rows decide which section the pass is in. *)
CreateWorktree(i) ==
    /\ At("loop") /\ level = "open"
    /\ i \in present /\ ~iss[i].wt
    /\ Set(i, [iss[i] EXCEPT !.wt = TRUE])
    /\ UNCHANGED <<present, coder, agent, replanner, replans, outside, step, level, pass,
                   faults>>

Undispatched == {i \in present : iss[i].outcome = "pending" /\ coder[i] = "none"}
Running == {i \in present : iss[i].outcome = "running"}

CoderFailed == {i \in present : iss[i].outcome = "failed"}
Unreviewed == {i \in present : iss[i].outcome = "done" /\ iss[i].res = "none"}
Failed == {i \in present : iss[i].res = "failed"}
EnvFailures(S) == {i \in S : iss[i].err = "env"}
Halts == EnvFailures(CoderFailed) # {} \/ (CoderFailed # {} /\ ~ReviewEnabled)
Accepted == {i \in present : IF ReviewEnabled THEN iss[i].res = "accepted"
                                              ELSE iss[i].outcome = "done"}
ToMerge == {i \in Accepted : ~iss[i].merged}

ReadLevel ==
    /\ At("loop") /\ level = "open" /\ \A i \in present : iss[i].wt
    /\ CASE Undispatched # {} -> Go("dispatch", Undispatched)
         [] Undispatched = {} /\ Running # {} -> Go("ingest", Running)
         [] Undispatched = {} /\ Running = {} /\ Halts -> Go("halt", {})
         [] OTHER -> IF ReviewEnabled
                     THEN Go("failures", {i \in CoderFailed : iss[i].res = "none"})
                     ELSE Go("merge", ToMerge)
    /\ UNCHANGED <<rows, outside, step, level, faults>>

DagComplete ==
    /\ At("loop") /\ level = "checkpointed" /\ Owned
    /\ step' = "done" /\ Park
    /\ UNCHANGED <<rows, outside, level, faults>>

-----------------------------------------------------------------------------
(* (B) A coder is recorded and named in the claim of its issue, then queued. *)
DispatchCoder(i) ==
    /\ At("dispatch") /\ InHand(i)
    /\ \/ /\ Owned
          /\ Set(i, [iss[i] EXCEPT !.outcome = "running", !.err = "none"])
          /\ coder' = [coder EXCEPT ![i] = Unsent(iss[i].err = "cut")]
          /\ pass' = [pass EXCEPT !.next = "enqueue", !.hold = TRUE]
          /\ UNCHANGED faults
       \/ /\ Fault("provider")
          /\ Set(i, [iss[i] EXCEPT !.outcome = "failed", !.err = "env"])
          /\ DoneWith(i)
          /\ UNCHANGED coder
    /\ UNCHANGED <<present, agent, replanner, replans, outside, step, level>>

(* The job of the run just recorded is queued. *)
Enqueue ==
    /\ pass.next = "enqueue"
    /\ IF pass.todo = {}
       THEN /\ replanner' = Sent(replanner)
            /\ Park
            /\ UNCHANGED <<coder, agent>>
       ELSE /\ coder' = [coder EXCEPT ![Hand] = Sent(@)]
            /\ agent' = [agent EXCEPT ![Hand].run = Sent(@)]
            /\ DoneWith(Hand)
            /\ UNCHANGED replanner
    /\ UNCHANGED <<present, iss, replans, outside, step, level, faults>>

Dispatched ==
    /\ At("dispatch") /\ pass.todo = {}
    /\ IF pass.hold THEN Owned /\ Park ELSE Go("loop", {})
    /\ UNCHANGED <<rows, outside, step, level, faults>>

-----------------------------------------------------------------------------
(* (C) A coder that ended. *)
CoderRun(i) == IF coder[i] = "agent" THEN agent[i].run ELSE coder[i]

CoderAnswers(i, r) ==
    CASE r = "ok" -> {[iss[i] EXCEPT !.outcome = "done", !.files = f] : f \in BOOLEAN}
                       \cup {[iss[i] EXCEPT !.outcome = "failed", !.err = e] : e \in {"none", "env"}}
      [] r = "refused" -> {[iss[i] EXCEPT !.outcome = "failed", !.err = "refused"]}
      [] r = "killed" -> {[iss[i] EXCEPT !.outcome = "failed", !.err = "env"]}
      [] OTHER -> {[iss[i] EXCEPT !.outcome = "failed"]}

(* Is the coder sent again?  Only a killed one is charged to the issue's budget. *)
Redispatched(i, r) ==
    r \in {"free", "cut"} \/ (r = "killed" /\ iss[i].infra < MaxInfra)

IngestCoder(i) ==
    LET r == CoderRun(i)
        charged == iss[i].infra + (IF r = "killed" THEN 1 ELSE 0)
    IN
    /\ At("ingest") /\ InHand(i)
    /\ \/ /\ RunIsLive(r) /\ HoldFor(i)
          /\ UNCHANGED <<iss, coder, agent, faults>>
       \/ /\ r \in Ended /\ Owned /\ ~Redispatched(i, r)
          /\ \E a \in CoderAnswers(i, r) : Set(i, a)
          /\ coder' = [coder EXCEPT ![i] = "none"]
          /\ DoneWith(i)
          /\ UNCHANGED <<agent, faults>>
       \/ /\ r \in Ended /\ Owned /\ Redispatched(i, r) /\ coder[i] # "agent"
          /\ Set(i, [iss[i] EXCEPT !.outcome = "pending", !.infra = charged,
                                   !.err = IF r = "cut" THEN "cut" ELSE "none"])
          /\ coder' = [coder EXCEPT ![i] = "none"]
          /\ DoneWith(i)
          /\ UNCHANGED <<agent, faults>>
       \/ /\ r \in Ended /\ Owned /\ Redispatched(i, r) /\ coder[i] = "agent"
          /\ \/ /\ agent' = [agent EXCEPT ![i] = NewAgent("coder", r = "cut")]
                /\ Set(i, [iss[i] EXCEPT !.infra = charged, !.err = "none"])
                /\ Then("enqueue")
                /\ UNCHANGED <<coder, faults>>
             \/ /\ Fault("provider")
                /\ Set(i, [iss[i] EXCEPT !.outcome = "failed", !.err = "env"])
                /\ coder' = [coder EXCEPT ![i] = "none"]
                /\ DoneWith(i)
                /\ UNCHANGED agent
    /\ UNCHANGED <<present, replanner, replans, outside, step, level>>

Ingested ==
    /\ At("ingest") /\ pass.todo = {}
    /\ IF pass.hold THEN Park ELSE Go("loop", {})
    /\ UNCHANGED <<rows, outside, step, level, faults>>

-----------------------------------------------------------------------------
(* (D) A failure of the environment fails the step, and any does when nothing
   reviews; the others are marked for the escalation.  All from the rows as the
   head of the loop read them. *)
Halt ==
    /\ At("halt") /\ Owned
    /\ FailStep
    /\ UNCHANGED <<rows, outside, level, faults>>

CoderFailures ==
    /\ At("failures")
    /\ iss' = [i \in Issues |-> IF i \in pass.todo THEN [iss[i] EXCEPT !.res = "failed"] ELSE iss[i]]
    /\ Go("review", Unreviewed)
    /\ UNCHANGED <<present, coder, agent, replanner, replans, outside, step, level, faults>>

-----------------------------------------------------------------------------
(* The review of what the coders finished, one issue at a time: the latest agent
   of the issue decides.  A run is marked consumed before what it said is acted
   on, except a fix coder sent again, which is replaced in one transaction. *)
Verdict(i, r) ==
    IF agent[i].role # "reviewer" THEN {"spawnReview"}
    ELSE CASE r = "ok" -> {"approve", "fix", "fail"}
           [] r = "cut" -> {"respawnReview2"}
           [] r = "free" -> {"respawnReview"}
           [] r = "killed" /\ iss[i].revs < MaxInfra -> {"charge"}
           [] OTHER -> {"fail", "failEnv"}

ReviewIssue(i) ==
    LET a == agent[i]
        consumed == agent' = [agent EXCEPT ![i].used = TRUE]
        fixer == a.role # "reviewer"
    IN
    /\ At("review") /\ InHand(i)
    /\ \/ a.role = "none" /\ Then("spawnReview") /\ UNCHANGED <<iss, agent, faults>>
       \/ ~a.used /\ RunIsLive(a.run) /\ DoneWith(i) /\ UNCHANGED <<iss, agent, faults>>
       \/ /\ ~a.used /\ a.run \in Ended /\ Owned
          /\ \/ a.run = "refused" /\ consumed /\ Then("failRefused") /\ UNCHANGED faults
             \/ fixer /\ a.run = "cut2" /\ consumed /\ Then("fail") /\ UNCHANGED faults
             \/ /\ fixer /\ a.run \in {"free", "cut"}
                /\ agent' = [agent EXCEPT ![i] = NewAgent("coder", a.run = "cut")]
                /\ Then("enqueue")
                /\ UNCHANGED faults
             \/ fixer /\ a.run \in {"free", "cut"} /\ Fault("provider") /\ consumed /\ Then("fail")
             \/ /\ a.run # "refused" /\ ~(fixer /\ a.run \in {"cut2", "free", "cut"})
                /\ consumed
                /\ \E n \in Verdict(i, a.run) : Then(n)
                /\ UNCHANGED faults
          /\ UNCHANGED iss
    /\ UNCHANGED <<present, coder, replanner, replans, outside, step, level>>

(* The latest agent was consumed and the issue is still not resolved: the pass that
   consumed it died.  A fresh reviewer, on the reviewer's own budget. *)
ReviewStalledSkips(i) ==
    /\ At("review") /\ InHand(i) /\ agent[i].used
    /\ DoneWith(i)
    /\ UNCHANGED <<rows, outside, step, level, faults>>

ReviewStalled(i) ==
    /\ At("review") /\ InHand(i) /\ agent[i].used
    /\ IF iss[i].revs < MaxInfra
       THEN Set(i, [iss[i] EXCEPT !.revs = @ + 1]) /\ Then("respawnReview")
       ELSE Set(i, [iss[i] EXCEPT !.res = "failed"]) /\ DoneWith(i)
    /\ UNCHANGED <<present, coder, agent, replanner, replans, outside, step, level, faults>>

(* What the verdict writes to the issue.  A round that failed fewer criteria than
   the last counts as its first without progress. *)
ApplyVerdict(i) ==
    LET n == pass.next IN
    /\ n \in Verdicts /\ InHand(i)
    /\ \/ n = "approve" /\ Set(i, [iss[i] EXCEPT !.res = "accepted"]) /\ DoneWith(i)
       \/ n = "fail" /\ Set(i, [iss[i] EXCEPT !.res = "failed"]) /\ DoneWith(i)
       \/ n = "failEnv" /\ Set(i, [iss[i] EXCEPT !.res = "failed", !.err = "env"]) /\ DoneWith(i)
       \/ n = "failRefused" /\ Set(i, [iss[i] EXCEPT !.res = "failed", !.err = "refused"])
                            /\ DoneWith(i)
       \/ n = "charge" /\ Set(i, [iss[i] EXCEPT !.revs = @ + 1]) /\ Then("respawnReview")
       \/ /\ n = "fix"
          /\ \E stuck \in {iss[i].stuck + 1} \cup (IF iss[i].stuck > 0 THEN {1} ELSE {}) :
                LET counted == [iss[i] EXCEPT !.stuck = stuck, !.iter = @ + 1] IN
                \/ /\ stuck >= StuckLimit
                   /\ Set(i, [counted EXCEPT !.outcome = "done", !.res = "accepted"])
                   /\ DoneWith(i)
                \/ /\ stuck < StuckLimit /\ counted.iter >= MaxIters
                   /\ Set(i, [counted EXCEPT !.res = "failed"])
                   /\ DoneWith(i)
                \/ /\ stuck < StuckLimit /\ counted.iter < MaxIters
                   /\ Set(i, counted)
                   /\ Then("spawnFix")
    /\ UNCHANGED <<present, coder, agent, replanner, replans, outside, step, level, faults>>

(* An agent for the issue in hand: its run, its row and the claim are recorded
   while the step is still the pass's own, and then its job is queued. *)
SpawnRole(n) == CASE n \in {"spawnReview", "respawnReview", "respawnReview2"} -> "reviewer"
                  [] n \in {"spawnFix", "spawnRetry"} -> "coder"
                  [] OTHER -> "advisor"

NotSpawned(i, n) ==
    CASE SpawnRole(n) = "advisor" -> [iss[i] EXCEPT !.esc = TRUE]
      [] n \in {"respawnReview", "respawnReview2"} -> [iss[i] EXCEPT !.res = "failed", !.err = "env"]
      [] OTHER -> [iss[i] EXCEPT !.res = "failed"]

SpawnAgentUnowned(i) ==
    LET n == pass.next IN
    /\ n \in Spawns /\ InHand(i)
    /\ \/ /\ agent' = [agent EXCEPT ![i] =
                         NewAgent(SpawnRole(n), n \in {"respawnReview2", "spawnAdvisor2"})]
          /\ IF n = "spawnRetry"
             THEN /\ Set(i, [iss[i] EXCEPT !.outcome = "running", !.err = "none"])
                  /\ coder' = [coder EXCEPT ![i] = "agent"]
             ELSE UNCHANGED <<iss, coder>>
          /\ pass' = [pass EXCEPT !.next = "enqueue", !.hold = @ \/ pass.at = "advise"]
          /\ UNCHANGED faults
       \/ /\ Fault("provider")
          /\ Set(i, NotSpawned(i, n))
          /\ IF n = "spawnRetry" THEN HoldFor(i) ELSE DoneWith(i)
          /\ UNCHANGED <<agent, coder>>
    /\ UNCHANGED <<present, replanner, replans, outside, step, level>>

SpawnAgent(i) ==
    LET n == pass.next IN
    /\ n \in Spawns /\ InHand(i)
    /\ \/ /\ Owned
          /\ agent' = [agent EXCEPT ![i] =
                         NewAgent(SpawnRole(n), n \in {"respawnReview2", "spawnAdvisor2"})]
          /\ IF n = "spawnRetry"
             THEN /\ Set(i, [iss[i] EXCEPT !.outcome = "running", !.err = "none"])
                  /\ coder' = [coder EXCEPT ![i] = "agent"]
             ELSE UNCHANGED <<iss, coder>>
          /\ pass' = [pass EXCEPT !.next = "enqueue", !.hold = @ \/ pass.at = "advise"]
          /\ UNCHANGED faults
       \/ /\ Fault("provider")
          /\ Set(i, NotSpawned(i, n))
          /\ IF n = "spawnRetry" THEN HoldFor(i) ELSE DoneWith(i)
          /\ UNCHANGED <<agent, coder>>
    /\ UNCHANGED <<present, replanner, replans, outside, step, level>>

Reviewed ==
    /\ At("review") /\ pass.todo = {}
    /\ \/ Unreviewed # {} /\ Owned /\ Park /\ UNCHANGED step
       \/ Unreviewed = {} /\ EnvFailures(Failed) # {} /\ Owned /\ FailStep
       \/ Unreviewed = {} /\ EnvFailures(Failed) = {} /\ UNCHANGED step
          /\ pass' = [Off EXCEPT !.at = "escalate", !.todo = Failed, !.seen = iss]
    /\ UNCHANGED <<rows, outside, level, faults>>

-----------------------------------------------------------------------------
(* The escalation of what failed: the replanner the plan names, if any. *)
Escalate ==
    /\ At("escalate")
    /\ \/ /\ replanner = "none"
          /\ IF pass.todo = {} THEN Go("merge", ToMerge)
                               ELSE pass' = [pass EXCEPT !.at = "advise"]
          /\ UNCHANGED <<replanner, replans>>
       \/ RunIsLive(replanner) /\ Park /\ UNCHANGED <<replanner, replans>>
       \/ /\ replanner \in {"free", "cut"} /\ Owned
          /\ replanner' = "none"
          /\ IF replanner = "cut" THEN Then("spawnReplanner2") ELSE Go("loop", {})
          /\ UNCHANGED replans
       \/ /\ replanner \in Ended \ {"free", "cut"} /\ Owned
          /\ replanner' = "none" /\ replans' = replans + 1
          /\ \/ Then("abort")
             \/ replanner = "ok" /\ Then("skip")
    /\ UNCHANGED <<present, iss, coder, agent, outside, step, level, faults>>

Abort ==
    /\ pass.next = "abort" /\ Owned
    /\ FailStep
    /\ UNCHANGED <<rows, outside, level, faults>>

SkipIssue(i) ==
    /\ pass.next = "skip" /\ InHand(i)
    /\ Set(i, [iss[i] EXCEPT !.res = "skipped"])
    /\ pass' = [pass EXCEPT !.todo = @ \ {i}]
    /\ UNCHANGED <<present, coder, agent, replanner, replans, outside, step, level, faults>>

Skipped ==
    /\ pass.next = "skip" /\ pass.todo = {}
    /\ Go("loop", {})
    /\ UNCHANGED <<rows, outside, step, level, faults>>

(* The advisor of each issue that failed. *)
Advice(i, r) ==
    CASE r = "free" -> {"spawnAdvisor"}
      [] r = "cut" -> {"spawnAdvisor2"}
      [] r = "ok" -> {"accept", "retry", "escalate"}
                       \cup (IF Children(i) # {} THEN {"split"} ELSE {})
      [] OTHER -> {"escalate"}

LeftEscalated(i) == pass.seen[i].esc
LeftAlone(i) == pass.seen[i].err = "refused" \/ pass.seen[i].esc

AdviseIssue(i) ==
    LET a == agent[i]
        seen == pass.seen[i]
        left == LeftAlone(i)
        asked == a.role = "advisor" /\ ~a.used
    IN
    /\ At("advise") /\ InHand(i)
    /\ \/ left /\ DoneWith(i) /\ UNCHANGED <<iss, agent>>
       \/ ~left /\ asked /\ RunIsLive(a.run) /\ HoldFor(i) /\ UNCHANGED <<iss, agent>>
       \/ /\ ~left /\ asked /\ a.run \in Ended /\ Owned
          /\ agent' = [agent EXCEPT ![i].used = TRUE]
          /\ \E n \in Advice(i, a.run) : Then(n)
          /\ UNCHANGED iss
       \/ /\ ~left /\ ~asked /\ seen.adv < MaxAdvisor
          /\ Then("spawnAdvisor")
          /\ UNCHANGED <<iss, agent>>
       \/ /\ ~left /\ ~asked /\ seen.adv >= MaxAdvisor
          /\ Set(i, [iss[i] EXCEPT !.esc = TRUE])
          /\ DoneWith(i)
          /\ UNCHANGED agent
    /\ UNCHANGED <<present, coder, replanner, replans, outside, step, level, faults>>

(* A split that names no sub-issue makes one of the issue itself. *)
NoSubIssues(i) == {}
SubIssues(i) == Children(i)

(* The advice is counted, and then taken. *)
CountAdvice(i) ==
    LET n == pass.next
        does == CASE n = "accept" -> "doAccept" [] n = "split" -> "doSplit"
                  [] n = "retry" -> "doRetry" [] OTHER -> "none"
    IN
    /\ n \in Advices /\ InHand(i)
    /\ Set(i, [iss[i] EXCEPT !.adv = pass.seen[i].adv + 1, !.esc = (n = "escalate")])
    /\ pass' = [pass EXCEPT !.next = does,
                            !.kids = IF n = "split" THEN SubIssues(i) ELSE {},
                            !.todo = IF n = "escalate" THEN @ \ {i} ELSE @]
    /\ UNCHANGED <<present, coder, agent, replanner, replans, outside, step, level, faults>>

AcceptAdvised(i) ==
    /\ pass.next = "doAccept" /\ InHand(i)
    /\ Set(i, IF pass.seen[i].files THEN [iss[i] EXCEPT !.outcome = "done", !.res = "accepted"]
                              ELSE [iss[i] EXCEPT !.esc = TRUE])
    /\ DoneWith(i)
    /\ UNCHANGED <<present, coder, agent, replanner, replans, outside, step, level, faults>>

RetryAdvised(i) ==
    /\ pass.next = "doRetry" /\ InHand(i)
    /\ Set(i, [iss[i] EXCEPT !.res = "none", !.iter = pass.seen[i].iter + 1])
    /\ Then("spawnRetry")
    /\ UNCHANGED <<present, coder, agent, replanner, replans, outside, step, level, faults>>

(* A sub-issue's key is its parent's with a number: one inserted before is
   refused by the index, and the pass fails the step with that error. *)
InsertSubIssue(j) ==
    /\ pass.next = "doSplit" /\ j \in pass.kids
    /\ j = CHOOSE k \in pass.kids : TRUE
    /\ \/ /\ j \notin present
          /\ present' = present \cup {j}
          /\ pass' = [pass EXCEPT !.kids = @ \ {j}]
          /\ UNCHANGED step
       \/ j \in present /\ Owned /\ FailStep /\ UNCHANGED present
    /\ UNCHANGED <<iss, coder, agent, replanner, replans, outside, level, faults>>

SplitDone(i) ==
    /\ pass.next = "doSplit" /\ pass.kids = {} /\ InHand(i)
    /\ Set(i, [iss[i] EXCEPT !.res = "split"])
    /\ pass' = [pass EXCEPT !.todo = @ \ {i}, !.next = "none", !.again = TRUE]
    /\ UNCHANGED <<present, coder, agent, replanner, replans, outside, step, level, faults>>

(* Every failed issue has been seen: the replanner when the failures are broad. *)
Refused == {i \in Issues : pass.seen[i].res = "failed" /\ pass.seen[i].err = "refused"}
Trigger ==
    \/ \E i \in Failed : iss[i].esc
    \/ Cardinality(Failed) >= 2
    \/ 10 * Cardinality(Failed) >= 8 * Cardinality(present)

Replans == Trigger /\ replans < MaxReplanner

Advised ==
    /\ At("advise") /\ pass.todo = {}
    /\ \/ pass.hold /\ Owned /\ Park /\ UNCHANGED step
       \/ ~pass.hold /\ pass.again /\ Go("loop", {}) /\ UNCHANGED step
       \/ ~pass.hold /\ ~pass.again /\ Refused # {} /\ Owned /\ FailStep
       \/ /\ ~pass.hold /\ ~pass.again /\ Refused = {}
          /\ \/ Failed = {} /\ Go("loop", {}) /\ UNCHANGED step
             \/ Failed # {} /\ ~Replans /\ Owned /\ FailStep
             \/ Failed # {} /\ Replans /\ Then("spawnReplanner") /\ UNCHANGED step
    /\ UNCHANGED <<rows, outside, level, faults>>

SpawnReplanner ==
    LET n == pass.next IN
    /\ n \in {"spawnReplanner", "spawnReplanner2"}
    /\ \/ /\ Owned
          /\ replanner' = Unsent(n = "spawnReplanner2")
          /\ pass' = [pass EXCEPT !.next = "enqueue", !.todo = {}]
          /\ UNCHANGED <<step, faults>>
       \/ /\ Fault("provider")
          /\ IF n = "spawnReplanner" THEN Owned /\ FailStep ELSE Go("loop", {}) /\ UNCHANGED step
          /\ UNCHANGED replanner
    /\ UNCHANGED <<present, iss, coder, agent, replans, outside, level>>

-----------------------------------------------------------------------------
(* (E), (F) The branches are merged one by one, and the level is checkpointed. *)
MergeIssue(i) ==
    /\ At("merge") /\ InHand(i)
    /\ \/ /\ Set(i, [iss[i] EXCEPT !.merged = TRUE])
          /\ DoneWith(i)
          /\ UNCHANGED <<step, faults>>
       \/ Fault("merge") /\ Owned /\ FailStep /\ UNCHANGED iss
    /\ UNCHANGED <<present, coder, agent, replanner, replans, outside, level>>

Checkpoint ==
    /\ At("merge") /\ pass.todo = {}
    /\ level' = "checkpointed"
    /\ Go("loop", {})
    /\ UNCHANGED <<rows, outside, step, faults>>

(* Where a pass asks whether the step is still its own, and finds it is not. *)
AsksOwner ==
    \/ pass.next \in Spawns \cup {"abort", "spawnReplanner", "spawnReplanner2"}
    \/ pass.next = "doSplit" /\ pass.kids \cap present # {}
    \/ At("loop") /\ level = "checkpointed"
    \/ At("dispatch") /\ (pass.todo # {} \/ pass.hold)
    \/ At("ingest") /\ pass.todo # {} /\ CoderRun(Hand) \in Ended
    \/ At("halt")
    \/ At("review") /\ pass.todo # {} /\ ~agent[Hand].used /\ agent[Hand].run \in Ended
    \/ At("review") /\ pass.todo = {} /\ (Unreviewed # {} \/ EnvFailures(Failed) # {})
    \/ At("escalate") /\ replanner \in Ended
    \/ At("advise") /\ pass.todo # {} /\ ~agent[Hand].used /\ agent[Hand].run \in Ended
    \/ At("advise") /\ pass.todo = {}
    \/ At("merge") /\ pass.todo # {} /\ "merge" \in setting.kinds

Superseded ==
    /\ ~Owned /\ AsksOwner
    /\ Park
    /\ UNCHANGED <<rows, outside, step, level, faults>>

-----------------------------------------------------------------------------
(* Around the pass.  A run ends and queues a job that continues the step. *)
EndsAs(r, e) == IF r = "live2" /\ e = "cut" THEN "cut2" ELSE e

EndRun(e) ==
    /\ \/ e \in {"ok", "bad"} /\ UNCHANGED <<faults, outage>>
       \/ e \in {"killed", "free", "cut", "refused"} /\ Fault(e) /\ UNCHANGED outage
       \/ e = "bad" /\ Fault("outage") /\ outage' = TRUE
    /\ \/ \E i \in present : /\ coder[i] \in {"live", "live2"}
                             /\ coder' = [coder EXCEPT ![i] = EndsAs(@, e)]
                             /\ UNCHANGED <<agent, replanner>>
       \/ \E i \in present : /\ agent[i].run \in {"live", "live2"}
                             /\ agent' = [agent EXCEPT ![i].run = EndsAs(@, e)]
                             /\ UNCHANGED <<coder, replanner>>
       \/ /\ replanner \in {"live", "live2"}
          /\ replanner' = EndsAs(replanner, e)
          /\ UNCHANGED <<coder, agent>>
    /\ wake' = TRUE
    /\ UNCHANGED <<setting, present, iss, replans, step, level, pass, clicks>>

(* recoverParkedStep: a run that had started is ended, and so is one recorded and
   never queued; one whose job still waits in the queue stays live. *)
Orphaned(r, queued) ==
    CASE r \in {"live", "live2"} -> IF queued THEN r ELSE "killed"
      [] r \in {"unsent", "unsent2"} -> "free"
      [] OTHER -> r

(* The worker dies with its pass and the runs it had started; its jobs are
   delivered again. *)
Die ==
    /\ Fault("die") /\ step = "open"
    /\ pass' = Off /\ wake' = TRUE
    /\ \E queued \in SUBSET Issues :
          /\ coder' = [i \in Issues |-> Orphaned(coder[i], i \in queued)]
          /\ agent' = [i \in Issues |-> [agent[i] EXCEPT !.run = Orphaned(@, i \in queued)]]
    /\ \E queued \in BOOLEAN : replanner' = Orphaned(replanner, queued)
    /\ UNCHANGED <<setting, present, iss, replans, outage, step, level, clicks>>

AnyLive ==
    \/ \E i \in present : RunIsLive(coder[i]) \/ RunIsLive(agent[i].run)
    \/ RunIsLive(replanner)

(* The sweep continues a step that waits for an agent and has none. *)
Sweep ==
    /\ step = "open" /\ pass.at = "off" /\ ~wake /\ ~AnyLive
    /\ wake' = TRUE
    /\ UNCHANGED <<setting, rows, outage, step, level, pass, clicks, faults>>

(* A Retry supersedes the step's runs, which is read as never having answered
   wherever that is asked before the answer is. *)
SupersededAs(role, r) ==
    IF \/ RunIsLive(r) \/ r = "killed"
       \/ role = "coder" /\ r = "bad"
       \/ role \in {"advisor", "replanner"} /\ r \in Ended
    THEN "free" ELSE r

IsStuck(i) == TRUE
IsStuckFailed(i) ==
    iss[i].res = "failed" \/ (iss[i].outcome = "failed" /\ iss[i].res = "none")

Retry ==
    LET stuck == IF level = "open" THEN {i \in present : IsStuckFailed(i)} ELSE {}
        fixer(i) == IF coder[i] = "agent" THEN "level" ELSE agent[i].role
    IN
    /\ clicks < setting.clicks /\ clicks' = clicks + 1
    /\ \/ step = "failed" /\ UNCHANGED faults
       \/ step = "open" /\ Fault("busy")
    /\ step' = "pending" /\ outage' = FALSE
    /\ iss' = [i \in Issues |-> IF i \in stuck THEN [Fresh EXCEPT !.wt = iss[i].wt] ELSE iss[i]]
    /\ coder' = [i \in Issues |-> IF i \in stuck THEN "none" ELSE SupersededAs("level", coder[i])]
    /\ agent' = [i \in Issues |->
                   IF i \in stuck THEN NoAgent
                   ELSE [agent[i] EXCEPT !.run = SupersededAs(fixer(i), @)]]
    /\ replanner' = SupersededAs("replanner", replanner)
    /\ UNCHANGED <<setting, present, replans, level, pass, wake>>

-----------------------------------------------------------------------------
PassStep ==
    /\ \/ OpenPass \/ Superseded \/ ReadLevel \/ DagComplete \/ Enqueue \/ Dispatched
       \/ Ingested \/ Halt \/ CoderFailures \/ Reviewed \/ Escalate \/ Abort \/ Skipped \/ Advised
       \/ SpawnReplanner \/ Checkpoint
       \/ \E i \in Issues :
            \/ CreateWorktree(i) \/ DispatchCoder(i) \/ IngestCoder(i) \/ ReviewIssue(i) \/ ReviewStalled(i)
            \/ ApplyVerdict(i) \/ SpawnAgent(i) \/ SkipIssue(i) \/ AdviseIssue(i)
            \/ CountAdvice(i) \/ AcceptAdvised(i) \/ RetryAdvised(i) \/ InsertSubIssue(i)
            \/ SplitDone(i) \/ MergeIssue(i)
    /\ UNCHANGED setting

Endings == {"ok", "bad", "killed", "free", "cut", "refused"}

Next == PassStep \/ (\E e \in Endings : EndRun(e)) \/ Die \/ Sweep \/ Retry

Spec == Init /\ [][Next]_vars

(* The worker takes the jobs it has and its passes go on, a run ends within its
   time budget, and the sweep runs every minute. *)
FairSpec ==
    /\ Spec
    /\ WF_vars(PassStep) /\ WF_vars(\E e \in Endings : EndRun(e)) /\ WF_vars(Sweep)

-----------------------------------------------------------------------------
(* A step never waits for an agent that is not there: when no pass runs and no
   job is queued, some run is in flight, and its end queues one.  The sweep that
   would find such a step minutes later is the net, not the mechanism.  The one
   exception is a pass that found no provider: it parks with nothing in flight. *)
NoDeadWait ==
    step = "open" /\ pass.at = "off" /\ ~wake /\ "provider" \notin faults.kinds => AnyLive

(* A reviewed step that was retried while a pass was in it: the pass and the reset
   write the same rows, and neither asks which attempt the other's belong to. *)
Overwritten == ReviewEnabled /\ "busy" \in faults.kinds

(* A checkpointed level is whole: what each of its issues was planned for has been
   merged, was skipped by the replanner, or is in the sub-issues it was split into,
   whatever passes died and whatever was retried on the way. *)
CheckpointWhole ==
    level = "checkpointed" /\ ~Overwritten =>
        \A i \in present : \/ iss[i].merged
                           \/ iss[i].res = "skipped"
                           \/ iss[i].res = "split" /\ Children(i) \subseteq present

Dispatches(i) ==
    \/ coder'[i] \in {"unsent", "unsent2"} /\ coder[i] # coder'[i]
    \/ agent'[i].run \in {"unsent", "unsent2"} /\ agent[i] # agent'[i]

(* No agent is sent into an issue's worktree while another run of the issue is in
   flight by its row: the container of a run that a Retry superseded is killed only
   after the Retry's commit. *)
OneWriter ==
    [][\A i \in Issues :
         Dispatches(i) => ~RunIsLive(coder[i]) /\ ~RunIsLive(agent[i].run)]_vars

(* An agent is sent only where work is due.  Work of a coder, a fixer or a reviewer
   that the provider refused is not sent to it again, to another agent of the issue or
   to the replanner, until a Retry (a refused advisor is read as ESCALATE instead); an
   issue that is merged stays merged, and one that is merged, skipped or split is
   never worked on again. *)
SentWhereDue ==
    [][\A i \in present :
         /\ iss[i].err = "refused" /\ iss[i].res = "failed" =>
               /\ ~Dispatches(i)
               /\ ~(replanner = "none" /\ RunIsLive(replanner'))
         /\ ~Overwritten =>
               /\ iss[i].merged => iss'[i].merged
               /\ Dispatches(i) => ~iss[i].merged /\ iss[i].res \notin {"skipped", "split"}]_vars

(* Every attempt at the level ends: checkpointed, or failed for a person to see. *)
LevelEnds == step = "pending" ~> step \in {"done", "failed"}

(* The rows are of their types, their budgets kept, and what a parked step and a
   checkpointed level say of the agents and the issues is so. *)
LevelSound == TypeOK /\ NoDeadWait /\ CheckpointWhole
=============================================================================
