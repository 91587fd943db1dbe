-------------------------- MODULE DagLevel_proofs --------------------------
(* Proofs about DagLevel for every set of issues, every limit and every setting: that
   the level's rows are sound and a checkpointed level whole (LevelSound), that no two
   agents work in a worktree (OneWriter), and that agents are sent only where work is due
   (SentWhereDue).

   The invariant is DInv.  A pass reads rows and writes others later, so it has one part
   for each section of the pass: what is known there of the issues left to do, when the
   step is still the pass's own (Sections) and when it may not be (Knows).  The rest says
   which write a pass may owe where (Places), that a step waiting to be started again has
   no agent (Quiet), what a row says of its agents (RowSound), when a replanner is about
   (Replanning), and what is kept once done (Kept).  Each action keeps it by a lemma of its
   own, most of them through TouchKeeps, StaysKeeps or RunsEndKeeps: it writes to one
   issue, to none, or only ends runs. *)
EXTENDS DagLevel, TLAPS

(* The writes a pass owes in the review and in the advice. *)
ReviewNexts == Verdicts \cup {"spawnReview", "respawnReview", "respawnReview2", "spawnFix"}
AdviseNexts == Advices \cup {"doAccept", "doSplit", "doRetry", "spawnAdvisor",
                             "spawnAdvisor2", "spawnRetry"}

Over(i) == iss[i].outcome \in {"done", "failed"}
Settled(i) == Over(i) /\ iss[i].res # "none"
RefusedFailed(i) == iss[i].err = "refused" /\ iss[i].res = "failed"

(* Some run will end, or has, and queue a job; or a provider was missing. *)
Stirs == wake \/ AnyLive \/ "provider" \in faults.kinds

(* The pass: which write it owes where, and what a step that is not its own says. *)
Places ==
    /\ pass.todo \subseteq present
    /\ pass.at # "off" => step \in {"open", "pending"}
    /\ pass.next \in ReviewNexts => pass.at = "review" /\ pass.todo # {}
    /\ pass.next \in AdviseNexts => pass.at = "advise" /\ pass.todo # {}
    /\ pass.next \in {"skip", "abort", "spawnReplanner2"} => pass.at = "escalate"
    /\ pass.next = "spawnReplanner" => pass.at = "advise" /\ pass.todo = {}
    /\ pass.next = "enqueue" =>
          \/ pass.at \in {"dispatch", "ingest", "review", "advise"} /\ pass.todo # {}
          \/ pass.at \in {"escalate", "advise"} /\ pass.todo = {}
    /\ pass.at \in {"off", "loop", "halt"} => pass.todo = {} /\ pass.next = "none"
    /\ level = "checkpointed" => pass.at \in {"off", "loop"}
    /\ ~ReviewEnabled => pass.at \notin {"failures", "review", "escalate", "advise"}

(* A step that waits to be started again has no agent, of any attempt. *)
Quiet ==
    step = "pending" =>
        /\ \A i \in Issues : ~RunIsLive(coder[i]) /\ ~RunIsLive(agent[i].run)
        /\ replanner \in {"none", "free"}

(* What the row of an issue says of its coder and its latest agent. *)
RowSound(i) ==
    /\ i \notin present => iss[i].outcome = "pending" /\ iss[i].res = "none"
                           /\ iss[i].err = "none" /\ ~iss[i].merged
    /\ coder[i] # "none" => iss[i].outcome = "running"
    /\ coder[i] = "agent" => iss[i].res = "none"
    /\ RunIsLive(agent[i].run) =>
          /\ agent[i].role # "none" /\ ~agent[i].used
          /\ Over(i) \/ coder[i] = "agent"
          /\ agent[i].role # "advisor" => /\ iss[i].res = "none"
                                          /\ iss[i].outcome = "done" \/ coder[i] = "agent"
    /\ iss[i].err = "refused" => Over(i)
    /\ iss[i].res = "accepted" => iss[i].outcome = "done"
    /\ iss[i].stuck < StuckLimit \/ iss[i].res = "accepted"
    /\ iss[i].res = "split" => Children(i) \subseteq present
    /\ agent[i].role = "advisor" /\ ~agent[i].used => iss[i].adv < MaxAdvisor

RowsSound == \A i \in Issues : RowSound(i)

(* What the pass knows of the issues it has to see, its own step or not. *)
Knows ==
    /\ pass.at = "dispatch" =>
          \A i \in pass.todo : iss[i].outcome = "pending" \/ (i = Hand /\ pass.next = "enqueue")
    /\ pass.at = "review" => \A i \in pass.todo : iss[i].outcome = "done" /\ iss[i].res = "none"
    /\ pass.at \in {"failures", "escalate", "advise"} =>
          \A i \in pass.todo :
              iss[i].res # "accepted" /\ (iss[i].outcome # "running" \/ (i = Hand /\ pass.next = "enqueue"))
    /\ pass.at \in {"failures", "review"} => \A i \in present : iss[i].outcome # "running"
    /\ pass.at = "failures" =>
          \A i \in pass.todo : iss[i].outcome \in {"failed", "pending"} /\ iss[i].res = "none"
    /\ pass.next = "charge" => iss[Hand].revs < MaxInfra
    /\ pass.next \in Advices => agent[Hand].role # "advisor" \/ agent[Hand].used
    /\ pass.next \in ReviewNexts \cup AdviseNexts => ~RunIsLive(agent[Hand].run)
    /\ pass.at \in {"escalate", "advise"} =>
          \A i \in pass.todo : agent[i].role = "advisor" /\ ~agent[i].used =>
                                   pass.seen[i].adv < MaxAdvisor
    /\ pass.next \in Advices \cup {"spawnAdvisor", "spawnAdvisor2"} =>
          pass.seen[Hand].adv < MaxAdvisor
    /\ pass.next \in AdviseNexts => pass.seen[Hand].err # "refused"
    /\ pass.next = "doSplit" => Children(Hand) \subseteq present \cup pass.kids
    /\ pass.next = "spawnRetry" => iss[Hand].res = "none"

(* The replanner: sent when every issue is settled and none was refused. *)
Calm == \A i \in present : Settled(i) /\ ~RefusedFailed(i)

Replanning ==
    /\ replanner # "none" => replans < MaxReplanner
    /\ pass.next \in {"spawnReplanner", "spawnReplanner2"} =>
          /\ replanner = "none" /\ replans < MaxReplanner
          /\ Owned => Calm
    /\ replanner \notin {"none", "free"} => Calm
    /\ pass.next \in {"skip", "abort"} => replanner = "none"
    /\ pass.at = "advise" => replanner = "none" \/ (pass.next = "enqueue" /\ pass.todo = {})
    /\ pass.at = "merge" => replanner = "none"
    /\ pass.next = "enqueue" /\ pass.todo = {} /\ Owned => RunIsLive(replanner) \/ wake
    /\ ~ReviewEnabled => replanner = "none"

(* What a pass whose step is its own knows in each section. *)
AtDispatch ==
    pass.at = "dispatch" =>
        \A i \in pass.todo :
            iss[i].outcome = IF i = Hand /\ pass.next = "enqueue" THEN "running" ELSE "pending"

AtIngest == pass.at = "ingest" => \A i \in pass.todo : iss[i].outcome = "running"

AtFailures ==
    pass.at = "failures" =>
        /\ \A i \in present : Over(i) /\ (iss[i].outcome = "failed" /\ iss[i].res = "none" => i \in pass.todo)
        /\ \A i \in pass.todo : iss[i].outcome = "failed" /\ iss[i].res = "none"

AtReview ==
    pass.at = "review" =>
        /\ \A i \in present : Over(i) /\ (iss[i].outcome = "failed" => iss[i].res # "none")
        /\ \A i \in Unreviewed : i \in pass.todo \/ RunIsLive(agent[i].run) \/ Stirs
        /\ pass.next = "enqueue" => RunIsLive(agent[Hand].run) \/ wake

AtEscalate ==
    pass.at = "escalate" =>
        /\ \A i \in present : Settled(i) /\ (iss[i].res = "failed" => i \in pass.todo \/ pass.next = "enqueue")
        /\ \A i \in pass.todo : iss[i].res = "failed"

AtAdvise ==
    pass.at = "advise" =>
        /\ \A i \in pass.todo : \/ i = Hand /\ pass.next \in AdviseNexts \cup {"enqueue"}
                                \/ Over(i) /\ iss[i].res = "failed"
        /\ pass.next = "enqueue" /\ pass.todo # {} => pass.hold
        /\ pass.next \in AdviseNexts =>
              /\ Over(Hand) /\ iss[Hand].err # "refused"
              /\ iss[Hand].res = IF pass.next = "spawnRetry" THEN "none" ELSE "failed"
        /\ \A i \in present : Settled(i) \/ pass.hold \/ pass.again \/ pass.next = "doSplit"
                                 \/ (pass.todo # {} /\ i = Hand)

Seen ==
    pass.at \in {"escalate", "advise"} =>
        /\ \A i \in pass.todo :
              \/ pass.seen[i].adv = iss[i].adv
              \/ i = Hand /\ pass.next \in {"doAccept", "doSplit", "doRetry", "spawnRetry", "enqueue"}
        /\ \A i \in present : RefusedFailed(i) => i \in Refused

AtMerge ==
    pass.at = "merge" =>
        /\ \A i \in present : /\ IF ReviewEnabled THEN iss[i].res \in {"accepted", "skipped", "split"}
                                                  ELSE iss[i].outcome = "done"
                              /\ i \in Accepted /\ ~iss[i].merged => i \in pass.todo
        /\ pass.todo \subseteq Accepted

Sections ==
    /\ Owned => /\ AtDispatch /\ AtIngest /\ AtFailures /\ AtReview /\ AtEscalate /\ AtAdvise
                /\ Seen
                /\ pass.hold => Stirs
    /\ Owned \/ ~ReviewEnabled => AtMerge

(* What is done stays done, unless a Retry met a pass in a reviewed step. *)
KeptAt(i) ==
    /\ ~ReviewEnabled => iss[i].res = "none" /\ agent[i] = NoAgent
    /\ ~Overwritten =>
          /\ iss[i].merged => iss[i].outcome = "done" /\ (ReviewEnabled => iss[i].res = "accepted")
          /\ ~Over(i) => iss[i].res = "none"

Kept ==
    /\ \A i \in Issues : KeptAt(i)
    /\ "busy" \notin faults.kinds => (pass.at # "off" => Owned)

Counts == clicks \in Nat

DInv == /\ TypeOK /\ Counts /\ Places /\ Quiet /\ RowsSound /\ Knows /\ Replanning
        /\ Sections /\ Kept /\ NoDeadWait /\ CheckpointWhole

-----------------------------------------------------------------------------
(* Types in parts. *)
Sites == {"off", "loop", "dispatch", "ingest", "halt", "failures", "review", "escalate",
          "advise", "merge"}
PassRecords ==
    [at : Sites, todo : SUBSET Issues, seen : [Issues -> IssueRows], kids : SUBSET Issues,
     hold : BOOLEAN, again : BOOLEAN, next : Nexts]
AgentRecords == [role : {"none", "reviewer", "coder", "advisor"}, run : Runs, used : BOOLEAN]

RowTypes ==
    /\ iss \in [Issues -> IssueRows]
    /\ coder \in [Issues -> Runs \cup {"agent"}]
    /\ agent \in [Issues -> AgentRecords]

RestTypes ==
    /\ present \subseteq Issues
    /\ replanner \in Runs /\ replans \in 0..MaxReplanner
    /\ outage \in BOOLEAN /\ wake \in BOOLEAN
    /\ step \in {"pending", "open", "failed", "done"}
    /\ level \in {"open", "checkpointed"}
    /\ setting \in Settings /\ clicks <= setting.clicks /\ clicks \in Nat

FaultTypes == faults \in [kinds : SUBSET setting.kinds, count : 0..setting.faults]

(* The type invariant, and its parts: the rows, the rest of the tables, the faults, the pass. *)
LEMMA TypeParts ==
    TypeOK /\ Counts <=> RowTypes /\ RestTypes /\ FaultTypes /\ pass \in PassRecords
  BY DEF TypeOK, Counts, RowTypes, RestTypes, FaultTypes, PassRecords, Sites, AgentRecords

(* The parts of the next state make its types. *)
LEMMA TypePartsNext ==
    RowTypes' /\ RestTypes' /\ FaultTypes' /\ pass' \in PassRecords => TypeOK' /\ Counts'
  BY DEF TypeOK, Counts, RowTypes, RestTypes, FaultTypes, PassRecords, Sites, AgentRecords

(* What the assumption on the settings says of the level in hand. *)
LEMMA SettingTypes ==
    ASSUME setting \in Settings
    PROVE  /\ setting.planned \subseteq Issues /\ setting.planned \cap Subs = {}
           /\ setting.subs \subseteq Issues
           /\ setting.review \in BOOLEAN /\ setting.kinds \subseteq FaultKinds
           /\ setting.faults \in Nat /\ setting.clicks \in Nat
  BY LevelAssumption

(* The issue in hand. *)
LEMMA HandIn == pass.todo # {} => Hand \in pass.todo
  BY DEF Hand

(* The issue in hand changes only with those left to do. *)
LEMMA HandSame == pass'.todo = pass.todo => Hand' = Hand
  BY DEF Hand

(* InHand names it. *)
LEMMA HandOf == ASSUME NEW i, InHand(i) PROVE i = Hand /\ i \in pass.todo /\ pass.todo # {}
  BY DEF InHand, Hand

(* Runs. *)
LEMMA RunFacts ==
    /\ \A b \in BOOLEAN : Unsent(b) \in Runs /\ RunIsLive(Unsent(b))
    /\ \A r \in Runs : Sent(r) \in Runs /\ (RunIsLive(Sent(r)) <=> RunIsLive(r))
    /\ \A r \in Runs, q \in BOOLEAN :
          Orphaned(r, q) \in Runs /\ (RunIsLive(Orphaned(r, q)) => RunIsLive(r))
    /\ \A r \in Ended : ~RunIsLive(r) /\ r \in Runs /\ r # "none"
    /\ ~RunIsLive("none") /\ ~RunIsLive("agent") /\ ~RunIsLive("free")
    /\ \A r \in {"live", "live2"}, e \in Endings : EndsAs(r, e) \in Ended
    /\ Ended \subseteq Runs /\ "none" \in Runs /\ "free" \in Runs
  BY DEF Unsent, Runs, Ended, RunIsLive, Sent, Orphaned, EndsAs, Endings

(* Queueing the job of a recorded run names no other run. *)
LEMMA SentKeepsNone ==
    \A r \in Runs \cup {"agent"} :
        /\ Sent(r) \in Runs \cup {"agent"}
        /\ Sent(r) = "none" <=> r = "none"
        /\ Sent(r) = "agent" <=> r = "agent"
        /\ RunIsLive(Sent(r)) <=> RunIsLive(r)
<1> SUFFICES ASSUME NEW r \in Runs \cup {"agent"}
             PROVE  /\ Sent(r) \in Runs \cup {"agent"}
                    /\ (Sent(r) = "none") <=> (r = "none")
                    /\ (Sent(r) = "agent") <=> (r = "agent")
                    /\ RunIsLive(Sent(r)) <=> RunIsLive(r)
  OBVIOUS
<1>1. CASE r \notin {"unsent", "unsent2"}
  BY <1>1 DEF Sent
<1>2. CASE r = "unsent"
  BY <1>2 DEF Sent, Runs, Ended, RunIsLive
<1>3. CASE r = "unsent2"
  BY <1>3 DEF Sent, Runs, Ended, RunIsLive
<1> QED
  BY <1>1, <1>2, <1>3

(* A superseded run is not in flight. *)
LEMMA SupersededDies ==
    ASSUME NEW role, NEW r \in Runs
    PROVE  SupersededAs(role, r) \in Runs /\ ~RunIsLive(SupersededAs(role, r))
  BY DEF SupersededAs, Runs, Ended, RunIsLive

(* A row written, and one field or more of a row. *)
LEMMA RowWritten ==
    ASSUME iss \in [Issues -> IssueRows], NEW i \in Issues, NEW r \in IssueRows, Set(i, r)
    PROVE  /\ iss' \in [Issues -> IssueRows] /\ iss'[i] = r
           /\ \A j \in Issues \ {i} : iss'[j] = iss[j]
  BY DEF Set

-----------------------------------------------------------------------------
(* A step of the pass that writes the rows of one issue, in the section it is in. *)
Touches(i) ==
    /\ UNCHANGED <<setting, present, replanner, replans, outage, wake, clicks, step, level>>
    /\ \A j \in Issues \ {i} : iss'[j] = iss[j] /\ coder'[j] = coder[j] /\ agent'[j] = agent[j]
    /\ pass'.at = pass.at /\ pass'.seen = pass.seen
    /\ pass'.todo \in {pass.todo, pass.todo \ {i}}
    /\ faults.kinds \subseteq faults'.kinds
    /\ "busy" \in faults'.kinds => "busy" \in faults.kinds
    /\ RowTypes' /\ FaultTypes' /\ pass' \in PassRecords

(* It sends an agent only from a step that is its own, and takes none away. *)
Agents(i) ==
    /\ Owned \/ (~RunIsLive(coder'[i]) /\ ~RunIsLive(agent'[i].run))
    /\ RunIsLive(coder[i]) => RunIsLive(coder'[i])
    /\ RunIsLive(agent[i].run) => RunIsLive(agent'[i].run)

(* Such a step keeps what is not about the section the pass is in: the rows of the other
   issues, the quiet of a step that waits, and whatever will continue the step. *)
LEMMA TouchKeeps ==
    ASSUME DInv, NEW i \in Issues, i \in present, Touches(i), Agents(i), RowSound(i)', KeptAt(i)',
           pass.at # "off", pass.at = "loop" => level = "open"
    PROVE  /\ TypeOK' /\ Counts' /\ RowsSound' /\ Quiet' /\ Kept'
           /\ NoDeadWait' /\ CheckpointWhole'
           /\ Stirs => Stirs'
<1>0. level = "open"
  BY DEF DInv, Places, TypeOK
<1>1. TypeOK' /\ Counts'
  <2>1. RestTypes'
    BY TypeParts DEF DInv, RestTypes, Touches
  <2> QED
    BY <2>1, TypePartsNext DEF Touches
<1>2. RowsSound'
  <2> SUFFICES ASSUME NEW j \in Issues, j # i PROVE RowSound(j)'
    BY DEF RowsSound
  <2>1. RowSound(j)
    BY DEF DInv, RowsSound
  <2> QED
    BY <2>1 DEF Touches, RowSound, Over, Children
<1>3. Quiet'
  BY DEF DInv, Touches, Agents, Quiet, Owned
<1>4. Kept'
  <2> SUFFICES ASSUME NEW j \in Issues, j # i PROVE KeptAt(j)'
    BY DEF Kept, DInv, Touches, Owned
  <2>1. KeptAt(j)
    BY DEF DInv, Kept
  <2> QED
    BY <2>1 DEF Touches, KeptAt, Over, ReviewEnabled, Overwritten
<1>5. NoDeadWait' /\ CheckpointWhole'
  BY <1>0 DEF Touches, NoDeadWait, CheckpointWhole
<1>6. Stirs => Stirs'
  BY DEF Touches, Agents, Stirs, AnyLive, DInv, TypeOK
<1> QED
  BY <1>1, <1>2, <1>3, <1>4, <1>5, <1>6

(* What is left to show of such a step. *)
LEMMA TouchDone ==
    ASSUME DInv, NEW i \in Issues, i \in present, Touches(i), Agents(i), RowSound(i)', KeptAt(i)',
           pass.at # "off", pass.at = "loop" => level = "open",
           Places', Knows', Replanning', Sections'
    PROVE  DInv'
  BY TouchKeeps DEF DInv

(* In each section only its own knowledge is at stake. *)
OnlyHere(at, known) == pass.at = at /\ (Owned => known /\ (pass.hold => Stirs))

(* One section at a time: what holds of the pass where it is is all there is to show. *)
LEMMA SectionsOf ==
    /\ OnlyHere("dispatch", AtDispatch)' => Sections'
    /\ OnlyHere("ingest", AtIngest)' => Sections'
    /\ OnlyHere("failures", AtFailures)' => Sections'
    /\ OnlyHere("review", AtReview)' => Sections'
    /\ OnlyHere("escalate", AtEscalate /\ Seen)' => Sections'
    /\ OnlyHere("advise", AtAdvise /\ Seen)' => Sections'
    /\ OnlyHere("merge", TRUE)' /\ (Owned' \/ ~ReviewEnabled' => AtMerge') => Sections'
    /\ pass'.at \in {"off", "loop", "halt"} /\ (Owned' /\ pass'.hold => Stirs') => Sections'
  BY DEF OnlyHere, Sections, AtDispatch, AtIngest, AtFailures, AtReview, AtEscalate, AtAdvise,
     Seen, AtMerge

(* What is known of the issue in hand. *)
LEMMA HandFacts ==
    ASSUME DInv, NEW i \in Issues, InHand(i)
    PROVE  /\ i = Hand /\ i \in pass.todo /\ pass.todo # {} /\ i \in present
           /\ pass.todo \subseteq Issues /\ present \subseteq Issues
           /\ pass \in PassRecords /\ RowTypes /\ FaultTypes /\ setting \in Settings
           /\ iss[i] \in IssueRows /\ coder[i] \in Runs \cup {"agent"} /\ agent[i] \in AgentRecords
           /\ pass.seen[i] \in IssueRows
           /\ RowSound(i) /\ KeptAt(i)
<1>1. i = Hand /\ i \in pass.todo /\ pass.todo # {}
  BY HandOf
<1>2. RowTypes /\ RestTypes /\ FaultTypes /\ pass \in PassRecords
  BY TypeParts DEF DInv
<1>3. pass.todo \subseteq Issues /\ pass.seen \in [Issues -> IssueRows]
  BY <1>2 DEF PassRecords
<1> QED
  BY <1>1, <1>2, <1>3 DEF DInv, Places, RowsSound, Kept, RowTypes, RestTypes

(* How a pass moves on. *)
LEMMA PassMoves ==
    ASSUME pass \in PassRecords, NEW i
    PROVE  /\ \A n \in Nexts : Then(n) =>
                /\ pass' \in PassRecords /\ pass'.at = pass.at /\ pass'.seen = pass.seen
                /\ pass'.todo = pass.todo /\ pass'.next = n /\ pass'.kids = pass.kids
                /\ pass'.hold = pass.hold /\ pass'.again = pass.again
           /\ DoneWith(i) =>
                /\ pass' \in PassRecords /\ pass'.at = pass.at /\ pass'.seen = pass.seen
                /\ pass'.todo = pass.todo \ {i} /\ pass'.next = "none" /\ pass'.kids = pass.kids
                /\ pass'.hold = pass.hold /\ pass'.again = pass.again
           /\ HoldFor(i) =>
                /\ pass' \in PassRecords /\ pass'.at = pass.at /\ pass'.seen = pass.seen
                /\ pass'.todo = pass.todo \ {i} /\ pass'.next = "none" /\ pass'.kids = pass.kids
                /\ pass'.hold = TRUE /\ pass'.again = pass.again
<1>1. "none" \in Nexts
  BY DEF Nexts
<1> QED
  BY <1>1 DEF PassRecords, Then, DoneWith, HoldFor

(* A fault is counted; only a Retry of an open step is the busy kind. *)
LEMMA FaultMoves ==
    ASSUME setting \in Settings, FaultTypes, NEW k, Fault(k), UNCHANGED setting
    PROVE  /\ FaultTypes' /\ faults.kinds \subseteq faults'.kinds /\ k \in faults'.kinds
           /\ k # "busy" /\ "busy" \in faults'.kinds => "busy" \in faults.kinds
  BY SettingTypes DEF FaultTypes, Fault

(* With an issue in hand there is no replanner, except where it is looked at. *)
LEMMA HandNoReplanner ==
    ASSUME DInv, pass.todo # {}, pass.at # "escalate"
    PROVE  /\ replanner \in {"none", "free"}
           /\ pass.at \in {"advise", "merge"} => replanner = "none"
<1>1. pass.at \in {"advise", "merge"} => replanner = "none"
  BY DEF DInv, Replanning
<1> SUFFICES ASSUME replanner \notin {"none", "free"} PROVE FALSE
  BY <1>1
<1>2. Owned /\ Calm /\ Hand \in pass.todo /\ Hand \in present
  BY HandIn DEF DInv, Quiet, Places, Replanning, Owned
<1>3. pass.at \in {"dispatch", "ingest", "failures", "review"}
  BY <1>1, TypeParts DEF DInv, PassRecords, Sites, Places
<1> QED
  BY <1>2, <1>3 DEF DInv, Sections, AtDispatch, AtIngest, AtFailures, Knows, Calm, Settled, Over

(* Work on an issue in hand leaves the replanner alone. *)
LEMMA TouchReplanning ==
    ASSUME DInv, NEW i \in Issues, InHand(i), Touches(i), pass.at # "escalate",
           pass'.next \notin {"spawnReplanner", "spawnReplanner2", "abort", "skip"},
           pass'.next = "enqueue" => pass'.todo # {}
    PROVE  Replanning'
<1>1. replanner \in {"none", "free"} /\ (pass.at \in {"advise", "merge"} => replanner = "none")
  BY HandNoReplanner, HandFacts
<1> QED
  BY <1>1 DEF Touches, DInv, Replanning, ReviewEnabled

(* A step on the issue in hand in the review: what it must leave. *)
ReviewLeaves(i) ==
    /\ iss'[i].outcome = "done" /\ pass'.hold = pass.hold
    /\ \/ /\ pass'.todo = pass.todo /\ iss'[i].res = "none"
          /\ \/ pass'.next = "enqueue" /\ RunIsLive(agent'[i].run)
             \/ /\ pass'.next \in ReviewNexts /\ ~RunIsLive(agent'[i].run)
                /\ pass'.next = "charge" => iss'[i].revs < MaxInfra
       \/ /\ pass'.todo = pass.todo \ {i} /\ pass'.next = "none"
          /\ iss'[i].res # "none" \/ RunIsLive(agent'[i].run) \/ wake \/ ~Owned

(* A step of the review that leaves this keeps the invariant. *)
LEMMA ReviewTouch ==
    ASSUME DInv, NEW i \in Issues, InHand(i), pass.at = "review", Touches(i), Agents(i),
           RowSound(i)', KeptAt(i)', ReviewLeaves(i)
    PROVE  DInv'
<1>0. /\ i = Hand /\ i \in pass.todo /\ i \in present /\ pass.todo \subseteq Issues
      /\ pass.todo # {} /\ present \subseteq Issues
  BY HandFacts
<1>1. pass'.next \in ReviewNexts \cup {"none", "enqueue"}
      /\ (pass'.next # "none" => pass'.todo = pass.todo)
  BY DEF ReviewLeaves
<1>2. pass'.todo = pass.todo => Hand' = i
  BY <1>0, HandSame
<1>3. Places'
  BY <1>0, <1>1 DEF DInv, Places, Touches, ReviewNexts, AdviseNexts, Verdicts, Advices,
     ReviewEnabled
<1>4. Knows'
  <2>1. \A j \in pass'.todo : iss'[j].outcome = "done" /\ iss'[j].res = "none"
    BY <1>0 DEF DInv, Knows, Touches, ReviewLeaves
  <2>2. pass'.next \in ReviewNexts \cup AdviseNexts => ~RunIsLive(agent'[Hand'].run) /\ pass'.next \in ReviewNexts
    BY <1>1, <1>2 DEF ReviewLeaves, ReviewNexts, AdviseNexts, Verdicts, Advices
  <2>3. pass'.next = "charge" => iss'[Hand'].revs < MaxInfra
    BY <1>1, <1>2 DEF ReviewLeaves, ReviewNexts, Verdicts
  <2>4. \A j \in present' : iss'[j].outcome # "running"
    BY <1>0 DEF DInv, Knows, Touches, ReviewLeaves
  <2> QED
    BY <2>1, <2>2, <2>3, <2>4 DEF Knows, Touches, ReviewNexts, AdviseNexts, Verdicts, Advices
<1>5. Replanning'
  BY <1>0, <1>1, TouchReplanning DEF ReviewNexts, Verdicts
<1>6. Sections'
  <2> SUFFICES ASSUME Owned PROVE AtReview' /\ (pass'.hold => Stirs')
    BY SectionsOf DEF OnlyHere, Touches, Owned
  <2>1. AtReview /\ (pass.hold => Stirs)
    BY DEF DInv, Sections
  <2>2. Stirs => Stirs'
    BY <1>0, TouchKeeps
  <2>3. pass'.hold => Stirs'
    BY <2>1, <2>2 DEF ReviewLeaves
  <2>4. \A j \in present' : Over(j)' /\ (iss'[j].outcome = "failed" => iss'[j].res # "none")
    BY <1>0, <2>1 DEF AtReview, Touches, ReviewLeaves, Over
  <2>5. pass'.next = "enqueue" => RunIsLive(agent'[Hand'].run) \/ wake'
    BY <1>2 DEF ReviewLeaves, ReviewNexts, Verdicts
  <2>6. ASSUME NEW j \in Unreviewed' PROVE j \in pass'.todo \/ RunIsLive(agent'[j].run) \/ Stirs'
    <3>1. CASE j = i
      BY <3>1, <1>0, <2>6 DEF ReviewLeaves, Unreviewed, Touches, Stirs
    <3>2. CASE j # i
      <4>1. j \in Unreviewed /\ j \in present
        BY <3>2, <1>0, <2>6 DEF Unreviewed, Touches
      <4>2. agent'[j] = agent[j]
        BY <3>2, <4>1, <1>0 DEF Touches
      <4> QED
        BY <4>1, <4>2, <2>1, <2>2, <3>2 DEF AtReview, Touches
    <3> QED
      BY <3>1, <3>2
  <2> QED
    BY <2>3, <2>4, <2>5, <2>6 DEF AtReview
<1> QED
  BY <1>0, <1>3, <1>4, <1>5, <1>6, TouchDone

(* A step on the issue in hand in the advice: what it must leave. *)
AdviseOwes(i) ==
    /\ pass'.next \in AdviseNexts /\ ~RunIsLive(agent'[i].run) /\ pass.seen[i].err # "refused"
    /\ pass'.next \in Advices \cup {"spawnAdvisor", "spawnAdvisor2"} => pass.seen[i].adv < MaxAdvisor
    /\ pass'.next \in Advices => agent'[i].role # "advisor" \/ agent'[i].used
    /\ pass'.next = "doSplit" => Children(i) \subseteq present \cup pass'.kids
    /\ pass'.next = "spawnRetry" => iss'[i].res = "none"
    /\ iss'[i].outcome # "running"
    /\ Owned => /\ Over(i)' /\ iss'[i].err # "refused"
                /\ iss'[i].res = IF pass'.next = "spawnRetry" THEN "none" ELSE "failed"
                /\ \/ pass'.next \in {"doAccept", "doSplit", "doRetry", "spawnRetry"}
                   \/ pass.seen[i].adv = iss'[i].adv

AdviseLeaves(i) ==
    /\ pass.hold => pass'.hold
    /\ pass.again => pass'.again
    /\ pass.next = "doSplit" => pass'.again
    /\ Owned /\ pass'.hold => pass.hold \/ Stirs'
    /\ Owned /\ RefusedFailed(i)' => i \in Refused
    /\ \/ /\ pass'.todo = pass.todo /\ iss'[i].res # "accepted"
          /\ agent'[i].role = "advisor" /\ ~agent'[i].used => pass.seen[i].adv < MaxAdvisor
          /\ \/ pass'.next = "enqueue" /\ pass'.hold
             \/ AdviseOwes(i)
       \/ /\ pass'.todo = pass.todo \ {i} /\ pass'.next = "none"
          /\ Owned => Settled(i)' \/ pass'.hold \/ pass'.again

(* A step of the advice that leaves this keeps the invariant. *)
LEMMA AdviseTouch ==
    ASSUME DInv, NEW i \in Issues, InHand(i), pass.at = "advise", Touches(i), Agents(i),
           RowSound(i)', KeptAt(i)', AdviseLeaves(i)
    PROVE  DInv'
<1>0. /\ i = Hand /\ i \in pass.todo /\ i \in present /\ pass.todo \subseteq Issues
      /\ pass.todo # {} /\ present \subseteq Issues
  BY HandFacts
<1>1. pass'.next \in AdviseNexts \cup {"none", "enqueue"}
      /\ (pass'.next # "none" => pass'.todo = pass.todo)
      /\ (pass'.next \in AdviseNexts => AdviseOwes(i))
  BY DEF AdviseLeaves, AdviseOwes, AdviseNexts, Advices
<1>2. pass'.todo = pass.todo => Hand' = i
  BY <1>0, HandSame
<1>3. Places'
  BY <1>0, <1>1 DEF DInv, Places, Touches, ReviewNexts, AdviseNexts, Verdicts, Advices,
     ReviewEnabled
<1>4. Knows'
  <2>1. \A j \in pass'.todo :
           /\ iss'[j].res # "accepted"
           /\ iss'[j].outcome # "running" \/ (j = Hand' /\ pass'.next = "enqueue")
    <3>1. \A j \in pass.todo \ {i} : iss'[j].res # "accepted" /\ iss'[j].outcome # "running"
      BY <1>0 DEF DInv, Knows, Touches
    <3>2. i \in pass'.todo =>
             iss'[i].res # "accepted" /\ (iss'[i].outcome # "running" \/ (Hand' = i /\ pass'.next = "enqueue"))
      BY <1>1, <1>2 DEF AdviseLeaves, AdviseOwes
    <3> QED
      BY <3>1, <3>2 DEF Touches
  <2>2. \A j \in pass'.todo : agent'[j].role = "advisor" /\ ~agent'[j].used => pass'.seen[j].adv < MaxAdvisor
    BY <1>0 DEF DInv, Knows, Touches, AdviseLeaves
  <2>3. pass'.next \notin ReviewNexts /\ pass'.next # "charge"
    BY <1>1 DEF ReviewNexts, AdviseNexts, Verdicts, Advices
  <2>4. pass'.next \in AdviseNexts => AdviseOwes(i) /\ Hand' = i
    BY <1>1, <1>2 DEF AdviseNexts, Advices
  <2>5. {"doSplit", "spawnRetry", "spawnAdvisor", "spawnAdvisor2"} \cup Advices \subseteq AdviseNexts
    BY DEF AdviseNexts
  <2> QED
    BY <2>1, <2>2, <2>3, <2>4, <2>5 DEF Knows, Touches, AdviseOwes, Children
<1>5. Replanning'
  BY <1>0, <1>1, TouchReplanning DEF AdviseNexts, Advices
<1>6. Sections'
  <2> SUFFICES ASSUME Owned PROVE AtAdvise' /\ Seen' /\ (pass'.hold => Stirs')
    BY SectionsOf DEF OnlyHere, Touches, Owned
  <2>1. AtAdvise /\ Seen /\ (pass.hold => Stirs)
    BY DEF DInv, Sections
  <2>2. Stirs => Stirs'
    BY <1>0, TouchKeeps
  <2>3. pass'.hold => Stirs'
    BY <2>1, <2>2 DEF AdviseLeaves
  <2>4. \A j \in pass'.todo : \/ j = Hand' /\ pass'.next \in AdviseNexts \cup {"enqueue"}
                              \/ Over(j)' /\ iss'[j].res = "failed"
    <3>1. \A j \in pass.todo \ {i} : Over(j)' /\ iss'[j].res = "failed"
      BY <1>0, <2>1 DEF AtAdvise, Touches, Over
    <3>2. i \in pass'.todo => Hand' = i /\ pass'.next \in AdviseNexts \cup {"enqueue"}
      BY <1>1, <1>2 DEF AdviseLeaves, AdviseOwes
    <3> QED
      BY <3>1, <3>2 DEF Touches
  <2>5. pass'.next \in AdviseNexts =>
           /\ Over(Hand)' /\ iss'[Hand'].err # "refused"
           /\ iss'[Hand'].res = IF pass'.next = "spawnRetry" THEN "none" ELSE "failed"
    <3>1. pass'.next \in AdviseNexts =>
             /\ Hand' = i /\ Over(i)' /\ iss'[i].err # "refused"
             /\ iss'[i].res = IF pass'.next = "spawnRetry" THEN "none" ELSE "failed"
      BY <1>1, <1>2 DEF AdviseOwes, AdviseNexts, Advices
    <3> QED
      BY <3>1 DEF Over
  <2>6. ASSUME NEW j \in present'
        PROVE  Settled(j)' \/ pass'.hold \/ pass'.again \/ pass'.next = "doSplit"
                 \/ (pass'.todo # {} /\ j = Hand')
    <3>1. CASE j = i
      BY <3>1, <1>0, <1>2 DEF AdviseLeaves
    <3>2. CASE j # i
      <4>1. Settled(j) \/ pass.hold \/ pass.again \/ pass.next = "doSplit"
        BY <3>2, <1>0, <2>1 DEF AtAdvise, Touches
      <4>2. Settled(j) => Settled(j)'
        BY <3>2, <1>0 DEF Touches, Settled, Over
      <4> QED
        BY <4>1, <4>2 DEF AdviseLeaves
    <3> QED
      BY <3>1, <3>2
  <2>7. AtAdvise'
    <3>1. pass'.next = "enqueue" => pass'.hold
      BY DEF AdviseLeaves, AdviseOwes, AdviseNexts, Advices
    <3> QED
      BY <3>1, <2>4, <2>5, <2>6 DEF AtAdvise
  <2>8. \A j \in pass'.todo :
           \/ pass'.seen[j].adv = iss'[j].adv
           \/ j = Hand' /\ pass'.next \in {"doAccept", "doSplit", "doRetry", "spawnRetry", "enqueue"}
    <3>1. \A j \in pass.todo \ {i} : pass'.seen[j].adv = iss'[j].adv
      BY <1>0, <2>1 DEF Seen, Touches
    <3>2. i \in pass'.todo => Hand' = i
             /\ (pass'.next \in {"doAccept", "doSplit", "doRetry", "spawnRetry", "enqueue"}
                   \/ pass'.seen[i].adv = iss'[i].adv)
      BY <1>1, <1>2 DEF AdviseLeaves, AdviseOwes, Touches
    <3> QED
      BY <3>1, <3>2 DEF Touches
  <2>9. \A j \in present' : RefusedFailed(j)' => j \in Refused'
    <3>1. Refused' = Refused
      BY DEF Refused, Touches
    <3>2. \A j \in present \ {i} : RefusedFailed(j)' <=> RefusedFailed(j)
      BY <1>0 DEF RefusedFailed, Touches
    <3> QED
      BY <3>1, <3>2, <2>1, <1>0 DEF Seen, Touches, AdviseLeaves
  <2> QED
    BY <2>3, <2>7, <2>8, <2>9 DEF Seen
<1> QED
  BY <1>0, <1>3, <1>4, <1>5, <1>6, TouchDone

(* A step on the issue in hand while coders are sent or read: what it must leave. *)
CoderLeaves(i) ==
    /\ Owned /\ pass'.hold => pass.hold \/ Stirs'
    /\ \/ pass'.todo = pass.todo /\ pass'.next = "enqueue" /\ iss'[i].outcome = "running"
       \/ pass'.todo = pass.todo \ {i} /\ pass'.next = "none"

(* A step on the coders that leaves this keeps the invariant. *)
LEMMA CoderTouch ==
    ASSUME DInv, NEW i \in Issues, InHand(i), pass.at \in {"dispatch", "ingest"}, Touches(i),
           Agents(i), RowSound(i)', KeptAt(i)', CoderLeaves(i)
    PROVE  DInv'
<1>0. /\ i = Hand /\ i \in pass.todo /\ i \in present /\ pass.todo \subseteq Issues
      /\ pass.todo # {} /\ present \subseteq Issues
  BY HandFacts
<1>1. pass'.next \in {"none", "enqueue"} /\ (pass'.next = "enqueue" => pass'.todo = pass.todo)
  BY DEF CoderLeaves
<1>2. pass'.todo = pass.todo => Hand' = i
  BY <1>0, HandSame
<1>3. Places'
  BY <1>0, <1>1 DEF DInv, Places, Touches, ReviewNexts, AdviseNexts, Verdicts, Advices,
     ReviewEnabled
<1>4. Knows'
  <2>1. pass.at = "dispatch" => \A j \in pass.todo \ {i} : iss'[j].outcome = "pending"
    BY <1>0 DEF DInv, Knows, Touches
  <2>2. pass'.at = "dispatch" =>
          \A j \in pass'.todo : iss'[j].outcome = "pending" \/ (j = Hand' /\ pass'.next = "enqueue")
    BY <1>0, <1>2, <2>1 DEF Touches, CoderLeaves
  <2> QED
    BY <1>1, <2>2 DEF Knows, Touches, ReviewNexts, AdviseNexts, Verdicts, Advices
<1>5. Replanning'
  BY <1>0, <1>1, TouchReplanning
<1>6. Sections'
  <2> SUFFICES ASSUME Owned PROVE AtDispatch' /\ AtIngest' /\ (pass'.hold => Stirs')
    BY SectionsOf DEF OnlyHere, Touches, Owned
  <2>1. AtDispatch /\ AtIngest /\ (pass.hold => Stirs)
    BY DEF DInv, Sections
  <2>2. pass'.hold => Stirs'
    BY <1>0, <2>1, TouchKeeps DEF CoderLeaves
  <2>3. AtDispatch'
    BY <1>0, <1>2, <2>1 DEF AtDispatch, Touches, CoderLeaves
  <2>4. AtIngest'
    BY <1>0, <1>2, <2>1 DEF AtIngest, Touches, CoderLeaves
  <2> QED
    BY <2>2, <2>3, <2>4
<1> QED
  BY <1>0, <1>3, <1>4, <1>5, <1>6, TouchDone

(* DispatchCoder sends a coder to an issue that has none, or fails it. *)
LEMMA DispatchCoderKeeps ==
    ASSUME DInv, NEW i \in Issues, DispatchCoder(i), UNCHANGED setting PROVE DInv'
<1>0. /\ InHand(i) /\ pass.at = "dispatch" /\ pass.next = "none" /\ i \in present
      /\ pass \in PassRecords /\ RowTypes /\ FaultTypes /\ setting \in Settings
      /\ iss[i] \in IssueRows /\ RowSound(i) /\ KeptAt(i) /\ i = Hand /\ i \in pass.todo
  BY HandFacts DEF DispatchCoder, At
<1>a. /\ UNCHANGED <<present, agent, replanner, replans, outage, wake, clicks, step, level>>
  BY DEF DispatchCoder, outside
<1>1. CASE /\ Owned
           /\ Set(i, [iss[i] EXCEPT !.outcome = "running", !.err = "none"])
           /\ coder' = [coder EXCEPT ![i] = Unsent(iss[i].err = "cut")]
           /\ pass' = [pass EXCEPT !.next = "enqueue", !.hold = TRUE]
           /\ UNCHANGED faults
  <2>1. [iss[i] EXCEPT !.outcome = "running", !.err = "none"] \in IssueRows
    BY <1>0 DEF IssueRows
  <2>2. /\ iss' \in [Issues -> IssueRows]
        /\ iss'[i] = [iss[i] EXCEPT !.outcome = "running", !.err = "none"]
        /\ \A j \in Issues \ {i} : iss'[j] = iss[j]
    BY <1>0, <1>1, <2>1, RowWritten DEF RowTypes
  <2>3. /\ iss'[i].outcome = "running" /\ iss'[i].err = "none" /\ iss'[i].res = iss[i].res
        /\ iss'[i].merged = iss[i].merged /\ iss'[i].adv = iss[i].adv /\ iss'[i].stuck = iss[i].stuck
    BY <1>0, <2>2 DEF IssueRows
  <2>4. /\ pass' \in PassRecords /\ pass'.at = pass.at /\ pass'.seen = pass.seen
        /\ pass'.todo = pass.todo /\ pass'.next = "enqueue" /\ pass'.hold = TRUE
    BY <1>0, <1>1 DEF PassRecords, Nexts
  <2>5. /\ coder' \in [Issues -> Runs \cup {"agent"}] /\ RunIsLive(coder'[i]) /\ coder'[i] # "none"
        /\ \A j \in Issues \ {i} : coder'[j] = coder[j]
    BY <1>0, <1>1, RunFacts DEF RowTypes
  <2>6. Touches(i)
    BY <1>0, <1>1, <1>a, <2>2, <2>4, <2>5 DEF Touches, RowTypes, FaultTypes
  <2>7. iss[i].outcome = "pending" /\ coder[i] = "none" /\ ~RunIsLive(agent[i].run)
    BY <1>0, <1>1 DEF DInv, Sections, AtDispatch, RowSound, Over
  <2>8. RowSound(i)' /\ KeptAt(i)' /\ Agents(i)
    BY <1>0, <1>1, <1>a, <2>3, <2>5, <2>7 DEF RowSound, KeptAt, Agents, Over, Children,
       RunIsLive, ReviewEnabled, Overwritten
  <2>9. CoderLeaves(i)
    BY <1>0, <1>a, <2>3, <2>4, <2>5 DEF CoderLeaves, Stirs, AnyLive
  <2> QED
    BY <1>0, <2>6, <2>8, <2>9, CoderTouch
<1>2. CASE /\ Fault("provider")
           /\ Set(i, [iss[i] EXCEPT !.outcome = "failed", !.err = "env"])
           /\ DoneWith(i)
           /\ UNCHANGED coder
  <2>1. [iss[i] EXCEPT !.outcome = "failed", !.err = "env"] \in IssueRows
    BY <1>0 DEF IssueRows
  <2>2. /\ iss' \in [Issues -> IssueRows]
        /\ iss'[i] = [iss[i] EXCEPT !.outcome = "failed", !.err = "env"]
        /\ \A j \in Issues \ {i} : iss'[j] = iss[j]
    BY <1>0, <1>2, <2>1, RowWritten DEF RowTypes
  <2>3. /\ iss'[i].outcome = "failed" /\ iss'[i].err = "env" /\ iss'[i].res = iss[i].res
        /\ iss'[i].merged = iss[i].merged /\ iss'[i].adv = iss[i].adv /\ iss'[i].stuck = iss[i].stuck
    BY <1>0, <2>2 DEF IssueRows
  <2>4. /\ pass' \in PassRecords /\ pass'.at = pass.at /\ pass'.seen = pass.seen
        /\ pass'.todo = pass.todo \ {i} /\ pass'.next = "none" /\ pass'.hold = pass.hold
    BY <1>0, <1>2, PassMoves
  <2>5. /\ FaultTypes' /\ faults.kinds \subseteq faults'.kinds
        /\ "busy" \in faults'.kinds => "busy" \in faults.kinds
    BY <1>0, <1>2, FaultMoves
  <2>6. Touches(i)
    BY <1>0, <1>2, <1>a, <2>2, <2>4, <2>5 DEF Touches, RowTypes
  <2>7. coder[i] = "none" /\ ~RunIsLive(agent[i].run) /\ (~Overwritten => ~iss[i].merged) /\ iss[i].res # "accepted"
    BY <1>0 DEF DInv, Knows, RowSound, KeptAt, Over
  <2>8. RowSound(i)' /\ KeptAt(i)' /\ Agents(i)
    BY <1>0, <1>2, <1>a, <2>3, <2>5, <2>7 DEF RowSound, KeptAt, Agents, Over, Children,
       RunIsLive, ReviewEnabled, Overwritten
  <2>9. CoderLeaves(i)
    BY <1>0, <1>a, <2>3, <2>4 DEF CoderLeaves
  <2> QED
    BY <1>0, <2>6, <2>8, <2>9, CoderTouch
<1> QED
  BY <1>1, <1>2 DEF DispatchCoder

(* Enqueue queues the job of the agent just recorded for the issue in hand. *)
LEMMA EnqueueAgentKeeps ==
    ASSUME DInv, NEW i \in Issues, InHand(i), Enqueue, UNCHANGED setting PROVE DInv'
<1>0. i \in Issues /\ InHand(i)
  OBVIOUS
<1>1. /\ pass.next = "enqueue" /\ i \in present /\ i = Hand
      /\ pass \in PassRecords /\ RowTypes /\ FaultTypes /\ setting \in Settings
      /\ agent[i] \in AgentRecords /\ coder[i] \in Runs \cup {"agent"}
      /\ RowSound(i) /\ KeptAt(i) /\ i \in pass.todo /\ present \subseteq Issues
  BY <1>0, HandFacts DEF Enqueue
<1>2. /\ UNCHANGED <<present, iss, replanner, replans, outage, wake, clicks, step, level, faults>>
      /\ coder' = [coder EXCEPT ![i] = Sent(@)]
      /\ agent' = [agent EXCEPT ![i].run = Sent(@)]
      /\ DoneWith(i)
  BY <1>0, <1>1 DEF Enqueue, outside, InHand
<1>3. pass.at \in {"dispatch", "ingest", "review", "advise"}
  BY <1>1 DEF DInv, Places
<1>4. /\ agent'[i] \in AgentRecords /\ agent'[i].run = Sent(agent[i].run)
      /\ agent'[i].role = agent[i].role /\ agent'[i].used = agent[i].used
      /\ RunIsLive(agent'[i].run) <=> RunIsLive(agent[i].run)
      /\ agent[i] = NoAgent => agent'[i] = NoAgent
  <2>1. agent'[i] = [agent[i] EXCEPT !.run = Sent(@)]
    BY <1>0, <1>1, <1>2 DEF RowTypes
  <2>2. agent[i].run \in Runs
    BY <1>1 DEF AgentRecords
  <2>3. Sent(agent[i].run) \in Runs
    BY <2>2, RunFacts
  <2>4. Sent("none") = "none"
    BY DEF Sent
  <2> QED
    BY <1>1, <2>1, <2>2, <2>3, <2>4, RunFacts DEF AgentRecords, NoAgent
<1>5. /\ coder'[i] = Sent(coder[i]) /\ coder'[i] \in Runs \cup {"agent"}
      /\ (coder'[i] = "none") <=> (coder[i] = "none")
      /\ (coder'[i] = "agent") <=> (coder[i] = "agent")
      /\ RunIsLive(coder'[i]) <=> RunIsLive(coder[i])
  BY <1>0, <1>1, <1>2, SentKeepsNone DEF RowTypes
<1>6. \A j \in Issues \ {i} : coder'[j] = coder[j] /\ agent'[j] = agent[j]
  BY <1>0, <1>1, <1>2 DEF RowTypes
<1>7. RowTypes'
  BY <1>0, <1>1, <1>2, <1>4, <1>5 DEF RowTypes
<1>8. /\ pass' \in PassRecords /\ pass'.at = pass.at /\ pass'.seen = pass.seen
      /\ pass'.todo = pass.todo \ {i} /\ pass'.next = "none" /\ pass'.hold = pass.hold
      /\ pass'.again = pass.again
  BY <1>1, <1>2, PassMoves
<1>9. Touches(i)
  BY <1>0, <1>1, <1>2, <1>6, <1>7, <1>8 DEF Touches, FaultTypes
<1>10. RowSound(i)' /\ KeptAt(i)'
  BY <1>1, <1>2, <1>4, <1>5 DEF RowSound, KeptAt, Over, Children, ReviewEnabled, Overwritten
<1>11. Agents(i)
  BY <1>0, <1>1, <1>3, <1>4, <1>5 DEF Agents, DInv, Places, Quiet, Owned
<1>12. CASE pass.at \in {"dispatch", "ingest"}
  <2>1. CoderLeaves(i)
    BY <1>8 DEF CoderLeaves
  <2> QED
    BY <1>0, <1>9, <1>10, <1>11, <1>12, <2>1, CoderTouch
<1>13. CASE pass.at = "review"
  <2>1. ReviewLeaves(i)
    BY <1>1, <1>2, <1>4, <1>8, <1>13 DEF DInv, Knows, Sections, AtReview, ReviewLeaves
  <2> QED
    BY <1>0, <1>9, <1>10, <1>11, <1>13, <2>1, ReviewTouch
<1>14. CASE pass.at = "advise"
  <2>1. Owned => pass.hold
    BY <1>1, <1>14 DEF DInv, Sections, AtAdvise
  <2>2. Owned /\ RefusedFailed(i)' => i \in Refused
    BY <1>1, <1>2, <1>14 DEF DInv, Sections, Seen, RefusedFailed
  <2>3. AdviseLeaves(i)
    BY <1>1, <1>8, <2>1, <2>2 DEF AdviseLeaves
  <2> QED
    BY <1>0, <1>9, <1>10, <1>11, <1>14, <2>3, AdviseTouch
<1> QED
  BY <1>3, <1>12, <1>13, <1>14

(* IngestCoder waits for a coder, or reads what it left: the issue's outcome, or a
   coder to send again. *)
LEMMA IngestCoderKeeps ==
    ASSUME DInv, NEW i \in Issues, IngestCoder(i), UNCHANGED setting PROVE DInv'
<1> DEFINE r == CoderRun(i)
           charged == iss[i].infra + (IF r = "killed" THEN 1 ELSE 0)
           mark == IF r = "cut" THEN "cut" ELSE "none"
<1>0. /\ InHand(i) /\ pass.at = "ingest" /\ pass.next = "none" /\ i \in present
      /\ pass \in PassRecords /\ RowTypes /\ FaultTypes /\ setting \in Settings
      /\ iss[i] \in IssueRows /\ RowSound(i) /\ KeptAt(i) /\ i = Hand /\ i \in pass.todo
      /\ agent[i] \in AgentRecords /\ coder[i] \in Runs \cup {"agent"}
  BY HandFacts DEF IngestCoder, At
<1>a. /\ UNCHANGED <<present, replanner, replans, outage, wake, clicks, step, level>>
  BY DEF IngestCoder, outside
<1>b. Owned => iss[i].outcome = "running"
  BY <1>0 DEF DInv, Sections, AtIngest
<1>1. CASE RunIsLive(r) /\ HoldFor(i) /\ UNCHANGED <<iss, coder, agent, faults>>
  <2>1. /\ pass' \in PassRecords /\ pass'.at = pass.at /\ pass'.seen = pass.seen
        /\ pass'.todo = pass.todo \ {i} /\ pass'.next = "none" /\ pass'.hold = TRUE
    BY <1>0, <1>1, PassMoves
  <2>2. Touches(i)
    BY <1>0, <1>1, <1>a, <2>1 DEF Touches, RowTypes, FaultTypes
  <2>3. RowSound(i)' /\ KeptAt(i)'
    BY <1>0, <1>1, <1>a DEF RowSound, KeptAt, Over, Children, ReviewEnabled, Overwritten
  <2>4. Agents(i)
    BY <1>0, <1>1 DEF Agents, DInv, Places, Quiet, Owned
  <2>5. CoderLeaves(i)
    BY <1>0, <1>1, <1>a, <2>1 DEF CoderLeaves, Stirs, AnyLive, CoderRun
  <2> QED
    BY <1>0, <2>2, <2>3, <2>4, <2>5, CoderTouch
<1>2. CASE /\ r \in Ended /\ Owned
           /\ \E a \in CoderAnswers(i, r) : Set(i, a)
           /\ coder' = [coder EXCEPT ![i] = "none"]
           /\ DoneWith(i)
           /\ UNCHANGED <<agent, faults>>
  <2>1. PICK a \in CoderAnswers(i, r) : Set(i, a)
    BY <1>2
  <2>2. /\ a \in IssueRows /\ a.outcome \in {"done", "failed"} /\ a.res = iss[i].res
        /\ a.merged = iss[i].merged /\ a.adv = iss[i].adv /\ a.stuck = iss[i].stuck
    <3> HIDE DEF r
    <3>1. \/ \E f \in BOOLEAN : a = [iss[i] EXCEPT !.outcome = "done", !.files = f]
          \/ \E e \in {"none", "env", "refused"} : a = [iss[i] EXCEPT !.outcome = "failed", !.err = e]
          \/ a = [iss[i] EXCEPT !.outcome = "failed"]
      BY <2>1 DEF CoderAnswers
    <3>2. ASSUME NEW f \in BOOLEAN, a = [iss[i] EXCEPT !.outcome = "done", !.files = f]
          PROVE  /\ a \in IssueRows /\ a.outcome \in {"done", "failed"} /\ a.res = iss[i].res
                 /\ a.merged = iss[i].merged /\ a.adv = iss[i].adv /\ a.stuck = iss[i].stuck
      BY <1>0, <3>2 DEF IssueRows
    <3>3. ASSUME NEW e \in {"none", "env", "refused"},
                 a = [iss[i] EXCEPT !.outcome = "failed", !.err = e]
          PROVE  /\ a \in IssueRows /\ a.outcome \in {"done", "failed"} /\ a.res = iss[i].res
                 /\ a.merged = iss[i].merged /\ a.adv = iss[i].adv /\ a.stuck = iss[i].stuck
      BY <1>0, <3>3 DEF IssueRows
    <3>4. CASE a = [iss[i] EXCEPT !.outcome = "failed"]
      BY <1>0, <3>4 DEF IssueRows
    <3> QED
      BY <3>1, <3>2, <3>3, <3>4
  <2>3. /\ iss' \in [Issues -> IssueRows] /\ iss'[i] = a
        /\ \A j \in Issues \ {i} : iss'[j] = iss[j]
    BY <1>0, <2>1, <2>2, RowWritten DEF RowTypes
  <2>4. /\ pass' \in PassRecords /\ pass'.at = pass.at /\ pass'.seen = pass.seen
        /\ pass'.todo = pass.todo \ {i} /\ pass'.next = "none" /\ pass'.hold = pass.hold
    BY <1>0, <1>2, PassMoves
  <2>5. /\ coder' \in [Issues -> Runs \cup {"agent"}] /\ coder'[i] = "none"
        /\ \A j \in Issues \ {i} : coder'[j] = coder[j]
    BY <1>0, <1>2, RunFacts DEF RowTypes
  <2>6. Touches(i)
    BY <1>0, <1>2, <1>a, <2>3, <2>4, <2>5 DEF Touches, RowTypes, FaultTypes
  <2>7. ~RunIsLive(coder[i]) /\ ~RunIsLive(agent[i].run) /\ iss[i].outcome = "running"
    BY <1>0, <1>2, <1>b, RunFacts DEF CoderRun, RowSound, Over
  <2>8. RowSound(i)' /\ KeptAt(i)' /\ Agents(i)
    BY <1>0, <1>2, <1>a, <2>2, <2>3, <2>5, <2>7 DEF RowSound, KeptAt, Agents, Over, Children,
       RunIsLive, ReviewEnabled, Overwritten
  <2>9. CoderLeaves(i)
    BY <2>4 DEF CoderLeaves
  <2> QED
    BY <1>0, <2>6, <2>8, <2>9, CoderTouch
<1>c. charged \in Nat /\ (Redispatched(i, r) => charged \in 0..MaxInfra)
  BY <1>0, LevelAssumption DEF IssueRows, Redispatched
<1>3. CASE /\ r \in Ended /\ Owned /\ Redispatched(i, r) /\ coder[i] # "agent"
           /\ Set(i, [iss[i] EXCEPT !.outcome = "pending", !.infra = charged, !.err = mark])
           /\ coder' = [coder EXCEPT ![i] = "none"]
           /\ DoneWith(i)
           /\ UNCHANGED <<agent, faults>>
  <2> DEFINE a == [iss[i] EXCEPT !.outcome = "pending", !.infra = charged, !.err = mark]
  <2>1. mark \in {"cut", "none"}
    OBVIOUS
  <2>2. /\ a \in IssueRows /\ a.outcome = "pending" /\ a.res = iss[i].res /\ a.err # "refused"
        /\ a.merged = iss[i].merged /\ a.adv = iss[i].adv /\ a.stuck = iss[i].stuck
    <3> HIDE DEF r, charged, mark
    <3> QED
      BY <1>0, <1>3, <1>c, <2>1 DEF IssueRows
  <2>3. /\ iss' \in [Issues -> IssueRows] /\ iss'[i] = a
        /\ \A j \in Issues \ {i} : iss'[j] = iss[j]
    BY <1>0, <1>3, <2>2, RowWritten DEF RowTypes
  <2>4. /\ pass' \in PassRecords /\ pass'.at = pass.at /\ pass'.seen = pass.seen
        /\ pass'.todo = pass.todo \ {i} /\ pass'.next = "none" /\ pass'.hold = pass.hold
    BY <1>0, <1>3, PassMoves
  <2>5. /\ coder' \in [Issues -> Runs \cup {"agent"}] /\ coder'[i] = "none"
        /\ \A j \in Issues \ {i} : coder'[j] = coder[j]
    BY <1>0, <1>3, RunFacts DEF RowTypes
  <2>6. Touches(i)
    BY <1>0, <1>3, <1>a, <2>3, <2>4, <2>5 DEF Touches, RowTypes, FaultTypes
  <2>7. ~RunIsLive(coder[i]) /\ ~RunIsLive(agent[i].run) /\ iss[i].outcome = "running"
    BY <1>0, <1>3, <1>b, RunFacts DEF CoderRun, RowSound, Over
  <2>8. RowSound(i)' /\ KeptAt(i)' /\ Agents(i)
    <3> HIDE DEF a
    <3> QED
      BY <1>0, <1>3, <1>a, <2>2, <2>3, <2>5, <2>7 DEF RowSound, KeptAt, Agents, Over, Children,
         RunIsLive, ReviewEnabled, Overwritten
  <2>9. CoderLeaves(i)
    BY <2>4 DEF CoderLeaves
  <2> QED
    BY <1>0, <2>6, <2>8, <2>9, CoderTouch
<1>4. CASE /\ r \in Ended /\ Owned /\ Redispatched(i, r) /\ coder[i] = "agent"
           /\ agent' = [agent EXCEPT ![i] = NewAgent("coder", r = "cut")]
           /\ Set(i, [iss[i] EXCEPT !.infra = charged, !.err = "none"])
           /\ Then("enqueue")
           /\ UNCHANGED <<coder, faults>>
  <2> DEFINE a == [iss[i] EXCEPT !.infra = charged, !.err = "none"]
  <2>2. /\ a \in IssueRows /\ a.outcome = iss[i].outcome /\ a.res = iss[i].res /\ a.err = "none"
        /\ a.merged = iss[i].merged /\ a.adv = iss[i].adv /\ a.stuck = iss[i].stuck
    <3> HIDE DEF r, charged, mark
    <3> QED
      BY <1>0, <1>4, <1>c DEF IssueRows
  <2>3. /\ iss' \in [Issues -> IssueRows] /\ iss'[i] = a
        /\ \A j \in Issues \ {i} : iss'[j] = iss[j]
    BY <1>0, <1>4, <2>2, RowWritten DEF RowTypes
  <2>4. /\ pass' \in PassRecords /\ pass'.at = pass.at /\ pass'.seen = pass.seen
        /\ pass'.todo = pass.todo /\ pass'.next = "enqueue" /\ pass'.hold = pass.hold
    <3>1. "enqueue" \in Nexts
      BY DEF Nexts
    <3> QED
      BY <1>0, <1>4, <3>1, PassMoves
  <2>5. /\ agent' \in [Issues -> AgentRecords]
        /\ agent'[i].role = "coder" /\ ~agent'[i].used /\ RunIsLive(agent'[i].run)
        /\ \A j \in Issues \ {i} : agent'[j] = agent[j]
    <3> HIDE DEF r
    <3>1. NewAgent("coder", r = "cut") \in AgentRecords
      BY RunFacts DEF NewAgent, AgentRecords
    <3> QED
      BY <1>0, <1>4, <3>1, RunFacts DEF RowTypes, NewAgent
  <2>6. Touches(i)
    BY <1>0, <1>4, <1>a, <2>3, <2>4, <2>5 DEF Touches, RowTypes, FaultTypes
  <2>7. iss[i].outcome = "running"
    BY <1>4, <1>b
  <2>a. ReviewEnabled
    BY <1>0, <1>4, RunFacts DEF KeptAt, NoAgent, CoderRun
  <2>8. RowSound(i)' /\ KeptAt(i)' /\ Agents(i)
    <3> HIDE DEF a
    <3> QED
      BY <1>0, <1>4, <1>a, <2>a, <2>2, <2>3, <2>5, <2>7 DEF RowSound, KeptAt, Agents, Over,
         Children, RunIsLive, ReviewEnabled, Overwritten
  <2>9. CoderLeaves(i)
    <3> HIDE DEF a
    <3> QED
      BY <2>2, <2>3, <2>4, <2>7 DEF CoderLeaves
  <2> QED
    BY <1>0, <2>6, <2>8, <2>9, CoderTouch
<1>5. CASE /\ r \in Ended /\ Owned /\ Redispatched(i, r) /\ coder[i] = "agent"
           /\ Fault("provider")
           /\ Set(i, [iss[i] EXCEPT !.outcome = "failed", !.err = "env"])
           /\ coder' = [coder EXCEPT ![i] = "none"]
           /\ DoneWith(i)
           /\ UNCHANGED agent
  <2>1. [iss[i] EXCEPT !.outcome = "failed", !.err = "env"] \in IssueRows
    BY <1>0 DEF IssueRows
  <2>2. /\ iss' \in [Issues -> IssueRows]
        /\ iss'[i] = [iss[i] EXCEPT !.outcome = "failed", !.err = "env"]
        /\ \A j \in Issues \ {i} : iss'[j] = iss[j]
    BY <1>0, <1>5, <2>1, RowWritten DEF RowTypes
  <2>3. /\ iss'[i].outcome = "failed" /\ iss'[i].err = "env" /\ iss'[i].res = iss[i].res
        /\ iss'[i].merged = iss[i].merged /\ iss'[i].adv = iss[i].adv /\ iss'[i].stuck = iss[i].stuck
    BY <1>0, <2>2 DEF IssueRows
  <2>4. /\ pass' \in PassRecords /\ pass'.at = pass.at /\ pass'.seen = pass.seen
        /\ pass'.todo = pass.todo \ {i} /\ pass'.next = "none" /\ pass'.hold = pass.hold
    BY <1>0, <1>5, PassMoves
  <2>5. /\ coder' \in [Issues -> Runs \cup {"agent"}] /\ coder'[i] = "none"
        /\ \A j \in Issues \ {i} : coder'[j] = coder[j]
    BY <1>0, <1>5, RunFacts DEF RowTypes
  <2>a. /\ FaultTypes' /\ faults.kinds \subseteq faults'.kinds
        /\ "busy" \in faults'.kinds => "busy" \in faults.kinds
    BY <1>0, <1>5, FaultMoves
  <2>6. Touches(i)
    BY <1>0, <1>5, <1>a, <2>2, <2>4, <2>5, <2>a DEF Touches, RowTypes
  <2>7. ~RunIsLive(coder[i]) /\ ~RunIsLive(agent[i].run) /\ iss[i].outcome = "running"
    BY <1>0, <1>5, <1>b, RunFacts DEF CoderRun, RowSound, Over
  <2>8. RowSound(i)' /\ KeptAt(i)' /\ Agents(i)
    BY <1>0, <1>5, <1>a, <2>3, <2>5, <2>7, <2>a DEF RowSound, KeptAt, Agents, Over, Children,
       RunIsLive, ReviewEnabled, Overwritten
  <2>9. CoderLeaves(i)
    BY <2>4 DEF CoderLeaves
  <2> QED
    BY <1>0, <2>6, <2>8, <2>9, CoderTouch
<1> QED
  BY <1>1, <1>2, <1>3, <1>4, <1>5 DEF IngestCoder

(* A step that meets no fault. *)
LEMMA SameFaults ==
    ASSUME DInv, UNCHANGED <<setting, faults>>
    PROVE  /\ FaultTypes' /\ faults.kinds \subseteq faults'.kinds
           /\ "busy" \in faults'.kinds => "busy" \in faults.kinds
  BY TypeParts DEF DInv, FaultTypes

(* Steps that write only the row, or only the latest agent, of the issue in hand. *)
LEMMA RowOnly ==
    ASSUME DInv, NEW i \in Issues, InHand(i), pass.at # "off", NEW r \in IssueRows, Set(i, r),
           UNCHANGED <<setting, present, coder, agent, replanner, replans, outage, wake, clicks,
                       step, level>>,
           FaultTypes', faults.kinds \subseteq faults'.kinds,
           "busy" \in faults'.kinds => "busy" \in faults.kinds,
           pass' \in PassRecords, pass'.at = pass.at, pass'.seen = pass.seen,
           pass'.todo \in {pass.todo, pass.todo \ {i}}
    PROVE  Touches(i) /\ Agents(i) /\ iss'[i] = r
<1>1. /\ RowTypes /\ FaultTypes /\ i \in present
  BY HandFacts
<1>2. iss' \in [Issues -> IssueRows] /\ iss'[i] = r /\ \A j \in Issues \ {i} : iss'[j] = iss[j]
  BY <1>1, RowWritten DEF RowTypes
<1>3. Touches(i)
  BY <1>1, <1>2 DEF Touches, RowTypes
<1>4. Agents(i)
  BY <1>1 DEF Agents, DInv, Places, Quiet, Owned
<1> QED
  BY <1>2, <1>3, <1>4

(* The same for the latest agent: a run in flight is not dropped, and is new only in a step
   that is its own. *)
LEMMA AgentOnly ==
    ASSUME DInv, NEW i \in Issues, InHand(i), pass.at # "off", NEW a \in AgentRecords,
           agent' = [agent EXCEPT ![i] = a],
           UNCHANGED <<setting, present, iss, coder, replanner, replans, outage, wake, clicks,
                       step, level>>,
           FaultTypes', faults.kinds \subseteq faults'.kinds,
           "busy" \in faults'.kinds => "busy" \in faults.kinds,
           pass' \in PassRecords, pass'.at = pass.at, pass'.seen = pass.seen,
           pass'.todo \in {pass.todo, pass.todo \ {i}},
           RunIsLive(agent[i].run) => RunIsLive(a.run), RunIsLive(a.run) => Owned
    PROVE  Touches(i) /\ Agents(i) /\ agent'[i] = a
<1>1. /\ RowTypes /\ i \in present
  BY HandFacts
<1>2. agent' \in [Issues -> AgentRecords] /\ agent'[i] = a /\ \A j \in Issues \ {i} : agent'[j] = agent[j]
  BY <1>1 DEF RowTypes
<1>3. Touches(i)
  BY <1>1, <1>2 DEF Touches, RowTypes
<1>4. Agents(i)
  BY <1>1, <1>2 DEF Agents, DInv, Places, Quiet, Owned
<1> QED
  BY <1>2, <1>3, <1>4

(* An agent that is marked read keeps its role and its run. *)
LEMMA Consumed ==
    ASSUME NEW i \in Issues, RowTypes, agent' = [agent EXCEPT ![i].used = TRUE]
    PROVE  \E a \in AgentRecords : /\ agent' = [agent EXCEPT ![i] = a] /\ a.used = TRUE
                                   /\ a.role = agent[i].role /\ a.run = agent[i].run
<1>1. agent[i] \in AgentRecords
  BY DEF RowTypes
<1>2. agent' = [agent EXCEPT ![i] = [agent[i] EXCEPT !.used = TRUE]]
  OBVIOUS
<1>3. /\ [agent[i] EXCEPT !.used = TRUE] \in AgentRecords
      /\ [agent[i] EXCEPT !.used = TRUE].used = TRUE
      /\ [agent[i] EXCEPT !.used = TRUE].role = agent[i].role
      /\ [agent[i] EXCEPT !.used = TRUE].run = agent[i].run
  BY <1>1 DEF AgentRecords
<1> QED
  BY <1>2, <1>3

(* A new agent is in flight and not read. *)
LEMMA NewAgents ==
    ASSUME NEW role \in {"reviewer", "coder", "advisor"}, NEW b \in BOOLEAN
    PROVE  /\ NewAgent(role, b) \in AgentRecords /\ RunIsLive(NewAgent(role, b).run)
           /\ NewAgent(role, b).role = role /\ ~NewAgent(role, b).used
  BY RunFacts DEF NewAgent, AgentRecords

(* ReviewIssue looks at the latest agent of the issue in hand. *)
LEMMA ReviewIssueKeeps ==
    ASSUME DInv, NEW i \in Issues, ReviewIssue(i), UNCHANGED setting PROVE DInv'
<1>0. /\ InHand(i) /\ pass.at = "review" /\ pass.next = "none" /\ i \in present
      /\ pass \in PassRecords /\ RowTypes /\ FaultTypes /\ setting \in Settings
      /\ iss[i] \in IssueRows /\ RowSound(i) /\ KeptAt(i) /\ i = Hand /\ i \in pass.todo
      /\ agent[i] \in AgentRecords /\ coder[i] \in Runs \cup {"agent"}
  BY HandFacts DEF ReviewIssue, At
<1>a. UNCHANGED <<present, iss, coder, replanner, replans, outage, wake, clicks, step, level>>
  BY DEF ReviewIssue, outside
<1>b. iss[i].outcome = "done" /\ iss[i].res = "none" /\ ReviewEnabled
  BY <1>0 DEF DInv, Knows, Places
<1>c. ReviewNexts \subseteq Nexts /\ "enqueue" \in Nexts
  BY DEF ReviewNexts, Nexts, Spawns
<1>d. ASSUME NEW a \in AgentRecords, agent' = [agent EXCEPT ![i] = a],
             FaultTypes', faults.kinds \subseteq faults'.kinds,
             "busy" \in faults'.kinds => "busy" \in faults.kinds,
             RunIsLive(agent[i].run) => RunIsLive(a.run), RunIsLive(a.run) => Owned,
             RunIsLive(a.run) => a.role \in {"coder", "reviewer"} /\ ~a.used,
             a.role = "advisor" /\ ~a.used => agent[i].role = "advisor" /\ ~agent[i].used,
             NEW n, Then(n),
             \/ n = "enqueue" /\ RunIsLive(a.run)
             \/ n \in ReviewNexts /\ ~RunIsLive(a.run) /\ (n = "charge" => iss[i].revs < MaxInfra)
      PROVE  DInv'
  <2>1. /\ pass' \in PassRecords /\ pass'.at = pass.at /\ pass'.seen = pass.seen
        /\ pass'.todo = pass.todo /\ pass'.next = n /\ pass'.hold = pass.hold
    BY <1>0, <1>c, <1>d, PassMoves
  <2>2. Touches(i) /\ Agents(i) /\ agent'[i] = a
    BY <1>0, <1>a, <1>d, <2>1, AgentOnly
  <2>3. RowSound(i)' /\ KeptAt(i)'
    BY <1>0, <1>a, <1>b, <1>d, <2>2 DEF RowSound, KeptAt, Over, Children, ReviewEnabled, Overwritten
  <2>4. ReviewLeaves(i)
    BY <1>a, <1>b, <1>d, <2>1, <2>2 DEF ReviewLeaves
  <2> QED
    BY <1>0, <2>2, <2>3, <2>4, ReviewTouch
<1>e. ASSUME agent[i].run \in Ended, agent' = [agent EXCEPT ![i].used = TRUE],
             FaultTypes', faults.kinds \subseteq faults'.kinds,
             "busy" \in faults'.kinds => "busy" \in faults.kinds,
             NEW n \in ReviewNexts, Then(n), n = "charge" => iss[i].revs < MaxInfra
      PROVE  DInv'
  <2>1. PICK a \in AgentRecords : /\ agent' = [agent EXCEPT ![i] = a] /\ a.used = TRUE
                                  /\ a.role = agent[i].role /\ a.run = agent[i].run
    BY <1>0, <1>e, Consumed
  <2>2. ~RunIsLive(a.run)
    BY <1>e, <2>1, RunFacts
  <2> QED
    BY <1>d, <1>e, <2>1, <2>2
<1>f. UNCHANGED faults => /\ FaultTypes' /\ faults.kinds \subseteq faults'.kinds
                          /\ "busy" \in faults'.kinds => "busy" \in faults.kinds
  BY <1>0 DEF FaultTypes
<1>1. CASE agent[i].role = "none" /\ Then("spawnReview") /\ UNCHANGED <<agent, faults>>
  <2>1. agent' = [agent EXCEPT ![i] = agent[i]]
    BY <1>0, <1>1 DEF RowTypes
  <2>2. ~RunIsLive(agent[i].run)
    BY <1>0, <1>1 DEF RowSound
  <2>3. "spawnReview" \in ReviewNexts
    BY DEF ReviewNexts
  <2> QED
    BY <1>0, <1>1, <1>d, <1>f, <2>1, <2>2, <2>3
<1>2. CASE ~agent[i].used /\ RunIsLive(agent[i].run) /\ DoneWith(i) /\ UNCHANGED <<agent, faults>>
  <2>1. agent' = [agent EXCEPT ![i] = agent[i]]
    BY <1>0, <1>2 DEF RowTypes
  <2>2. /\ pass' \in PassRecords /\ pass'.at = pass.at /\ pass'.seen = pass.seen
        /\ pass'.todo = pass.todo \ {i} /\ pass'.next = "none" /\ pass'.hold = pass.hold
    BY <1>0, <1>2, PassMoves
  <2>3. Owned
    BY <1>0, <1>2 DEF DInv, Places, Quiet, Owned
  <2>4. Touches(i) /\ Agents(i)
    BY <1>0, <1>2, <1>a, <1>f, <2>1, <2>2, <2>3, AgentOnly
  <2>5. RowSound(i)' /\ KeptAt(i)'
    BY <1>0, <1>2, <1>a DEF RowSound, KeptAt, Over, Children, ReviewEnabled, Overwritten
  <2>6. ReviewLeaves(i)
    BY <1>a, <1>b, <1>2, <2>2 DEF ReviewLeaves
  <2> QED
    BY <1>0, <2>4, <2>5, <2>6, ReviewTouch
<1> DEFINE consumed == agent' = [agent EXCEPT ![i].used = TRUE]
           a == agent[i]
           fixer == a.role # "reviewer"
<1>3. CASE a.run \in Ended /\ consumed /\ UNCHANGED faults
           /\ \E n \in {"failRefused", "fail"} : Then(n)
  <2>1. {"failRefused", "fail"} \subseteq ReviewNexts \ {"charge"}
    BY DEF ReviewNexts, Verdicts
  <2> QED
    BY <1>3, <1>e, <1>f, <2>1
<1>4. CASE a.run \in Ended /\ Owned /\ agent' = [agent EXCEPT ![i] = NewAgent("coder", a.run = "cut")]
           /\ Then("enqueue") /\ UNCHANGED faults
  <2>1. NewAgent("coder", a.run = "cut") \in AgentRecords
        /\ RunIsLive(NewAgent("coder", a.run = "cut").run)
        /\ NewAgent("coder", a.run = "cut").role = "coder" /\ ~NewAgent("coder", a.run = "cut").used
    BY NewAgents
  <2> QED
    BY <1>4, <1>d, <1>f, <2>1
<1>5. CASE a.run \in Ended /\ Fault("provider") /\ consumed /\ Then("fail")
  <2>1. "fail" \in ReviewNexts /\ "fail" # "charge"
    BY DEF ReviewNexts, Verdicts
  <2>2. /\ FaultTypes' /\ faults.kinds \subseteq faults'.kinds
        /\ "busy" \in faults'.kinds => "busy" \in faults.kinds
    BY <1>0, <1>5, FaultMoves
  <2> QED
    BY <1>5, <1>e, <2>1, <2>2
<1>6. CASE a.run \in Ended /\ consumed /\ UNCHANGED faults /\ \E n \in Verdict(i, a.run) : Then(n)
  <2>1. PICK n \in Verdict(i, a.run) : Then(n)
    BY <1>6
  <2>2. n \in ReviewNexts /\ (n = "charge" => iss[i].revs < MaxInfra)
    BY <2>1 DEF ReviewNexts, Verdicts, Verdict
  <2> QED
    BY <1>6, <1>e, <1>f, <2>1, <2>2
<1> QED
  BY <1>1, <1>2, <1>3, <1>4, <1>5, <1>6 DEF ReviewIssue

(* A step of the review that writes the row of the issue in hand. *)
LEMMA ReviewRow ==
    ASSUME DInv, NEW i \in Issues, InHand(i), pass.at = "review", NEW r \in IssueRows, Set(i, r),
           UNCHANGED <<setting, present, coder, agent, replanner, replans, outage, wake, clicks,
                       step, level>>,
           FaultTypes', faults.kinds \subseteq faults'.kinds,
           "busy" \in faults'.kinds => "busy" \in faults.kinds,
           r.outcome = "done", r.merged = iss[i].merged, r.adv = iss[i].adv, r.res # "split",
           r.stuck < StuckLimit \/ r.res = "accepted",
           ~RunIsLive(agent[i].run),
           \/ r.res # "none" /\ DoneWith(i)
           \/ r.res = "none" /\ \E n \in ReviewNexts \ {"charge"} : Then(n)
    PROVE  DInv'
<1>0. /\ i \in present /\ pass \in PassRecords /\ RowSound(i) /\ KeptAt(i) /\ i \in pass.todo
  BY HandFacts
<1>a. iss[i].outcome = "done" /\ iss[i].res = "none" /\ ReviewEnabled
  BY <1>0 DEF DInv, Knows, Places
<1>1. /\ pass' \in PassRecords /\ pass'.at = pass.at /\ pass'.seen = pass.seen
      /\ pass'.hold = pass.hold
      /\ \/ r.res # "none" /\ pass'.todo = pass.todo \ {i} /\ pass'.next = "none"
         \/ r.res = "none" /\ pass'.todo = pass.todo /\ pass'.next \in ReviewNexts \ {"charge"}
  <2>1. ReviewNexts \subseteq Nexts
    BY DEF ReviewNexts, Nexts, Spawns
  <2> QED
    BY <1>0, <2>1, PassMoves
<1>2. Touches(i) /\ Agents(i) /\ iss'[i] = r
  BY <1>1, RowOnly
<1>3. coder[i] = "none"
  BY <1>0, <1>a DEF RowSound
<1>4. RowSound(i)' /\ KeptAt(i)'
  BY <1>0, <1>a, <1>2, <1>3 DEF RowSound, KeptAt, Over, Children, ReviewEnabled, Overwritten
<1>5. ReviewLeaves(i)
  BY <1>1, <1>2 DEF ReviewLeaves
<1> QED
  BY <1>2, <1>4, <1>5, ReviewTouch

(* ReviewStalled meets an agent whose answer a dead pass consumed. *)
LEMMA ReviewStalledKeeps ==
    ASSUME DInv, NEW i \in Issues, ReviewStalled(i), UNCHANGED setting PROVE DInv'
<1>0. /\ InHand(i) /\ pass.at = "review" /\ i \in present
      /\ iss[i] \in IssueRows /\ RowSound(i) /\ i \in pass.todo /\ agent[i].used
  BY HandFacts DEF ReviewStalled, At
<1>a. UNCHANGED <<present, coder, agent, replanner, replans, outage, wake, clicks, step, level, faults>>
  BY DEF ReviewStalled, outside
<1>b. iss[i].outcome = "done" /\ iss[i].res = "none" /\ ~RunIsLive(agent[i].run) /\ iss[i].stuck < StuckLimit
  BY <1>0 DEF DInv, Knows, RowSound
<1>c. /\ FaultTypes' /\ faults.kinds \subseteq faults'.kinds
      /\ "busy" \in faults'.kinds => "busy" \in faults.kinds
  BY <1>a, SameFaults
<1>1. CASE iss[i].revs < MaxInfra
  <2> DEFINE r == [iss[i] EXCEPT !.revs = @ + 1]
  <2>1. Set(i, r) /\ Then("respawnReview")
    BY <1>1 DEF ReviewStalled
  <2>2. /\ r \in IssueRows /\ r.outcome = iss[i].outcome /\ r.res = iss[i].res
        /\ r.merged = iss[i].merged /\ r.adv = iss[i].adv /\ r.stuck = iss[i].stuck
    BY <1>0, <1>1, LevelAssumption DEF IssueRows
  <2>3. "respawnReview" \in ReviewNexts \ {"charge"}
    BY DEF ReviewNexts
  <2> HIDE DEF r
  <2> QED
    BY <1>0, <1>a, <1>b, <1>c, <2>1, <2>2, <2>3, ReviewRow
<1>2. CASE ~(iss[i].revs < MaxInfra)
  <2> DEFINE r == [iss[i] EXCEPT !.res = "failed"]
  <2>1. Set(i, r) /\ DoneWith(i)
    BY <1>2 DEF ReviewStalled
  <2>2. /\ r \in IssueRows /\ r.outcome = iss[i].outcome /\ r.res = "failed"
        /\ r.merged = iss[i].merged /\ r.adv = iss[i].adv /\ r.stuck = iss[i].stuck
    BY <1>0 DEF IssueRows
  <2> HIDE DEF r
  <2> QED
    BY <1>0, <1>a, <1>b, <1>c, <2>1, <2>2, ReviewRow
<1> QED
  BY <1>1, <1>2

(* ApplyVerdict writes what the reviewer said. *)
LEMMA ApplyVerdictKeeps ==
    ASSUME DInv, NEW i \in Issues, ApplyVerdict(i), UNCHANGED setting PROVE DInv'
<1>0. /\ InHand(i) /\ pass.next \in Verdicts /\ i \in present /\ i = Hand
      /\ iss[i] \in IssueRows /\ RowSound(i) /\ i \in pass.todo
  BY HandFacts DEF ApplyVerdict
<1>a. UNCHANGED <<present, coder, agent, replanner, replans, outage, wake, clicks, step, level, faults>>
  BY DEF ApplyVerdict, outside
<1>b. /\ pass.at = "review" /\ iss[i].outcome = "done" /\ iss[i].res = "none"
      /\ ~RunIsLive(agent[i].run) /\ iss[i].stuck < StuckLimit
      /\ pass.next = "charge" => iss[i].revs < MaxInfra
  BY <1>0 DEF DInv, Places, Knows, RowSound, ReviewNexts
<1>c. /\ FaultTypes' /\ faults.kinds \subseteq faults'.kinds
      /\ "busy" \in faults'.kinds => "busy" \in faults.kinds
  BY <1>a, SameFaults
<1>d. /\ MaxInfra \in Nat /\ StuckLimit \in Nat
      /\ iss[i].revs \in 0..MaxInfra /\ iss[i].stuck \in 0..StuckLimit /\ iss[i].iter \in Nat
  BY <1>0, LevelAssumption DEF IssueRows
<1>1. CASE \E res \in {"accepted", "failed"} : Set(i, [iss[i] EXCEPT !.res = res]) /\ DoneWith(i)
  <2>1. PICK res \in {"accepted", "failed"} : Set(i, [iss[i] EXCEPT !.res = res]) /\ DoneWith(i)
    BY <1>1
  <2> DEFINE r == [iss[i] EXCEPT !.res = res]
  <2>2. /\ r \in IssueRows /\ r.outcome = iss[i].outcome /\ r.res = res
        /\ r.merged = iss[i].merged /\ r.adv = iss[i].adv /\ r.stuck = iss[i].stuck
    BY <1>0 DEF IssueRows
  <2>3. Set(i, r) /\ DoneWith(i)
    BY <2>1
  <2> HIDE DEF r
  <2> QED
    BY <1>0, <1>a, <1>b, <1>c, <2>2, <2>3, ReviewRow
<1>2. CASE \E e \in {"env", "refused"} : Set(i, [iss[i] EXCEPT !.res = "failed", !.err = e]) /\ DoneWith(i)
  <2>1. PICK e \in {"env", "refused"} : Set(i, [iss[i] EXCEPT !.res = "failed", !.err = e]) /\ DoneWith(i)
    BY <1>2
  <2> DEFINE r == [iss[i] EXCEPT !.res = "failed", !.err = e]
  <2>2. /\ r \in IssueRows /\ r.outcome = iss[i].outcome /\ r.res = "failed"
        /\ r.merged = iss[i].merged /\ r.adv = iss[i].adv /\ r.stuck = iss[i].stuck
    BY <1>0 DEF IssueRows
  <2>3. Set(i, r) /\ DoneWith(i)
    BY <2>1
  <2> HIDE DEF r
  <2> QED
    BY <1>0, <1>a, <1>b, <1>c, <2>2, <2>3, ReviewRow
<1>3. CASE pass.next = "charge" /\ Set(i, [iss[i] EXCEPT !.revs = @ + 1]) /\ Then("respawnReview")
  <2> DEFINE r == [iss[i] EXCEPT !.revs = @ + 1]
  <2>2. /\ r \in IssueRows /\ r.outcome = iss[i].outcome /\ r.res = iss[i].res
        /\ r.merged = iss[i].merged /\ r.adv = iss[i].adv /\ r.stuck = iss[i].stuck
    BY <1>0, <1>3, <1>b, <1>d DEF IssueRows
  <2>3. Set(i, r) /\ Then("respawnReview") /\ "respawnReview" \in ReviewNexts \ {"charge"}
    BY <1>3 DEF ReviewNexts
  <2> HIDE DEF r
  <2> QED
    BY <1>0, <1>a, <1>b, <1>c, <2>2, <2>3, ReviewRow
<1>4. ASSUME NEW stuck \in {iss[i].stuck + 1} \cup (IF iss[i].stuck > 0 THEN {1} ELSE {}),
             LET counted == [iss[i] EXCEPT !.stuck = stuck, !.iter = @ + 1] IN
                \/ /\ stuck >= StuckLimit
                   /\ Set(i, [counted EXCEPT !.outcome = "done", !.res = "accepted"])
                   /\ DoneWith(i)
                \/ /\ stuck < StuckLimit
                   /\ Set(i, [counted EXCEPT !.res = "failed"])
                   /\ DoneWith(i)
                \/ /\ stuck < StuckLimit
                   /\ Set(i, counted)
                   /\ Then("spawnFix")
      PROVE  DInv'
  <2>1. stuck \in 0..StuckLimit
    BY <1>4, <1>b, <1>d
  <2> DEFINE counted == [iss[i] EXCEPT !.stuck = stuck, !.iter = @ + 1]
  <2>2. /\ counted \in IssueRows /\ counted.outcome = "done" /\ counted.res = "none"
        /\ counted.merged = iss[i].merged /\ counted.adv = iss[i].adv /\ counted.stuck = stuck
    <3>1. \A s \in 0..StuckLimit, n \in Nat :
             LET c == [iss[i] EXCEPT !.stuck = s, !.iter = n] IN
             /\ c \in IssueRows /\ c.outcome = iss[i].outcome /\ c.res = iss[i].res
             /\ c.merged = iss[i].merged /\ c.adv = iss[i].adv /\ c.stuck = s
      BY <1>0 DEF IssueRows
    <3>2. iss[i].iter + 1 \in Nat
      BY <1>d
    <3> QED
      BY <1>b, <2>1, <3>1, <3>2
  <2>a. "spawnFix" \in ReviewNexts \ {"charge"}
    BY DEF ReviewNexts
  <2>b. \/ /\ Set(i, [counted EXCEPT !.outcome = "done", !.res = "accepted"]) /\ DoneWith(i)
        \/ stuck < StuckLimit /\ Set(i, [counted EXCEPT !.res = "failed"]) /\ DoneWith(i)
        \/ stuck < StuckLimit /\ Set(i, counted) /\ Then("spawnFix")
    BY <1>4
  <2> HIDE DEF counted
  <2>3. CASE Set(i, [counted EXCEPT !.outcome = "done", !.res = "accepted"]) /\ DoneWith(i)
    <3> DEFINE r == [counted EXCEPT !.outcome = "done", !.res = "accepted"]
    <3>1. /\ r \in IssueRows /\ r.outcome = "done" /\ r.res = "accepted"
          /\ r.merged = iss[i].merged /\ r.adv = iss[i].adv /\ r.stuck = stuck
      BY <2>2 DEF IssueRows
    <3>2. Set(i, r) /\ DoneWith(i)
      BY <2>3
    <3> HIDE DEF r
    <3> QED
      BY <1>0, <1>a, <1>b, <1>c, <3>1, <3>2, ReviewRow
  <2>4. CASE stuck < StuckLimit /\ Set(i, [counted EXCEPT !.res = "failed"]) /\ DoneWith(i)
    <3> DEFINE r == [counted EXCEPT !.res = "failed"]
    <3>1. /\ r \in IssueRows /\ r.outcome = "done" /\ r.res = "failed"
          /\ r.merged = iss[i].merged /\ r.adv = iss[i].adv /\ r.stuck = stuck
      BY <2>2 DEF IssueRows
    <3>2. Set(i, r) /\ DoneWith(i)
      BY <2>4
    <3> HIDE DEF r
    <3> QED
      BY <1>0, <1>a, <1>b, <1>c, <2>4, <3>1, <3>2, ReviewRow
  <2>5. CASE stuck < StuckLimit /\ Set(i, counted) /\ Then("spawnFix")
    BY <1>0, <1>a, <1>b, <1>c, <2>a, <2>2, <2>5, ReviewRow
  <2> QED
    BY <2>b, <2>3, <2>4, <2>5
<1> QED
  BY <1>1, <1>2, <1>3, <1>4 DEF ApplyVerdict

(* SpawnAgent records a reviewer, a fixer or an advisor for the issue in hand, or
   finds no provider that takes it. *)
LEMMA SpawnAgentKeeps ==
    ASSUME DInv, NEW i \in Issues, SpawnAgent(i), UNCHANGED setting PROVE DInv'
<1> DEFINE n == pass.next
           new == NewAgent(SpawnRole(n), n \in {"respawnReview2", "spawnAdvisor2"})
<1>0. /\ InHand(i) /\ n \in Spawns /\ i \in present /\ i = Hand
      /\ pass \in PassRecords /\ RowTypes /\ FaultTypes /\ setting \in Settings
      /\ iss[i] \in IssueRows /\ RowSound(i) /\ KeptAt(i) /\ i \in pass.todo
      /\ agent[i] \in AgentRecords /\ present \subseteq Issues
  BY HandFacts DEF SpawnAgent
<1>a. UNCHANGED <<present, replanner, replans, outage, wake, clicks, step, level>>
  BY DEF SpawnAgent, outside
<1>b. /\ ~RunIsLive(agent[i].run) /\ ReviewEnabled
      /\ \/ pass.at = "review" /\ n \in {"spawnReview", "respawnReview", "respawnReview2", "spawnFix"}
         \/ pass.at = "advise" /\ n \in {"spawnAdvisor", "spawnAdvisor2", "spawnRetry"}
  BY <1>0 DEF DInv, Places, Knows, Spawns, ReviewNexts, AdviseNexts
<1>c. pass.at = "review" => iss[i].outcome = "done" /\ iss[i].res = "none" /\ iss[i].stuck < StuckLimit
  BY <1>0 DEF DInv, Knows, RowSound
<1>d. pass.at = "advise" =>
        /\ n = "spawnRetry" => iss[i].res = "none"
        /\ n # "spawnRetry" => pass.seen[i].adv < MaxAdvisor
        /\ iss[i].outcome # "running" /\ iss[i].res # "accepted" /\ iss[i].stuck < StuckLimit
        /\ Owned => /\ Over(i) /\ iss[i].err # "refused"
                    /\ iss[i].res = IF n = "spawnRetry" THEN "none" ELSE "failed"
                    /\ n # "spawnRetry" => pass.seen[i].adv = iss[i].adv
  <2> SUFFICES ASSUME pass.at = "advise" PROVE <1>d!2
    OBVIOUS
  <2>1. n \in AdviseNexts /\ n \in {"spawnAdvisor", "spawnAdvisor2", "spawnRetry"}
    BY <1>b DEF AdviseNexts
  <2>2. /\ n = "spawnRetry" => iss[i].res = "none"
        /\ n # "spawnRetry" => pass.seen[i].adv < MaxAdvisor
        /\ iss[i].outcome # "running" /\ iss[i].res # "accepted"
    BY <1>0, <2>1 DEF DInv, Knows
  <2>3. Owned => /\ Over(i) /\ iss[i].err # "refused"
                 /\ iss[i].res = IF n = "spawnRetry" THEN "none" ELSE "failed"
                 /\ n # "spawnRetry" => pass.seen[i].adv = iss[i].adv
    BY <1>0, <2>1 DEF DInv, Sections, AtAdvise, Seen
  <2> QED
    BY <1>0, <2>2, <2>3 DEF RowSound
<1>e. coder[i] = "none"
  BY <1>0, <1>b, <1>c, <1>d DEF RowSound
<1>f. /\ new \in AgentRecords /\ RunIsLive(new.run) /\ ~new.used
      /\ pass.at = "review" => new.role \in {"reviewer", "coder"}
      /\ pass.at = "advise" => new.role = IF n = "spawnRetry" THEN "coder" ELSE "advisor"
  <2>1. /\ SpawnRole(n) \in {"reviewer", "coder", "advisor"}
        /\ pass.at = "review" => SpawnRole(n) \in {"reviewer", "coder"}
        /\ pass.at = "advise" => SpawnRole(n) = IF n = "spawnRetry" THEN "coder" ELSE "advisor"
    BY <1>b DEF SpawnRole
  <2>2. NewAgent(SpawnRole(n), n \in {"respawnReview2", "spawnAdvisor2"}).role = SpawnRole(n)
    BY DEF NewAgent
  <2>3. (n \in {"respawnReview2", "spawnAdvisor2"}) \in BOOLEAN
    OBVIOUS
  <2>4. new \in AgentRecords /\ RunIsLive(new.run) /\ ~new.used
    BY <2>1, <2>3, NewAgents
  <2> QED
    BY <2>1, <2>2, <2>4
<1> HIDE DEF n, new
<1>1. CASE /\ Owned
           /\ agent' = [agent EXCEPT ![i] = new]
           /\ n # "spawnRetry" /\ UNCHANGED <<iss, coder>>
           /\ pass' = [pass EXCEPT !.next = "enqueue", !.hold = @ \/ pass.at = "advise"]
           /\ UNCHANGED faults
  <2>1. /\ pass' \in PassRecords /\ pass'.at = pass.at /\ pass'.seen = pass.seen
        /\ pass'.todo = pass.todo /\ pass'.next = "enqueue" /\ pass'.again = pass.again
        /\ pass.at = "review" => pass'.hold = pass.hold
        /\ pass.at = "advise" => pass'.hold = TRUE
    <3>1. "enqueue" \in Nexts
      BY DEF Nexts
    <3>2. (pass.hold \/ pass.at = "advise") \in BOOLEAN
      OBVIOUS
    <3> QED
      BY <1>0, <1>1, <3>1, <3>2 DEF PassRecords
  <2>2. Touches(i) /\ Agents(i) /\ agent'[i] = new
    BY <1>0, <1>1, <1>a, <1>b, <1>f, <2>1, SameFaults, AgentOnly
  <2>3. RowSound(i)' /\ KeptAt(i)'
    BY <1>0, <1>1, <1>a, <1>b, <1>c, <1>d, <1>e, <1>f, <2>2
       DEF RowSound, KeptAt, Over, Children, ReviewEnabled, Overwritten
  <2>4. CASE pass.at = "review"
    <3>1. ReviewLeaves(i)
      BY <1>1, <1>c, <1>f, <2>1, <2>2, <2>4 DEF ReviewLeaves
    <3> QED
      BY <1>0, <2>2, <2>3, <2>4, <3>1, ReviewTouch
  <2>5. CASE pass.at = "advise"
    <3>1. Stirs'
      BY <1>0, <1>a, <1>f, <2>2 DEF Stirs, AnyLive
    <3>2. Owned /\ RefusedFailed(i)' => i \in Refused
      BY <1>1, <1>0, <2>5 DEF DInv, Sections, Seen, RefusedFailed
    <3>3. pass.next # "doSplit"
      BY <1>0 DEF n, Spawns
    <3>4. AdviseLeaves(i)
      BY <1>1, <1>d, <1>f, <2>1, <2>2, <2>5, <3>1, <3>2, <3>3 DEF AdviseLeaves
    <3> QED
      BY <1>0, <2>2, <2>3, <2>5, <3>4, AdviseTouch
  <2> QED
    BY <1>b, <2>4, <2>5
<1>2. CASE /\ Owned
           /\ agent' = [agent EXCEPT ![i] = new]
           /\ n = "spawnRetry"
           /\ Set(i, [iss[i] EXCEPT !.outcome = "running", !.err = "none"])
           /\ coder' = [coder EXCEPT ![i] = "agent"]
           /\ pass' = [pass EXCEPT !.next = "enqueue", !.hold = @ \/ pass.at = "advise"]
           /\ UNCHANGED faults
  <2>0. pass.at = "advise"
    BY <1>2, <1>b
  <2>1. /\ pass' \in PassRecords /\ pass'.at = pass.at /\ pass'.seen = pass.seen
        /\ pass'.todo = pass.todo /\ pass'.next = "enqueue" /\ pass'.again = pass.again
        /\ pass'.hold = TRUE
    <3>1. "enqueue" \in Nexts
      BY DEF Nexts
    <3> QED
      BY <1>0, <1>2, <2>0, <3>1 DEF PassRecords
  <2>2. [iss[i] EXCEPT !.outcome = "running", !.err = "none"] \in IssueRows
    BY <1>0 DEF IssueRows
  <2>3. /\ iss' \in [Issues -> IssueRows]
        /\ iss'[i] = [iss[i] EXCEPT !.outcome = "running", !.err = "none"]
        /\ \A j \in Issues \ {i} : iss'[j] = iss[j]
    BY <1>0, <1>2, <2>2, RowWritten DEF RowTypes
  <2>4. /\ iss'[i].outcome = "running" /\ iss'[i].err = "none" /\ iss'[i].res = iss[i].res
        /\ iss'[i].merged = iss[i].merged /\ iss'[i].adv = iss[i].adv /\ iss'[i].stuck = iss[i].stuck
    BY <1>0, <2>3 DEF IssueRows
  <2>5. /\ coder' \in [Issues -> Runs \cup {"agent"}] /\ coder'[i] = "agent"
        /\ \A j \in Issues \ {i} : coder'[j] = coder[j]
    BY <1>0, <1>2 DEF RowTypes
  <2>6. /\ agent' \in [Issues -> AgentRecords] /\ agent'[i] = new
        /\ \A j \in Issues \ {i} : agent'[j] = agent[j]
    BY <1>0, <1>2, <1>f DEF RowTypes
  <2>7. Touches(i)
    BY <1>0, <1>2, <1>a, <2>1, <2>3, <2>5, <2>6 DEF Touches, RowTypes, FaultTypes
  <2>8. Agents(i)
    BY <1>2, <1>b, <1>e, RunFacts DEF Agents
  <2>9. RowSound(i)' /\ KeptAt(i)'
    BY <1>0, <1>2, <1>a, <1>b, <1>d, <1>f, <2>0, <2>4, <2>5, <2>6
       DEF RowSound, KeptAt, Over, Children, ReviewEnabled, Overwritten
  <2>10. Stirs'
    BY <1>0, <1>a, <1>f, <2>6 DEF Stirs, AnyLive
  <2>11. pass.next # "doSplit"
    BY <1>2 DEF n
  <2>12. AdviseLeaves(i)
    BY <1>2, <1>d, <1>f, <2>0, <2>1, <2>4, <2>6, <2>10, <2>11 DEF AdviseLeaves, RefusedFailed
  <2> QED
    BY <1>0, <2>0, <2>7, <2>8, <2>9, <2>12, AdviseTouch
<1>3. CASE /\ Fault("provider")
           /\ Set(i, NotSpawned(i, n))
           /\ IF n = "spawnRetry" THEN HoldFor(i) ELSE DoneWith(i)
           /\ UNCHANGED <<agent, coder>>
  <2>a. /\ FaultTypes' /\ faults.kinds \subseteq faults'.kinds /\ "provider" \in faults'.kinds
        /\ "busy" \in faults'.kinds => "busy" \in faults.kinds
    BY <1>0, <1>3, FaultMoves
  <2> DEFINE r == NotSpawned(i, n)
  <2>1. /\ r \in IssueRows /\ r.outcome = iss[i].outcome
        /\ r.merged = iss[i].merged /\ r.adv = iss[i].adv /\ r.stuck = iss[i].stuck
        /\ pass.at = "review" => r.res = "failed"
        /\ pass.at = "advise" => /\ r.res = IF n = "spawnRetry" THEN "failed" ELSE iss[i].res
                                 /\ r.err = iss[i].err
    BY <1>0, <1>b DEF NotSpawned, SpawnRole, IssueRows
  <2> HIDE DEF r
  <2>2. Set(i, r)
    BY <1>3 DEF r
  <2>3. CASE pass.at = "review"
    <3>1. DoneWith(i)
      BY <1>3, <1>b, <2>3
    <3> QED
      BY <1>0, <1>3, <1>a, <1>b, <1>c, <2>a, <2>1, <2>2, <2>3, <3>1, ReviewRow
  <2>4. CASE pass.at = "advise"
    <3>1. /\ pass' \in PassRecords /\ pass'.at = pass.at /\ pass'.seen = pass.seen
          /\ pass'.todo = pass.todo \ {i} /\ pass'.next = "none" /\ pass'.again = pass.again
          /\ pass'.hold = (pass.hold \/ n = "spawnRetry")
      <4>1. pass.hold \in BOOLEAN
        BY <1>0 DEF PassRecords
      <4> QED
        BY <1>0, <1>3, <4>1, PassMoves
    <3>2. Touches(i) /\ Agents(i) /\ iss'[i] = r
      BY <1>0, <1>3, <1>a, <2>a, <2>1, <2>2, <2>4, <3>1, RowOnly
    <3>3. RowSound(i)' /\ KeptAt(i)'
      BY <1>0, <1>3, <1>a, <1>b, <1>d, <1>e, <2>a, <2>1, <2>4, <3>2 DEF RowSound, KeptAt, Over,
         Children, ReviewEnabled, Overwritten, DInv, Kept
    <3>4. Owned /\ RefusedFailed(i)' => i \in Refused
      BY <1>d, <2>1, <2>4, <3>2 DEF RefusedFailed
    <3>5. pass.next # "doSplit" /\ Stirs'
      BY <1>0, <2>a DEF Stirs, n, Spawns
    <3>6. AdviseLeaves(i)
      BY <1>d, <2>1, <2>4, <3>1, <3>2, <3>4, <3>5 DEF AdviseLeaves, Settled, Over
    <3> QED
      BY <1>0, <2>4, <3>2, <3>3, <3>6, AdviseTouch
  <2> QED
    BY <1>b, <2>3, <2>4
<1> QED
  BY <1>1, <1>2, <1>3 DEF SpawnAgent, n, new

(* What is known of the issue in hand when the pass owes it what its advice says. *)
LEMMA AdviseFacts ==
    ASSUME DInv, NEW i \in Issues, InHand(i), pass.next \in AdviseNexts
    PROVE  /\ pass.at = "advise" /\ ReviewEnabled /\ ~RunIsLive(agent[i].run) /\ coder[i] = "none"
           /\ pass.seen[i].err # "refused"
           /\ pass.next \in Advices =>
                 pass.seen[i].adv < MaxAdvisor /\ ~(agent[i].role = "advisor" /\ ~agent[i].used)
           /\ iss[i].outcome # "running" /\ iss[i].res # "accepted" /\ iss[i].stuck < StuckLimit
           /\ ~Overwritten => Owned
           /\ Owned => /\ Over(i) /\ iss[i].err # "refused"
                       /\ iss[i].res = IF pass.next = "spawnRetry" THEN "none" ELSE "failed"
<1>0. i = Hand /\ i \in pass.todo /\ RowSound(i) /\ i \in present
  BY HandFacts
<1>1. pass.at = "advise" /\ ReviewEnabled
  BY DEF DInv, Places
<1>2. /\ ~RunIsLive(agent[i].run) /\ pass.seen[i].err # "refused"
      /\ pass.next \in Advices =>
            pass.seen[i].adv < MaxAdvisor /\ ~(agent[i].role = "advisor" /\ ~agent[i].used)
  BY <1>0 DEF DInv, Knows
<1>3. iss[i].outcome # "running" /\ iss[i].res # "accepted"
  BY <1>0, <1>1 DEF DInv, Knows, AdviseNexts, Advices
<1>4. coder[i] = "none" /\ iss[i].stuck < StuckLimit
  BY <1>0, <1>3 DEF RowSound
<1>5. ~Overwritten => Owned
  BY <1>1 DEF DInv, Kept, Overwritten
<1>6. Owned => /\ Over(i) /\ iss[i].err # "refused"
               /\ iss[i].res = IF pass.next = "spawnRetry" THEN "none" ELSE "failed"
  BY <1>0, <1>1 DEF DInv, Sections, AtAdvise
<1> QED
  BY <1>1, <1>2, <1>3, <1>4, <1>5, <1>6

(* A step that does what the advice says writes the row of the issue in hand. *)
LEMMA AdviseRow ==
    ASSUME DInv, NEW i \in Issues, InHand(i), pass.next \in AdviseNexts,
           NEW r \in IssueRows, Set(i, r),
           UNCHANGED <<setting, present, coder, agent, replanner, replans, outage, wake, clicks,
                       step, level, faults>>,
           pass' \in PassRecords, pass'.at = pass.at, pass'.seen = pass.seen,
           pass'.todo \in {pass.todo, pass.todo \ {i}},
           r.outcome \in {iss[i].outcome, "done"}, r.merged = iss[i].merged, r.err = iss[i].err,
           r.stuck = iss[i].stuck, r.res = "accepted" => r.outcome = "done",
           r.res = "split" => Children(i) \subseteq present,
           agent[i].role = "advisor" /\ ~agent[i].used => r.adv < MaxAdvisor,
           iss'[i] = r => AdviseLeaves(i)
    PROVE  DInv'
<1>0. i \in present /\ RowSound(i) /\ KeptAt(i)
  BY HandFacts
<1>1. /\ pass.at = "advise" /\ ReviewEnabled /\ ~RunIsLive(agent[i].run) /\ coder[i] = "none"
      /\ iss[i].outcome # "running" /\ iss[i].stuck < StuckLimit
      /\ ~Overwritten => Over(i) /\ iss[i].res # "accepted"
  BY AdviseFacts
<1>2. Touches(i) /\ Agents(i) /\ iss'[i] = r
  BY <1>1, SameFaults, RowOnly
<1>3. RowSound(i)' /\ KeptAt(i)'
  BY <1>0, <1>1, <1>2 DEF RowSound, KeptAt, Over, Children, ReviewEnabled, Overwritten
<1> QED
  BY <1>1, <1>2, <1>3, AdviseTouch

(* CountAdvice counts the advice before it is taken. *)
LEMMA CountAdviceKeeps ==
    ASSUME DInv, NEW i \in Issues, CountAdvice(i), UNCHANGED setting PROVE DInv'
<1> DEFINE n == pass.next
           does == CASE n = "accept" -> "doAccept" [] n = "split" -> "doSplit"
                     [] n = "retry" -> "doRetry" [] OTHER -> "none"
           kids == IF n = "split" THEN SubIssues(i) ELSE {}
           todo == IF n = "escalate" THEN pass.todo \ {i} ELSE pass.todo
           r == [iss[i] EXCEPT !.adv = pass.seen[i].adv + 1, !.esc = (n = "escalate")]
<1>0. /\ InHand(i) /\ n \in Advices /\ n \in AdviseNexts /\ i \in pass.todo
      /\ iss[i] \in IssueRows /\ pass.seen[i] \in IssueRows /\ pass \in PassRecords
      /\ setting \in Settings /\ pass.todo \subseteq Issues
  BY HandFacts DEF CountAdvice, AdviseNexts
<1>1. /\ UNCHANGED <<present, coder, agent, replanner, replans, outage, wake, clicks, step, level, faults>>
      /\ Set(i, r)
      /\ pass' = [pass EXCEPT !.next = does, !.kids = kids, !.todo = todo]
  BY DEF CountAdvice, outside
<1>2. /\ pass.at = "advise" /\ ~RunIsLive(agent[i].run) /\ pass.seen[i].err # "refused"
      /\ pass.seen[i].adv < MaxAdvisor /\ ~(agent[i].role = "advisor" /\ ~agent[i].used)
      /\ iss[i].outcome # "running" /\ iss[i].res # "accepted"
      /\ Owned => Over(i) /\ iss[i].err # "refused" /\ iss[i].res = "failed"
  BY <1>0, AdviseFacts DEF Advices
<1>3. /\ r \in IssueRows /\ r.outcome = iss[i].outcome /\ r.merged = iss[i].merged
      /\ r.err = iss[i].err /\ r.stuck = iss[i].stuck /\ r.res = iss[i].res
  <2>1. pass.seen[i].adv + 1 \in 0..MaxAdvisor
    BY <1>0, <1>2, LevelAssumption DEF IssueRows
  <2> HIDE DEF n
  <2> QED
    BY <1>0, <2>1 DEF IssueRows
<1>4. /\ does = "none" <=> n = "escalate"
      /\ does \in {"none", "doAccept", "doSplit", "doRetry"}
      /\ does = "doSplit" => kids = Children(i)
      /\ kids \subseteq Issues
  <2>1. Children(i) \subseteq Issues
    BY <1>0, SettingTypes DEF Children
  <2> QED
    BY <1>0, <2>1 DEF Advices, SubIssues
<1>5. /\ pass' \in PassRecords /\ pass'.at = pass.at /\ pass'.seen = pass.seen
      /\ pass'.todo = todo /\ pass'.next = does /\ pass'.kids = kids
      /\ pass'.hold = pass.hold /\ pass'.again = pass.again
  <2>1. does \in Nexts /\ todo \subseteq Issues
    BY <1>0, <1>4 DEF Nexts
  <2> HIDE DEF does, kids, todo
  <2> QED
    BY <1>0, <1>1, <1>4, <2>1 DEF PassRecords
<1>6. ASSUME iss'[i] = r PROVE AdviseLeaves(i)
  <2>1. CASE n = "escalate"
    BY <1>2, <1>3, <1>4, <1>5, <1>6, <2>1 DEF AdviseLeaves, RefusedFailed, Settled, Over
  <2>2. CASE n # "escalate"
    <3>1. pass'.next \in {"doAccept", "doSplit", "doRetry"} /\ pass'.next \in AdviseNexts
          /\ pass'.next \notin Advices
      BY <1>4, <1>5, <2>2 DEF AdviseNexts, Advices
    <3>2. pass'.todo = pass.todo /\ pass.next # "doSplit"
      BY <1>0, <1>5, <2>2 DEF Advices
    <3> HIDE DEF r, does, n, todo, kids
    <3>3. AdviseOwes(i)
      BY <1>1, <1>2, <1>3, <1>4, <1>5, <1>6, <3>1 DEF AdviseOwes, Over
    <3> QED
      BY <1>1, <1>2, <1>3, <1>5, <1>6, <3>2, <3>3 DEF AdviseLeaves, RefusedFailed
  <2> QED
    BY <2>1, <2>2
<1>7. pass'.todo \in {pass.todo, pass.todo \ {i}}
  BY <1>5
<1>8. r.res \notin {"accepted"} /\ (r.res = "split" => Children(i) \subseteq present)
  BY <1>0, <1>2, <1>3, HandFacts DEF RowSound
<1> HIDE DEF r, does, n, todo, kids
<1> QED
  BY <1>0, <1>1, <1>2, <1>3, <1>5, <1>6, <1>7, <1>8, AdviseRow DEF n

(* AcceptAdvised accepts what the coder left, if it left files. *)
LEMMA AcceptAdvisedKeeps ==
    ASSUME DInv, NEW i \in Issues, AcceptAdvised(i), UNCHANGED setting PROVE DInv'
<1> DEFINE r == IF pass.seen[i].files THEN [iss[i] EXCEPT !.outcome = "done", !.res = "accepted"]
                                      ELSE [iss[i] EXCEPT !.esc = TRUE]
<1>0. /\ InHand(i) /\ pass.next = "doAccept" /\ pass.next \in AdviseNexts /\ i \in pass.todo
      /\ iss[i] \in IssueRows /\ pass \in PassRecords /\ RowSound(i)
  BY HandFacts DEF AcceptAdvised, AdviseNexts
<1>1. /\ UNCHANGED <<present, coder, agent, replanner, replans, outage, wake, clicks, step, level, faults>>
      /\ Set(i, r) /\ DoneWith(i)
  BY DEF AcceptAdvised, outside
<1>2. /\ iss[i].res # "accepted"
      /\ Owned => Over(i) /\ iss[i].err # "refused" /\ iss[i].res = "failed"
  BY <1>0, AdviseFacts
<1>3. /\ r \in IssueRows /\ r.outcome \in {iss[i].outcome, "done"} /\ r.merged = iss[i].merged
      /\ r.err = iss[i].err /\ r.stuck = iss[i].stuck /\ r.adv = iss[i].adv
      /\ \/ r.res = iss[i].res
         \/ r.res = "accepted" /\ r.outcome = "done"
  BY <1>0 DEF IssueRows
<1>4. /\ pass' \in PassRecords /\ pass'.at = pass.at /\ pass'.seen = pass.seen
      /\ pass'.todo = pass.todo \ {i} /\ pass'.next = "none"
      /\ pass'.hold = pass.hold /\ pass'.again = pass.again
  BY <1>0, <1>1, PassMoves
<1> HIDE DEF r
<1>5. ASSUME iss'[i] = r PROVE AdviseLeaves(i)
  BY <1>0, <1>2, <1>3, <1>4, <1>5 DEF AdviseLeaves, RefusedFailed, Settled, Over
<1>6. /\ agent[i].role = "advisor" /\ ~agent[i].used => r.adv < MaxAdvisor
      /\ r.res = "split" => Children(i) \subseteq present
  BY <1>0, <1>2, <1>3 DEF RowSound
<1> QED
  BY <1>0, <1>1, <1>2, <1>3, <1>4, <1>5, <1>6, AdviseRow

(* RetryAdvised clears the issue's resolution for another coder. *)
LEMMA RetryAdvisedKeeps ==
    ASSUME DInv, NEW i \in Issues, RetryAdvised(i), UNCHANGED setting PROVE DInv'
<1> DEFINE r == [iss[i] EXCEPT !.res = "none", !.iter = pass.seen[i].iter + 1]
<1>0. /\ InHand(i) /\ pass.next = "doRetry" /\ pass.next \in AdviseNexts /\ i \in pass.todo
      /\ iss[i] \in IssueRows /\ pass.seen[i] \in IssueRows /\ pass \in PassRecords /\ RowSound(i)
      /\ i = Hand
  BY HandFacts DEF RetryAdvised, AdviseNexts
<1>1. /\ UNCHANGED <<present, coder, agent, replanner, replans, outage, wake, clicks, step, level, faults>>
      /\ Set(i, r) /\ Then("spawnRetry")
  BY DEF RetryAdvised, outside
<1>2. /\ pass.at = "advise" /\ ~RunIsLive(agent[i].run) /\ pass.seen[i].err # "refused"
      /\ iss[i].outcome # "running"
      /\ Owned => Over(i) /\ iss[i].err # "refused"
  BY <1>0, AdviseFacts
<1>3. /\ r \in IssueRows /\ r.outcome = iss[i].outcome /\ r.merged = iss[i].merged
      /\ r.err = iss[i].err /\ r.stuck = iss[i].stuck /\ r.adv = iss[i].adv /\ r.res = "none"
  <2>1. pass.seen[i].iter + 1 \in Nat
    BY <1>0 DEF IssueRows
  <2> QED
    BY <1>0, <2>1 DEF IssueRows
<1>4. /\ pass' \in PassRecords /\ pass'.at = pass.at /\ pass'.seen = pass.seen
      /\ pass'.todo = pass.todo /\ pass'.next = "spawnRetry"
      /\ pass'.hold = pass.hold /\ pass'.again = pass.again
  <2>1. "spawnRetry" \in Nexts
    BY DEF Nexts, Spawns
  <2> QED
    BY <1>0, <1>1, <2>1, PassMoves
<1> HIDE DEF r
<1>5. ASSUME iss'[i] = r PROVE AdviseLeaves(i)
  <2>1. "spawnRetry" \in AdviseNexts /\ "spawnRetry" \notin Advices
    BY DEF AdviseNexts, Advices
  <2>2. AdviseOwes(i)
    BY <1>1, <1>2, <1>3, <1>4, <1>5, <2>1 DEF AdviseOwes, Over
  <2>3. agent'[i].role = "advisor" /\ ~agent'[i].used => pass.seen[i].adv < MaxAdvisor
    BY <1>0, <1>1, <1>2 DEF DInv, Knows
  <2> QED
    BY <1>0, <1>1, <1>3, <1>4, <1>5, <2>2, <2>3 DEF AdviseLeaves, RefusedFailed
<1>6. agent[i].role = "advisor" /\ ~agent[i].used => r.adv < MaxAdvisor
  BY <1>0, <1>3 DEF RowSound
<1> QED
  BY <1>0, <1>1, <1>3, <1>4, <1>5, <1>6, AdviseRow

(* SplitDone marks an issue split once its sub-issues have rows. *)
LEMMA SplitDoneKeeps ==
    ASSUME DInv, NEW i \in Issues, SplitDone(i), UNCHANGED setting PROVE DInv'
<1> DEFINE r == [iss[i] EXCEPT !.res = "split"]
<1>0. /\ InHand(i) /\ pass.next = "doSplit" /\ pass.next \in AdviseNexts /\ i \in pass.todo
      /\ iss[i] \in IssueRows /\ pass \in PassRecords /\ RowSound(i) /\ pass.kids = {} /\ i = Hand
  BY HandFacts DEF SplitDone, AdviseNexts
<1>1. /\ UNCHANGED <<present, coder, agent, replanner, replans, outage, wake, clicks, step, level, faults>>
      /\ Set(i, r)
      /\ pass' = [pass EXCEPT !.todo = @ \ {i}, !.next = "none", !.again = TRUE]
  BY DEF SplitDone, outside
<1>2. Owned => iss[i].err # "refused"
  BY <1>0, AdviseFacts
<1>3. /\ r \in IssueRows /\ r.outcome = iss[i].outcome /\ r.merged = iss[i].merged
      /\ r.err = iss[i].err /\ r.stuck = iss[i].stuck /\ r.adv = iss[i].adv /\ r.res = "split"
  BY <1>0 DEF IssueRows
<1>4. /\ pass' \in PassRecords /\ pass'.at = pass.at /\ pass'.seen = pass.seen
      /\ pass'.todo = pass.todo \ {i} /\ pass'.next = "none"
      /\ pass'.hold = pass.hold /\ pass'.again = TRUE
  BY <1>0, <1>1 DEF PassRecords, Nexts
<1> HIDE DEF r
<1>5. ASSUME iss'[i] = r PROVE AdviseLeaves(i)
  BY <1>0, <1>2, <1>3, <1>4, <1>5 DEF AdviseLeaves, RefusedFailed
<1>6. /\ agent[i].role = "advisor" /\ ~agent[i].used => r.adv < MaxAdvisor
      /\ Children(i) \subseteq present
  BY <1>0, <1>3 DEF RowSound, DInv, Knows
<1> QED
  BY <1>0, <1>1, <1>3, <1>4, <1>5, <1>6, AdviseRow

(* AdviseIssue looks at the advisor of the issue in hand. *)
LEMMA AdviseIssueKeeps ==
    ASSUME DInv, NEW i \in Issues, AdviseIssue(i), UNCHANGED setting PROVE DInv'
<1> DEFINE asked == agent[i].role = "advisor" /\ ~agent[i].used
           left == LeftAlone(i)
<1>0. /\ InHand(i) /\ pass.at = "advise" /\ pass.next = "none" /\ i \in present
      /\ pass \in PassRecords /\ RowTypes /\ FaultTypes
      /\ iss[i] \in IssueRows /\ RowSound(i) /\ KeptAt(i) /\ i = Hand /\ i \in pass.todo
      /\ agent[i] \in AgentRecords /\ pass.seen[i] \in IssueRows
  BY HandFacts DEF AdviseIssue, At
<1>a. UNCHANGED <<present, coder, replanner, replans, outage, wake, clicks, step, level, faults>>
  BY DEF AdviseIssue, outside
<1>b. /\ FaultTypes' /\ faults.kinds \subseteq faults'.kinds
      /\ "busy" \in faults'.kinds => "busy" \in faults.kinds
  BY <1>a, SameFaults
<1>c. /\ ReviewEnabled /\ iss[i].outcome # "running" /\ iss[i].res # "accepted"
      /\ iss[i].stuck < StuckLimit /\ coder[i] = "none"
      /\ asked => pass.seen[i].adv < MaxAdvisor
      /\ ~Overwritten => Owned
  BY <1>0 DEF DInv, Places, Knows, RowSound, Kept, Overwritten
<1>d. Owned => /\ Over(i) /\ iss[i].res = "failed" /\ pass.seen[i].adv = iss[i].adv
               /\ (RefusedFailed(i) => i \in Refused)
  BY <1>0 DEF DInv, Sections, AtAdvise, Seen, AdviseNexts, Advices
<1>e. RunIsLive(agent[i].run) => asked /\ Owned
  BY <1>0, <1>d DEF RowSound, DInv, Places, Quiet, Owned
<1>f. ~left => pass.seen[i].err # "refused" /\ (Owned => iss[i].err # "refused")
  BY <1>d DEF LeftAlone, Refused, RefusedFailed
<1>g. \A n \in AdviseNexts : Then(n) =>
        /\ pass' \in PassRecords /\ pass'.at = pass.at /\ pass'.seen = pass.seen
        /\ pass'.todo = pass.todo /\ pass'.next = n
        /\ pass'.hold = pass.hold /\ pass'.again = pass.again
  <2>1. AdviseNexts \subseteq Nexts
    BY DEF AdviseNexts, Nexts, Spawns
  <2> QED
    BY <1>0, <2>1, PassMoves
<1>1. CASE /\ \/ left /\ DoneWith(i)
              \/ ~left /\ RunIsLive(agent[i].run) /\ HoldFor(i)
           /\ UNCHANGED <<iss, agent>>
  <2>1. /\ pass' \in PassRecords /\ pass'.at = pass.at /\ pass'.seen = pass.seen
        /\ pass'.todo = pass.todo \ {i} /\ pass'.next = "none" /\ pass'.again = pass.again
        /\ pass'.hold = pass.hold \/ (pass'.hold /\ RunIsLive(agent[i].run))
    BY <1>0, <1>1, PassMoves
  <2>2. agent' = [agent EXCEPT ![i] = agent[i]]
    BY <1>0, <1>1 DEF RowTypes
  <2>3. Touches(i) /\ Agents(i)
    BY <1>0, <1>1, <1>a, <1>b, <1>e, <2>1, <2>2, AgentOnly
  <2>4. RowSound(i)' /\ KeptAt(i)'
    BY <1>0, <1>1, <1>a DEF RowSound, KeptAt, Over, Children, ReviewEnabled, Overwritten
  <2>5. RunIsLive(agent[i].run) => Stirs'
    BY <1>0, <1>1, <1>a DEF Stirs, AnyLive
  <2>6. AdviseLeaves(i)
    BY <1>0, <1>1, <1>d, <2>1, <2>5 DEF AdviseLeaves, RefusedFailed, Settled, Over
  <2> QED
    BY <1>0, <2>3, <2>4, <2>6, AdviseTouch
<1>2. ASSUME ~left, asked, agent[i].run \in Ended, agent' = [agent EXCEPT ![i].used = TRUE],
             NEW n \in Advice(i, agent[i].run), Then(n), UNCHANGED iss
      PROVE  DInv'
  <2>1. PICK a \in AgentRecords : /\ agent' = [agent EXCEPT ![i] = a] /\ a.used = TRUE
                                  /\ a.role = agent[i].role /\ a.run = agent[i].run
    BY <1>0, <1>2, Consumed
  <2>2. ~RunIsLive(a.run) /\ ~RunIsLive(agent[i].run)
    BY <1>2, <2>1, RunFacts
  <2>3. n \in Advices \cup {"spawnAdvisor", "spawnAdvisor2"} /\ n \in AdviseNexts
    BY <1>2 DEF Advice, Advices, AdviseNexts
  <2>4. /\ pass' \in PassRecords /\ pass'.at = pass.at /\ pass'.seen = pass.seen
        /\ pass'.todo = pass.todo /\ pass'.next = n
        /\ pass'.hold = pass.hold /\ pass'.again = pass.again
    BY <1>2, <1>g, <2>3
  <2>5. Touches(i) /\ Agents(i) /\ agent'[i] = a
    BY <1>0, <1>2, <1>a, <1>b, <2>1, <2>2, <2>4, AgentOnly
  <2>6. RowSound(i)' /\ KeptAt(i)'
    BY <1>0, <1>2, <1>a, <1>c, <2>1, <2>2, <2>5 DEF RowSound, KeptAt, Over, Children,
       ReviewEnabled, Overwritten
  <2>7. AdviseOwes(i)
    BY <1>2, <1>c, <1>d, <1>f, <2>1, <2>2, <2>3, <2>4, <2>5 DEF AdviseOwes, Over, Advices
  <2>8. AdviseLeaves(i)
    BY <1>0, <1>2, <1>c, <1>d, <2>1, <2>4, <2>5, <2>7 DEF AdviseLeaves, RefusedFailed
  <2> QED
    BY <1>0, <2>5, <2>6, <2>8, AdviseTouch
<1>3. CASE ~left /\ ~asked /\ pass.seen[i].adv < MaxAdvisor /\ Then("spawnAdvisor") /\ UNCHANGED <<iss, agent>>
  <2>1. "spawnAdvisor" \in AdviseNexts /\ "spawnAdvisor" \notin Advices
    BY DEF AdviseNexts, Advices
  <2>2. /\ pass' \in PassRecords /\ pass'.at = pass.at /\ pass'.seen = pass.seen
        /\ pass'.todo = pass.todo /\ pass'.next = "spawnAdvisor"
        /\ pass'.hold = pass.hold /\ pass'.again = pass.again
    BY <1>3, <1>g, <2>1
  <2>3. agent' = [agent EXCEPT ![i] = agent[i]] /\ ~RunIsLive(agent[i].run)
    BY <1>0, <1>3, <1>e DEF RowTypes
  <2>4. Touches(i) /\ Agents(i)
    BY <1>0, <1>3, <1>a, <1>b, <2>2, <2>3, AgentOnly
  <2>5. RowSound(i)' /\ KeptAt(i)'
    BY <1>0, <1>3, <1>a DEF RowSound, KeptAt, Over, Children, ReviewEnabled, Overwritten
  <2>6. AdviseOwes(i)
    BY <1>3, <1>c, <1>d, <1>f, <2>1, <2>2, <2>3 DEF AdviseOwes, Over
  <2>7. AdviseLeaves(i)
    BY <1>0, <1>3, <1>c, <1>d, <2>2, <2>6 DEF AdviseLeaves, RefusedFailed
  <2> QED
    BY <1>0, <2>4, <2>5, <2>7, AdviseTouch
<1>4. CASE ~left /\ ~asked /\ Set(i, [iss[i] EXCEPT !.esc = TRUE]) /\ DoneWith(i) /\ UNCHANGED agent
  <2> DEFINE r == [iss[i] EXCEPT !.esc = TRUE]
  <2>1. /\ r \in IssueRows /\ r.outcome = iss[i].outcome /\ r.merged = iss[i].merged
        /\ r.err = iss[i].err /\ r.stuck = iss[i].stuck /\ r.adv = iss[i].adv /\ r.res = iss[i].res
    BY <1>0 DEF IssueRows
  <2>2. Set(i, r)
    BY <1>4
  <2> HIDE DEF r
  <2>3. /\ pass' \in PassRecords /\ pass'.at = pass.at /\ pass'.seen = pass.seen
        /\ pass'.todo = pass.todo \ {i} /\ pass'.next = "none"
        /\ pass'.hold = pass.hold /\ pass'.again = pass.again
    BY <1>0, <1>4, PassMoves
  <2>4. Touches(i) /\ Agents(i) /\ iss'[i] = r
    BY <1>0, <1>4, <1>a, <1>b, <2>1, <2>2, <2>3, RowOnly
  <2>5. RowSound(i)' /\ KeptAt(i)'
    BY <1>0, <1>4, <1>a, <2>1, <2>4 DEF RowSound, KeptAt, Over, Children, ReviewEnabled, Overwritten
  <2>6. AdviseLeaves(i)
    BY <1>0, <1>d, <2>1, <2>3, <2>4 DEF AdviseLeaves, RefusedFailed, Settled, Over
  <2> QED
    BY <1>0, <2>4, <2>5, <2>6, AdviseTouch
<1> QED
  BY <1>1, <1>2, <1>3, <1>4 DEF AdviseIssue

(* SkipIssue gives up a failed issue, as the replanner said. *)
LEMMA SkipIssueKeeps ==
    ASSUME DInv, NEW i \in Issues, SkipIssue(i), UNCHANGED setting PROVE DInv'
<1> DEFINE r == [iss[i] EXCEPT !.res = "skipped"]
<1>0. /\ InHand(i) /\ pass.next = "skip" /\ i \in present /\ pass.at = "escalate"
      /\ pass \in PassRecords /\ pass.todo \subseteq Issues /\ present \subseteq Issues
      /\ iss[i] \in IssueRows /\ RowSound(i) /\ KeptAt(i) /\ i \in pass.todo
  BY HandFacts DEF SkipIssue, DInv, Places
<1>1. /\ UNCHANGED <<present, coder, agent, replanner, replans, outage, wake, clicks, step, level, faults>>
      /\ Set(i, r) /\ pass' = [pass EXCEPT !.todo = @ \ {i}]
  BY DEF SkipIssue, outside
<1>2. /\ ReviewEnabled /\ iss[i].outcome # "running" /\ iss[i].res # "accepted"
      /\ iss[i].stuck < StuckLimit /\ coder[i] = "none"
      /\ ~Overwritten => Owned
      /\ Owned => Over(i) /\ iss[i].res = "failed"
      /\ RunIsLive(agent[i].run) => Owned
  BY <1>0 DEF DInv, Places, Knows, RowSound, Kept, Overwritten, Sections, AtEscalate, Settled,
     Quiet, Owned
<1>3. /\ r \in IssueRows /\ r.outcome = iss[i].outcome /\ r.merged = iss[i].merged
      /\ r.err = iss[i].err /\ r.stuck = iss[i].stuck /\ r.adv = iss[i].adv /\ r.res = "skipped"
  BY <1>0 DEF IssueRows
<1>4. /\ pass' \in PassRecords /\ pass'.at = pass.at /\ pass'.seen = pass.seen
      /\ pass'.todo = pass.todo \ {i} /\ pass'.next = "skip" /\ pass'.hold = pass.hold
  BY <1>0, <1>1 DEF PassRecords
<1> HIDE DEF r
<1>5. Touches(i) /\ Agents(i) /\ iss'[i] = r
  BY <1>0, <1>1, <1>3, <1>4, SameFaults, RowOnly
<1>6. RowSound(i)' /\ KeptAt(i)'
  BY <1>0, <1>1, <1>2, <1>3, <1>5 DEF RowSound, KeptAt, Over, Children, ReviewEnabled, Overwritten
<1>7. Places'
  BY <1>0, <1>1, <1>4 DEF DInv, Places, ReviewNexts, AdviseNexts, Verdicts, Advices, ReviewEnabled
<1>8. Knows'
  <2>1. \A j \in pass'.todo :
           /\ iss'[j].res # "accepted" /\ iss'[j].outcome # "running"
           /\ agent'[j].role = "advisor" /\ ~agent'[j].used => pass'.seen[j].adv < MaxAdvisor
    BY <1>0, <1>1, <1>4, <1>5 DEF DInv, Knows, Touches
  <2> QED
    BY <1>0, <1>4, <2>1 DEF Knows, ReviewNexts, AdviseNexts, Verdicts, Advices
<1>9. Replanning'
  BY <1>0, <1>1, <1>4 DEF DInv, Replanning, ReviewEnabled
<1>10. Sections'
  <2> SUFFICES ASSUME Owned PROVE AtEscalate' /\ Seen' /\ (pass'.hold => Stirs')
    BY <1>0, <1>1, <1>4, SectionsOf DEF OnlyHere, Owned
  <2>1. AtEscalate /\ Seen /\ (pass.hold => Stirs)
    BY DEF DInv, Sections
  <2>2. pass'.hold => Stirs'
    BY <1>0, <1>4, <1>5, <1>6, <2>1, TouchKeeps
  <2>3. AtEscalate'
    BY <1>0, <1>1, <1>2, <1>3, <1>4, <1>5, <2>1 DEF AtEscalate, Touches, Settled, Over
  <2>4. Seen'
    <3>1. \A j \in pass'.todo : pass'.seen[j].adv = iss'[j].adv
      BY <1>0, <1>4, <1>5, <2>1 DEF Seen, Touches
    <3>2. \A j \in present' : RefusedFailed(j)' => j \in Refused'
      BY <1>0, <1>1, <1>3, <1>4, <1>5, <2>1 DEF Seen, Touches, RefusedFailed, Refused
    <3> QED
      BY <3>1, <3>2 DEF Seen
  <2> QED
    BY <2>2, <2>3, <2>4
<1> QED
  BY <1>0, <1>5, <1>6, <1>7, <1>8, <1>9, <1>10, TouchDone

(* CreateWorktree makes the issue's worktree at the head of the loop. *)
LEMMA CreateWorktreeKeeps ==
    ASSUME DInv, NEW i \in Issues, CreateWorktree(i), UNCHANGED setting PROVE DInv'
<1> DEFINE r == [iss[i] EXCEPT !.wt = TRUE]
<1>0. /\ i \in present /\ pass.at = "loop" /\ level = "open" /\ present \subseteq Issues
      /\ pass \in PassRecords /\ RowTypes /\ FaultTypes /\ RowSound(i) /\ KeptAt(i)
      /\ iss[i] \in IssueRows /\ pass.todo = {} /\ pass.next = "none"
  BY TypeParts DEF CreateWorktree, At, DInv, RestTypes, RowTypes, RowsSound, Kept, Places
<1>1. /\ UNCHANGED <<present, coder, agent, replanner, replans, outage, wake, clicks, step, level, pass, faults>>
      /\ Set(i, r)
  BY DEF CreateWorktree, outside
<1>2. /\ r \in IssueRows /\ r.outcome = iss[i].outcome /\ r.merged = iss[i].merged
      /\ r.err = iss[i].err /\ r.stuck = iss[i].stuck /\ r.adv = iss[i].adv /\ r.res = iss[i].res
  BY <1>0 DEF IssueRows
<1> HIDE DEF r
<1>3. iss' \in [Issues -> IssueRows] /\ iss'[i] = r /\ \A j \in Issues \ {i} : iss'[j] = iss[j]
  BY <1>0, <1>1, <1>2, RowWritten DEF RowTypes
<1>4. Touches(i)
  BY <1>0, <1>1, <1>3 DEF Touches, RowTypes, FaultTypes
<1>5. RowSound(i)' /\ KeptAt(i)' /\ Agents(i)
  BY <1>0, <1>1, <1>2, <1>3 DEF RowSound, KeptAt, Over, Children, ReviewEnabled, Overwritten,
     Agents, DInv, Places, Quiet, Owned
<1>6. Places' /\ Knows'
  BY <1>0, <1>1 DEF DInv, Places, Knows, ReviewNexts, AdviseNexts, Verdicts, Advices, ReviewEnabled
<1>7. Replanning'
  <2>1. Calm => Calm'
    BY <1>0, <1>1, <1>2, <1>3 DEF Calm, Settled, Over, RefusedFailed
  <2> QED
    BY <1>0, <1>1, <2>1 DEF DInv, Replanning, ReviewEnabled
<1>8. Sections'
  BY <1>0, <1>1, <1>4, <1>5, TouchKeeps, SectionsOf DEF DInv, Sections, Owned
<1> QED
  BY <1>0, <1>4, <1>5, <1>6, <1>7, <1>8, TouchDone

-----------------------------------------------------------------------------
(* Steps that only move the pass. *)
LEMMA FreshRow == Fresh \in IssueRows
  BY LevelAssumption DEF Fresh, IssueRows

(* Where Go takes the pass. *)
LEMMA GoMoves ==
    ASSUME NEW at \in Sites, NEW todo \in SUBSET Issues, Go(at, todo)
    PROVE  /\ pass' \in PassRecords /\ pass'.at = at /\ pass'.todo = todo /\ pass'.next = "none"
           /\ pass'.hold = FALSE /\ pass'.again = FALSE
<1>1. Off \in PassRecords
  BY FreshRow DEF Off, PassRecords, Sites, Nexts
<1> QED
  BY <1>1 DEF Go, Off, PassRecords

(* What is left of a pass that ended. *)
LEMMA OffMoves ==
    ASSUME pass' = Off
    PROVE  /\ pass' \in PassRecords /\ pass'.at = "off" /\ pass'.todo = {} /\ pass'.next = "none"
           /\ pass'.hold = FALSE
<1>1. Off \in PassRecords
  BY FreshRow DEF Off, PassRecords, Sites, Nexts
<1> QED
  BY <1>1 DEF Off

(* The rows of the issues stay; and the replanner does too. *)
RowsStay == UNCHANGED <<setting, present, iss, coder, agent, outage, wake, clicks, level>>
Stays == RowsStay /\ UNCHANGED <<replanner, replans>>

(* A step that leaves the rows keeps all that is said of them. *)
LEMMA StaysKeeps ==
    ASSUME DInv, RowsStay, replanner' \in Runs, replans' \in 0..MaxReplanner,
           step' = "pending" => replanner' \in {"none", "free"},
           FaultTypes', faults.kinds \subseteq faults'.kinds,
           "busy" \in faults'.kinds => "busy" \in faults.kinds,
           pass' \in PassRecords, step' \in {step, "failed", "done"}
    PROVE  /\ TypeOK' /\ Counts' /\ RowsSound' /\ Quiet' /\ CheckpointWhole'
           /\ \A i \in Issues : KeptAt(i)'
<1>1. TypeOK' /\ Counts'
  <2>1. RowTypes' /\ RestTypes'
    BY TypeParts DEF DInv, RowTypes, RestTypes, RowsStay
  <2> QED
    BY <2>1, TypePartsNext
<1>2. RowsSound'
  BY DEF DInv, RowsSound, RowSound, RowsStay, Over, Children
<1>3. Quiet'
  BY DEF DInv, Quiet, RowsStay
<1>4. CheckpointWhole'
  BY DEF DInv, CheckpointWhole, RowsStay, Overwritten, ReviewEnabled, Children
<1>5. \A i \in Issues : KeptAt(i)'
  BY DEF DInv, Kept, KeptAt, RowsStay, Overwritten, ReviewEnabled, Over
<1> QED
  BY <1>1, <1>2, <1>3, <1>4, <1>5

(* And of the replanner, where it stays too. *)
LEMMA StayTypes ==
    ASSUME DInv, Stays, step' \in {step, "failed", "done"}
    PROVE  /\ replanner' \in Runs /\ replans' \in 0..MaxReplanner
           /\ step' = "pending" => replanner' \in {"none", "free"}
  BY TypeParts DEF DInv, RestTypes, Stays, Quiet

(* The pass ends: the step is over, or something will start another. *)
LEMMA ParkRows ==
    ASSUME DInv, RowsStay, replanner' \in Runs, replans' \in 0..MaxReplanner,
           step' = "pending" => replanner' \in {"none", "free"},
           FaultTypes', faults.kinds \subseteq faults'.kinds,
           "busy" \in faults'.kinds => "busy" \in faults.kinds,
           Park, step' \in {step, "failed", "done"}, Replanning', step' = "open" => Stirs'
    PROVE  DInv'
<1>1. /\ pass' \in PassRecords /\ pass'.at = "off" /\ pass'.todo = {} /\ pass'.next = "none"
      /\ pass'.hold = FALSE
  BY OffMoves DEF Park
<1>2. /\ TypeOK' /\ Counts' /\ RowsSound' /\ Quiet' /\ CheckpointWhole'
      /\ \A i \in Issues : KeptAt(i)'
  BY <1>1, StaysKeeps
<1>3. Places' /\ Knows' /\ Sections'
  BY <1>1, SectionsOf DEF Places, Knows, ReviewNexts, AdviseNexts, Verdicts, Advices
<1>5. Kept'
  BY <1>1, <1>2 DEF Kept
<1>6. NoDeadWait'
  BY DEF Stirs, NoDeadWait
<1> QED
  BY <1>2, <1>3, <1>5, <1>6 DEF DInv

(* The pass ends, the replanner as it was. *)
LEMMA ParkKeeps ==
    ASSUME DInv, Stays, FaultTypes', faults.kinds \subseteq faults'.kinds,
           "busy" \in faults'.kinds => "busy" \in faults.kinds,
           Park, step' \in {step, "failed", "done"}, step' = "open" => Stirs
    PROVE  DInv'
<1>1. pass'.at = "off" /\ pass'.todo = {} /\ pass'.next = "none"
  BY OffMoves DEF Park
<1>2. Replanning'
  BY <1>1 DEF DInv, Replanning, Stays, RowsStay, Calm, Settled, Over, RefusedFailed, ReviewEnabled
<1>3. step' = "open" => Stirs'
  BY DEF Stays, RowsStay, Stirs, AnyLive
<1>4. /\ replanner' \in Runs /\ replans' \in 0..MaxReplanner
      /\ step' = "pending" => replanner' \in {"none", "free"}
  BY StayTypes
<1> QED
  BY <1>2, <1>3, <1>4, ParkRows DEF Stays

(* The pass goes on in a section. *)
LEMMA MoveRows ==
    ASSUME DInv, RowsStay, replanner' \in Runs, replans' \in 0..MaxReplanner,
           step = "pending" => replanner' \in {"none", "free"},
           UNCHANGED step, FaultTypes', faults.kinds \subseteq faults'.kinds,
           "busy" \in faults'.kinds => "busy" \in faults.kinds,
           pass.at # "off", pass' \in PassRecords,
           pass'.at # "off", Places', Knows', Replanning', Sections'
    PROVE  DInv'
<1>1. /\ TypeOK' /\ Counts' /\ RowsSound' /\ Quiet' /\ CheckpointWhole'
      /\ \A i \in Issues : KeptAt(i)'
  BY StaysKeeps
<1>2. Kept'
  BY <1>1 DEF DInv, Kept, Owned
<1>3. NoDeadWait'
  BY DEF NoDeadWait
<1> QED
  BY <1>1, <1>2, <1>3 DEF DInv

(* The pass goes on in a section, which is all there is to show. *)
LEMMA GoKeeps ==
    ASSUME DInv, RowsStay, replanner' \in Runs, replans' \in 0..MaxReplanner,
           step = "pending" => replanner' \in {"none", "free"},
           UNCHANGED step, FaultTypes', faults.kinds \subseteq faults'.kinds,
           "busy" \in faults'.kinds => "busy" \in faults.kinds,
           pass.at # "off",
           (replanner' = replanner /\ replans' = replans) \/ replanner' = "none",
           NEW at \in Sites \ {"off", "advise"}, NEW todo, todo \subseteq present, Go(at, todo),
           level = "open" \/ at = "loop", at \in {"loop", "halt"} => todo = {},
           ~ReviewEnabled => at \notin {"failures", "review", "escalate"},
           at = "merge" => replanner' = "none",
           Knows', Sections'
    PROVE  DInv'
<1>0. todo \in SUBSET Issues
  BY TypeParts DEF DInv, RestTypes
<1>1. /\ pass' \in PassRecords /\ pass'.at = at /\ pass'.todo = todo /\ pass'.next = "none"
  BY <1>0, GoMoves
<1>2. Places'
  BY <1>1 DEF DInv, Places, RowsStay, ReviewNexts, AdviseNexts, Verdicts, Advices, ReviewEnabled
<1>3. Replanning'
  BY <1>1 DEF DInv, Replanning, RowsStay, Calm, Settled, Over, RefusedFailed, ReviewEnabled
<1> QED
  BY <1>1, <1>2, <1>3, MoveRows

(* What a step that leaves all but the pass gives those lemmas. *)
LEMMA GoStays ==
    ASSUME DInv, Stays, UNCHANGED <<step, faults>>
    PROVE  /\ RowsStay /\ UNCHANGED step /\ replanner' \in Runs /\ replans' \in 0..MaxReplanner
           /\ step = "pending" => replanner' \in {"none", "free"}
           /\ FaultTypes' /\ faults.kinds \subseteq faults'.kinds
           /\ "busy" \in faults'.kinds => "busy" \in faults.kinds
           /\ replanner' = replanner /\ replans' = replans
<1>1. RowsStay /\ UNCHANGED setting /\ replanner' = replanner /\ replans' = replans
  BY DEF Stays, RowsStay
<1> QED
  BY <1>1, StayTypes, SameFaults

(* The pass reads the level again. *)
LEMMA LoopKeeps ==
    ASSUME DInv, Stays, UNCHANGED <<step, faults>>, pass.at # "off", Go("loop", {})
    PROVE  DInv'
<1>1. /\ pass' \in PassRecords /\ pass'.at = "loop" /\ pass'.todo = {} /\ pass'.next = "none"
      /\ pass'.hold = FALSE
  BY GoMoves DEF Sites
<1>2. Knows' /\ Sections'
  BY <1>1, SectionsOf DEF Knows, ReviewNexts, AdviseNexts, Verdicts, Advices
<1> QED
  BY <1>2, GoStays, GoKeeps DEF Sites

(* ReadLevel: the rows say which section is next. *)
LEMMA ReadLevelKeeps ==
    ASSUME DInv, ReadLevel, UNCHANGED setting PROVE DInv'
<1>0. /\ Stays /\ UNCHANGED <<step, faults>> /\ pass.at # "off" /\ level = "open"
      /\ present \subseteq Issues
  BY TypeParts DEF ReadLevel, At, Stays, RowsStay, rows, outside, DInv, RestTypes
<1>1. CASE Go("dispatch", Undispatched)
  <2>0. Undispatched \subseteq present
    BY DEF Undispatched
  <2>1. pass'.at = "dispatch" /\ pass'.todo = Undispatched /\ pass'.next = "none" /\ pass'.hold = FALSE
    BY <1>0, <1>1, <2>0, GoMoves DEF Sites
  <2>2. \A i \in pass'.todo : iss'[i].outcome = "pending"
    BY <1>0, <2>1 DEF Undispatched, Stays, RowsStay
  <2>3. Knows' /\ Sections'
    BY <2>1, <2>2, SectionsOf DEF Knows, OnlyHere, AtDispatch, ReviewNexts, AdviseNexts,
       Verdicts, Advices
  <2> QED
    BY <1>0, <1>1, <2>0, <2>3, GoStays, GoKeeps DEF Sites
<1>2. CASE Go("ingest", Running)
  <2>0. Running \subseteq present
    BY DEF Running
  <2>1. pass'.at = "ingest" /\ pass'.todo = Running /\ pass'.next = "none" /\ pass'.hold = FALSE
    BY <1>0, <1>2, <2>0, GoMoves DEF Sites
  <2>2. \A i \in pass'.todo : iss'[i].outcome = "running"
    BY <1>0, <2>1 DEF Running, Stays, RowsStay
  <2>3. Knows' /\ Sections'
    BY <2>1, <2>2, SectionsOf DEF Knows, OnlyHere, AtIngest, ReviewNexts, AdviseNexts, Verdicts,
       Advices
  <2> QED
    BY <1>0, <1>2, <2>0, <2>3, GoStays, GoKeeps DEF Sites
<1>3. CASE Go("halt", {})
  <2>1. pass'.at = "halt" /\ pass'.todo = {} /\ pass'.next = "none" /\ pass'.hold = FALSE
    BY <1>3, GoMoves DEF Sites
  <2>3. Knows' /\ Sections'
    BY <2>1, SectionsOf DEF Knows, ReviewNexts, AdviseNexts, Verdicts, Advices
  <2> QED
    BY <1>0, <1>3, <2>3, GoStays, GoKeeps DEF Sites
<1>4. CASE Undispatched = {} /\ Running = {} /\ ~Halts
  <2>0. \A i \in present : Over(i) /\ iss[i].outcome \in {"done", "failed"}
    <3> SUFFICES ASSUME NEW i \in present PROVE iss[i].outcome \in {"done", "failed"}
      BY DEF Over
    <3>1. iss[i] \in IssueRows /\ RowSound(i)
      BY <1>0, TypeParts DEF DInv, RowTypes, RowsSound
    <3>2. iss[i].outcome \in {"pending", "running", "done", "failed"}
      BY <3>1 DEF IssueRows
    <3> QED
      BY <1>4, <3>1, <3>2 DEF Undispatched, Running, RowSound
  <2>1. CASE ReviewEnabled /\ Go("failures", {i \in CoderFailed : iss[i].res = "none"})
    <3> DEFINE todo == {i \in CoderFailed : iss[i].res = "none"}
    <3>0. todo \subseteq present
      BY DEF CoderFailed
    <3>1. pass'.at = "failures" /\ pass'.todo = todo /\ pass'.next = "none" /\ pass'.hold = FALSE
      BY <1>0, <2>1, <3>0, GoMoves DEF Sites
    <3>2. /\ \A i \in pass'.todo : iss'[i].outcome = "failed" /\ iss'[i].res = "none"
          /\ \A i \in present' : /\ Over(i)' /\ iss'[i].outcome # "running"
                                 /\ (iss'[i].outcome = "failed" /\ iss'[i].res = "none" => i \in pass'.todo)
      BY <1>0, <2>0, <3>1 DEF CoderFailed, Stays, RowsStay, Over
    <3>3. Knows'
      BY <3>1, <3>2 DEF Knows, ReviewNexts, AdviseNexts, Verdicts, Advices
    <3>4. Sections'
      BY <3>1, <3>2, SectionsOf DEF OnlyHere, AtFailures
    <3> QED
      BY <1>0, <2>1, <3>0, <3>3, <3>4, GoStays, GoKeeps DEF Sites
  <2>2. CASE ~ReviewEnabled /\ Go("merge", ToMerge)
    <3>0. ToMerge \subseteq present
      BY DEF ToMerge, Accepted
    <3>1. pass'.at = "merge" /\ pass'.todo = ToMerge /\ pass'.next = "none" /\ pass'.hold = FALSE
      BY <1>0, <2>2, <3>0, GoMoves DEF Sites
    <3>2. \A i \in present : iss[i].outcome = "done"
      BY <1>4, <2>0, <2>2 DEF Halts, CoderFailed
    <3>3. Knows'
      BY <3>1 DEF Knows, ReviewNexts, AdviseNexts, Verdicts, Advices
    <3>4. AtMerge'
      BY <1>0, <2>2, <3>1, <3>2 DEF AtMerge, ToMerge, Accepted, Stays, RowsStay, ReviewEnabled
    <3>5. Sections'
      BY <3>1, <3>4, SectionsOf DEF OnlyHere
    <3>6. replanner = "none"
      BY <2>2 DEF DInv, Replanning
    <3> QED
      BY <1>0, <2>2, <3>0, <3>3, <3>5, <3>6, GoStays, GoKeeps DEF Sites
  <2> QED
    BY <1>4, <2>1, <2>2 DEF ReadLevel
<1> QED
  BY <1>1, <1>2, <1>3, <1>4 DEF ReadLevel

(* The ends of the sections, and the steps that end the pass. *)
LEMMA EndsKeep ==
    ASSUME DInv, UNCHANGED setting
    PROVE  /\ Superseded => DInv'
           /\ DagComplete => DInv'
           /\ Dispatched => DInv'
           /\ Ingested => DInv'
           /\ Halt => DInv'
           /\ Abort => DInv'
           /\ Skipped => DInv'
<1>1. ASSUME Superseded PROVE DInv'
  <2>1. Stays /\ UNCHANGED <<step, faults>> /\ Park /\ step # "open"
    BY <1>1 DEF Superseded, Stays, RowsStay, rows, outside, Owned
  <2> QED
    BY <2>1, SameFaults, ParkKeeps
<1>2. ASSUME DagComplete PROVE DInv'
  <2>1. Stays /\ UNCHANGED faults /\ Park /\ step' = "done"
    BY <1>2 DEF DagComplete, Stays, RowsStay, rows, outside
  <2> QED
    BY <2>1, SameFaults, ParkKeeps
<1>3. ASSUME \/ Dispatched \/ Ingested
      PROVE  DInv'
  <2>1. Stays /\ UNCHANGED <<step, faults>> /\ pass.at # "off"
        /\ IF pass.hold THEN Park ELSE Go("loop", {})
    BY <1>3 DEF Dispatched, Ingested, Stays, RowsStay, rows, outside, At
  <2>2. step = "open" /\ pass.hold => Stirs
    BY DEF DInv, Sections, Owned
  <2> QED
    BY <2>1, <2>2, SameFaults, ParkKeeps, LoopKeeps
<1>4. ASSUME \/ Halt \/ Abort
      PROVE  DInv'
  <2>1. Stays /\ UNCHANGED faults /\ Park /\ step' = "failed"
    BY <1>4 DEF Halt, Abort, FailStep, Stays, RowsStay, rows, outside
  <2> QED
    BY <2>1, SameFaults, ParkKeeps
<1>5. ASSUME Skipped PROVE DInv'
  <2>1. Stays /\ UNCHANGED <<step, faults>> /\ pass.at # "off" /\ Go("loop", {})
    BY <1>5 DEF Skipped, Stays, RowsStay, rows, outside, DInv, Places
  <2> QED
    BY <2>1, LoopKeeps
<1> QED
  BY <1>1, <1>2, <1>3, <1>4, <1>5

(* Reviewed: the pass parks on a reviewer, fails the step, or goes to the escalation
   with the rows as they are. *)
LEMMA ReviewedKeeps ==
    ASSUME DInv, Reviewed, UNCHANGED setting PROVE DInv'
<1>0. /\ Stays /\ UNCHANGED faults /\ pass.at = "review" /\ pass.todo = {} /\ ReviewEnabled
      /\ present \subseteq Issues /\ RowTypes /\ level = "open"
  BY TypeParts DEF Reviewed, At, Stays, RowsStay, rows, outside, DInv, RestTypes, Places
<1>1. CASE Unreviewed # {} /\ Owned /\ Park /\ UNCHANGED step
  <2>1. PICK i \in Unreviewed : i \in present
    BY <1>1 DEF Unreviewed
  <2>2. Stirs
    BY <1>0, <1>1, <2>1 DEF DInv, Sections, AtReview, Stirs, AnyLive
  <2> QED
    BY <1>0, <1>1, <2>2, SameFaults, ParkKeeps
<1>2. CASE Owned /\ FailStep
  BY <1>0, <1>2, SameFaults, ParkKeeps DEF FailStep
<1>3. CASE /\ Unreviewed = {} /\ UNCHANGED step
           /\ pass' = [Off EXCEPT !.at = "escalate", !.todo = Failed, !.seen = iss]
  <2>1. /\ pass' \in PassRecords /\ pass'.at = "escalate" /\ pass'.todo = Failed
        /\ pass'.next = "none" /\ pass'.hold = FALSE /\ pass'.seen = iss
    <3>1. Off \in PassRecords
      BY FreshRow DEF Off, PassRecords, Sites, Nexts
    <3>2. Failed \subseteq Issues
      BY <1>0 DEF Failed
    <3> QED
      BY <1>0, <1>3, <3>1, <3>2 DEF PassRecords, Sites, RowTypes, Off
  <2>2. Places'
    BY <1>0, <1>3, <2>1 DEF DInv, Places, Stays, RowsStay, ReviewNexts, AdviseNexts, Verdicts,
       Advices, ReviewEnabled, Failed
  <2>3. Knows'
    <3>1. \A j \in Failed : /\ iss[j].res # "accepted" /\ iss[j].outcome # "running"
                            /\ agent[j].role = "advisor" /\ ~agent[j].used => iss[j].adv < MaxAdvisor
      BY <1>0 DEF DInv, Knows, Failed, RowsSound, RowSound
    <3> QED
      BY <1>0, <2>1, <3>1 DEF Knows, Stays, RowsStay, ReviewNexts, AdviseNexts, Verdicts, Advices
  <2>4. Replanning'
    BY <1>0, <2>1 DEF DInv, Replanning, Stays, RowsStay, Calm, Settled, Over, RefusedFailed,
       ReviewEnabled
  <2>5. Sections'
    <3> SUFFICES ASSUME Owned PROVE AtEscalate' /\ Seen'
      BY <1>3, <2>1, SectionsOf DEF OnlyHere, Owned
    <3>1. AtReview
      BY DEF DInv, Sections
    <3>2. \A i \in present : Settled(i)
      BY <1>0, <1>3, <3>1 DEF AtReview, Settled, Over, Unreviewed
    <3>3. AtEscalate'
      BY <1>0, <2>1, <3>2 DEF AtEscalate, Settled, Over, Stays, RowsStay, Failed
    <3>4. Seen'
      BY <1>0, <2>1 DEF Seen, Stays, RowsStay, RefusedFailed, Refused, Failed
    <3> QED
      BY <3>3, <3>4
  <2> QED
    BY <1>0, <1>3, <2>1, <2>2, <2>3, <2>4, <2>5, GoStays, MoveRows
<1> QED
  BY <1>1, <1>2, <1>3 DEF Reviewed

(* What the escalation knows is kept by a step that leaves the rows and what it has to do. *)
LEMMA EscalateMoves ==
    ASSUME DInv, RowsStay, UNCHANGED <<step, faults>>, pass.at = "escalate", pass.next = "none",
           pass' \in PassRecords, pass'.at = "escalate", pass'.todo = pass.todo,
           pass'.seen = pass.seen, pass'.hold = pass.hold,
           pass'.next \in {"skip", "abort", "spawnReplanner2"}, ~RunIsLive(replanner)
    PROVE  Places' /\ Knows' /\ Sections'
<1>0. present \subseteq Issues /\ pass.todo \subseteq present
  BY TypeParts DEF DInv, RestTypes, Places
<1>1. Places'
  BY DEF DInv, Places, RowsStay, ReviewNexts, AdviseNexts, Verdicts, Advices, ReviewEnabled
<1>2. Knows'
  BY DEF DInv, Knows, RowsStay, ReviewNexts, AdviseNexts, Verdicts, Advices
<1>3. Stirs => Stirs'
  BY DEF Stirs, AnyLive, RowsStay
<1>4. Sections'
  <2> SUFFICES ASSUME Owned PROVE AtEscalate' /\ Seen' /\ (pass'.hold => Stirs')
    BY SectionsOf DEF OnlyHere, Owned
  <2>1. AtEscalate /\ Seen /\ (pass.hold => Stirs)
    BY DEF DInv, Sections
  <2>2. AtEscalate'
    BY <2>1 DEF AtEscalate, RowsStay, Settled, Over
  <2>3. Seen'
    BY <2>1 DEF Seen, RowsStay, RefusedFailed, Refused
  <2> QED
    BY <1>3, <2>1, <2>2, <2>3
<1> QED
  BY <1>1, <1>2, <1>4

(* Escalate reads the replanner the plan names. *)
LEMMA EscalateKeeps ==
    ASSUME DInv, Escalate, UNCHANGED setting PROVE DInv'
<1>0. /\ RowsStay /\ UNCHANGED <<step, faults>> /\ pass.at = "escalate" /\ pass.next = "none"
      /\ ReviewEnabled /\ present \subseteq Issues /\ level = "open" /\ pass.todo \subseteq present
      /\ pass \in PassRecords /\ replanner \in Runs /\ replans \in 0..MaxReplanner
  BY TypeParts DEF Escalate, At, RowsStay, outside, DInv, RestTypes, Places
<1>a. /\ FaultTypes' /\ faults.kinds \subseteq faults'.kinds
      /\ "busy" \in faults'.kinds => "busy" \in faults.kinds
  BY <1>0, SameFaults
<1>b. MaxReplanner \in Nat
  BY LevelAssumption
<1>1. CASE replanner = "none" /\ pass.todo = {} /\ Go("merge", ToMerge) /\ UNCHANGED <<replanner, replans>>
  <2>0. ToMerge \subseteq present /\ Stays
    BY <1>0, <1>1 DEF ToMerge, Accepted, Stays
  <2>1. pass'.at = "merge" /\ pass'.todo = ToMerge /\ pass'.next = "none" /\ pass'.hold = FALSE
    BY <1>0, <1>1, <2>0, GoMoves DEF Sites
  <2>2. Knows'
    BY <2>1 DEF Knows, ReviewNexts, AdviseNexts, Verdicts, Advices
  <2>3. Owned => AtMerge'
    <3> SUFFICES ASSUME Owned PROVE AtMerge'
      OBVIOUS
    <3>1. \A i \in present : iss[i].res \in {"accepted", "skipped", "split"}
      <4> SUFFICES ASSUME NEW i \in present PROVE iss[i].res \in {"accepted", "skipped", "split"}
        OBVIOUS
      <4>1. iss[i].res \in {"none", "accepted", "failed", "split", "skipped"}
        <5>1. iss[i] \in IssueRows
          BY <1>0, TypeParts DEF DInv, RowTypes
        <5> QED
          BY <5>1 DEF IssueRows
      <4> QED
        BY <1>0, <1>1, <4>1 DEF DInv, Sections, AtEscalate, Settled
    <3> QED
      BY <1>0, <2>1, <3>1 DEF AtMerge, ToMerge, Accepted, RowsStay, ReviewEnabled
  <2>4. Sections'
    BY <1>0, <2>1, <2>3, SectionsOf DEF OnlyHere, Owned, RowsStay, ReviewEnabled
  <2> QED
    BY <1>0, <1>1, <2>0, <2>2, <2>4, GoStays, GoKeeps DEF Sites
<1>2. CASE replanner = "none" /\ pass.todo # {} /\ pass' = [pass EXCEPT !.at = "advise"]
           /\ UNCHANGED <<replanner, replans>>
  <2>1. /\ pass' \in PassRecords /\ pass'.at = "advise" /\ pass'.todo = pass.todo
        /\ pass'.next = "none" /\ pass'.hold = pass.hold /\ pass'.seen = pass.seen /\ Stays
    BY <1>0, <1>2 DEF PassRecords, Sites, Stays
  <2>2. Places'
    BY <1>0, <2>1 DEF DInv, Places, RowsStay, ReviewNexts, AdviseNexts, Verdicts, Advices,
       ReviewEnabled
  <2>3. Knows'
    <3>1. \A j \in pass.todo : /\ iss[j].res # "accepted" /\ iss[j].outcome # "running"
                               /\ agent[j].role = "advisor" /\ ~agent[j].used => pass.seen[j].adv < MaxAdvisor
      BY <1>0 DEF DInv, Knows
    <3> QED
      BY <1>0, <2>1, <3>1 DEF Knows, RowsStay, ReviewNexts, AdviseNexts, Verdicts, Advices
  <2>4. Replanning'
    BY <1>0, <1>2, <2>1 DEF DInv, Replanning, RowsStay
  <2>5. Sections'
    <3> SUFFICES ASSUME Owned PROVE AtAdvise' /\ Seen' /\ (pass'.hold => Stirs')
      BY <1>0, <2>1, SectionsOf DEF OnlyHere, Owned
    <3>1. AtEscalate /\ Seen /\ (pass.hold => Stirs)
      BY DEF DInv, Sections
    <3>2. pass'.hold => Stirs'
      BY <1>0, <2>1, <3>1 DEF Stirs, AnyLive, Stays, RowsStay
    <3>3. AtAdvise'
      BY <1>0, <2>1, <3>1 DEF AtAdvise, AtEscalate, RowsStay, Settled, Over, AdviseNexts, Advices
    <3>4. Seen'
      BY <1>0, <2>1, <3>1 DEF Seen, RowsStay, RefusedFailed, Refused
    <3> QED
      BY <3>2, <3>3, <3>4
  <2> QED
    BY <1>0, <2>1, <2>2, <2>3, <2>4, <2>5, GoStays, MoveRows
<1>3. CASE RunIsLive(replanner) /\ Park /\ UNCHANGED <<replanner, replans>>
  <2>1. Stays /\ Stirs
    BY <1>0, <1>3 DEF Stays, Stirs, AnyLive
  <2> QED
    BY <1>0, <1>3, <1>a, <2>1, ParkKeeps
<1>c. replanner \in Ended => ~RunIsLive(replanner) /\ replanner # "none"
  BY RunFacts
<1>d. "none" \in Runs /\ {"skip", "abort", "spawnReplanner2"} \subseteq Nexts
  BY DEF Runs, Nexts
<1>4. CASE replanner \in {"free", "cut"} /\ Owned /\ replanner' = "none" /\ UNCHANGED replans
           /\ Go("loop", {})
  <2>1. /\ pass' \in PassRecords /\ pass'.at = "loop" /\ pass'.todo = {} /\ pass'.next = "none"
        /\ pass'.hold = FALSE
    BY <1>4, GoMoves DEF Sites
  <2>2. Knows' /\ Sections'
    BY <2>1, SectionsOf DEF Knows, ReviewNexts, AdviseNexts, Verdicts, Advices
  <2> QED
    BY <1>0, <1>4, <1>a, <1>d, <2>2, GoKeeps DEF Sites
<1>5. CASE replanner = "cut" /\ Owned /\ replanner' = "none" /\ UNCHANGED replans
           /\ Then("spawnReplanner2")
  <2>1. /\ pass' \in PassRecords /\ pass'.at = "escalate" /\ pass'.todo = pass.todo
        /\ pass'.next = "spawnReplanner2" /\ pass'.hold = pass.hold /\ pass'.seen = pass.seen
    BY <1>0, <1>5, <1>d, PassMoves
  <2>2. Places' /\ Knows' /\ Sections'
    BY <1>0, <1>5, <2>1, EscalateMoves DEF RunIsLive
  <2>3. Calm' /\ replans < MaxReplanner
    BY <1>0, <1>5 DEF DInv, Replanning, RowsStay, Calm, Settled, Over, RefusedFailed
  <2>4. Replanning'
    BY <1>0, <1>5, <2>1, <2>3 DEF DInv, Replanning, RowsStay, ReviewEnabled
  <2> QED
    BY <1>0, <1>5, <1>a, <1>d, <2>1, <2>2, <2>4, MoveRows
<1>6. CASE replanner \in Ended /\ Owned /\ replanner' = "none" /\ replans' = replans + 1
           /\ \E n \in {"abort", "skip"} : Then(n)
  <2>0. PICK n \in {"abort", "skip"} : Then(n)
    BY <1>6
  <2>1. /\ pass' \in PassRecords /\ pass'.at = "escalate" /\ pass'.todo = pass.todo
        /\ pass'.next = n /\ pass'.hold = pass.hold /\ pass'.seen = pass.seen
    BY <1>0, <1>d, <2>0, PassMoves
  <2>2. Places' /\ Knows' /\ Sections'
    BY <1>0, <1>6, <1>c, <2>1, EscalateMoves
  <2>3. replans' \in 0..MaxReplanner
    BY <1>0, <1>6, <1>b, <1>c DEF DInv, Replanning
  <2>4. Replanning'
    BY <1>0, <1>6, <2>1 DEF DInv, Replanning, RowsStay, ReviewEnabled
  <2> QED
    BY <1>0, <1>6, <1>a, <1>d, <2>1, <2>2, <2>3, <2>4, MoveRows
<1> QED
  BY <1>1, <1>2, <1>3, <1>4, <1>5, <1>6 DEF Escalate

(* SpawnReplanner records the replanner, or finds no provider that takes it. *)
LEMMA SpawnReplannerKeeps ==
    ASSUME DInv, SpawnReplanner, UNCHANGED setting PROVE DInv'
<1> DEFINE n == pass.next
<1>0. /\ RowsStay /\ UNCHANGED replans /\ n \in {"spawnReplanner", "spawnReplanner2"}
      /\ pass.at \in {"escalate", "advise"} /\ ReviewEnabled
      /\ present \subseteq Issues /\ level = "open"
      /\ pass \in PassRecords /\ replanner = "none" /\ replans \in 0..MaxReplanner
      /\ FaultTypes /\ setting \in Settings /\ replans < MaxReplanner
      /\ Owned => Calm
  BY TypeParts DEF SpawnReplanner, RowsStay, outside, DInv, RestTypes, Places, Replanning
<1>1. CASE /\ Owned
           /\ replanner' = Unsent(n = "spawnReplanner2")
           /\ pass' = [pass EXCEPT !.next = "enqueue", !.todo = {}]
           /\ UNCHANGED <<step, faults>>
  <2>1. replanner' \in Runs /\ RunIsLive(replanner')
    <3>1. (n = "spawnReplanner2") \in BOOLEAN
      OBVIOUS
    <3> HIDE DEF n
    <3> QED
      BY <1>1, <3>1, RunFacts
  <2>2. /\ pass' \in PassRecords /\ pass'.at = pass.at /\ pass'.todo = {}
        /\ pass'.next = "enqueue" /\ pass'.hold = pass.hold /\ pass'.seen = pass.seen
        /\ pass'.again = pass.again
    BY <1>0, <1>1 DEF PassRecords, Nexts
  <2>3. Places'
    BY <1>0, <1>1, <2>2 DEF DInv, Places, RowsStay, ReviewNexts, AdviseNexts, Verdicts, Advices,
       ReviewEnabled
  <2>4. Knows'
    BY <1>0, <2>2 DEF Knows, ReviewNexts, AdviseNexts, Verdicts, Advices
  <2>5. Calm'
    BY <1>0, <1>1 DEF RowsStay, Calm, Settled, Over, RefusedFailed
  <2>6. Replanning'
    BY <1>0, <1>1, <2>1, <2>2, <2>5 DEF Replanning, ReviewEnabled, RowsStay
  <2>7. Sections'
    <3>1. Stirs'
      BY <2>1 DEF Stirs, AnyLive
    <3>2. AtEscalate'
      BY <2>2, <2>5 DEF AtEscalate, Calm
    <3>3. AtAdvise'
      BY <2>2, <2>5 DEF AtAdvise, Calm, AdviseNexts, Advices
    <3>4. Seen'
      BY <2>2, <2>5 DEF Seen, Calm
    <3> QED
      BY <1>0, <2>2, <3>1, <3>2, <3>3, <3>4, SectionsOf DEF OnlyHere
  <2>8. step # "pending"
    BY <1>1 DEF Owned
  <2> QED
    BY <1>0, <1>1, <2>1, <2>2, <2>3, <2>4, <2>6, <2>7, <2>8, SameFaults, MoveRows
<1>2. CASE /\ Fault("provider")
           /\ IF n = "spawnReplanner" THEN Owned /\ FailStep ELSE Go("loop", {}) /\ UNCHANGED step
           /\ UNCHANGED replanner
  <2>1. /\ FaultTypes' /\ faults.kinds \subseteq faults'.kinds
        /\ "busy" \in faults'.kinds => "busy" \in faults.kinds
    BY <1>0, <1>2, FaultMoves
  <2>2. Stays
    BY <1>0, <1>2 DEF Stays
  <2>3. CASE FailStep
    BY <2>1, <2>2, <2>3, ParkKeeps DEF FailStep
  <2>4. CASE Go("loop", {}) /\ UNCHANGED step
    <3>1. /\ pass' \in PassRecords /\ pass'.at = "loop" /\ pass'.todo = {} /\ pass'.next = "none"
          /\ pass'.hold = FALSE
      BY <2>4, GoMoves DEF Sites
    <3>2. Knows' /\ Sections'
      BY <3>1, SectionsOf DEF Knows, ReviewNexts, AdviseNexts, Verdicts, Advices
    <3>3. "none" \in Runs
      BY DEF Runs
    <3> QED
      BY <1>0, <1>2, <2>1, <2>2, <2>4, <3>2, <3>3, GoKeeps DEF Sites
  <2> QED
    BY <1>2, <2>3, <2>4
<1> QED
  BY <1>1, <1>2 DEF SpawnReplanner

(* Enqueue queues the replanner's job, and the pass parks. *)
LEMMA EnqueueReplannerKeeps ==
    ASSUME DInv, Enqueue, pass.todo = {}, UNCHANGED setting PROVE DInv'
<1>0. /\ RowsStay /\ UNCHANGED <<replans, step, faults>> /\ replanner' = Sent(replanner) /\ Park
      /\ pass.next = "enqueue" /\ replanner \in Runs /\ replans \in 0..MaxReplanner
  BY TypeParts DEF Enqueue, RowsStay, outside, DInv, RestTypes
<1>1. /\ replanner' \in Runs
      /\ RunIsLive(replanner') <=> RunIsLive(replanner)
      /\ (replanner' = "none") <=> (replanner = "none")
      /\ replanner \in {"none", "free"} => replanner' = replanner
  BY <1>0, SentKeepsNone, RunFacts DEF Sent
<1>2. step' = "open" => Stirs'
  BY <1>0, <1>1 DEF DInv, Replanning, Owned, Stirs, AnyLive, RowsStay
<1>3. pass'.at = "off" /\ pass'.todo = {} /\ pass'.next = "none"
  BY <1>0, OffMoves DEF Park
<1>4. Replanning'
  BY <1>0, <1>1, <1>3 DEF DInv, Replanning, RowsStay, Calm, Settled, Over, RefusedFailed,
     ReviewEnabled
<1>5. step' = "pending" => replanner' \in {"none", "free"}
  BY <1>0, <1>1 DEF DInv, Quiet
<1> QED
  BY <1>0, <1>1, <1>2, <1>4, <1>5, SameFaults, ParkRows

(* Advised: every failed issue has been seen. *)
LEMMA AdvisedKeeps ==
    ASSUME DInv, Advised, UNCHANGED setting PROVE DInv'
<1>0. /\ Stays /\ UNCHANGED faults /\ pass.at = "advise" /\ pass.next = "none" /\ pass.todo = {}
      /\ ReviewEnabled /\ present \subseteq Issues /\ pass \in PassRecords
  BY TypeParts DEF Advised, At, Stays, RowsStay, rows, outside, DInv, RestTypes, Places
<1>1. CASE pass.hold /\ Owned /\ Park /\ UNCHANGED step
  <2>1. Stirs
    BY <1>1 DEF DInv, Sections
  <2> QED
    BY <1>0, <1>1, <2>1, SameFaults, ParkKeeps DEF Stays, RowsStay
<1>2. CASE Go("loop", {}) /\ UNCHANGED step
  BY <1>0, <1>2, LoopKeeps
<1>3. CASE FailStep
  BY <1>0, <1>3, SameFaults, ParkKeeps DEF FailStep
<1>4. CASE ~pass.hold /\ ~pass.again /\ Refused = {} /\ Replans /\ Then("spawnReplanner") /\ UNCHANGED step
  <2>1. /\ pass' \in PassRecords /\ pass'.at = pass.at /\ pass'.seen = pass.seen
        /\ pass'.todo = pass.todo /\ pass'.next = "spawnReplanner" /\ pass'.hold = pass.hold
        /\ pass'.again = pass.again
    <3>1. "spawnReplanner" \in Nexts
      BY DEF Nexts
    <3> QED
      BY <1>0, <1>4, <3>1, PassMoves
  <2>2. Places'
    BY <1>0, <1>4, <2>1 DEF DInv, Places, Stays, RowsStay, ReviewNexts, AdviseNexts, Verdicts,
       Advices, ReviewEnabled
  <2>3. Knows'
    BY <1>0, <2>1 DEF Knows, ReviewNexts, AdviseNexts, Verdicts, Advices
  <2>4. Owned => Calm
    BY <1>0, <1>4 DEF DInv, Sections, AtAdvise, Seen, Calm
  <2>5. replanner = "none" /\ replans < MaxReplanner
    BY <1>0, <1>4 DEF DInv, Replanning, Replans
  <2>6. Replanning'
    BY <1>0, <1>4, <2>1, <2>4, <2>5 DEF Replanning, Stays, RowsStay, Calm, Settled, Over,
       RefusedFailed, ReviewEnabled, Owned
  <2>7. Sections'
    <3> SUFFICES ASSUME Owned PROVE AtAdvise' /\ Seen'
      BY <1>0, <1>4, <2>1, SectionsOf DEF OnlyHere, Owned
    <3>1. \A i \in present : Settled(i) /\ ~RefusedFailed(i)
      BY <2>4 DEF Calm
    <3>2. AtAdvise'
      BY <1>0, <2>1, <3>1 DEF AtAdvise, Stays, RowsStay, Settled, Over, AdviseNexts, Advices
    <3>3. Seen'
      BY <1>0, <2>1, <3>1 DEF Seen, Stays, RowsStay, RefusedFailed
    <3> QED
      BY <3>2, <3>3
  <2> QED
    BY <1>0, <1>4, <2>1, <2>2, <2>3, <2>6, <2>7, GoStays, MoveRows
<1> QED
  BY <1>1, <1>2, <1>3, <1>4 DEF Advised

(* MergeIssue merges the branch of the issue in hand, or git refuses. *)
LEMMA MergeIssueKeeps ==
    ASSUME DInv, NEW i \in Issues, MergeIssue(i), UNCHANGED setting PROVE DInv'
<1> DEFINE r == [iss[i] EXCEPT !.merged = TRUE]
<1>0. /\ InHand(i) /\ pass.at = "merge" /\ pass.next = "none" /\ i \in present
      /\ pass \in PassRecords /\ pass.todo \subseteq Issues /\ present \subseteq Issues
      /\ iss[i] \in IssueRows /\ RowSound(i) /\ KeptAt(i) /\ i \in pass.todo
      /\ FaultTypes /\ setting \in Settings
  BY HandFacts DEF MergeIssue, At
<1>a. UNCHANGED <<present, coder, agent, replanner, replans, outage, wake, clicks, level>>
  BY DEF MergeIssue, outside
<1>1. CASE Set(i, r) /\ DoneWith(i) /\ UNCHANGED <<step, faults>>
  <2>1. /\ r \in IssueRows /\ r.outcome = iss[i].outcome /\ r.merged = TRUE
        /\ r.err = iss[i].err /\ r.stuck = iss[i].stuck /\ r.adv = iss[i].adv /\ r.res = iss[i].res
    BY <1>0 DEF IssueRows
  <2>2. /\ pass' \in PassRecords /\ pass'.at = pass.at /\ pass'.seen = pass.seen
        /\ pass'.todo = pass.todo \ {i} /\ pass'.next = "none" /\ pass'.hold = pass.hold
    BY <1>0, <1>1, PassMoves
  <2> HIDE DEF r
  <2>3. Touches(i) /\ Agents(i) /\ iss'[i] = r
    BY <1>0, <1>1, <1>a, <2>1, <2>2, SameFaults, RowOnly
  <2>4. Owned \/ ~ReviewEnabled => AtMerge
    BY DEF DInv, Sections
  <2>5. ~Overwritten => Owned \/ ~ReviewEnabled
    BY <1>0 DEF DInv, Kept, Overwritten
  <2>6. ~Overwritten => iss[i].outcome = "done" /\ (ReviewEnabled => iss[i].res = "accepted")
    BY <1>0, <2>4, <2>5 DEF AtMerge, Accepted, RowSound
  <2>7. RowSound(i)' /\ KeptAt(i)'
    BY <1>0, <1>1, <1>a, <2>1, <2>3, <2>6 DEF RowSound, KeptAt, Over, Children, ReviewEnabled,
       Overwritten
  <2>8. Places' /\ Knows'
    BY <1>0, <1>1, <1>a, <2>2 DEF DInv, Places, Knows, ReviewNexts, AdviseNexts, Verdicts,
       Advices, ReviewEnabled
  <2>9. Replanning'
    BY <1>0, <2>2, <2>3, TouchReplanning
  <2>10. Sections'
    <3>1. Owned' /\ pass'.hold => Stirs'
      BY <1>0, <1>1, <2>2, <2>3, <2>7, TouchKeeps DEF DInv, Sections, Owned
    <3>2. Owned' \/ ~ReviewEnabled' => AtMerge'
      <4> SUFFICES ASSUME Owned \/ ~ReviewEnabled PROVE AtMerge'
        BY <1>1 DEF Owned, ReviewEnabled
      <4>1. AtMerge
        BY <2>4
      <4>2. Accepted' = Accepted
        BY <1>0, <1>a, <2>1, <2>3 DEF Accepted, Touches, ReviewEnabled
      <4>3. \A j \in present : /\ iss'[j].res = iss[j].res /\ iss'[j].outcome = iss[j].outcome
                               /\ (j # i => iss'[j].merged = iss[j].merged)
        BY <1>0, <2>1, <2>3 DEF Touches
      <4> QED
        BY <1>0, <1>a, <2>1, <2>2, <2>3, <4>1, <4>2, <4>3 DEF AtMerge, ReviewEnabled
    <3> QED
      BY <1>0, <2>2, <3>1, <3>2, SectionsOf DEF OnlyHere
  <2> QED
    BY <1>0, <2>3, <2>7, <2>8, <2>9, <2>10, TouchDone
<1>2. CASE Fault("merge") /\ FailStep /\ UNCHANGED iss
  <2>1. /\ FaultTypes' /\ faults.kinds \subseteq faults'.kinds
        /\ "busy" \in faults'.kinds => "busy" \in faults.kinds
    BY <1>0, <1>2, FaultMoves
  <2>2. Stays
    BY <1>2, <1>a DEF Stays, RowsStay
  <2> QED
    BY <1>2, <2>1, <2>2, ParkKeeps DEF FailStep
<1> QED
  BY <1>1, <1>2 DEF MergeIssue

(* Checkpoint: what was merged, skipped or split is all there is. *)
LEMMA CheckpointKeeps ==
    ASSUME DInv, Checkpoint, UNCHANGED setting PROVE DInv'
<1>0. /\ pass.at = "merge" /\ pass.next = "none" /\ pass.todo = {} /\ level' = "checkpointed"
      /\ UNCHANGED <<present, iss, coder, agent, replanner, replans, outage, wake, clicks, step, faults>>
      /\ Go("loop", {}) /\ present \subseteq Issues
  BY TypeParts DEF Checkpoint, At, rows, outside, DInv, RestTypes
<1>1. /\ pass' \in PassRecords /\ pass'.at = "loop" /\ pass'.todo = {} /\ pass'.next = "none"
      /\ pass'.hold = FALSE
  BY <1>0, GoMoves DEF Sites
<1>2. TypeOK' /\ Counts'
  <2>1. RowTypes' /\ RestTypes' /\ FaultTypes'
    BY <1>0, TypeParts DEF DInv, RowTypes, RestTypes, FaultTypes
  <2> QED
    BY <1>1, <2>1, TypePartsNext
<1>3. RowsSound' /\ Quiet' /\ Kept' /\ NoDeadWait'
  <2>1. RowsSound'
    BY <1>0 DEF DInv, RowsSound, RowSound, Over, Children
  <2>2. Quiet' /\ NoDeadWait'
    BY <1>0, <1>1 DEF DInv, Quiet, NoDeadWait
  <2>3. Kept'
    BY <1>0, <1>1 DEF DInv, Kept, KeptAt, Overwritten, ReviewEnabled, Over, Owned
  <2> QED
    BY <2>1, <2>2, <2>3
<1>4. Places' /\ Knows' /\ Sections'
  BY <1>0, <1>1, SectionsOf DEF DInv, Places, Knows, ReviewNexts, AdviseNexts, Verdicts, Advices
<1>5. Replanning'
  BY <1>0, <1>1 DEF DInv, Replanning, Calm, Settled, Over, RefusedFailed, ReviewEnabled
<1>6. CheckpointWhole'
  <2> SUFFICES ASSUME ~Overwritten, NEW i \in present
               PROVE  \/ iss[i].merged
                      \/ iss[i].res = "skipped"
                      \/ iss[i].res = "split" /\ Children(i) \subseteq present
    BY <1>0 DEF CheckpointWhole, Overwritten, ReviewEnabled, Children
  <2>1. AtMerge
    BY <1>0 DEF DInv, Sections, Kept, Overwritten
  <2>2. RowSound(i)
    BY <1>0 DEF DInv, RowsSound
  <2> QED
    BY <1>0, <2>1, <2>2 DEF AtMerge, Accepted, RowSound
<1> QED
  BY <1>2, <1>3, <1>4, <1>5, <1>6 DEF DInv

(* InsertSubIssue adds the row of a sub-issue, or finds it there. *)
LEMMA InsertSubIssueKeeps ==
    ASSUME DInv, NEW j \in Issues, InsertSubIssue(j), UNCHANGED setting PROVE DInv'
<1>0. /\ pass.next = "doSplit" /\ j \in pass.kids /\ pass \in PassRecords
      /\ UNCHANGED <<iss, coder, agent, replanner, replans, outage, wake, clicks, level, faults>>
      /\ pass.at = "advise" /\ pass.todo # {} /\ ReviewEnabled /\ level = "open"
      /\ present \subseteq Issues /\ pass.todo \subseteq present /\ Hand \in pass.todo
  BY TypeParts, HandIn DEF InsertSubIssue, outside, DInv, RestTypes, Places, AdviseNexts
<1>1. CASE j \notin present /\ present' = present \cup {j} /\ pass' = [pass EXCEPT !.kids = @ \ {j}]
           /\ UNCHANGED step
  <2>1. /\ pass' \in PassRecords /\ pass'.at = "advise" /\ pass'.todo = pass.todo
        /\ pass'.next = "doSplit" /\ pass'.hold = pass.hold /\ pass'.seen = pass.seen
        /\ pass'.again = pass.again /\ pass'.kids = pass.kids \ {j}
    BY <1>0, <1>1 DEF PassRecords
  <2>2. Hand' = Hand
    BY <2>1, HandSame
  <2>3. TypeOK' /\ Counts'
    <3>1. RowTypes' /\ RestTypes' /\ FaultTypes'
      BY <1>0, <1>1, TypeParts DEF DInv, RowTypes, RestTypes, FaultTypes
    <3> QED
      BY <2>1, <3>1, TypePartsNext
  <2>4. RowsSound'
    <3> SUFFICES ASSUME NEW i \in Issues PROVE RowSound(i)'
      BY DEF RowsSound
    <3>1. RowSound(i)
      BY DEF DInv, RowsSound
    <3> QED
      BY <1>0, <1>1, <3>1 DEF RowSound, Over, Children
  <2>5. Quiet' /\ NoDeadWait' /\ CheckpointWhole' /\ Kept'
    <3>1. Quiet' /\ NoDeadWait' /\ CheckpointWhole'
      BY <1>0, <1>1, <2>1 DEF DInv, Quiet, NoDeadWait, CheckpointWhole
    <3>2. Kept'
      BY <1>0, <1>1, <2>1 DEF DInv, Kept, KeptAt, Overwritten, ReviewEnabled, Over, Owned
    <3> QED
      BY <3>1, <3>2
  <2>6. Places'
    BY <1>0, <1>1, <2>1 DEF DInv, Places, ReviewNexts, AdviseNexts, Verdicts, Advices, ReviewEnabled
  <2>7. Knows'
    <3>1. "doSplit" \in AdviseNexts /\ "doSplit" \notin ReviewNexts /\ "doSplit" \notin Advices
      BY DEF AdviseNexts, ReviewNexts, Verdicts, Advices
    <3>2. Children(Hand)' \subseteq present' \cup pass'.kids
      BY <1>0, <1>1, <2>1, <2>2 DEF DInv, Knows, Children
    <3> QED
      BY <1>0, <1>1, <2>1, <2>2, <3>1, <3>2 DEF DInv, Knows
  <2>8. replanner = "none"
    BY <1>0 DEF DInv, Replanning
  <2>9. Replanning'
    BY <1>0, <2>1, <2>8 DEF Replanning
  <2>10. Sections'
    <3> SUFFICES ASSUME Owned PROVE AtAdvise' /\ Seen' /\ (pass'.hold => Stirs')
      BY <1>1, <2>1, SectionsOf DEF OnlyHere, Owned
    <3>1. AtAdvise /\ Seen /\ (pass.hold => Stirs)
      BY DEF DInv, Sections
    <3>2. pass'.hold => Stirs'
      BY <1>0, <1>1, <2>1, <3>1 DEF Stirs, AnyLive
    <3>3. AtAdvise'
      BY <1>0, <1>1, <2>1, <2>2, <3>1 DEF AtAdvise, Over, AdviseNexts
    <3>4. Seen'
      <4>1. ~RefusedFailed(j)
        BY <1>1 DEF DInv, RowsSound, RowSound, RefusedFailed
      <4> QED
        BY <1>0, <1>1, <2>1, <2>2, <3>1, <4>1 DEF Seen, RefusedFailed, Refused
    <3> QED
      BY <3>2, <3>3, <3>4
  <2> QED
    BY <2>3, <2>4, <2>5, <2>6, <2>7, <2>9, <2>10 DEF DInv
<1>2. CASE FailStep /\ UNCHANGED present
  <2>1. Stays
    BY <1>0, <1>2 DEF Stays, RowsStay
  <2> QED
    BY <1>0, <1>2, <2>1, SameFaults, ParkKeeps DEF FailStep
<1> QED
  BY <1>1, <1>2 DEF InsertSubIssue

(* CoderFailures marks what the coders failed, for the escalation. *)
LEMMA CoderFailuresKeeps ==
    ASSUME DInv, CoderFailures, UNCHANGED setting PROVE DInv'
<1>0. /\ pass.at = "failures" /\ pass.next = "none" /\ Go("review", Unreviewed)
      /\ iss' = [i \in Issues |-> IF i \in pass.todo THEN [iss[i] EXCEPT !.res = "failed"] ELSE iss[i]]
      /\ UNCHANGED <<present, coder, agent, replanner, replans, outage, wake, clicks, step, level, faults>>
      /\ present \subseteq Issues /\ pass.todo \subseteq present /\ ReviewEnabled /\ level = "open"
      /\ RowTypes
  BY TypeParts DEF CoderFailures, At, outside, DInv, RestTypes, Places
<1>1. /\ pass' \in PassRecords /\ pass'.at = "review" /\ pass'.todo = Unreviewed
      /\ pass'.next = "none" /\ pass'.hold = FALSE
  BY <1>0, GoMoves DEF Sites, Unreviewed
<1>2. \A i \in pass.todo : iss[i].outcome \in {"failed", "pending"} /\ iss[i].res = "none"
  BY <1>0 DEF DInv, Knows
<1>3. \A i \in Issues : /\ iss'[i] \in IssueRows /\ iss'[i].outcome = iss[i].outcome
                        /\ iss'[i].merged = iss[i].merged /\ iss'[i].err = iss[i].err
                        /\ iss'[i].stuck = iss[i].stuck /\ iss'[i].adv = iss[i].adv
                        /\ iss'[i].res = IF i \in pass.todo THEN "failed" ELSE iss[i].res
  <2> SUFFICES ASSUME NEW i \in Issues PROVE <1>3!(i)
    OBVIOUS
  <2>1. iss[i] \in IssueRows
    BY <1>0 DEF RowTypes
  <2>2. iss'[i] = IF i \in pass.todo THEN [iss[i] EXCEPT !.res = "failed"] ELSE iss[i]
    BY <1>0
  <2> QED
    BY <2>1, <2>2 DEF IssueRows
<1>4. TypeOK' /\ Counts'
  <2>1. RowTypes'
    BY <1>0, <1>3 DEF RowTypes
  <2>2. RestTypes' /\ FaultTypes'
    BY <1>0, TypeParts DEF DInv, RestTypes, FaultTypes
  <2> QED
    BY <1>1, <2>1, <2>2, TypePartsNext
<1>5. RowsSound'
  <2> SUFFICES ASSUME NEW i \in Issues PROVE RowSound(i)'
    BY DEF RowsSound
  <2>1. RowSound(i)
    BY DEF DInv, RowsSound
  <2>2. i \in pass.todo => i \in present /\ iss[i].outcome \in {"failed", "pending"} /\ iss[i].res = "none"
    BY <1>0, <1>2
  <2> QED
    BY <1>0, <1>3, <2>1, <2>2 DEF RowSound, Over, Children
<1>6. Quiet' /\ NoDeadWait' /\ CheckpointWhole'
  BY <1>0, <1>1 DEF DInv, Quiet, NoDeadWait, CheckpointWhole
<1>7. Kept'
  <2>1. "busy" \notin faults.kinds => Owned
    BY <1>0 DEF DInv, Kept
  <2>2. Owned => \A i \in pass.todo : iss[i].outcome = "failed"
    BY <1>0 DEF DInv, Sections, AtFailures
  <2>3. ASSUME NEW i \in Issues PROVE KeptAt(i)'
    <3>1. KeptAt(i)
      BY DEF DInv, Kept
    <3> QED
      BY <1>0, <1>2, <1>3, <2>1, <2>2, <3>1 DEF KeptAt, Over, ReviewEnabled, Overwritten
  <2> QED
    BY <1>0, <2>1, <2>3 DEF Kept, Owned
<1>8. Places'
  BY <1>0, <1>1 DEF DInv, Places, ReviewNexts, AdviseNexts, Verdicts, Advices, ReviewEnabled,
     Unreviewed
<1>9. \A i \in Unreviewed : i \in present /\ i \notin pass.todo /\ iss'[i].outcome = "done" /\ iss'[i].res = "none"
  BY <1>0, <1>2, <1>3 DEF Unreviewed
<1>10. Knows'
  <2>1. \A i \in present' : iss'[i].outcome # "running"
    BY <1>0, <1>3 DEF DInv, Knows
  <2> QED
    BY <1>1, <1>9, <2>1 DEF Knows, ReviewNexts, AdviseNexts, Verdicts, Advices
<1>11. Replanning'
  <2>1. Calm => Calm'
    <3>1. Calm => pass.todo = {}
      BY <1>0, <1>2 DEF Calm, Settled
    <3> QED
      BY <1>0, <1>3, <3>1 DEF Calm, Settled, Over, RefusedFailed
  <2> QED
    BY <1>0, <1>1, <2>1 DEF DInv, Replanning, ReviewEnabled
<1>12. Sections'
  <2> SUFFICES ASSUME Owned PROVE AtReview'
    BY <1>0, <1>1, SectionsOf DEF OnlyHere, Owned
  <2>1. AtFailures
    BY DEF DInv, Sections
  <2>2. \A i \in present' : Over(i)' /\ (iss'[i].outcome = "failed" => iss'[i].res # "none")
    BY <1>0, <1>3, <2>1 DEF AtFailures, Over
  <2>3. Unreviewed' \subseteq pass'.todo
    BY <1>0, <1>1, <1>3 DEF Unreviewed
  <2> QED
    BY <1>1, <2>2, <2>3 DEF AtReview
<1> QED
  BY <1>4, <1>5, <1>6, <1>7, <1>8, <1>10, <1>11, <1>12 DEF DInv

-----------------------------------------------------------------------------
(* Around the pass: the runs end, or are given up. *)
RunsEnd ==
    /\ UNCHANGED <<setting, present, iss, replans, level, clicks>>
    /\ RowTypes' /\ replanner' \in Runs /\ wake' \in BOOLEAN /\ outage' \in BOOLEAN
    /\ \A i \in Issues :
          /\ (coder'[i] = "none") <=> (coder[i] = "none")
          /\ (coder'[i] = "agent") <=> (coder[i] = "agent")
          /\ RunIsLive(coder'[i]) => RunIsLive(coder[i])
          /\ agent'[i].role = agent[i].role /\ agent'[i].used = agent[i].used
          /\ RunIsLive(agent'[i].run) => RunIsLive(agent[i].run)
          /\ agent[i] = NoAgent => agent'[i] = NoAgent
    /\ (replanner' = "none") <=> (replanner = "none")
    /\ replanner = "free" => replanner' = "free"
    /\ FaultTypes' /\ faults.kinds \subseteq faults'.kinds
    /\ "busy" \in faults'.kinds => "busy" \in faults.kinds

(* Runs that end change no row of an issue. *)
LEMMA RunsEndKeeps ==
    ASSUME DInv, RunsEnd, pass' \in PassRecords, step' \in {step, "failed", "open"},
           Places', Knows', Replanning', Sections', NoDeadWait',
           pass'.at # "off" => pass.at # "off" /\ step' = step
    PROVE  DInv'
<1>1. TypeOK' /\ Counts'
  <2>1. RestTypes'
    BY TypeParts DEF DInv, RestTypes, RunsEnd
  <2> QED
    BY <2>1, TypePartsNext DEF RunsEnd
<1>2. RowsSound'
  <2> SUFFICES ASSUME NEW i \in Issues PROVE RowSound(i)'
    BY DEF RowsSound
  <2>1. RowSound(i)
    BY DEF DInv, RowsSound
  <2> QED
    BY <2>1 DEF RunsEnd, RowSound, Over, Children
<1>3. Quiet'
  BY DEF DInv, Quiet, RunsEnd
<1>4. CheckpointWhole'
  BY DEF DInv, CheckpointWhole, RunsEnd, Overwritten, ReviewEnabled, Children
<1>5. Kept'
  <2>1. \A i \in Issues : KeptAt(i)'
    BY DEF DInv, Kept, KeptAt, RunsEnd, Overwritten, ReviewEnabled, Over
  <2> QED
    BY <2>1 DEF DInv, Kept, RunsEnd, Owned
<1> QED
  BY <1>1, <1>2, <1>3, <1>4, <1>5 DEF DInv

(* The replanner ends too. *)
LEMMA RunsEndReplanning ==
    ASSUME DInv, RunsEnd, pass'.at = "off", pass'.todo = {}, pass'.next = "none"
    PROVE  Replanning'
  BY DEF DInv, Replanning, RunsEnd, Calm, Settled, Over, RefusedFailed, ReviewEnabled

(* Die: the pass is gone and its runs with it, and the jobs are delivered again. *)
LEMMA DieKeeps ==
    ASSUME DInv, Die PROVE DInv'
<1>0. /\ RowTypes /\ RestTypes /\ FaultTypes
  BY TypeParts DEF DInv
<1>1. /\ pass' \in PassRecords /\ pass'.at = "off" /\ pass'.todo = {} /\ pass'.next = "none"
      /\ pass'.hold = FALSE
  BY OffMoves DEF Die
<1>2. /\ UNCHANGED <<setting, present, iss, replans, outage, step, level, clicks>>
      /\ wake' = TRUE /\ Fault("die")
  BY DEF Die
<1>3. \A r \in Runs \cup {"agent"}, q \in BOOLEAN :
         /\ Orphaned(r, q) \in Runs \cup {"agent"}
         /\ RunIsLive(Orphaned(r, q)) => RunIsLive(r)
         /\ (Orphaned(r, q) = "none") <=> (r = "none")
         /\ (Orphaned(r, q) = "agent") <=> (r = "agent")
         /\ r = "free" => Orphaned(r, q) = "free"
  BY DEF Orphaned, Runs, Ended, RunIsLive
<1> PICK Q \in SUBSET Issues :
      /\ coder' = [i \in Issues |-> Orphaned(coder[i], i \in Q)]
      /\ agent' = [i \in Issues |-> [agent[i] EXCEPT !.run = Orphaned(@, i \in Q)]]
  BY DEF Die
<1>4. ASSUME NEW i \in Issues
      PROVE  /\ coder'[i] = Orphaned(coder[i], i \in Q) /\ coder[i] \in Runs \cup {"agent"}
             /\ agent'[i] = [agent[i] EXCEPT !.run = Orphaned(agent[i].run, i \in Q)]
             /\ agent[i] \in AgentRecords /\ agent[i].run \in Runs /\ (i \in Q) \in BOOLEAN
  BY <1>0 DEF RowTypes, AgentRecords
<1>5. ASSUME NEW i \in Issues
      PROVE  /\ agent'[i] \in AgentRecords /\ agent'[i].run = Orphaned(agent[i].run, i \in Q)
             /\ agent'[i].role = agent[i].role /\ agent'[i].used = agent[i].used
             /\ RunIsLive(agent'[i].run) => RunIsLive(agent[i].run)
             /\ agent[i] = NoAgent => agent'[i] = NoAgent
  <2>1. /\ Orphaned(agent[i].run, i \in Q) \in Runs
        /\ RunIsLive(Orphaned(agent[i].run, i \in Q)) => RunIsLive(agent[i].run)
    BY <1>4, RunFacts
  <2>2. Orphaned("none", i \in Q) = "none"
    BY DEF Orphaned
  <2>3. /\ agent[i] \in AgentRecords
        /\ agent'[i] = [agent[i] EXCEPT !.run = Orphaned(agent[i].run, i \in Q)]
    BY <1>4
  <2>4. /\ agent'[i] \in AgentRecords /\ agent'[i].run = Orphaned(agent[i].run, i \in Q)
        /\ agent'[i].role = agent[i].role /\ agent'[i].used = agent[i].used
    BY <2>1, <2>3 DEF AgentRecords
  <2>5. agent[i] = NoAgent => agent'[i] = NoAgent
    BY <2>2, <2>3 DEF NoAgent
  <2> QED
    BY <2>1, <2>4, <2>5
<1>6. RowTypes'
  <2>1. coder' \in [Issues -> Runs \cup {"agent"}]
    BY <1>3, <1>4
  <2>2. agent' \in [Issues -> AgentRecords]
    <3>1. agent' = [i \in Issues |-> [agent[i] EXCEPT !.run = Orphaned(@, i \in Q)]]
      OBVIOUS
    <3> QED
      BY <1>5, <3>1
  <2> QED
    BY <1>0, <1>2, <2>1, <2>2 DEF RowTypes
<1> PICK q \in BOOLEAN : replanner' = Orphaned(replanner, q)
  BY DEF Die
<1>7. replanner' \in Runs /\ replanner \in Runs
  BY <1>0, RunFacts DEF RestTypes
<1>8. RunsEnd
  <2>1. /\ FaultTypes' /\ faults.kinds \subseteq faults'.kinds
        /\ "busy" \in faults'.kinds => "busy" \in faults.kinds
    BY <1>0, <1>2, FaultMoves DEF RestTypes
  <2>2. (replanner' = "none") <=> (replanner = "none")
    BY <1>3, <1>7
  <2>3. replanner = "free" => replanner' = "free"
    BY <1>3, <1>7
  <2>4. outage' \in BOOLEAN
    BY <1>0, <1>2 DEF RestTypes
  <2>5. ASSUME NEW i \in Issues
        PROVE  /\ (coder'[i] = "none") <=> (coder[i] = "none")
               /\ (coder'[i] = "agent") <=> (coder[i] = "agent")
               /\ RunIsLive(coder'[i]) => RunIsLive(coder[i])
    <3>1. coder'[i] = Orphaned(coder[i], i \in Q) /\ coder[i] \in Runs \cup {"agent"}
      BY <1>4
    <3> QED
      BY <3>1 DEF Orphaned, Runs, Ended, RunIsLive
  <2> QED
    BY <1>2, <1>5, <1>6, <1>7, <2>1, <2>2, <2>3, <2>4, <2>5 DEF RunsEnd
<1>9. Places' /\ Knows' /\ Sections' /\ Replanning' /\ NoDeadWait'
  BY <1>1, <1>2, <1>8, SectionsOf, RunsEndReplanning DEF Places, Knows, NoDeadWait, ReviewNexts,
     AdviseNexts, Verdicts, Advices
<1> QED
  BY <1>1, <1>2, <1>8, <1>9, RunsEndKeeps

(* Sweep: a step that waits for nothing is continued. *)
LEMMA SweepKeeps ==
    ASSUME DInv, Sweep PROVE DInv'
<1>0. /\ RowTypes /\ RestTypes /\ FaultTypes /\ pass \in PassRecords
  BY TypeParts DEF DInv
<1>1. /\ UNCHANGED <<setting, present, iss, coder, agent, replanner, replans, outage, step,
                     level, pass, clicks, faults>>
      /\ wake' = TRUE /\ pass.at = "off"
  BY DEF Sweep, rows
<1>2. RunsEnd
  BY <1>0, <1>1 DEF RunsEnd, RowTypes, RestTypes, FaultTypes
<1>3. pass.todo = {} /\ pass.next = "none"
  BY <1>1 DEF DInv, Places
<1>4. Places' /\ Knows' /\ Sections' /\ Replanning' /\ NoDeadWait'
  BY <1>1, <1>2, <1>3, SectionsOf, RunsEndReplanning DEF Places, Knows, NoDeadWait, Stirs,
     ReviewNexts, AdviseNexts, Verdicts, Advices
<1> QED
  BY <1>0, <1>1, <1>2, <1>4, RunsEndKeeps

(* OpenPass: the job finds an outage and frees the runs it stops, or opens the pass. *)
LEMMA OpenPassKeeps ==
    ASSUME DInv, OpenPass, UNCHANGED setting PROVE DInv'
<1>0. /\ RowTypes /\ RestTypes /\ FaultTypes
  BY TypeParts DEF DInv
<1>1. /\ UNCHANGED <<setting, present, iss, replans, outage, level, clicks, faults>>
      /\ wake' = FALSE /\ pass.at = "off" /\ pass.todo = {} /\ pass.next = "none"
      /\ step \in {"pending", "open"}
  BY DEF OpenPass, DInv, Places
<1>a. wake' \in BOOLEAN /\ outage' \in BOOLEAN
  BY <1>0, <1>1 DEF RestTypes
<1>b. /\ FaultTypes' /\ faults.kinds \subseteq faults'.kinds
      /\ "busy" \in faults'.kinds => "busy" \in faults.kinds
  BY <1>1, SameFaults
<1>2. CASE /\ coder' = [i \in Issues |-> IF RunIsLive(coder[i]) THEN "free" ELSE coder[i]]
           /\ agent' = [i \in Issues |->
                IF RunIsLive(agent[i].run) THEN [agent[i] EXCEPT !.run = "free"] ELSE agent[i]]
           /\ replanner' = IF RunIsLive(replanner) THEN "free" ELSE replanner
           /\ FailStep
  <2>1. /\ pass' \in PassRecords /\ pass'.at = "off" /\ pass'.todo = {} /\ pass'.next = "none"
        /\ pass'.hold = FALSE /\ step' = "failed"
    BY <1>2, OffMoves DEF FailStep, Park
  <2>2. ASSUME NEW i \in Issues
        PROVE  /\ coder'[i] \in Runs \cup {"agent"}
               /\ (coder'[i] = "none") <=> (coder[i] = "none")
               /\ (coder'[i] = "agent") <=> (coder[i] = "agent")
               /\ RunIsLive(coder'[i]) => RunIsLive(coder[i])
    BY <1>0, <1>2 DEF RowTypes, Runs, RunIsLive, Ended
  <2>3. ASSUME NEW i \in Issues
        PROVE  /\ agent'[i] \in AgentRecords
               /\ agent'[i].role = agent[i].role /\ agent'[i].used = agent[i].used
               /\ RunIsLive(agent'[i].run) => RunIsLive(agent[i].run)
               /\ agent[i] = NoAgent => agent'[i] = NoAgent
    <3>1. agent[i] \in AgentRecords
      BY <1>0 DEF RowTypes
    <3>2. agent'[i] = IF RunIsLive(agent[i].run) THEN [agent[i] EXCEPT !.run = "free"] ELSE agent[i]
      BY <1>2
    <3>3. CASE RunIsLive(agent[i].run)
      BY <3>1, <3>2, <3>3, RunFacts DEF AgentRecords, NoAgent
    <3>4. CASE ~RunIsLive(agent[i].run)
      BY <3>1, <3>2, <3>4
    <3> QED
      BY <3>3, <3>4
  <2>4. RowTypes'
    <3>1. DOMAIN coder' = Issues /\ DOMAIN agent' = Issues
      BY <1>2
    <3>2. coder' \in [Issues -> Runs \cup {"agent"}]
      BY <1>2, <2>2
    <3>3. agent' \in [Issues -> AgentRecords]
      BY <1>2, <2>3
    <3> QED
      BY <1>0, <1>1, <3>2, <3>3 DEF RowTypes
  <2>5. /\ replanner' \in Runs
        /\ (replanner' = "none") <=> (replanner = "none")
        /\ replanner = "free" => replanner' = "free"
    BY <1>0, <1>2, RunFacts DEF RestTypes
  <2>6. RunsEnd
    BY <1>1, <1>a, <1>b, <2>2, <2>3, <2>4, <2>5 DEF RunsEnd
  <2>7. Places' /\ Knows' /\ Sections' /\ Replanning' /\ NoDeadWait'
    BY <2>1, <2>6, SectionsOf, RunsEndReplanning DEF Places, Knows, NoDeadWait, ReviewNexts,
       AdviseNexts, Verdicts, Advices
  <2> QED
    BY <2>1, <2>6, <2>7, RunsEndKeeps
<1>3. CASE step' = "open" /\ Go("loop", {}) /\ UNCHANGED <<coder, agent, replanner>>
  <2>1. /\ pass' \in PassRecords /\ pass'.at = "loop" /\ pass'.todo = {} /\ pass'.next = "none"
        /\ pass'.hold = FALSE
    BY <1>3, GoMoves DEF Sites
  <2>2. RowTypes' /\ replanner' \in Runs
    BY <1>0, <1>1, <1>3 DEF RowTypes, RestTypes
  <2>3. RunsEnd
    BY <1>1, <1>3, <1>a, <1>b, <2>2 DEF RunsEnd
  <2>4. /\ TypeOK' /\ Counts'
    <3>1. RestTypes'
      BY <1>0, <1>1, <1>3, <1>a DEF RestTypes
    <3> QED
      BY <1>b, <2>1, <2>2, <3>1, TypePartsNext
  <2>5. Places' /\ Knows' /\ Sections' /\ NoDeadWait' /\ Quiet'
    BY <1>1, <1>3, <2>1, SectionsOf DEF Places, Knows, NoDeadWait, Quiet, ReviewNexts,
       AdviseNexts, Verdicts, Advices
  <2>6. Replanning'
    BY <1>1, <1>3, <2>1 DEF DInv, Replanning, Calm, Settled, Over, RefusedFailed, ReviewEnabled
  <2>7. RowsSound'
    BY <1>1, <1>3 DEF DInv, RowsSound, RowSound, Over, Children
  <2>8. CheckpointWhole'
    BY <1>1 DEF DInv, CheckpointWhole, Overwritten, ReviewEnabled, Children
  <2>9. Kept'
    <3>1. \A i \in Issues : KeptAt(i)'
      BY <1>1, <1>3 DEF DInv, Kept, KeptAt, Overwritten, ReviewEnabled, Over
    <3> QED
      BY <1>3, <3>1 DEF Kept, Owned
  <2> QED
    BY <2>4, <2>5, <2>6, <2>7, <2>8, <2>9 DEF DInv
<1> QED
  BY <1>2, <1>3 DEF OpenPass

(* EndRun: one run ends and queues a job; the pass, if any, is where it was. *)
LEMMA EndRunKeeps ==
    ASSUME DInv, NEW e \in Endings, EndRun(e) PROVE DInv'
<1>0. /\ RowTypes /\ RestTypes /\ FaultTypes /\ pass \in PassRecords
  BY TypeParts DEF DInv
<1>1. /\ UNCHANGED <<setting, present, iss, replans, step, level, pass, clicks>> /\ wake' = TRUE
      /\ present \subseteq Issues
  BY <1>0 DEF EndRun, RestTypes
<1>a. /\ FaultTypes' /\ faults.kinds \subseteq faults'.kinds
      /\ "busy" \in faults'.kinds => "busy" \in faults.kinds
  <2>1. CASE UNCHANGED faults
    BY <1>1, <2>1, SameFaults
  <2>2. CASE \E k \in {"killed", "free", "cut", "refused", "outage"} : Fault(k)
    <3>1. PICK k \in {"killed", "free", "cut", "refused", "outage"} : Fault(k)
      BY <2>2
    <3> QED
      BY <1>0, <1>1, <3>1, FaultMoves DEF RestTypes
  <2> QED
    BY <2>1, <2>2 DEF EndRun
<1>b. outage' \in BOOLEAN
  BY <1>0 DEF EndRun, RestTypes
<1>c. ASSUME NEW r, r \in {"live", "live2"}
      PROVE  /\ EndsAs(r, e) \in Runs /\ ~RunIsLive(EndsAs(r, e)) /\ EndsAs(r, e) # "none"
             /\ EndsAs(r, e) # "agent" /\ RunIsLive(r) /\ r # "none" /\ r # "free" /\ r # "agent"
  <2>1. EndsAs(r, e) \in Ended
    BY <1>c, RunFacts
  <2> QED
    BY <1>c, <2>1, RunFacts DEF RunIsLive, Ended
<1>2. RunsEnd
  <2>1. CASE \E i \in present : /\ coder[i] \in {"live", "live2"}
                                /\ coder' = [coder EXCEPT ![i] = EndsAs(@, e)]
                                /\ UNCHANGED <<agent, replanner>>
    <3>1. PICK i \in present : /\ coder[i] \in {"live", "live2"}
                               /\ coder' = [coder EXCEPT ![i] = EndsAs(@, e)]
                               /\ UNCHANGED <<agent, replanner>>
      BY <2>1
    <3>2. coder'[i] = EndsAs(coder[i], e) /\ \A j \in Issues \ {i} : coder'[j] = coder[j]
      BY <1>0, <1>1, <3>1 DEF RowTypes
    <3>3. RowTypes' /\ replanner' \in Runs
      BY <1>0, <1>1, <1>c, <3>1 DEF RowTypes, RestTypes
    <3>4. \A j \in Issues : /\ (coder'[j] = "none") <=> (coder[j] = "none")
                            /\ (coder'[j] = "agent") <=> (coder[j] = "agent")
                            /\ RunIsLive(coder'[j]) => RunIsLive(coder[j])
      BY <1>c, <3>1, <3>2
    <3> QED
      BY <1>1, <1>a, <1>b, <3>1, <3>3, <3>4 DEF RunsEnd
  <2>2. CASE \E i \in present : /\ agent[i].run \in {"live", "live2"}
                                /\ agent' = [agent EXCEPT ![i].run = EndsAs(@, e)]
                                /\ UNCHANGED <<coder, replanner>>
    <3>1. PICK i \in present : /\ agent[i].run \in {"live", "live2"}
                               /\ agent' = [agent EXCEPT ![i].run = EndsAs(@, e)]
                               /\ UNCHANGED <<coder, replanner>>
      BY <2>2
    <3>2. /\ agent'[i] = [agent[i] EXCEPT !.run = EndsAs(agent[i].run, e)]
          /\ \A j \in Issues \ {i} : agent'[j] = agent[j]
      BY <1>0, <1>1, <3>1 DEF RowTypes
    <3>3. /\ agent'[i] \in AgentRecords /\ agent'[i].role = agent[i].role
          /\ agent'[i].used = agent[i].used /\ RunIsLive(agent[i].run) /\ agent[i] # NoAgent
      <4>1. agent[i] \in AgentRecords
        BY <1>0, <1>1 DEF RowTypes
      <4> QED
        BY <1>c, <3>1, <3>2, <4>1 DEF AgentRecords, NoAgent
    <3>4. RowTypes' /\ replanner' \in Runs
      BY <1>0, <1>1, <3>1, <3>3 DEF RowTypes, RestTypes
    <3>5. \A j \in Issues : /\ agent'[j].role = agent[j].role /\ agent'[j].used = agent[j].used
                            /\ RunIsLive(agent'[j].run) => RunIsLive(agent[j].run)
                            /\ agent[j] = NoAgent => agent'[j] = NoAgent
      BY <3>2, <3>3
    <3> QED
      BY <1>1, <1>a, <1>b, <3>1, <3>4, <3>5 DEF RunsEnd
  <2>3. CASE /\ replanner \in {"live", "live2"}
             /\ replanner' = EndsAs(replanner, e)
             /\ UNCHANGED <<coder, agent>>
    <3>1. /\ replanner' \in Runs
          /\ (replanner' = "none") <=> (replanner = "none")
          /\ replanner = "free" => replanner' = "free"
      BY <1>c, <2>3
    <3>2. RowTypes'
      BY <1>0, <1>1, <2>3 DEF RowTypes
    <3> QED
      BY <1>1, <1>a, <1>b, <2>3, <3>1, <3>2 DEF RunsEnd
  <2> QED
    BY <2>1, <2>2, <2>3 DEF EndRun
<1>3. Hand' = Hand
  BY <1>1, HandSame
<1>4. Places'
  BY <1>1 DEF DInv, Places, ReviewEnabled
<1>d. pass.todo # {} => Hand \in Issues
  BY <1>0, HandIn DEF PassRecords
<1>e. pass.next \in ReviewNexts \cup AdviseNexts => Hand \in Issues
  BY <1>d DEF DInv, Places
<1>f. pass.todo \subseteq Issues
  BY <1>0 DEF PassRecords
<1>5. Knows'
  <2>1. pass'.next \in Advices => agent'[Hand'].role # "advisor" \/ agent'[Hand'].used
    BY <1>1, <1>2, <1>3, <1>e DEF DInv, Knows, RunsEnd, AdviseNexts
  <2>2. pass'.next \in ReviewNexts \cup AdviseNexts => ~RunIsLive(agent'[Hand'].run)
    BY <1>1, <1>2, <1>3, <1>e DEF DInv, Knows, RunsEnd
  <2>3. pass'.at \in {"escalate", "advise"} =>
          \A i \in pass'.todo : agent'[i].role = "advisor" /\ ~agent'[i].used =>
                                   pass'.seen[i].adv < MaxAdvisor
    BY <1>1, <1>2, <1>f DEF DInv, Knows, RunsEnd
  <2> QED
    BY <1>1, <1>3, <2>1, <2>2, <2>3 DEF DInv, Knows, Children
<1>6. Replanning'
  BY <1>1, <1>2 DEF DInv, Replanning, RunsEnd, Calm, Settled, Over, RefusedFailed, ReviewEnabled,
     Owned
<1>7. Sections'
  <2>1. Stirs'
    BY <1>1 DEF Stirs
  <2>2. Owned' = Owned /\ ReviewEnabled' = ReviewEnabled
    BY <1>1 DEF Owned, ReviewEnabled
  <2>3. AtMerge => AtMerge'
    BY <1>1 DEF AtMerge, Accepted, ReviewEnabled
  <2>4. AtDispatch /\ AtIngest /\ AtFailures => AtDispatch' /\ AtIngest' /\ AtFailures'
    BY <1>1, <1>3 DEF AtDispatch, AtIngest, AtFailures, Over
  <2>5. AtReview => AtReview'
    BY <1>1, <1>3, <2>1 DEF AtReview, Over
  <2>6. AtEscalate /\ AtAdvise => AtEscalate' /\ AtAdvise'
    BY <1>1, <1>3 DEF AtEscalate, AtAdvise, Settled, Over
  <2>7. Seen => Seen'
    BY <1>1, <1>3 DEF Seen, RefusedFailed, Refused
  <2> QED
    BY <2>1, <2>2, <2>3, <2>4, <2>5, <2>6, <2>7 DEF DInv, Sections
<1>8. NoDeadWait'
  BY <1>1 DEF NoDeadWait
<1> QED
  BY <1>0, <1>1, <1>2, <1>4, <1>5, <1>6, <1>7, <1>8, RunsEndKeeps

(* Retry: the failed issues start over, the runs of the attempt are superseded, and a
   pass that is still in the step no longer owns it. *)
LEMMA RetryKeeps ==
    ASSUME DInv, Retry PROVE DInv'
<1> DEFINE stuck == IF level = "open" THEN {i \in present : IsStuckFailed(i)} ELSE {}
           fixer(i) == IF coder[i] = "agent" THEN "level" ELSE agent[i].role
<1>0. /\ RowTypes /\ RestTypes /\ FaultTypes /\ pass \in PassRecords
  BY TypeParts DEF DInv
<1>1. /\ UNCHANGED <<setting, present, replans, level, pass, wake>>
      /\ step' = "pending" /\ outage' = FALSE /\ clicks < setting.clicks /\ clicks' = clicks + 1
      /\ replanner' = SupersededAs("replanner", replanner)
  BY DEF Retry
<1>2. \/ step = "failed" /\ UNCHANGED faults
      \/ step = "open" /\ Fault("busy")
  BY DEF Retry
<1>a. /\ FaultTypes' /\ faults.kinds \subseteq faults'.kinds
      /\ "busy" \notin faults'.kinds => step = "failed"
  <2>1. CASE step = "failed" /\ UNCHANGED faults
    BY <1>1, <2>1, SameFaults
  <2>2. CASE step = "open" /\ Fault("busy")
    BY <1>0, <1>1, <2>2, FaultMoves DEF RestTypes
  <2> QED
    BY <1>2, <2>1, <2>2
<1>3. /\ iss' = [i \in Issues |-> IF i \in stuck THEN [Fresh EXCEPT !.wt = iss[i].wt] ELSE iss[i]]
      /\ coder' = [i \in Issues |-> IF i \in stuck THEN "none" ELSE SupersededAs("level", coder[i])]
      /\ agent' = [i \in Issues |->
                     IF i \in stuck THEN NoAgent
                     ELSE [agent[i] EXCEPT !.run = SupersededAs(fixer(i), @)]]
  BY DEF Retry
<1>b. /\ \A i \in stuck : i \in present /\ IsStuckFailed(i) /\ level = "open"
      /\ present \subseteq Issues /\ pass.todo \subseteq Issues /\ pass.todo \subseteq present
  BY <1>0 DEF RestTypes, PassRecords, DInv, Places
<1> HIDE DEF stuck, fixer
<1>4. ASSUME NEW i \in Issues, i \in stuck
      PROVE  /\ iss'[i] \in IssueRows /\ iss'[i].outcome = "pending" /\ iss'[i].res = "none"
             /\ iss'[i].err = "none" /\ ~iss'[i].merged /\ iss'[i].stuck = 0
             /\ coder'[i] = "none" /\ agent'[i] = NoAgent
  <2>1. iss[i] \in IssueRows
    BY <1>0 DEF RowTypes
  <2>2. iss[i].wt \in BOOLEAN
    BY <2>1 DEF IssueRows
  <2>3. iss'[i] = [Fresh EXCEPT !.wt = iss[i].wt] /\ coder'[i] = "none" /\ agent'[i] = NoAgent
    BY <1>3, <1>4
  <2>4. Fresh \in IssueRows
    BY FreshRow
  <2>5. iss'[i] \in IssueRows
    BY <2>2, <2>3, <2>4 DEF IssueRows
  <2> QED
    BY <2>2, <2>3, <2>5 DEF Fresh
<1>5. ASSUME NEW i \in Issues, i \notin stuck
      PROVE  /\ iss'[i] = iss[i] /\ iss[i] \in IssueRows
             /\ coder'[i] \in Runs \cup {"agent"} /\ ~RunIsLive(coder'[i])
             /\ (coder'[i] = "none") <=> (coder[i] = "none")
             /\ (coder'[i] = "agent") <=> (coder[i] = "agent")
             /\ agent'[i] \in AgentRecords /\ ~RunIsLive(agent'[i].run)
             /\ agent'[i].role = agent[i].role /\ agent'[i].used = agent[i].used
             /\ agent[i] = NoAgent => agent'[i] = NoAgent
  <2>1. /\ iss'[i] = iss[i] /\ iss[i] \in IssueRows /\ coder[i] \in Runs \cup {"agent"}
        /\ coder'[i] = SupersededAs("level", coder[i])
        /\ agent[i] \in AgentRecords
        /\ agent'[i] = [agent[i] EXCEPT !.run = SupersededAs(fixer(i), agent[i].run)]
    BY <1>0, <1>3, <1>5 DEF RowTypes
  <2>2. /\ coder'[i] \in Runs \cup {"agent"} /\ ~RunIsLive(coder'[i])
        /\ (coder'[i] = "none") <=> (coder[i] = "none")
        /\ (coder'[i] = "agent") <=> (coder[i] = "agent")
    BY <2>1 DEF SupersededAs, Runs, Ended, RunIsLive
  <2>3. agent[i].run \in Runs
    BY <2>1 DEF AgentRecords
  <2>4. SupersededAs(fixer(i), agent[i].run) \in Runs /\ ~RunIsLive(SupersededAs(fixer(i), agent[i].run))
    BY <2>3, SupersededDies
  <2>5. SupersededAs(fixer(i), "none") = "none"
    BY DEF SupersededAs, RunIsLive, Ended
  <2>6. /\ agent'[i] \in AgentRecords /\ ~RunIsLive(agent'[i].run)
        /\ agent'[i].role = agent[i].role /\ agent'[i].used = agent[i].used
    BY <2>1, <2>4 DEF AgentRecords
  <2>7. agent[i] = NoAgent => agent'[i] = NoAgent
    BY <2>1, <2>5 DEF NoAgent
  <2> QED
    BY <2>1, <2>2, <2>6, <2>7
<1>6. NoAgent \in AgentRecords /\ ~RunIsLive(NoAgent.run) /\ NoAgent.role = "none"
  BY RunFacts DEF NoAgent, AgentRecords
<1>7. RowTypes'
  <2>1. \A i \in Issues : /\ iss'[i] \in IssueRows /\ coder'[i] \in Runs \cup {"agent"}
                          /\ agent'[i] \in AgentRecords
    <3> SUFFICES ASSUME NEW i \in Issues
                 PROVE  /\ iss'[i] \in IssueRows /\ coder'[i] \in Runs \cup {"agent"}
                        /\ agent'[i] \in AgentRecords
      OBVIOUS
    <3>1. CASE i \in stuck
      BY <1>4, <1>6, <3>1, RunFacts
    <3>2. CASE i \notin stuck
      BY <1>5, <3>2
    <3> QED
      BY <3>1, <3>2
  <2>2. iss' \in [Issues -> IssueRows]
    BY <1>3, <2>1
  <2>3. coder' \in [Issues -> Runs \cup {"agent"}]
    BY <1>3, <2>1
  <2>4. agent' \in [Issues -> AgentRecords]
    BY <1>3, <2>1
  <2> QED
    BY <2>2, <2>3, <2>4 DEF RowTypes
<1>8. /\ replanner' \in {"none", "free"} /\ replanner' \in Runs
      /\ (replanner' = "none") <=> (replanner = "none")
  BY <1>0, <1>1 DEF RestTypes, SupersededAs, Runs, Ended, RunIsLive
<1>9. TypeOK' /\ Counts'
  <2>1. clicks' \in Nat /\ clicks' <= setting'.clicks
    BY <1>0, <1>1, SettingTypes DEF RestTypes
  <2>2. RestTypes'
    BY <1>0, <1>1, <1>8, <2>1 DEF RestTypes
  <2> QED
    BY <1>0, <1>1, <1>7, <1>a, <2>2, TypePartsNext
<1>10. RowsSound'
  <2> SUFFICES ASSUME NEW i \in Issues PROVE RowSound(i)'
    BY DEF RowsSound
  <2>1. RowSound(i)
    BY DEF DInv, RowsSound
  <2>2. CASE i \in stuck
    BY <1>1, <1>4, <1>6, <1>b, <2>2, LevelAssumption DEF RowSound
  <2>3. CASE i \notin stuck
    BY <1>1, <1>5, <2>1, <2>3 DEF RowSound, Over, Children
  <2> QED
    BY <2>2, <2>3
<1>11. Quiet'
  <2>1. \A i \in Issues : ~RunIsLive(coder'[i]) /\ ~RunIsLive(agent'[i].run)
    BY <1>4, <1>5, <1>6, RunFacts
  <2> QED
    BY <1>8, <2>1 DEF Quiet
<1>12. Kept'
  <2>1. ASSUME NEW i \in Issues PROVE KeptAt(i)'
    <3>1. KeptAt(i)
      BY DEF DInv, Kept
    <3>2. CASE i \in stuck
      BY <1>4, <3>2 DEF KeptAt
    <3>3. CASE i \notin stuck
      BY <1>1, <1>5, <1>a, <3>1, <3>3 DEF KeptAt, Over, ReviewEnabled, Overwritten
    <3> QED
      BY <3>2, <3>3
  <2>2. "busy" \notin faults'.kinds => pass'.at = "off"
    BY <1>1, <1>a DEF DInv, Places
  <2> QED
    BY <2>1, <2>2 DEF Kept
<1>13. NoDeadWait'
  BY <1>1 DEF NoDeadWait
<1>14. CheckpointWhole'
  <2> SUFFICES ASSUME level = "checkpointed", ~Overwritten PROVE CheckpointWhole'
    BY <1>1, <1>a DEF CheckpointWhole, Overwritten, ReviewEnabled
  <2>1. \A i \in Issues : iss'[i] = iss[i]
    BY <1>5, <1>b
  <2> QED
    BY <1>1, <1>b, <2>1 DEF DInv, CheckpointWhole, Children
<1>15. Places'
  BY <1>1 DEF DInv, Places, ReviewEnabled
<1>16. Replanning'
  BY <1>1, <1>8 DEF DInv, Replanning, ReviewEnabled, Owned
<1>17. Sections'
  <2> SUFFICES ASSUME ~ReviewEnabled PROVE AtMerge'
    BY <1>1 DEF Sections, Owned, ReviewEnabled
  <2>1. SUFFICES ASSUME pass.at = "merge" PROVE AtMerge'
    BY <1>1 DEF AtMerge
  <2>2. AtMerge
    BY DEF DInv, Sections
  <2>3. \A i \in present : iss'[i] = iss[i]
    <3> SUFFICES ASSUME NEW i \in present PROVE i \notin stuck
      BY <1>5, <1>b
    <3>1. iss[i].outcome = "done" /\ iss[i].res = "none"
      BY <2>1, <2>2, <1>b DEF AtMerge, DInv, Kept, KeptAt
    <3> QED
      BY <3>1, <1>b DEF IsStuckFailed
  <2> QED
    BY <1>1, <2>1, <2>2, <2>3 DEF AtMerge, Accepted, ReviewEnabled
<1>18. Knows'
  <2>0. Hand' = Hand /\ (pass.todo # {} => Hand \in pass.todo)
    BY <1>1, HandSame, HandIn
  <2>a. pass.next \in ReviewNexts \cup AdviseNexts => Hand \in pass.todo /\ Hand \in Issues
    BY <2>0, <1>b DEF DInv, Places
  <2>1. pass.at = "review" => \A i \in pass.todo : i \notin stuck /\ iss'[i] = iss[i]
    <3> SUFFICES ASSUME pass.at = "review", NEW i \in pass.todo PROVE i \notin stuck
      BY <1>5, <1>b
    <3>1. iss[i].outcome = "done" /\ iss[i].res = "none"
      BY DEF DInv, Knows
    <3> QED
      BY <3>1, <1>b DEF IsStuckFailed
  <2>2. pass'.at = "dispatch" =>
          \A i \in pass'.todo : iss'[i].outcome = "pending" \/ (i = Hand' /\ pass'.next = "enqueue")
    BY <1>1, <1>4, <1>5, <1>b, <2>0 DEF DInv, Knows
  <2>3. pass'.at = "review" => \A i \in pass'.todo : iss'[i].outcome = "done" /\ iss'[i].res = "none"
    BY <1>1, <2>1 DEF DInv, Knows
  <2>4. pass'.at \in {"failures", "escalate", "advise"} =>
          \A i \in pass'.todo :
              /\ iss'[i].res # "accepted"
              /\ iss'[i].outcome # "running" \/ (i = Hand' /\ pass'.next = "enqueue")
    BY <1>1, <1>4, <1>5, <1>b, <2>0 DEF DInv, Knows
  <2>5. pass'.at \in {"failures", "review"} => \A i \in present' : iss'[i].outcome # "running"
    BY <1>1, <1>4, <1>5, <1>b DEF DInv, Knows
  <2>6. pass'.at = "failures" =>
          \A i \in pass'.todo : iss'[i].outcome \in {"failed", "pending"} /\ iss'[i].res = "none"
    BY <1>1, <1>4, <1>5, <1>b DEF DInv, Knows
  <2>7. pass'.next = "charge" => iss'[Hand'].revs < MaxInfra
    <3> SUFFICES ASSUME pass.next = "charge" PROVE iss'[Hand].revs < MaxInfra
      BY <1>1, <2>0
    <3>1. pass.at = "review" /\ Hand \in pass.todo /\ iss[Hand].revs < MaxInfra
      BY <2>a DEF DInv, Places, Knows, ReviewNexts, Verdicts
    <3> QED
      BY <2>1, <3>1
  <2>8. pass'.next \in Advices => agent'[Hand'].role # "advisor" \/ agent'[Hand'].used
    <3> SUFFICES ASSUME pass.next \in Advices PROVE agent'[Hand].role # "advisor" \/ agent'[Hand].used
      BY <1>1, <2>0
    <3>1. Hand \in Issues /\ (agent[Hand].role # "advisor" \/ agent[Hand].used)
      BY <2>a DEF DInv, Knows, AdviseNexts
    <3> QED
      BY <1>4, <1>5, <1>6, <3>1
  <2>9. pass'.next \in ReviewNexts \cup AdviseNexts => ~RunIsLive(agent'[Hand'].run)
    BY <1>1, <1>4, <1>5, <1>6, <2>0, <2>a
  <2>10. pass'.at \in {"escalate", "advise"} =>
          \A i \in pass'.todo : agent'[i].role = "advisor" /\ ~agent'[i].used =>
                                   pass'.seen[i].adv < MaxAdvisor
    BY <1>1, <1>4, <1>5, <1>6, <1>b DEF DInv, Knows
  <2>11. pass'.next = "spawnRetry" => iss'[Hand'].res = "none"
    <3> SUFFICES ASSUME pass.next = "spawnRetry" PROVE iss'[Hand].res = "none"
      BY <1>1, <2>0
    <3>1. Hand \in Issues /\ iss[Hand].res = "none"
      BY <2>a DEF DInv, Knows, AdviseNexts
    <3> QED
      BY <1>4, <1>5, <3>1
  <2>12. /\ pass'.next \in Advices \cup {"spawnAdvisor", "spawnAdvisor2"} =>
              pass'.seen[Hand'].adv < MaxAdvisor
         /\ pass'.next \in AdviseNexts => pass'.seen[Hand'].err # "refused"
         /\ pass'.next = "doSplit" => Children(Hand)' \subseteq present' \cup pass'.kids
    BY <1>1, <2>0 DEF DInv, Knows, Children
  <2> QED
    BY <2>2, <2>3, <2>4, <2>5, <2>6, <2>7, <2>8, <2>9, <2>10, <2>11, <2>12 DEF Knows
<1> QED
  BY <1>9, <1>10, <1>11, <1>12, <1>13, <1>14, <1>15, <1>16, <1>17, <1>18 DEF DInv

-----------------------------------------------------------------------------
(* The strengthened invariant holds of a level that was planned and not begun. *)
LEMMA InitDInv == Init => DInv
<1> SUFFICES ASSUME Init PROVE DInv
  OBVIOUS
<1>1. /\ setting \in Settings /\ present = setting.planned
      /\ replanner = "none" /\ replans = 0 /\ outage = FALSE /\ wake = FALSE
      /\ step = "pending" /\ level = "open" /\ pass = Off /\ clicks = 0
      /\ faults = [kinds |-> {}, count |-> 0]
      /\ \A i \in Issues : iss[i] = Fresh /\ coder[i] = "none" /\ agent[i] = NoAgent
  BY DEF Init
<1>2. /\ pass \in PassRecords /\ pass.at = "off" /\ pass.todo = {} /\ pass.next = "none"
      /\ pass.hold = FALSE
  <2>1. Off \in PassRecords
    BY FreshRow DEF Off, PassRecords, Sites, Nexts
  <2> QED
    BY <1>1, <2>1 DEF Off
<1>3. NoAgent \in AgentRecords /\ ~RunIsLive(NoAgent.run) /\ NoAgent.role = "none"
  BY RunFacts DEF NoAgent, AgentRecords
<1>4. /\ Fresh \in IssueRows /\ Fresh.outcome = "pending" /\ Fresh.res = "none"
      /\ Fresh.err = "none" /\ ~Fresh.merged /\ Fresh.stuck = 0
  BY FreshRow DEF Fresh
<1>5. TypeOK /\ Counts
  <2>1. RowTypes
    BY <1>3, <1>4, RunFacts DEF Init, RowTypes
  <2>2. RestTypes
    <3>1. 0 \in 0..MaxReplanner
      BY LevelAssumption
    <3>2. present \subseteq Issues /\ clicks <= setting.clicks /\ clicks \in Nat
      BY <1>1, SettingTypes
    <3>3. replanner \in Runs
      BY <1>1, RunFacts
    <3> QED
      BY <1>1, <3>1, <3>2, <3>3 DEF RestTypes
  <2>3. FaultTypes
    BY <1>1, SettingTypes DEF FaultTypes
  <2> QED
    BY <1>2, <2>1, <2>2, <2>3, TypeParts
<1>6. Quiet
  BY <1>1, <1>3, RunFacts DEF Quiet
<1>7. RowsSound
  <2> SUFFICES ASSUME NEW i \in Issues PROVE RowSound(i)
    BY DEF RowsSound
  <2>1. /\ iss[i].outcome = "pending" /\ iss[i].res = "none" /\ iss[i].err = "none"
        /\ ~iss[i].merged /\ iss[i].stuck = 0 /\ coder[i] = "none"
        /\ ~RunIsLive(agent[i].run) /\ agent[i].role = "none"
    BY <1>1, <1>3, <1>4
  <2> QED
    BY <2>1, LevelAssumption DEF RowSound
<1>8. Kept
  BY <1>1, <1>2, <1>4 DEF Kept, KeptAt
<1>9. Places /\ Knows
  BY <1>1, <1>2 DEF Places, Knows, ReviewNexts, AdviseNexts, Verdicts, Advices
<1>10. Replanning
  BY <1>1, <1>2 DEF Replanning
<1>11. Sections
  BY <1>1, <1>2 DEF Sections, Owned, AtMerge
<1>12. NoDeadWait /\ CheckpointWhole
  BY <1>1 DEF NoDeadWait, CheckpointWhole
<1> QED
  BY <1>5, <1>6, <1>7, <1>8, <1>9, <1>10, <1>11, <1>12 DEF DInv

(* Every step keeps it. *)
LEMMA NextDInv == DInv /\ [Next]_vars => DInv'
<1> SUFFICES ASSUME DInv, [Next]_vars PROVE DInv'
  OBVIOUS
<1>1. CASE PassStep
  <2>0. UNCHANGED setting
    BY <1>1 DEF PassStep
  <2>1. CASE Enqueue
    <3>1. CASE pass.todo = {}
      BY <2>0, <2>1, <3>1, EnqueueReplannerKeeps
    <3>2. CASE pass.todo # {}
      <4>1. Hand \in Issues /\ InHand(Hand)
        BY <3>2, HandIn, TypeParts DEF DInv, PassRecords, InHand
      <4>2. PICK i \in Issues : InHand(i)
        BY <4>1
      <4> QED
        BY <2>0, <2>1, <4>2, EnqueueAgentKeeps
    <3> QED
      BY <3>1, <3>2
  <2>2. CASE \/ Superseded \/ DagComplete \/ Dispatched \/ Ingested \/ Halt \/ Abort \/ Skipped
    BY <2>0, <2>2, EndsKeep
  <2>3. CASE OpenPass \/ ReadLevel \/ CoderFailures \/ Reviewed \/ Escalate
    BY <2>0, <2>3, OpenPassKeeps, ReadLevelKeeps, CoderFailuresKeeps, ReviewedKeeps, EscalateKeeps
  <2>4. CASE Advised \/ SpawnReplanner \/ Checkpoint
    BY <2>0, <2>4, AdvisedKeeps, SpawnReplannerKeeps, CheckpointKeeps
  <2>5. ASSUME NEW i \in Issues,
               \/ CreateWorktree(i) \/ DispatchCoder(i) \/ IngestCoder(i) \/ ReviewIssue(i)
               \/ ReviewStalled(i) \/ ApplyVerdict(i) \/ SpawnAgent(i)
        PROVE  DInv'
    BY <2>0, <2>5, CreateWorktreeKeeps, DispatchCoderKeeps, IngestCoderKeeps, ReviewIssueKeeps,
       ReviewStalledKeeps, ApplyVerdictKeeps, SpawnAgentKeeps
  <2>6. ASSUME NEW i \in Issues,
               \/ SkipIssue(i) \/ AdviseIssue(i) \/ CountAdvice(i) \/ AcceptAdvised(i)
               \/ RetryAdvised(i) \/ InsertSubIssue(i) \/ SplitDone(i) \/ MergeIssue(i)
        PROVE  DInv'
    BY <2>0, <2>6, SkipIssueKeeps, AdviseIssueKeeps, CountAdviceKeeps, AcceptAdvisedKeeps,
       RetryAdvisedKeeps, InsertSubIssueKeeps, SplitDoneKeeps, MergeIssueKeeps
  <2> QED
    BY <1>1, <2>1, <2>2, <2>3, <2>4, <2>5, <2>6 DEF PassStep
<1>2. CASE \E e \in Endings : EndRun(e)
  BY <1>2, EndRunKeeps
<1>3. CASE Die \/ Sweep \/ Retry
  BY <1>3, DieKeeps, SweepKeeps, RetryKeeps
<1>4. CASE UNCHANGED vars
  <2>1. /\ UNCHANGED <<setting, present, iss, coder, agent, replanner, replans, outage, step,
                       level, pass, wake, clicks, faults>>
    BY <1>4 DEF vars
  <2>2. TypeOK' /\ Counts' /\ Places' /\ Quiet' /\ RowsSound'
    BY <2>1 DEF DInv, TypeOK, Counts, Places, Quiet, RowsSound, RowSound, ReviewEnabled, Over,
       Children
  <2>3. Hand' = Hand
    BY <2>1, HandSame
  <2>4. Knows'
    BY <2>1, <2>3 DEF DInv, Knows, Children
  <2>5. Replanning' /\ Kept'
    BY <2>1 DEF DInv, Replanning, Calm, Settled, RefusedFailed, Over, Kept, KeptAt, Owned,
       ReviewEnabled, Overwritten
  <2>6. NoDeadWait' /\ CheckpointWhole'
    BY <2>1 DEF DInv, NoDeadWait, AnyLive, CheckpointWhole, Children, Overwritten, ReviewEnabled
  <2>7. Sections'
    <3>1. Stirs' = Stirs /\ Owned' = Owned /\ ReviewEnabled' = ReviewEnabled
      BY <2>1 DEF Stirs, AnyLive, Owned, ReviewEnabled
    <3>2. AtMerge => AtMerge'
      BY <2>1 DEF AtMerge, Accepted, ReviewEnabled
    <3>3. AtDispatch /\ AtIngest /\ AtFailures => AtDispatch' /\ AtIngest' /\ AtFailures'
      BY <2>1, <2>3 DEF AtDispatch, AtIngest, AtFailures, Over
    <3>4. AtReview => AtReview'
      BY <2>1, <2>3, <3>1 DEF AtReview, Over, Unreviewed
    <3>5. AtEscalate /\ AtAdvise => AtEscalate' /\ AtAdvise'
      BY <2>1, <2>3 DEF AtEscalate, AtAdvise, Settled, Over
    <3>6. Seen => Seen'
      BY <2>1, <2>3 DEF Seen, RefusedFailed, Refused
    <3> QED
      BY <2>1, <3>1, <3>2, <3>3, <3>4, <3>5, <3>6 DEF DInv, Sections
  <2> QED
    BY <2>2, <2>4, <2>5, <2>6, <2>7 DEF DInv
<1> QED
  BY <1>1, <1>2, <1>3, <1>4 DEF Next

(* Whatever dies, is refused or is retried, and for any number of issues: the rows and
   the budgets are sound, a step that waits has something to wait for, and a level that
   is checkpointed is whole. *)
THEOREM LevelIsSound == Spec => []LevelSound
<1>1. DInv => LevelSound
  BY DEF DInv, LevelSound
<1> QED
  BY <1>1, InitDInv, NextDInv, PTL DEF Spec

-----------------------------------------------------------------------------
(* What a step may send, issue by issue: the bodies of OneWriter and SentWhereDue. *)
WriterAlone(i) == Dispatches(i) => ~RunIsLive(coder[i]) /\ ~RunIsLive(agent[i].run)

DueAt(i) ==
    /\ iss[i].err = "refused" /\ iss[i].res = "failed" =>
          /\ ~Dispatches(i)
          /\ ~(replanner = "none" /\ RunIsLive(replanner'))
    /\ ~Overwritten =>
          /\ iss[i].merged => iss'[i].merged
          /\ Dispatches(i) => ~iss[i].merged /\ iss[i].res \notin {"skipped", "split"}

SendsRight == (\A i \in Issues : WriterAlone(i)) /\ (\A i \in present : DueAt(i))

(* No run of the issue is new, and what was merged still is. *)
NothingSent(i) ==
    /\ coder'[i] \in {"unsent", "unsent2"} => coder'[i] = coder[i]
    /\ agent'[i].run \in {"unsent", "unsent2"} => agent'[i] = agent[i]

StaysMerged(i) == iss[i].merged => iss'[i].merged

(* The issue may be worked on: no agent is in it, and nothing says it is over. *)
IsDue(i) ==
    /\ ~RunIsLive(coder[i]) /\ ~RunIsLive(agent[i].run) /\ ~RefusedFailed(i)
    /\ ~Overwritten => ~iss[i].merged /\ iss[i].res \notin {"skipped", "split"}

(* A step that sends nothing. *)
LEMMA SendsNothing ==
    ASSUME DInv, \A i \in Issues : NothingSent(i) /\ (~Overwritten => StaysMerged(i)),
           ~(replanner = "none" /\ RunIsLive(replanner'))
    PROVE  SendsRight
<1>1. present \subseteq Issues
  BY TypeParts DEF DInv, RestTypes
<1> QED
  BY <1>1 DEF SendsRight, WriterAlone, DueAt, Dispatches, NothingSent, StaysMerged

(* A step that leaves all the rows, and sends no replanner. *)
LEMMA RowsSendNothing ==
    ASSUME DInv, UNCHANGED <<iss, coder, agent>>, replanner' \in {replanner, "none"}
    PROVE  SendsRight
<1>1. ~(replanner = "none" /\ RunIsLive(replanner'))
  BY RunFacts
<1> QED
  BY <1>1, SendsNothing DEF NothingSent, StaysMerged

(* A step that writes to one row, and sends an agent there if anywhere. *)
LEMMA SendsThere ==
    ASSUME DInv, NEW i \in Issues, UNCHANGED replanner,
           \A j \in Issues \ {i} : coder'[j] = coder[j] /\ agent'[j] = agent[j] /\ iss'[j] = iss[j],
           StaysMerged(i), NothingSent(i) \/ IsDue(i)
    PROVE  SendsRight
<1>1. present \subseteq Issues
  BY TypeParts DEF DInv, RestTypes
<1>2. ~(replanner = "none" /\ RunIsLive(replanner'))
  BY RunFacts
<1>3. \A j \in Issues \ {i} : NothingSent(j) /\ StaysMerged(j)
  BY DEF NothingSent, StaysMerged
<1>4. CASE NothingSent(i)
  BY <1>2, <1>3, <1>4, SendsNothing
<1>5. CASE IsDue(i)
  <2>1. \A j \in Issues \ {i} : WriterAlone(j) /\ DueAt(j)
    BY <1>2, <1>3 DEF WriterAlone, DueAt, Dispatches, NothingSent, StaysMerged
  <2>2. WriterAlone(i) /\ DueAt(i)
    BY <1>2, <1>5 DEF WriterAlone, DueAt, IsDue, StaysMerged, RefusedFailed
  <2> QED
    BY <1>1, <2>1, <2>2 DEF SendsRight
<1> QED
  BY <1>4, <1>5

(* A step that writes one field or more of a row, the branch's merge not undone. *)
LEMMA RowSendsNothing ==
    ASSUME DInv, NEW i \in Issues, NEW r, Set(i, r), iss[i].merged => r.merged,
           UNCHANGED <<coder, agent, replanner>>
    PROVE  SendsRight
<1>1. iss'[i] = r /\ \A j \in Issues \ {i} : iss'[j] = iss[j]
  BY TypeParts DEF Set, DInv, RowTypes
<1>2. StaysMerged(i) /\ NothingSent(i)
  BY <1>1 DEF StaysMerged, NothingSent
<1> QED
  BY <1>1, <1>2, SendsThere

(* The steps that read the rows and move the pass. *)
LEMMA MovesSendNothing ==
    ASSUME DInv, \/ Superseded \/ ReadLevel \/ DagComplete \/ Dispatched \/ Ingested \/ Halt
                 \/ Reviewed \/ Escalate \/ Abort \/ Skipped \/ Advised \/ Checkpoint \/ Sweep
                 \/ (\E j \in Issues : InsertSubIssue(j)) \/ UNCHANGED vars
    PROVE  SendsRight
<1>1. UNCHANGED <<iss, coder, agent>> /\ replanner' \in {replanner, "none"}
  BY DEF Superseded, ReadLevel, DagComplete, Dispatched, Ingested, Halt, Reviewed, Escalate,
     Abort, Skipped, Advised, Checkpoint, Sweep, InsertSubIssue, rows, vars
<1> QED
  BY <1>1, RowsSendNothing

(* The replanner is sent when every issue is settled and none was refused. *)
LEMMA SpawnReplannerDue ==
    ASSUME DInv, SpawnReplanner PROVE SendsRight
<1>1. UNCHANGED <<iss, coder, agent>>
  BY DEF SpawnReplanner
<1>2. CASE UNCHANGED replanner
  BY <1>1, <1>2, RowsSendNothing
<1>3. CASE Owned
  <2>1. Calm
    BY <1>3 DEF SpawnReplanner, DInv, Replanning
  <2>2. \A i \in Issues : NothingSent(i)
    BY <1>1 DEF NothingSent
  <2>3. \A i \in Issues : WriterAlone(i)
    BY <2>2 DEF NothingSent, WriterAlone, Dispatches
  <2>4. ASSUME NEW i \in present PROVE DueAt(i)
    <3>1. ~RefusedFailed(i) /\ i \in Issues
      BY <2>1, TypeParts DEF Calm, DInv, RestTypes
    <3> QED
      BY <1>1, <2>2, <3>1 DEF DueAt, RefusedFailed, NothingSent, Dispatches
  <2> QED
    BY <2>3, <2>4 DEF SendsRight
<1> QED
  BY <1>2, <1>3 DEF SpawnReplanner

(* A recorded run whose job is queued is no new run. *)
LEMMA EnqueueSendsNothing ==
    ASSUME DInv, Enqueue PROVE SendsRight
<1>0. RowTypes /\ RestTypes /\ UNCHANGED iss
  BY TypeParts DEF DInv, Enqueue
<1>1. \A r : Sent(r) \notin {"unsent", "unsent2"}
  BY DEF Sent
<1>2. \A i \in Issues : StaysMerged(i)
  BY <1>0 DEF StaysMerged
<1>3. CASE pass.todo = {}
  <2>1. UNCHANGED <<coder, agent>> /\ replanner' = Sent(replanner)
    BY <1>3 DEF Enqueue
  <2>2. ~(replanner = "none" /\ RunIsLive(replanner'))
    BY <2>1, RunFacts DEF Sent
  <2> QED
    BY <1>2, <2>1, <2>2, SendsNothing DEF NothingSent
<1>4. CASE pass.todo # {}
  <2>0. Hand \in Issues
    BY <1>4, HandIn, TypeParts DEF DInv, PassRecords
  <2>1. PICK i \in Issues : i = Hand
    BY <2>0
  <2>2. /\ coder' = [coder EXCEPT ![i] = Sent(@)] /\ agent' = [agent EXCEPT ![i].run = Sent(@)]
        /\ UNCHANGED replanner
    BY <1>4, <2>1 DEF Enqueue
  <2>3. /\ coder'[i] = Sent(coder[i]) /\ agent'[i].run = Sent(agent[i].run)
        /\ \A j \in Issues \ {i} : coder'[j] = coder[j] /\ agent'[j] = agent[j]
    BY <1>0, <2>2 DEF RowTypes, AgentRecords
  <2>4. NothingSent(i)
    BY <1>1, <2>3 DEF NothingSent
  <2> QED
    BY <1>0, <1>2, <2>2, <2>3, <2>4, SendsThere
<1> QED
  BY <1>3, <1>4

(* The runs that end, are given up or are superseded are no new runs. *)
LEMMA EndRunSendsNothing ==
    ASSUME DInv, NEW e \in Endings, EndRun(e) PROVE SendsRight
<1>0. RowTypes /\ RestTypes /\ UNCHANGED iss
  BY TypeParts DEF DInv, EndRun
<1>1. \A r \in {"live", "live2"} : EndsAs(r, e) \notin {"unsent", "unsent2"} /\ ~RunIsLive(EndsAs(r, e))
  BY RunFacts DEF RunIsLive
<1>2. \A i \in Issues : StaysMerged(i)
  BY <1>0 DEF StaysMerged
<1>3. CASE \E i \in present : /\ coder[i] \in {"live", "live2"}
                              /\ coder' = [coder EXCEPT ![i] = EndsAs(@, e)]
                              /\ UNCHANGED <<agent, replanner>>
  <2>1. PICK i \in present : /\ coder[i] \in {"live", "live2"}
                             /\ coder' = [coder EXCEPT ![i] = EndsAs(@, e)]
                             /\ UNCHANGED <<agent, replanner>>
    BY <1>3
  <2>2. /\ i \in Issues /\ coder'[i] = EndsAs(coder[i], e)
        /\ \A j \in Issues \ {i} : coder'[j] = coder[j]
    BY <1>0, <2>1 DEF RowTypes, RestTypes
  <2>3. NothingSent(i)
    BY <1>1, <2>1, <2>2 DEF NothingSent
  <2> QED
    BY <1>0, <1>2, <2>1, <2>2, <2>3, SendsThere
<1>4. CASE \E i \in present : /\ agent[i].run \in {"live", "live2"}
                              /\ agent' = [agent EXCEPT ![i].run = EndsAs(@, e)]
                              /\ UNCHANGED <<coder, replanner>>
  <2>1. PICK i \in present : /\ agent[i].run \in {"live", "live2"}
                             /\ agent' = [agent EXCEPT ![i].run = EndsAs(@, e)]
                             /\ UNCHANGED <<coder, replanner>>
    BY <1>4
  <2>2. /\ i \in Issues /\ agent'[i].run = EndsAs(agent[i].run, e)
        /\ \A j \in Issues \ {i} : agent'[j] = agent[j]
    BY <1>0, <2>1 DEF RowTypes, RestTypes, AgentRecords
  <2>3. NothingSent(i)
    BY <1>1, <2>1, <2>2 DEF NothingSent
  <2> QED
    BY <1>0, <1>2, <2>1, <2>2, <2>3, SendsThere
<1>5. CASE replanner \in {"live", "live2"} /\ UNCHANGED <<coder, agent>>
  BY <1>2, <1>5, SendsNothing DEF NothingSent
<1> QED
  BY <1>3, <1>4, <1>5 DEF EndRun

(* Nor are those a dead worker leaves. *)
LEMMA DieSendsNothing ==
    ASSUME DInv, Die PROVE SendsRight
<1>0. RowTypes /\ RestTypes /\ UNCHANGED iss
  BY TypeParts DEF DInv, Die
<1>1. PICK Q \in SUBSET Issues :
         /\ coder' = [i \in Issues |-> Orphaned(coder[i], i \in Q)]
         /\ agent' = [i \in Issues |-> [agent[i] EXCEPT !.run = Orphaned(@, i \in Q)]]
  BY DEF Die
<1>2. ASSUME NEW i \in Issues PROVE NothingSent(i) /\ StaysMerged(i)
  <2>1. coder'[i] = Orphaned(coder[i], i \in Q) /\ coder[i] \in Runs \cup {"agent"}
    BY <1>0, <1>1 DEF RowTypes
  <2>2. /\ agent[i] \in AgentRecords
        /\ agent'[i] = [agent[i] EXCEPT !.run = Orphaned(agent[i].run, i \in Q)]
    BY <1>0, <1>1 DEF RowTypes
  <2>3. agent'[i].run = Orphaned(agent[i].run, i \in Q) /\ agent[i].run \in Runs
    BY <2>2 DEF AgentRecords
  <2> QED
    BY <1>0, <2>1, <2>3 DEF NothingSent, StaysMerged, Orphaned, Runs, Ended
<1>3. RunIsLive(replanner') => RunIsLive(replanner)
  BY <1>0, RunFacts DEF Die, RestTypes
<1> QED
  BY <1>2, <1>3, RunFacts, SendsNothing

(* Nor those an outage stops. *)
LEMMA OpenPassSendsNothing ==
    ASSUME DInv, OpenPass PROVE SendsRight
<1>0. RowTypes /\ RestTypes /\ UNCHANGED iss
  BY TypeParts DEF DInv, OpenPass
<1>1. CASE UNCHANGED <<coder, agent, replanner>>
  BY <1>0, <1>1, RowsSendNothing
<1>2. CASE /\ coder' = [i \in Issues |-> IF RunIsLive(coder[i]) THEN "free" ELSE coder[i]]
           /\ agent' = [i \in Issues |->
                IF RunIsLive(agent[i].run) THEN [agent[i] EXCEPT !.run = "free"] ELSE agent[i]]
           /\ replanner' = IF RunIsLive(replanner) THEN "free" ELSE replanner
  <2>1. ASSUME NEW i \in Issues PROVE NothingSent(i) /\ StaysMerged(i)
    <3>1. coder'[i] \in {"free", coder[i]}
      BY <1>2
    <3>2. agent[i] \in AgentRecords /\ agent'[i] \in {[agent[i] EXCEPT !.run = "free"], agent[i]}
      BY <1>0, <1>2 DEF RowTypes
    <3>3. agent'[i].run = "free" \/ agent'[i] = agent[i]
      BY <3>2 DEF AgentRecords
    <3> QED
      BY <1>0, <3>1, <3>3 DEF NothingSent, StaysMerged
  <2>2. ~RunIsLive(replanner')
    BY <1>2, RunFacts
  <2> QED
    BY <2>1, <2>2, SendsNothing
<1> QED
  BY <1>1, <1>2 DEF OpenPass

(* A Retry sends nothing, and what it starts over was not merged. *)
LEMMA RetrySendsNothing ==
    ASSUME DInv, Retry PROVE SendsRight
<1> DEFINE stuck == IF level = "open" THEN {i \in present : IsStuckFailed(i)} ELSE {}
           fixer(i) == IF coder[i] = "agent" THEN "level" ELSE agent[i].role
<1>0. RowTypes /\ RestTypes
  BY TypeParts DEF DInv
<1>1. /\ iss' = [i \in Issues |-> IF i \in stuck THEN [Fresh EXCEPT !.wt = iss[i].wt] ELSE iss[i]]
      /\ coder' = [i \in Issues |-> IF i \in stuck THEN "none" ELSE SupersededAs("level", coder[i])]
      /\ agent' = [i \in Issues |->
                     IF i \in stuck THEN NoAgent
                     ELSE [agent[i] EXCEPT !.run = SupersededAs(fixer(i), @)]]
      /\ replanner' = SupersededAs("replanner", replanner)
  BY DEF Retry
<1>2. \A i \in stuck : IsStuckFailed(i)
  OBVIOUS
<1> HIDE DEF stuck, fixer
<1>3. ASSUME NEW role, NEW r \in Runs \cup {"agent"}
      PROVE  SupersededAs(role, r) \notin {"unsent", "unsent2"}
  BY DEF SupersededAs, Runs, RunIsLive, Ended
<1>4. ASSUME NEW i \in Issues PROVE NothingSent(i)
  <2>1. CASE i \in stuck
    BY <1>1, <2>1 DEF NothingSent, NoAgent
  <2>2. CASE i \notin stuck
    <3>1. /\ coder'[i] = SupersededAs("level", coder[i]) /\ coder[i] \in Runs \cup {"agent"}
          /\ agent[i] \in AgentRecords
          /\ agent'[i] = [agent[i] EXCEPT !.run = SupersededAs(fixer(i), agent[i].run)]
      BY <1>0, <1>1, <2>2 DEF RowTypes
    <3>2. agent'[i].run = SupersededAs(fixer(i), agent[i].run) /\ agent[i].run \in Runs
      BY <3>1 DEF AgentRecords
    <3> QED
      BY <1>3, <3>1, <3>2 DEF NothingSent
  <2> QED
    BY <2>1, <2>2
<1>5. ASSUME NEW i \in Issues, ~Overwritten PROVE StaysMerged(i)
  <2> SUFFICES ASSUME iss[i].merged PROVE iss'[i] = iss[i]
    BY DEF StaysMerged
  <2>1. KeptAt(i)
    BY DEF DInv, Kept
  <2>2. iss[i].outcome = "done" /\ iss[i].res # "failed"
    BY <1>5, <2>1 DEF KeptAt
  <2>3. i \notin stuck
    BY <1>2, <2>2 DEF IsStuckFailed
  <2> QED
    BY <1>1, <2>3
<1>6. ~RunIsLive(replanner')
  BY <1>0, <1>1, SupersededDies DEF RestTypes
<1> QED
  BY <1>4, <1>5, <1>6, SendsNothing

(* The steps that write to one row and send nothing. *)
LEMMA RowStepsSendNothing ==
    ASSUME DInv, NEW i \in Issues,
           \/ CreateWorktree(i) \/ ReviewStalled(i) \/ ApplyVerdict(i) \/ SkipIssue(i)
           \/ CountAdvice(i) \/ AcceptAdvised(i) \/ RetryAdvised(i) \/ SplitDone(i)
    PROVE  SendsRight
<1>0. iss[i] \in IssueRows /\ UNCHANGED <<coder, agent, replanner>>
  BY TypeParts DEF DInv, RowTypes, CreateWorktree, ReviewStalled, ApplyVerdict, SkipIssue,
     CountAdvice, AcceptAdvised, RetryAdvised, SplitDone
<1> SUFFICES \E r : Set(i, r) /\ r.merged = iss[i].merged
  BY <1>0, RowSendsNothing
<1>1. CASE CreateWorktree(i)
  BY <1>0, <1>1 DEF CreateWorktree, IssueRows
<1>2. CASE ReviewStalled(i)
  BY <1>0, <1>2 DEF ReviewStalled, IssueRows
<1>3. CASE ApplyVerdict(i)
  <2> DEFINE counted(n) == [iss[i] EXCEPT !.stuck = n, !.iter = @ + 1]
  <2>1. ASSUME NEW n
        PROVE  /\ counted(n).merged = iss[i].merged
               /\ [counted(n) EXCEPT !.outcome = "done", !.res = "accepted"].merged = iss[i].merged
               /\ [counted(n) EXCEPT !.res = "failed"].merged = iss[i].merged
    BY <1>0 DEF IssueRows
  <2>2. CASE pass.next = "fix"
    <3>1. PICK n : \/ Set(i, [counted(n) EXCEPT !.outcome = "done", !.res = "accepted"])
                   \/ Set(i, [counted(n) EXCEPT !.res = "failed"])
                   \/ Set(i, counted(n))
      BY <1>3, <2>2 DEF ApplyVerdict
    <3> HIDE DEF counted
    <3> QED
      BY <2>1, <3>1
  <2>3. CASE pass.next # "fix"
    <3>1. \/ \E v : Set(i, [iss[i] EXCEPT !.res = v])
          \/ \E v : Set(i, [iss[i] EXCEPT !.res = "failed", !.err = v])
          \/ \E n : Set(i, [iss[i] EXCEPT !.revs = n])
      BY <1>3, <2>3 DEF ApplyVerdict
    <3>2. \A v : /\ [iss[i] EXCEPT !.res = v].merged = iss[i].merged
                 /\ [iss[i] EXCEPT !.res = "failed", !.err = v].merged = iss[i].merged
                 /\ [iss[i] EXCEPT !.revs = v].merged = iss[i].merged
      BY <1>0 DEF IssueRows
    <3>3. CASE \E v : Set(i, [iss[i] EXCEPT !.res = v])
      BY <3>2, <3>3
    <3>4. CASE \E v : Set(i, [iss[i] EXCEPT !.res = "failed", !.err = v])
      BY <3>2, <3>4
    <3>5. CASE \E n : Set(i, [iss[i] EXCEPT !.revs = n])
      BY <3>2, <3>5
    <3> QED
      BY <3>1, <3>3, <3>4, <3>5
  <2> QED
    BY <2>2, <2>3
<1>4. CASE SkipIssue(i) \/ SplitDone(i)
  <2>1. \E v : Set(i, [iss[i] EXCEPT !.res = v])
    BY <1>4 DEF SkipIssue, SplitDone
  <2>2. \A v : [iss[i] EXCEPT !.res = v].merged = iss[i].merged
    BY <1>0 DEF IssueRows
  <2> QED
    BY <2>1, <2>2
<1>5. CASE CountAdvice(i)
  <2>1. \E n, e : Set(i, [iss[i] EXCEPT !.adv = n, !.esc = e])
    BY <1>5 DEF CountAdvice
  <2>2. \A n, e : [iss[i] EXCEPT !.adv = n, !.esc = e].merged = iss[i].merged
    BY <1>0 DEF IssueRows
  <2> QED
    BY <2>1, <2>2
<1>6. CASE AcceptAdvised(i)
  <2>1. \/ Set(i, [iss[i] EXCEPT !.outcome = "done", !.res = "accepted"])
        \/ Set(i, [iss[i] EXCEPT !.esc = TRUE])
    BY <1>6 DEF AcceptAdvised
  <2>2. /\ [iss[i] EXCEPT !.outcome = "done", !.res = "accepted"].merged = iss[i].merged
        /\ [iss[i] EXCEPT !.esc = TRUE].merged = iss[i].merged
    BY <1>0 DEF IssueRows
  <2> QED
    BY <2>1, <2>2
<1>7. CASE RetryAdvised(i)
  <2>1. \E n : Set(i, [iss[i] EXCEPT !.res = "none", !.iter = n])
    BY <1>7 DEF RetryAdvised
  <2>2. \A n : [iss[i] EXCEPT !.res = "none", !.iter = n].merged = iss[i].merged
    BY <1>0 DEF IssueRows
  <2> QED
    BY <2>1, <2>2
<1> QED
  BY <1>1, <1>2, <1>3, <1>4, <1>5, <1>6, <1>7

(* A merge sends nothing. *)
LEMMA MergeSendsNothing ==
    ASSUME DInv, NEW i \in Issues, MergeIssue(i) PROVE SendsRight
<1>0. iss[i] \in IssueRows /\ UNCHANGED <<coder, agent, replanner>>
  BY TypeParts DEF DInv, RowTypes, MergeIssue
<1>1. CASE UNCHANGED iss
  BY <1>0, <1>1, RowsSendNothing
<1>2. CASE Set(i, [iss[i] EXCEPT !.merged = TRUE])
  <2>1. [iss[i] EXCEPT !.merged = TRUE].merged
    BY <1>0 DEF IssueRows
  <2> QED
    BY <1>0, <1>2, <2>1, RowSendsNothing
<1> QED
  BY <1>1, <1>2 DEF MergeIssue

(* Nor does marking the failures for the escalation. *)
LEMMA CoderFailuresSendNothing ==
    ASSUME DInv, CoderFailures PROVE SendsRight
<1>0. RowTypes /\ UNCHANGED <<coder, agent, replanner>>
  BY TypeParts DEF DInv, CoderFailures
<1>1. ASSUME NEW i \in Issues PROVE NothingSent(i) /\ StaysMerged(i)
  <2>1. iss[i] \in IssueRows /\ iss'[i] \in {[iss[i] EXCEPT !.res = "failed"], iss[i]}
    BY <1>0 DEF CoderFailures, RowTypes
  <2>2. iss'[i].merged = iss[i].merged
    BY <2>1 DEF IssueRows
  <2> QED
    BY <1>0, <2>2 DEF NothingSent, StaysMerged
<1>2. ~(replanner = "none" /\ RunIsLive(replanner'))
  BY <1>0, RunFacts
<1> QED
  BY <1>1, <1>2, SendsNothing

(* Reading an advisor only marks it read; it had ended. *)
LEMMA AdviseSendsNothing ==
    ASSUME DInv, NEW i \in Issues, AdviseIssue(i) PROVE SendsRight
<1>0. iss[i] \in IssueRows /\ RowTypes /\ UNCHANGED <<coder, replanner>>
  BY TypeParts DEF DInv, RowTypes, AdviseIssue
<1>1. CASE UNCHANGED <<iss, agent>>
  BY <1>0, <1>1, RowsSendNothing
<1>2. CASE agent[i].run \in Ended /\ agent' = [agent EXCEPT ![i].used = TRUE] /\ UNCHANGED iss
  <2>1. PICK a \in AgentRecords : /\ agent' = [agent EXCEPT ![i] = a] /\ a.run = agent[i].run
    BY <1>0, <1>2, Consumed
  <2>2. agent'[i] = a /\ \A j \in Issues \ {i} : agent'[j] = agent[j]
    BY <1>0, <2>1 DEF RowTypes
  <2>3. NothingSent(i) /\ StaysMerged(i)
    BY <1>0, <1>2, <2>1, <2>2 DEF NothingSent, StaysMerged, Ended
  <2> QED
    BY <1>0, <1>2, <2>2, <2>3, SendsThere
<1>3. CASE Set(i, [iss[i] EXCEPT !.esc = TRUE]) /\ UNCHANGED agent
  <2>1. [iss[i] EXCEPT !.esc = TRUE].merged = iss[i].merged
    BY <1>0 DEF IssueRows
  <2> QED
    BY <1>0, <1>3, <2>1, RowSendsNothing
<1> QED
  BY <1>1, <1>2, <1>3 DEF AdviseIssue

(* The steps that send: each finds no other agent in the worktree, and work due. *)
LEMMA DispatchDue ==
    ASSUME DInv, NEW i \in Issues, DispatchCoder(i) PROVE SendsRight
<1>0. /\ InHand(i) /\ pass.at = "dispatch" /\ pass.next = "none" /\ i \in pass.todo
      /\ RowTypes /\ iss[i] \in IssueRows /\ RowSound(i) /\ KeptAt(i)
  BY HandFacts DEF DispatchCoder, At
<1>a. UNCHANGED <<agent, replanner>>
  BY DEF DispatchCoder
<1>1. CASE UNCHANGED coder /\ Set(i, [iss[i] EXCEPT !.outcome = "failed", !.err = "env"])
  <2>1. [iss[i] EXCEPT !.outcome = "failed", !.err = "env"].merged = iss[i].merged
    BY <1>0 DEF IssueRows
  <2> QED
    BY <1>1, <1>a, <2>1, RowSendsNothing
<1>2. CASE /\ Set(i, [iss[i] EXCEPT !.outcome = "running", !.err = "none"])
           /\ coder' = [coder EXCEPT ![i] = Unsent(iss[i].err = "cut")]
  <2>1. iss[i].outcome = "pending"
    BY <1>0 DEF DInv, Knows
  <2>2. coder[i] = "none" /\ ~RunIsLive(agent[i].run) /\ iss[i].err # "refused"
    BY <1>0, <2>1 DEF RowSound, Over
  <2>3. IsDue(i)
    BY <1>0, <2>1, <2>2, RunFacts DEF IsDue, RefusedFailed, KeptAt, Over
  <2>4. [iss[i] EXCEPT !.outcome = "running", !.err = "none"].merged = iss[i].merged
    BY <1>0 DEF IssueRows
  <2>5. StaysMerged(i) /\ \A j \in Issues \ {i} : coder'[j] = coder[j] /\ iss'[j] = iss[j]
    BY <1>0, <1>2, <2>4 DEF StaysMerged, Set, RowTypes
  <2> QED
    BY <1>a, <2>3, <2>5, SendsThere
<1> QED
  BY <1>1, <1>2 DEF DispatchCoder

(* A fix coder sent again replaces one that ended. *)
LEMMA IngestDue ==
    ASSUME DInv, NEW i \in Issues, IngestCoder(i) PROVE SendsRight
<1> DEFINE r == CoderRun(i)
           charged == iss[i].infra + (IF r = "killed" THEN 1 ELSE 0)
           mark == IF r = "cut" THEN "cut" ELSE "none"
<1>0. /\ InHand(i) /\ pass.at = "ingest" /\ i \in pass.todo
      /\ RowTypes /\ iss[i] \in IssueRows /\ RowSound(i) /\ KeptAt(i)
  BY HandFacts DEF IngestCoder, At
<1>a. UNCHANGED replanner
  BY DEF IngestCoder
<1>b. ASSUME UNCHANGED agent, coder' = [coder EXCEPT ![i] = "none"],
             NEW a, Set(i, a), a.merged = iss[i].merged
      PROVE  SendsRight
  <2>1. /\ coder'[i] = "none" /\ iss'[i] = a
        /\ \A j \in Issues \ {i} : coder'[j] = coder[j] /\ iss'[j] = iss[j]
    BY <1>0, <1>b DEF RowTypes, Set
  <2>2. NothingSent(i) /\ StaysMerged(i)
    BY <1>b, <2>1 DEF NothingSent, StaysMerged
  <2> QED
    BY <1>a, <1>b, <2>1, <2>2, SendsThere
<1>1. CASE UNCHANGED <<iss, coder, agent>>
  BY <1>1, <1>a, RowsSendNothing
<1>2. CASE /\ \E a \in CoderAnswers(i, r) : Set(i, a)
           /\ coder' = [coder EXCEPT ![i] = "none"] /\ UNCHANGED agent
  <2>1. PICK a \in CoderAnswers(i, r) : Set(i, a)
    BY <1>2
  <2>2. a.merged = iss[i].merged
    <3> HIDE DEF r
    <3>1. \/ \E f \in BOOLEAN : a = [iss[i] EXCEPT !.outcome = "done", !.files = f]
          \/ \E e \in {"none", "env", "refused"} : a = [iss[i] EXCEPT !.outcome = "failed", !.err = e]
          \/ a = [iss[i] EXCEPT !.outcome = "failed"]
      BY <2>1 DEF CoderAnswers
    <3>2. \A f : /\ [iss[i] EXCEPT !.outcome = "done", !.files = f].merged = iss[i].merged
                 /\ [iss[i] EXCEPT !.outcome = "failed", !.err = f].merged = iss[i].merged
                 /\ [iss[i] EXCEPT !.outcome = "failed"].merged = iss[i].merged
      BY <1>0 DEF IssueRows
    <3> QED
      BY <3>1, <3>2
  <2> QED
    BY <1>2, <1>b, <2>1, <2>2
<1>3. CASE /\ \/ Set(i, [iss[i] EXCEPT !.outcome = "pending", !.infra = charged, !.err = mark])
              \/ Set(i, [iss[i] EXCEPT !.outcome = "failed", !.err = "env"])
           /\ coder' = [coder EXCEPT ![i] = "none"] /\ UNCHANGED agent
  <2> HIDE DEF charged, mark
  <2>1. /\ [iss[i] EXCEPT !.outcome = "pending", !.infra = charged, !.err = mark].merged = iss[i].merged
        /\ [iss[i] EXCEPT !.outcome = "failed", !.err = "env"].merged = iss[i].merged
    BY <1>0 DEF IssueRows
  <2> QED
    BY <1>3, <1>b, <2>1
<1>4. CASE /\ r \in Ended /\ Owned /\ coder[i] = "agent"
           /\ agent' = [agent EXCEPT ![i] = NewAgent("coder", r = "cut")]
           /\ Set(i, [iss[i] EXCEPT !.infra = charged, !.err = "none"])
           /\ UNCHANGED coder
  <2>1. iss[i].outcome = "running"
    BY <1>0, <1>4 DEF DInv, Sections, AtIngest
  <2>2. ~RunIsLive(agent[i].run) /\ ~RunIsLive(coder[i]) /\ iss[i].res = "none"
    BY <1>0, <1>4, RunFacts DEF CoderRun, RowSound
  <2>3. IsDue(i)
    BY <1>0, <2>1, <2>2 DEF IsDue, RefusedFailed, KeptAt
  <2>4. [iss[i] EXCEPT !.infra = charged, !.err = "none"].merged = iss[i].merged
    <3> HIDE DEF charged
    <3> QED
      BY <1>0 DEF IssueRows
  <2>5. StaysMerged(i) /\ \A j \in Issues \ {i} : agent'[j] = agent[j] /\ iss'[j] = iss[j]
    <3> HIDE DEF charged, r
    <3> QED
      BY <1>0, <1>4, <2>4 DEF StaysMerged, Set, RowTypes
  <2> QED
    BY <1>4, <1>a, <2>3, <2>5, SendsThere
<1> QED
  BY <1>1, <1>2, <1>3, <1>4 DEF IngestCoder

(* So it does in the review, where the issue is done and not resolved. *)
LEMMA ReviewDue ==
    ASSUME DInv, NEW i \in Issues, ReviewIssue(i) PROVE SendsRight
<1>0. /\ InHand(i) /\ pass.at = "review" /\ i \in pass.todo /\ UNCHANGED <<coder, replanner, iss>>
      /\ RowTypes /\ iss[i] \in IssueRows /\ RowSound(i) /\ KeptAt(i)
  BY HandFacts DEF ReviewIssue, At
<1>1. StaysMerged(i)
  BY <1>0 DEF StaysMerged
<1>2. CASE UNCHANGED agent
  BY <1>0, <1>2, RowsSendNothing
<1>3. CASE agent[i].run \in Ended /\ agent' = [agent EXCEPT ![i].used = TRUE]
  <2>1. PICK a \in AgentRecords : /\ agent' = [agent EXCEPT ![i] = a] /\ a.run = agent[i].run
    BY <1>0, <1>3, Consumed
  <2>2. agent'[i] = a /\ \A j \in Issues \ {i} : agent'[j] = agent[j]
    BY <1>0, <2>1 DEF RowTypes
  <2>3. NothingSent(i)
    BY <1>0, <1>3, <2>1, <2>2 DEF NothingSent, Ended
  <2> QED
    BY <1>0, <1>1, <2>2, <2>3, SendsThere
<1>4. CASE agent[i].run \in Ended /\ agent' = [agent EXCEPT ![i] = NewAgent("coder", agent[i].run = "cut")]
  <2>1. iss[i].outcome = "done" /\ iss[i].res = "none" /\ ReviewEnabled
    BY <1>0 DEF DInv, Knows, Places
  <2>2. ~RunIsLive(agent[i].run) /\ ~RunIsLive(coder[i])
    BY <1>0, <1>4, <2>1, RunFacts DEF RowSound
  <2>3. IsDue(i)
    BY <1>0, <2>1, <2>2 DEF IsDue, RefusedFailed, KeptAt
  <2>4. \A j \in Issues \ {i} : agent'[j] = agent[j]
    BY <1>0, <1>4 DEF RowTypes
  <2> QED
    BY <1>0, <1>1, <2>3, <2>4, SendsThere
<1> QED
  BY <1>2, <1>3, <1>4 DEF ReviewIssue

(* An agent spawned for the issue in hand: its latest one has ended, and the issue failed or is not
   resolved. *)
LEMMA SpawnDue ==
    ASSUME DInv, NEW i \in Issues, SpawnAgent(i) PROVE SendsRight
<1> DEFINE n == pass.next
<1>0. /\ InHand(i) /\ i = Hand /\ i \in pass.todo /\ n \in Spawns /\ UNCHANGED replanner
      /\ RowTypes /\ iss[i] \in IssueRows /\ RowSound(i) /\ KeptAt(i)
  BY HandFacts DEF SpawnAgent
<1>1. CASE Set(i, NotSpawned(i, n)) /\ UNCHANGED <<agent, coder>>
  <2>1. NotSpawned(i, n).merged = iss[i].merged
    BY <1>0 DEF NotSpawned, IssueRows
  <2> QED
    BY <1>0, <1>1, <2>1, RowSendsNothing
<1>2. CASE /\ Owned
           /\ agent' = [agent EXCEPT ![i] =
                          NewAgent(SpawnRole(n), n \in {"respawnReview2", "spawnAdvisor2"})]
           /\ IF n = "spawnRetry"
              THEN /\ Set(i, [iss[i] EXCEPT !.outcome = "running", !.err = "none"])
                   /\ coder' = [coder EXCEPT ![i] = "agent"]
              ELSE UNCHANGED <<iss, coder>>
  <2>1. n \in ReviewNexts \cup AdviseNexts /\ ~RunIsLive(agent[i].run)
    BY <1>0 DEF DInv, Knows, Spawns, ReviewNexts, AdviseNexts
  <2>2. /\ ReviewEnabled /\ Over(i) /\ ~RefusedFailed(i)
        /\ iss[i].res \in {"none", "failed"}
    <3>1. CASE n \in ReviewNexts
      BY <1>0, <3>1 DEF DInv, Knows, Places, Over, RefusedFailed
    <3>2. CASE n \in AdviseNexts
      BY <1>0, <1>2, <3>2 DEF DInv, Places, Sections, AtAdvise, RefusedFailed
    <3> QED
      BY <2>1, <3>1, <3>2
  <2>3. ~RunIsLive(coder[i])
    BY <1>0, <2>2, RunFacts DEF RowSound, Over
  <2>4. IsDue(i)
    BY <1>0, <2>1, <2>2, <2>3 DEF IsDue, KeptAt
  <2>5. [iss[i] EXCEPT !.outcome = "running", !.err = "none"].merged = iss[i].merged
    BY <1>0 DEF IssueRows
  <2>6. \A j \in Issues \ {i} : agent'[j] = agent[j]
    <3> HIDE DEF n
    <3> QED
      BY <1>0, <1>2 DEF RowTypes
  <2>7. StaysMerged(i) /\ \A j \in Issues \ {i} : coder'[j] = coder[j] /\ iss'[j] = iss[j]
    <3> HIDE DEF n
    <3> QED
      BY <1>0, <1>2, <2>5 DEF StaysMerged, Set, RowTypes
  <2> QED
    BY <1>0, <2>4, <2>6, <2>7, SendsThere
<1> QED
  BY <1>1, <1>2 DEF SpawnAgent

(* Every step sends only where work is due, and where no other agent works. *)
LEMMA NextSendsRight ==
    ASSUME DInv, [Next]_vars PROVE SendsRight
<1>1. CASE PassStep
  <2>1. CASE \/ Superseded \/ ReadLevel \/ DagComplete \/ Dispatched \/ Ingested \/ Halt
             \/ Reviewed \/ Escalate \/ Abort \/ Skipped \/ Advised \/ Checkpoint
             \/ (\E j \in Issues : InsertSubIssue(j))
    BY <2>1, MovesSendNothing
  <2>2. CASE OpenPass \/ Enqueue \/ CoderFailures \/ SpawnReplanner
    BY <2>2, OpenPassSendsNothing, EnqueueSendsNothing, CoderFailuresSendNothing, SpawnReplannerDue
  <2>3. ASSUME NEW i \in Issues,
               \/ DispatchCoder(i) \/ IngestCoder(i) \/ ReviewIssue(i) \/ SpawnAgent(i)
        PROVE  SendsRight
    BY <2>3, DispatchDue, IngestDue, ReviewDue, SpawnDue
  <2>4. ASSUME NEW i \in Issues,
               \/ CreateWorktree(i) \/ ReviewStalled(i) \/ ApplyVerdict(i) \/ SkipIssue(i)
               \/ CountAdvice(i) \/ AcceptAdvised(i) \/ RetryAdvised(i) \/ SplitDone(i)
        PROVE  SendsRight
    BY <2>4, RowStepsSendNothing
  <2>5. ASSUME NEW i \in Issues, AdviseIssue(i) \/ MergeIssue(i)
        PROVE  SendsRight
    BY <2>5, AdviseSendsNothing, MergeSendsNothing
  <2> QED
    BY <1>1, <2>1, <2>2, <2>3, <2>4, <2>5 DEF PassStep
<1>2. CASE \E e \in Endings : EndRun(e)
  BY <1>2, EndRunSendsNothing
<1>3. CASE Die \/ Sweep \/ Retry \/ UNCHANGED vars
  BY <1>3, DieSendsNothing, MovesSendNothing, RetrySendsNothing
<1> QED
  BY <1>1, <1>2, <1>3 DEF Next

(* No agent is sent into an issue's worktree while another works in it, whatever died
   and whatever was retried. *)
THEOREM OneWriterAlways == Spec => OneWriter
<1>1. DInv /\ [Next]_vars =>
        [\A i \in Issues :
           Dispatches(i) => ~RunIsLive(coder[i]) /\ ~RunIsLive(agent[i].run)]_vars
  BY NextSendsRight DEF SendsRight, WriterAlone
<1> QED
  BY <1>1, InitDInv, NextDInv, PTL DEF Spec, OneWriter

(* An agent is sent only where work is due: never again to what the provider refused,
   nor to what was merged, skipped or split; and what was merged stays so. *)
THEOREM SentOnlyWhereDue == Spec => SentWhereDue
<1>1. DInv /\ [Next]_vars =>
        [\A i \in present :
           /\ iss[i].err = "refused" /\ iss[i].res = "failed" =>
                 /\ ~Dispatches(i)
                 /\ ~(replanner = "none" /\ RunIsLive(replanner'))
           /\ ~Overwritten =>
                 /\ iss[i].merged => iss'[i].merged
                 /\ Dispatches(i) => ~iss[i].merged /\ iss[i].res \notin {"skipped", "split"}]_vars
  BY NextSendsRight DEF SendsRight, DueAt
<1> QED
  BY <1>1, InitDInv, NextDInv, PTL DEF Spec, SentWhereDue
=============================================================================
