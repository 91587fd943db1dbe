---------------------------- MODULE Migrate_proofs ----------------------------
(* Proofs about Migrate, for every number of runners, files, versions, databases
   and faults. *)
EXTENDS Migrate, FiniteSetTheorems, WellFoundedInduction, TLAPS

(* Nothing happened that moves the tables beside the runners; nothing but deaths
   and replaced connections that a runner looks for. *)
Quiet == "push" \notin Happened
Checked == Happened \subseteq {"die", "drop"}

Past == {"assert", "apply", "record"}
Whole == base = "all" \/ \E f \in Drops : runs[f] > 0

(* A database no runner may touch. *)
Unfit == start.table = "foreign" \/ start.base \in {"part", "old"}

(* The journal holds nothing but what a runner's version has, as it has it. *)
Agrees(r) == \A g \in DOMAIN rows : g \in DOMAIN Corpus[r] /\ rows[g] = Corpus[r][g]

(* While nobody pushes: a script that ran in a transaction has its row, and the
   tables are the ones at first until a runner with a journal changes them. *)
Tables ==
    Quiet =>
       /\ \A f \in Files \ NoTx : runs[f] <= 1 /\ (runs[f] > 0 => f \in DOMAIN rows)
       /\ table # "ours" => base = start.base /\ table = start.table
       /\ base = "none" => start.base = "none"
       /\ base # "none" => start.base # "none" \/ runs[Baseline] > 0
       /\ Unfit => table # "ours"

(* What a runner has found out before it acts. *)
Knows(r) ==
    /\ pc[r] \in Past => todo[r] # {}
    /\ pc[r] = "record" => Min(todo[r]) \in NoTx /\ runs[Min(todo[r])] > 0
    /\ pc[r] \in {"columns", "adopt"} => kind[r] = "legacy"
    /\ pc[r] \in {"ensure", "adopt"} /\ kind[r] = "legacy" => Whole

(* The same, while nobody pushes. *)
Found(r) ==
    Quiet =>
       /\ pc[r] \in {"columns", "ensure", "adopt"} /\ kind[r] = "legacy"
          => start.base # "none" \/ runs[Baseline] > 0
       /\ pc[r] \in {"ensure", "plan"} /\ kind[r] = "fresh" => start.base = "none"
       /\ pc[r] \in Past => table = "ours" /\ (Baseline \in DOMAIN rows \/ start.base = "none")
       /\ Unfit => /\ pc[r] \notin {"ensure", "adopt", "plan"} \union Past
                   /\ pc[r] = "tables" => seen[r] = start.table
                   /\ pc[r] = "columns" => base # "all"

(* Its session holds the lock, and nobody else moves the journal under it. *)
Locked(r) ==
    Checked =>
       /\ pc[r] = "pid" \/ r \in same => lock = r
       /\ pc[r] \in {"apply", "record"} => r \in same
       /\ pc[r] \in Past /\ r \in same => Agrees(r)

Inv ==
    /\ TypeOK /\ todo \in [Runners -> SUBSET Files]
    /\ JournalIsTrue /\ Tables
    /\ \A r \in Runners : Knows(r) /\ Found(r) /\ Locked(r)

-----------------------------------------------------------------------------
(* A set of files has a first one. *)
LEMMA MinIsFirst ==
    ASSUME NEW S, S \subseteq Nat, S # {}
    PROVE  Min(S) \in S /\ \A y \in S : Min(S) <= y
  <1> DEFINE Less == {ss \in Nat \X Nat : ss[1] < ss[2]}
  <1>1. IsWellFoundedOn(Less, Nat)
    BY NatLessThanWellFounded, Zenon DEF OpToRel
  <1>2. \E x \in S : \A y \in S : <<y, x>> \notin Less
    <2> HIDE DEF Less
    <2> QED
      BY <1>1, WFMin
  <1>3. PICK x \in S : \A y \in S : <<y, x>> \notin Less
    BY <1>2
  <1>4. \A y \in S : x <= y
    <2>1. ASSUME NEW y \in S, y < x PROVE <<y, x>> \in Less
      BY <2>1
    <2> HIDE DEF Less
    <2>2. \A y \in S : x \in Nat /\ y \in Nat /\ ~(y < x)
      BY <1>3, <2>1
    <2> QED
      BY <2>2
  <1> QED
    BY <1>4 DEF Min

(* A row is added to the journal. *)
LEMMA RowAdded ==
    ASSUME NEW s, NEW f, NEW x, NEW s2, 
           s2 = [g \in DOMAIN s \union {f} |-> IF g = f THEN x ELSE s[g]]
    PROVE  /\ DOMAIN s2 = DOMAIN s \union {f} /\ s2[f] = x
           /\ \A g \in DOMAIN s : g # f => s2[g] = s[g]
  OBVIOUS

-----------------------------------------------------------------------------
(* The types, of the runners' state and of the schema's. *)
RunnersTyped ==
    /\ lock \in Runners \cup {Free}
    /\ pc \in [Runners -> Stages]
    /\ lock # Free => pc[lock] \notin {"out", "ok", "lock"}
    /\ same \subseteq Runners
    /\ seen \in [Runners -> {"none", "empty", "rows", "foreign"}]
    /\ kind \in [Runners -> {"none", "fresh", "legacy", "managed"}]
    /\ todo \in [Runners -> SUBSET Files]
    /\ \A r \in Runners : todo[r] \subseteq DOMAIN Corpus[r]
    /\ status \subseteq Runners
    /\ left \in 0..Reruns

SchemaTyped ==
    /\ base \in {"none", "part", "old", "all"}
    /\ table \in {"none", "foreign", "ours"}
    /\ DOMAIN rows \subseteq Files
    /\ table # "ours" => rows = <<>>
    /\ runs \in [Files -> 0..2]

(* A step of a runner leaves the others where they are, *)
Moves(r) ==
    /\ start' = start
    /\ \A q \in Runners : q # r =>
          /\ pc'[q] = pc[q] /\ kind'[q] = kind[q] /\ seen'[q] = seen[q] /\ todo'[q] = todo[q]
          /\ q \in same' <=> q \in same
          /\ lock = q => lock' = q
    /\ faults.kinds \subseteq faults'.kinds

(* and takes nothing out of the schema. *)
Grows ==
    /\ \A f \in Files : runs[f] <= runs'[f]
    /\ Whole => Whole'
    /\ table = "ours" => table' = "ours"
    /\ DOMAIN rows \subseteq DOMAIN rows'
    /\ Unfit /\ Quiet => base' = base

(* What a step has to keep of its own runner, and of the schema. *)
Own(r) == RunnersTyped' /\ Moves(r) /\ Knows(r)' /\ Found(r)' /\ Locked(r)'
SchemaKept == SchemaTyped' /\ JournalIsTrue' /\ Tables' /\ Grows

(* Nothing that happened is undone. *)
LEMMA Remembered ==
    ASSUME faults.kinds \subseteq faults'.kinds
    PROVE  (Quiet' => Quiet) /\ (Checked' => Checked) /\ (Checked => Quiet) /\ (Checked' => Quiet')
  BY DEF Quiet, Checked, Happened

(* The other runners stay sound. *)
LEMMA Frame ==
    ASSUME Inv, NEW r \in Runners, NEW q \in Runners, q # r, Moves(r), SchemaKept,
           Checked' /\ pc[q] \in Past /\ q \in same => Agrees(q)'
    PROVE  Knows(q)' /\ Found(q)' /\ Locked(q)'
  <1>0. /\ TypeOK /\ Knows(q) /\ Found(q) /\ Locked(q) /\ todo \in [Runners -> SUBSET Files]
        /\ Quiet' => Quiet
        /\ Checked' => Checked
    BY Remembered DEF Inv, Moves
  <1>1. /\ start' = start /\ pc'[q] = pc[q] /\ kind'[q] = kind[q] /\ seen'[q] = seen[q]
        /\ todo'[q] = todo[q] /\ (q \in same' <=> q \in same) /\ (lock = q => lock' = q)
    BY DEF Moves
  <1>2. pc[q] \in Past => Min(todo[q]) \in Files
    <2>1. todo[q] \subseteq Files /\ Files \subseteq Nat /\ (pc[q] \in Past => todo[q] # {})
      BY <1>0, MigrateAssumption DEF Knows
    <2> QED
      BY <2>1, MinIsFirst
  <1>b. Baseline \in Files
    BY <1>0, MigrateAssumption DEF TypeOK, Files
  <1>c. runs \in [Files -> 0..2] /\ runs' \in [Files -> 0..2] /\ Grows
    BY <1>0 DEF SchemaKept, SchemaTyped, TypeOK
  <1>3. Knows(q)'
    <2>1. pc[q] = "record" => runs'[Min(todo[q])] > 0
      BY <1>0, <1>2, <1>c DEF Knows, Grows, Past
    <2> QED
      BY <1>0, <1>1, <1>c, <2>1 DEF Knows, Grows, Past
  <1>4. Found(q)'
    <2>1. runs[Baseline] > 0 => runs'[Baseline] > 0
      BY <1>b, <1>c DEF Grows
    <2> HIDE DEF Baseline
    <2> QED
      BY <1>0, <1>1, <1>c, <2>1 DEF Found, Grows, Unfit, Past
  <1>5. Locked(q)'
    BY <1>0, <1>1 DEF Locked, Past
  <1> QED
    BY <1>3, <1>4, <1>5

(* So the invariant is kept when the runner's own part and the schema's are. *)
LEMMA Assemble ==
    ASSUME Inv, NEW r \in Runners, Own(r), SchemaKept,
           faults' \in [kinds : SUBSET Faults, count : 0..MaxFaults],
           \A q \in Runners : q # r /\ Checked' /\ pc[q] \in Past /\ q \in same => Agrees(q)'
    PROVE  Inv'
  <1>1. \A q \in Runners : Knows(q)' /\ Found(q)' /\ Locked(q)'
    BY Frame DEF Own, SchemaKept
  <1>2. TypeOK'
    BY DEF Own, SchemaKept, RunnersTyped, SchemaTyped, TypeOK, Inv, Moves
  <1> QED
    BY <1>1, <1>2 DEF Inv, Own, SchemaKept, RunnersTyped

(* A step that changes no table. *)
LEMMA SchemaLeft ==
    ASSUME Inv, UNCHANGED schema, start' = start, faults.kinds \subseteq faults'.kinds
    PROVE  /\ SchemaKept
           /\ \A q \in Runners : Checked' /\ pc[q] \in Past /\ q \in same => Agrees(q)'
  <1>1. UNCHANGED <<base, table, rows, runs>>
    BY DEF schema
  <1>2. SchemaTyped' /\ JournalIsTrue'
    BY <1>1 DEF SchemaTyped, JournalIsTrue, Inv, TypeOK
  <1>3. Tables'
    BY <1>1, Remembered DEF Tables, Inv, Unfit
  <1>4. Grows
    BY <1>1 DEF Grows, Inv, TypeOK, Whole
  <1>5. \A q \in Runners : Checked' /\ pc[q] \in Past /\ q \in same => Agrees(q)'
    BY <1>1, Remembered DEF Inv, Locked, Agrees, Corpus
  <1> QED
    BY <1>2, <1>3, <1>4, <1>5 DEF SchemaKept

(* The end of a run. *)
LEMMA EndOwn ==
    ASSUME Inv, NEW r \in Runners, NEW s \in {"out", "ok"}, End(r, s), start' = start,
           faults.kinds \subseteq faults'.kinds
    PROVE  Own(r)
  <1>0. TypeOK /\ todo \in [Runners -> SUBSET Files]
    BY DEF Inv
  <1>1. RunnersTyped'
    BY <1>0, MigrateAssumption DEF RunnersTyped, TypeOK, End, Goto, Corpus, Stages
  <1>2. Moves(r)
    BY <1>0 DEF TypeOK, End, Goto, Moves
  <1>3. pc'[r] = s /\ r \notin same'
    BY <1>0 DEF TypeOK, End, Goto
  <1>4. Knows(r)' /\ Found(r)' /\ Locked(r)'
    BY <1>3 DEF Knows, Found, Locked, Past
  <1> QED
    BY <1>1, <1>2, <1>4 DEF Own

(* Taking the lock. *)
LEMMA LockOwn ==
    ASSUME Inv, NEW r \in Runners, start' = start,
           Start(r) \/ AcquireMigrationLock(r) \/ LockNotAcquired(r) \/ BackendPid(r)
    PROVE  Own(r)
  <1>0. /\ TypeOK /\ todo \in [Runners -> SUBSET Files] /\ Knows(r) /\ Found(r) /\ Locked(r)
        /\ Free \notin Runners
    BY MigrateAssumption DEF Inv
  <1> USE <1>0 DEF TypeOK, Own, RunnersTyped, Moves, Knows, Found, Locked, Goto, Corpus, Stages, Past
  <1>1. CASE Start(r)
    <2>1. UNCHANGED <<faults, same, lock, rows, kind, seen, todo, base, table, runs>>
      BY <1>1 DEF Start, schema
    <2>2. pc[r] \in {"out", "ok"} /\ pc' = [pc EXCEPT ![r] = "lock"]
      BY <1>1 DEF Start
    <2>3. left' \in 0..Reruns /\ status' \subseteq Runners
      BY <1>1, MigrateAssumption DEF Start
    <2> QED
      BY <2>1, <2>2, <2>3 DEF Checked, Happened
  <1>2. CASE AcquireMigrationLock(r)
    BY <1>2 DEF AcquireMigrationLock
  <1>3. CASE LockNotAcquired(r)
    BY <1>3, EndOwn DEF LockNotAcquired
  <1>4. CASE BackendPid(r)
    BY <1>4 DEF BackendPid, Checked, Happened
  <1> QED
    BY <1>1, <1>2, <1>3, <1>4

(* Finding out what the database is. *)
LEMMA ClassifyOwn ==
    ASSUME Inv, NEW r \in Runners, start' = start,
           JournalColumns(r) \/ Classify(r) \/ ColumnDrift(r)
    PROVE  Own(r)
  <1>0. /\ TypeOK /\ todo \in [Runners -> SUBSET Files] /\ Knows(r) /\ Found(r) /\ Locked(r)
        /\ Tables
        /\ UNCHANGED faults /\ (Quiet' <=> Quiet) /\ (Checked' <=> Checked)
        /\ UNCHANGED <<base, table, rows, runs>>
    BY DEF Inv, JournalColumns, Classify, ColumnDrift, Quiet, Checked, Happened, schema
  <1> USE <1>0
  <1>1. CASE JournalColumns(r)
    <2>1. /\ UNCHANGED <<lock, same, kind, todo, status, left>>
          /\ pc[r] = "journal" /\ pc' = [pc EXCEPT ![r] = "tables"]
      BY <1>1 DEF JournalColumns, Goto
    <2>2. PICK v \in {"none", "empty", "rows", "foreign"} :
             /\ seen' = [seen EXCEPT ![r] = v]
             /\ table # "ours" => v = table
      <3>1. CASE table # "ours"
        BY <1>1, <3>1 DEF JournalColumns, TypeOK
      <3>2. CASE table = "ours" /\ rows = <<>>
        BY <1>1, <3>2 DEF JournalColumns, JournalHas
      <3>3. CASE table = "ours" /\ rows # <<>>
        BY <1>1, <3>3 DEF JournalColumns, JournalHas
      <3> QED
        BY <3>1, <3>2, <3>3
    <2>3. RunnersTyped' /\ Moves(r)
      BY <2>1, <2>2 DEF TypeOK, RunnersTyped, Moves, Corpus, Stages
    <2>4. pc'[r] = "tables" /\ seen'[r] = v
      BY <2>1, <2>2 DEF TypeOK
    <2>5. Knows(r)' /\ Locked(r)'
      BY <2>1, <2>4 DEF Knows, Locked, Past
    <2>6. Found(r)'
      BY <2>2, <2>4 DEF Found, Tables, Past, Unfit
    <2> QED
      BY <2>3, <2>5, <2>6 DEF Own
  <1>2. CASE Classify(r)
    <2> DEFINE k == ClassifyDatabase(seen[r], base)
    <2>1. CASE k \in {"foreign", "indeterminate"}
      <3>1. End(r, "out")
        BY <1>2, <2>1 DEF Classify
      <3> QED
        BY <3>1, EndOwn
    <2>2. CASE k \notin {"foreign", "indeterminate"}
      <3>1. /\ UNCHANGED <<lock, same, seen, todo, status, left>>
            /\ pc[r] = "tables" /\ kind' = [kind EXCEPT ![r] = k]
            /\ pc' = [pc EXCEPT ![r] = IF k = "legacy" THEN "columns" ELSE "ensure"]
        BY <1>2, <2>2 DEF Classify, Goto
      <3>2. /\ k \in {"managed", "fresh", "legacy"}
            /\ k = "managed" => seen[r] = "rows"
            /\ k = "fresh" => base = "none"
            /\ k = "legacy" => base \in {"old", "all"} /\ seen[r] # "foreign"
        BY <2>2 DEF TypeOK, ClassifyDatabase, TablesSay
      <3> HIDE DEF k
      <3>3. RunnersTyped' /\ Moves(r)
        BY <3>1, <3>2 DEF TypeOK, RunnersTyped, Moves, Corpus, Stages
      <3>4. kind'[r] = k /\ pc'[r] = IF k = "legacy" THEN "columns" ELSE "ensure"
        BY <3>1 DEF TypeOK
      <3>5. Knows(r)' /\ Locked(r)'
        BY <3>1, <3>4 DEF Knows, Locked, Past
      <3>6. ASSUME Quiet, Unfit PROVE k = "legacy" /\ base = "old"
        <4>1. seen[r] = start.table /\ base = start.base /\ start.table \in {"none", "foreign"}
              /\ start.base \in {"none", "part", "old", "all"}
          BY <3>1, <3>6, MigrateAssumption DEF Found, Tables, TypeOK
        <4>2. seen[r] # "foreign" => base \in {"part", "old"}
          BY <3>6, <4>1 DEF Unfit
        <4>3. seen[r] # "foreign"
          BY <2>2 DEF TypeOK, ClassifyDatabase, TablesSay, k
        <4> QED
          BY <2>2, <4>1, <4>2, <4>3 DEF TypeOK, ClassifyDatabase, TablesSay, k
      <3>7. Found(r)'
        BY <3>1, <3>2, <3>4, <3>6 DEF Found, Tables, Past, Unfit
      <3> QED
        BY <3>3, <3>5, <3>7 DEF Own
    <2> QED
      BY <2>1, <2>2
  <1>3. CASE ColumnDrift(r)
    <2>1. CASE base # "all"
      BY <1>3, <2>1, EndOwn DEF ColumnDrift
    <2>2. CASE base = "all"
      <3>1. /\ UNCHANGED <<lock, same, seen, kind, todo, status, left>>
            /\ pc[r] = "columns" /\ pc' = [pc EXCEPT ![r] = "ensure"]
        BY <1>3, <2>2 DEF ColumnDrift, Goto
      <3>2. RunnersTyped' /\ Moves(r)
        BY <3>1 DEF TypeOK, RunnersTyped, Moves, Corpus, Stages
      <3>3. pc'[r] = "ensure"
        BY <3>1 DEF TypeOK
      <3>4. Knows(r)' /\ Locked(r)'
        BY <2>2, <3>1, <3>3 DEF Knows, Locked, Past, Whole
      <3>5. Found(r)'
        BY <2>2, <3>1, <3>3 DEF Found, Knows, Past, Unfit
      <3> QED
        BY <3>2, <3>4, <3>5 DEF Own
    <2> QED
      BY <2>1, <2>2
  <1> QED
    BY <1>1, <1>2, <1>3

(* Deciding what to apply, and looking at the session once more before each file. *)
LEMMA PlanOwn ==
    ASSUME Inv, NEW r \in Runners, start' = start, PlanPending(r) \/ AssertLockHeld(r)
    PROVE  Own(r)
  <1>0. /\ TypeOK /\ todo \in [Runners -> SUBSET Files] /\ Knows(r) /\ Found(r) /\ Locked(r)
        /\ UNCHANGED faults /\ (Quiet' <=> Quiet) /\ (Checked' <=> Checked)
        /\ UNCHANGED <<base, table, rows, runs>>
    BY DEF Inv, PlanPending, AssertLockHeld, Quiet, Checked, Happened, schema
  <1> USE <1>0
  <1>1. CASE PlanPending(r)
    <2>1. CASE End(r, "out") \/ End(r, "ok")
      BY <2>1, EndOwn
    <2>2. CASE ~(End(r, "out") \/ End(r, "ok"))
      <3>1. /\ UNCHANGED <<lock, same, seen, kind, status, left>>
            /\ pc[r] = "plan" /\ pc' = [pc EXCEPT ![r] = "assert"]
            /\ todo' = [todo EXCEPT ![r] = ToApply(r)]
            /\ ~Refused(r) /\ ToApply(r) # {}
        BY <1>1, <2>2 DEF PlanPending, Goto
      <3>2. ToApply(r) \subseteq DOMAIN Corpus[r] /\ ToApply(r) \subseteq Files
        BY DEF ToApply, Files, TypeOK, Corpus
      <3>3. RunnersTyped' /\ Moves(r)
        BY <3>1, <3>2 DEF TypeOK, RunnersTyped, Moves, Corpus, Stages
      <3>4. pc'[r] = "assert" /\ todo'[r] # {}
        BY <3>1 DEF TypeOK
      <3>5. Agrees(r)'
        <4>1. Mismatched(r) = {} /\ Unknown(r) = {}
          BY <3>1 DEF Refused
        <4> QED
          BY <4>1 DEF Mismatched, Unknown, Agrees, Corpus
      <3>6. Knows(r)' /\ Locked(r)'
        BY <3>1, <3>4, <3>5 DEF Knows, Locked, Past
      <3>7. table = "ours" /\ (kind[r] = "fresh" \/ Baseline \in DOMAIN rows)
        BY <3>1 DEF Refused
      <3>8. Found(r)'
        BY <3>1, <3>4, <3>7 DEF Found, Past, Unfit
      <3> QED
        BY <3>3, <3>6, <3>8 DEF Own
    <2> QED
      BY <2>1, <2>2
  <1>2. CASE AssertLockHeld(r)
    <2>1. CASE r \notin same
      BY <1>2, <2>1, EndOwn DEF AssertLockHeld
    <2>2. CASE r \in same
      <3>1. /\ UNCHANGED <<lock, same, seen, kind, todo, status, left>>
            /\ pc[r] = "assert" /\ pc' = [pc EXCEPT ![r] = "apply"]
        BY <1>2, <2>2 DEF AssertLockHeld, Goto
      <3>2. RunnersTyped' /\ Moves(r)
        BY <3>1 DEF TypeOK, RunnersTyped, Moves, Corpus, Stages
      <3>3. pc'[r] = "apply"
        BY <3>1 DEF TypeOK
      <3>4. Agrees(r)' <=> Agrees(r)
        BY DEF Agrees, Corpus
      <3>5. Knows(r)' /\ Locked(r)'
        BY <2>2, <3>1, <3>3, <3>4 DEF Knows, Locked, Past
      <3>6. Found(r)'
        BY <3>1, <3>3 DEF Found, Past, Unfit
      <3> QED
        BY <3>2, <3>5, <3>6 DEF Own
    <2> QED
      BY <2>1, <2>2
  <1> QED
    BY <1>1, <1>2

(* A connection is replaced. *)
LEMMA ReconnectOwn ==
    ASSUME Inv, NEW r \in Runners, Reconnect(r)
    PROVE  /\ Own(r) /\ start' = start /\ UNCHANGED schema
           /\ faults.kinds \subseteq faults'.kinds
           /\ faults' \in [kinds : SUBSET Faults, count : 0..MaxFaults]
  <1>0. /\ TypeOK /\ todo \in [Runners -> SUBSET Files] /\ Knows(r) /\ Found(r) /\ Locked(r)
        /\ UNCHANGED <<start, base, table, rows, runs, pc, seen, kind, todo, status, left>>
        /\ pc[r] \notin {"out", "ok", "lock"} /\ same' = same \ {r}
        /\ lock' = IF lock = r THEN Free ELSE lock
        /\ Free \notin Runners
    BY MigrateAssumption DEF Inv, Reconnect, schema
  <1>1. /\ faults' \in [kinds : SUBSET Faults, count : 0..MaxFaults]
        /\ faults.kinds \subseteq faults'.kinds
        /\ WhenReplaced(r) \in faults'.kinds
    BY <1>0, MigrateAssumption DEF Reconnect, Fault, TypeOK
  <1>2. RunnersTyped' /\ Moves(r)
    BY <1>0, <1>1 DEF TypeOK, RunnersTyped, Moves, Corpus
  <1>3. Knows(r)'
    BY <1>0 DEF Knows, Whole
  <1>4. Found(r)'
    BY <1>0, <1>1, Remembered DEF Found, Unfit
  <1>5. pc[r] \in {"pid", "apply", "record"} => ~Checked'
    <2>1. pc[r] \in {"pid", "apply", "record"} => WhenReplaced(r) \in {"pid", "late"}
      BY DEF WhenReplaced
    <2> QED
      BY <1>1, <2>1 DEF Checked, Happened
  <1>6. Locked(r)'
    BY <1>0, <1>5 DEF Locked, Past
  <1> QED
    BY <1>0, <1>1, <1>2, <1>3, <1>4, <1>6 DEF Own, schema

-----------------------------------------------------------------------------
(* The journal's table is created. *)
LEMMA EnsureKept ==
    ASSUME Inv, NEW r \in Runners, start' = start, EnsureJournal(r)
    PROVE  /\ Own(r) /\ SchemaKept /\ UNCHANGED faults /\ rows' = rows
  <1>0. /\ TypeOK /\ todo \in [Runners -> SUBSET Files] /\ Knows(r) /\ Found(r) /\ Locked(r)
        /\ JournalIsTrue /\ Tables
        /\ UNCHANGED faults /\ (Quiet' <=> Quiet) /\ (Checked' <=> Checked)
        /\ UNCHANGED <<base, rows, runs, lock, same, seen, kind, todo, status, left>>
        /\ pc[r] = "ensure"
        /\ pc' = [pc EXCEPT ![r] = IF kind[r] = "legacy" THEN "adopt" ELSE "plan"]
        /\ table' = IF seen[r] = "none" /\ table = "none" THEN "ours" ELSE table
    BY DEF Inv, EnsureJournal, Goto, Quiet, Checked, Happened
  <1>1. RunnersTyped' /\ Moves(r)
    BY <1>0 DEF TypeOK, RunnersTyped, Moves, Corpus, Stages
  <1>2. pc'[r] = IF kind[r] = "legacy" THEN "adopt" ELSE "plan"
    BY <1>0 DEF TypeOK
  <1>3. Knows(r)' /\ Locked(r)'
    BY <1>0, <1>2 DEF Knows, Locked, Past, Whole
  <1>4. Found(r)'
    BY <1>0, <1>2 DEF Found, Past, Unfit
  <1>5. SchemaTyped' /\ JournalIsTrue'
    BY <1>0 DEF SchemaTyped, TypeOK, JournalIsTrue
  <1>6. Tables'
    BY <1>0 DEF Tables, Found, Unfit
  <1>7. Grows
    BY <1>0 DEF Grows, TypeOK, Whole
  <1> QED
    BY <1>0, <1>1, <1>3, <1>4, <1>5, <1>6, <1>7 DEF Own, SchemaKept

(* A row is recorded: what is so of the journal then. *)
LEMMA RowRecorded ==
    ASSUME Inv, NEW r \in Runners, NEW f \in Files, RowFor(r, f), start' = start
    PROVE  /\ DOMAIN rows' = DOMAIN rows \union {f} /\ DOMAIN rows' \subseteq Files
           /\ rows'[f] = Corpus[r][f]
           /\ \A g \in DOMAIN rows : g # f => rows'[g] = rows[g]
           /\ f \in DOMAIN Corpus[r] /\ Agrees(r) => Agrees(r)'
  <1>1. /\ DOMAIN rows' = DOMAIN rows \union {f}
        /\ rows'[f] = Corpus[r][f]
        /\ \A g \in DOMAIN rows : g # f => rows'[g] = rows[g]
    BY RowAdded DEF RowFor
  <1>2. DOMAIN rows \subseteq Files
    BY DEF Inv, TypeOK
  <1> QED
    BY <1>1, <1>2 DEF Agrees, Corpus

(* Where the baseline is adopted, no runner has gone past its plan: it would have
   found the baseline recorded, or the database empty. *)
LEMMA AdoptKept ==
    ASSUME Inv, NEW r \in Runners, start' = start, Adopt(r)
    PROVE  /\ Own(r) /\ SchemaKept /\ UNCHANGED faults
           /\ \A q \in Runners : q # r /\ Checked' /\ pc[q] \in Past /\ q \in same => Agrees(q)'
  <1>0. /\ TypeOK /\ todo \in [Runners -> SUBSET Files] /\ Knows(r) /\ Found(r) /\ Locked(r)
        /\ JournalIsTrue /\ Tables
        /\ UNCHANGED faults /\ (Quiet' <=> Quiet) /\ (Checked' <=> Checked)
        /\ UNCHANGED <<base, table, runs>>
        /\ pc[r] = "adopt" /\ kind[r] = "legacy"
    BY DEF Inv, Adopt, Quiet, Checked, Happened, Knows
  <1>b. Baseline \in Files /\ Baseline \notin NoTx
    BY <1>0, MigrateAssumption DEF TypeOK, Files
  <1>1. CASE Insertable(Baseline)
    <2>1. /\ RowFor(r, Baseline) /\ pc' = [pc EXCEPT ![r] = "plan"]
          /\ UNCHANGED <<lock, same, seen, kind, todo, status, left>>
      BY <1>1 DEF Adopt, Goto
    <2>2. /\ DOMAIN rows' = DOMAIN rows \union {Baseline} /\ DOMAIN rows' \subseteq Files
          /\ table = "ours" /\ Baseline \notin DOMAIN rows
      BY <1>1, <1>b, <2>1, RowRecorded DEF Insertable
    <2>3. RunnersTyped' /\ Moves(r)
      BY <1>0, <2>1 DEF TypeOK, RunnersTyped, Moves, Corpus, Stages
    <2>4. pc'[r] = "plan"
      BY <1>0, <2>1 DEF TypeOK
    <2>5. Knows(r)' /\ Locked(r)'
      BY <1>0, <2>1, <2>4 DEF Knows, Locked, Past
    <2>6. Found(r)'
      BY <1>0, <2>1, <2>4 DEF Found, Past, Unfit
    <2>7. SchemaTyped'
      BY <1>0, <2>2 DEF SchemaTyped, TypeOK
    <2>8. JournalIsTrue'
      BY <1>0, <2>2 DEF JournalIsTrue, Knows, Whole
    <2>9. Tables'
      BY <1>0, <2>2 DEF Tables, Unfit
    <2>10. Grows
      BY <1>0, <2>2 DEF Grows, TypeOK, Whole
    <2>11. ASSUME NEW q \in Runners, Checked', pc[q] \in Past PROVE FALSE
      <3>1. Quiet /\ Found(q)
        BY <1>0, <2>11, Remembered DEF Inv
      <3>2. start.base = "none"
        BY <2>2, <2>11, <3>1 DEF Found
      <3>3. ~(runs[Baseline] > 0)
        BY <1>0, <1>b, <2>2, <3>1 DEF Tables
      <3> HIDE DEF Baseline
      <3> QED
        BY <1>0, <3>1, <3>2, <3>3 DEF Found
    <2> QED
      BY <1>0, <2>3, <2>5, <2>6, <2>7, <2>8, <2>9, <2>10, <2>11 DEF Own, SchemaKept
  <1>2. CASE ~Insertable(Baseline)
    <2>1. End(r, "out") /\ rows' = rows
      BY <1>2 DEF Adopt
    <2>2. UNCHANGED schema
      BY <1>0, <2>1 DEF schema
    <2> QED
      BY <1>0, <2>1, <2>2, EndOwn, SchemaLeft
  <1> QED
    BY <1>1, <1>2

(* A script takes effect. *)
LEMMA ExecutedFacts ==
    ASSUME Inv, NEW f \in Files, Executed(f)
    PROVE  /\ runs' \in [Files -> 0..2]
           /\ \A g \in Files : runs[g] <= runs'[g] /\ (g # f => runs'[g] = runs[g])
           /\ runs'[f] > 0 /\ (runs[f] = 0 => runs'[f] = 1)
           /\ base' \in {"none", "part", "old", "all"} /\ (Whole => Whole')
           /\ f = Baseline => base' = "all"
           /\ f # Baseline => (base' = "none" <=> base = "none")
  <1>0. /\ TypeOK /\ runs \in [Files -> 0..2] /\ Drops \subseteq Files \ {Baseline}
        /\ runs' = [runs EXCEPT ![f] = IF runs[f] < 2 THEN runs[f] + 1 ELSE runs[f]]
    BY MigrateAssumption DEF Inv, TypeOK, Executed
  <1>1. /\ runs' \in [Files -> 0..2]
        /\ \A g \in Files : runs[g] <= runs'[g] /\ (g # f => runs'[g] = runs[g])
        /\ runs'[f] > 0 /\ (runs[f] = 0 => runs'[f] = 1)
    BY <1>0
  <1>2. CASE f = Baseline
    <2>1. base' = "all"
      BY <1>0, <1>2 DEF Executed
    <2> QED
      BY <1>1, <1>2, <2>1 DEF Whole
  <1>3. CASE f # Baseline
    <2>1. CASE f \in Drops /\ base = "all"
      <3>1. base' = "part"
        BY <1>3, <2>1 DEF Executed
      <3> QED
        BY <1>1, <1>3, <2>1, <3>1 DEF Whole
    <2>2. CASE ~(f \in Drops /\ base = "all")
      <3>1. base' = base
        BY <1>3, <2>2 DEF Executed
      <3>2. Whole => Whole'
        <4>1. CASE base = "all"
          BY <3>1, <4>1 DEF Whole
        <4>2. ASSUME NEW g \in Drops, runs[g] > 0 PROVE Whole'
          <5>1. g \in Files /\ runs'[g] > 0
            BY <1>0, <1>1, <4>2
          <5> QED
            BY <4>2, <5>1 DEF Whole
        <4> QED
          BY <4>1, <4>2 DEF Whole
      <3> QED
        BY <1>0, <1>1, <1>3, <3>1, <3>2 DEF TypeOK
    <2> QED
      BY <2>1, <2>2
  <1> QED
    BY <1>2, <1>3

(* The file a runner applies is one of those it has to, and a file of its version. *)
LEMMA Applies ==
    ASSUME Inv, NEW r \in Runners, pc[r] \in {"apply", "record"}
    PROVE  /\ Min(todo[r]) \in todo[r] /\ Min(todo[r]) \in Files
           /\ Min(todo[r]) \in DOMAIN Corpus[r]
  <1>1. /\ todo[r] \subseteq Files /\ Files \subseteq Nat /\ todo[r] # {}
        /\ todo[r] \subseteq DOMAIN Corpus[r]
    BY MigrateAssumption DEF Inv, TypeOK, Knows, Past
  <1> QED
    BY <1>1, MinIsFirst

(* It goes on with the next one. *)
LEMMA AppliedOwn ==
    ASSUME Inv, NEW r \in Runners, pc[r] \in {"apply", "record"}, start' = start,
           UNCHANGED <<table, faults>>, DOMAIN rows \subseteq DOMAIN rows',
           NEW f, f = Min(todo[r]), Applied(r, f), Agrees(r) => Agrees(r)'
    PROVE  Own(r)
  <1>0. /\ TypeOK /\ todo \in [Runners -> SUBSET Files] /\ Knows(r) /\ Found(r) /\ Locked(r)
        /\ (Quiet' <=> Quiet) /\ (Checked' <=> Checked)
        /\ f \in todo[r]
    BY Applies DEF Inv, Quiet, Checked, Happened
  <1>1. CASE todo[r] = {f}
    BY <1>0, <1>1, EndOwn DEF Applied
  <1>2. CASE todo[r] # {f}
    <2>1. /\ UNCHANGED <<lock, same, seen, kind, status, left>>
          /\ pc' = [pc EXCEPT ![r] = "assert"] /\ todo' = [todo EXCEPT ![r] = todo[r] \ {f}]
      BY <1>2 DEF Applied, Goto
    <2>2. RunnersTyped' /\ Moves(r)
      BY <1>0, <2>1 DEF TypeOK, RunnersTyped, Moves, Corpus, Stages
    <2>3. pc'[r] = "assert" /\ todo'[r] # {}
      BY <1>0, <1>2, <2>1 DEF TypeOK
    <2>4. Knows(r)' /\ Locked(r)'
      BY <1>0, <2>1, <2>3 DEF Knows, Locked, Past
    <2>5. Found(r)'
      BY <1>0, <2>1, <2>3 DEF Found, Past, Unfit
    <2> QED
      BY <2>2, <2>4, <2>5 DEF Own
  <1> QED
    BY <1>1, <1>2

(* Nobody else has passed the comparison while a runner has. *)
LEMMA AloneAfterLook ==
    ASSUME Inv, NEW r \in Runners, pc[r] \in {"apply", "record"}, UNCHANGED faults
    PROVE  \A q \in Runners : q # r /\ Checked' /\ pc[q] \in Past /\ q \in same => Agrees(q)'
  BY DEF Inv, Locked, Checked, Happened, Past

(* A file and its row, in one transaction. *)
LEMMA ApplyKept ==
    ASSUME Inv, NEW r \in Runners, start' = start, ApplyMigration(r)
    PROVE  /\ Own(r) /\ SchemaKept /\ UNCHANGED faults
           /\ \A q \in Runners : q # r /\ Checked' /\ pc[q] \in Past /\ q \in same => Agrees(q)'
  <1> DEFINE f == Min(todo[r])
  <1>0. /\ TypeOK /\ Found(r) /\ JournalIsTrue /\ Tables
        /\ UNCHANGED <<table, faults>> /\ (Quiet' <=> Quiet)
        /\ pc[r] = "apply" /\ f \notin NoTx
    BY DEF Inv, ApplyMigration, Quiet, Happened
  <1>f. f \in todo[r] /\ f \in Files /\ f \in DOMAIN Corpus[r]
    BY <1>0, Applies
  <1>1. CASE Runnable(f) /\ Insertable(f)
    <2>1. Executed(f) /\ RowFor(r, f) /\ Applied(r, f) /\ table = "ours" /\ f \notin DOMAIN rows
      BY <1>1 DEF ApplyMigration, Insertable
    <2> HIDE DEF f
    <2>2. /\ DOMAIN rows' = DOMAIN rows \union {f} /\ DOMAIN rows' \subseteq Files
          /\ Agrees(r) => Agrees(r)'
      BY <1>f, <2>1, RowRecorded
    <2>3. /\ runs' \in [Files -> 0..2]
          /\ \A g \in Files : runs[g] <= runs'[g] /\ (g # f => runs'[g] = runs[g])
          /\ runs'[f] > 0 /\ (runs[f] = 0 => runs'[f] = 1)
          /\ base' \in {"none", "part", "old", "all"} /\ (Whole => Whole')
          /\ f = Baseline => base' = "all"
          /\ f # Baseline => (base' = "none" <=> base = "none")
      BY <1>f, <2>1, ExecutedFacts
    <2>4. Own(r)
      BY <1>0, <2>1, <2>2, AppliedOwn DEF f
    <2>5. SchemaTyped'
      BY <1>0, <2>1, <2>2, <2>3 DEF SchemaTyped
    <2>6. JournalIsTrue'
      <3>1. ASSUME NEW g \in DOMAIN rows' \ {Baseline} PROVE runs'[g] > 0
        <4>1. CASE g = f
          BY <2>3, <4>1
        <4>2. CASE g # f
          <5>1. g \in Files /\ runs[g] > 0 /\ runs'[g] = runs[g]
            BY <1>0, <2>2, <2>3, <4>2 DEF JournalIsTrue
          <5> QED
            BY <5>1
        <4> QED
          BY <4>1, <4>2
      <3>2. Baseline \in DOMAIN rows' => Whole'
        <4>1. CASE f = Baseline
          BY <2>3, <4>1 DEF Whole
        <4>2. CASE f # Baseline
          <5>1. Baseline \in DOMAIN rows => Whole
            BY <1>0 DEF JournalIsTrue, Whole
          <5> QED
            BY <2>2, <2>3, <4>2, <5>1
        <4> QED
          BY <4>1, <4>2
      <3> QED
        BY <3>1, <3>2 DEF JournalIsTrue, Whole
    <2>b. Baseline \in Files
      BY <1>0, MigrateAssumption DEF TypeOK, Files
    <2>7. Tables'
      <3> SUFFICES ASSUME Quiet' PROVE Tables'
        BY DEF Tables
      <3>0. Quiet
        BY <1>0
      <3>1. \A g \in Files \ NoTx : runs'[g] <= 1 /\ (runs'[g] > 0 => g \in DOMAIN rows')
        <4>1. ASSUME NEW g \in Files \ NoTx, g # f
              PROVE  runs'[g] <= 1 /\ (runs'[g] > 0 => g \in DOMAIN rows')
          BY <1>0, <2>2, <2>3, <3>0, <4>1 DEF Tables
        <4>2. runs[f] = 0
          BY <1>0, <1>f, <2>1, <3>0 DEF Tables, TypeOK
        <4> QED
          BY <2>2, <2>3, <4>1, <4>2
      <3>2. base' = "none" => start.base = "none"
        BY <1>0, <2>3, <3>0 DEF Tables
      <3>3. base' # "none" => start.base # "none" \/ runs'[Baseline] > 0
        <4>1. CASE f = Baseline
          BY <2>3, <4>1
        <4>2. CASE f # Baseline
          <5>1. runs'[Baseline] = runs[Baseline]
            BY <2>3, <2>b, <4>2
          <5> QED
            BY <1>0, <2>3, <3>0, <4>2, <5>1 DEF Tables
        <4> QED
          BY <4>1, <4>2
      <3>4. ~Unfit
        BY <1>0, <3>0 DEF Found, Past
      <3> QED
        BY <1>0, <2>1, <3>1, <3>2, <3>3, <3>4 DEF Tables, Unfit
    <2>8. Grows
      <3>1. ~(Unfit /\ Quiet)
        BY <1>0 DEF Found, Past
      <3> QED
        BY <1>0, <2>2, <2>3, <3>1 DEF Grows
    <2> QED
      BY <1>0, <2>4, <2>5, <2>6, <2>7, <2>8, AloneAfterLook DEF SchemaKept
  <1>2. CASE ~(Runnable(f) /\ Insertable(f))
    <2>1. End(r, "out") /\ UNCHANGED <<base, rows, runs>>
      BY <1>2 DEF ApplyMigration
    <2>2. UNCHANGED schema
      BY <1>0, <2>1 DEF schema
    <2> QED
      BY <1>0, <2>1, <2>2, EndOwn, SchemaLeft
  <1> QED
    BY <1>1, <1>2

(* A script without a transaction has run, whatever became of its runner. *)
LEMMA ScriptKept ==
    ASSUME Inv, NEW r \in Runners, pc[r] = "apply", Min(todo[r]) \in NoTx, Executed(Min(todo[r])),
           UNCHANGED <<start, table, rows>>, faults.kinds \subseteq faults'.kinds
    PROVE  SchemaKept
  <1> DEFINE f == Min(todo[r])
  <1>0. /\ TypeOK /\ Found(r) /\ JournalIsTrue /\ Tables /\ (Quiet' => Quiet)
        /\ f \in NoTx /\ f # Baseline
    BY Remembered, MigrateAssumption DEF Inv
  <1>f. f \in Files /\ Executed(f)
    BY Applies
  <1> HIDE DEF f
  <1>3. /\ runs' \in [Files -> 0..2]
        /\ \A g \in Files : runs[g] <= runs'[g] /\ (g # f => runs'[g] = runs[g])
        /\ base' \in {"none", "part", "old", "all"} /\ (Whole => Whole')
        /\ base' = "none" <=> base = "none"
    BY <1>0, <1>f, ExecutedFacts
  <1>4. SchemaTyped'
    BY <1>0, <1>3 DEF SchemaTyped, TypeOK
  <1>5. JournalIsTrue'
    <2>1. ASSUME NEW g \in DOMAIN rows \ {Baseline} PROVE runs'[g] > 0
      <3>1. g \in Files /\ runs[g] > 0 /\ runs[g] <= runs'[g] /\ runs[g] \in 0..2 /\ runs'[g] \in 0..2
        BY <1>0, <1>3 DEF JournalIsTrue, TypeOK
      <3> QED
        BY <3>1
    <2>2. Baseline \in DOMAIN rows => Whole'
      BY <1>0, <1>3 DEF JournalIsTrue, Whole
    <2> QED
      BY <2>1, <2>2 DEF JournalIsTrue, Whole
  <1>6. Tables'
    <2> SUFFICES ASSUME Quiet' PROVE Tables'
      BY DEF Tables
    <2>b. Baseline \in Files
      BY <1>0, MigrateAssumption DEF TypeOK, Files
    <2>1. \A g \in Files \ NoTx : runs'[g] <= 1 /\ (runs'[g] > 0 => g \in DOMAIN rows')
      BY <1>0, <1>3 DEF Tables
    <2>2. runs'[Baseline] = runs[Baseline]
      BY <1>0, <1>3, <2>b
    <2>3. ~Unfit /\ table = "ours"
      BY <1>0 DEF Found, Past
    <2> HIDE DEF Baseline
    <2>4. (base' = "none" => start.base = "none")
          /\ (base' # "none" => start.base # "none" \/ runs'[Baseline] > 0)
      BY <1>0, <1>3, <2>2 DEF Tables
    <2> QED
      BY <2>1, <2>3, <2>4 DEF Tables, Unfit
  <1>7. Grows
    <2>1. ~(Unfit /\ Quiet)
      BY <1>0 DEF Found, Past
    <2> QED
      BY <1>0, <1>3, <2>1 DEF Grows
  <1> QED
    BY <1>4, <1>5, <1>6, <1>7 DEF SchemaKept

(* It runs, and its row is still to be written. *)
LEMMA RunScriptKept ==
    ASSUME Inv, NEW r \in Runners, start' = start, RunScript(r)
    PROVE  Own(r) /\ SchemaKept /\ UNCHANGED <<faults, rows>>
  <1>0. /\ TypeOK /\ todo \in [Runners -> SUBSET Files] /\ Knows(r) /\ Found(r) /\ Locked(r)
        /\ UNCHANGED <<table, rows, lock, same, seen, kind, todo, status, left, faults>>
        /\ (Quiet' <=> Quiet) /\ (Checked' <=> Checked)
        /\ pc[r] = "apply" /\ pc' = [pc EXCEPT ![r] = "record"]
        /\ Min(todo[r]) \in NoTx /\ Executed(Min(todo[r]))
    BY DEF Inv, RunScript, Goto, Quiet, Checked, Happened
  <1>1. SchemaKept
    BY <1>0, ScriptKept
  <1>2. RunnersTyped' /\ Moves(r)
    BY <1>0 DEF TypeOK, RunnersTyped, Moves, Corpus, Stages
  <1>3. pc'[r] = "record" /\ runs'[Min(todo[r])] > 0
    BY <1>0, Applies, ExecutedFacts DEF TypeOK
  <1>4. Knows(r)'
    BY <1>0, <1>3 DEF Knows, Past
  <1>5. Found(r)'
    BY <1>0, <1>3 DEF Found, Past, Unfit
  <1>6. Agrees(r)' <=> Agrees(r)
    BY <1>0 DEF Agrees, Corpus
  <1>7. Locked(r)'
    BY <1>0, <1>3, <1>6 DEF Locked, Past
  <1> QED
    BY <1>0, <1>1, <1>2, <1>4, <1>5, <1>7 DEF Own

(* Its row is written. *)
LEMMA RecordKept ==
    ASSUME Inv, NEW r \in Runners, start' = start, RecordApplied(r)
    PROVE  /\ Own(r) /\ SchemaKept /\ UNCHANGED faults
           /\ \A q \in Runners : q # r /\ Checked' /\ pc[q] \in Past /\ q \in same => Agrees(q)'
  <1> DEFINE f == Min(todo[r])
  <1>0. /\ TypeOK /\ Knows(r) /\ JournalIsTrue /\ Tables
        /\ UNCHANGED <<base, table, runs, faults>> /\ (Quiet' <=> Quiet)
        /\ pc[r] = "record" /\ f \in NoTx /\ f # Baseline /\ runs[f] > 0
    BY MigrateAssumption DEF Inv, RecordApplied, Quiet, Happened, Knows
  <1>f. f \in todo[r] /\ f \in Files /\ f \in DOMAIN Corpus[r]
    BY <1>0, Applies
  <1>1. CASE Insertable(f)
    <2>1. RowFor(r, f) /\ Applied(r, f) /\ table = "ours"
      BY <1>1 DEF RecordApplied, Insertable
    <2> HIDE DEF f
    <2>2. /\ DOMAIN rows' = DOMAIN rows \union {f} /\ DOMAIN rows' \subseteq Files
          /\ Agrees(r) => Agrees(r)'
      BY <1>f, <2>1, RowRecorded
    <2>3. Own(r)
      BY <1>0, <2>1, <2>2, AppliedOwn DEF f
    <2>4. SchemaTyped'
      BY <1>0, <2>1, <2>2 DEF SchemaTyped, TypeOK
    <2>5. JournalIsTrue'
      BY <1>0, <2>2 DEF JournalIsTrue
    <2>6. Tables'
      BY <1>0, <2>2 DEF Tables, Unfit
    <2>7. Grows
      BY <1>0, <2>2 DEF Grows, TypeOK, Whole
    <2> QED
      BY <1>0, <2>3, <2>4, <2>5, <2>6, <2>7, AloneAfterLook DEF SchemaKept
  <1>2. CASE ~Insertable(f)
    <2>1. End(r, "out") /\ rows' = rows
      BY <1>2 DEF RecordApplied
    <2>2. UNCHANGED schema
      BY <1>0, <2>1 DEF schema
    <2> QED
      BY <1>0, <2>1, <2>2, EndOwn, SchemaLeft
  <1> QED
    BY <1>1, <1>2

(* A runner dies. *)
LEMMA DieKept ==
    ASSUME Inv, NEW r \in Runners, Die(r)
    PROVE  Inv'
  <1>1. /\ faults' \in [kinds : SUBSET Faults, count : 0..MaxFaults]
        /\ faults.kinds \subseteq faults'.kinds
    BY MigrateAssumption DEF Inv, TypeOK, Die, Fault
  <1>2. End(r, "out") /\ UNCHANGED <<start, table, rows>>
    BY DEF Die
  <1>3. Own(r)
    BY <1>1, <1>2, EndOwn
  <1>4. SchemaKept
    <2>1. CASE UNCHANGED <<base, runs>>
      BY <1>1, <1>2, <2>1, SchemaLeft DEF schema
    <2>2. CASE pc[r] = "apply" /\ Min(todo[r]) \in NoTx /\ Executed(Min(todo[r]))
      BY <1>1, <1>2, <2>2, ScriptKept
    <2> QED
      BY <2>1, <2>2 DEF Die
  <1>5. \A q \in Runners : Checked' /\ pc[q] \in Past /\ q \in same => Agrees(q)'
    BY <1>1, <1>2, Remembered DEF Inv, Locked, Agrees, Corpus
  <1> QED
    BY <1>1, <1>3, <1>4, <1>5, Assemble

(* Every step of a runner keeps the invariant. *)
LEMMA RunnerKeeps ==
    ASSUME Inv, NEW r \in Runners, Start(r) \/ Step(r) \/ Die(r) \/ Reconnect(r)
    PROVE  Inv'
  <1>0. faults \in [kinds : SUBSET Faults, count : 0..MaxFaults]
    BY DEF Inv, TypeOK
  <1>1. CASE /\ start' = start
             /\ \/ Start(r) \/ AcquireMigrationLock(r) \/ LockNotAcquired(r) \/ BackendPid(r)
                \/ JournalColumns(r) \/ Classify(r) \/ ColumnDrift(r)
                \/ PlanPending(r) \/ AssertLockHeld(r)
    <2>1. start' = start /\ UNCHANGED schema /\ UNCHANGED faults
      BY <1>1
      DEF Start, AcquireMigrationLock, LockNotAcquired, BackendPid, JournalColumns, Classify,
          ColumnDrift, PlanPending, AssertLockHeld
    <2>2. Own(r)
      BY <1>1, <2>1, LockOwn, ClassifyOwn, PlanOwn
    <2> QED
      BY <1>0, <2>1, <2>2, SchemaLeft, Assemble
  <1>2. CASE Reconnect(r)
    BY <1>2, ReconnectOwn, SchemaLeft, Assemble
  <1>3. CASE start' = start /\ (EnsureJournal(r) \/ RunScript(r))
    <2>1. Own(r) /\ SchemaKept /\ UNCHANGED <<faults, rows>>
      BY <1>3, EnsureKept, RunScriptKept
    <2>2. \A q \in Runners : Checked' /\ pc[q] \in Past /\ q \in same => Agrees(q)'
      BY <1>3, <2>1 DEF Inv, Locked, Agrees, Corpus, Checked, Happened
    <2> QED
      BY <1>0, <2>1, <2>2, Assemble
  <1>4. CASE start' = start /\ (Adopt(r) \/ ApplyMigration(r) \/ RecordApplied(r))
    BY <1>0, <1>4, AdoptKept, ApplyKept, RecordKept, Assemble
  <1>5. CASE Die(r)
    BY <1>5, DieKept
  <1>6. Start(r) => start' = start
    BY DEF Start
  <1> QED
    BY <1>1, <1>2, <1>3, <1>4, <1>5, <1>6, Zenon DEF Step

(* A push changes the tables under the runners, and is remembered. *)
LEMMA PushKept ==
    ASSUME Inv, Push
    PROVE  Inv'
  <1>0. /\ TypeOK /\ todo \in [Runners -> SUBSET Files] /\ JournalIsTrue
        /\ UNCHANGED <<start, runs, lock, pc, same, seen, kind, todo, status, left>>
    BY DEF Inv, Push
  <1>1. /\ faults' \in [kinds : SUBSET Faults, count : 0..MaxFaults]
        /\ "push" \in faults'.kinds
    BY <1>0, MigrateAssumption DEF TypeOK, Push, Fault
  <1>2. ~Quiet' /\ ~Checked'
    BY <1>1 DEF Quiet, Checked, Happened
  <1>3. base' \in {"part", "all"} /\ (base = "all" => base' = "all")
    BY <1>0 DEF TypeOK, Push
  <1>4. /\ table' \in {"none", "foreign", "ours"} /\ DOMAIN rows' \subseteq DOMAIN rows
        /\ table' # "ours" => rows' = <<>>
    BY <1>0 DEF TypeOK, Push
  <1>5. Whole => Whole'
    BY <1>0, <1>3 DEF Whole
  <1>6. TypeOK'
    BY <1>0, <1>1, <1>3, <1>4 DEF TypeOK, Corpus
  <1>7. JournalIsTrue'
    <2>1. Baseline \in DOMAIN rows => Whole
      BY <1>0 DEF JournalIsTrue, Whole
    <2>2. Baseline \in DOMAIN rows' => Whole'
      BY <1>4, <1>5, <2>1
    <2> QED
      BY <1>0, <1>4, <2>2 DEF JournalIsTrue, Whole
  <1>8. \A r \in Runners : Knows(r)'
    BY <1>0, <1>5 DEF Inv, Knows
  <1>9. Tables' /\ \A r \in Runners : Found(r)' /\ Locked(r)'
    BY <1>2 DEF Tables, Found, Locked
  <1> QED
    BY <1>0, <1>6, <1>7, <1>8, <1>9 DEF Inv

(* The first state satisfies the invariant. *)
LEMMA InitInv ==
    Init => Inv
  <1> SUFFICES ASSUME Init PROVE Inv
    OBVIOUS
  <1>0. /\ start \in Starts /\ base = start.base /\ table = start.table /\ rows = <<>>
        /\ DOMAIN rows = {} /\ runs = [f \in Files |-> 0] /\ same = {} /\ lock = Free
        /\ base \in {"none", "part", "old", "all"} /\ table \in {"none", "foreign"}
        /\ pc = [r \in Runners |-> "out"] /\ todo = [r \in Runners |-> {}]
    BY MigrateAssumption DEF Init
  <1>1. TypeOK /\ todo \in [Runners -> SUBSET Files]
    BY <1>0, MigrateAssumption DEF Init, TypeOK, Stages
  <1>2. JournalIsTrue
    BY <1>0 DEF JournalIsTrue
  <1>3. Tables
    BY <1>0 DEF Tables
  <1>4. \A r \in Runners : Knows(r) /\ Found(r) /\ Locked(r)
    BY <1>0 DEF Knows, Found, Locked, Past
  <1> QED
    BY <1>1, <1>2, <1>3, <1>4 DEF Inv

(* Every step keeps it. *)
LEMMA NextKeeps ==
    ASSUME Inv, [Next]_vars
    PROVE  Inv'
  <1>1. CASE UNCHANGED vars
    BY <1>1
    DEF vars, Inv, TypeOK, JournalIsTrue, Tables, Knows, Found, Locked, Agrees, Quiet, Checked,
        Happened, Whole, Unfit, Corpus
  <1> QED
    BY <1>1, RunnerKeeps, PushKept DEF Next

(* The invariant holds. *)
THEOREM MigrateInvariant ==
    Spec => []Inv
  <1>1. Inv /\ [Next]_vars => Inv'
    BY NextKeeps
  <1> QED
    BY InitInv, <1>1, PTL DEF Spec

-----------------------------------------------------------------------------
(* JournalSound, for every number of runners and versions: each file in a
   transaction runs once, what is recorded has run, and one runner applies at a
   time. *)
THEOREM JournalSoundHolds ==
    Spec => []JournalSound
  <1>1. ASSUME Inv PROVE JournalSound
    <2>1. TypeOK /\ JournalIsTrue
      BY <1>1 DEF Inv
    <2>2. AppliedOnce
      BY <1>1 DEF Inv, Tables, AppliedOnce, Quiet
    <2>3. OneRunner
      <3> DEFINE S == {r \in Runners : pc[r] \in {"apply", "record"}}
      <3> SUFFICES ASSUME Checked PROVE Cardinality(S) <= 1
        BY DEF OneRunner, Checked
      <3>1. \A r \in S : r = lock
        BY <1>1 DEF Inv, Locked
      <3>2. S = {} \/ S = {lock}
        BY <3>1
      <3> HIDE DEF S
      <3>3. Cardinality({}) = 0 /\ Cardinality({lock}) = 1
        BY FS_EmptySet, FS_Singleton
      <3>4. CASE S = {}
        BY <3>3, <3>4
      <3>5. CASE S = {lock}
        BY <3>3, <3>5
      <3> QED
        BY <3>2, <3>4, <3>5
    <2> QED
      BY <2>1, <2>2, <2>3 DEF JournalSound
  <1>2. Inv => JournalSound
    BY <1>1
  <1> QED
    BY <1>2, MigrateInvariant, PTL

(* AppliesOntoItsOwn: no file runs where the journal holds a file its runner does
   not have or another text of one it has. *)
THEOREM AppliesOntoItsOwnHolds ==
    Spec => AppliesOntoItsOwn
  <1> DEFINE Onto ==
        Checked =>
          \A f \in Files : runs'[f] > runs[f] =>
            \E r \in Runners :
              /\ pc[r] = "apply" /\ f \in todo[r]
              /\ \A g \in DOMAIN rows : g \in DOMAIN Corpus[r] /\ rows[g] = Corpus[r][g]
  <1>1. ASSUME Inv, [Next]_vars PROVE Onto
    <2> SUFFICES ASSUME Checked, NEW f \in Files, runs'[f] > runs[f]
                 PROVE  \E r \in Runners :
                           /\ pc[r] = "apply" /\ f \in todo[r]
                           /\ \A g \in DOMAIN rows : g \in DOMAIN Corpus[r] /\ rows[g] = Corpus[r][g]
      OBVIOUS
    <2>1. runs[f] \in Nat /\ runs' # runs
      BY <1>1 DEF Inv, TypeOK
    <2>2. PICK r \in Runners : pc[r] = "apply" /\ Executed(Min(todo[r]))
      <3>1. ~Push /\ vars' # vars
        BY <2>1 DEF Push, vars
      <3>2. PICK r \in Runners : Start(r) \/ Step(r) \/ Die(r) \/ Reconnect(r)
        BY <1>1, <3>1 DEF Next
      <3>3. ApplyMigration(r) \/ RunScript(r) \/ Die(r)
        BY <2>1, <3>2
        DEF Step, Start, Reconnect, AcquireMigrationLock, LockNotAcquired, BackendPid,
            JournalColumns, Classify, ColumnDrift, EnsureJournal, Adopt, PlanPending,
            AssertLockHeld, RecordApplied, schema
      <3>4. pc[r] = "apply" /\ Executed(Min(todo[r]))
        BY <2>1, <3>3 DEF ApplyMigration, RunScript, Die
      <3> QED
        BY <3>4
    <2>3. Min(todo[r]) \in todo[r] /\ Min(todo[r]) \in Files
      BY <1>1, <2>2, Applies
    <2>4. f = Min(todo[r])
      <3>1. f # Min(todo[r]) => runs'[f] = runs[f]
        BY <1>1, <2>2, <2>3, ExecutedFacts
      <3> QED
        BY <2>1, <3>1
    <2>5. Agrees(r)
      BY <1>1, <2>2 DEF Inv, Locked, Past
    <2> QED
      BY <2>2, <2>3, <2>4, <2>5 DEF Agrees
  <1>2. Inv /\ [Next]_vars => [Onto]_vars
    BY <1>1
  <1> HIDE DEF Onto
  <1>3. Spec => [][Onto]_vars
    BY <1>2, MigrateInvariant, PTL DEF Spec
  <1> QED
    BY <1>3 DEF AppliesOntoItsOwn, Onto, Checked

(* RefusedUntouched: a database the runners cannot place is left as it was. *)
THEOREM RefusedUntouchedHolds ==
    Spec => RefusedUntouched
  <1> DEFINE Untouched ==
        table # "ours" /\ (base \in {"part", "old"} \/ table = "foreign")
          => UNCHANGED schema \/ "push" \in Happened'
  <1>1. ASSUME Inv, [Next]_vars PROVE Untouched
    <2> SUFFICES ASSUME table # "ours", base \in {"part", "old"} \/ table = "foreign",
                        "push" \notin Happened'
                 PROVE  UNCHANGED schema
      OBVIOUS
    <2>1. ~Push
      BY <1>1 DEF Push, Fault, Happened, Inv, TypeOK
    <2>2. CASE UNCHANGED vars
      BY <2>2 DEF vars, schema
    <2>3. ASSUME NEW r \in Runners, Start(r) \/ Step(r) \/ Die(r) \/ Reconnect(r)
          PROVE  UNCHANGED schema
      <3>1. Quiet
        <4>1. CASE UNCHANGED faults
          BY <4>1 DEF Quiet, Happened
        <4>2. CASE ~UNCHANGED faults
          <5>1. Die(r) \/ Reconnect(r)
            BY <2>3, <4>2
            DEF Step, Start, AcquireMigrationLock, LockNotAcquired, BackendPid,
                JournalColumns, Classify, ColumnDrift, EnsureJournal, Adopt, PlanPending,
                AssertLockHeld, ApplyMigration, RunScript, RecordApplied
          <5> QED
            BY <5>1 DEF Die, Reconnect, Fault, Quiet, Happened
        <4> QED
          BY <4>1, <4>2
      <3>2. Unfit
        BY <1>1, <3>1 DEF Inv, Tables, Unfit
      <3>3. pc[r] \notin {"ensure", "adopt", "plan"} \union Past
        BY <1>1, <3>1, <3>2 DEF Inv, Found
      <3> QED
        BY <2>3, <3>3
        DEF Step, Start, Die, Reconnect, AcquireMigrationLock, LockNotAcquired, BackendPid,
            JournalColumns, Classify, ColumnDrift, EnsureJournal, Adopt, PlanPending,
            AssertLockHeld, ApplyMigration, RunScript, RecordApplied, Past, schema
    <2> QED
      BY <1>1, <2>1, <2>2, <2>3 DEF Next
  <1>2. Inv /\ [Next]_vars => [Untouched]_vars
    BY <1>1
  <1> HIDE DEF Untouched
  <1>3. Spec => [][Untouched]_vars
    BY <1>2, MigrateInvariant, PTL DEF Spec
  <1> QED
    BY <1>3 DEF RefusedUntouched, Untouched
=============================================================================
