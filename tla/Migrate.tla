------------------------------ MODULE Migrate ------------------------------
(* The schema migration runner, packages/database/src/migrate: index.ts (main),
   lock.ts, adoption.ts, plan.ts and journal.ts.  Several runners may be started
   on one database, from different versions of the code: each brings its own
   corpus of files.  A runner has one connection; the lock it takes belongs to
   the session behind that connection, and postgres.js replaces a broken
   connection without a word between two statements, and fails the statement or
   the transaction it breaks in.

   The tables the baseline creates are abstracted to how many of them are there,
   a file to its number and its checksum.  Every run of a script is counted. *)
EXTENDS Naturals, FiniteSets, FiniteSetsExt

CONSTANTS
    Runners,     \* processes that migrate
    NoTx,        \* files with the no-transaction directive
    Drops,       \* files that drop a table of the baseline
    Starts,      \* a database's tables and journal, and of each runner its corpus:
                 \* the checksum of each file it has
    Reruns,      \* bound on the runs beyond the ones needed
    Faults,      \* the kinds of fault that may happen
    MaxFaults    \* bound on how many do

Baseline == 0
Free == "free"

(* "die": a runner's process ends, or a statement of it fails.  "drop": its
   connection is replaced between two statements, before the runner compares
   the session with the one it locked.  "pid", "late": the same, between the
   lock and the read of its session, and between the comparison and the end of
   the file.
   "push": a developer runs drizzle-kit push, to its end or not. *)
FaultKinds == {"die", "drop", "pid", "late", "push"}

Files == UNION {DOMAIN s.corpus[r] : s \in Starts, r \in Runners}

ASSUME MigrateAssumption ==
    /\ Files \subseteq Nat
    /\ \A s \in Starts, r \in Runners : Baseline \in DOMAIN s.corpus[r]
    /\ \A s \in Starts :
          s.base \in {"none", "part", "old", "all"} /\ s.table \in {"none", "foreign"}
    /\ Free \notin Runners
    /\ NoTx \subseteq Files \ {Baseline} /\ Drops \subseteq Files \ {Baseline}
    /\ Reruns \in Nat /\ MaxFaults \in Nat /\ Faults \subseteq FaultKinds

VARIABLES
    start,    \* the database and the corpora at first
    base,     \* the baseline's tables: none, some, all with columns missing, all
    table,    \* schema_migrations: none, somebody else's, ours
    rows,     \* its rows: the checksum of each file recorded
    runs,     \* of each file: how often its script took effect, up to twice
    lock,     \* the runner whose session holds the lock
    pc,       \* where each runner is
    same,     \* runners whose session is the one they remember
    seen,     \* what each found of the journal
    kind,     \* what each takes the database for
    todo,     \* the files each has still to apply
    status,   \* runners started with --status
    left,     \* of the runs beyond those needed, the ones not yet made
    faults    \* the kinds of fault so far, and their number

schema == <<base, table, rows, runs>>
vars == <<start, base, table, rows, runs, lock, pc, same, seen, kind, todo, status,
          left, faults>>

Corpus == start.corpus

Stages == {"out", "ok", "lock", "pid", "journal", "tables", "columns", "ensure",
           "adopt", "plan", "assert", "apply", "record"}

TypeOK ==
    /\ start \in Starts
    /\ base \in {"none", "part", "old", "all"}
    /\ table \in {"none", "foreign", "ours"}
    /\ DOMAIN rows \subseteq Files
    /\ table # "ours" => rows = <<>>
    /\ runs \in [Files -> 0..2]
    /\ lock \in Runners \cup {Free}
    /\ pc \in [Runners -> Stages]
    /\ lock # Free => pc[lock] \notin {"out", "ok", "lock"}
    /\ same \subseteq Runners
    /\ seen \in [Runners -> {"none", "empty", "rows", "foreign"}]
    /\ kind \in [Runners -> {"none", "fresh", "legacy", "managed"}]
    /\ \A r \in Runners : todo[r] \subseteq DOMAIN Corpus[r]
    /\ status \subseteq Runners
    /\ left \in 0..Reruns
    /\ faults \in [kinds : SUBSET Faults, count : 0..MaxFaults]

Init ==
    /\ start \in Starts
    /\ base = start.base /\ table = start.table
    /\ rows = <<>>
    /\ runs = [f \in Files |-> 0]
    /\ lock = Free
    /\ pc = [r \in Runners |-> "out"]
    /\ same = {} /\ status = {}
    /\ seen = [r \in Runners |-> "none"]
    /\ kind = [r \in Runners |-> "none"]
    /\ todo = [r \in Runners |-> {}]
    /\ left = Reruns /\ faults = [kinds |-> {}, count |-> 0]

Goto(r, s) == pc' = [pc EXCEPT ![r] = s]

(* Every end of a run ends its session, and the lock with it. *)
End(r, s) ==
    /\ Goto(r, s)
    /\ lock' = IF lock = r THEN Free ELSE lock
    /\ same' = same \ {r} /\ status' = status \ {r}
    /\ seen' = [seen EXCEPT ![r] = "none"]
    /\ kind' = [kind EXCEPT ![r] = "none"]
    /\ todo' = [todo EXCEPT ![r] = {}]
    /\ UNCHANGED left

-----------------------------------------------------------------------------
(* Beside the run that every installation ends with: a run that only asks for
   the status, and a run after a success. *)
Start(r) ==
    /\ \/ pc[r] = "out" /\ UNCHANGED <<status, left>>
       \/ /\ pc[r] \in {"out", "ok"} /\ left > 0
          /\ left' = left - 1
          /\ status' \in {status, status \cup {r}}
    /\ Goto(r, "lock")
    /\ UNCHANGED <<start, schema, lock, same, seen, kind, todo, faults>>

AcquireMigrationLock(r) ==
    /\ pc[r] = "lock" /\ lock = Free
    /\ lock' = r
    /\ Goto(r, "pid")
    /\ UNCHANGED <<schema, same, seen, kind, todo, status, left, faults>>

(* A runner gives up only after a try that found the lock taken. *)
LockNotAcquired(r) ==
    /\ pc[r] = "lock" /\ lock # Free
    /\ End(r, "out")
    /\ UNCHANGED <<schema, faults>>

(* The session remembered is the one that answers, whichever took the lock. *)
BackendPid(r) ==
    /\ pc[r] = "pid"
    /\ same' = same \cup {r}
    /\ Goto(r, "journal")
    /\ UNCHANGED <<schema, lock, seen, kind, todo, status, left, faults>>

JournalHas == IF rows = <<>> THEN "empty" ELSE "rows"

(* The journal is created before the database is classified. *)
JournalFirst(r) ==
    /\ pc[r] = "journal"
    /\ table' = IF table = "none" THEN "ours" ELSE table
    /\ seen' = [seen EXCEPT ![r] = IF table' # "ours" THEN table ELSE JournalHas]
    /\ Goto(r, "tables")
    /\ UNCHANGED <<base, rows, runs, lock, same, kind, todo, status, left, faults>>

JournalColumns(r) ==
    /\ pc[r] = "journal"
    /\ seen' = [seen EXCEPT ![r] = IF table # "ours" THEN table ELSE JournalHas]
    /\ Goto(r, "tables")
    /\ UNCHANGED <<schema, lock, same, kind, todo, status, left, faults>>

TablesSay(tables) ==
    CASE tables = "none" -> "fresh"
      [] tables \in {"old", "all"} -> "legacy"
      [] tables = "part" -> "indeterminate"

(* Classified by the table and not by its rows. *)
ClassifyByTable(journal, tables) ==
    IF journal = "foreign" THEN "foreign"
    ELSE IF journal \in {"empty", "rows"} THEN "managed"
    ELSE TablesSay(tables)

ClassifyDatabase(journal, tables) ==
    IF journal = "foreign" THEN "foreign"
    ELSE IF journal = "rows" THEN "managed"
    ELSE TablesSay(tables)

Classify(r) ==
    /\ pc[r] = "tables"
    /\ LET k == ClassifyDatabase(seen[r], base) IN
         IF k \in {"foreign", "indeterminate"}
         THEN End(r, "out")
         ELSE /\ kind' = [kind EXCEPT ![r] = k]
              /\ Goto(r, IF k = "legacy" THEN "columns" ELSE "ensure")
              /\ UNCHANGED <<lock, same, seen, todo, status, left>>
    /\ UNCHANGED <<schema, faults>>

(* A database synced from an older schema is adopted as it is. *)
ColumnDriftIgnored(r) ==
    /\ pc[r] = "columns"
    /\ Goto(r, "ensure")
    /\ UNCHANGED <<schema, lock, same, seen, kind, todo, status, left, faults>>

ColumnDrift(r) ==
    /\ pc[r] = "columns"
    /\ IF base # "all"
       THEN End(r, "out")
       ELSE /\ Goto(r, "ensure")
            /\ UNCHANGED <<lock, same, seen, kind, todo, status, left>>
    /\ UNCHANGED <<schema, faults>>

EnsureJournal(r) ==
    /\ pc[r] = "ensure"
    /\ table' = IF seen[r] = "none" /\ table = "none" THEN "ours" ELSE table
    /\ Goto(r, IF kind[r] = "legacy" THEN "adopt" ELSE "plan")
    /\ UNCHANGED <<base, rows, runs, lock, same, seen, kind, todo, status, left, faults>>

(* The insert fails where the table is gone or the file recorded. *)
Insertable(f) == table = "ours" /\ f \notin DOMAIN rows
RowFor(r, f) ==
    rows' = [g \in DOMAIN rows \union {f} |-> IF g = f THEN Corpus[r][f] ELSE rows[g]]

Adopt(r) ==
    /\ pc[r] = "adopt"
    /\ IF Insertable(Baseline)
       THEN /\ RowFor(r, Baseline)
            /\ Goto(r, "plan")
            /\ UNCHANGED <<lock, same, seen, kind, todo, status, left>>
       ELSE End(r, "out") /\ UNCHANGED rows
    /\ UNCHANGED <<base, table, runs, faults>>

-----------------------------------------------------------------------------
Mismatched(r) ==
    {f \in DOMAIN Corpus[r] \cap DOMAIN rows : rows[f] # Corpus[r][f]}
Unknown(r) == DOMAIN rows \ DOMAIN Corpus[r]
ToApply(r) == DOMAIN Corpus[r] \ DOMAIN rows

(* A fork is applied on top of what the database has. *)
RefusedNoFork(r) ==
    \/ table # "ours"
    \/ kind[r] # "fresh" /\ Baseline \notin DOMAIN rows
    \/ Mismatched(r) # {}

Refused(r) ==
    \/ table # "ours"
    \/ kind[r] # "fresh" /\ Baseline \notin DOMAIN rows
    \/ Mismatched(r) # {}
    \/ Unknown(r) # {} /\ ToApply(r) # {}

PlanPending(r) ==
    /\ pc[r] = "plan"
    /\ CASE Refused(r) \/ r \in status -> End(r, "out")
         [] ~Refused(r) /\ r \notin status /\ ToApply(r) = {} -> End(r, "ok")
         [] OTHER -> /\ todo' = [todo EXCEPT ![r] = ToApply(r)]
                     /\ Goto(r, "assert")
                     /\ UNCHANGED <<lock, same, seen, kind, status, left>>
    /\ UNCHANGED <<schema, faults>>

(* The session is not compared with the one that took the lock. *)
AssertNothing(r) ==
    /\ pc[r] = "assert"
    /\ Goto(r, "apply")
    /\ UNCHANGED <<schema, lock, same, seen, kind, todo, status, left, faults>>

AssertLockHeld(r) ==
    /\ pc[r] = "assert"
    /\ IF r \in same
       THEN /\ Goto(r, "apply")
            /\ UNCHANGED <<lock, same, seen, kind, todo, status, left>>
       ELSE End(r, "out")
    /\ UNCHANGED <<schema, faults>>

Executed(f) ==
    /\ runs' = [runs EXCEPT ![f] = IF @ < 2 THEN @ + 1 ELSE @]
    /\ base' = CASE f = Baseline -> "all"
                 [] f \in Drops /\ base = "all" -> "part"
                 [] OTHER -> base

(* The next file, or the end of the run. *)
Applied(r, f) ==
    IF todo[r] = {f}
    THEN End(r, "ok")
    ELSE /\ todo' = [todo EXCEPT ![r] = @ \ {f}]
         /\ Goto(r, "assert")
         /\ UNCHANGED <<lock, same, seen, kind, status, left>>

(* The baseline's CREATE TABLEs fail where a table is there already; every other
   file is guarded and passes. *)
Runnable(f) == f = Baseline => base = "none"

(* The script of a file with a transaction is committed before its row. *)
ApplyThenRecord(r) ==
    /\ pc[r] = "apply" /\ Min(todo[r]) \notin NoTx
    /\ LET f == Min(todo[r]) IN
         IF Runnable(f)
         THEN /\ Executed(f) /\ Goto(r, "record")
              /\ UNCHANGED <<rows, lock, same, seen, kind, todo, status, left>>
         ELSE End(r, "out") /\ UNCHANGED <<base, rows, runs>>
    /\ UNCHANGED <<table, faults>>

ApplyMigration(r) ==
    /\ pc[r] = "apply" /\ Min(todo[r]) \notin NoTx
    /\ LET f == Min(todo[r]) IN
         IF Runnable(f) /\ Insertable(f)
         THEN Executed(f) /\ RowFor(r, f) /\ Applied(r, f)
         ELSE End(r, "out") /\ UNCHANGED <<base, rows, runs>>
    /\ UNCHANGED <<table, faults>>

RunScript(r) ==
    /\ pc[r] = "apply" /\ Min(todo[r]) \in NoTx
    /\ Executed(Min(todo[r]))
    /\ Goto(r, "record")
    /\ UNCHANGED <<table, rows, lock, same, seen, kind, todo, status, left, faults>>

RecordApplied(r) ==
    /\ pc[r] = "record"
    /\ LET f == Min(todo[r]) IN
         IF Insertable(f)
         THEN RowFor(r, f) /\ Applied(r, f)
         ELSE End(r, "out") /\ UNCHANGED rows
    /\ UNCHANGED <<base, table, runs, faults>>

-----------------------------------------------------------------------------
Fault(k) ==
    /\ k \in Faults /\ faults.count < MaxFaults
    /\ faults' = [kinds |-> faults.kinds \union {k}, count |-> faults.count + 1]

(* A transaction dies with its session; a script without one may have run. *)
Die(r) ==
    /\ Fault("die")
    /\ pc[r] \notin {"out", "ok"}
    /\ End(r, "out")
    /\ \/ UNCHANGED <<base, runs>>
       \/ pc[r] = "apply" /\ Min(todo[r]) \in NoTx /\ Executed(Min(todo[r]))
    /\ UNCHANGED <<start, table, rows>>

WhenReplaced(r) ==
    CASE pc[r] = "pid" -> "pid"
      [] pc[r] \in {"apply", "record"} -> "late"
      [] OTHER -> "drop"

Reconnect(r) ==
    /\ pc[r] \notin {"out", "ok", "lock"}
    /\ Fault(WhenReplaced(r))
    /\ lock' = IF lock = r THEN Free ELSE lock
    /\ same' = same \ {r}
    /\ UNCHANGED <<start, schema, pc, seen, kind, todo, status, left>>

(* A push adds what is missing of the schema, all of it or, interrupted, a part,
   and may take the journal with it. *)
Push ==
    /\ Fault("push")
    /\ base' \in (CASE base = "none" -> {"part", "all"} [] base = "part" -> {"part", "all"}
                    [] OTHER -> {"all"})
    /\ \/ UNCHANGED <<table, rows>>
       \/ table = "ours" /\ table' = "none" /\ rows' = <<>>
    /\ UNCHANGED <<start, runs, lock, pc, same, seen, kind, todo, status, left>>

Step(r) ==
    /\ \/ AcquireMigrationLock(r) \/ LockNotAcquired(r) \/ BackendPid(r)
       \/ JournalColumns(r) \/ Classify(r) \/ ColumnDrift(r)
       \/ EnsureJournal(r) \/ Adopt(r) \/ PlanPending(r)
       \/ AssertLockHeld(r) \/ ApplyMigration(r) \/ RunScript(r) \/ RecordApplied(r)
    /\ UNCHANGED start

Next ==
    \/ \E r \in Runners : Start(r) \/ Step(r) \/ Die(r) \/ Reconnect(r)
    \/ Push

Spec == Init /\ [][Next]_vars

(* Each runner that has not succeeded is started again, and goes on. *)
Fairness ==
    \A r \in Runners : WF_vars(Step(r)) /\ WF_vars(Start(r) /\ pc[r] = "out" /\ left' = left)

FairSpec == Spec /\ Fairness

-----------------------------------------------------------------------------
Happened == faults.kinds

(* Whatever dies or reconnects, and however many runners are started: the
   script of a file with a transaction takes effect at most once, for it commits
   with its row and the row's key is the file (index.ts:131).  A push may take
   the rows away. *)
AppliedOnce == "push" \notin Happened => \A f \in Files \ NoTx : runs[f] <= 1

(* A row is true: a recorded file's script has run, and a recorded baseline, run
   or adopted, means that every table of it was there with every column
   (adoption.ts:54).  Interrupted pushes and older schemas are among the
   databases. *)
JournalIsTrue ==
    /\ \A f \in DOMAIN rows \ {Baseline} : runs[f] > 0
    /\ Baseline \in DOMAIN rows => base = "all" \/ \E f \in Drops : runs[f] > 0

(* Files are applied on top of a database the runner knows: no file is run where
   the journal holds a file the runner does not have, or another text of one it
   has (plan.ts:35), unless a connection was replaced where the runner does not
   look.  The plan was made from a journal read many statements before. *)
AppliesOntoItsOwn ==
    [][Happened \subseteq {"die", "drop"} =>
         \A f \in Files : runs'[f] > runs[f] =>
           \E r \in Runners :
             /\ pc[r] = "apply" /\ f \in todo[r]
             /\ \A g \in DOMAIN rows : g \in DOMAIN Corpus[r] /\ rows[g] = Corpus[r][g]]_vars

(* No two runners are between the comparison and the end of a file at once
   (lock.ts:19), whichever die and whichever connections were replaced before the
   comparison. *)
OneRunner ==
    Happened \subseteq {"die", "drop"} =>
       Cardinality({r \in Runners : pc[r] \in {"apply", "record"}}) <= 1

(* A database that is neither empty nor whole, or whose journal is somebody
   else's, is left as it was found, unless a push changes it beside the runners:
   no script, no row, no table (index.ts:198). *)
RefusedUntouched ==
    [][table # "ours" /\ (base \in {"part", "old"} \/ table = "foreign")
         => UNCHANGED schema \/ "push" \in Happened']_vars

(* The runners' versions succeed each other: every corpus extends the others or
   is extended by them. *)
Successive ==
    \A r, q \in Runners :
       /\ DOMAIN Corpus[r] \subseteq DOMAIN Corpus[q] \/ DOMAIN Corpus[q] \subseteq DOMAIN Corpus[r]
       /\ \A f \in DOMAIN Corpus[r] \cap DOMAIN Corpus[q] : Corpus[r][f] = Corpus[q][f]

(* From an empty or a whole database, successive versions' files are in the
   journal in the end, after any deaths and reconnections: nothing a dead run
   leaves behind, an empty journal, an adopted baseline, half of the files, makes
   the next one refuse (adoption.ts:80). *)
Migrates ==
    start.base \in {"none", "all"} /\ start.table = "none" /\ Successive
    => <>[]("push" \in Happened \/ \A r \in Runners : DOMAIN Corpus[r] \subseteq DOMAIN rows)

(* The journal is a true record of what ran, each file once and one runner at a
   time. *)
JournalSound == TypeOK /\ AppliedOnce /\ JournalIsTrue /\ OneRunner
=============================================================================
