----------------------------- MODULE Migrations -----------------------------
(***************************************************************************)
(* The migration runner of payment-sim, db/migrate.js: any number of runs, *)
(* each of one release of the code, against one database.  Every release   *)
(* that is deployed starts a run, and so does every retry of one.  A step  *)
(* is one statement, or a few that nobody else can tell apart.             *)
(***************************************************************************)
EXTENDS Naturals, FiniteSets, Sequences

CONSTANTS
    Runs,               \* runs of migrate()
    NoRun,              \* nobody: who holds the advisory lock when it is free
    Files,              \* names of migration files, as places in filename order
    Contents,           \* what may be in a file; a checksum stands for its content
    NoContent,          \* no row in schema_migrations
    Release,            \* what each run finds in its directory: some files' contents
    MaxErrors,          \* bound: statements that raise
    MaxBreaks           \* bound: runs that die or lose their connection

ASSUME NoRunAssumption == NoRun \notin Runs
ASSUME NoContentAssumption == NoContent \notin Contents
\* File names are numbers, so that every set of them has a first one.
ASSUME FilesAssumption ==
    /\ Files \subseteq Nat
    /\ \A S \in SUBSET Files : S # {} => \E v \in S : \A w \in S : v <= w
ASSUME ReleaseAssumption ==
    \A r \in Runs :
        /\ DOMAIN Release[r] \subseteq Files
        /\ \A v \in DOMAIN Release[r] : Release[r][v] \in Contents
ASSUME FaultBoundsAssumption == MaxErrors \in Nat /\ MaxBreaks \in Nat

VARIABLES
    recorded,           \* schema_migrations: Files -> content or NoContent
    applied,            \* the schema: the files that took effect, in order
    lock,               \* who holds the session's advisory lock
    pc,                 \* where each run is
    left,               \* the files each run has not dealt with
    tx,                 \* what the open transaction of each run has done
    hit,                \* history: runs that met a fault
    spent               \* history: faults that happened, by kind

vars == <<recorded, applied, lock, pc, left, tx, hit, spent>>

\* waiting: at line 24; looking: in the loop, at line 36; sql, recording,
\* committing: at lines 50, 51 and 55; closing, aborting: in the finally block,
\* having returned or thrown.
Stages == {"waiting", "looking", "sql", "recording", "committing",
           "closing", "aborting", "done", "failed"}

Ended == {"done", "failed"}

Effects == [file: Files, content: Contents]

NoWrites == [sql |-> FALSE, row |-> FALSE]

TypeOK ==
    /\ recorded \in [Files -> Contents \cup {NoContent}]
    /\ applied \in Seq(Effects)
    /\ lock \in Runs \cup {NoRun}
    /\ pc \in [Runs -> Stages]
    /\ left \in [Runs -> SUBSET Files]
    /\ \A r \in Runs : left[r] \subseteq DOMAIN Release[r]
    /\ \A r \in Runs : pc[r] \in {"sql", "recording", "committing"} => left[r] # {}
    /\ tx \in [Runs -> [sql: BOOLEAN, row: BOOLEAN]]
    /\ hit \subseteq Runs
    /\ spent \in [{"errors", "breaks"} -> Nat]

Init ==
    /\ recorded = [v \in Files |-> NoContent]
    /\ applied = <<>>
    /\ lock = NoRun
    /\ pc = [r \in Runs |-> "waiting"]
    /\ left = [r \in Runs |-> DOMAIN Release[r]]
    /\ tx = [r \in Runs |-> NoWrites]
    /\ hit = {}
    /\ spent = [k \in {"errors", "breaks"} |-> 0]

Goto(r, stage) == pc' = [pc EXCEPT ![r] = stage]

\* The file the loop is at: listMigrations() sorts by name.
Current(r) == CHOOSE v \in left[r] : \A w \in left[r] : v <= w

\* What r is about to write to schema_migrations or has written.
Content(r) == Release[r][Current(r)]

-----------------------------------------------------------------------------
\* Mutants of LockIsFree and of Unlock.
LockIsNeverLooked == TRUE

UnlockOnReturnOnly(r) == lock' = IF pc[r] = "closing" THEN NoRun ELSE lock

LockIsFree == lock = NoRun

\* pg_advisory_unlock by one who does not hold the lock only warns.
Unlock(r) == lock' = IF lock = r THEN NoRun ELSE lock

\* Lines 24-31.  The lock is the session's: no COMMIT or ROLLBACK gives it back.
Lock(r) ==
    /\ pc[r] = "waiting"
    /\ LockIsFree
    /\ lock' = r
    /\ Goto(r, "looking")
    /\ UNCHANGED <<recorded, applied, left, tx, hit, spent>>

\* Mutant of Modified: the checksums are not compared.
ModifiedNever(r) == FALSE

Modified(r) == recorded[Current(r)] # Content(r)

\* Lines 33-48: the loop goes on to the next file, stops at a file that was
\* modified, or begins a transaction for one that is not recorded.
Look(r) ==
    /\ pc[r] = "looking"
    /\ CASE left[r] = {} ->
                Goto(r, "closing") /\ UNCHANGED left
         [] left[r] # {} /\ recorded[Current(r)] = NoContent ->
                Goto(r, "sql") /\ UNCHANGED left
         [] left[r] # {} /\ recorded[Current(r)] # NoContent ->
                IF Modified(r)
                THEN Goto(r, "aborting") /\ UNCHANGED left
                ELSE left' = [left EXCEPT ![r] = @ \ {Current(r)}] /\ UNCHANGED pc
    /\ UNCHANGED <<recorded, applied, lock, tx, hit, spent>>

TakesEffect(r) == applied' = Append(applied, [file |-> Current(r), content |-> Content(r)])

\* Mutant of RunSql: the file runs outside the transaction (BEGIN left out, or
\* sent over another connection of the pool).
RunSqlOutside(r) ==
    /\ pc[r] = "sql"
    /\ TakesEffect(r)
    /\ Goto(r, "recording")
    /\ UNCHANGED <<recorded, lock, left, tx, hit, spent>>

RunSql(r) ==
    /\ pc[r] = "sql"
    /\ tx' = [tx EXCEPT ![r].sql = TRUE]
    /\ Goto(r, "recording")
    /\ UNCHANGED <<recorded, applied, lock, left, hit, spent>>

\* Another open transaction inserted the same version: its outcome is waited for.
HeldUp(r) == \E q \in Runs \ {r} : tx[q].row /\ Current(q) = Current(r)

\* The insert raises if the version is recorded (PRIMARY KEY); line 58 rolls back.
Record(r) ==
    /\ pc[r] = "recording"
    /\ ~HeldUp(r)
    /\ IF recorded[Current(r)] = NoContent
       THEN tx' = [tx EXCEPT ![r].row = TRUE] /\ Goto(r, "committing")
       ELSE tx' = [tx EXCEPT ![r] = NoWrites] /\ Goto(r, "aborting")
    /\ UNCHANGED <<recorded, applied, lock, left, hit, spent>>

\* The database makes what r's transaction did visible.
Publish(r) ==
    /\ IF tx[r].sql THEN TakesEffect(r) ELSE UNCHANGED applied
    /\ IF tx[r].row THEN recorded' = [recorded EXCEPT ![Current(r)] = Content(r)]
                    ELSE UNCHANGED recorded

Commit(r) ==
    /\ pc[r] = "committing"
    /\ Publish(r)
    /\ tx' = [tx EXCEPT ![r] = NoWrites]
    /\ left' = [left EXCEPT ![r] = @ \ {Current(r)}]
    /\ Goto(r, "looking")
    /\ UNCHANGED <<lock, hit, spent>>

\* Lines 62-65, and the end of the process.
Close(r) ==
    /\ pc[r] \in {"closing", "aborting"}
    /\ Unlock(r)
    /\ Goto(r, IF pc[r] = "closing" THEN "done" ELSE "failed")
    /\ UNCHANGED <<recorded, applied, left, tx, hit, spent>>

-----------------------------------------------------------------------------
(* Faults *)

Spend(r, kind, bound) ==
    /\ spent[kind] < bound
    /\ spent' = [spent EXCEPT ![kind] = @ + 1]
    /\ hit' = hit \cup {r}

\* Mutant of Raises: the error of a file is caught and the loop goes on without it.
RaisesAndGoesOn(r) ==
    /\ pc[r] \in {"waiting", "looking", "sql", "recording", "committing"}
    /\ Spend(r, "errors", MaxErrors)
    /\ tx' = [tx EXCEPT ![r] = NoWrites]
    /\ IF pc[r] \in {"sql", "recording", "committing"}
       THEN left' = [left EXCEPT ![r] = @ \ {Current(r)}] /\ Goto(r, "looking")
       ELSE UNCHANGED left /\ Goto(r, "aborting")
    /\ UNCHANGED <<recorded, applied, lock>>

\* A statement raises and the connection lives: what the transaction did is rolled
\* back (line 58), by the database itself if it was the COMMIT that raised.
Raises(r) ==
    /\ pc[r] \in {"waiting", "looking", "sql", "recording", "committing"}
    /\ Spend(r, "errors", MaxErrors)
    /\ tx' = [tx EXCEPT ![r] = NoWrites]
    /\ Goto(r, "aborting")
    /\ UNCHANGED <<recorded, applied, lock, left>>

\* The run dies or its connection does, as the database notices it: the session
\* ends and with it the lock and the open transaction, whose COMMIT may have gone
\* through.  Until then such a run is one that takes no step.
Breaks(r) ==
    /\ pc[r] \notin Ended
    /\ Spend(r, "breaks", MaxBreaks)
    /\ \/ UNCHANGED <<recorded, applied>>
       \/ pc[r] = "committing" /\ Publish(r)
    /\ tx' = [tx EXCEPT ![r] = NoWrites]
    /\ lock' = IF lock = r THEN NoRun ELSE lock
    /\ Goto(r, "failed")
    /\ UNCHANGED left

-----------------------------------------------------------------------------
Step(r) ==
    Lock(r) \/ Look(r) \/ RunSql(r) \/ Record(r) \/ Commit(r) \/ Close(r)

Next == \E r \in Runs : Step(r) \/ Raises(r) \/ Breaks(r)

Spec == Init /\ [][Next]_vars

\* An awaited statement answers or raises, and the lock is given to one that waits.
Fairness == \A r \in Runs : WF_vars(Step(r))

FairSpec == Spec /\ Fairness

-----------------------------------------------------------------------------
(* Safety *)

\* README.md:144 "The migration runner records applied files and checksums": what
\* is recorded took effect exactly once, with the content that is recorded, and
\* nothing else did, whatever broke between BEGIN and COMMIT (lines 48-60).
RecordsAreTheSchema ==
    /\ \A k, l \in DOMAIN applied : applied[k].file = applied[l].file => k = l
    /\ \A v \in Files, c \in Contents :
          recorded[v] = c <=> \E k \in DOMAIN applied : applied[k] = [file |-> v, content |-> c]

\* What a run saw at line 36 still holds when it inserts at line 51: the lock of
\* line 24 covers both.
LookStaysTrue ==
    \A r \in Runs :
        pc[r] \in {"sql", "recording", "committing"} => recorded[Current(r)] = NoContent

\* A run that ends well leaves all of its release's files applied as they are in
\* it: a file that was modified after it was applied is never passed over (line 42).
DoneMeansComplete ==
    \A r \in Runs : pc[r] = "done" =>
        \A v \in DOMAIN Release[r] : recorded[v] = Release[r][v]

\* Of two releases one has the other's files and adds only later ones: README.md:144
\* "add a new ordered file".
OnlyAppended ==
    \A r, q \in Runs :
        \A v \in DOMAIN Release[r], w \in DOMAIN Release[q] :
            w < v => w \in DOMAIN Release[r]

\* tests/migrationTest.js:21 "migrations to be applied in filename order", over all
\* runs of all releases, and without gaps: if releases only append, a file takes
\* effect after every file of any release that comes before it.
AppliedInFilenameOrder ==
    OnlyAppended =>
        \A k \in DOMAIN applied, r \in Runs : \A v \in DOMAIN Release[r] :
            v < applied[k].file => \E l \in 1..(k - 1) : applied[l].file = v

\* Runs that race never fail each other: one fails only of a fault it met itself or
\* of a file whose recorded content is not the one it has.
FailsForCauseOnly ==
    \A r \in Runs : pc[r] = "failed" =>
        \/ r \in hit
        \/ \E v \in DOMAIN Release[r] : recorded[v] \notin {NoContent, Release[r][v]}

-----------------------------------------------------------------------------
(* Liveness, under FairSpec *)

\* Every run ends, also one that waits for a lock whose holder failed or died.
EveryRunEnds == \A r \in Runs : <>(pc[r] \in Ended)
=============================================================================
