----------------------------- MODULE Migrations ------------------------------
(***************************************************************************)
(* migrations.py: how processes that start over one metadata.db bring its  *)
(* schema to the expected version (the constructor of SQLiteRoutingStorage *)
(* runs migrate before anything else).  There is no lock around migrate:   *)
(* Python's sqlite3 commits every CREATE and ALTER on its own, and the     *)
(* version row is a last transaction.  So a step is one statement, and     *)
(* processes interleave, and die, between any two.                         *)
(***************************************************************************)
EXTENDS Integers, Sequences

CONSTANTS Procs,       \* processes that open the store
          Script,      \* what _migration_001_initial creates, in order
          Added,       \* the columns _migration_002_conflict_losers adds, in order
          StartFaults  \* "locked": a statement fails; "crash": a process dies

Created == {Script[n] : n \in 1..Len(Script)}
Columns == {Added[n] : n \in 1..Len(Added)}
VersionTable == "schema_migrations"

\* Somebody opens the store, and a column is no table or index.
ASSUME MigrationsAssumption ==
    /\ Procs # {}
    /\ Columns \cap (Created \cup {VersionTable}) = {}
    /\ Script \in Seq(STRING) /\ Len(Script) > 0
    /\ Added \in Seq(STRING) /\ Len(Added) > 0
    /\ \A m, n \in 1..Len(Added) : Added[m] = Added[n] => m = n
    /\ StartFaults \subseteq {"locked", "crash"}

VARIABLES
    schema,    \* the tables, indexes and columns of conflicts that exist
    versions,  \* rows of schema_migrations: 1 for 001_initial, 2 for 002_conflict_losers
    at,        \* where each process is
    migration, \* the entry of MIGRATIONS its loop has reached
    next,      \* the next statement of that migration
    found,     \* the columns its PRAGMA table_info listed
    excuse     \* history: what may have upset its current start

storeVars == <<schema, versions>>
startVars == <<at, migration, next, found>>
vars == <<schema, versions, at, migration, next, found, excuse>>

Places == {"off", "ensure", "check", "create", "inspect", "alter", "record",
           "ready", "failed"}

TypeOK ==
    /\ schema \subseteq Created \cup Columns \cup {VersionTable}
    /\ versions \subseteq {1, 2}
    /\ at \in [Procs -> Places]
    /\ migration \in [Procs -> {1, 2}]
    /\ next \in [Procs -> Nat]
    /\ found \in [Procs -> SUBSET Columns]
    /\ excuse \in [Procs -> SUBSET {"rival", "locked"}]

\* A file that is not there yet, or one that a release without 002 left.
Init ==
    /\ \/ schema = {} /\ versions = {}
       \/ schema = Created \cup {VersionTable} /\ versions = {1}
    /\ at = [p \in Procs |-> "off"]
    /\ migration = [p \in Procs |-> 1]
    /\ next = [p \in Procs |-> 1]
    /\ found = [p \in Procs |-> {}]
    /\ excuse = [p \in Procs |-> {}]

Goto(p, place) == at' = [at EXCEPT ![p] = place]

\* What p does to the database may upset every other process that is starting.
Upsets(p) == excuse' = [q \in Procs |-> IF q = p THEN excuse[q]
                                        ELSE excuse[q] \cup {"rival"}]

\* A statement that creates x (IF NOT EXISTS, or an ALTER that goes through).
Adds(p, x) ==
    /\ schema' = schema \cup {x}
    /\ IF x \in schema THEN UNCHANGED excuse ELSE Upsets(p)
    /\ UNCHANGED versions

-----------------------------------------------------------------------------
(* One start                                                               *)

Start(p) ==
    /\ at[p] \in {"off", "ready", "failed"}
    /\ Goto(p, "ensure")
    /\ excuse' = [excuse EXCEPT ![p] = {}]
    /\ UNCHANGED <<schema, versions, migration, next, found>>

\* _ensure_schema_migrations_table.
EnsureVersionTable(p) ==
    /\ at[p] = "ensure"
    /\ Adds(p, VersionTable)
    /\ Goto(p, "check")
    /\ migration' = [migration EXCEPT ![p] = 1]
    /\ UNCHANGED <<next, found>>

\* Mutant: the loop runs past its last entry.
AdvancePast(p) ==
    IF migration[p] <= 2
    THEN Goto(p, "check") /\ migration' = [migration EXCEPT ![p] = @ + 1]
    ELSE Goto(p, "ready") /\ UNCHANGED migration

\* On to the next entry of MIGRATIONS, or out of migrate.
Advance(p) ==
    IF migration[p] = 1
    THEN Goto(p, "check") /\ migration' = [migration EXCEPT ![p] = 2]
    ELSE Goto(p, "ready") /\ UNCHANGED migration

\* _applied_versions, read anew before every entry.
CheckApplied(p) ==
    /\ at[p] = "check"
    /\ IF migration[p] \in versions THEN Advance(p) /\ UNCHANGED next
       ELSE /\ Goto(p, IF migration[p] = 1 THEN "create" ELSE "inspect")
            /\ next' = [next EXCEPT ![p] = 1]
            /\ UNCHANGED migration
    /\ UNCHANGED <<schema, versions, found, excuse>>

\* executescript: CREATE ... IF NOT EXISTS, each committed on its own.
CreateNext(p) ==
    /\ at[p] = "create"
    /\ Adds(p, Script[next[p]])
    /\ next' = [next EXCEPT ![p] = @ + 1]
    /\ IF next[p] = Len(Script) THEN Goto(p, "record") ELSE UNCHANGED at
    /\ UNCHANGED <<migration, found>>

\* Mutant: a conflicts table with one of the columns counts as upgraded.
InspectAllOrNothing(p) ==
    /\ at[p] = "inspect"
    /\ found' = [found EXCEPT ![p] = IF schema \cap Columns = {} THEN {} ELSE Columns]
    /\ Goto(p, "alter")
    /\ UNCHANGED <<schema, versions, migration, next, excuse>>

\* Mutant: the columns are added without looking.
InspectNothing(p) ==
    /\ at[p] = "inspect"
    /\ found' = [found EXCEPT ![p] = {}]
    /\ Goto(p, "alter")
    /\ UNCHANGED <<schema, versions, migration, next, excuse>>

\* PRAGMA table_info(conflicts), once for both columns.
InspectColumns(p) ==
    /\ at[p] = "inspect"
    /\ found' = [found EXCEPT ![p] = schema \cap Columns]
    /\ Goto(p, "alter")
    /\ UNCHANGED <<schema, versions, migration, next, excuse>>

\* The exception of a statement becomes MigrationError, or StorageWriteError
\* outside the loop's try.  The rollback undoes nothing: every statement before
\* was committed.
Fail(p) ==
    /\ Goto(p, "failed")
    /\ UNCHANGED <<schema, versions, migration, next, found>>

\* ALTER TABLE conflicts ADD COLUMN where the PRAGMA did not list the column; a
\* column that exists by now is an error ("duplicate column name").
AlterNext(p) ==
    LET c == Added[next[p]] IN
    /\ at[p] = "alter"
    /\ IF c \notin found[p] /\ c \in schema THEN Fail(p) /\ UNCHANGED excuse
       ELSE /\ IF c \in found[p] THEN UNCHANGED <<schema, versions, excuse>> ELSE Adds(p, c)
            /\ next' = [next EXCEPT ![p] = @ + 1]
            /\ IF next[p] = Len(Added) THEN Goto(p, "record") ELSE UNCHANGED at
            /\ UNCHANGED <<migration, found>>

\* Mutant: the process takes its migration for applied before the row is there.
RecordLost(p) ==
    /\ at[p] = "record"
    /\ Advance(p)
    /\ UNCHANGED <<schema, versions, next, found, excuse>>

\* The INSERT and its commit.  The version is a primary key: a process that did
\* the same in the meantime makes the INSERT fail.
RecordVersion(p) ==
    /\ at[p] = "record"
    /\ IF migration[p] \in versions THEN Fail(p) /\ UNCHANGED excuse
       ELSE /\ versions' = versions \cup {migration[p]}
            /\ Upsets(p)
            /\ Advance(p)
            /\ UNCHANGED <<schema, next, found>>

\* Another process holds the file for longer than the busy timeout, or the disk fails.
StatementFails(p) ==
    /\ "locked" \in StartFaults
    /\ at[p] \in {"ensure", "check", "create", "inspect", "alter", "record"}
    /\ Fail(p)
    /\ excuse' = [excuse EXCEPT ![p] = @ \cup {"locked"}]

\* The process dies, or ends: an open INSERT is rolled back by the next opener.
Crash(p) ==
    /\ "crash" \in StartFaults
    /\ at[p] # "off"
    /\ Goto(p, "off")
    /\ UNCHANGED <<schema, versions, migration, next, found, excuse>>

-----------------------------------------------------------------------------
Next ==
    \E p \in Procs :
        \/ Start(p) \/ EnsureVersionTable(p) \/ CheckApplied(p) \/ CreateNext(p)
        \/ InspectColumns(p) \/ AlterNext(p) \/ RecordVersion(p)
        \/ StatementFails(p) \/ Crash(p)

Spec == Init /\ [][Next]_vars

-----------------------------------------------------------------------------
\* A version that is recorded was built in full, whoever built it and whoever
\* died or failed on the way: the loop skips a recorded version for good, so a
\* table or column it lacked would never come.
RecordedMeansBuilt ==
    /\ 1 \in versions => Created \subseteq schema
    /\ 2 \in versions => Columns \subseteq schema

\* A process that came through migrate finds everything the storage code uses,
\* and both versions in the table, as doctor demands of a healthy database.
ReadyMeansComplete ==
    \A p \in Procs : at[p] = "ready" =>
        versions = {1, 2} /\ schema = Created \cup Columns \cup {VersionTable}

\* Whatever earlier starts left half done, a start fails only if a statement of
\* its own failed or another process changed the schema meanwhile: "apply
\* pending migrations idempotently".
UndisturbedStartsSucceed ==
    \A p \in Procs : at[p] = "failed" => excuse[p] # {}

\* Processes that start at the same time may fail each other, but never all of
\* them: when every process ended in an error, a statement failed somewhere.
RaceHasAWinner ==
    (\A p \in Procs : at[p] = "failed") => \E p \in Procs : "locked" \in excuse[p]
=============================================================================
