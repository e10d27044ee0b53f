-------------------------- MODULE MigrationsProofs ---------------------------
(***************************************************************************)
(* The invariants of Migrations for any number of processes, any script    *)
(* and any list of added columns.  MigrationInv says what a process has    *)
(* certainly built by the time it reaches each place (Knows), which only   *)
(* grows because schema and versions do, and what it may rely on as long   *)
(* as nobody upset its start (Undisturbed).                                *)
(***************************************************************************)
EXTENDS Migrations, TLAPS

Building == {"create", "inspect", "alter", "record"}

\* What p knows of the database at the place it has reached.
Knows(p) ==
    /\ at[p] = "create" =>
          /\ migration[p] = 1 /\ next[p] \in 1..Len(Script)
          /\ \A n \in 1..(next[p] - 1) : Script[n] \in schema
    /\ at[p] = "inspect" => migration[p] = 2 /\ next[p] = 1
    /\ at[p] = "alter" =>
          /\ migration[p] = 2 /\ next[p] \in 1..Len(Added)
          /\ found[p] \subseteq schema
          /\ \A n \in 1..(next[p] - 1) : Added[n] \in schema
    /\ at[p] = "record" =>
          /\ migration[p] = 1 => Created \subseteq schema
          /\ migration[p] = 2 => Columns \subseteq schema
    /\ at[p] \notin {"off", "ensure", "failed"} => VersionTable \in schema
    /\ at[p] \in Building \cup {"check"} => (migration[p] = 2 => 1 \in versions)
    /\ at[p] = "ready" => versions = {1, 2}

\* What else p may rely on while nothing upset its start.
Undisturbed(p) ==
    excuse[p] = {} =>
        /\ at[p] \in Building => migration[p] \notin versions
        /\ at[p] = "alter" =>
              \A n \in next[p]..Len(Added) : Added[n] \in schema => Added[n] \in found[p]
        /\ at[p] # "failed"

MigrationInv ==
    /\ TypeOK
    /\ RecordedMeansBuilt
    /\ \A p \in Procs : Knows(p)
    /\ \A p \in Procs : Undisturbed(p)

-----------------------------------------------------------------------------
\* The database only grows.
Grows == schema \subseteq schema' /\ versions \subseteq versions' /\ versions' \subseteq {1, 2}

\* A step of another process leaves p where it was, and what it changes in the
\* database it enters as an excuse of p.
Untouched(p) ==
    /\ at'[p] = at[p] /\ migration'[p] = migration[p]
    /\ next'[p] = next[p] /\ found'[p] = found[p]
    /\ excuse'[p] = {} => excuse[p] = {} /\ UNCHANGED storeVars

\* What another process does takes nothing from what p knows.
LEMMA OthersKeepKnowledge ==
    ASSUME NEW p \in Procs, Knows(p), Undisturbed(p), Grows, Untouched(p)
    PROVE  Knows(p)' /\ Undisturbed(p)'
<1>1. Knows(p)'
  <2>1. (at[p] = "create" => \A n \in 1..(next[p] - 1) : Script[n] \in schema')
    BY DEF Knows, Grows
  <2>2. (at[p] = "alter" => found[p] \subseteq schema'
                            /\ \A n \in 1..(next[p] - 1) : Added[n] \in schema')
    BY DEF Knows, Grows
  <2>3. at[p] = "record" => (migration[p] = 1 => Created \subseteq schema')
                            /\ (migration[p] = 2 => Columns \subseteq schema')
    BY DEF Knows, Grows
  <2>4. at[p] \notin {"off", "ensure", "failed"} => VersionTable \in schema'
    BY DEF Knows, Grows
  <2>5. (at[p] \in Building \cup {"check"} => (migration[p] = 2 => 1 \in versions'))
        /\ (at[p] = "ready" => versions' = {1, 2})
    BY DEF Knows, Grows
  <2>6. QED  BY <2>1, <2>2, <2>3, <2>4, <2>5 DEF Knows, Untouched, Created, Columns
<1>2. Undisturbed(p)'
  BY DEF Undisturbed, Untouched, storeVars
<1>3. QED  BY <1>1, <1>2

\* A recorded version stays built while the database grows by anything but rows.
LEMMA BuiltStaysBuilt ==
    ASSUME RecordedMeansBuilt, schema \subseteq schema', versions' = versions
    PROVE  RecordedMeansBuilt'
BY DEF RecordedMeansBuilt, Created, Columns

\* What every step of a process has to show of the process itself and of the others.
Stepped(p) ==
    /\ TypeOK' /\ RecordedMeansBuilt'
    /\ Grows
    /\ \A q \in Procs \ {p} : Untouched(q)
    /\ Knows(p)' /\ Undisturbed(p)'

\* A process at rest starts anew and relies on nothing yet.
LEMMA StartSteps ==
    ASSUME MigrationInv, NEW p \in Procs, Start(p)
    PROVE  Stepped(p)
<1> USE DEF Start, Goto, MigrationInv
<1>1. TypeOK'
  BY DEF TypeOK, Places
<1>2. RecordedMeansBuilt' /\ Grows
  BY DEF RecordedMeansBuilt, Grows, TypeOK, Created, Columns
<1>3. \A q \in Procs \ {p} : Untouched(q)
  BY DEF Untouched, TypeOK, storeVars
<1>4. Knows(p)'
  BY DEF Knows, TypeOK, Building
<1>5. Undisturbed(p)'
  BY DEF Undisturbed, TypeOK, Building
<1>6. QED  BY <1>1, <1>2, <1>3, <1>4, <1>5 DEF Stepped

\* A statement that adds x keeps the types, builds on what is there and excuses
\* the others if it changed anything.
LEMMA AddsToStore ==
    ASSUME MigrationInv, NEW p \in Procs,
           NEW x \in Created \cup Columns \cup {VersionTable}, Adds(p, x)
    PROVE  /\ schema' \subseteq Created \cup Columns \cup {VersionTable}
           /\ versions' \subseteq {1, 2}
           /\ excuse' \in [Procs -> SUBSET {"rival", "locked"}]
           /\ RecordedMeansBuilt' /\ Grows /\ x \in schema'
           /\ excuse'[p] = excuse[p]
           /\ \A q \in Procs \ {p} : excuse'[q] = {} => excuse[q] = {} /\ UNCHANGED storeVars
<1>1. schema' = schema \cup {x} /\ versions' = versions
  BY DEF Adds
<1>2. RecordedMeansBuilt' /\ Grows
  BY <1>1, BuiltStaysBuilt DEF MigrationInv, TypeOK, Grows
<1>3. /\ excuse' \in [Procs -> SUBSET {"rival", "locked"}]
      /\ excuse'[p] = excuse[p]
      /\ \A q \in Procs \ {p} : excuse'[q] = {} => excuse[q] = {} /\ UNCHANGED storeVars
  <2>1. CASE x \in schema
    BY <2>1, <1>1 DEF Adds, MigrationInv, TypeOK, storeVars
  <2>2. CASE x \notin schema
    BY <2>2 DEF Adds, Upsets, MigrationInv, TypeOK
  <2>3. QED  BY <2>1, <2>2
<1>4. QED  BY <1>1, <1>2, <1>3 DEF MigrationInv, TypeOK

LEMMA EnsureVersionTableSteps ==
    ASSUME MigrationInv, NEW p \in Procs, EnsureVersionTable(p)
    PROVE  Stepped(p)
<1>1. Adds(p, VersionTable) /\ VersionTable \in Created \cup Columns \cup {VersionTable}
  BY DEF EnsureVersionTable
<1>2. TypeOK'
  BY <1>1, AddsToStore DEF EnsureVersionTable, Goto, TypeOK, Places, MigrationInv
<1>3. \A q \in Procs \ {p} : Untouched(q)
  BY <1>1, AddsToStore DEF EnsureVersionTable, Goto, TypeOK, MigrationInv, Untouched
<1>4. Knows(p)'
  BY <1>1, AddsToStore DEF EnsureVersionTable, Goto, TypeOK, MigrationInv, Knows, Building
<1>5. Undisturbed(p)'
  BY <1>1, AddsToStore DEF EnsureVersionTable, Goto, TypeOK, MigrationInv, Undisturbed, Building
<1>6. QED  BY <1>1, <1>2, <1>3, <1>4, <1>5, AddsToStore DEF Stepped

\* Passing over a recorded version, process p knows it to be recorded.
LEMMA AdvanceSteps ==
    ASSUME MigrationInv, NEW p \in Procs, at[p] \in {"check", "record"},
           Advance(p), versions' = versions \cup {migration[p]},
           VersionTable \in schema', UNCHANGED <<next, found>>
    PROVE  /\ at' \in [Procs -> Places]
           /\ migration' \in [Procs -> {1, 2}]
           /\ \A q \in Procs \ {p} : at'[q] = at[q] /\ migration'[q] = migration[q]
           /\ Knows(p)'
           /\ at'[p] \in {"check", "ready"}
<1> USE DEF MigrationInv, TypeOK, Goto, Places, Advance
<1>1. Knows(p)
  OBVIOUS
<1>2. CASE migration[p] = 1
  BY <1>1, <1>2 DEF Knows, Building
<1>3. CASE migration[p] = 2
  <2>1. 1 \in versions
    BY <1>1, <1>3 DEF Knows, Building
  <2>2. versions' = {1, 2}
    BY <2>1, <1>3
  <2>3. QED  BY <2>2, <1>3 DEF Knows, Building
<1>4. QED  BY <1>2, <1>3

LEMMA CheckAppliedSteps ==
    ASSUME MigrationInv, NEW p \in Procs, CheckApplied(p)
    PROVE  Stepped(p)
<1> USE DEF MigrationInv, Goto
<1>1. RecordedMeansBuilt' /\ Grows /\ VersionTable \in schema
  BY DEF CheckApplied, RecordedMeansBuilt, Created, Columns, Grows, TypeOK, Knows
<1>2. CASE migration[p] \in versions
  <2>1. Advance(p) /\ UNCHANGED <<schema, versions, next, found, excuse>> /\ at[p] = "check"
    BY <1>2 DEF CheckApplied
  <2>2. versions' = versions \cup {migration[p]}
    BY <1>2, <2>1
  <2>3. /\ at' \in [Procs -> Places]
        /\ migration' \in [Procs -> {1, 2}]
        /\ \A q \in Procs \ {p} : at'[q] = at[q] /\ migration'[q] = migration[q]
        /\ Knows(p)'
        /\ at'[p] \in {"check", "ready"}
    BY <1>1, <2>1, <2>2, AdvanceSteps
  <2>4. TypeOK'
    BY <2>1, <2>3 DEF TypeOK
  <2>5. \A q \in Procs \ {p} : Untouched(q)
    BY <2>1, <2>3 DEF Untouched, storeVars
  <2>6. Undisturbed(p)'
    BY <2>3 DEF Undisturbed, Building
  <2>7. QED  BY <1>1, <2>3, <2>4, <2>5, <2>6 DEF Stepped
<1>3. CASE migration[p] \notin versions
  <2>1. /\ at[p] = "check"
        /\ at' = [at EXCEPT ![p] = IF migration[p] = 1 THEN "create" ELSE "inspect"]
        /\ next' = [next EXCEPT ![p] = 1]
        /\ UNCHANGED <<schema, versions, migration, found, excuse>>
    BY <1>3 DEF CheckApplied
  <2>2. TypeOK'
    BY <2>1 DEF TypeOK, Places
  <2>3. \A q \in Procs \ {p} : Untouched(q)
    BY <2>1 DEF Untouched, storeVars, TypeOK
  <2>4. Knows(p)'
    BY <2>1, <1>1, MigrationsAssumption DEF Knows, Building, TypeOK
  <2>5. Undisturbed(p)'
    BY <2>1, <1>3 DEF Undisturbed, Building, TypeOK
  <2>6. QED  BY <1>1, <2>2, <2>3, <2>4, <2>5 DEF Stepped
<1>4. QED  BY <1>2, <1>3

LEMMA CreateNextSteps ==
    ASSUME MigrationInv, NEW p \in Procs, CreateNext(p)
    PROVE  Stepped(p)
<1> DEFINE x == Script[next[p]]
<1>1. /\ at[p] = "create" /\ migration[p] = 1 /\ next[p] \in 1..Len(Script)
      /\ \A n \in 1..(next[p] - 1) : Script[n] \in schema
      /\ VersionTable \in schema
  BY DEF CreateNext, MigrationInv, Knows
<1>2. x \in Created \cup Columns \cup {VersionTable} /\ Adds(p, x)
  BY <1>1 DEF Created, CreateNext
<1>3. /\ schema' \subseteq Created \cup Columns \cup {VersionTable}
      /\ versions' \subseteq {1, 2}
      /\ excuse' \in [Procs -> SUBSET {"rival", "locked"}]
      /\ RecordedMeansBuilt' /\ Grows /\ x \in schema'
      /\ excuse'[p] = excuse[p]
      /\ \A q \in Procs \ {p} : excuse'[q] = {} => excuse[q] = {} /\ UNCHANGED storeVars
  BY <1>2, AddsToStore
<1> HIDE DEF x
<1>4. /\ next' = [next EXCEPT ![p] = @ + 1]
      /\ at' = [at EXCEPT ![p] = IF next[p] = Len(Script) THEN "record" ELSE "create"]
      /\ UNCHANGED <<migration, found>> /\ UNCHANGED versions
  <2>1. CASE next[p] = Len(Script)
    BY <2>1, <1>2 DEF CreateNext, Goto, Adds
  <2>2. CASE next[p] # Len(Script)
    BY <2>2, <1>1, <1>2 DEF CreateNext, Goto, Adds, MigrationInv, TypeOK
  <2>3. QED  BY <2>1, <2>2
<1>5. TypeOK'
  BY <1>3, <1>4 DEF TypeOK, Places, MigrationInv
<1>6. \A q \in Procs \ {p} : Untouched(q)
  BY <1>3, <1>4 DEF Untouched, TypeOK, MigrationInv
<1>7. \A n \in 1..next[p] : Script[n] \in schema'
  BY <1>1, <1>3 DEF Grows, x
<1>8. Len(Script) \in Nat
  BY MigrationsAssumption
<1>9. Knows(p)'
  <2>1. CASE next[p] = Len(Script)
    <3>1. Created \subseteq schema'
      BY <1>7, <2>1 DEF Created
    <3>2. at'[p] = "record" /\ migration'[p] = 1
      BY <2>1, <1>1, <1>4 DEF TypeOK, MigrationInv
    <3>3. QED  BY <3>1, <3>2, <1>1, <1>3 DEF Knows, Grows, Created, Building
  <2>2. CASE next[p] # Len(Script)
    <3>1. /\ at'[p] = "create" /\ migration'[p] = 1
          /\ next'[p] = next[p] + 1 /\ next'[p] \in 1..Len(Script)
      BY <2>2, <1>1, <1>4, <1>8 DEF TypeOK, MigrationInv
    <3>2. \A n \in 1..(next'[p] - 1) : Script[n] \in schema'
      BY <1>7, <1>1, <3>1
    <3>3. QED  BY <3>1, <3>2, <1>1, <1>3 DEF Knows, Grows, Building
  <2>3. QED  BY <2>1, <2>2
<1>10. Undisturbed(p)'
  BY <1>1, <1>3, <1>4 DEF Undisturbed, Building, TypeOK, MigrationInv
<1>11. QED  BY <1>3, <1>5, <1>6, <1>9, <1>10 DEF Stepped

LEMMA InspectColumnsSteps ==
    ASSUME MigrationInv, NEW p \in Procs, InspectColumns(p)
    PROVE  Stepped(p)
<1> USE DEF InspectColumns, Goto, MigrationInv
<1>1. Len(Added) \in Nat /\ Len(Added) > 0
  BY MigrationsAssumption
<1>2. /\ at[p] = "inspect" /\ migration[p] = 2 /\ next[p] = 1
      /\ VersionTable \in schema /\ 1 \in versions
  BY DEF Knows, Building
<1>3. TypeOK'
  BY DEF TypeOK, Places
<1>4. RecordedMeansBuilt' /\ Grows
  BY DEF RecordedMeansBuilt, Grows, TypeOK, Created, Columns
<1>5. \A q \in Procs \ {p} : Untouched(q)
  BY DEF Untouched, TypeOK, storeVars
<1>6. Knows(p)'
  BY <1>1, <1>2 DEF Knows, TypeOK, Building
<1>7. Undisturbed(p)'
  <2>1. \A n \in 1..Len(Added) : Added[n] \in Columns
    BY DEF Columns
  <2>2. found'[p] = schema \cap Columns /\ next'[p] = 1 /\ UNCHANGED <<schema, versions, excuse>>
    BY <1>2 DEF TypeOK
  <2>3. QED  BY <1>2, <2>1, <2>2 DEF Undisturbed, TypeOK, Building
<1>8. QED  BY <1>3, <1>4, <1>5, <1>6, <1>7 DEF Stepped

\* A failed process knows nothing; the database is as it was.
LEMMA FailSteps ==
    ASSUME MigrationInv, NEW p \in Procs, Fail(p),
           excuse' \in [Procs -> SUBSET {"rival", "locked"}], excuse'[p] # {},
           \A q \in Procs \ {p} : excuse'[q] = excuse[q]
    PROVE  Stepped(p)
<1> USE DEF Fail, Goto, MigrationInv
<1>1. TypeOK'
  BY DEF TypeOK, Places
<1>2. RecordedMeansBuilt' /\ Grows
  BY DEF RecordedMeansBuilt, Grows, TypeOK, Created, Columns
<1>3. \A q \in Procs \ {p} : Untouched(q)
  BY DEF Untouched, TypeOK, storeVars
<1>4. Knows(p)'
  BY DEF Knows, TypeOK, Building
<1>5. Undisturbed(p)'
  BY DEF Undisturbed
<1>6. QED  BY <1>1, <1>2, <1>3, <1>4, <1>5 DEF Stepped

LEMMA StatementFailsSteps ==
    ASSUME MigrationInv, NEW p \in Procs, StatementFails(p)
    PROVE  Stepped(p)
<1>1. Fail(p) /\ excuse' = [excuse EXCEPT ![p] = @ \cup {"locked"}]
  BY DEF StatementFails
<1>2. /\ excuse' \in [Procs -> SUBSET {"rival", "locked"}] /\ excuse'[p] # {}
      /\ \A q \in Procs \ {p} : excuse'[q] = excuse[q]
  BY <1>1 DEF MigrationInv, TypeOK
<1>3. QED  BY <1>1, <1>2, FailSteps

LEMMA CrashSteps ==
    ASSUME MigrationInv, NEW p \in Procs, Crash(p)
    PROVE  Stepped(p)
<1> USE DEF Crash, Goto, MigrationInv
<1>1. TypeOK'
  BY DEF TypeOK, Places
<1>2. RecordedMeansBuilt' /\ Grows
  BY DEF RecordedMeansBuilt, Grows, TypeOK, Created, Columns
<1>3. \A q \in Procs \ {p} : Untouched(q)
  BY DEF Untouched, TypeOK, storeVars
<1>4. Knows(p)'
  BY DEF Knows, TypeOK, Building
<1>5. Undisturbed(p)'
  BY DEF Undisturbed, TypeOK, Building
<1>6. QED  BY <1>1, <1>2, <1>3, <1>4, <1>5 DEF Stepped

LEMMA AlterNextSteps ==
    ASSUME MigrationInv, NEW p \in Procs, AlterNext(p)
    PROVE  Stepped(p)
<1> DEFINE c == Added[next[p]]
<1>1. /\ at[p] = "alter" /\ migration[p] = 2 /\ next[p] \in 1..Len(Added)
      /\ found[p] \subseteq schema
      /\ \A n \in 1..(next[p] - 1) : Added[n] \in schema
      /\ VersionTable \in schema /\ 1 \in versions
  BY DEF AlterNext, MigrationInv, Knows, Building
<1>2. /\ excuse[p] = {} => migration[p] \notin versions
      /\ excuse[p] = {} =>
            \A n \in next[p]..Len(Added) : Added[n] \in schema => Added[n] \in found[p]
  BY <1>1 DEF MigrationInv, Undisturbed, Building
<1>3. Len(Added) \in Nat
  BY MigrationsAssumption
<1>4. CASE c \notin found[p] /\ c \in schema
  <2>1. Fail(p) /\ UNCHANGED excuse
    BY <1>4 DEF AlterNext
  <2>2. excuse[p] # {}
    BY <1>1, <1>2, <1>3, <1>4
  <2>3. QED  BY <2>1, <2>2, FailSteps DEF MigrationInv, TypeOK
<1>5. CASE ~(c \notin found[p] /\ c \in schema)
  <2>1. c \in Created \cup Columns \cup {VersionTable} /\ Adds(p, c)
    BY <1>1, <1>5 DEF AlterNext, Adds, Columns
  <2>2. /\ schema' \subseteq Created \cup Columns \cup {VersionTable}
        /\ versions' \subseteq {1, 2}
        /\ excuse' \in [Procs -> SUBSET {"rival", "locked"}]
        /\ RecordedMeansBuilt' /\ Grows /\ c \in schema'
        /\ excuse'[p] = excuse[p]
        /\ \A q \in Procs \ {p} : excuse'[q] = {} => excuse[q] = {} /\ UNCHANGED storeVars
    BY <2>1, AddsToStore
  <2>3. /\ next' = [next EXCEPT ![p] = @ + 1]
        /\ at' = [at EXCEPT ![p] = IF next[p] = Len(Added) THEN "record" ELSE "alter"]
        /\ UNCHANGED <<migration, found>>
    <3>1. CASE next[p] = Len(Added)
      BY <3>1, <1>5 DEF AlterNext, Goto
    <3>2. CASE next[p] # Len(Added)
      BY <3>2, <1>1, <1>5 DEF AlterNext, Goto, MigrationInv, TypeOK
    <3>3. QED  BY <3>1, <3>2
  <2>4. schema' = schema \cup {c} /\ UNCHANGED versions
    BY <2>1 DEF Adds
  <2> HIDE DEF c
  <2>5. TypeOK'
    BY <2>2, <2>3 DEF TypeOK, Places, MigrationInv
  <2>6. \A q \in Procs \ {p} : Untouched(q)
    BY <2>2, <2>3 DEF Untouched, TypeOK, MigrationInv
  <2>7. \A n \in 1..next[p] : Added[n] \in schema'
    BY <1>1, <2>4 DEF c
  <2>8. Knows(p)'
    <3>1. CASE next[p] = Len(Added)
      <4>1. Columns \subseteq schema'
        BY <2>7, <3>1 DEF Columns
      <4>2. at'[p] = "record" /\ migration'[p] = 2
        BY <3>1, <1>1, <2>3 DEF TypeOK, MigrationInv
      <4>3. QED  BY <4>1, <4>2, <1>1, <2>4 DEF Knows, Columns, Building
    <3>2. CASE next[p] # Len(Added)
      <4>1. /\ at'[p] = "alter" /\ migration'[p] = 2 /\ found'[p] = found[p]
            /\ next'[p] = next[p] + 1 /\ next'[p] \in 1..Len(Added)
        BY <3>2, <1>1, <1>3, <2>3 DEF TypeOK, MigrationInv
      <4>2. \A n \in 1..(next'[p] - 1) : Added[n] \in schema'
        BY <2>7, <1>1, <4>1
      <4>3. QED  BY <4>1, <4>2, <1>1, <2>4 DEF Knows, Building
    <3>3. QED  BY <3>1, <3>2
  <2>9. Undisturbed(p)'
    <3>1. SUFFICES ASSUME excuse'[p] = {}
                   PROVE  /\ at'[p] \in Building => migration'[p] \notin versions'
                          /\ at'[p] = "alter" =>
                                \A n \in next'[p]..Len(Added) :
                                   Added[n] \in schema' => Added[n] \in found'[p]
                          /\ at'[p] # "failed"
      BY DEF Undisturbed
    <3>2. migration'[p] \notin versions' /\ at'[p] \in {"record", "alter"}
      BY <3>1, <2>2, <2>3, <2>4, <1>2 DEF TypeOK, MigrationInv
    <3>3. ASSUME NEW n \in next'[p]..Len(Added), Added[n] \in schema'
          PROVE  Added[n] \in found'[p]
      <4>1. next'[p] = next[p] + 1 /\ found'[p] = found[p]
        BY <2>3 DEF TypeOK, MigrationInv
      <4>2. n \in 1..Len(Added) /\ n \in next[p]..Len(Added) /\ n # next[p]
        BY <4>1, <1>1, <1>3
      <4>3. Added[n] # c
        BY <4>2, <1>1, MigrationsAssumption DEF c
      <4>4. QED  BY <3>1, <3>3, <4>1, <4>2, <4>3, <2>2, <2>4, <1>2
    <3>4. QED  BY <3>2, <3>3
  <2>10. QED  BY <2>2, <2>5, <2>6, <2>8, <2>9 DEF Stepped
<1>6. QED  BY <1>4, <1>5

LEMMA RecordVersionSteps ==
    ASSUME MigrationInv, NEW p \in Procs, RecordVersion(p)
    PROVE  Stepped(p)
<1>1. /\ at[p] = "record" /\ VersionTable \in schema
      /\ migration[p] = 1 => Created \subseteq schema
      /\ migration[p] = 2 => Columns \subseteq schema
      /\ excuse[p] = {} => migration[p] \notin versions
  BY DEF RecordVersion, MigrationInv, Knows, Undisturbed, Building
<1>2. CASE migration[p] \in versions
  <2>1. Fail(p) /\ UNCHANGED excuse
    BY <1>2 DEF RecordVersion
  <2>2. QED  BY <2>1, <1>1, <1>2, FailSteps DEF MigrationInv, TypeOK
<1>3. CASE migration[p] \notin versions
  <2>1. /\ versions' = versions \cup {migration[p]} /\ Upsets(p) /\ Advance(p)
        /\ UNCHANGED <<schema, next, found>>
    BY <1>3 DEF RecordVersion
  <2>2. /\ at' \in [Procs -> Places]
        /\ migration' \in [Procs -> {1, 2}]
        /\ \A q \in Procs \ {p} : at'[q] = at[q] /\ migration'[q] = migration[q]
        /\ Knows(p)'
        /\ at'[p] \in {"check", "ready"}
    BY <1>1, <2>1, AdvanceSteps
  <2>3. /\ excuse' \in [Procs -> SUBSET {"rival", "locked"}]
        /\ \A q \in Procs \ {p} : excuse'[q] # {}
    BY <2>1 DEF Upsets, MigrationInv, TypeOK
  <2>4. TypeOK'
    BY <2>1, <2>2, <2>3 DEF TypeOK, MigrationInv
  <2>5. RecordedMeansBuilt' /\ Grows
    BY <2>1, <1>1 DEF RecordedMeansBuilt, Grows, MigrationInv, TypeOK, Created, Columns
  <2>6. \A q \in Procs \ {p} : Untouched(q)
    BY <2>1, <2>2, <2>3 DEF Untouched
  <2>7. Undisturbed(p)'
    BY <2>2 DEF Undisturbed, Building
  <2>8. QED  BY <2>2, <2>4, <2>5, <2>6, <2>7 DEF Stepped
<1>4. QED  BY <1>2, <1>3

-----------------------------------------------------------------------------
\* A new file and an old database both start from nothing known.
LEMMA InitMigrations == Init => MigrationInv
<1> SUFFICES ASSUME Init PROVE MigrationInv
  OBVIOUS
<1>1. TypeOK
  BY DEF Init, TypeOK, Places
<1>2. RecordedMeansBuilt
  BY DEF Init, RecordedMeansBuilt
<1>3. \A p \in Procs : Knows(p)
  BY DEF Init, Knows, Building
<1>4. \A p \in Procs : Undisturbed(p)
  BY DEF Init, Undisturbed, Building
<1>5. QED  BY <1>1, <1>2, <1>3, <1>4 DEF MigrationInv

\* Every step of every process keeps the invariant.
LEMMA NextMigrations == MigrationInv /\ [Next]_vars => MigrationInv'
<1> SUFFICES ASSUME MigrationInv, [Next]_vars PROVE MigrationInv'
  OBVIOUS
<1>1. ASSUME NEW p \in Procs, Stepped(p) PROVE MigrationInv'
  <2>1. \A q \in Procs \ {p} : Knows(q)' /\ Undisturbed(q)'
    BY <1>1, OthersKeepKnowledge DEF Stepped, MigrationInv
  <2>2. QED  BY <1>1, <2>1 DEF Stepped, MigrationInv
<1>2. CASE UNCHANGED vars
  <2>1. TypeOK' /\ RecordedMeansBuilt'
    BY <1>2 DEF vars, MigrationInv, TypeOK, RecordedMeansBuilt, Created, Columns
  <2>2. \A p \in Procs : Knows(p)' /\ Undisturbed(p)'
    BY <1>2 DEF vars, MigrationInv, Knows, Undisturbed, Created, Columns
  <2>3. QED  BY <2>1, <2>2 DEF MigrationInv
<1>3. CASE Next
  <2>1. PICK p \in Procs :
          \/ Start(p) \/ EnsureVersionTable(p) \/ CheckApplied(p) \/ CreateNext(p)
          \/ InspectColumns(p) \/ AlterNext(p) \/ RecordVersion(p)
          \/ StatementFails(p) \/ Crash(p)
    BY <1>3 DEF Next
  <2>2. Stepped(p)
    BY <2>1, StartSteps, EnsureVersionTableSteps, CheckAppliedSteps, CreateNextSteps,
       InspectColumnsSteps, AlterNextSteps, RecordVersionSteps, StatementFailsSteps, CrashSteps
  <2>3. QED  BY <2>2, <1>1
<1>4. QED  BY <1>2, <1>3

\* migrate: the invariant holds of every behaviour.
LEMMA MigrationsInvariant == Spec => []MigrationInv
BY InitMigrations, NextMigrations, PTL DEF Spec

\* A version in schema_migrations was built in full, for any number of processes
\* racing, failing and dying in migrate.
THEOREM VersionsAreBuilt == Spec => []RecordedMeansBuilt
<1>1. MigrationInv => RecordedMeansBuilt
  BY DEF MigrationInv
<1>2. QED  BY <1>1, MigrationsInvariant, PTL

\* A process whose constructor returned has the complete schema before it, and
\* keeps it, whatever other processes start later.
THEOREM ReadyProcessesAreServed == Spec => []ReadyMeansComplete
<1>1. MigrationInv => ReadyMeansComplete
  <2> SUFFICES ASSUME MigrationInv, NEW p \in Procs, at[p] = "ready"
               PROVE  versions = {1, 2} /\ schema = Created \cup Columns \cup {VersionTable}
    BY DEF ReadyMeansComplete
  <2>1. versions = {1, 2} /\ VersionTable \in schema
    BY DEF MigrationInv, Knows
  <2>2. Created \cup Columns \subseteq schema
    BY <2>1 DEF MigrationInv, RecordedMeansBuilt
  <2>3. QED  BY <2>1, <2>2 DEF MigrationInv, TypeOK
<1>2. QED  BY <1>1, MigrationsInvariant, PTL

\* What a crashed or failed start left behind fails no later start: only another
\* process or a failing statement of its own does.
THEOREM LeftoversAreHarmless == Spec => []UndisturbedStartsSucceed
<1>1. MigrationInv => UndisturbedStartsSucceed
  BY DEF MigrationInv, Undisturbed, UndisturbedStartsSucceed
<1>2. QED  BY <1>1, MigrationsInvariant, PTL

\* Schema, versions and processes keep their types.
THEOREM MigrationsTypeCorrect == Spec => []TypeOK
<1>1. MigrationInv => TypeOK
  BY DEF MigrationInv
<1>2. QED  BY <1>1, MigrationsInvariant, PTL

-----------------------------------------------------------------------------
(* The race                                                                *)

\* What p is about to do has been done: it fails unless it dies first.
Doomed(p) ==
    \/ at[p] \in Building /\ migration[p] \in versions
    \/ /\ at[p] = "alter"
       /\ \E n \in next[p]..Len(Added) : Added[n] \in schema /\ Added[n] \notin found[p]

InTheRace(p) == at[p] # "failed" /\ ~Doomed(p)

\* The columns that exist are the first ones of the list.
ColumnsInOrder ==
    \A m, n \in 1..Len(Added) : m < n /\ Added[n] \in schema => Added[m] \in schema

\* Unless a statement failed, somebody can still win: whoever dooms the others by
\* adding a column or a version is itself ahead of all of them.
RaceInv ==
    /\ ColumnsInOrder
    /\ (\E p \in Procs : "locked" \in excuse[p]) \/ (\E p \in Procs : InTheRace(p))

LEMMA InitRace == Init => RaceInv
<1> SUFFICES ASSUME Init PROVE RaceInv
  OBVIOUS
<1>1. PICK p \in Procs : TRUE
  BY MigrationsAssumption
<1>2. InTheRace(p)
  BY DEF Init, InTheRace, Doomed, Building
<1>3. ColumnsInOrder
  BY MigrationsAssumption DEF Init, ColumnsInOrder, Columns
<1>4. QED  BY <1>2, <1>3 DEF RaceInv

\* A step of p leaves p in the race or excused by a failing statement, unless p was
\* out of it already and does nothing to the others.
Races(p) ==
    /\ ColumnsInOrder'
    /\ \/ InTheRace(p)'
       \/ "locked" \in excuse'[p]
       \/ ~InTheRace(p) /\ UNCHANGED storeVars /\ UNCHANGED excuse

LEMMA RacesKeepsInv ==
    ASSUME RaceInv, NEW p \in Procs, Races(p), \A q \in Procs \ {p} : Untouched(q)
    PROVE  RaceInv'
<1>1. CASE InTheRace(p)' \/ "locked" \in excuse'[p]
  BY <1>1 DEF RaceInv, Races
<1>2. CASE ~InTheRace(p) /\ UNCHANGED storeVars /\ UNCHANGED excuse
  <2>1. CASE \E q \in Procs : "locked" \in excuse[q]
    BY <1>2, <2>1 DEF RaceInv, Races
  <2>2. CASE \E q \in Procs : InTheRace(q)
    <3>1. PICK q \in Procs : InTheRace(q)
      BY <2>2
    <3>2. q # p /\ Untouched(q)
      BY <1>2, <3>1
    <3>3. InTheRace(q)'
      BY <1>2, <3>1, <3>2 DEF Untouched, InTheRace, Doomed, storeVars
    <3>4. QED  BY <3>3 DEF RaceInv, Races
  <2>3. QED  BY <2>1, <2>2 DEF RaceInv
<1>3. QED  BY <1>1, <1>2 DEF Races

\* Anything but a column leaves their order as it is.
LEMMA OrderKept ==
    ASSUME ColumnsInOrder, schema' \cap Columns = schema \cap Columns
    PROVE  ColumnsInOrder'
<1>1. \A n \in 1..Len(Added) : Added[n] \in Columns
  BY DEF Columns
<1>2. \A n \in 1..Len(Added) : Added[n] \in schema' <=> Added[n] \in schema
  BY <1>1
<1>3. QED  BY <1>2 DEF ColumnsInOrder

LEMMA SchemaKeptRaces ==
    ASSUME MigrationInv, RaceInv, NEW p \in Procs,
           \/ Start(p) \/ CheckApplied(p) \/ InspectColumns(p) \/ RecordVersion(p)
           \/ StatementFails(p) \/ Crash(p)
    PROVE  Races(p)
<1>1. schema' = schema
  BY DEF Start, CheckApplied, InspectColumns, RecordVersion, StatementFails, Crash, Fail
<1>2. ColumnsInOrder'
  BY <1>1, OrderKept DEF RaceInv
<1> USE DEF MigrationInv, TypeOK
<1>3. CASE Start(p) \/ Crash(p)
  <2>1. at'[p] \in {"ensure", "off"}
    BY <1>3 DEF Start, Crash, Goto
  <2>2. InTheRace(p)'
    BY <2>1 DEF InTheRace, Doomed, Building
  <2>3. QED  BY <1>2, <2>2 DEF Races
<1>4. CASE CheckApplied(p)
  <2>1. \/ at'[p] \in {"check", "ready"}
        \/ /\ at'[p] \in {"create", "inspect"} /\ migration' = migration
           /\ versions' = versions /\ migration[p] \notin versions
    BY <1>4 DEF CheckApplied, Advance, Goto
  <2>2. InTheRace(p)'
    BY <2>1 DEF InTheRace, Doomed, Building
  <2>3. QED  BY <1>2, <2>2 DEF Races
<1>5. CASE InspectColumns(p)
  <2>1. /\ at[p] = "inspect" /\ at'[p] = "alter" /\ found'[p] = schema \cap Columns
        /\ UNCHANGED <<schema, versions, migration, next, excuse>> /\ next[p] = 1
    BY <1>5 DEF InspectColumns, Goto, Knows
  <2>2. CASE migration[p] \in versions
    BY <1>2, <2>1, <2>2 DEF Races, InTheRace, Doomed, Building, storeVars
  <2>3. CASE migration[p] \notin versions
    <3>1. \A n \in 1..Len(Added) : Added[n] \in Columns
      BY DEF Columns
    <3>2. InTheRace(p)'
      BY <2>1, <2>3, <3>1 DEF InTheRace, Doomed
    <3>3. QED  BY <1>2, <3>2 DEF Races
  <2>4. QED  BY <2>2, <2>3
<1>6. CASE RecordVersion(p)
  <2>1. CASE migration[p] \in versions
    <3>1. /\ at[p] = "record" /\ UNCHANGED storeVars /\ UNCHANGED excuse
      BY <1>6, <2>1 DEF RecordVersion, Fail, storeVars
    <3>2. QED  BY <1>2, <2>1, <3>1 DEF Races, InTheRace, Doomed, Building
  <2>2. CASE migration[p] \notin versions
    <3>1. at'[p] \in {"check", "ready"}
      BY <1>6, <2>2 DEF RecordVersion, Advance, Goto
    <3>2. InTheRace(p)'
      BY <3>1 DEF InTheRace, Doomed, Building
    <3>3. QED  BY <1>2, <3>2 DEF Races
  <2>3. QED  BY <2>1, <2>2
<1>7. CASE StatementFails(p)
  BY <1>2, <1>7 DEF StatementFails, Races
<1>8. QED  BY <1>3, <1>4, <1>5, <1>6, <1>7

LEMMA TableRaces ==
    ASSUME MigrationInv, RaceInv, NEW p \in Procs, EnsureVersionTable(p) \/ CreateNext(p)
    PROVE  Races(p)
<1> USE DEF MigrationInv, TypeOK
<1>1. PICK x \in Created \cup {VersionTable} : Adds(p, x)
  <2>1. CASE EnsureVersionTable(p)
    BY <2>1 DEF EnsureVersionTable
  <2>2. CASE CreateNext(p)
    BY <2>2 DEF CreateNext, Created, Knows
  <2>3. QED  BY <2>1, <2>2
<1>2. schema' = schema \cup {x} /\ versions' = versions
  BY <1>1 DEF Adds
<1>3. ColumnsInOrder'
  BY <1>2, OrderKept, MigrationsAssumption DEF RaceInv
<1>4. CASE EnsureVersionTable(p)
  <2>1. at'[p] = "check"
    BY <1>4 DEF EnsureVersionTable, Goto
  <2>2. QED  BY <1>3, <2>1 DEF Races, InTheRace, Doomed, Building
<1>5. CASE CreateNext(p)
  <2>1. /\ at[p] = "create" /\ at'[p] \in {"create", "record"} /\ migration' = migration
        /\ migration[p] = 1 /\ Adds(p, Script[next[p]]) /\ Script[next[p]] \in Created
    BY <1>5 DEF CreateNext, Goto, Knows, Created
  <2>2. CASE 1 \in versions
    <3>1. Script[next[p]] \in schema
      BY <2>1, <2>2 DEF RecordedMeansBuilt
    <3>2. UNCHANGED storeVars /\ UNCHANGED excuse
      BY <2>1, <3>1 DEF Adds, storeVars
    <3>3. QED  BY <1>3, <2>1, <2>2, <3>2 DEF Races, InTheRace, Doomed, Building
  <2>3. CASE 1 \notin versions
    BY <1>2, <1>3, <2>1, <2>3 DEF Races, InTheRace, Doomed
  <2>4. QED  BY <2>2, <2>3
<1>6. QED  BY <1>4, <1>5

\* Who adds the next column found none of the later ones, and they are not there.
LEMMA AlterNextRaces ==
    ASSUME MigrationInv, RaceInv, NEW p \in Procs, AlterNext(p)
    PROVE  Races(p)
<1> DEFINE c == Added[next[p]]
<1>1. /\ at[p] = "alter" /\ migration[p] = 2 /\ next[p] \in 1..Len(Added)
      /\ \A n \in 1..(next[p] - 1) : Added[n] \in schema
      /\ found[p] \subseteq schema /\ Len(Added) \in Nat /\ c \in Columns
  BY MigrationsAssumption DEF AlterNext, MigrationInv, Knows, Columns
<1>2. CASE c \notin found[p] /\ c \in schema
  <2>1. UNCHANGED storeVars /\ UNCHANGED excuse
    BY <1>2 DEF AlterNext, Fail, storeVars
  <2>2. Doomed(p)
    BY <1>1, <1>2 DEF Doomed
  <2>3. ColumnsInOrder'
    BY <2>1, OrderKept DEF storeVars, RaceInv
  <2>4. QED  BY <2>1, <2>2, <2>3 DEF Races, InTheRace
<1>3. ASSUME ~(c \notin found[p] /\ c \in schema)
      PROVE  /\ next'[p] = next[p] + 1 /\ migration' = migration /\ found' = found
             /\ at'[p] \in {"alter", "record"}
             /\ IF c \in found[p] THEN UNCHANGED <<schema, versions, excuse>> ELSE Adds(p, c)
  BY <1>1, <1>3 DEF AlterNext, Goto, MigrationInv, TypeOK
<1>4. CASE c \in found[p]
  <2>1. UNCHANGED storeVars /\ UNCHANGED excuse
    BY <1>3, <1>4 DEF storeVars
  <2>2. ColumnsInOrder'
    BY <2>1, OrderKept DEF storeVars, RaceInv
  <2>3. InTheRace(p) => InTheRace(p)'
    <3>1. \A n \in next'[p]..Len(Added) : n \in next[p]..Len(Added)
      BY <1>1, <1>3, <1>4
    <3>2. QED  BY <1>1, <1>3, <1>4, <2>1, <3>1 DEF InTheRace, Doomed, Building, storeVars
  <2>4. QED  BY <2>1, <2>2, <2>3 DEF Races
<1>5. CASE c \notin schema
  <2>1. schema' = schema \cup {c} /\ versions' = versions
    BY <1>1, <1>3, <1>5 DEF Adds
  <2>2. 2 \notin versions
    BY <1>1, <1>5 DEF MigrationInv, RecordedMeansBuilt
  <2>3. \A n \in (next[p] + 1)..Len(Added) : Added[n] \notin schema'
    <3>1. ASSUME NEW n \in (next[p] + 1)..Len(Added) PROVE Added[n] \notin schema'
      <4>1. n \in 1..Len(Added) /\ next[p] < n
        BY <1>1, <3>1
      <4>2. Added[n] \notin schema
        BY <1>1, <1>5, <4>1 DEF RaceInv, ColumnsInOrder
      <4>3. Added[n] # c
        BY <1>1, <4>1, MigrationsAssumption
      <4>4. QED  BY <2>1, <4>2, <4>3
    <3>2. QED  BY <3>1
  <2>4. InTheRace(p)'
    BY <1>1, <1>3, <1>5, <2>1, <2>2, <2>3 DEF InTheRace, Doomed
  <2>5. ColumnsInOrder'
    <3>1. ASSUME NEW m \in 1..Len(Added), NEW n \in 1..Len(Added), m < n, Added[n] \in schema'
          PROVE  Added[m] \in schema'
      <4>1. CASE Added[n] \in schema
        BY <2>1, <3>1, <4>1 DEF RaceInv, ColumnsInOrder
      <4>2. CASE Added[n] \notin schema
        <5>1. Added[n] = c
          BY <2>1, <3>1, <4>2
        <5>2. n = next[p]
          BY <1>1, <5>1, MigrationsAssumption
        <5>3. QED  BY <1>1, <2>1, <3>1, <5>2
      <4>3. QED  BY <4>1, <4>2
    <3>2. QED  BY <3>1 DEF ColumnsInOrder
  <2>6. QED  BY <2>4, <2>5 DEF Races
<1>6. QED  BY <1>2, <1>4, <1>5

LEMMA NextRace == MigrationInv /\ RaceInv /\ [Next]_vars => RaceInv'
<1> SUFFICES ASSUME MigrationInv, RaceInv, [Next]_vars PROVE RaceInv'
  OBVIOUS
<1>1. CASE UNCHANGED vars
  BY <1>1 DEF vars, RaceInv, ColumnsInOrder, InTheRace, Doomed
<1>2. CASE Next
  <2>1. PICK p \in Procs :
          \/ Start(p) \/ EnsureVersionTable(p) \/ CheckApplied(p) \/ CreateNext(p)
          \/ InspectColumns(p) \/ AlterNext(p) \/ RecordVersion(p)
          \/ StatementFails(p) \/ Crash(p)
    BY <1>2 DEF Next
  <2>2. Stepped(p)
    BY <2>1, StartSteps, EnsureVersionTableSteps, CheckAppliedSteps, CreateNextSteps,
       InspectColumnsSteps, AlterNextSteps, RecordVersionSteps, StatementFailsSteps, CrashSteps
  <2>3. Races(p)
    BY <2>1, SchemaKeptRaces, TableRaces, AlterNextRaces
  <2>4. QED  BY <2>2, <2>3, RacesKeepsInv DEF Stepped
<1>3. QED  BY <1>1, <1>2

\* Any number of processes that start at the same time over one database may fail
\* each other, but never all of them: when all ended in an error, a statement of one
\* of them failed for a reason of its own.
THEOREM RacesHaveAWinner == Spec => []RaceHasAWinner
<1>1. Spec => []RaceInv
  BY InitRace, NextRace, MigrationsInvariant, PTL DEF Spec
<1>2. RaceInv => RaceHasAWinner
  BY DEF RaceInv, RaceHasAWinner, InTheRace
<1>3. QED  BY <1>1, <1>2, PTL
=============================================================================
