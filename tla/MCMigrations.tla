---------------------------- MODULE MCMigrations -----------------------------
(***************************************************************************)
(* Values of the constants for the run of Migrations.                      *)
(***************************************************************************)
EXTENDS Migrations, TLC

CONSTANTS p1, p2, p3

ProcSymmetry == Permutations(Procs)

\* The script's tables; "indexes" stands for the nine CREATE INDEX statements,
\* which like the tables are skipped when they exist.
MCScript == <<"artifacts", "envelopes", "pins", "conflicts", "route_runs", "indexes">>
MCAdded == <<"loser_memory_ids", "resolved_at">>
=============================================================================
