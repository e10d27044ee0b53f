----------------------------- MODULE OperatorCli -----------------------------
(***************************************************************************)
(* The commands of cli.py that change the store: pin, unpin,               *)
(* resolve-conflict and reindex --apply.  An operator runs one command at  *)
(* a time, as a process of its own beside the clients.  pin and unpin are  *)
(* one transaction.  resolve-conflict reads the envelopes on one           *)
(* connection and writes the record on another.  reindex lists the raw     *)
(* tree once and then, file by file, reads the text and inserts the        *)
(* missing rows.  route, inspect, conflicts, doctor and stats only read.   *)
(***************************************************************************)
EXTENDS SqliteStorage

CONSTANTS Commands      \* the commands the operator uses

CommandKinds == {"pin", "unpin", "resolve", "reindex"}

ASSUME OperatorAssumption == Commands \subseteq CommandKinds

VARIABLES
    opc,       \* "idle", "resolve", "scan" or "insert"
    decision,  \* resolve-conflict: [key, rec] about to be stored, or Null
    todo,      \* reindex: the listed paths still to visit
    held,      \* reindex: the path at hand and the text read from it, or Null
    clean      \* reindex: no error so far (exit code 0)

operatorVars == <<opc, decision, todo, held, clean>>

OperatorTypeOK ==
    /\ opc \in {"idle", "resolve", "scan", "insert"}
    /\ decision \in [key : Keys, rec : ConflictRecord(AllIds)] \cup {Null}
    /\ todo \subseteq Paths
    /\ held \in [path : Paths, text : Texts] \cup {Null}
    /\ clean \in BOOLEAN

OperatorInit ==
    /\ opc = "idle"
    /\ decision = Null
    /\ todo = {}
    /\ held = Null
    /\ clean = TRUE

-----------------------------------------------------------------------------
(* Pins and conflict decisions                                             *)

Pin ==
    /\ opc = "idle"
    /\ \E i \in Ids(envelopes) : AppendPin(i)
    /\ UNCHANGED operatorVars

Unpin ==
    /\ opc = "idle"
    /\ \E i \in Ids(envelopes) : SetMemoryPinned(i, FALSE)
    /\ UNCHANGED operatorVars

\* cmd_resolve_conflict up to the record it will store.  A winner outside the
\* group is a ValueError and the command ends without effect.
DecideConflict ==
    /\ opc = "idle"
    /\ \E k \in Keys, w \in Ids(envelopes) :
          /\ CanResolve(envelopes, k, w)
          /\ decision' = [key |-> k, rec |-> Resolved(envelopes, k, w)]
    /\ opc' = "resolve"
    /\ UNCHANGED <<todo, held, clean, storeVars>>

StoreDecision ==
    /\ opc = "resolve"
    /\ AppendConflict(decision.key, decision.rec)
    /\ opc' = "idle"
    /\ decision' = Null
    /\ UNCHANGED <<todo, held, clean>>

-----------------------------------------------------------------------------
(* reindex_from_raw(dry_run=False)                                         *)

ListRawTree ==
    /\ opc = "idle"
    /\ todo' = {p \in Paths : files[p] # Null}
    /\ clean' = TRUE
    /\ opc' = "scan"
    /\ UNCHANGED <<decision, held, storeVars>>

\* The listing is sorted; file names start with their time stamp.
IsNextPath(p) == p \in todo /\ \A q \in todo : p[1] <= q[1]

\* A file that vanished since the listing is an error; the scan goes on.
ReadRawFile ==
    /\ opc = "scan"
    /\ \E p \in todo :
          /\ IsNextPath(p)
          /\ todo' = todo \ {p}
          /\ IF files[p] = Null
             THEN clean' = FALSE /\ UNCHANGED <<opc, held>>
             ELSE /\ held' = [path |-> p, text |-> files[p]]
                  /\ opc' = "insert"
                  /\ UNCHANGED clean
    /\ UNCHANGED <<decision, storeVars>>

ImportedArtifact(h) == [id |-> ParsedId(h.path), path |-> h.path, sha |-> h.text]
ImportedEnvelope(h, t) ==
    [id |-> ParsedId(h.path), room |-> "errors", kind |-> ParsedKind(h.path),
     truth |-> FALSE, pinned |-> FALSE, verified |-> FALSE,
     key |-> Null, created |-> t, source |-> "import"]

\* Mutant: a file whose text is already known is skipped.
ImportRowsOfNewTexts ==
    /\ opc = "insert"
    /\ IF ParsedId(held.path) \in Ids(artifacts) \/ FindMemoryBySha(held.text) # {}
       THEN UNCHANGED <<clock, artifacts, envelopes, pinLog>>
       ELSE \E t \in Ticks :
               /\ Now(t)
               /\ InsertMemory(ImportedArtifact(held), ImportedEnvelope(held, t))
    /\ opc' = "scan"
    /\ held' = Null
    /\ UNCHANGED <<decision, todo, clean, files, conflicts>>

\* The SELECT and the transaction in one step: a row that appears between them
\* makes the INSERT fail, which stores nothing and costs only the exit code.
ImportRows ==
    /\ opc = "insert"
    /\ IF ParsedId(held.path) \in Ids(artifacts)
       THEN UNCHANGED <<clock, artifacts, envelopes, pinLog>>
       ELSE \E t \in Ticks :
               /\ Now(t)
               /\ InsertMemory(ImportedArtifact(held), ImportedEnvelope(held, t))
    /\ opc' = "scan"
    /\ held' = Null
    /\ UNCHANGED <<decision, todo, clean, files, conflicts>>

ImportFails ==
    /\ "db" \in Faults
    /\ opc = "insert"
    /\ opc' = "scan"
    /\ held' = Null
    /\ clean' = FALSE
    /\ UNCHANGED <<decision, todo, storeVars>>

ReindexEnds ==
    /\ opc = "scan"
    /\ todo = {}
    /\ opc' = "idle"
    /\ UNCHANGED <<decision, todo, held, clean, storeVars>>

-----------------------------------------------------------------------------
OperatorCrash ==
    /\ "crash" \in Faults
    /\ opc # "idle"
    /\ opc' = "idle"
    /\ decision' = Null
    /\ todo' = {}
    /\ held' = Null
    /\ clean' = FALSE
    /\ UNCHANGED storeVars

\* What a started command does by itself, the failures left out.
OperatorStep == StoreDecision \/ ReadRawFile \/ ImportRows \/ ReindexEnds

OperatorFault == ImportFails \/ OperatorCrash
=============================================================================
