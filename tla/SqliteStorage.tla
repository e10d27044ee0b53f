---------------------------- MODULE SqliteStorage ----------------------------
(***************************************************************************)
(* storage_sqlite.py: the raw/ tree and the tables of metadata.db that all *)
(* processes on one machine share.  Every operator below is one connection *)
(* (a committed transaction or one SELECT) or one file operation, the      *)
(* grain at which processes interleave.                                    *)
(*                                                                         *)
(* Stored text is a member of Texts; its sha256 is the text itself.  Time  *)
(* is a tick per reading of datetime.now(): two readings differ, unless    *)
(* CoarseClock lets a reading repeat the one before it (two processes in   *)
(* the same microsecond).  A memory id is "mem_" + its artifact id, so one *)
(* set of ids serves both tables, and provenance_artifact_ids is <<id>>.   *)
(***************************************************************************)
EXTENDS Conflicts

CONSTANTS Texts,        \* file contents
          Rooms,        \* rooms that turns are filed under
          MaxTick,      \* bound: how many clock readings a behaviour has
          CoarseClock,  \* whether two readings may be equal
          Faults        \* environment failures a behaviour may contain

\* A transaction, a file write or an unlink fails, a process dies, the database or
\* the day's directory cannot be opened at all, a raw file is lost from outside.
FaultKinds == {"db", "disk", "unlink", "crash", "open", "loss"}

ASSUME StorageAssumption ==
    /\ Null \notin Texts
    /\ MaxTick \in Nat
    /\ CoarseClock \in BOOLEAN
    /\ Faults \subseteq FaultKinds

VARIABLES
    clock,      \* the last reading of the clock
    files,      \* raw/: the text at every path, or Null
    artifacts,  \* rows of table artifacts, artifact_id is the primary key
    envelopes,  \* rows of table envelopes, memory_id is the primary key
    pinLog,     \* table pins: the flag of the last row of every memory, or Null
    conflicts   \* table conflicts: the record of every key, or Null

storeVars == <<clock, files, artifacts, envelopes, pinLog, conflicts>>

-----------------------------------------------------------------------------
Kinds == {"note", "stacktrace", "shell_output", "tool_output"}

IsDiagnostic(kind) == kind \in {"stacktrace", "shell_output", "tool_output"}

Ticks == 1..MaxTick
Paths == Ticks \X Kinds       \* art_<tick>_<kind>.txt in the day's directory
\* <<t, 0>> is art_<t>.  reindex splits a file name at its last underscore, so
\* from the two kinds that hold one it reads art_<t>_shell and art_<t>_tool.
AllIds == Ticks \X (0..2)

\* None is no memory id, no conflict record and nobody's signature.
ASSUME NullAssumption ==
    /\ Null \notin AllIds
    /\ Null \notin ConflictRecord(AllIds)
    /\ Null # "operator"

ParsedId(p) ==
    CASE p[2] = "shell_output" -> <<p[1], 1>>
      [] p[2] = "tool_output"  -> <<p[1], 2>>
      [] OTHER                 -> <<p[1], 0>>

ParsedKind(p) == IF p[2] \in {"shell_output", "tool_output"} THEN "output" ELSE p[2]

Artifact == [id : AllIds, path : Paths, sha : Texts]
Envelope == [id : AllIds, room : Rooms \cup {"errors"}, kind : Kinds \cup {"output"},
             truth : BOOLEAN, pinned : BOOLEAN, verified : {FALSE},
             key : Keys \cup {Null}, created : Ticks, source : {"rule", "import"}]

StoreTypeOK ==
    /\ clock \in 0..MaxTick
    /\ files \in [Paths -> Texts \cup {Null}]
    /\ artifacts \subseteq Artifact
    /\ envelopes \subseteq Envelope
    /\ pinLog \in [AllIds -> BOOLEAN \cup {Null}]
    /\ conflicts \in [Keys -> ConflictRecord(AllIds) \cup {Null}]

StoreInit ==
    /\ clock = 0
    /\ files = [p \in Paths |-> Null]
    /\ artifacts = {}
    /\ envelopes = {}
    /\ pinLog = [i \in AllIds |-> Null]
    /\ conflicts = [k \in Keys |-> Null]

-----------------------------------------------------------------------------
(* Reads                                                                   *)

\* read_artifact_text: Null without a row or without the file it names.
ReadArtifactText(i) ==
    LET A == {a \in artifacts : a.id = i}
    IN  IF A = {} THEN Null ELSE files[(CHOOSE a \in A : TRUE).path]

\* find_memory_by_artifact_sha256: LIMIT 1 picks any of these.
FindMemoryBySha(sha) ==
    {e \in envelopes : \E a \in artifacts : a.id = e.id /\ a.sha = sha}

-----------------------------------------------------------------------------
(* Writes                                                                  *)

\* A reading of datetime.now().
Now(t) ==
    /\ t \in Ticks \cap (IF CoarseClock THEN {clock, clock + 1} ELSE {clock + 1})
    /\ clock' = t

\* _atomic_write_text: the rename makes the whole file visible at once.
AtomicWriteText(p, text) == files' = [files EXCEPT ![p] = text]

UnlinkPath(p) == files' = [files EXCEPT ![p] = Null]

KeysFree(i) ==
    /\ \A a \in artifacts : a.id # i
    /\ \A e \in envelopes : e.id # i

\* The transaction of persist_memory_turn: both rows and, for a memory born
\* pinned, its pin row.
InsertMemory(a, e) ==
    /\ KeysFree(a.id)
    /\ artifacts' = artifacts \cup {a}
    /\ envelopes' = envelopes \cup {e}
    /\ pinLog' = IF e.pinned THEN [pinLog EXCEPT ![e.id] = TRUE] ELSE pinLog

\* append_pin, the whole of `hermes-mp pin`: a row of pins and nothing else.
AppendPin(i) ==
    /\ pinLog' = [pinLog EXCEPT ![i] = TRUE]
    /\ UNCHANGED <<clock, files, artifacts, envelopes, conflicts>>

\* set_memory_pinned: an unknown memory rolls back; the conflicts stay as stored.
SetMemoryPinned(i, flag) ==
    /\ i \in Ids(envelopes)
    /\ envelopes' = {IF e.id = i THEN [e EXCEPT !.pinned = flag] ELSE e : e \in envelopes}
    /\ pinLog' = [pinLog EXCEPT ![i] = flag]
    /\ UNCHANGED <<clock, files, artifacts, conflicts>>

\* append_conflict: INSERT OR REPLACE by conflict_key.
AppendConflict(k, rec) ==
    /\ conflicts' = [conflicts EXCEPT ![k] = rec]
    /\ UNCHANGED <<clock, files, artifacts, envelopes, pinLog>>
=============================================================================
