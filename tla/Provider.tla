------------------------------ MODULE Provider -------------------------------
(***************************************************************************)
(* provider.py and the ingest half of plugin.py: every client process runs *)
(* record_turn_artifact, one turn at a time.  The program counter stands   *)
(* before the next access to the shared store:                             *)
(*                                                                         *)
(*   idle -> dedupe -> [group] -> write -> commit -> list -> merge         *)
(*                        -> append (once per conflict) -> reply -> idle   *)
(*                                                                         *)
(* with exits to reply for a turn that is refused, already stored or hit   *)
(* by a storage error, and commit -> unlink -> reply for a rolled back     *)
(* transaction, or to raised for an exception that passes to the host.  A  *)
(* crash loses the counter and everything the process knew; files and      *)
(* committed rows stay.                                                    *)
(***************************************************************************)
EXTENDS SqliteStorage, FiniteSets

CONSTANTS Clients,    \* host processes sharing the store
          Turns,      \* what a host may ask to record
          Redact,     \* redact_text: stored text of a raw text, Null when dropped
          Signature,  \* _normalize_for_signature of a stored text
          Window      \* repeat_error_group_window

RawTexts == DOMAIN Redact

Turn == [room : Rooms \cup {Null}, kind : Kinds, raw : RawTexts,
         truth : BOOLEAN, pinned : BOOLEAN, key : Keys \cup {Null}]

ASSUME ProviderAssumption ==
    /\ Redact \in [RawTexts -> Texts \cup {Null}]
    /\ Turns \subseteq Turn
    /\ Window \in Nat

VARIABLES
    pc,        \* where each client is
    turn,      \* the turn it records, or Null
    stamp,     \* the clock reading its artifact is named after
    snapshot,  \* the envelopes _sync_conflicts listed
    pending,   \* the conflict records it has yet to append, Null once appended
    answer     \* the memory record_turn_artifact returns, Null for None

clientVars == <<pc, turn, stamp, snapshot, pending, answer>>

Steps == {"idle", "dedupe", "group", "write", "commit", "unlink",
          "list", "merge", "append", "reply", "raised"}

NothingPending == [k \in Keys |-> Null]

ClientTypeOK ==
    /\ pc \in [Clients -> Steps]
    /\ turn \in [Clients -> Turns \cup {Null}]
    /\ stamp \in [Clients -> 0..MaxTick]
    /\ snapshot \in [Clients -> SUBSET Envelope]
    /\ pending \in [Clients -> [Keys -> ConflictRecord(AllIds) \cup {Null}]]
    /\ answer \in [Clients -> AllIds \cup {Null}]

ClientInit ==
    /\ pc = [c \in Clients |-> "idle"]
    /\ turn = [c \in Clients |-> Null]
    /\ stamp = [c \in Clients |-> 0]
    /\ snapshot = [c \in Clients |-> {}]
    /\ pending = [c \in Clients |-> NothingPending]
    /\ answer = [c \in Clients |-> Null]

Text(c) == Redact[turn[c].raw]
Id(c)   == <<stamp[c], 0>>
Path(c) == <<stamp[c], turn[c].kind>>

Goto(c, step) == pc' = [pc EXCEPT ![c] = step]

Reply(c, result) ==
    /\ Goto(c, "reply")
    /\ answer' = [answer EXCEPT ![c] = result]

\* The process forgets what it was doing.
Forget(c) ==
    /\ Goto(c, "idle")
    /\ turn' = [turn EXCEPT ![c] = Null]
    /\ stamp' = [stamp EXCEPT ![c] = 0]
    /\ snapshot' = [snapshot EXCEPT ![c] = {}]
    /\ pending' = [pending EXCEPT ![c] = NothingPending]
    /\ answer' = [answer EXCEPT ![c] = Null]

-----------------------------------------------------------------------------
(* record_turn_artifact up to the dedupe check                             *)

\* Mutant: a blank room is not refused.
ReceiveAnyRoom(c, t) ==
    /\ pc[c] = "idle"
    /\ turn' = [turn EXCEPT ![c] = t]
    /\ IF Redact[t.raw] = Null THEN Reply(c, Null) ELSE Goto(c, "dedupe") /\ UNCHANGED answer
    /\ UNCHANGED <<stamp, snapshot, pending, storeVars>>

\* validate_ingest and redact_text run before any shared access.  A blank room
\* and a dropped text fail open: None is returned and nothing is stored.
Receive(c, t) ==
    /\ pc[c] = "idle"
    /\ turn' = [turn EXCEPT ![c] = t]
    /\ IF t.room = Null \/ Redact[t.raw] = Null
       THEN Reply(c, Null)
       ELSE Goto(c, "dedupe") /\ UNCHANGED answer
    /\ UNCHANGED <<stamp, snapshot, pending, storeVars>>

\* Mutant: the hash is taken of the text before redaction.
DeduplicateUnredacted(c) ==
    /\ pc[c] = "dedupe"
    /\ IF FindMemoryBySha(turn[c].raw) # {}
       THEN \E e \in FindMemoryBySha(turn[c].raw) : Reply(c, e.id)
       ELSE /\ Goto(c, IF IsDiagnostic(turn[c].kind) THEN "group" ELSE "write")
            /\ UNCHANGED answer
    /\ UNCHANGED <<turn, stamp, snapshot, pending, storeVars>>

\* find_memory_by_artifact_sha256 on the text as it would be stored.
Deduplicate(c) ==
    /\ pc[c] = "dedupe"
    /\ IF FindMemoryBySha(Text(c)) # {}
       THEN \E e \in FindMemoryBySha(Text(c)) : Reply(c, e.id)
       ELSE /\ Goto(c, IF IsDiagnostic(turn[c].kind) THEN "group" ELSE "write")
            /\ UNCHANGED answer
    /\ UNCHANGED <<turn, stamp, snapshot, pending, storeVars>>

\* Mutant: the window ends one envelope early.
RecentButOne == {e \in envelopes :
                    Cardinality({f \in envelopes : f.created >= e.created}) < Window}

\* The newest envelopes, as many as the window admits.
Recent == {e \in envelopes :
              Cardinality({f \in envelopes : f.created > e.created}) < Window}

\* Mutant: an error of another kind counts as the same.
SameErrorAnyKind(t) ==
    {e \in Recent :
        /\ e.room = t.room
        /\ ReadArtifactText(e.id) # Null
        /\ Signature[ReadArtifactText(e.id)] = Signature[Redact[t.raw]]}

\* Recent memories of the same error.  Their rows and files are never changed
\* once committed, so listing them and reading their texts is one step.
SameError(t) ==
    {e \in Recent :
        /\ e.room = t.room
        /\ e.kind = t.kind
        /\ ReadArtifactText(e.id) # Null
        /\ Signature[ReadArtifactText(e.id)] = Signature[Redact[t.raw]]}

\* The scan runs from the newest envelope and stops at the first match.
GroupRepeatedError(c) ==
    /\ pc[c] = "group"
    /\ IF SameError(turn[c]) # {}
       THEN \E e \in SameError(turn[c]) :
               /\ \A f \in SameError(turn[c]) : f.created <= e.created
               /\ Reply(c, e.id)
       ELSE Goto(c, "write") /\ UNCHANGED answer
    /\ UNCHANGED <<turn, stamp, snapshot, pending, storeVars>>

-----------------------------------------------------------------------------
(* persist_memory_turn                                                     *)

\* The clock names the artifact and its file; the file is in place before the
\* transaction begins.
WriteRaw(c) ==
    /\ pc[c] = "write"
    /\ \E t \in Ticks :
          /\ Now(t)
          /\ stamp' = [stamp EXCEPT ![c] = t]
          /\ AtomicWriteText(<<t, turn[c].kind>>, Text(c))
    /\ Goto(c, "commit")
    /\ UNCHANGED <<turn, snapshot, pending, answer, artifacts, envelopes, pinLog, conflicts>>

\* An OSError removes the .tmp file and leaves the tree as it was.  This and
\* every other StorageError becomes None in record_turn_artifact (fail open).
WriteRawFails(c) ==
    /\ "disk" \in Faults
    /\ pc[c] = "write"
    /\ Reply(c, Null)
    /\ UNCHANGED <<turn, stamp, snapshot, pending, storeVars>>

NewArtifact(c) == [id |-> Id(c), path |-> Path(c), sha |-> Text(c)]
NewEnvelope(c) ==
    [id |-> Id(c), room |-> turn[c].room, kind |-> turn[c].kind,
     truth |-> turn[c].truth, pinned |-> turn[c].pinned, verified |-> FALSE,
     key |-> turn[c].key, created |-> stamp[c], source |-> "rule"]

CommitRows(c) ==
    /\ pc[c] = "commit"
    /\ InsertMemory(NewArtifact(c), NewEnvelope(c))
    /\ Goto(c, "list")
    /\ UNCHANGED <<turn, stamp, snapshot, pending, answer, clock, files, conflicts>>

\* Mutant: the envelope row survives a failed transaction.
CommitFailsPartly(c) ==
    /\ pc[c] = "commit"
    /\ ~KeysFree(Id(c)) \/ "db" \in Faults
    /\ envelopes' = envelopes \cup {NewEnvelope(c)}
    /\ Goto(c, "unlink")
    /\ UNCHANGED <<turn, stamp, snapshot, pending, answer, clock, files, artifacts,
                   pinLog, conflicts>>

\* A taken primary key or a database error rolls the transaction back.
CommitFails(c) ==
    /\ pc[c] = "commit"
    /\ ~KeysFree(Id(c)) \/ "db" \in Faults
    /\ Goto(c, "unlink")
    /\ UNCHANGED <<turn, stamp, snapshot, pending, answer, storeVars>>

\* Mutant: the except block does not remove the file.
UnlinkNothing(c) ==
    /\ pc[c] = "unlink"
    /\ Reply(c, Null)
    /\ UNCHANGED <<turn, stamp, snapshot, pending, storeVars>>

\* The cleanup of the except block, in a step of its own after the rollback; an
\* OSError of the unlink is swallowed.  Either way StorageWriteError is raised.
UnlinkRaw(c) ==
    /\ pc[c] = "unlink"
    /\ UnlinkPath(Path(c)) \/ ("unlink" \in Faults /\ UNCHANGED files)
    /\ Reply(c, Null)
    /\ UNCHANGED <<turn, stamp, snapshot, pending, clock, artifacts, envelopes, pinLog, conflicts>>

-----------------------------------------------------------------------------
(* _sync_conflicts                                                         *)

ListEnvelopes(c) ==
    /\ pc[c] = "list"
    /\ snapshot' = [snapshot EXCEPT ![c] = envelopes]
    /\ Goto(c, "merge")
    /\ UNCHANGED <<turn, stamp, pending, answer, storeVars>>

\* list_conflicts and the detection over both reads.
MergeConflicts(c) ==
    /\ pc[c] = "merge"
    /\ pending' = [pending EXCEPT ![c] = Detect(snapshot[c], conflicts)]
    /\ snapshot' = [snapshot EXCEPT ![c] = {}]
    /\ IF Detect(snapshot[c], conflicts) = NothingPending
       THEN Reply(c, Id(c))
       ELSE Goto(c, "append") /\ UNCHANGED answer
    /\ UNCHANGED <<turn, stamp, storeVars>>

\* Groups come in the order in which the listing, sorted by created_at, met
\* their first member.
IsNextPending(c, k) ==
    /\ pending[c][k] # Null
    /\ \E i \in pending[c][k].cands :
          \A j \in Keys \ {k} : pending[c][j] # Null =>
              \A m \in pending[c][j].cands : ~IdBefore(m, i)

\* Mutant: the loop ends after its first record.
AppendFirstOnly(c) ==
    /\ pc[c] = "append"
    /\ \E k \in Keys :
          /\ IsNextPending(c, k)
          /\ AppendConflict(k, pending[c][k])
          /\ pending' = [pending EXCEPT ![c] = NothingPending]
    /\ Reply(c, Id(c))
    /\ UNCHANGED <<turn, stamp, snapshot>>

\* Mutant: the loop never leaves its first record.
AppendForever(c) ==
    /\ pc[c] = "append"
    /\ \E k \in Keys : IsNextPending(c, k) /\ AppendConflict(k, pending[c][k])
    /\ UNCHANGED clientVars

\* One append_conflict, a transaction of its own.
AppendNext(c) ==
    /\ pc[c] = "append"
    /\ \E k \in Keys :
          /\ IsNextPending(c, k)
          /\ AppendConflict(k, pending[c][k])
          /\ pending' = [pending EXCEPT ![c][k] = Null]
          /\ IF \A j \in Keys \ {k} : pending[c][j] = Null
             THEN Reply(c, Id(c))
             ELSE UNCHANGED <<pc, answer>>
    /\ UNCHANGED <<turn, stamp, snapshot>>

-----------------------------------------------------------------------------
(* Errors, the answer to the host, crashes                                 *)

\* Mutant: an error of the sync also cleans up the raw file.
StorageFailsCleansUp(c) ==
    /\ "db" \in Faults
    /\ pc[c] \in {"dedupe", "group", "list", "merge", "append"}
    /\ IF pc[c] \in {"dedupe", "group"} THEN Reply(c, Null)
       ELSE Goto(c, "unlink") /\ UNCHANGED answer
    /\ UNCHANGED <<turn, stamp, snapshot, pending, storeVars>>

\* A failed read or append_conflict raises out of the pipeline: what was
\* committed before stays.
StorageFails(c) ==
    /\ "db" \in Faults
    /\ pc[c] \in {"dedupe", "group", "list", "merge", "append"}
    /\ Reply(c, Null)
    /\ UNCHANGED <<turn, stamp, snapshot, pending, storeVars>>

\* mkdir and _connect stand outside the try blocks: what they raise is no
\* StorageError and passes the fail-open clause.  Nothing is cleaned up, so a
\* file written before stays.
IngestRaises(c) ==
    /\ "open" \in Faults
    /\ pc[c] \in {"dedupe", "group", "write", "commit", "list", "merge", "append"}
    /\ Goto(c, "raised")
    /\ UNCHANGED <<turn, stamp, snapshot, pending, answer, storeVars>>

\* The answer, or the exception, reaches the host, which goes on.
Return(c) ==
    /\ pc[c] \in {"reply", "raised"}
    /\ Forget(c)
    /\ UNCHANGED storeVars

Crash(c) ==
    /\ "crash" \in Faults
    /\ pc[c] # "idle"
    /\ Forget(c)
    /\ UNCHANGED storeVars

\* What a running client does by itself, the failures left out.
ClientStep(c) ==
    \/ Deduplicate(c) \/ GroupRepeatedError(c)
    \/ WriteRaw(c) \/ CommitRows(c) \/ CommitFails(c) \/ UnlinkRaw(c)
    \/ ListEnvelopes(c) \/ MergeConflicts(c) \/ AppendNext(c)
    \/ Return(c)

ClientFault(c) == WriteRawFails(c) \/ StorageFails(c) \/ IngestRaises(c) \/ Crash(c)
=============================================================================
