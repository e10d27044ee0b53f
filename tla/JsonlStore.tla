----------------------------- MODULE JsonlStore ------------------------------
(***************************************************************************)
(* storage.py, the legacy backend: raw files and append-only index files   *)
(* without a transaction.  One host records notes, fails, dies, and may    *)
(* record the same note again.                                             *)
(*                                                                         *)
(* What matters of an index file beside its rows is how it ends.  A failed *)
(* or interrupted append may have written nothing, part of its line (a     *)
(* line that does not parse), the line without its newline (which parses,  *)
(* until the next append is glued to it) or all of it.  read_jsonl raises  *)
(* on a line that does not parse, so a torn file cannot be read at all.    *)
(* A hash is the text itself; one clock reading names one artifact.        *)
(***************************************************************************)
EXTENDS Conflicts, FiniteSets

CONSTANTS Notes,     \* what the host may ask to record
          MaxTick,   \* bound: clock readings of a behaviour
          MaxFaults  \* bound: failures and crashes of a behaviour

Logs == {"artifacts", "envelopes", "pins", "conflicts"}
Endings == {"clean", "unended", "torn"}
Ticks == 1..MaxTick
MemoryIds == {<<t, 0>> : t \in Ticks}
Texts == {n.text : n \in Notes}

ASSUME JsonlAssumption ==
    /\ Null \notin Texts
    /\ \A n \in Notes : n.pinned \in BOOLEAN /\ n.truth \in BOOLEAN
                        /\ n.key \in Keys \cup {Null}
    /\ MaxTick \in Nat /\ MaxFaults \in Nat

VARIABLES
    files,      \* raw/: the text written at a tick, or Null
    artifacts,  \* rows of artifacts.jsonl
    envelopes,  \* rows of envelopes.jsonl
    conflicts,  \* the last row per key of conflicts.jsonl
    ending,     \* how every index file ends
    clock,
    faults,     \* failures so far
    at,         \* where the host is in store_artifact_as_memory
    note,       \* the note it records, or Null
    pending,    \* conflict rows its sync has yet to append
    answer,     \* the memory it returns, or Null
    confirmed   \* history: memories whose own recording was answered with success

diskVars == <<files, artifacts, envelopes, conflicts, ending>>
hostVars == <<at, note, pending, answer>>
vars == <<diskVars, clock, faults, hostVars, confirmed>>

Places == {"idle", "dedupe", "raw", "artifact", "envelope", "pin", "unlink",
           "sync", "conflict", "reply"}

Memory == [id : MemoryIds, truth : BOOLEAN, pinned : BOOLEAN, verified : {FALSE},
           key : Keys \cup {Null}, created : Ticks]

TypeOK ==
    /\ files \in [Ticks -> Texts \cup {Null}]
    /\ artifacts \subseteq [id : MemoryIds, sha : Texts]
    /\ envelopes \subseteq Memory
    /\ conflicts \in [Keys -> ConflictRecord(MemoryIds) \cup {Null}]
    /\ ending \in [Logs -> Endings]
    /\ clock \in 0..MaxTick /\ faults \in 0..MaxFaults
    /\ at \in Places
    /\ note \in Notes \cup {Null}
    /\ pending \in [Keys -> ConflictRecord(MemoryIds) \cup {Null}]
    /\ answer \in MemoryIds \cup {Null}
    /\ confirmed \subseteq MemoryIds

NothingPending == [k \in Keys |-> Null]

Init ==
    /\ files = [t \in Ticks |-> Null]
    /\ artifacts = {} /\ envelopes = {} /\ conflicts = NothingPending
    /\ ending = [l \in Logs |-> "clean"]
    /\ clock = 0 /\ faults = 0
    /\ at = "idle" /\ note = Null /\ pending = NothingPending /\ answer = Null
    /\ confirmed = {}

Id == <<clock, 0>>
NewArtifact == [id |-> Id, sha |-> note.text]
NewMemory == [id |-> Id, truth |-> note.truth, pinned |-> note.pinned,
              verified |-> FALSE, key |-> note.key, created |-> clock]

-----------------------------------------------------------------------------
(* read_jsonl and _append_jsonl                                            *)

Readable(log) == ending[log] # "torn"

EndsAs(log, e) == ending' = [ending EXCEPT ![log] = e]

\* A whole line.  One glued to an unended line makes a line that does not parse.
Appended(log) == EndsAs(log, IF ending[log] = "clean" THEN "clean" ELSE "torn")

\* The line without its newline.
Unended(log) == EndsAs(log, IF ending[log] = "clean" THEN "unended" ELSE "torn")

\* The row the host is about to append; k is the conflict whose turn it is.
AddsRow(log, k) ==
    /\ artifacts' = IF log = "artifacts" THEN artifacts \cup {NewArtifact} ELSE artifacts
    /\ envelopes' = IF log = "envelopes" THEN envelopes \cup {NewMemory} ELSE envelopes
    /\ conflicts' = IF log = "conflicts" THEN [conflicts EXCEPT ![k] = pending[k]] ELSE conflicts
    /\ UNCHANGED files

\* What an append that does not return normally may leave behind.
Interrupted(log, k) ==
    \/ UNCHANGED diskVars
    \/ EndsAs(log, "torn") /\ UNCHANGED <<files, artifacts, envelopes, conflicts>>
    \/ Unended(log) /\ AddsRow(log, k)
    \/ Appended(log) /\ AddsRow(log, k)

LogAt == CASE at = "artifact" -> "artifacts" [] at = "envelope" -> "envelopes"
           [] at = "pin" -> "pins" [] at = "conflict" -> "conflicts"

\* The conflict to append next, any key elsewhere.
MayAppend(k) ==
    /\ at \in {"artifact", "envelope", "pin", "conflict"}
    /\ at = "conflict" => pending[k] # Null

-----------------------------------------------------------------------------
(* store_artifact_as_memory over this backend                              *)

Reply(result) == at' = "reply" /\ answer' = result
ReplyStored == Reply(Id) /\ confirmed' = confirmed \cup {Id}

Receive(n) ==
    /\ at = "idle" /\ clock < MaxTick
    /\ at' = "dedupe" /\ note' = n
    /\ UNCHANGED <<diskVars, clock, faults, pending, answer, confirmed>>

\* The memories find_memory_by_artifact_sha256 may find.
SameText == {e \in envelopes : \E a \in artifacts : a.id = e.id /\ a.sha = note.text}
HasArtifact == \E a \in artifacts : a.sha = note.text

\* Mutant: the search ends at the first artifact with the text.
DeduplicateFirstArtifact ==
    /\ at = "dedupe"
    /\ IF ~Readable("artifacts") \/ (HasArtifact /\ ~Readable("envelopes")) THEN Reply(Null)
       ELSE IF ~HasArtifact THEN at' = "raw" /\ UNCHANGED answer
       ELSE \E a \in artifacts :
               /\ a.sha = note.text
               /\ IF a.id \in Ids(envelopes) THEN Reply(a.id) ELSE at' = "raw" /\ UNCHANGED answer
    /\ UNCHANGED <<diskVars, clock, faults, note, pending, confirmed>>

\* It lists the envelopes only if some artifact has the text, and raises
\* IndexCorruptionError, for the host None, on a file that cannot be read.
Deduplicate ==
    /\ at = "dedupe"
    /\ IF ~Readable("artifacts") \/ (HasArtifact /\ ~Readable("envelopes")) THEN Reply(Null)
       ELSE IF SameText # {} THEN \E e \in SameText : Reply(e.id)
       ELSE at' = "raw" /\ UNCHANGED answer
    /\ UNCHANGED <<diskVars, clock, faults, note, pending, confirmed>>

\* persist_raw_artifact: the file first, complete or not at all.
WriteRaw ==
    /\ at = "raw" /\ clock < MaxTick
    /\ clock' = clock + 1
    /\ files' = [files EXCEPT ![clock + 1] = note.text]
    /\ at' = "artifact"
    /\ UNCHANGED <<artifacts, envelopes, conflicts, ending, faults, note, pending, answer, confirmed>>

\* Where an append that returned leads; the last one ends the call.
Proceed(k) ==
    /\ pending' = IF at = "conflict" THEN [pending EXCEPT ![k] = Null] ELSE pending
    /\ IF at = "conflict" /\ \A j \in Keys \ {k} : pending[j] = Null
       THEN ReplyStored
       ELSE /\ at' = CASE at = "artifact" -> "envelope"
                       [] at = "envelope" -> IF note.pinned THEN "pin" ELSE "sync"
                       [] at = "pin"      -> "sync"
                       [] at = "conflict" -> "conflict"
            /\ UNCHANGED <<answer, confirmed>>

\* Mutant: the envelope is indexed before its artifact.
AppendEnvelopeFirst ==
    LET log == CASE at = "artifact" -> "envelopes" [] at = "envelope" -> "artifacts"
                 [] OTHER -> LogAt
    IN  \E k \in Keys :
          /\ MayAppend(k)
          /\ AddsRow(log, k) /\ Appended(log)
          /\ Proceed(k)
          /\ UNCHANGED <<clock, faults, note>>

\* One _append_jsonl that returns.
Append ==
    \E k \in Keys :
        /\ MayAppend(k)
        /\ AddsRow(LogAt, k) /\ Appended(LogAt)
        /\ Proceed(k)
        /\ UNCHANGED <<clock, faults, note>>

\* It raises: persist_raw_artifact and persist_memory_turn remove the raw file,
\* whatever rows are written by then; a failed append_conflict cleans up nothing.
AppendFails ==
    /\ faults < MaxFaults /\ faults' = faults + 1
    /\ \E k \in Keys : MayAppend(k) /\ Interrupted(LogAt, k)
    /\ IF at = "conflict" THEN Reply(Null) ELSE at' = "unlink" /\ UNCHANGED answer
    /\ UNCHANGED <<clock, note, pending, confirmed>>

\* Mutant: the cleanup removes the newest file that has a memory.
UnlinkNewestMemory ==
    /\ at = "unlink"
    /\ files' = [t \in Ticks |->
                   IF <<t, 0>> \in Ids(envelopes)
                      /\ \A i \in Ids(envelopes) : i[1] <= t THEN Null ELSE files[t]]
    /\ Reply(Null)
    /\ UNCHANGED <<artifacts, envelopes, conflicts, ending, clock, faults, note, pending, confirmed>>

\* Mutant: the cleanup empties the file instead of removing it.
EmptyRaw ==
    /\ at = "unlink"
    /\ files' = [files EXCEPT ![clock] = ""]
    /\ Reply(Null)
    /\ UNCHANGED <<artifacts, envelopes, conflicts, ending, clock, faults, note, pending, confirmed>>

\* An OSError of the unlink is swallowed.
UnlinkRaw ==
    /\ at = "unlink"
    /\ \/ files' = [files EXCEPT ![clock] = Null] /\ UNCHANGED faults
       \/ faults < MaxFaults /\ faults' = faults + 1 /\ UNCHANGED files
    /\ Reply(Null)
    /\ UNCHANGED <<artifacts, envelopes, conflicts, ending, clock, note, pending, confirmed>>

\* _sync_conflicts reads both files; the host is alone, so the reads are one step.
Sync ==
    /\ at = "sync"
    /\ LET found == Detect(envelopes, conflicts) IN
       IF ~Readable("envelopes") \/ ~Readable("conflicts")
       THEN Reply(Null) /\ UNCHANGED <<pending, confirmed>>
       ELSE /\ pending' = found
            /\ IF found = NothingPending THEN ReplyStored
               ELSE at' = "conflict" /\ UNCHANGED <<answer, confirmed>>
    /\ UNCHANGED <<diskVars, clock, faults, note>>

Forget == at' = "idle" /\ note' = Null /\ pending' = NothingPending /\ answer' = Null

Return ==
    /\ at = "reply"
    /\ Forget
    /\ UNCHANGED <<diskVars, clock, faults, confirmed>>

\* A read or the raw file's write fails with StorageReadError or StorageWriteError.
ReadOrWriteFails ==
    /\ at \in {"dedupe", "raw", "sync"} /\ faults < MaxFaults
    /\ faults' = faults + 1
    /\ Reply(Null)
    /\ UNCHANGED <<diskVars, clock, note, pending, confirmed>>

\* The process dies, possibly within an append.
Crash ==
    /\ at # "idle" /\ faults < MaxFaults
    /\ faults' = faults + 1
    /\ UNCHANGED diskVars \/ \E k \in Keys : MayAppend(k) /\ Interrupted(LogAt, k)
    /\ Forget
    /\ UNCHANGED <<clock, confirmed>>

\* The host stops once the clock is used up.
Finished == at = "idle" /\ clock = MaxTick /\ UNCHANGED vars

Next ==
    \/ \E n \in Notes : Receive(n)
    \/ Deduplicate \/ WriteRaw \/ Append \/ UnlinkRaw \/ Sync \/ Return
    \/ AppendFails \/ ReadOrWriteFails \/ Crash
    \/ Finished

Spec == Init /\ [][Next]_vars
-----------------------------------------------------------------------------
\* doctor: ok when the three files it reads parse and every artifact's raw file is
\* there.  (It raises on a torn artifacts.jsonl, which is no "ok" either.)
DoctorOk ==
    /\ \A log \in Logs \ {"pins"} : Readable(log)
    /\ \A a \in artifacts : files[a.id[1]] # Null

\* read_artifact_text of a memory gives its text.
HasText(i) == \E a \in artifacts : a.id = i /\ files[i[1]] = a.sha

\* A store that doctor calls healthy leads from every memory to its text: the
\* order of the appends and the cleanup after any failure may lose a memory or
\* its text, but never without a trace that doctor sees.
HealthyMeansReadable == DoctorOk => \A i \in Ids(envelopes) : HasText(i)

\* A memory whose recording succeeded keeps its row and its text through all
\* later failures, cleanups and crashes, as long as the files parse.
ConfirmedMemoriesKept ==
    Readable("artifacts") /\ Readable("envelopes") =>
        \A i \in confirmed : i \in Ids(envelopes) /\ HasText(i)

\* However often a turn is retried after a failure, no text gets two memories.
RetriesNeverDuplicate ==
    \A a, b \in artifacts :
        a # b /\ a.id \in Ids(envelopes) /\ b.id \in Ids(envelopes) => a.sha # b.sha

\* The ledger this store keeps: what it confirmed, each memory with the text in its file.
Ledger ==
    INSTANCE MemoryLedger WITH
        MemoryTexts <- Texts,
        memories <- {[id |-> i, text |-> files[i[1]]] : i \in confirmed}

\* Of a memory it was told it has stored (not merely that the text was there before) a
\* host may rely on what SQLite promises: it is new, and keeps its text through torn
\* files, cleanups, retries and crashes.
LedgerSpec == Ledger!Spec
=============================================================================
