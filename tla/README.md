# hermes_mempalace_routing in TLA+

A model of the routing plugin of `src/`: what several host processes and an
operator do to one SQLite store and one tree of raw text files, how the effective
memory of a conflict is chosen, how a query turns the store into a prompt within its
token budget, how processes that start together migrate the schema, and how the
legacy JSONL store survives failed appends. TLC checks small instances, TLAPS proves
the central properties for every number of processes, turns and clock readings.

Source paths below are relative to `src/hermes_mempalace_routing/` unless they start
with `src/`.

    tlc -config serving.cfg MCPalace.tla       # one run; the others alike
    tlapm PalaceProofs.tla                     # and the other ...Proofs modules

## 1. The system

A host agent loads the plugin (`plugin.py`) and calls two hooks. After a turn,
`record_turn_artifact` stores the turn's text as a *memory*: a raw file under
`raw/<date>/`, a row of `artifacts` (its hash and path) and a row of `envelopes` (what
retrieval needs). Before a turn, `build_context_for_query` selects memories and
renders them within a token budget. Both fail open: a storage error becomes `None`.
Beside the hosts an operator runs `hermes-mp` (`cli.py`) on the same directory.

| Component | State | Operations | Interacts with |
|---|---|---|---|
| Conflict truth management, `conflicts.py` | none (pure) | `choose_effective_memory`, `detect_conflicts`, `resolve_conflict` | called by ingest, retrieval and CLI |
| SQLite storage, `storage_sqlite.py` | `raw/`, tables artifacts, envelopes, pins, conflicts, route_runs | `persist_memory_turn`, `append_conflict`, `append_pin`, `set_memory_pinned`, reads, `reindex_from_raw`, `doctor`, `stats` | shared by all processes; a connection per call |
| Ingest pipeline, `provider.py` | none between calls | `store_artifact_as_memory`: validate, redact, dedupe, group repeated errors, persist, `_sync_conflicts` | storage, conflicts, redaction |
| Plugin facade, `plugin.py`, `host_hooks.py` | wiring | the hooks, fail-open boundary | everything |
| Operator commands, `cli.py` | none | pin, unpin, resolve-conflict, reindex, migrate and read-only commands | storage |
| Routing scorer, `routing.py` | none (pure) | scoring and ranking of envelopes | conflicts |
| Context engine, `context_engine.py` | none | `select_evidence`, raw excerpts, `fit_to_token_budget` | routing, storage, tokenizer |
| Tokenizer, `tokenizer.py` | cached encoder | `count_tokens`, `truncate_to_tokens` | context engine |
| Schema migrations, `migrations.py` | `schema_migrations` | `apply_migrations` | storage, at every start |
| JSONL storage, `storage.py` | append-only index files | the storage interface without transactions | legacy backend |
| Redaction, configuration, models | none | masking of secrets, validation, records | ingest |
| Evaluation, scripts | none | offline reports | not part of the running system |

What is hard here:

* **Interleaving.** Every storage call opens its own connection. A turn is a file
  write, a transaction, two reads and one write per conflict, and processes
  interleave between any two of these. Nothing but SQLite's transactions and the
  atomicity of a rename coordinates them.
* **Two stores, one transaction.** The raw file is written before the transaction
  and deleted after a rollback; a crash may fall between, and reindex may look.
* **Stale reads that are written back.** A sync stores conflict records computed
  from two earlier reads; the operator decides over a group read earlier.
* **Retries.** A turn that was stored but whose sync failed is answered with
  `None`, so the host may record it again.
* **Names made from data.** Ids and file names are the microsecond of a clock
  reading; reindex parses the name back.
* **A query is not a snapshot.** It lists envelopes, then conflicts, then opens one raw
  file per quotation, on as many connections; turns, syncs and decisions happen in
  between, and a file may be gone.
* **Two measures of a budget.** Trimming counts tokens with a safety margin, the final cut
  without; an encoder need not be monotone in the length of the text.
* **Schema changes that are committed one by one.** Python's sqlite3 commits each DDL
  statement, so `migrate` is a sequence of commits that may stop or race anywhere.
* **Files without transactions.** The JSONL store appends to up to four files per turn;
  an append may leave half a line, and the cleanup removes a file rows already name.

What makes each part correct: a row always leads to its text; no text is stored
twice; a rollback leaves nothing behind and a crash nothing that reindex cannot
recover; the effective winner of a conflict follows the precedence rules or a
current decision of the operator, however late a sync writes; an operator's decision
and pin take effect; every call returns; a prompt shows no loser of a conflict, quotes
nothing twice, keeps within its budget and explains what it left out; a recorded
schema version is complete; a healthy JSONL store can be read.

## 2. Modules

| Module | Models | |
|---|---|---|
| `Conflicts` | `conflicts.py` as operators over sets of memories | pure |
| `MCConflicts` | one conflict group with joins, pins, syncs and decisions under all six precedence orders; the reference definition of "strongest" | for TLC |
| `SqliteStorage` | `raw/` and the tables; one operator per connection or file operation | state |
| `Provider` | `record_turn_artifact` and `store_artifact_as_memory`, per client process | extends SqliteStorage |
| `OperatorCli` | the commands that write: pin, unpin, resolve-conflict, reindex --apply | extends SqliteStorage |
| `Palace` | clients and operator over one store: `Next`, fairness, all properties | extends both |
| `MemoryLedger` | the abstract store: memories appear whole, keep their text, never vanish | abstract specification of `Palace` and `JsonlStore` |
| `MCPalace` | values of the constants: texts, redaction, signatures, sets of turns | for TLC |
| `Truncation` | `truncate_to_tokens`, one action per probe of the binary search, over any count function | state |
| `Retrieval` | `build_context_for_query` for one reader: the reads, scoring, selection, trimming, truncation, trace | extends SqliteStorage, Truncation |
| `Recall` | the palace and a reader over one store; the properties of the prompt | extends Palace, Retrieval |
| `Migrations` | `migrate` for several processes, one action per committed statement | state |
| `JsonlStore` | `store_artifact_as_memory` over `storage.py`, one action per append | extends Conflicts |
| `MCRecall`, `MCMigrations`, `MCJsonl` | values of the constants | for TLC |
| `ConflictsProofs`, `MCConflictsProofs`, `MigrationsProofs`, `JsonlProofs` | theorems about the modules they are named after | TLAPS |
| `PalaceProofs` | `Palace`: types, backing, the effective winner, the ledger | TLAPS, extends ConflictsProofs |
| `IngestProofs` | `Palace`: answers, orphans, reindex, duplicates, repeated errors | TLAPS, extends PalaceProofs |
| `DecisionProofs` | `Palace`: the operator's decisions, the table after a sync | TLAPS, extends IngestProofs |
| `RecallProofs` | `Truncation` and `Recall`: everything their run checks but the liveness | TLAPS, extends IngestProofs |

### State

| Variable | Stands for |
|---|---|
| `clock` | the last value `datetime.now()` returned to anybody, in ticks |
| `files` | for every path under `raw/` its text or `Null`. A path is a tick and a kind, as in `art_<time>_<kind>.txt` |
| `artifacts`, `envelopes` | rows; a memory id is `mem_` + artifact id, so both use the pair `<<tick, n>>`, where n > 0 are the ids reindex makes of file names with an underscore in the kind |
| `pinLog` | the last row per memory of table `pins` |
| `conflicts` | the record per `conflict_key` |
| `pc`, `turn`, `stamp`, `snapshot`, `pending`, `answer` | where each client is in its call and its local values |
| `opc`, `decision`, `todo`, `held`, `clean` | the same for the operator's command |
| `rpc`, `query`, `listed`, `merged`, `evidence`, `excerpts`, `reasons`, `rounds`, `block`, `fallback` | where the reader is, what it has read and selected, why memories are left out, the length of its prompt |
| `relevance` | the weighted sum of a score before conflicts count, any number up to `MaxScore` |
| `waiting` | memories the reader's current loop has not visited |
| `tpc`, `length`, `limit`, `lo`, `hi`, `best`, `cut` | the locals of the binary search and its result |
| `schema`, `versions` (Migrations) | tables, indexes and columns that exist; rows of `schema_migrations` |
| `at`, `migration`, `next`, `found` (Migrations) | where each process is in `migrate`, and what its PRAGMA listed |
| `excuse` (Migrations) | history: whether another process or a failing statement disturbed the current start |
| `ending` (JsonlStore) | whether an index file ends with a whole line, a line without its newline, or a line that does not parse |
| `confirmed` (JsonlStore) | history: memories whose own recording was answered with success |

A text's SHA-256 is the text itself (no collisions). Redaction and the error
signature are functions given as constants: a text is kept, becomes another text,
or is dropped; two texts have the same signature or not. Summaries, excerpts, tags
other than `runtime_truth`, reasons, rooms and dates of conflict records and other
passive fields are left out. The configuration is the default one where it decides control:
the plugin enabled, SQLite, raw artifacts written, redaction and deduplication on, fail
open; the precedence order, the window, the redaction and the signature are constants. Envelopes recorded through the plugin are never
verified; `Conflicts` has the field because the algorithm uses it, and `MCConflicts`
varies it.

### Actions

| Action | Code |
|---|---|
| `Receive` | `validate_ingest` and redaction, up to the first shared access |
| `Deduplicate` | `find_memory_by_artifact_sha256` and the early return |
| `GroupRepeatedError` | the scan of the `Window` newest envelopes for the same error |
| `WriteRaw`, `WriteRawFails` | clock reading and `_atomic_write_text` |
| `CommitRows`, `CommitFails` | the transaction of `persist_memory_turn`: both rows, and a pin row for a memory born pinned |
| `UnlinkRaw` | the cleanup in its except block, a step of its own, errors swallowed |
| `ListEnvelopes`, `MergeConflicts`, `AppendNext` | `_sync_conflicts`: two reads on two connections, then one transaction per conflict in listing order |
| `StorageFails`, `Return` | any `StorageError` becomes `None`; the answer reaches the host |
| `Crash`, `OperatorCrash` | a process dies: local state is lost, files and rows stay |
| `Pin`, `Unpin` | `append_pin`; `set_memory_pinned` |
| `DecideConflict`, `StoreDecision` | `cmd_resolve_conflict`: the read and the write |
| `ListRawTree`, `ReadRawFile`, `ImportRows`, `ImportFails`, `ReindexEnds` | `reindex_from_raw`: listing, then per file a read and a transaction |
| `Ask`, `ListForQuery`, `MergeForQuery` | `build_context_for_query`: the disabled payload, `list_envelopes`, `list_conflicts` merged with detection |
| `Rank` | `select_route_candidates` and the scope of `select_evidence` (design mode keeps to the active project if it can) |
| `SelectEvidence` | one candidate of `select_evidence`; a diagnostic is quoted from its file |
| `StartExcerpts`, `SelectExcerpt` | `select_raw_diagnostic_excerpts`, a file at a time |
| `DropItem`, `DropExcerpt`, `FinishFit` | one round of the loop of `fit_to_token_budget`, and its end |
| `TruncateStep` (`Probe`, `Stop`), `Truncated` | the final `truncate_to_tokens` |
| `Trace`, `Answer` | the reasons of the trace; the payload reaches the host |
| `QueryFails`, `LoseFile` | a read raises and `on_routing_failure` answers; a raw file is deleted from outside |
| `IngestRaises` | `mkdir` or `_connect` raises what no `except` clause catches |

`Migrations`: `Start` is the constructor of the storage, `EnsureVersionTable`, `CheckApplied`,
`CreateNext`, `InspectColumns`, `AlterNext` and `RecordVersion` are the statements of `migrate` in
order, `StatementFails` and `Crash` may come at each of them. `JsonlStore`: `Receive`,
`Deduplicate`, `WriteRaw`, then `Append` or `AppendFails` for each row, `UnlinkRaw` for the
cleanup, `Sync` for the detection before the conflict rows, `ReadOrWriteFails`, `Crash`.

The grain is one access to shared state. Three reads are merged into the step that
uses them because what they read cannot change in between: grouping lists
envelopes and reads the texts of those rows (rows and texts are immutable once
committed); looking up the row before reading its file; and reindex's SELECT with
its INSERT, where a row that slips in between makes the INSERT fail without
effect on the store.

## 3. Properties and runs

`CONSTANT Faults` says which failures a run contains (`db`: any statement or commit
fails; `disk`: writing the raw file fails; `unlink`; `open`: a directory or connection cannot
be opened; `crash`; `loss`: a raw file disappears), `Commands` what the operator
uses, `LiveCommands` which of these also while hosts are busy. A command outside
`LiveCommands` runs only when all hosts are idle, and hosts wait until it is done.

| Run | Question | Properties | Instance |
|---|---|---|---|
| `precedence` | Does narrowing rule by rule find the strongest memory, for every configuration? | `WinnerOutranksAll`, `SyncIsIdempotent` | 6 precedence orders, all groups of up to 3 memories, equal dates included; 292 thousand states |
| `serving` | What may two hosts and a deciding operator do to each other, when the database, the disk or the cleanup fails or a host crashes? | `TypeOK`, `RawBacked`, `EffectiveFollowsPrecedence`, `LedgerSpec` | 2 clients, 1 key, 3 turns, 3 ticks; 497 thousand states |
| `repeats` | Do repeated turns, retries after any failure, repeated errors and reindex bloat the store, and is what crashes leave recovered? | `NoDuplicateMemories`, `RepeatedErrorsGrouped`, `AnswersAreFaithful`, `ReindexRecovers`, `LedgerSpec` | 1 client, 8 turns, window 2, 5 ticks, every fault; 1.5 million states |
| `operator` | Do decisions last, and is the table up to date when the host is answered? | `SyncedWhenAnswered`, `OperatorDecisionSticks` | 1 client, 2 keys, 4 turns, 4 ticks, every fault, unpin at any time; 3.5 million states |
| `progress` | Does a failed turn leave nothing, does every call return, can overlapping syncs skip a rival? | `NoOrphans`, `EveryIngestReturns`, `EverySyncRecords` | 2 clients, 2 keys, 4 turns, 3 ticks, db and disk faults, fair; 95 thousand states |
| `retrieval` | What may reach a prompt while memories are recorded and synced, reads fail and files are lost? | `RecallTypeOK`, `EvidenceFollowsPrecedence`, `QuotedOnce`, `EveryMemoryExplained`, `PinnedDroppedLast`, `BlockWithinCap`, `Fits`, `Longest`, `EveryQueryAnswered` | 1 client, 1 reader, 3 turns, 3 ticks, scores 0 to 2, budgets of 1 and 10 tokens, 2 rounds of trimming; 1.2 million states |
| `startup` | What may processes that start over a new or an old database do to each other? | `TypeOK`, `RecordedMeansBuilt`, `ReadyMeansComplete`, `UndisturbedStartsSucceed`, `RaceHasAWinner` | 3 processes, 6 objects, 2 columns, failing statements, crashes, restarts; 4.7 million states |
| `jsonl` | Does the store without transactions keep what it confirmed, and does `doctor` see what it lost? | `TypeOK`, `HealthyMeansReadable`, `ConfirmedMemoriesKept`, `RetriesNeverDuplicate`, `LedgerSpec` | 1 host, 4 notes, 1 key, 4 ticks, 3 failures; 2.2 million states |

* `RawBacked`: every artifact row names an existing file with the text the row's
  hash says, every envelope has its artifact. This is what `doctor` reports as
  "Missing raw artifact file" when it breaks.
* `LedgerSpec`: the store, seen as the set of (id, text) of its envelopes, implements
  `MemoryLedger`: a memory appears in one step and is never changed or lost.
* `EffectiveFollowsPrecedence`: the winner retrieval computes from the stored records
  and the present envelopes is the one the rules choose, or the operator's over
  exactly these candidates, whatever an overtaken sync has put into the table.
* `SyncedWhenAnswered`: when a host is given the memory it has just stored, the
  stored record of every conflict equals a fresh detection.
* `OperatorDecisionSticks`: a decision of the operator stays in force until the group
  changes or the operator decides again.
* `NoDuplicateMemories`, `RepeatedErrorsGrouped`, `AnswersAreFaithful`: no text twice;
  two like errors are at least a window of newer memories apart; the memory returned has
  the text asked for, or the same error of the same room and kind.
* `NoOrphans`: without crashes a file without a row belongs to a client about to
  commit or remove it.
* `ReindexRecovers`: when reindex ends with exit code 0 every file has a row.
* `EveryIngestReturns`, `EverySyncRecords`: progress, see below.
* `EvidenceFollowsPrecedence`: of rivals only one is ever evidence, and it is the winner
  of the rules over the group as the query listed it, or the operator's, although the
  conflicts are read later than the group.
* `QuotedOnce`, `EveryMemoryExplained`: no artifact is quoted by an item and again by an
  excerpt; every listed memory is either selected or has a reason in the trace.
* `PinnedDroppedLast`, `BlockWithinCap`: the order of trimming; the prompt's token count
  stays within what the query granted, down to a budget smaller than the fixed lines.
* `Fits`, `Longest`: `truncate_to_tokens` returns a prefix within the limit and, where
  longer prefixes never count less, the longest.
* `EveryQueryAnswered`: a query returns, through every loop and every failing read.
* `RecordedMeansBuilt`, `ReadyMeansComplete`: a version in `schema_migrations` is complete
  (a recorded version is skipped for good); a started process finds what the storage
  code uses.
* `UndisturbedStartsSucceed`, `RaceHasAWinner`: what earlier starts left half done fails
  nobody; processes may fail each other, but not all of them.
* `HealthyMeansReadable`: a JSONL store that `doctor` calls healthy has the text of every
  memory. `ConfirmedMemoriesKept`: a memory answered with success is never lost by a later
  cleanup. `RetriesNeverDuplicate`: a retry after any failure stores its text once.
  `LedgerSpec` (of `JsonlStore`): what this store has confirmed, with the texts in its files,
  implements the ledger the SQLite store implements. A memory counts as confirmed when its own
  recording returned it, not when a later duplicate of its text is answered with it.

### Bounds, and why they are enough

* `MaxTick`, the number of clock readings in a behaviour, bounds files, rows and
  therefore everything else; `WithinBound` stops new work when no reading is left,
  so no client is ever stuck for lack of one, and `Finished` is the state in which
  everybody has stopped (so deadlock checking stays on). Three readings suffice for
  a first memory, a second that makes a conflict and a third that joins the group
  or arrives during a sync; four let a reindex name a file another call left, or two
  conflicts exist at once; five let an error be recorded again behind two other memories.
* Two clients: the shared state is reached through single transactions and every
  hazard of section 1 is a race of two. The theorems cover any number.
* `Window` is 2 and `repeats` has 5 readings, so an error comes back while its first memory is
  the newest, with one other memory in between (the inner edge of the window, where it is
  grouped) and with two (just outside, where it is recorded again; one of the two may be
  imported). That the last case occurs, and `RepeatedErrorsGrouped` is not true for want of two
  like errors, can be seen by checking its negated premise as an invariant: TLC then finds two
  like errors with two memories between them. (The code's default window is larger; only the
  comparison matters.)
* Turn sets are chosen per question: rivals for one key of which one is pinned and one
  tagged runtime_truth (`RivalTurns`), two conflicts (`TwoKeyTurns`), the same error in two
  layouts, as another kind, masked, dropped and refused, and an unrelated text
  (`RepeatingTurns`), kinds with
  and without an underscore (`ArchivedTurns`).
* `retrieval`: three memories are a pinned one, its rival (a diagnostic of a scratch room) and a
  third; top-k is 2 and 1, so each list is cut off at its limit in some behaviours. `MaxRounds` is 2
  for the code's 256, so the trimming ends with a prompt that fits, with nothing left to drop,
  and with an excerpt left when the rounds are used up. Lengths are
  scaled down (texts of 3 and 9, fixed lines of 6, `MinExcerpt` 2 for the code's 64) with budgets
  for which everything fits, items or excerpts are dropped, or not even the fixed lines fit.
  Scores 0, 1 and 2 with `Threshold` and `Penalty` 1 are below, at and above the threshold
  before and after the penalty.
* `startup`: three processes allow one to fail because of a second while a third recovers. "indexes"
  stands for the nine CREATE INDEX statements.
* `jsonl`: three failures are a torn append, a failed cleanup and a crash during the retry.
* Clients, and starting processes, are interchangeable, so the runs of safety properties use
  symmetry; the runs with liveness properties do not.

### Fairness

`FairSpec` gives weak fairness to the own steps of every client and to the steps of a
started command: they are straight-line code in a process that the operating
system schedules, and SQLite's busy timeout turns waiting for a lock into either
progress or an error (both are steps here). Nothing is assumed about faults, about
hosts recording turns or the operator starting commands. `progress` contains no
crash: a crashed call does not return. `RecallSpec` gives weak fairness to the reader
for the same reason; nothing else needs to move for a query to end. `Migrations`
and `JsonlStore` claim no progress.

### Seeded faults

Each property of a passing run has a definition commented `Mutant:` next to the
one it would replace: a dropped guard, a missing cleanup, a loop that ends early or never.
With it in place TLC finds the property violated. `PROJECT.json` lists the pairs.

## 4. Where the code and its documentation disagree

Each is a counterexample TLC finds. The first three need no fault, `fail_open` a directory or
database that cannot be opened.

* `pin_command` (`PinsTakeEffect`): `hermes-mp pin` writes the pin log only
  (`cli.py:145`), the envelope stays unpinned, and `src/README.md:31` says the command
  "updates envelopes immediately for retrieval". `unpin` does update the envelope.
* `reindex_twice` (`OneRowPerFile`): `reindex --apply` on an intact store inserts a second
  artifact and memory for every `shell_output` and `tool_output` file, because the name is
  split at its last underscore (`storage_sqlite.py:628`); `src/README.md:174` promises
  the missing rows.
* `loser_excerpt` (`NoLoserInPrompt`): raw diagnostic excerpts are taken from all envelopes that
  are not quoted yet (`context_engine.py:167`), so a diagnostic that lost its conflict is
  put into the prompt; `src/README.md:29` says losers are excluded from retrieval.
* `fail_open` (`IngestFailsOpen`): `mkdir` and `_connect` stand outside the `try` blocks
  (`storage_sqlite.py:425`, 457), so their exceptions are no `StorageError` and leave
  `record_turn_artifact`; `src/README.md:35` says such failures return `None`.

Three more disagreements can be seen by changing one constant of a run:

* A reindex while a turn is recorded (`LiveCommands = {"reindex"}`, `RawBacked`): between a
  writer's file and its transaction it takes the primary key; the writer rolls back
  and deletes the file the new row names (`storage_sqlite.py:471`).
* A decision while a turn is recorded (`operator` with `LiveCommands = {"resolve"}`,
  `OperatorDecisionSticks`): stored between a sync's read and its write it is overwritten by a
  system decision over the same candidates (`provider.py:80`); `conflicts.py:94` says it wins.
* An unpin of the winner (`serving` with the command `unpin` and, among its turns, a pinned memory
  and a plain rival, `EffectiveFollowsPrecedence`): after `unpin` of the memory that won by its
  pin, the stored system decision is kept because the candidates are the same
  (`conflicts.py:113`); `src/docs/sqlite-daily-driver-rollout.md:35` requires the winner to
  follow at once.

Therefore the passing runs keep reindex out of `LiveCommands`, `operator` decides between
turns, and `serving` has no unpin: outside these circumstances the
properties hold.

### Limits of what holds

* Clock readings differ (`CoarseClock = FALSE`). With TRUE two processes may read the same
  microsecond and record the same kind; they then share one file, the second INSERT
  fails on the primary key and its cleanup deletes the first one's file: `RawBacked` fails.
* `NoDuplicateMemories` is checked for one process. With `Clients = {c1, c2}` it fails: the
  duplicate check and the insert are separate transactions and `sha256` has no
  unique index (`provider.py:135`).
* `BlockWithinCap` counts the tokens of the prompt plainly. The loop trims until the count
  with the safety margin is within the cap, but when nothing is left to drop, or after 256
  rounds, the final cut uses the plain count (`context_engine.py:318`): the block it returns may then exceed the
  cap by the margin as `_tok` measures it, which is how the test of the cap measures it (on
  blocks that need no cut).
* `EvidenceFollowsPrecedence` is relative to the group as the query listed it. The conflicts
  are read later; if a rival was recorded and the operator decided over the larger group in
  between, the candidates differ, the query does not use the decision and follows the
  rules over the smaller group.
* Two processes that migrate at once may fail each other: the second INSERT of a version
  violates its primary key, the second ALTER finds a duplicate column, and the loser's
  constructor raises `MigrationError` (`migrations.py:151` promises idempotence, which holds
  for a start of its own: `UndisturbedStartsSucceed`). A new start succeeds.
* The JSONL store removes the raw file when an append fails, whatever is written by then
  (`storage.py:219`). If that was the envelope or the pin row, the memory stays without its text, and a
  retry of the same turn is answered with it as a duplicate. `doctor` reports the missing file
  (`HealthyMeansReadable`), and no memory answered before is touched (`ConfirmedMemoriesKept`).
* An append onto a line without its newline succeeds and makes the file unreadable; from then
  on every recording returns `None`, and `ConfirmedMemoriesKept` says nothing of a store that
  does not parse. When the torn file is `artifacts.jsonl`, `doctor` itself raises: the loop over
  artifacts (`storage.py:330`) is outside its `try`.

## 5. What is proved

Every invariant and safety property the passing runs check is a theorem, for any sets of clients, keys,
texts, rooms and turns, any window, any number of clock readings, any faults except where the
table says so. The assumptions are those named in the modules: `PrecedenceAssumption`, each rule
exactly once, as `RoutingConfig.validate` demands; `Null` is no key, text, id, record or reason;
redaction yields texts or `Null`; texts are not empty and not longer than `MaxLength`, and `MaxLength`
is large enough for a prompt with all the items and excerpts the limits allow, each with the longest
text (`PromptAssumption`: a bound of the model on lengths, not a fact about texts); the script and the added
columns are not empty, columns differ from each other and from tables, and somebody opens the store;
the sets are within their types. TLC evaluates them in every run.

| Theorem | Says | Under |
|---|---|---|
| `TypeCorrect` | `Spec => []TypeOK` of `Palace` | nothing more |
| `RawAlwaysBacked` | `Spec => []RawBacked` | distinct clock readings, no reindex while hosts are busy |
| `StoreIsLedger` | `Spec => LedgerSpec` | as `RawAlwaysBacked` |
| `EffectiveAlwaysFollowsPrecedence` | `Spec => []EffectiveFollowsPrecedence` | no unpin |
| `AnswersAlwaysFaithful` | `Spec => []AnswersAreFaithful` | as `RawAlwaysBacked` |
| `ReindexAlwaysRecovers` | `Spec => ReindexRecovers` | as `RawAlwaysBacked` |
| `NothingIsOrphaned` | `Spec => []NoOrphans` | no crash, nothing fails to open or to be deleted |
| `HashesAlwaysDiffer` | no two recorded memories have rows with the same hash (`HashesDiffer`) | one host |
| `NothingStoredTwice` | `Spec => []NoDuplicateMemories` | one host; distinct clock readings |
| `RepeatedErrorsAlwaysGrouped` | `Spec => []RepeatedErrorsGrouped` | one host; distinct clock readings |
| `OperatorDecisionAlwaysSticks` | `Spec => OperatorDecisionSticks` | no decision while hosts are busy |
| `AlwaysSyncedWhenAnswered` | `Spec => []SyncedWhenAnswered` | one host; no decision while it is busy |
| `ChoiceIsStrongest` | a conflict of any size is decided, and the winner outranks every other member rule by rule | unique ids; ids and dates bounded, as in every finite group |
| `DetectionIsIdempotent` | detecting again over its own stored result changes nothing | nothing more |
| `WinnerAlwaysOutranksAll`, `SyncAlwaysIdempotent` | `Spec => []WinnerOutranksAll`, `Spec => []SyncIsIdempotent` of `MCConflicts` | nothing more |
| `EvidenceAlwaysFollowsPrecedence` | `RecallSpec => []EvidenceFollowsPrecedence` | no unpin |
| `AlwaysQuotedOnce`, `EveryMemoryAlwaysExplained`, `PinnedAlwaysDroppedLast` | `QuotedOnce`, `EveryMemoryExplained`, `PinnedDroppedLast` of `Recall` | nothing more |
| `BlockAlwaysWithinCap`, `RecallTypeCorrect` | `BlockWithinCap`, `RecallTypeOK` of `Recall` | nothing more |
| `TruncationFits`, `TruncationLongest` | `TruncSpec => []Fits`, `TruncSpec => []Longest` | nothing more |
| `EstimateIsMonotone` | the fallback estimate never counts less for a longer text | nothing more |
| `VersionsAreBuilt`, `ReadyProcessesAreServed`, `LeftoversAreHarmless`, `RacesHaveAWinner`, `MigrationsTypeCorrect` | the five invariants of `Migrations` | nothing more |
| `HealthyStoresAreReadable`, `ConfirmedMemoriesStay`, `RetriesStoreOnce`, `JsonlTypeCorrect` | the four invariants of `JsonlStore` | nothing more |
| `JsonlIsLedger` | `Spec => LedgerSpec` of `JsonlStore` | nothing more |

"One host" is `OneHost == \A c, d \in Clients : c = d`. The conditions are not for the prover's
convenience: TLC finds a counterexample when one is dropped. (With equal clock readings
`NoDuplicateMemories` fails for one host in a peculiar way: two memories have lost their files to the cleanup
of turns with the same names, so both read as no text. The hashes of their rows still differ.)

*Types.* `TypeOK` alone is not inductive: that a row has a text needs that a client past
`Receive` holds an admitted turn (`Admitted`), a stamp not past the clock (`Stamped`),
and that a command in progress has its data (`CommandHolds`). `TypeInv` is the conjunction.

*Backing.* An unlink must not hit a path some row names, so the invariant says who
owns a path: a client between file and commit holds a file with its text that no row
names and whose tick no other client and no row has (`Ownership`); and while reindex
is between reading a file and inserting its row, no client owns anything
(`ReindexAlone`). `BackedInv` adds these to `RawBacked`; each action has its lemma.

*Effective winner.* A stale record is harmless because of how it is merged: a stored
record is used only when its candidates are the ids of the present group. So the
invariant says that every record not signed by the operator, in the table or in
the hands of a client, is the choice over *some* set of memories that all are
still in the store unchanged (`SoundInv`). With unique ids, equal sets of ids mean equal
groups, hence an equal winner. Unpin changes an envelope and breaks just this.

*Choice.* One narrowing loses nobody who could win: nobody left is beaten under the rule, everybody
discarded is beaten by all who are left (`NarrowingKeepsStrongest`), and `newer_verified` always
leaves one (`NewestIsOne`). A group has a newest member because bounded sets of numbers have
a greatest one (`GroupsHaveTops`), which follows from the well-foundedness of the naturals.
`WinnerOutranksAll` states the whole against a definition of its own, for every precedence order;
`MCConflictsProofs` instantiates `ConflictsProofs` with the *variable* `precedence` of `MCConflicts`, shows
that both instances of `Conflicts` define the same operators and that groups built by joins
and pins are groups the theorem is about (`GroupInv`).

*Texts.* Most of what follows compares texts, so `Base` collects what makes them
comparable over time: types, backing, unique rows and ids, and `TextsFixed` (the file
of a row holds what its hash says). `EnvelopeSteps` then puts every step into one of three
classes: the memories stay but for their pins (`PinsMoved`), a client records one, or reindex imports
one. What an invariant says of the memories is shown for the classes, not for each action.

*Answers.* `AnswersAreFaithful` speaks of a finished call only. `AnswerInv` carries it back to
where the answer was found: from the dedupe check, the grouping or the transaction on, the
answer stands for the turn (`Stands`), and no step of anybody changes a text, a room or a kind.

*Orphans.* `NoOrphans` is inductive given types: a file appears together with a client that owns
it, and without the excluded faults a client only leaves the write, commit and unlink places by
inserting the row or deleting the file (`OwnersLetGo`). It needs no condition on the clock.

*Reindex.* The property holds at the step that ends the scan. Before it, each path is in `todo`,
held, without a file, or has its row (`ScanInv`), unless an error was counted. A name that is taken
counts as indexed, so rows and files must agree about names: a reading names at most one file, and a row
has the reading of its file (`NamedByTick`).

*One host.* Two theorems hold even while reindex runs beside the host, when `RawBacked` does not: reindex
may import the file of the turn at hand and the rollback may delete it. What is lost is always
an imported row's; the rows the host recorded keep their files, because the file of the turn at
hand is of no recorded memory (`OwnFile`). `Kept` is the invariant: types, unique rows, and
for recorded memories a row whose file holds what its hash says (`TextsKept`). Duplicates are first excluded
by hash, without a word about files or the clock. Between the duplicate check
and the commit lie several steps, so `OnceInv` says what the check has found out and nobody spoils
meanwhile: no recorded memory has the hash about to be stored (`NewHash`). `NobodyElseRecords` is where the
condition enters: with two hosts the other may commit that very text. `Kept` then turns hashes
into texts. Grouping is harder
because the window moves. `GroupInv` adds that the reading taken for the new memory is later than
those of all recorded ones (`Newest`), and that every memory of the same error already has a window of
other memories after it, and before that reading once it is taken (`NewError`): what reindex
imports later does not count. The number of memories between two never falls (`CountsGrow`)
because memories keep their ids and dates.

*Decisions.* A sync holds a record computed earlier and may write it after the operator decided.
`KeyInv` says why that is harmless: as long as the operator's candidates are all that is
there, the table holds that decision and every sync holds it or nothing for the key (`Undisputed`), and a sync
that has yet to merge has listed them all (`ListedAll`). While `resolve-conflict` is between its read and its write
nobody holds a record (`CommandInv`); with decisions allowed while hosts are busy this is what breaks.

*The table.* `SyncFits` follows one sync: what it has in hand or, where that is nothing,
what the table holds is a decided record over all that is there (`Settled`). `Settled` speaks of ids only, so
an unpin in the middle of a sync cannot disturb it. That a merge settles every conflict is
`ChoiceIsStrongest` again (`DetectSettles`). A second host could add a candidate at any moment, hence `OneHost`.

*Evidence.* A query works with a listing and records read at different times. Because the store
only grows (`EnvelopesGrow`), what was listed is still there when the records are merged
(`StillStored`); by `SoundInv` and `ChoiceIsStrongest` the merge then decides every group of the
listing (`MergeDecides`), so every rival but one is a loser and excluded (`SelectedSafely`).

*The prompt.* `GatherInv` is a conjunction of what the loops of the context engine keep.
`SelectInv`: a memory is selected once, and neither it nor a candidate still waiting has a
reason to be out. `ExcerptInv`: what may still be quoted as an excerpt is quoted by no item.
`DropInv`: before the fitting nothing is "dropped for budget", so the order of trimming can be
read off the reasons. They hold whatever the store does, since listing and conflicts are
the reader's own by then. `BlockInv` joins the binary search (`TruncInv`) to the query: the limit of the
search is the cap of the query, so what `Fits` says of the cut holds of the block.

*The prompt's length.* `Rendered` is a sum over a set, a fold defined by recursion over sets. What such a
fold computes cannot be shown by the library's induction, but some of it follows by hand from the well-foundedness of
the naturals: a function of partial sums exists for each finite set
(`SumExists`), any two agree (`SumsAgree`, by a least set on which they would not), and a sum of n terms
up to M is at most n * M (`SumBounded`). Selection takes at most `TopK` items and
`TopKRaw` excerpts, none longer than a text (`FewSelected`), so a prompt has a length within
`MaxLength` (`PromptFits`).

*Ledger.* A step maps to `Remember` when it adds an envelope and to a stutter
otherwise, because texts of committed rows never change (`RawBacked` again, and unique
rows).

*Truncation.* The search keeps that `best` fits, that it is the length just below `lo`, and, for a
monotone count, that nothing from `hi + 1` on fits (`SearchInv`). `EstimateIsMonotone`
shows that the fallback estimate is such a count.

*Migrations.* `RecordedMeansBuilt` needs what a process has certainly built when it reaches the
INSERT (`Knows`). What a process knows stays true under the steps of all others because schema and
versions only grow (`OthersKeepKnowledge`); `Undisturbed` adds what it may rely on until
another process changes something.

*Races.* `RaceHasAWinner` looks only at the end of a race. `RaceInv` names somebody who can still
win: a process that has not failed and about whose next statement nobody came first (`Doomed`). A
step that dooms others, adding a column or a version, leaves the process that takes it in the race, because
columns are added in order (`ColumnsInOrder`) and whoever adds the next one is not behind
any other. No counting of processes is needed, so it holds for any number.

*JSONL.* The rows and files keep `StoreInv` (each tick at most one row, its file missing or
equal to the row's text, each envelope with an artifact row), and `HostInv` ties the host's
place to the file it owns: an unlink hits a tick that is not confirmed yet. Whether files parse
plays no role in it: a row once written stays a row. The ledger of this store is what it
confirmed: a step confirms nothing or the memory just stored, with its text (`ConfirmedSteps`), and
the files of confirmed memories do not change (`ConfirmedFilesStay`).

Only model-checked:

* `EveryIngestReturns`, `EverySyncRecords`, `EveryQueryAnswered`: liveness rests on fairness and
  ENABLED, which the prover does not handle.
* The disagreements of section 4, which are counterexamples.

## 6. Not modelled

* Redaction's regular expressions, error signatures, summaries and the layout of the prompt: texts
  and lengths are data. `max_raw_chars`, which cuts an excerpt by characters before the token
  limit does, and the shortening of the provenance list (one id per memory) are left out with them.
  `Rendered` counts the fixed lines, an item, the line above an excerpt and the line for an empty
  list with one length each, and a count depends on the length of a prefix alone.
* Floating point in the budgets and in the safety margin: `Tok`, `RoutedBudget` and `RawBudget`
  round exact percentages down where the code truncates a float (`context_engine.py:42`, 52), which
  may differ by one token. No property depends on it: `BlockWithinCap` compares with the `Cap` the
  loop and the cut were given, whatever it is.
* The floating point weights of the scorer: `relevance` is any number. The exclusion
  "missing_provenance" cannot happen to a memory that was recorded or imported.
* `route_runs`: written after a query, its failure swallowed, read by reports only.
* Commands and functions that only read: route, inspect, conflicts, stats, SQLite's `doctor`,
  `assert_schema_migrations`. `migrate` runs the constructor, which `Migrations` models.
* In `storage.py`: pinning and diagnostics, whose grouping is that of `Provider`, and several hosts over
  one JSONL directory.
* Configurations that switch off redaction, deduplication, raw artifacts or fail-open.
* The evaluation harness (`eval.py`), which drives the other parts over fixtures and keeps no state,
  and the scripts.
* SQLite itself, of which transactions are assumed to be atomic and isolated, and the file
  system, of which renames are.
