------------------------------- MODULE Palace --------------------------------
(***************************************************************************)
(* The store in use: several client processes record turns while an        *)
(* operator runs commands, all over one metadata.db and one raw/ tree.     *)
(* Nothing but the database's transactions and the atomicity of a rename   *)
(* coordinates them.                                                       *)
(***************************************************************************)
EXTENDS Provider, OperatorCli

CONSTANTS LiveCommands   \* commands the operator also runs while clients are busy

ASSUME PalaceAssumption == LiveCommands \subseteq CommandKinds

vars == <<storeVars, clientVars, operatorVars>>

TypeOK == StoreTypeOK /\ ClientTypeOK /\ OperatorTypeOK

Init == StoreInit /\ ClientInit /\ OperatorInit

-----------------------------------------------------------------------------
(* Who may start when                                                      *)

AllIdle == \A c \in Clients : pc[c] = "idle"

MayRun(cmd) == cmd \in Commands /\ (cmd \in LiveCommands \/ AllIdle)

RunningCommand ==
    CASE opc = "idle"    -> {}
      [] opc = "resolve" -> {"resolve"}
      [] OTHER           -> {"reindex"}

MayServe == RunningCommand \subseteq LiveCommands

\* Bound: work starts only while a clock reading is left for all that is under
\* way: one for a turn not yet written, one for a listed file without a row.
WithoutRow(S) == {p \in S : ParsedId(p) \notin Ids(artifacts)}
UnderWay ==
    Cardinality({c \in Clients : pc[c] \in {"dedupe", "group", "write"}})
    + Cardinality(WithoutRow(todo \cup IF held = Null THEN {} ELSE {held.path}))
WithinBound(new) == clock + UnderWay + new <= MaxTick

-----------------------------------------------------------------------------
ClientNext(c) ==
    /\ \/ ClientStep(c)
       \/ ClientFault(c)
       \/ MayServe /\ WithinBound(1) /\ \E t \in Turns : Receive(c, t)
    /\ UNCHANGED operatorVars

OperatorNext ==
    /\ \/ OperatorStep
       \/ OperatorFault
       \/ MayRun("pin") /\ Pin
       \/ MayRun("unpin") /\ Unpin
       \/ MayRun("resolve") /\ DecideConflict
       \/ /\ MayRun("reindex")
          /\ WithinBound(Cardinality(WithoutRow({p \in Paths : files[p] # Null})))
          /\ ListRawTree
    /\ UNCHANGED clientVars

\* The hosts stop once the bound on clock readings is reached.
Finished ==
    /\ AllIdle /\ opc = "idle"
    /\ ~WithinBound(1)
    /\ UNCHANGED vars

Next == (\E c \in Clients : ClientNext(c)) \/ OperatorNext \/ Finished

Spec == Init /\ [][Next]_vars

\* A client between two steps is running code: the operating system lets it go
\* on, and the same holds for a started command.  Nobody must start anything.
Fairness ==
    /\ \A c \in Clients : WF_vars(ClientStep(c) /\ UNCHANGED operatorVars)
    /\ WF_vars(OperatorStep /\ UNCHANGED clientVars)

FairSpec == Spec /\ Fairness

-----------------------------------------------------------------------------
(* Raw files and rows                                                      *)

\* Every artifact row names a file that exists and holds the very text whose
\* hash the row records, and every envelope leads to such a row.  A writer puts
\* the file in place before the row and deletes it after a rollback, so the
\* order of those steps among several processes decides (doctor's "Missing raw
\* artifact file").
RawBacked ==
    /\ \A a \in artifacts : files[a.path] = a.sha
    /\ \A e \in envelopes : \E a \in artifacts : a.id = e.id

\* Without crashes, failing unlinks and a database that cannot be opened, a file
\* without a row belongs to a client that is about to commit or to remove it:
\* a rolled back ingest leaves nothing behind for reindex to resurrect.
NoOrphans ==
    \A p \in Paths : files[p] # Null =>
        \/ \E a \in artifacts : a.path = p
        \/ \E c \in Clients : pc[c] \in {"commit", "unlink"} /\ Path(c) = p

\* When reindex ends with exit code 0, every file of the raw tree has a row:
\* whatever a crash between the file and the transaction left behind is back in
\* the index.
ReindexRecovers ==
    [][ ReindexEnds /\ clean =>
          \A p \in Paths : files[p] # Null => \E a \in artifacts : a.path = p ]_vars

\* Indexing a file twice: no two artifact rows share a path (README: reindex
\* "inserts missing artifact/envelope rows").
OneRowPerFile ==
    \A a, b \in artifacts : a.path = b.path => a = b

\* The abstract store: an envelope with the text it leads to is a memory.
Ledger ==
    INSTANCE MemoryLedger WITH
        MemoryIds <- AllIds, MemoryTexts <- Texts,
        memories <- {[id |-> e.id, text |-> ReadArtifactText(e.id)] : e \in envelopes}

\* Users of the store see memories appear whole and stay for good, through
\* every interleaving, rollback and crash.
LedgerSpec == Ledger!Spec

-----------------------------------------------------------------------------
(* Duplicates                                                              *)

\* dedupe_identical_raw: two ingested memories never have the same text.
NoDuplicateMemories ==
    \A e, f \in envelopes :
        (e # f /\ e.source = "rule" /\ f.source = "rule")
            => ReadArtifactText(e.id) # ReadArtifactText(f.id)

\* Repeated errors do not bloat the store: two ingested diagnostics of one room and
\* kind with the same signature are at least a whole window of newer memories apart.
RepeatedErrorsGrouped ==
    \A e, f \in envelopes :
        (/\ e.created < f.created /\ e.source = "rule" /\ f.source = "rule"
         /\ e.room = f.room /\ e.kind = f.kind /\ IsDiagnostic(e.kind)
         /\ Signature[ReadArtifactText(e.id)] = Signature[ReadArtifactText(f.id)])
            => Cardinality({g \in envelopes : e.created < g.created /\ g.created < f.created})
                   >= Window

\* The memory a host gets back is in the store and stands for what it asked to
\* record: the same stored text or, for a diagnostic, the same error.
AnswersAreFaithful ==
    \A c \in Clients : (pc[c] = "reply" /\ answer[c] \in AllIds) =>
        \E e \in envelopes :
            /\ e.id = answer[c]
            /\ \/ ReadArtifactText(e.id) = Text(c)
               \/ /\ IsDiagnostic(turn[c].kind)
                  /\ e.kind = turn[c].kind /\ e.room = turn[c].room
                  /\ Signature[ReadArtifactText(e.id)] = Signature[Text(c)]

-----------------------------------------------------------------------------
(* Conflicts                                                               *)

\* What retrieval sees: stored decisions merged with fresh detection.
Effective == Detect(envelopes, conflicts)

\* Whatever stale record a sync may have left in the table, the effective
\* winner of every conflicting group is the one the precedence rules choose
\* from the group as it is now, unless the operator decided over exactly these
\* candidates.
EffectiveFollowsPrecedence ==
    \A k \in Keys : LET G == Group(envelopes, k) IN
        IsMany(G) =>
            \/ Effective[k].winner = Choose(G).winner
            \/ Effective[k].actor = "operator" /\ Effective[k].cands = Ids(G)

\* When a host gets the memory it has just stored, the conflicts table agrees
\* with what detection says of the store, for every key, whoever created the
\* conflict: stats and the stored losers are not behind.
SyncedWhenAnswered ==
    \A c \in Clients : (pc[c] = "reply" /\ answer[c] # Null /\ answer[c] = Id(c)) =>
        \A k \in Keys : Effective[k] # Null => conflicts[k] = Effective[k]

\* The operator's decision over a group stays in force until the group changes
\* or the operator decides again ("operator resolution wins unless candidates
\* changed").
OperatorDecisionSticks ==
    [][ \A k \in Keys :
          /\ conflicts[k] # Null
          /\ conflicts[k].actor = "operator"
          /\ conflicts[k].cands = Ids(Group(envelopes', k))
          /\ IsMany(Group(envelopes', k))
          /\ ~StoreDecision
          => Effective'[k].winner = conflicts[k].winner ]_vars

\* The flag retrieval uses is what the last row of the pin log says.
PinsTakeEffect ==
    \A e \in envelopes : pinLog[e.id] # Null => e.pinned = pinLog[e.id]

-----------------------------------------------------------------------------
(* Progress                                                                *)

\* No failure of the storage reaches the host as an exception (README: failures
\* "return None instead of breaking chat").
IngestFailsOpen == \A c \in Clients : pc[c] # "raised"

\* record_turn_artifact always comes back to the host.
EveryIngestReturns == \A c \in Clients : (pc[c] # "idle") ~> (pc[c] = "idle")

\* The sync of this turn ended with a storage error: the host got None.
SyncFailed(c) == pc[c] = "reply" /\ answer[c] = Null

\* A host that has just stored one of several rivals brings it into a stored
\* conflict record, or hears that the sync failed: no interleaving of syncs skips
\* a memory in silence.  (A slower sync may afterwards put back a record that is
\* older; see EffectiveFollowsPrecedence.)
EverySyncRecords ==
    \A c \in Clients, t \in Ticks :
        (/\ pc[c] = "list" /\ stamp[c] = t
         /\ turn[c].key # Null
         /\ IsMany(Group(envelopes, turn[c].key)))
            ~> \/ SyncFailed(c)
               \/ \E k \in Keys : conflicts[k] # Null /\ <<t, 0>> \in conflicts[k].cands
=============================================================================
