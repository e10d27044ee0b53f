----------------------------- MODULE IngestProofs -----------------------------
(***************************************************************************)
(* What recording turns does to the store and answers to the hosts, for    *)
(* any number of turns, retries and failures: answers name what was asked  *)
(* for, rolled back turns leave nothing behind, what crashes left behind   *)
(* is recovered, and one host never stores the same thing twice.           *)
(***************************************************************************)
EXTENDS PalaceProofs, FiniteSetTheorems

\* What the theorems about texts rest on: rows have their files, no two share an id
\* and the file of a row holds the text it was stored with.
Rows == TypeInv /\ BackedInv /\ UniqueRows /\ UniqueIds(envelopes)
Base == Rows /\ TextsFixed

\* Two rows of one memory: at most its pin differs.
SameMemory(e, f) ==
    /\ e.id = f.id /\ e.room = f.room /\ e.kind = f.kind /\ e.key = f.key
    /\ e.created = f.created /\ e.source = f.source

-----------------------------------------------------------------------------
(* Steps                                                                   *)

\* The memories stay as they are but for their pins.
PinsMoved ==
    /\ \A e \in envelopes : \E f \in envelopes' : SameMemory(e, f)
    /\ \A f \in envelopes' : \E e \in envelopes : SameMemory(e, f)
    /\ \A f, g \in envelopes' :
          f.id = g.id => f = g \/ \E e, h \in envelopes : e # h /\ e.id = h.id

Recorded(c) ==
    /\ CommitRows(c)
    /\ KeysFree(NewEnvelope(c).id)
    /\ envelopes' = envelopes \cup {NewEnvelope(c)}

Imported(t) ==
    /\ ImportRows /\ Now(t)
    /\ KeysFree(ImportedEnvelope(held, t).id)
    /\ envelopes' = envelopes \cup {ImportedEnvelope(held, t)}

\* A step adds one memory under a free id, or changes at most pins.
LEMMA EnvelopeSteps ==
    ASSUME TypeInv, [Next]_vars
    PROVE  \/ PinsMoved
           \/ \E c \in Clients : Recorded(c)
           \/ \E t \in Ticks : Imported(t)
<1>1. ASSUME NEW c \in Clients, CommitRows(c)
      PROVE  Recorded(c)
  <2>1. NewArtifact(c).id = NewEnvelope(c).id
    BY DEF NewArtifact, NewEnvelope
  <2>2. QED  BY <1>1, <2>1 DEF CommitRows, InsertMemory, Recorded
<1>2. ASSUME NEW c \in Clients, ClientNext(c), ~CommitRows(c)
      PROVE  envelopes' = envelopes
  BY <1>2 DEF ClientNext, ClientStep, ClientFault, Deduplicate, GroupRepeatedError, WriteRaw,
              CommitFails, UnlinkRaw, ListEnvelopes, MergeConflicts, AppendNext, AppendConflict,
              Return, Crash, StorageFails, WriteRawFails, IngestRaises, Receive, storeVars
<1>3. ASSUME ImportRows
      PROVE  envelopes' = envelopes \/ \E t \in Ticks : Imported(t)
  <2>1. ASSUME NEW t \in Ticks, Now(t),
               InsertMemory(ImportedArtifact(held), ImportedEnvelope(held, t))
        PROVE  Imported(t)
    <3>1. ImportedArtifact(held).id = ImportedEnvelope(held, t).id
      BY DEF ImportedArtifact, ImportedEnvelope
    <3>2. QED  BY <1>3, <2>1, <3>1 DEF InsertMemory, Imported
  <2>2. QED  BY <1>3, <2>1 DEF ImportRows
<1>4. ASSUME OperatorNext, ~ImportRows, ~Unpin
      PROVE  envelopes' = envelopes
  BY <1>4 DEF OperatorNext, OperatorStep, OperatorFault, StoreDecision, AppendConflict,
              ReadRawFile, ReindexEnds, ImportFails, OperatorCrash, Pin, AppendPin,
              DecideConflict, ListRawTree, storeVars
<1>5. ASSUME UNCHANGED vars
      PROVE  envelopes' = envelopes
  BY <1>5 DEF vars, storeVars
<1>6. CASE envelopes' = envelopes
  BY <1>6 DEF SameMemory, PinsMoved
<1>7. ASSUME Unpin
      PROVE  PinsMoved
  <2>1. PICK i \in Ids(envelopes) : SetMemoryPinned(i, FALSE)
    BY <1>7 DEF Unpin
  <2> DEFINE Unpinned(e) == IF e.id = i THEN [e EXCEPT !.pinned = FALSE] ELSE e
  <2>2. envelopes' = {Unpinned(e) : e \in envelopes}
    BY <2>1 DEF SetMemoryPinned
  <2>3. \A e \in envelopes : SameMemory(e, Unpinned(e))
    BY DEF TypeInv, TypeOK, StoreTypeOK, Envelope, SameMemory
  <2>4. \A e, h \in envelopes : e = h => Unpinned(e) = Unpinned(h)
    OBVIOUS
  <2> HIDE DEF Unpinned
  <2>5. QED  BY <2>2, <2>3, <2>4 DEF SameMemory, PinsMoved
<1>8. QED
  BY <1>1, <1>2, <1>3, <1>4, <1>5, <1>6, <1>7 DEF Next, Finished

LEMMA UniqueIdsNext == TypeInv /\ UniqueIds(envelopes) /\ [Next]_vars => UniqueIds(envelopes)'
  BY EnvelopeSteps DEF UniqueIds, KeysFree, PinsMoved, Recorded, Imported

\* A part of the store is a group in the sense of the precedence rules.
LEMMA StoredGroups ==
    ASSUME NEW G, G \subseteq Envelope, UniqueIds(G)
    PROVE  IsGroup(G) /\ IsBounded(G)
<1>1. \A e \in G : /\ e.id \in Ticks \X (0..2) /\ e.created \in Ticks
                   /\ e.verified \in BOOLEAN
  BY DEF Envelope, AllIds
<1>2. MaxTick \in Nat /\ Ticks = 1..MaxTick
  BY StorageAssumption DEF Ticks
<1>3. IsGroup(G)
  <2>1. \A e, f \in G : e.id = f.id => e = f
    BY DEF UniqueIds
  <2>2. Ticks \X (0..2) \subseteq Nat \X Nat /\ Ticks \subseteq Nat
    BY <1>2
  <2>3. QED  BY <1>1, <2>1, <2>2, Zenon DEF IsGroup
<1>4. \A e \in G : e.created <= MaxTick + 2 /\ e.id[1] <= MaxTick + 2 /\ e.id[2] <= MaxTick + 2
  BY <1>1, <1>2
<1>5. IsBounded(G)
  <2>1. MaxTick + 2 \in Nat
    BY <1>2
  <2>2. QED  BY <1>4, <2>1, Zenon DEF IsBounded
<1>6. QED  BY <1>3, <1>5

LEMMA BaseAlways ==
    ASSUME ~CoarseClock, "reindex" \notin LiveCommands
    PROVE  Spec => []Base
<1>1. Init => Rows
  BY TypeInvInit, BackedInit, RowsInit DEF Rows, Init, StoreInit, UniqueIds
<1>2. Rows /\ [Next]_vars => Rows'
  BY TypeInvNext, BackedNext, RowsNext, UniqueIdsNext DEF Rows
<1>3. Rows => TextsFixed
  BY BackedTexts DEF Rows, BackedInv
<1>4. QED  BY <1>1, <1>2, <1>3, PTL DEF Spec, Base

\* A stored text is a text, and stays what it is.
LEMMA TextsStay ==
    ASSUME Base, Base', [Next]_vars, NEW i \in Ids(envelopes)
    PROVE  ReadArtifactText(i) \in Texts /\ ReadArtifactText(i)' = ReadArtifactText(i)
<1>1. PICK a \in artifacts : a.id = i
  BY DEF Base, Rows, BackedInv, RawBacked, Ids
<1>2. ReadArtifactText(a.id) = a.sha
  BY DEF Base, TextsFixed
<1>3. a \in artifacts'
  BY TableSteps DEF Base, Rows
<1>4. ReadArtifactText(a.id)' = a.sha
  BY <1>3 DEF Base, TextsFixed
<1>5. a.sha \in Texts
  BY DEF Base, Rows, TypeInv, TypeOK, StoreTypeOK, Artifact
<1>6. QED  BY <1>1, <1>2, <1>4, <1>5

\* A memory with its text is still there after every step.
LEMMA MemoriesStay ==
    ASSUME Base, Base', [Next]_vars, NEW e \in envelopes
    PROVE  \E f \in envelopes' : SameMemory(e, f) /\ ReadArtifactText(f.id)' = ReadArtifactText(e.id)
<1>1. \E f \in envelopes' : SameMemory(e, f)
  BY EnvelopeSteps DEF Base, Rows, SameMemory, PinsMoved, Recorded, Imported
<1>2. ReadArtifactText(e.id)' = ReadArtifactText(e.id)
  BY TextsStay DEF Ids
<1>3. QED  BY <1>1, <1>2 DEF SameMemory

\* A client's step moves nobody else.
LEMMA OthersStand ==
    ASSUME TypeInv, NEW c \in Clients, NEW d \in Clients \ {c}, ClientNext(c)
    PROVE  /\ pc'[d] = pc[d] /\ turn'[d] = turn[d] /\ stamp'[d] = stamp[d]
           /\ snapshot'[d] = snapshot[d] /\ pending'[d] = pending[d] /\ answer'[d] = answer[d]
  BY DEF TypeInv, TypeOK, ClientTypeOK, ClientNext, ClientStep, ClientFault, Deduplicate,
         GroupRepeatedError, WriteRaw, CommitRows, CommitFails, UnlinkRaw, ListEnvelopes,
         MergeConflicts, AppendNext, Return, Crash, StorageFails, WriteRawFails, IngestRaises,
         Receive, Reply, Goto, Forget

-----------------------------------------------------------------------------
(* Answers                                                                 *)

\* Memory i stands for the turn of client c: the same stored text or the same error.
Stands(c, i) ==
    \E e \in envelopes :
        /\ e.id = i
        /\ \/ ReadArtifactText(e.id) = Text(c)
           \/ /\ IsDiagnostic(turn[c].kind)
              /\ e.kind = turn[c].kind /\ e.room = turn[c].room
              /\ Signature[ReadArtifactText(e.id)] = Signature[Text(c)]

\* Only diagnostics are grouped; a client that syncs has stored its memory; one that
\* answers has found it.
AnswerFits(c) ==
    /\ pc[c] = "group" => IsDiagnostic(turn[c].kind)
    /\ pc[c] \in {"list", "merge", "append"} => Stands(c, Id(c))
    /\ (pc[c] = "reply" /\ answer[c] # Null) => Stands(c, answer[c])

AnswerInv == \A c \in Clients : AnswerFits(c)

LEMMA StandsStays ==
    ASSUME Base, Base', [Next]_vars, NEW c \in Clients, NEW i, turn'[c] = turn[c], Stands(c, i)
    PROVE  Stands(c, i)'
<1>1. Text(c)' = Text(c)
  BY DEF Text
<1>2. QED  BY <1>1, MemoriesStay DEF Stands, SameMemory

\* The text of the row a client inserts is the one it was asked to record.
LEMMA StoredStands ==
    ASSUME Base, Base', NEW c \in Clients, CommitRows(c)
    PROVE  Stands(c, Id(c))'
<1>1. /\ NewEnvelope(c) \in envelopes' /\ NewArtifact(c) \in artifacts'
      /\ Text(c)' = Text(c) /\ Id(c)' = Id(c)
  BY DEF CommitRows, InsertMemory, Text, Id
<1>2. PICK a \in artifacts', e \in envelopes' :
          a.id = Id(c)' /\ e.id = Id(c)' /\ a.sha = Text(c)'
  BY <1>1 DEF NewEnvelope, NewArtifact
<1>3. ReadArtifactText(a.id)' = a.sha
  BY DEF Base, TextsFixed
<1>4. QED  BY <1>2, <1>3 DEF Stands

LEMMA SameErrorStands ==
    ASSUME NEW c \in Clients, NEW e \in SameError(turn[c])
    PROVE  /\ e \in envelopes /\ e.kind = turn[c].kind /\ e.room = turn[c].room
           /\ ReadArtifactText(e.id) # Null
           /\ Signature[ReadArtifactText(e.id)] = Signature[Text(c)]
<1>1. e \in envelopes
  BY DEF SameError, Recent
<1>2. QED  BY <1>1 DEF SameError, Text

LEMMA AnswerInvOfActor ==
    ASSUME Base, Base', AnswerInv, [Next]_vars, NEW c \in Clients, ClientNext(c)
    PROVE  AnswerFits(c)'
<1> USE DEF Base, Rows, TypeInv, TypeOK, ClientTypeOK, Reply, Goto, AnswerFits
<1>1. CASE Deduplicate(c)
  <2>1. CASE FindMemoryBySha(Text(c)) # {}
    <3>1. PICK e \in FindMemoryBySha(Text(c)) : Reply(c, e.id)
      BY <1>1, <2>1 DEF Deduplicate
    <3>2. e \in envelopes /\ ReadArtifactText(e.id) = Text(c)
      BY DEF FindMemoryBySha, TextsFixed
    <3>3. Stands(c, e.id) /\ turn'[c] = turn[c]
      BY <1>1, <3>2 DEF Stands, Deduplicate
    <3>4. Stands(c, e.id)'
      BY <3>3, StandsStays
    <3>5. QED  BY <3>1, <3>4
  <2>2. CASE FindMemoryBySha(Text(c)) = {}
    BY <1>1, <2>2 DEF Deduplicate
  <2>3. QED  BY <2>1, <2>2
<1>2. CASE GroupRepeatedError(c)
  <2>1. CASE SameError(turn[c]) # {}
    <3>1. PICK e \in SameError(turn[c]) : Reply(c, e.id)
      BY <1>2, <2>1 DEF GroupRepeatedError
    <3>2. IsDiagnostic(turn[c].kind)
      BY <1>2 DEF GroupRepeatedError, AnswerInv
    <3>3. Stands(c, e.id) /\ turn'[c] = turn[c]
      BY <1>2, <3>2, SameErrorStands DEF Stands, GroupRepeatedError
    <3>4. Stands(c, e.id)'
      BY <3>3, StandsStays
    <3>5. QED  BY <3>1, <3>4
  <2>2. CASE SameError(turn[c]) = {}
    BY <1>2, <2>2 DEF GroupRepeatedError
  <2>3. QED  BY <2>1, <2>2
<1>3. CASE CommitRows(c)
  BY <1>3, StoredStands DEF CommitRows
<1>4. CASE ListEnvelopes(c) \/ MergeConflicts(c) \/ AppendNext(c)
  <2>1. /\ pc[c] \in {"list", "merge", "append"}
        /\ turn'[c] = turn[c] /\ Id(c)' = Id(c)
        /\ \/ pc'[c] \in {"merge", "append"}
           \/ pc'[c] = "reply" /\ answer'[c] = Id(c)
    BY <1>4 DEF ListEnvelopes, MergeConflicts, AppendNext, Id
  <2>2. Stands(c, Id(c))
    BY <2>1 DEF AnswerInv
  <2>3. Stands(c, Id(c))'
    BY <2>1, <2>2, StandsStays
  <2>4. QED  BY <2>1, <2>3
<1>5. CASE \/ WriteRaw(c) \/ WriteRawFails(c) \/ CommitFails(c) \/ UnlinkRaw(c)
           \/ StorageFails(c) \/ IngestRaises(c) \/ Return(c) \/ Crash(c)
           \/ \E t \in Turns : Receive(c, t)
  <2>1. \/ pc'[c] \in {"commit", "unlink", "raised", "idle", "dedupe"}
        \/ pc'[c] = "reply" /\ answer'[c] = Null
    BY <1>5 DEF WriteRaw, WriteRawFails, CommitFails, UnlinkRaw, StorageFails, IngestRaises,
                Return, Crash, Forget, Receive
  <2>2. QED  BY <2>1
<1>6. QED
  BY <1>1, <1>2, <1>3, <1>4, <1>5 DEF ClientNext, ClientStep, ClientFault

LEMMA AnswerInvNext == Base /\ Base' /\ AnswerInv /\ [Next]_vars => AnswerInv'
<1> SUFFICES ASSUME Base, Base', AnswerInv, [Next]_vars, NEW d \in Clients
             PROVE  AnswerFits(d)'
  BY DEF AnswerInv
<1>1. ASSUME pc'[d] = pc[d], turn'[d] = turn[d], stamp'[d] = stamp[d], answer'[d] = answer[d]
      PROVE  AnswerFits(d)'
  <2>1. Id(d)' = Id(d)
    BY <1>1 DEF Id
  <2>2. QED  BY <1>1, <2>1, StandsStays DEF AnswerInv, AnswerFits
<1>2. ASSUME NEW c \in Clients, ClientNext(c), d # c
      PROVE  AnswerFits(d)'
  BY <1>1, <1>2, OthersStand DEF Base, Rows
<1>3. CASE ClientNext(d)
  BY <1>3, AnswerInvOfActor
<1>4. CASE OperatorNext \/ UNCHANGED vars
  BY <1>1, <1>4 DEF OperatorNext, vars, clientVars
<1>5. QED
  BY <1>2, <1>3, <1>4 DEF Next, Finished

\* Whatever a host is told it has recorded is in the store and stands for what it
\* asked, however many hosts write at once and whatever fails, provided clock
\* readings differ and reindex only runs while the hosts are stopped.
THEOREM AnswersAlwaysFaithful ==
    ASSUME ~CoarseClock, "reindex" \notin LiveCommands
    PROVE  Spec => []AnswersAreFaithful
<1>1. Init => AnswerInv
  BY DEF Init, ClientInit, AnswerInv, AnswerFits
<1>2. AnswerInv => AnswersAreFaithful
  BY NullAssumption DEF AnswerInv, AnswerFits, AnswersAreFaithful, Stands
<1>3. QED  BY <1>1, <1>2, AnswerInvNext, BaseAlways, PTL DEF Spec
-----------------------------------------------------------------------------
(* Files without a row                                                     *)

\* A step changes the raw tree only where a client writes its file or removes it.
LEMMA FileSteps ==
    ASSUME [Next]_vars
    PROVE  \/ files' = files
           \/ \E c \in Clients : WriteRaw(c) \/ UnlinkRaw(c)
<1>1. ASSUME NEW c \in Clients, ClientNext(c), ~WriteRaw(c), ~UnlinkRaw(c)
      PROVE  files' = files
  BY <1>1 DEF ClientNext, ClientStep, ClientFault, Deduplicate, GroupRepeatedError, CommitRows,
              CommitFails, ListEnvelopes, MergeConflicts, AppendNext, AppendConflict, Return,
              Crash, StorageFails, WriteRawFails, IngestRaises, Receive, storeVars
<1>2. ASSUME OperatorNext
      PROVE  files' = files
  BY <1>2 DEF OperatorNext, OperatorStep, OperatorFault, StoreDecision, AppendConflict,
              ReadRawFile, ReindexEnds, ImportFails, ImportRows, OperatorCrash, Pin, AppendPin,
              Unpin, SetMemoryPinned, DecideConflict, ListRawTree, MayRun, storeVars
<1>3. CASE UNCHANGED vars
  BY <1>3 DEF vars, storeVars
<1>4. QED
  BY <1>1, <1>2, <1>3 DEF Next, Finished

\* The owner of a path keeps it until the path has a row or no file.
LEMMA OwnersLetGo ==
    ASSUME TypeInv, Faults \cap {"crash", "unlink", "open"} = {}, NEW c \in Clients,
           ClientNext(c), pc[c] \in {"commit", "unlink"}
    PROVE  \/ pc'[c] \in {"commit", "unlink"} /\ Path(c)' = Path(c)
           \/ \E a \in artifacts' : a.path = Path(c)
           \/ files' = [files EXCEPT ![Path(c)] = Null]
<1> USE DEF TypeInv, TypeOK, ClientTypeOK, Goto, Reply
<1>1. CASE CommitRows(c)
  <2>1. NewArtifact(c) \in artifacts'
    BY <1>1 DEF CommitRows, InsertMemory
  <2>2. NewArtifact(c).path = Path(c)
    BY DEF NewArtifact
  <2>3. QED  BY <2>1, <2>2
<1>2. CASE CommitFails(c)
  BY <1>2 DEF CommitFails, Path
<1>3. CASE UnlinkRaw(c)
  <2>1. "unlink" \notin Faults
    OBVIOUS
  <2>2. QED  BY <1>3, <2>1 DEF UnlinkRaw, UnlinkPath
<1>4. CASE ~CommitRows(c) /\ ~CommitFails(c) /\ ~UnlinkRaw(c)
  <2>1. "crash" \notin Faults /\ "open" \notin Faults
    OBVIOUS
  <2>2. pc[c] \notin {"dedupe", "group", "write", "list", "merge", "append", "reply", "raised",
                     "idle"}
    OBVIOUS
  <2>3. QED
    BY <1>4, <2>1, <2>2
    DEF ClientNext, ClientStep, ClientFault, Deduplicate, GroupRepeatedError, WriteRaw,
        ListEnvelopes, MergeConflicts, AppendNext, Return, Crash, StorageFails, WriteRawFails,
        IngestRaises, Receive
<1>5. QED  BY <1>1, <1>2, <1>3, <1>4

\* Rows stay, and only an owner's file disappears, so nothing else can be orphaned.
LEMMA NoOrphansNext ==
    ASSUME Faults \cap {"crash", "unlink", "open"} = {}
    PROVE  TypeInv /\ NoOrphans /\ [Next]_vars => NoOrphans'
<1> SUFFICES ASSUME TypeInv, NoOrphans, [Next]_vars, NEW p \in Paths, files'[p] # Null
             PROVE  \/ \E a \in artifacts' : a.path = p
                    \/ \E c \in Clients : pc'[c] \in {"commit", "unlink"} /\ Path(c)' = p
  BY DEF NoOrphans
<1> USE DEF TypeInv, TypeOK, StoreTypeOK, ClientTypeOK
<1>1. ASSUME NEW a \in artifacts, a.path = p
      PROVE  \E b \in artifacts' : b.path = p
  BY <1>1, TableSteps
<1>2. ASSUME NEW c \in Clients, pc[c] \in {"commit", "unlink"}, Path(c) = p
      PROVE  \/ \E a \in artifacts' : a.path = p
             \/ pc'[c] \in {"commit", "unlink"} /\ Path(c)' = p
  <2>1. CASE ClientNext(c)
    <3>1. files' # [files EXCEPT ![p] = Null]
      OBVIOUS
    <3>2. QED  BY <1>2, <2>1, <3>1, OwnersLetGo
  <2>2. ASSUME NEW d \in Clients \ {c}, ClientNext(d)
        PROVE  pc'[c] \in {"commit", "unlink"} /\ Path(c)' = p
    <3>1. c \in Clients \ {d}
      BY <2>2
    <3>2. QED  BY <1>2, <2>2, <3>1, OthersStand DEF Path
  <2>3. CASE OperatorNext \/ UNCHANGED vars
    BY <1>2, <2>3 DEF OperatorNext, vars, clientVars, Path
  <2>4. QED  BY <2>1, <2>2, <2>3 DEF Next, Finished
<1>3. CASE files[p] # Null
  BY <1>1, <1>2, <1>3 DEF NoOrphans
<1>4. CASE files[p] = Null
  <2>1. PICK c \in Clients : WriteRaw(c) \/ UnlinkRaw(c)
    BY <1>4, FileSteps
  <2>2. ~UnlinkRaw(c)
    BY <1>4 DEF UnlinkRaw, UnlinkPath
  <2>3. PICK t \in Ticks : /\ stamp' = [stamp EXCEPT ![c] = t]
                           /\ files' = [files EXCEPT ![<<t, turn[c].kind>>] = Text(c)]
                           /\ pc' = [pc EXCEPT ![c] = "commit"] /\ turn' = turn
    BY <2>1, <2>2 DEF WriteRaw, AtomicWriteText, Goto
  <2>4. p = <<t, turn[c].kind>>
    BY <1>4, <2>3
  <2>5. QED  BY <2>3, <2>4 DEF Path
<1>5. QED  BY <1>3, <1>4

\* When no process dies, every database and directory opens and files can be
\* deleted, a rolled back or failed turn leaves no file behind, for any number of
\* hosts, any interleaving and any clock.
THEOREM NothingIsOrphaned ==
    ASSUME Faults \cap {"crash", "unlink", "open"} = {}
    PROVE  Spec => []NoOrphans
<1>1. Init => NoOrphans
  BY DEF Init, StoreInit, NoOrphans
<1>2. QED  BY <1>1, TypeInvInit, TypeInvNext, NoOrphansNext, PTL DEF Spec
-----------------------------------------------------------------------------
(* Reindex                                                                 *)

\* A clock reading names at most one file, and a row is named after its file.
NamedByTick ==
    /\ \A p, q \in Paths : (files[p] # Null /\ files[q] # Null /\ p[1] = q[1]) => p = q
    /\ \A a \in artifacts : a.id[1] = a.path[1]

\* So far without an error: a file has a row, is still to be visited or is at hand.
ScanInv ==
    (opc \in {"scan", "insert"} /\ clean) =>
        \A p \in Paths : files[p] # Null =>
            \/ \E a \in artifacts : a.path = p
            \/ p \in todo
            \/ opc = "insert" /\ held.path = p

LEMMA NamedByTickNext ==
    ASSUME ~CoarseClock
    PROVE  Base /\ NamedByTick /\ [Next]_vars => NamedByTick'
<1> SUFFICES ASSUME Base, NamedByTick, [Next]_vars PROVE NamedByTick'
  OBVIOUS
<1> USE DEF Base, Rows, TypeInv, TypeOK, StoreTypeOK, ClientTypeOK
<1>1. \A p, q \in Paths : (files'[p] # Null /\ files'[q] # Null /\ p[1] = q[1]) => p = q
  <2>1. ASSUME NEW c \in Clients, WriteRaw(c)
        PROVE  \A p, q \in Paths : (files'[p] # Null /\ files'[q] # Null /\ p[1] = q[1]) => p = q
    <3>1. PICK t \in Ticks : Now(t) /\ files' = [files EXCEPT ![<<t, turn[c].kind>>] = Text(c)]
      BY <2>1 DEF WriteRaw, AtomicWriteText
    <3>2. clock < t
      BY <3>1, StorageAssumption DEF Now, Ticks
    <3>3. \A p \in Paths : files[p] # Null => p[1] # t
      BY <3>2, StorageAssumption DEF BackedInv, Ownership, Paths, Ticks
    <3>4. \A p \in Paths : files'[p] # Null => (files[p] # Null \/ p = <<t, turn[c].kind>>)
      BY <3>1
    <3>5. SUFFICES ASSUME NEW p \in Paths, NEW q \in Paths,
                          files'[p] # Null, files'[q] # Null, p[1] = q[1]
                   PROVE  p = q
      OBVIOUS
    <3> DEFINE w == <<t, turn[c].kind>>
    <3>6. w[1] = t /\ (files[p] # Null \/ p = w) /\ (files[q] # Null \/ q = w)
      BY <3>4, <3>5
    <3> HIDE DEF w
    <3>7. QED  BY <3>3, <3>5, <3>6 DEF NamedByTick
  <2>2. ASSUME NEW c \in Clients, UnlinkRaw(c)
        PROVE  \A p \in Paths : files'[p] # Null => files[p] # Null
    BY <2>2 DEF UnlinkRaw, UnlinkPath
  <2>3. QED  BY <2>1, <2>2, FileSteps DEF NamedByTick
<1>2. \A a \in artifacts' : a.id[1] = a.path[1]
  <2>1. ASSUME NEW c \in Clients, CommitRows(c)
        PROVE  \A a \in artifacts' : a.id[1] = a.path[1]
    <3>1. NewArtifact(c).id[1] = NewArtifact(c).path[1]
      BY DEF NewArtifact, Id, Path
    <3>2. artifacts' = artifacts \cup {NewArtifact(c)}
      BY <2>1 DEF CommitRows, InsertMemory
    <3>3. QED  BY <3>1, <3>2 DEF NamedByTick
  <2>2. ASSUME ImportRows
        PROVE  \A a \in artifacts' : a.id[1] = a.path[1]
    <3>1. held.path \in Paths
      BY <2>2 DEF ImportRows, CommandHolds
    <3>2. ParsedId(held.path)[1] = held.path[1]
      BY <3>1 DEF ParsedId, Paths
    <3>3. ImportedArtifact(held).id[1] = ImportedArtifact(held).path[1]
      BY <3>2 DEF ImportedArtifact
    <3>4. artifacts' = artifacts \/ artifacts' = artifacts \cup {ImportedArtifact(held)}
      BY <2>2 DEF ImportRows, InsertMemory
    <3>5. QED  BY <3>3, <3>4 DEF NamedByTick
  <2>3. ASSUME NEW c \in Clients, ClientNext(c), ~CommitRows(c)
        PROVE  artifacts' = artifacts
    BY <2>3 DEF ClientNext, ClientStep, ClientFault, Deduplicate, GroupRepeatedError, WriteRaw,
                CommitFails, UnlinkRaw, ListEnvelopes, MergeConflicts, AppendNext,
                AppendConflict, Return, Crash, StorageFails, WriteRawFails, IngestRaises,
                Receive, storeVars
  <2>4. ASSUME OperatorNext, ~ImportRows
        PROVE  artifacts' = artifacts
    BY <2>4 DEF OperatorNext, OperatorStep, OperatorFault, StoreDecision, AppendConflict,
                ReadRawFile, ReindexEnds, ImportFails, OperatorCrash, Pin, AppendPin, Unpin,
                SetMemoryPinned, DecideConflict, ListRawTree, storeVars
  <2>5. CASE UNCHANGED vars
    BY <2>5 DEF vars, storeVars, NamedByTick
  <2>6. QED
    BY <2>1, <2>2, <2>3, <2>4, <2>5 DEF Next, Finished, NamedByTick
<1>3. QED  BY <1>1, <1>2 DEF NamedByTick

\* A row that already has the id of a file is the row of this very file.
LEMMA IdMeansRow ==
    ASSUME Base, NamedByTick, NEW p \in Paths, files[p] # Null, ParsedId(p) \in Ids(artifacts)
    PROVE  \E a \in artifacts : a.path = p
<1>1. PICK a \in artifacts : a.id = ParsedId(p)
  BY DEF Ids
<1>2. a.path \in Paths /\ files[a.path] # Null
  BY StorageAssumption
  DEF Base, Rows, TypeInv, TypeOK, StoreTypeOK, Artifact, BackedInv, RawBacked
<1>3. ParsedId(p)[1] = p[1]
  BY DEF ParsedId, Paths
<1>4. QED  BY <1>1, <1>2, <1>3 DEF NamedByTick

LEMMA ScanInvNext ==
    ASSUME "reindex" \notin LiveCommands
    PROVE  Base /\ NamedByTick /\ ScanInv /\ [Next]_vars => ScanInv'
<1> SUFFICES ASSUME Base, NamedByTick, ScanInv, [Next]_vars PROVE ScanInv'
  OBVIOUS
<1> USE DEF Base, Rows
<1>1. ASSUME UNCHANGED <<files, operatorVars>> PROVE ScanInv'
  <2>1. artifacts \subseteq artifacts'
    BY TableSteps
  <2>2. QED  BY <1>1, <2>1 DEF ScanInv, operatorVars
<1>2. ASSUME NEW c \in Clients, ClientNext(c) PROVE ScanInv'
  <2>1. CASE pc[c] # "idle"
    <3>1. opc \notin {"scan", "insert"}
      BY <2>1, BusyNoReindex
    <3>2. QED  BY <1>2, <3>1 DEF ClientNext, operatorVars, ScanInv
  <2>2. CASE pc[c] = "idle"
    <3>1. ~WriteRaw(c) /\ ~UnlinkRaw(c) /\ UNCHANGED operatorVars
      BY <1>2, <2>2 DEF WriteRaw, UnlinkRaw, ClientNext
    <3>2. files' = files
      BY <1>2, <2>2 DEF ClientNext, ClientStep, ClientFault, Deduplicate, GroupRepeatedError,
                        WriteRaw, CommitRows, CommitFails, UnlinkRaw, ListEnvelopes,
                        MergeConflicts, AppendNext, Return, Crash, StorageFails, WriteRawFails,
                        IngestRaises, Receive, storeVars
    <3>3. QED  BY <1>1, <3>1, <3>2
  <2>3. QED  BY <2>1, <2>2
<1>3. CASE ListRawTree
  BY <1>3 DEF ListRawTree, ScanInv, storeVars
<1>4. CASE ReadRawFile
  <2>1. PICK p \in todo : /\ todo' = todo \ {p}
                          /\ IF files[p] = Null
                             THEN clean' = FALSE /\ UNCHANGED <<opc, held>>
                             ELSE /\ held' = [path |-> p, text |-> files[p]]
                                  /\ opc' = "insert"
                                  /\ UNCHANGED clean
    BY <1>4 DEF ReadRawFile
  <2>2. opc = "scan" /\ files' = files /\ artifacts' = artifacts
    BY <1>4 DEF ReadRawFile, storeVars
  <2>3. CASE files[p] = Null
    BY <2>1, <2>3 DEF ScanInv
  <2>4. CASE files[p] # Null
    <3>1. held'.path = p /\ opc' = "insert" /\ clean' = clean
      BY <2>1, <2>4
    <3>2. QED  BY <2>1, <2>2, <3>1 DEF ScanInv
  <2>5. QED  BY <2>3, <2>4
<1>5. CASE ImportRows
  <2>1. /\ opc = "insert" /\ opc' = "scan" /\ UNCHANGED <<files, todo, clean>>
        /\ held.path \in Paths
    BY <1>5 DEF ImportRows, TypeInv, CommandHolds
  <2>2. artifacts \subseteq artifacts'
    BY TableSteps
  <2>3. files[held.path] # Null => \E a \in artifacts' : a.path = held.path
    <3>1. CASE ParsedId(held.path) \in Ids(artifacts)
      BY <2>1, <2>2, <3>1, IdMeansRow
    <3>2. CASE ParsedId(held.path) \notin Ids(artifacts)
      <4>1. ImportedArtifact(held) \in artifacts'
        BY <1>5, <3>2 DEF ImportRows, InsertMemory
      <4>2. ImportedArtifact(held).path = held.path
        BY DEF ImportedArtifact
      <4>3. QED  BY <4>1, <4>2
    <3>3. QED  BY <3>1, <3>2
  <2>4. QED  BY <2>1, <2>2, <2>3 DEF ScanInv
<1>6. CASE ImportFails \/ ReindexEnds \/ OperatorCrash
  BY <1>6 DEF ImportFails, ReindexEnds, OperatorCrash, ScanInv
<1>7. CASE StoreDecision \/ DecideConflict \/ Pin \/ Unpin
  <2>1. opc' \notin {"scan", "insert"}
    BY <1>7 DEF StoreDecision, DecideConflict, Pin, Unpin, operatorVars
  <2>2. QED  BY <2>1 DEF ScanInv
<1>8. CASE UNCHANGED vars
  BY <1>1, <1>8 DEF vars, storeVars
<1>9. QED
  BY <1>2, <1>3, <1>4, <1>5, <1>6, <1>7, <1>8
  DEF Next, Finished, OperatorNext, OperatorStep, OperatorFault

\* When reindex --apply reports no error, every raw file has its row again: nothing
\* that any number of crashes left without one is missed, and no file is taken for
\* another.
THEOREM ReindexAlwaysRecovers ==
    ASSUME ~CoarseClock, "reindex" \notin LiveCommands
    PROVE  Spec => ReindexRecovers
<1>1. Init => NamedByTick /\ ScanInv
  BY DEF Init, StoreInit, OperatorInit, NamedByTick, ScanInv
<1>2. Base /\ NamedByTick /\ [Next]_vars => NamedByTick'
  BY NamedByTickNext
<1>3. Base /\ NamedByTick /\ ScanInv /\ [Next]_vars => ScanInv'
  BY ScanInvNext
<1>4. ScanInv => (ReindexEnds /\ clean =>
          \A p \in Paths : files[p] # Null => \E a \in artifacts : a.path = p)
  BY DEF ScanInv, ReindexEnds
<1>5. QED  BY <1>1, <1>2, <1>3, <1>4, BaseAlways, PTL DEF Spec, ReindexRecovers
-----------------------------------------------------------------------------
(* One host: what it has recorded keeps its text                           *)

OneHost == \A c, d \in Clients : c = d

\* What a turn wrote was there before the step or is what the step records.
LEMMA RuleRows ==
    ASSUME TypeInv, [Next]_vars, NEW f \in envelopes', f.source = "rule"
    PROVE  \/ \E e \in envelopes : SameMemory(e, f)
           \/ \E c \in Clients : Recorded(c) /\ f = NewEnvelope(c)
<1>1. \A t \in Ticks : ImportedEnvelope(held, t).source = "import"
  BY DEF ImportedEnvelope
<1>2. \A e \in envelopes : SameMemory(e, e)
  BY DEF SameMemory
<1>3. QED  BY <1>1, <1>2, EnvelopeSteps DEF PinsMoved, Recorded, Imported

LEMMA ClockGrows == TypeInv /\ [Next]_vars => clock \in Nat /\ clock <= clock'
<1> SUFFICES ASSUME TypeInv, [Next]_vars PROVE clock \in Nat /\ clock <= clock'
  OBVIOUS
<1>1. clock \in Nat
  BY StorageAssumption DEF TypeInv, TypeOK, StoreTypeOK
<1>2. \A t : Now(t) => clock <= clock'
  BY <1>1 DEF Now
<1>3. ASSUME NEW c \in Clients, ClientNext(c), ~WriteRaw(c)
      PROVE  clock' = clock
  BY <1>3 DEF ClientNext, ClientStep, ClientFault, Deduplicate, GroupRepeatedError, CommitRows,
              CommitFails, UnlinkRaw, ListEnvelopes, MergeConflicts, AppendNext, AppendConflict,
              Return, Crash, StorageFails, WriteRawFails, IngestRaises, Receive, storeVars
<1>4. ASSUME OperatorNext, ~ImportRows
      PROVE  clock' = clock
  BY <1>4 DEF OperatorNext, OperatorStep, OperatorFault, StoreDecision, AppendConflict,
              ReadRawFile, ReindexEnds, ImportFails, OperatorCrash, Pin, AppendPin, Unpin,
              SetMemoryPinned, DecideConflict, ListRawTree, storeVars
<1>5. ASSUME NEW c \in Clients, WriteRaw(c)
      PROVE  clock <= clock'
  BY <1>2, <1>5 DEF WriteRaw
<1>6. ASSUME ImportRows
      PROVE  clock <= clock'
  BY <1>1, <1>2, <1>6 DEF ImportRows
<1>7. CASE UNCHANGED vars
  BY <1>1, <1>7 DEF vars, storeVars
<1>8. QED  BY <1>1, <1>3, <1>4, <1>5, <1>6, <1>7 DEF Next, Finished

\* A recorded memory has its row and its file, named after a reading of the past.
TextsKept ==
    \A e \in envelopes : e.source = "rule" =>
        /\ e.id[1] \in 1..clock
        /\ \E a \in artifacts : a.id = e.id /\ a.path[1] = e.id[1] /\ files[a.path] = a.sha

\* The file of the turn at hand is of no recorded memory.
OwnFile(c) ==
    pc[c] \in {"commit", "unlink"} =>
        /\ \A e \in envelopes : e.source = "rule" => e.id[1] # stamp[c]
        /\ pc[c] = "commit" => files[Path(c)] = Text(c)

\* What holds of one host's memories even beside a running reindex, which may
\* import the file of the turn at hand and may lose it again (see RawBacked).
Kept ==
    /\ TypeInv /\ UniqueRows /\ UniqueIds(envelopes)
    /\ TextsKept /\ \A c \in Clients : OwnFile(c)

\* A step of the only host that leaves it between its write and its unlink.
LEMMA OwnFileSteps ==
    ASSUME OneHost, TypeInv, [Next]_vars, NEW c \in Clients, pc'[c] \in {"commit", "unlink"}
    PROVE  \/ WriteRaw(c) /\ UNCHANGED envelopes
           \/ /\ pc[c] \in {"commit", "unlink"} /\ (pc'[c] = "commit" => pc[c] = "commit")
              /\ stamp'[c] = stamp[c] /\ turn'[c] = turn[c] /\ files' = files
              /\ \A d \in Clients : ~Recorded(d)
<1> USE DEF TypeInv, TypeOK, ClientTypeOK
<1>1. CASE ClientNext(c)
  <2>1. CASE WriteRaw(c)
    BY <2>1 DEF WriteRaw
  <2>2. CASE ~WriteRaw(c)
    <3>1. CommitFails(c)
      BY <1>1, <2>2
      DEF ClientNext, ClientStep, ClientFault, Deduplicate, GroupRepeatedError, CommitRows,
          UnlinkRaw, ListEnvelopes, MergeConflicts, AppendNext, Return, Crash, StorageFails,
          WriteRawFails, IngestRaises, Receive, Reply, Goto, Forget
    <3>2. /\ pc[c] = "commit" /\ pc' = [pc EXCEPT ![c] = "unlink"]
          /\ UNCHANGED <<stamp, turn, files>>
      BY <3>1 DEF CommitFails, Goto, storeVars
    <3>3. ~Recorded(c)
      BY <3>2 DEF Recorded, CommitRows, Goto
    <3>4. QED  BY <3>2, <3>3 DEF OneHost
  <2>3. QED  BY <2>1, <2>2
<1>2. CASE OperatorNext \/ UNCHANGED vars
  <2>1. UNCHANGED <<pc, stamp, turn>>
    BY <1>2 DEF OperatorNext, vars, clientVars
  <2>2. ASSUME NEW d \in Clients, WriteRaw(d) \/ UnlinkRaw(d) \/ CommitRows(d)
        PROVE  FALSE
    BY <2>1, <2>2 DEF WriteRaw, UnlinkRaw, CommitRows, Goto, Reply
  <2>3. files' = files
    BY <2>2, FileSteps
  <2>4. QED  BY <2>1, <2>2, <2>3 DEF Recorded
<1>3. QED  BY <1>1, <1>2 DEF Next, Finished, OneHost

LEMMA OwnFileNext ==
    ASSUME OneHost, ~CoarseClock, Kept, [Next]_vars, NEW c \in Clients
    PROVE  OwnFile(c)'
<1> USE DEF Kept, TypeInv, TypeOK, ClientTypeOK, StoreTypeOK
<1> SUFFICES ASSUME pc'[c] \in {"commit", "unlink"}
             PROVE  /\ \A f \in envelopes' : f.source = "rule" => f.id[1] # stamp'[c]
                    /\ pc'[c] = "commit" => files'[Path(c)'] = Text(c)'
  BY DEF OwnFile
<1>1. CASE WriteRaw(c) /\ UNCHANGED envelopes
  <2>1. PICK t \in Ticks : /\ Now(t) /\ stamp' = [stamp EXCEPT ![c] = t]
                           /\ files' = [files EXCEPT ![<<t, turn[c].kind>>] = Text(c)]
                           /\ turn' = turn
    BY <1>1 DEF WriteRaw, AtomicWriteText
  <2>2. t = clock + 1 /\ clock \in Nat
    BY <2>1, StorageAssumption DEF Now
  <2>3. stamp'[c] = t
    BY <2>1
  <2>4. \A f \in envelopes' : f.source = "rule" => f.id[1] # stamp'[c]
    BY <1>1, <2>2, <2>3 DEF TextsKept
  <2>5. Path(c)' = <<t, turn[c].kind>> /\ Text(c)' = Text(c)
    BY <2>1, <2>3 DEF Path, Text
  <2>6. <<t, turn[c].kind>> \in Paths
    <3>1. pc[c] = "write"
      BY <1>1 DEF WriteRaw
    <3>2. turn[c].kind \in Kinds
      BY <3>1, AdmittedType DEF Working
    <3>3. QED  BY <3>2 DEF Paths
  <2>7. QED  BY <2>1, <2>4, <2>5, <2>6
<1>2. CASE /\ pc[c] \in {"commit", "unlink"} /\ (pc'[c] = "commit" => pc[c] = "commit")
           /\ stamp'[c] = stamp[c] /\ turn'[c] = turn[c] /\ files' = files
           /\ \A d \in Clients : ~Recorded(d)
  <2>1. Path(c)' = Path(c) /\ Text(c)' = Text(c)
    BY <1>2 DEF Path, Text
  <2>2. ASSUME NEW f \in envelopes', f.source = "rule" PROVE f.id[1] # stamp'[c]
    <3>1. PICK e \in envelopes : SameMemory(e, f)
      BY <1>2, <2>2, RuleRows
    <3>2. QED  BY <1>2, <2>2, <3>1 DEF SameMemory, OwnFile
  <2>3. QED  BY <1>2, <2>1, <2>2 DEF OwnFile
<1>3. QED  BY <1>1, <1>2, OwnFileSteps

LEMMA TextsKeptNext ==
    ASSUME OneHost, ~CoarseClock, Kept, [Next]_vars
    PROVE  TextsKept'
<1> USE DEF Kept
<1> SUFFICES ASSUME NEW f \in envelopes', f.source = "rule"
             PROVE  /\ f.id[1] \in 1..clock'
                    /\ \E a \in artifacts' :
                          a.id = f.id /\ a.path[1] = f.id[1] /\ files'[a.path] = a.sha
  BY DEF TextsKept
<1>1. clock \in Nat /\ clock' \in Nat /\ clock <= clock'
  <2>1. clock' \in Nat
    BY TypeInvNext, StorageAssumption DEF TypeInv, TypeOK, StoreTypeOK
  <2>2. QED  BY <2>1, ClockGrows
<1>2. CASE \E e \in envelopes : SameMemory(e, f)
  <2>1. PICK e \in envelopes : SameMemory(e, f)
    BY <1>2
  <2>2. e.source = "rule" /\ e.id = f.id
    BY <2>1 DEF SameMemory
  <2>3. PICK a \in artifacts : a.id = e.id /\ a.path[1] = e.id[1] /\ files[a.path] = a.sha
    BY <2>2 DEF TextsKept
  <2>4. e.id[1] \in 1..clock
    BY <2>2 DEF TextsKept
  <2>5. a \in artifacts'
    BY TableSteps
  <2>6. files'[a.path] = files[a.path]
    <3>1. CASE files' = files
      BY <3>1
    <3>2. ASSUME NEW c \in Clients, WriteRaw(c)
          PROVE  files'[a.path] = files[a.path]
      <4>1. PICK t \in Ticks : Now(t) /\ files' = [files EXCEPT ![<<t, turn[c].kind>>] = Text(c)]
        BY <3>2 DEF WriteRaw, AtomicWriteText
      <4>2. t = clock + 1
        BY <4>1, StorageAssumption DEF Now
      <4>3. a.path # <<t, turn[c].kind>>
        BY <1>1, <2>3, <2>4, <4>2
      <4>4. a.path \in DOMAIN files
        BY DEF TypeInv, TypeOK, StoreTypeOK, Artifact
      <4>5. QED  BY <4>1, <4>3, <4>4
    <3>3. ASSUME NEW c \in Clients, UnlinkRaw(c)
          PROVE  files'[a.path] = files[a.path]
      <4>1. /\ pc[c] = "unlink"
            /\ files' = [files EXCEPT ![Path(c)] = Null] \/ files' = files
        BY <3>3 DEF UnlinkRaw, UnlinkPath
      <4>2. e.id[1] # stamp[c]
        BY <2>2, <4>1 DEF OwnFile
      <4>3. a.path # Path(c)
        BY <2>3, <4>2 DEF Path
      <4>4. a.path \in DOMAIN files
        BY DEF TypeInv, TypeOK, StoreTypeOK, Artifact
      <4>5. QED  BY <4>1, <4>3, <4>4
    <3>4. QED  BY <3>1, <3>2, <3>3, FileSteps
  <2>7. QED  BY <1>1, <2>2, <2>3, <2>4, <2>5, <2>6
<1>3. ASSUME NEW c \in Clients, Recorded(c), f = NewEnvelope(c)
      PROVE  /\ f.id[1] \in 1..clock'
             /\ \E a \in artifacts' :
                   a.id = f.id /\ a.path[1] = f.id[1] /\ files'[a.path] = a.sha
  <2>1. /\ pc[c] = "commit" /\ files' = files
        /\ NewArtifact(c) \in artifacts'
    BY <1>3 DEF Recorded, CommitRows, InsertMemory
  <2>2. f.id = Id(c) /\ Id(c)[1] = stamp[c]
    BY <1>3 DEF NewEnvelope, Id
  <2>3. stamp[c] \in 1..clock
    BY <2>1 DEF TypeInv, Stamped, Named
  <2>4. NewArtifact(c).id = Id(c) /\ NewArtifact(c).path = Path(c) /\ NewArtifact(c).sha = Text(c)
    BY DEF NewArtifact
  <2>5. Path(c)[1] = stamp[c] /\ files[Path(c)] = Text(c)
    BY <2>1 DEF Path, OwnFile
  <2>6. QED  BY <1>1, <2>1, <2>2, <2>3, <2>4, <2>5
<1>4. QED  BY <1>2, <1>3, RuleRows

LEMMA KeptAlways ==
    ASSUME OneHost, ~CoarseClock
    PROVE  Spec => []Kept
<1>1. Init => Kept
  BY TypeInvInit, RowsInit
  DEF Init, StoreInit, ClientInit, Kept, UniqueIds, TextsKept, OwnFile
<1>2. Kept /\ [Next]_vars => Kept'
  BY TypeInvNext, RowsNext, UniqueIdsNext, TextsKeptNext, OwnFileNext DEF Kept
<1>3. QED  BY <1>1, <1>2, PTL DEF Spec

\* What a recorded memory says is the text its row was stored with.
TextsAreRows ==
    \A e \in envelopes, a \in artifacts :
        e.source = "rule" /\ a.id = e.id => ReadArtifactText(e.id) = a.sha /\ a.sha \in Texts

LEMMA KeptTexts == Kept => TextsAreRows
<1> SUFFICES ASSUME Kept, NEW e \in envelopes, NEW a \in artifacts,
                    e.source = "rule", a.id = e.id
             PROVE  ReadArtifactText(e.id) = a.sha /\ a.sha \in Texts
  BY DEF TextsAreRows
<1>1. files[a.path] = a.sha
  BY DEF Kept, TextsKept, UniqueRows
<1> DEFINE A == {b \in artifacts : b.id = e.id}
<1>2. A = {a}
  BY DEF Kept, UniqueRows
<1>3. (CHOOSE b \in A : TRUE) = a
  BY <1>2
<1>4. ReadArtifactText(e.id) = files[a.path]
  BY <1>2, <1>3 DEF ReadArtifactText
<1>5. QED  BY <1>1, <1>4 DEF Kept, TypeInv, TypeOK, StoreTypeOK, Artifact

LEMMA KeptTextStays ==
    ASSUME Kept, Kept', [Next]_vars,
           NEW e \in envelopes, e.source = "rule", NEW f \in envelopes', SameMemory(e, f)
    PROVE  ReadArtifactText(f.id)' = ReadArtifactText(e.id) /\ ReadArtifactText(e.id) \in Texts
<1>0. TextsAreRows /\ TextsAreRows'
  BY KeptTexts, PTL
<1>1. PICK a \in artifacts : a.id = e.id
  BY DEF Kept, TextsKept
<1>2. ReadArtifactText(e.id) = a.sha /\ a.sha \in Texts
  BY <1>0, <1>1 DEF TextsAreRows
<1>3. a \in artifacts' /\ a.id = f.id /\ f.source = "rule"
  BY <1>1, TableSteps DEF Kept, SameMemory
<1>4. ReadArtifactText(f.id)' = a.sha
  BY <1>0, <1>3 DEF TextsAreRows
<1>5. QED  BY <1>2, <1>4

LEMMA RecordedText ==
    ASSUME Kept', NEW c \in Clients, Recorded(c), NEW f, f = NewEnvelope(c)
    PROVE  ReadArtifactText(f.id)' = Text(c)
<1>0. TextsAreRows'
  BY KeptTexts, PTL
<1>1. NewArtifact(c) \in artifacts' /\ f \in envelopes' /\ f.source = "rule"
  BY DEF Recorded, CommitRows, InsertMemory, NewEnvelope
<1>2. NewArtifact(c).id = f.id /\ NewArtifact(c).sha = Text(c)
  BY DEF NewArtifact, NewEnvelope
<1>3. QED  BY <1>0, <1>1, <1>2 DEF TextsAreRows

\* No memory goes away.
LEMMA NoneLost == TypeInv /\ [Next]_vars => \A e \in envelopes : \E f \in envelopes' : SameMemory(e, f)
  BY EnvelopeSteps DEF SameMemory, PinsMoved, Recorded, Imported

-----------------------------------------------------------------------------
(* One host: nothing is stored twice                                       *)

BeforeCommit == {"group", "write", "commit"}

\* On the way from the dedupe check to the transaction the only host finds the recorded
\* memories it has checked: it alone records, and what reindex imports is not recorded.
LEMMA NobodyElseRecords ==
    ASSUME OneHost, TypeInv, [Next]_vars, NEW c \in Clients, pc'[c] \in BeforeCommit
    PROVE  /\ \A f \in envelopes' : f.source = "rule" => \E e \in envelopes : SameMemory(e, f)
           /\ turn'[c] = turn[c]
           /\ Deduplicate(c) \/ pc[c] \in BeforeCommit
<1> USE DEF TypeInv, TypeOK, ClientTypeOK, BeforeCommit
<1>1. ~Recorded(c)
  BY DEF Recorded, CommitRows, Goto
<1>2. /\ turn'[c] = turn[c]
      /\ Deduplicate(c) \/ pc[c] \in BeforeCommit
  <2>1. CASE ClientNext(c)
    BY <2>1 DEF ClientNext, ClientStep, ClientFault, Deduplicate, GroupRepeatedError, WriteRaw,
                CommitRows, CommitFails, UnlinkRaw, ListEnvelopes, MergeConflicts, AppendNext,
                Return, Crash, StorageFails, WriteRawFails, IngestRaises, Receive, Reply, Goto,
                Forget
  <2>2. CASE OperatorNext \/ UNCHANGED vars
    BY <2>2 DEF OperatorNext, vars, clientVars
  <2>3. QED  BY <2>1, <2>2 DEF Next, Finished, OneHost
<1>3. QED  BY <1>1, <1>2, RuleRows DEF OneHost

\* What a host is about to store has a hash that no recorded memory's row has, and no
\* two recorded memories' rows have the same.
NewHash(c) ==
    pc[c] \in BeforeCommit =>
        \A e \in envelopes, a \in artifacts :
            e.source = "rule" /\ a.id = e.id => a.sha # Text(c)

HashesDiffer ==
    \A e, f \in envelopes, a, b \in artifacts :
        (/\ e.id # f.id /\ e.source = "rule" /\ f.source = "rule"
         /\ a.id = e.id /\ b.id = f.id)
            => a.sha # b.sha

OnceInv == HashesDiffer /\ \A c \in Clients : NewHash(c)

\* A memory that was there has the row it had.
LEMMA RowsStay ==
    ASSUME TypeInv, [Next]_vars, NEW e \in envelopes, NEW a \in artifacts', a.id = e.id
    PROVE  a \in artifacts
BY TableSteps DEF KeysFree

LEMMA NewHashNext ==
    ASSUME OneHost, TypeInv, OnceInv, [Next]_vars, NEW c \in Clients
    PROVE  NewHash(c)'
<1> SUFFICES ASSUME pc'[c] \in BeforeCommit, NEW f \in envelopes', NEW a \in artifacts',
                    f.source = "rule", a.id = f.id
             PROVE  a.sha # Text(c)'
  BY DEF NewHash
<1>1. PICK e \in envelopes : SameMemory(e, f)
  BY NobodyElseRecords
<1>2. e.source = "rule" /\ a.id = e.id /\ a \in artifacts
  BY <1>1, RowsStay DEF SameMemory
<1>3. Text(c)' = Text(c)
  BY NobodyElseRecords DEF Text
<1>4. CASE Deduplicate(c)
  <2>1. FindMemoryBySha(Text(c)) = {}
    BY <1>4 DEF Deduplicate, Reply, Goto, BeforeCommit, TypeInv, TypeOK, ClientTypeOK
  <2>2. QED  BY <1>2, <1>3, <2>1 DEF FindMemoryBySha
<1>5. CASE pc[c] \in BeforeCommit
  BY <1>2, <1>3, <1>5 DEF OnceInv, NewHash
<1>6. QED  BY <1>4, <1>5, NobodyElseRecords

LEMMA HashesDifferNext ==
    ASSUME OneHost, TypeInv, UniqueRows', OnceInv, [Next]_vars
    PROVE  HashesDiffer'
<1> SUFFICES ASSUME NEW f \in envelopes', NEW g \in envelopes',
                    NEW a \in artifacts', NEW b \in artifacts', f.id # g.id,
                    f.source = "rule", g.source = "rule", a.id = f.id, b.id = g.id
             PROVE  a.sha # b.sha
  BY DEF HashesDiffer
<1>1. ASSUME NEW h \in envelopes', h.source = "rule", NEW r \in artifacts', r.id = h.id
      PROVE  \/ \E e \in envelopes : e.source = "rule" /\ r.id = e.id /\ r \in artifacts
             \/ \E c \in Clients : /\ r.sha = Text(c) /\ pc[c] \in BeforeCommit
                                   /\ h.id = Id(c)
  <2>1. CASE \E e \in envelopes : SameMemory(e, h)
    <3>1. PICK e \in envelopes : SameMemory(e, h)
      BY <2>1
    <3>2. e.source = "rule" /\ r.id = e.id
      BY <1>1, <3>1 DEF SameMemory
    <3>3. QED  BY <3>2, RowsStay
  <2>2. ASSUME NEW c \in Clients, Recorded(c), h = NewEnvelope(c)
        PROVE  r.sha = Text(c) /\ pc[c] \in BeforeCommit /\ h.id = Id(c)
    <3>1. NewArtifact(c) \in artifacts' /\ pc[c] = "commit"
      BY <2>2 DEF Recorded, CommitRows, InsertMemory
    <3>2. NewArtifact(c).id = h.id /\ NewArtifact(c).sha = Text(c) /\ h.id = Id(c)
      BY <2>2 DEF NewArtifact, NewEnvelope
    <3>3. r = NewArtifact(c)
      BY <1>1, <3>1, <3>2 DEF UniqueRows
    <3>4. QED  BY <3>1, <3>2, <3>3 DEF BeforeCommit
  <2>3. QED  BY <1>1, <2>1, <2>2, RuleRows
<1>2. CASE /\ \E e \in envelopes : e.source = "rule" /\ a.id = e.id /\ a \in artifacts
           /\ \E e \in envelopes : e.source = "rule" /\ b.id = e.id /\ b \in artifacts
  BY <1>2 DEF OnceInv, HashesDiffer
<1>3. CASE /\ \E e \in envelopes : e.source = "rule" /\ a.id = e.id /\ a \in artifacts
           /\ \E c \in Clients : b.sha = Text(c) /\ pc[c] \in BeforeCommit
  BY <1>3 DEF OnceInv, NewHash
<1>4. CASE /\ \E e \in envelopes : e.source = "rule" /\ b.id = e.id /\ b \in artifacts
           /\ \E c \in Clients : a.sha = Text(c) /\ pc[c] \in BeforeCommit
  BY <1>4 DEF OnceInv, NewHash
<1>5. CASE \E c, d \in Clients : f.id = Id(c) /\ g.id = Id(d)
  BY <1>5 DEF OneHost
<1>6. QED  BY <1>1, <1>2, <1>3, <1>4, <1>5

\* The duplicate check of a host that is the only one to record lets no hash into the
\* store a second time, however often the host is asked, whatever redaction makes of a
\* text, through every failure, crash and retry, beside a running reindex, and even
\* when clock readings repeat.
THEOREM HashesAlwaysDiffer ==
    ASSUME OneHost
    PROVE  Spec => []HashesDiffer
<1> DEFINE Inv == TypeInv /\ UniqueRows /\ OnceInv
<1>1. Init => Inv
  BY TypeInvInit, RowsInit
  DEF Init, StoreInit, ClientInit, OnceInv, HashesDiffer, NewHash, BeforeCommit
<1>2. Inv /\ [Next]_vars => Inv'
  BY TypeInvNext, RowsNext, NewHashNext, HashesDifferNext DEF OnceInv
<1>3. Inv => HashesDiffer
  BY DEF OnceInv
<1>4. QED  BY <1>1, <1>2, <1>3, PTL DEF Spec

\* A host that is the only one to record never stores the same text twice: the hashes
\* differ, and with distinct clock readings each recorded memory keeps the file its
\* hash is of, even while reindex imports beside it.
THEOREM NothingStoredTwice ==
    ASSUME OneHost, ~CoarseClock
    PROVE  Spec => []NoDuplicateMemories
<1>1. Kept /\ HashesDiffer => NoDuplicateMemories
  <2> SUFFICES ASSUME Kept, HashesDiffer, NEW e \in envelopes, NEW f \in envelopes,
                      e # f, e.source = "rule", f.source = "rule"
               PROVE  ReadArtifactText(e.id) # ReadArtifactText(f.id)
    BY DEF NoDuplicateMemories
  <2>1. e.id # f.id
    BY DEF Kept, UniqueIds
  <2>2. PICK a \in artifacts, b \in artifacts : a.id = e.id /\ b.id = f.id
    BY DEF Kept, TextsKept
  <2>3. a.sha # b.sha
    BY <2>1, <2>2 DEF HashesDiffer
  <2>4. QED  BY <2>2, <2>3, KeptTexts DEF TextsAreRows
<1>2. QED  BY <1>1, KeptAlways, HashesAlwaysDiffer, PTL
-----------------------------------------------------------------------------
(* One host: repeated errors are grouped                                   *)

\* Rows with an id each that all have a counterpart in T are at most as many.
LEMMA MatchCard ==
    ASSUME NEW S, NEW T, IsFiniteSet(T), UniqueIds(S), \A e \in S : \E f \in T : e.id = f.id
    PROVE  IsFiniteSet(S) /\ Cardinality(S) <= Cardinality(T)
<1> DEFINE m == [e \in S |-> CHOOSE f \in T : e.id = f.id]
<1>1. \A e \in S : m[e] \in T /\ m[e].id = e.id
  OBVIOUS
<1>2. \A e, f \in S : m[e] = m[f] => e = f
  BY <1>1 DEF UniqueIds
<1>3. m \in [S -> T]
  BY <1>1
<1> HIDE DEF m
<1>4. m \in Injection(S, T)
  BY <1>2, <1>3 DEF Injection, IsInjective
<1>5. QED  BY <1>4, FS_Injection

Newer(E, n)      == {g \in E : n < g.created}
Between(E, m, n) == {g \in E : m < g.created /\ g.created < n}

SameErrorAs(e, c) ==
    /\ e.room = turn[c].room /\ e.kind = turn[c].kind
    /\ Signature[ReadArtifactText(e.id)] = Signature[Text(c)]

\* An error about to be stored is a window of newer memories away from the last
\* recorded memory of the same error; once it has its reading, they are older than it.
NewError(c) ==
    (pc[c] \in {"write", "commit"} /\ IsDiagnostic(turn[c].kind)) =>
        \A e \in envelopes : (e.source = "rule" /\ SameErrorAs(e, c)) =>
            Cardinality(IF pc[c] = "write" THEN Newer(envelopes, e.created)
                        ELSE Between(envelopes, e.created, stamp[c])) >= Window

\* A file is newer than all recorded memories until its row is stored.
Newest(c) ==
    pc[c] = "commit" => \A e \in envelopes : e.source = "rule" => e.created < stamp[c]

GroupInv ==
    /\ IsFiniteSet(envelopes)
    /\ \A e \in envelopes : e.created <= clock
    /\ \A c \in Clients : Newest(c) /\ NewError(c)
    /\ RepeatedErrorsGrouped

\* Counts of memories never shrink.
LEMMA CountsGrow ==
    ASSUME TypeInv, UniqueIds(envelopes), IsFiniteSet(envelopes'),
           NEW S \in SUBSET envelopes, NEW T \in SUBSET envelopes',
           \A e \in S : \E f \in T : SameMemory(e, f)
    PROVE  Cardinality(S) \in Nat /\ Cardinality(T) \in Nat /\ Cardinality(S) <= Cardinality(T)
<1>1. IsFiniteSet(T)
  BY FS_Subset
<1>2. UniqueIds(S)
  BY DEF UniqueIds
<1>3. \A e \in S : \E f \in T : e.id = f.id
  BY DEF SameMemory
<1>4. IsFiniteSet(S) /\ Cardinality(S) <= Cardinality(T)
  BY <1>1, <1>2, <1>3, MatchCard
<1>5. QED  BY <1>1, <1>4, FS_CardinalityType

LEMMA StaysFinite ==
    ASSUME Kept, Kept', [Next]_vars, IsFiniteSet(envelopes)
    PROVE  IsFiniteSet(envelopes')
<1>1. CASE PinsMoved
  <2>1. \A f \in envelopes' : \E e \in envelopes : f.id = e.id
    BY <1>1 DEF PinsMoved, SameMemory
  <2>2. UniqueIds(envelopes')
    BY DEF Kept, UniqueIds
  <2>3. QED  BY <2>1, <2>2, MatchCard
<1>2. CASE \E e : envelopes' = envelopes \cup {e}
  BY <1>2, FS_AddElement
<1>3. QED  BY <1>1, <1>2, EnvelopeSteps DEF Kept, Recorded, Imported

\* The window scan of a host that goes on to write has found no memory of its error.
LEMMA ScanFindsNone ==
    ASSUME TypeInv, [Next]_vars, OneHost, NEW c \in Clients,
           pc[c] = "group", pc'[c] \in {"write", "commit"}
    PROVE  SameError(turn[c]) = {}
<1> USE DEF TypeInv, TypeOK, ClientTypeOK
<1>1. CASE ClientNext(c)
  BY <1>1 DEF ClientNext, ClientStep, ClientFault, Deduplicate, GroupRepeatedError, WriteRaw,
              CommitRows, CommitFails, UnlinkRaw, ListEnvelopes, MergeConflicts, AppendNext,
              Return, Crash, StorageFails, WriteRawFails, IngestRaises, Receive, Reply, Goto,
              Forget
<1>2. CASE OperatorNext \/ UNCHANGED vars
  BY <1>2 DEF OperatorNext, vars, clientVars
<1>3. QED  BY <1>1, <1>2 DEF Next, Finished, OneHost

\* How the only host gets to its write and to its commit.
LEMMA WriteSteps ==
    ASSUME OneHost, TypeInv, [Next]_vars, NEW c \in Clients, pc'[c] \in {"write", "commit"}
    PROVE  \/ pc'[c] = "write" /\ (Deduplicate(c) \/ pc[c] \in {"group", "write"})
           \/ pc'[c] = "commit" /\ WriteRaw(c)
           \/ pc'[c] = "commit" /\ pc[c] = "commit" /\ stamp'[c] = stamp[c]
<1> USE DEF TypeInv, TypeOK, ClientTypeOK
<1>1. CASE ClientNext(c)
  BY <1>1 DEF ClientNext, ClientStep, ClientFault, Deduplicate, GroupRepeatedError, WriteRaw,
              CommitRows, CommitFails, UnlinkRaw, ListEnvelopes, MergeConflicts, AppendNext,
              Return, Crash, StorageFails, WriteRawFails, IngestRaises, Receive, Reply, Goto,
              Forget
<1>2. CASE OperatorNext \/ UNCHANGED vars
  BY <1>2 DEF OperatorNext, vars, clientVars
<1>3. QED  BY <1>1, <1>2 DEF Next, Finished, OneHost

\* The dates of memories are clock readings.
LEMMA DatesAreReadings ==
    ASSUME TypeInv
    PROVE  clock \in Nat /\ \A e \in envelopes : e.created \in Nat
<1>1. \A e \in Envelope : e.created \in Nat
  BY StorageAssumption DEF Envelope, Ticks
<1>2. QED  BY <1>1, StorageAssumption DEF TypeInv, TypeOK, StoreTypeOK

LEMMA NewErrorNext ==
    ASSUME OneHost, ~CoarseClock, Kept, Kept', GroupInv, IsFiniteSet(envelopes'), [Next]_vars,
           NEW c \in Clients
    PROVE  NewError(c)'
<1> DEFINE Later(n) == IF pc'[c] = "write" THEN Newer(envelopes', n)
                       ELSE Between(envelopes', n, stamp'[c])
<1> SUFFICES ASSUME pc'[c] \in {"write", "commit"}, IsDiagnostic(turn'[c].kind),
                    NEW f \in envelopes', f.source = "rule", SameErrorAs(f, c)'
             PROVE  Cardinality(Later(f.created)) >= Window
  BY DEF NewError
<1>0. TypeInv /\ UniqueIds(envelopes)
  BY DEF Kept
<1>1. PICK e \in envelopes : SameMemory(e, f)
  BY <1>0, NobodyElseRecords DEF BeforeCommit
<1>2. e.source = "rule" /\ e.created = f.created
  BY <1>1 DEF SameMemory
<1>3. ReadArtifactText(f.id)' = ReadArtifactText(e.id) /\ ReadArtifactText(e.id) \in Texts
  BY <1>1, <1>2, KeptTextStays
<1>4. turn'[c] = turn[c] /\ Text(c)' = Text(c)
  BY <1>0, NobodyElseRecords DEF Text, BeforeCommit
<1>5. SameErrorAs(e, c)
  BY <1>1, <1>3, <1>4 DEF SameErrorAs, SameMemory
<1>6. ASSUME NEW S \in SUBSET envelopes, Cardinality(S) >= Window,
             \A g \in S : \E h \in Later(f.created) : SameMemory(g, h)
      PROVE  Cardinality(Later(f.created)) >= Window
  <2>1. Later(f.created) \in SUBSET envelopes'
    BY DEF Newer, Between
  <2> HIDE DEF Later
  <2>2. /\ Cardinality(S) \in Nat /\ Cardinality(Later(f.created)) \in Nat
        /\ Cardinality(S) <= Cardinality(Later(f.created))
    BY <1>0, <1>6, <2>1, CountsGrow
  <2>3. QED  BY <1>6, <2>2, ProviderAssumption
<1>7. ASSUME Cardinality(Newer(envelopes, e.created)) >= Window, pc'[c] = "write"
      PROVE  Cardinality(Later(f.created)) >= Window
  <2>1. \A g \in Newer(envelopes, e.created) : \E h \in Later(f.created) : SameMemory(g, h)
    BY <1>0, <1>2, <1>7, NoneLost DEF SameMemory, Newer
  <2>2. Newer(envelopes, e.created) \in SUBSET envelopes
    BY DEF Newer
  <2>3. QED  BY <1>6, <1>7, <2>1, <2>2
<1>8. CASE pc'[c] = "write" /\ Deduplicate(c)
  BY <1>0, <1>4, <1>8 DEF Deduplicate, Reply, Goto, TypeInv, TypeOK, ClientTypeOK
<1>9. CASE pc'[c] = "write" /\ pc[c] = "group"
  <2>1. SameError(turn[c]) = {}
    BY <1>0, <1>9, ScanFindsNone
  <2>2. ReadArtifactText(e.id) # Null
    BY <1>3, StorageAssumption
  <2>3. e \notin Recent
    BY <1>5, <2>1, <2>2 DEF SameError, SameErrorAs, Text
  <2>4. ~(Cardinality({g \in envelopes : g.created > e.created}) < Window)
    BY <2>3 DEF Recent
  <2>5. \A g \in envelopes : g.created > e.created <=> e.created < g.created
    OBVIOUS
  <2>6. {g \in envelopes : g.created > e.created} = Newer(envelopes, e.created)
    BY <2>5 DEF Newer
  <2>7. Cardinality(Newer(envelopes, e.created)) \in Nat
    BY FS_Subset, FS_CardinalityType DEF Newer, GroupInv
  <2>8. Cardinality(Newer(envelopes, e.created)) >= Window
    <3>1. \A n, m \in Nat : ~(n < m) => n >= m
      OBVIOUS
    <3>2. Window \in Nat
      BY ProviderAssumption
    <3>3. ~(Cardinality(Newer(envelopes, e.created)) < Window)
      BY <2>4, <2>6
    <3>4. QED  BY <2>7, <3>1, <3>2, <3>3
  <2>9. QED  BY <1>7, <1>9, <2>8
<1>10. CASE pc'[c] = "write" /\ pc[c] = "write"
  <2>1. Cardinality(Newer(envelopes, e.created)) >= Window
    BY <1>2, <1>4, <1>5, <1>10 DEF GroupInv, NewError
  <2>2. QED  BY <1>7, <1>10, <2>1
<1>11. CASE pc'[c] = "commit" /\ WriteRaw(c)
  <2>1. pc[c] = "write"
    BY <1>11 DEF WriteRaw
  <2>2. Cardinality(Newer(envelopes, e.created)) >= Window
    BY <1>2, <1>4, <1>5, <2>1 DEF GroupInv, NewError
  <2>3. envelopes' = envelopes /\ \E t \in Ticks : Now(t) /\ stamp' = [stamp EXCEPT ![c] = t]
    BY <1>11 DEF WriteRaw
  <2>4. stamp'[c] = clock + 1 /\ clock \in Nat
    BY <1>0, <2>3, StorageAssumption
    DEF Now, TypeInv, TypeOK, StoreTypeOK, ClientTypeOK
  <2>5. \A g \in envelopes : g.created < stamp'[c]
    BY <1>0, <2>4, DatesAreReadings DEF GroupInv
  <2>6. \A g \in Newer(envelopes, e.created) : g \in Later(f.created) /\ SameMemory(g, g)
    BY <1>2, <1>11, <2>3, <2>5 DEF Newer, Between, SameMemory
  <2>7. Newer(envelopes, e.created) \in SUBSET envelopes
    BY DEF Newer
  <2> HIDE DEF Later
  <2>8. QED  BY <1>6, <2>2, <2>6, <2>7
<1>12. CASE pc'[c] = "commit" /\ pc[c] = "commit" /\ stamp'[c] = stamp[c]
  <2>1. Cardinality(Between(envelopes, e.created, stamp[c])) >= Window
    BY <1>2, <1>4, <1>5, <1>12 DEF GroupInv, NewError
  <2>2. \A g \in Between(envelopes, e.created, stamp[c]) :
            \E h \in Later(f.created) : SameMemory(g, h)
    BY <1>0, <1>2, <1>12, NoneLost DEF SameMemory, Between
  <2>3. Between(envelopes, e.created, stamp[c]) \in SUBSET envelopes
    BY DEF Between
  <2> HIDE DEF Later
  <2>4. QED  BY <1>6, <2>1, <2>2, <2>3
<1>13. QED  BY <1>0, <1>8, <1>9, <1>10, <1>11, <1>12, WriteSteps

\* The clock names a file after all memories there are, and it stays the last while
\* its turn is being stored.
LEMMA NewestNext ==
    ASSUME OneHost, ~CoarseClock, Kept, GroupInv, [Next]_vars, NEW c \in Clients
    PROVE  Newest(c)'
<1> SUFFICES ASSUME pc'[c] = "commit", NEW f \in envelopes', f.source = "rule"
             PROVE  f.created < stamp'[c]
  BY DEF Newest
<1>0. TypeInv
  BY DEF Kept
<1>1. PICK e \in envelopes : SameMemory(e, f)
  BY <1>0, NobodyElseRecords DEF BeforeCommit
<1>2. e.source = "rule" /\ e.created = f.created
  BY <1>1 DEF SameMemory
<1>3. CASE WriteRaw(c)
  <2>1. PICK t \in Ticks : Now(t) /\ stamp' = [stamp EXCEPT ![c] = t]
    BY <1>3 DEF WriteRaw
  <2>2. t = clock + 1 /\ stamp'[c] = t
    BY <1>0, <2>1, StorageAssumption DEF Now, TypeInv, TypeOK, ClientTypeOK
  <2>3. e.created <= clock /\ e.created \in Nat /\ clock \in Nat
    BY <1>0, DatesAreReadings DEF GroupInv
  <2>4. QED  BY <1>2, <2>2, <2>3
<1>4. CASE pc[c] = "commit" /\ stamp'[c] = stamp[c]
  BY <1>2, <1>4 DEF GroupInv, Newest
<1>5. QED  BY <1>0, <1>3, <1>4, WriteSteps

LEMMA PastNext ==
    ASSUME Kept, Kept', GroupInv, [Next]_vars
    PROVE  \A f \in envelopes' : f.created <= clock'
<1>0. TypeInv /\ TypeInv'
  BY DEF Kept
<1>1. clock \in Nat /\ clock' \in Nat /\ clock <= clock'
  BY <1>0, ClockGrows, StorageAssumption DEF TypeInv, TypeOK, StoreTypeOK
<1>2. \A e \in envelopes : e.created \in Nat /\ e.created <= clock'
  <2>1. \A e \in envelopes : e.created \in Nat /\ e.created <= clock
    BY <1>0, DatesAreReadings DEF GroupInv
  <2>2. QED  BY <1>1, <2>1
<1>3. CASE PinsMoved
  BY <1>2, <1>3 DEF PinsMoved, SameMemory
<1>4. ASSUME NEW c \in Clients, Recorded(c)
      PROVE  \A f \in envelopes' : f.created <= clock'
  <2>1. stamp[c] \in 1..clock
    BY <1>0, <1>4 DEF Recorded, CommitRows, Stamped, Named, TypeInv
  <2>2. NewEnvelope(c).created = stamp[c]
    BY DEF NewEnvelope
  <2>3. envelopes' = envelopes \cup {NewEnvelope(c)}
    BY <1>4 DEF Recorded
  <2>4. NewEnvelope(c).created <= clock'
    BY <1>1, <2>1, <2>2
  <2>5. QED  BY <1>2, <2>3, <2>4
<1>5. ASSUME NEW t \in Ticks, Imported(t)
      PROVE  \A f \in envelopes' : f.created <= clock'
  <2>1. envelopes' = envelopes \cup {ImportedEnvelope(held, t)} /\ clock' = t
    BY <1>5 DEF Imported, Now
  <2>2. ImportedEnvelope(held, t).created = t
    BY DEF ImportedEnvelope
  <2>3. QED  BY <1>1, <1>2, <2>1, <2>2
<1>6. QED  BY <1>0, <1>3, <1>4, <1>5, EnvelopeSteps

\* Two recorded memories of one error: both were there before, or the younger is the
\* one just recorded.
LEMMA GroupedNext ==
    ASSUME OneHost, Kept, Kept', GroupInv, IsFiniteSet(envelopes'), [Next]_vars
    PROVE  RepeatedErrorsGrouped'
<1> SUFFICES ASSUME NEW f \in envelopes', NEW g \in envelopes',
                    f.created < g.created, f.source = "rule", g.source = "rule",
                    f.room = g.room, f.kind = g.kind, IsDiagnostic(f.kind),
                    Signature[ReadArtifactText(f.id)'] = Signature[ReadArtifactText(g.id)']
             PROVE  Cardinality(Between(envelopes', f.created, g.created)) >= Window
  BY DEF RepeatedErrorsGrouped, Between
<1>0. TypeInv /\ TypeInv' /\ UniqueIds(envelopes)
  BY DEF Kept
<1>1. ASSUME NEW e \in envelopes, NEW h \in envelopes', h.source = "rule"
      PROVE  SameMemory(e, h) => /\ e.source = "rule"
                                 /\ ReadArtifactText(h.id)' = ReadArtifactText(e.id)
  <2> SUFFICES ASSUME SameMemory(e, h)
               PROVE  e.source = "rule" /\ ReadArtifactText(h.id)' = ReadArtifactText(e.id)
    OBVIOUS
  <2>1. e.source = "rule"
    BY <1>1 DEF SameMemory
  <2>2. QED  BY <2>1, KeptTextStays
<1>2. \A e \in envelopes : \E h \in envelopes' : SameMemory(e, h)
  BY <1>0, NoneLost
<1>3. CASE \E e, h \in envelopes : SameMemory(e, f) /\ SameMemory(h, g)
  <2>1. PICK e \in envelopes, h \in envelopes : SameMemory(e, f) /\ SameMemory(h, g)
    BY <1>3
  <2>2. /\ Signature[ReadArtifactText(e.id)] = Signature[ReadArtifactText(h.id)]
        /\ e.created < h.created /\ e.source = "rule" /\ h.source = "rule"
        /\ e.room = h.room /\ e.kind = h.kind /\ IsDiagnostic(e.kind)
    BY <1>1, <2>1 DEF SameMemory
  <2>3. Cardinality(Between(envelopes, e.created, h.created)) >= Window
    BY <2>2 DEF GroupInv, RepeatedErrorsGrouped, Between
  <2>4. \A x \in Between(envelopes, e.created, h.created) :
            \E y \in Between(envelopes', f.created, g.created) : SameMemory(x, y)
    BY <1>2, <2>1 DEF SameMemory, Between
  <2>5. /\ Cardinality(Between(envelopes, e.created, h.created)) \in Nat
        /\ Cardinality(Between(envelopes', f.created, g.created)) \in Nat
        /\ Cardinality(Between(envelopes, e.created, h.created))
             <= Cardinality(Between(envelopes', f.created, g.created))
    BY <1>0, <2>4, CountsGrow DEF Between
  <2>6. QED  BY <2>3, <2>5, ProviderAssumption
<1>4. ASSUME NEW e \in envelopes, SameMemory(e, f),
             NEW c \in Clients, Recorded(c), g = NewEnvelope(c)
      PROVE  Cardinality(Between(envelopes', f.created, g.created)) >= Window
  <2>1. /\ pc[c] = "commit" /\ g.created = stamp[c]
        /\ g.room = turn[c].room /\ g.kind = turn[c].kind
    BY <1>4 DEF Recorded, CommitRows, NewEnvelope
  <2>2. ReadArtifactText(g.id)' = Text(c)
    BY <1>4, RecordedText
  <2>3. e.source = "rule" /\ SameErrorAs(e, c) /\ IsDiagnostic(turn[c].kind)
    BY <1>1, <1>4, <2>1, <2>2 DEF SameErrorAs, SameMemory
  <2>4. Cardinality(Between(envelopes, e.created, stamp[c])) >= Window
    BY <2>1, <2>3 DEF GroupInv, NewError
  <2>5. \A x \in Between(envelopes, e.created, stamp[c]) :
            \E y \in Between(envelopes', f.created, g.created) : SameMemory(x, y)
    BY <1>2, <1>4, <2>1 DEF SameMemory, Between
  <2>6. /\ Cardinality(Between(envelopes, e.created, stamp[c])) \in Nat
        /\ Cardinality(Between(envelopes', f.created, g.created)) \in Nat
        /\ Cardinality(Between(envelopes, e.created, stamp[c]))
             <= Cardinality(Between(envelopes', f.created, g.created))
    BY <1>0, <2>5, CountsGrow DEF Between
  <2>7. QED  BY <2>4, <2>6, ProviderAssumption
<1>5. ASSUME NEW h \in envelopes, SameMemory(h, g),
             NEW c \in Clients, Recorded(c), f = NewEnvelope(c)
      PROVE  FALSE
  <2>1. pc[c] = "commit" /\ f.created = stamp[c]
    BY <1>5 DEF Recorded, CommitRows, NewEnvelope
  <2>2. g.created < f.created
    BY <1>1, <1>5, <2>1 DEF GroupInv, Newest, SameMemory
  <2>3. f.created \in Nat /\ g.created \in Nat
    <3>1. \A x \in Envelope : x.created \in Nat
      BY StorageAssumption DEF Envelope, Ticks
    <3>2. QED  BY <1>0, <3>1 DEF TypeInv, TypeOK, StoreTypeOK
  <2>4. QED  BY <2>2, <2>3
<1>6. ASSUME NEW c \in Clients, NEW d \in Clients, f = NewEnvelope(c), g = NewEnvelope(d)
      PROVE  FALSE
  <2>1. f = g
    BY <1>6 DEF OneHost
  <2>2. f.created \in Nat
    <3>1. \A x \in Envelope : x.created \in Nat
      BY StorageAssumption DEF Envelope, Ticks
    <3>2. QED  BY <1>0, <3>1 DEF TypeInv, TypeOK, StoreTypeOK
  <2>3. QED  BY <2>1, <2>2
<1>7. QED  BY <1>0, <1>3, <1>4, <1>5, <1>6, RuleRows

\* A host that is the only one to record never bloats the store with an error that
\* repeats: two recorded memories of one error always have a whole window of other
\* memories between them, through every failure, crash and retry, and while reindex
\* imports beside it.
THEOREM RepeatedErrorsAlwaysGrouped ==
    ASSUME OneHost, ~CoarseClock
    PROVE  Spec => []RepeatedErrorsGrouped
<1>1. Init => GroupInv
  BY FS_EmptySet
  DEF Init, StoreInit, ClientInit, GroupInv, Newest, NewError, RepeatedErrorsGrouped
<1>2. Kept /\ Kept' /\ GroupInv /\ [Next]_vars => GroupInv'
  <2> SUFFICES ASSUME Kept, Kept', GroupInv, [Next]_vars PROVE GroupInv'
    OBVIOUS
  <2>1. IsFiniteSet(envelopes')
    BY StaysFinite DEF GroupInv
  <2>2. QED  BY <2>1, PastNext, NewestNext, NewErrorNext, GroupedNext DEF GroupInv
<1>3. GroupInv => RepeatedErrorsGrouped
  BY DEF GroupInv
<1>4. QED  BY <1>1, <1>2, <1>3, KeptAlways, PTL DEF Spec
=============================================================================
