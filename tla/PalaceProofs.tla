---------------------------- MODULE PalaceProofs -----------------------------
(***************************************************************************)
(* Proofs about Palace for every number of clients, every set of turns and *)
(* texts, every precedence order and every bound.                          *)
(***************************************************************************)
EXTENDS Palace, ConflictsProofs

-----------------------------------------------------------------------------
(* Type correctness                                                        *)

Working == {"dedupe", "group", "write", "commit", "unlink", "list", "merge", "append"}
Named   == {"commit", "unlink", "list", "merge", "append"}

\* A turn that went past validation and redaction has a room and a text.
Admitted ==
    \A c \in Clients : pc[c] \in Working =>
        /\ turn[c] \in Turns
        /\ turn[c].room # Null
        /\ Redact[turn[c].raw] # Null

\* Once written, the raw file has a time stamp of the past.
Stamped == \A c \in Clients : pc[c] \in Named => stamp[c] \in 1..clock

CommandHolds ==
    /\ opc = "resolve" => decision \in [key : Keys, rec : ConflictRecord(AllIds)]
    /\ opc = "insert"  => held \in [path : Paths, text : Texts]

TypeInv == TypeOK /\ Admitted /\ Stamped /\ CommandHolds

\* Everything an admitted client puts in the store has the right type.
LEMMA AdmittedType ==
    ASSUME TypeInv, NEW c \in Clients, pc[c] \in Working
    PROVE  /\ turn[c] \in Turn
           /\ turn[c].kind \in Kinds
           /\ turn[c].room \in Rooms
           /\ turn[c].key \in Keys \cup {Null}
           /\ turn[c].truth \in BOOLEAN
           /\ turn[c].pinned \in BOOLEAN
           /\ Text(c) \in Texts
<1>1. turn[c] \in Turns /\ turn[c].room # Null /\ Redact[turn[c].raw] # Null
  BY DEF TypeInv, Admitted
<1>2. turn[c] \in Turn
  BY <1>1, ProviderAssumption
<1>3. Redact[turn[c].raw] \in Texts \cup {Null}
  BY <1>2, ProviderAssumption DEF Turn
<1> QED
  BY <1>1, <1>2, <1>3 DEF Turn, Text, TypeInv, TypeOK, ClientTypeOK

LEMMA RowTypes ==
    ASSUME TypeInv, NEW c \in Clients, pc[c] = "commit"
    PROVE  NewArtifact(c) \in Artifact /\ NewEnvelope(c) \in Envelope
<1>1. stamp[c] \in Ticks
  BY StorageAssumption DEF TypeInv, Stamped, Named, TypeOK, StoreTypeOK, Ticks
<1>2. Id(c) \in AllIds
  BY <1>1 DEF Id, AllIds
<1>3. Path(c) \in Paths
  BY <1>1, AdmittedType DEF Path, Paths, Working
<1> QED
  BY <1>1, <1>2, <1>3, AdmittedType
  DEF NewArtifact, NewEnvelope, Artifact, Envelope, Working

LEMMA ParsedType ==
    ASSUME NEW p \in Paths
    PROVE  ParsedId(p) \in AllIds /\ ParsedKind(p) \in Kinds \cup {"output"}
  BY DEF Paths, ParsedId, ParsedKind, AllIds, Kinds

LEMMA IdsOfEnvelopes ==
    ASSUME NEW E, E \subseteq Envelope
    PROVE  /\ Ids(E) \subseteq AllIds
           /\ \A k : Ids(Group(E, k)) \subseteq Ids(E)
  BY DEF Ids, Group, Envelope

LEMMA TypeInvInit == Init => TypeInv
<1> SUFFICES ASSUME Init PROVE TypeInv
  OBVIOUS
<1>1. StoreTypeOK
  BY StorageAssumption DEF Init, StoreInit, StoreTypeOK
<1>2. ClientTypeOK
  BY StorageAssumption DEF Init, ClientInit, ClientTypeOK, Steps, NothingPending
<1>3. OperatorTypeOK
  BY DEF Init, OperatorInit, OperatorTypeOK
<1>4. Admitted /\ Stamped /\ CommandHolds
  BY DEF Init, ClientInit, OperatorInit, Admitted, Stamped, CommandHolds, Working, Named
<1> QED
  BY <1>1, <1>2, <1>3, <1>4 DEF TypeInv, TypeOK

LEMMA ForgetType ==
    ASSUME TypeInv, NEW c \in Clients, Forget(c), UNCHANGED storeVars, UNCHANGED operatorVars
    PROVE  TypeInv'
<1>1. StoreTypeOK' /\ OperatorTypeOK'
  BY DEF TypeInv, TypeOK, StoreTypeOK, OperatorTypeOK, storeVars, operatorVars
<1>2. NothingPending \in [Keys -> ConflictRecord(AllIds) \cup {Null}]
  BY DEF NothingPending
<1>3. ClientTypeOK'
  BY <1>2, StorageAssumption DEF TypeInv, TypeOK, ClientTypeOK, Forget, Goto, Steps
<1>4. Admitted' /\ Stamped' /\ CommandHolds'
  BY DEF TypeInv, TypeOK, ClientTypeOK, Admitted, Stamped, CommandHolds, Working, Named,
         Forget, Goto, storeVars, operatorVars
<1> QED
  BY <1>1, <1>3, <1>4 DEF TypeInv, TypeOK

\* The steps of one client, apart from the admission of a turn.
LEMMA TypeInvClientStep ==
    ASSUME TypeInv, NEW c \in Clients, ClientStep(c), UNCHANGED operatorVars
    PROVE  TypeInv'
<1> USE DEF TypeInv, TypeOK, StoreTypeOK, ClientTypeOK, OperatorTypeOK, operatorVars
<1>1. CASE Deduplicate(c)
  <2>1. \A e \in envelopes : e.id \in AllIds
    BY DEF Envelope
  <2> QED
    BY <1>1, <2>1 DEF Deduplicate, Reply, Goto, storeVars, Steps, Admitted, Stamped,
                 CommandHolds, Working, Named, FindMemoryBySha
<1>2. CASE GroupRepeatedError(c)
  <2>1. \A e \in SameError(turn[c]) : e.id \in AllIds
    BY DEF Envelope, SameError, Recent
  <2> QED
    BY <1>2, <2>1 DEF GroupRepeatedError, Reply, Goto, storeVars, Steps, Admitted, Stamped,
                 CommandHolds, Working, Named
<1>3. CASE WriteRaw(c)
  <2>1. Text(c) \in Texts /\ turn[c].kind \in Kinds
    BY <1>3, AdmittedType DEF WriteRaw, Working
  <2> QED
    BY <1>3, <2>1, StorageAssumption
    DEF WriteRaw, Now, AtomicWriteText, Goto, Steps, Admitted, Stamped,
                 CommandHolds, Working, Named, Ticks, Paths
<1>4. CASE CommitRows(c)
  <2>1. NewArtifact(c) \in Artifact /\ NewEnvelope(c) \in Envelope
    BY <1>4, RowTypes DEF CommitRows
  <2>2. NewEnvelope(c).id \in AllIds
    BY <2>1 DEF Envelope
  <2> QED
    BY <1>4, <2>1, <2>2
    DEF CommitRows, InsertMemory, Goto, Steps, Admitted, Stamped, CommandHolds, Working, Named
<1>5. CASE CommitFails(c)
  BY <1>5 DEF CommitFails, Goto, storeVars, Steps, Admitted, Stamped, CommandHolds, Working, Named
<1>6. CASE UnlinkRaw(c)
  <2>1. files' \in [Paths -> Texts \cup {Null}]
    BY <1>6 DEF UnlinkRaw, UnlinkPath
  <2> QED
    BY <1>6, <2>1 DEF UnlinkRaw, Reply, Goto, Steps, Admitted, Stamped, CommandHolds, Working, Named
<1>7. CASE ListEnvelopes(c)
  BY <1>7 DEF ListEnvelopes, Goto, storeVars, Steps, Admitted, Stamped, CommandHolds, Working, Named
<1>8. CASE MergeConflicts(c)
  <2>1. Detect(snapshot[c], conflicts) \in [Keys -> ConflictRecord(AllIds) \cup {Null}]
    BY DetectType, IdsOfEnvelopes
  <2>2. Id(c) \in AllIds
    BY <1>8, StorageAssumption DEF MergeConflicts, Stamped, Named, Id, AllIds, Ticks
  <2> QED
    BY <1>8, <2>1, <2>2
    DEF MergeConflicts, Reply, Goto, storeVars, Steps, Admitted, Stamped, CommandHolds, Working, Named
<1>9. CASE AppendNext(c)
  <2>1. PICK k \in Keys :
            /\ IsNextPending(c, k)
            /\ AppendConflict(k, pending[c][k])
            /\ pending' = [pending EXCEPT ![c][k] = Null]
            /\ IF \A j \in Keys \ {k} : pending[c][j] = Null
               THEN Reply(c, Id(c))
               ELSE UNCHANGED <<pc, answer>>
    BY <1>9 DEF AppendNext
  <2>2. Id(c) \in AllIds
    BY <1>9, StorageAssumption DEF AppendNext, Stamped, Named, Id, AllIds, Ticks
  <2>3. pending[c][k] \in ConflictRecord(AllIds) \cup {Null}
    OBVIOUS
  <2>4. /\ pending' \in [Clients -> [Keys -> ConflictRecord(AllIds) \cup {Null}]]
        /\ conflicts' \in [Keys -> ConflictRecord(AllIds) \cup {Null}]
    BY <2>1, <2>3 DEF AppendConflict
  <2>5. /\ pc' \in [Clients -> Steps]
        /\ answer' \in [Clients -> AllIds \cup {Null}]
        /\ \A d \in Clients : pc'[d] = pc[d] \/ pc'[d] = "reply"
    BY <2>1, <2>2 DEF Reply, Goto, Steps
  <2>6. UNCHANGED <<clock, files, artifacts, envelopes, pinLog, turn, stamp, snapshot>>
    BY <1>9, <2>1 DEF AppendNext, AppendConflict
  <2>7. Admitted' /\ Stamped' /\ CommandHolds'
    BY <2>5, <2>6 DEF Admitted, Stamped, CommandHolds, Working, Named
  <2> QED
    BY <2>4, <2>5, <2>6, <2>7
<1>10. CASE Return(c)
  BY <1>10, ForgetType DEF Return
<1> QED
  BY <1>1, <1>2, <1>3, <1>4, <1>5, <1>6, <1>7, <1>8, <1>9, <1>10 DEF ClientStep

LEMMA TypeInvClientNext ==
    ASSUME TypeInv, NEW c \in Clients, ClientNext(c)
    PROVE  TypeInv'
<1>1. CASE ClientStep(c) /\ UNCHANGED operatorVars
  BY <1>1, TypeInvClientStep
<1>2. CASE (WriteRawFails(c) \/ StorageFails(c) \/ IngestRaises(c)) /\ UNCHANGED operatorVars
  BY <1>2 DEF WriteRawFails, StorageFails, IngestRaises, TypeInv, TypeOK, StoreTypeOK, ClientTypeOK,
              OperatorTypeOK, storeVars, operatorVars, Reply, Goto, Steps, Admitted, Stamped,
              CommandHolds, Working, Named
<1>3. CASE Crash(c) /\ UNCHANGED operatorVars
  BY <1>3, ForgetType DEF Crash
<1>4. ASSUME NEW t \in Turns, Receive(c, t), UNCHANGED operatorVars
      PROVE  TypeInv'
  BY <1>4 DEF Receive, TypeInv, TypeOK, StoreTypeOK, ClientTypeOK,
              OperatorTypeOK, storeVars, operatorVars, Reply, Goto, Steps, Admitted, Stamped,
              CommandHolds, Working, Named
<1> QED
  BY <1>1, <1>2, <1>3, <1>4 DEF ClientNext, ClientFault

LEMMA TypeInvOperatorNext ==
    ASSUME TypeInv, OperatorNext
    PROVE  TypeInv'
<1> UNCHANGED clientVars
  BY DEF OperatorNext
<1> USE DEF TypeInv, TypeOK, StoreTypeOK, ClientTypeOK, OperatorTypeOK, clientVars
<1>0. ASSUME Stamped, UNCHANGED <<pc, stamp>>, clock' \in Nat, clock <= clock'
      PROVE  Stamped'
  BY <1>0 DEF Stamped
<1>a. ASSUME Admitted, UNCHANGED <<pc, turn>>
      PROVE  Admitted'
  BY <1>a DEF Admitted
<1>b. clock \in Nat /\ clock <= clock
  BY StorageAssumption
<1>1. CASE StoreDecision
  <2>1. decision \in [key : Keys, rec : ConflictRecord(AllIds)]
    BY <1>1 DEF StoreDecision, CommandHolds
  <2> QED
    BY <1>1, <2>1, <1>0, <1>a, <1>b DEF StoreDecision, AppendConflict, CommandHolds
<1>2. CASE ReadRawFile
  <2>1. PICK p \in todo :
            /\ todo' = todo \ {p}
            /\ IF files[p] = Null
               THEN clean' = FALSE /\ UNCHANGED <<opc, held>>
               ELSE /\ held' = [path |-> p, text |-> files[p]]
                    /\ opc' = "insert"
                    /\ UNCHANGED clean
    BY <1>2 DEF ReadRawFile
  <2>2. p \in Paths /\ files[p] \in Texts \cup {Null}
    OBVIOUS
  <2>3. UNCHANGED storeVars /\ UNCHANGED decision /\ opc = "scan"
    BY <1>2 DEF ReadRawFile
  <2>4. /\ todo' \subseteq Paths
        /\ opc' \in {"scan", "insert"}
        /\ clean' \in BOOLEAN
        /\ held' \in [path : Paths, text : Texts] \cup {Null}
        /\ opc' = "insert" => held' \in [path : Paths, text : Texts]
    <3>1. CASE files[p] = Null
      BY <2>1, <2>3, <3>1
    <3>2. CASE files[p] # Null
      <4>1. [path |-> p, text |-> files[p]] \in [path : Paths, text : Texts]
        BY <2>2, <3>2
      <4> QED
        BY <2>1, <3>2, <4>1
    <3> QED
      BY <3>1, <3>2
  <2> QED
    BY <2>3, <2>4, <1>0, <1>a, <1>b DEF storeVars, CommandHolds
<1>3. CASE ImportRows
  <2>1. held \in [path : Paths, text : Texts]
    BY <1>3 DEF ImportRows, CommandHolds
  <2>2. ASSUME NEW t \in Ticks
        PROVE  /\ ImportedArtifact(held) \in Artifact
               /\ ImportedEnvelope(held, t) \in Envelope
    BY <2>1, ParsedType DEF ImportedArtifact, ImportedEnvelope, Artifact, Envelope
  <2>3. CASE UNCHANGED <<clock, artifacts, envelopes, pinLog>>
    BY <1>3, <2>3, <1>0, <1>a, <1>b DEF ImportRows, CommandHolds
  <2>4. ASSUME NEW t \in Ticks, Now(t),
               InsertMemory(ImportedArtifact(held), ImportedEnvelope(held, t))
        PROVE  TypeInv'
    <3>1. clock' \in 0..MaxTick /\ clock <= clock'
      BY <2>4, StorageAssumption DEF Now, Ticks
    <3>2. artifacts' \subseteq Artifact /\ envelopes' \subseteq Envelope
      BY <2>2, <2>4 DEF InsertMemory
    <3>3. pinLog' \in [AllIds -> BOOLEAN \cup {Null}]
      BY <2>4 DEF InsertMemory
    <3> QED
      BY <1>3, <1>0, <1>a, <3>1, <3>2, <3>3, StorageAssumption DEF ImportRows, CommandHolds
  <2> QED
    BY <1>3, <2>3, <2>4 DEF ImportRows
<1>4. CASE ReindexEnds \/ ImportFails \/ OperatorCrash
  BY <1>4, <1>0, <1>a, <1>b DEF ReindexEnds, ImportFails, OperatorCrash, storeVars, CommandHolds
<1>5. CASE Pin
  BY <1>5, <1>0, <1>a, <1>b DEF Pin, AppendPin, operatorVars, CommandHolds
<1>6. CASE Unpin
  <2>1. PICK i \in Ids(envelopes) : SetMemoryPinned(i, FALSE)
    BY <1>6 DEF Unpin
  <2>2. \A e \in envelopes : [e EXCEPT !.pinned = FALSE] \in Envelope
    BY DEF Envelope
  <2>3. envelopes' \subseteq Envelope
    BY <2>1, <2>2 DEF SetMemoryPinned
  <2>4. pinLog' \in [AllIds -> BOOLEAN \cup {Null}]
    BY <2>1 DEF SetMemoryPinned
  <2> QED
    BY <1>6, <2>1, <2>3, <2>4, <1>0, <1>a, <1>b DEF Unpin, SetMemoryPinned, operatorVars, CommandHolds
<1>7. CASE DecideConflict
  <2>1. PICK k \in Keys, w \in Ids(envelopes) :
            decision' = [key |-> k, rec |-> Resolved(envelopes, k, w)]
    BY <1>7 DEF DecideConflict
  <2>2. /\ Ids(envelopes) \subseteq AllIds
        /\ Ids(Group(envelopes, k)) \subseteq AllIds
    BY IdsOfEnvelopes
  <2>3. "resolved_by_pin" \in Statuses
    BY DEF Statuses, StatusOf, Terms
  <2>4. Resolved(envelopes, k, w) \in ConflictRecord(AllIds)
    BY <2>2, <2>3 DEF Resolved, ConflictRecord
  <2> QED
    BY <1>7, <2>1, <2>4, <1>0, <1>a, <1>b DEF DecideConflict, storeVars, CommandHolds
<1>8. CASE ListRawTree
  BY <1>8, <1>0, <1>a, <1>b DEF ListRawTree, storeVars, CommandHolds
<1> QED
  BY <1>1, <1>2, <1>3, <1>4, <1>5, <1>6, <1>7, <1>8
  DEF OperatorNext, OperatorStep, OperatorFault

LEMMA TypeInvNext == TypeInv /\ [Next]_vars => TypeInv'
<1> SUFFICES ASSUME TypeInv, [Next]_vars PROVE TypeInv'
  OBVIOUS
<1>1. CASE UNCHANGED vars
  BY <1>1 DEF vars, storeVars, clientVars, operatorVars, TypeInv, TypeOK, StoreTypeOK,
              ClientTypeOK, OperatorTypeOK, Admitted, Stamped, CommandHolds, Text
<1> QED
  BY <1>1, TypeInvClientNext, TypeInvOperatorNext DEF Next, Finished

\* Every variable keeps its type, and what a client is about to store is typed
\* too: no step before the transaction lets a turn without room or text through.
THEOREM TypeCorrect == Spec => []TypeOK
<1>1. Spec => []TypeInv
  BY TypeInvInit, TypeInvNext, PTL DEF Spec
<1> QED
  BY <1>1, PTL DEF TypeInv

-----------------------------------------------------------------------------
(* Rows always have their file                                             *)

Owning == {"commit", "unlink"}

\* Between the write of a file and the end of its transaction the file is its
\* writer's alone: no row names it, no other client has its stamp, and reindex,
\* which could give it a row, is not running.
Ownership ==
    /\ \A p \in Paths : files[p] # Null => p[1] <= clock
    /\ \A c \in Clients : pc[c] \in Owning => \A a \in artifacts : a.path # Path(c)
    /\ \A c \in Clients : pc[c] = "commit" => files[Path(c)] = Text(c)
    /\ \A c, d \in Clients :
          (c # d /\ pc[c] \in Owning /\ pc[d] \in Owning) => stamp[c] # stamp[d]

ReindexAlone ==
    /\ opc \in {"scan", "insert"} => AllIdle
    /\ opc = "insert" => files[held.path] = held.text

BackedInv == RawBacked /\ Ownership /\ ReindexAlone

\* A step that leaves clock, files and artifacts alone, gives nobody a file and
\* keeps reindex apart preserves the invariant.
LEMMA BackedFrame ==
    ASSUME TypeInv, BackedInv,
           UNCHANGED <<clock, files, artifacts>>,
           \A e \in envelopes' : \E f \in envelopes : e.id = f.id,
           \A c \in Clients : pc'[c] \in Owning =>
               /\ pc[c] \in Owning
               /\ pc'[c] = "commit" => pc[c] = "commit"
               /\ stamp'[c] = stamp[c]
               /\ turn'[c] = turn[c],
           ReindexAlone'
    PROVE  BackedInv'
<1>1. RawBacked'
  BY DEF BackedInv, RawBacked
<1>2. Ownership'
  BY DEF BackedInv, Ownership, Path, Text, Owning
<1> QED
  BY <1>1, <1>2 DEF BackedInv

\* A client that is not idle keeps the operator out of reindex.
LEMMA BusyNoReindex ==
    ASSUME TypeInv, BackedInv, NEW c \in Clients, pc[c] # "idle"
    PROVE  opc \notin {"scan", "insert"}
  BY DEF BackedInv, ReindexAlone, AllIdle

LEMMA BackedInit == Init => BackedInv
  BY DEF Init, StoreInit, ClientInit, OperatorInit, BackedInv, RawBacked, Ownership,
         ReindexAlone, Owning

LEMMA BackedWriteRaw ==
    ASSUME TypeInv, BackedInv, ~CoarseClock, NEW c \in Clients, WriteRaw(c),
           UNCHANGED operatorVars
    PROVE  BackedInv'
<1> USE DEF TypeInv, TypeOK, StoreTypeOK, ClientTypeOK
<1>1. PICK t \in Ticks : Now(t) /\ stamp' = [stamp EXCEPT ![c] = t]
                         /\ AtomicWriteText(<<t, turn[c].kind>>, Text(c))
  BY DEF WriteRaw
<1>2. /\ clock' = t /\ clock < t
      /\ UNCHANGED <<turn, artifacts, envelopes>>
      /\ pc' = [pc EXCEPT ![c] = "commit"]
  BY <1>1, StorageAssumption DEF WriteRaw, Now, Ticks, Goto
<1>3. Text(c) \in Texts /\ turn[c].kind \in Kinds
  BY AdmittedType DEF WriteRaw, Working
<1>4. <<t, turn[c].kind>> \in Paths /\ files[<<t, turn[c].kind>>] = Null
  BY <1>2, <1>3, StorageAssumption DEF Paths, Ticks, BackedInv, Ownership
<1>5. files' = [files EXCEPT ![<<t, turn[c].kind>>] = Text(c)]
  BY <1>1 DEF AtomicWriteText
<1>6. \A a \in artifacts : a.path \in Paths /\ files[a.path] # Null
  BY StorageAssumption DEF BackedInv, RawBacked, Artifact
<1>7. \A d \in Clients : pc[d] \in Owning => stamp[d] \in 1..clock
  BY DEF Stamped, Owning, Named
<1>8. pc[c] \notin Owning /\ pc[c] # "idle"
  BY DEF WriteRaw, Owning
<1>9. RawBacked'
  BY <1>2, <1>4, <1>5, <1>6 DEF BackedInv, RawBacked
<1>10. Path(c)' = <<t, turn[c].kind>> /\ Text(c)' = Text(c)
  BY <1>1, <1>2 DEF Path, Text
<1>11. \A d \in Clients \ {c} : /\ pc'[d] = pc[d] /\ stamp'[d] = stamp[d]
                                /\ Path(d)' = Path(d) /\ Text(d)' = Text(d)
  BY <1>1, <1>2 DEF Path, Text
<1>12. \A d \in Clients \ {c} : pc[d] \in Owning => Path(d) # <<t, turn[c].kind>>
  BY <1>2, <1>7, StorageAssumption DEF Path, Ticks
<1>13. Ownership'
  <2>1. \A p \in Paths : files'[p] # Null => p[1] <= clock'
    BY <1>2, <1>5, StorageAssumption DEF BackedInv, Ownership, Paths, Ticks
  <2>2. ASSUME NEW d \in Clients, pc'[d] \in Owning, NEW a \in artifacts'
        PROVE  a.path # Path(d)'
    <3>1. CASE d = c
      BY <1>2, <1>4, <1>6, <1>10, <3>1
    <3>2. CASE d # c
      BY <1>2, <1>11, <2>2, <3>2 DEF BackedInv, Ownership
    <3> QED
      BY <3>1, <3>2
  <2>3. ASSUME NEW d \in Clients, pc'[d] = "commit"
        PROVE  files'[Path(d)'] = Text(d)'
    <3>1. CASE d = c
      BY <1>4, <1>5, <1>10, <3>1
    <3>2. CASE d # c
      <4>1. pc[d] = "commit" /\ Path(d)' = Path(d) /\ Text(d)' = Text(d)
        BY <1>11, <2>3, <3>2
      <4>2. Path(d) # <<t, turn[c].kind>>
        BY <1>12, <3>2, <4>1 DEF Owning
      <4>3. Path(d) \in Paths
        BY <4>1, AdmittedType, <1>7, StorageAssumption DEF Owning, Working, Path, Paths, Ticks
      <4> QED
        BY <1>5, <4>1, <4>2, <4>3 DEF BackedInv, Ownership
    <3> QED
      BY <3>1, <3>2
  <2>4. \A d, e \in Clients :
           (d # e /\ pc'[d] \in Owning /\ pc'[e] \in Owning) => stamp'[d] # stamp'[e]
    BY <1>1, <1>2, <1>7, <1>11, StorageAssumption DEF BackedInv, Ownership, Ticks
  <2> QED
    BY <2>1, <2>2, <2>3, <2>4 DEF Ownership
<1>14. ReindexAlone'
  BY <1>8, BusyNoReindex DEF ReindexAlone, operatorVars
<1> QED
  BY <1>9, <1>13, <1>14 DEF BackedInv

\* The row gets its file because the client kept it since it wrote it.
LEMMA BackedCommitRows ==
    ASSUME TypeInv, BackedInv, NEW c \in Clients, CommitRows(c), UNCHANGED operatorVars
    PROVE  BackedInv'
<1> USE DEF TypeInv, TypeOK, StoreTypeOK, ClientTypeOK
<1>1. /\ pc[c] = "commit" /\ pc' = [pc EXCEPT ![c] = "list"]
      /\ artifacts' = artifacts \cup {NewArtifact(c)}
      /\ envelopes' = envelopes \cup {NewEnvelope(c)}
      /\ UNCHANGED <<clock, files, turn, stamp>>
  BY DEF CommitRows, InsertMemory, Goto
<1>2. /\ NewArtifact(c).path = Path(c)
      /\ NewArtifact(c).sha = Text(c)
      /\ NewArtifact(c).id = NewEnvelope(c).id
  BY DEF NewArtifact, NewEnvelope
<1>3. files[Path(c)] = Text(c)
  BY <1>1 DEF BackedInv, Ownership
<1>4. RawBacked'
  BY <1>1, <1>2, <1>3 DEF BackedInv, RawBacked
<1>5. ASSUME NEW d \in Clients, pc'[d] \in Owning
      PROVE  /\ d # c /\ pc'[d] = pc[d] /\ stamp'[d] = stamp[d]
             /\ Path(d)' = Path(d) /\ Text(d)' = Text(d)
             /\ stamp[c] # stamp[d]
             /\ Path(d) # Path(c)
  <2>1. d # c
    BY <1>1, <1>5 DEF Owning
  <2>2. stamp[c] # stamp[d]
    BY <1>1, <1>5, <2>1 DEF Owning, BackedInv, Ownership
  <2> QED
    BY <1>1, <2>1, <2>2 DEF Path, Text
<1>6. Ownership'
  <2>1. \A d \in Clients : pc'[d] \in Owning => \A a \in artifacts' : a.path # Path(d)'
    BY <1>1, <1>2, <1>5 DEF BackedInv, Ownership
  <2>2. \A d \in Clients : pc'[d] = "commit" => files'[Path(d)'] = Text(d)'
    BY <1>1, <1>5 DEF BackedInv, Ownership, Owning
  <2> QED
    BY <1>1, <1>5, <2>1, <2>2 DEF BackedInv, Ownership
<1>7. ReindexAlone'
  BY <1>1, BusyNoReindex DEF ReindexAlone, operatorVars
<1> QED
  BY <1>4, <1>6, <1>7 DEF BackedInv

\* The cleanup removes a file that no row and no other client claims.
LEMMA BackedUnlinkRaw ==
    ASSUME TypeInv, BackedInv, NEW c \in Clients, UnlinkRaw(c), UNCHANGED operatorVars
    PROVE  BackedInv'
<1> USE DEF TypeInv, TypeOK, StoreTypeOK, ClientTypeOK
<1>1. /\ pc[c] = "unlink" /\ pc' = [pc EXCEPT ![c] = "reply"]
      /\ UNCHANGED <<clock, artifacts, envelopes, turn, stamp>>
      /\ files' = [files EXCEPT ![Path(c)] = Null] \/ files' = files
  BY DEF UnlinkRaw, UnlinkPath, Reply, Goto
<1>2. \A a \in artifacts : a.path # Path(c) /\ a.path \in Paths
  BY <1>1 DEF BackedInv, Ownership, Owning, Artifact
<1>3. RawBacked'
  BY <1>1, <1>2 DEF BackedInv, RawBacked
<1>4. ASSUME NEW d \in Clients, pc'[d] \in Owning
      PROVE  /\ pc'[d] = pc[d] /\ stamp'[d] = stamp[d]
             /\ Path(d)' = Path(d) /\ Text(d)' = Text(d)
             /\ Path(d) # Path(c)
  <2>1. d # c
    BY <1>1, <1>4 DEF Owning
  <2>2. stamp[c] # stamp[d]
    BY <1>1, <1>4, <2>1 DEF Owning, BackedInv, Ownership
  <2> QED
    BY <1>1, <2>1, <2>2 DEF Path, Text
<1>5. Ownership'
  <2>1. ASSUME NEW p \in Paths, files'[p] # Null
        PROVE  p[1] <= clock'
    BY <1>1, <2>1 DEF BackedInv, Ownership
  <2>2. ASSUME NEW d \in Clients, pc'[d] = "commit"
        PROVE  files'[Path(d)'] = Text(d)'
    <3>1. Path(d) \in Paths
      BY <1>4, <2>2, AdmittedType, StorageAssumption
      DEF Owning, Working, Path, Paths, Ticks, Stamped, Named
    <3> QED
      BY <1>1, <1>4, <2>2, <3>1 DEF BackedInv, Ownership, Owning
  <2>3. \A d \in Clients : pc'[d] \in Owning => \A a \in artifacts' : a.path # Path(d)'
    BY <1>1, <1>4 DEF BackedInv, Ownership
  <2>4. \A d, e \in Clients :
           (d # e /\ pc'[d] \in Owning /\ pc'[e] \in Owning) => stamp'[d] # stamp'[e]
    BY <1>1, <1>4 DEF BackedInv, Ownership
  <2> QED
    BY <2>1, <2>2, <2>3, <2>4 DEF Ownership
<1>6. ReindexAlone'
  BY <1>1, BusyNoReindex DEF ReindexAlone, operatorVars
<1> QED
  BY <1>3, <1>5, <1>6 DEF BackedInv

\* reindex gives a row to a file nobody else may remove.
LEMMA BackedImportRows ==
    ASSUME TypeInv, BackedInv, ~CoarseClock, ImportRows, UNCHANGED clientVars
    PROVE  BackedInv'
<1> USE DEF TypeInv, TypeOK, StoreTypeOK, ClientTypeOK
<1>1. /\ AllIdle /\ files[held.path] = held.text
      /\ UNCHANGED <<files, pc>> /\ opc' = "scan"
  BY DEF BackedInv, ReindexAlone, ImportRows, clientVars
<1>2. \A d \in Clients : pc'[d] \notin Owning
  BY <1>1 DEF AllIdle, Owning
<1>3. CASE UNCHANGED <<clock, artifacts, envelopes, pinLog>>
  BY <1>1, <1>2, <1>3 DEF BackedInv, RawBacked, Ownership, ReindexAlone, AllIdle, Owning
<1>4. ASSUME NEW t \in Ticks, Now(t),
             InsertMemory(ImportedArtifact(held), ImportedEnvelope(held, t))
      PROVE  BackedInv'
  <2>1. clock <= clock'
    BY <1>4, StorageAssumption DEF Now, Ticks
  <2>a. /\ artifacts' = artifacts \cup {ImportedArtifact(held)}
        /\ envelopes' = envelopes \cup {ImportedEnvelope(held, t)}
    BY <1>4 DEF InsertMemory
  <2>b. /\ ImportedArtifact(held).path = held.path
        /\ ImportedArtifact(held).sha = held.text
        /\ ImportedArtifact(held).id = ImportedEnvelope(held, t).id
    BY DEF ImportedArtifact, ImportedEnvelope
  <2>2. RawBacked'
    BY <1>1, <2>a, <2>b DEF BackedInv, RawBacked
  <2>3. \A p \in Paths : files'[p] # Null => p[1] <= clock'
    BY <1>1, <1>4, <2>1, StorageAssumption DEF BackedInv, Ownership, Paths, Ticks, Now
  <2>4. Ownership'
    BY <1>2, <2>3 DEF Ownership, Owning
  <2>5. ReindexAlone'
    BY <1>1 DEF ReindexAlone, AllIdle
  <2> QED
    BY <2>2, <2>4, <2>5 DEF BackedInv
<1> QED
  BY <1>3, <1>4 DEF ImportRows

LEMMA BackedClientNext ==
    ASSUME TypeInv, BackedInv, ~CoarseClock, "reindex" \notin LiveCommands,
           NEW c \in Clients, ClientNext(c)
    PROVE  BackedInv'
<1> UNCHANGED operatorVars
  BY DEF ClientNext
<1>0. ASSUME UNCHANGED storeVars, UNCHANGED <<turn, stamp>>,
             \A d \in Clients : pc'[d] \in Owning =>
                 pc[d] \in Owning /\ (pc'[d] = "commit" => pc[d] = "commit"),
             pc[c] # "idle"
      PROVE  BackedInv'
  <2>1. ReindexAlone'
    BY <1>0, BusyNoReindex DEF ReindexAlone, operatorVars
  <2> QED
    BY <1>0, <2>1, BackedFrame DEF storeVars
<1>a. ASSUME UNCHANGED storeVars, Forget(c), pc[c] # "idle"
      PROVE  BackedInv'
  <2>1. ReindexAlone'
    BY <1>a, BusyNoReindex DEF ReindexAlone, operatorVars
  <2> QED
    BY <1>a, <2>1, BackedFrame
    DEF storeVars, Forget, Goto, Owning, TypeInv, TypeOK, ClientTypeOK
<1> USE DEF TypeInv, TypeOK, ClientTypeOK, Reply, Goto, Owning
<1>1. CASE Deduplicate(c) \/ GroupRepeatedError(c) \/ WriteRawFails(c) \/ CommitFails(c)
           \/ StorageFails(c) \/ IngestRaises(c) \/ ListEnvelopes(c)
  BY <1>0, <1>1 DEF Deduplicate, GroupRepeatedError, WriteRawFails, CommitFails,
                    StorageFails, IngestRaises, ListEnvelopes
<1>2. CASE MergeConflicts(c)
  BY <1>0, <1>2 DEF MergeConflicts
<1>3. CASE AppendNext(c)
  <2>1. /\ pc[c] # "idle"
        /\ UNCHANGED <<clock, files, artifacts, envelopes, turn, stamp>>
        /\ pc' = pc \/ pc' = [pc EXCEPT ![c] = "reply"]
    BY <1>3 DEF AppendNext, AppendConflict
  <2>2. ReindexAlone'
    BY <2>1, BusyNoReindex DEF ReindexAlone, operatorVars
  <2> QED
    BY <2>1, <2>2, BackedFrame
<1>4. CASE WriteRaw(c)
  BY <1>4, BackedWriteRaw
<1>5. CASE CommitRows(c)
  BY <1>5, BackedCommitRows
<1>6. CASE UnlinkRaw(c)
  BY <1>6, BackedUnlinkRaw
<1>7. CASE Return(c) \/ Crash(c)
  BY <1>a, <1>7 DEF Return, Crash
<1>8. ASSUME NEW t \in Turns, MayServe, Receive(c, t)
      PROVE  BackedInv'
  <2>1. opc \notin {"scan", "insert"}
    BY <1>8 DEF MayServe, RunningCommand
  <2>2. ReindexAlone'
    BY <2>1 DEF ReindexAlone, operatorVars
  <2>3. /\ UNCHANGED storeVars /\ UNCHANGED stamp
        /\ pc' \in {[pc EXCEPT ![c] = "reply"], [pc EXCEPT ![c] = "dedupe"]}
        /\ turn' = [turn EXCEPT ![c] = t]
    BY <1>8 DEF Receive
  <2> QED
    BY <2>2, <2>3, BackedFrame DEF storeVars
<1> QED
  BY <1>1, <1>2, <1>3, <1>4, <1>5, <1>6, <1>7, <1>8 DEF ClientNext, ClientStep, ClientFault

LEMMA BackedOperatorNext ==
    ASSUME TypeInv, BackedInv, ~CoarseClock, "reindex" \notin LiveCommands, OperatorNext
    PROVE  BackedInv'
<1> UNCHANGED clientVars
  BY DEF OperatorNext
<1>0. ASSUME UNCHANGED <<clock, files, artifacts>>,
             \A e \in envelopes' : \E f \in envelopes : e.id = f.id,
             ReindexAlone'
      PROVE  BackedInv'
  BY <1>0, BackedFrame DEF clientVars, Owning
<1>1. CASE StoreDecision \/ DecideConflict \/ Pin
  <2>1. UNCHANGED <<clock, files, artifacts, envelopes>>
    BY <1>1 DEF StoreDecision, DecideConflict, Pin, AppendPin, AppendConflict, storeVars
  <2>2. opc' \notin {"scan", "insert"}
    BY <1>1 DEF StoreDecision, DecideConflict, Pin, operatorVars
  <2> QED
    BY <1>0, <2>1, <2>2 DEF ReindexAlone
<1>2. CASE Unpin
  <2>1. PICK i \in Ids(envelopes) : SetMemoryPinned(i, FALSE)
    BY <1>2 DEF Unpin
  <2>2. \A e \in envelopes' : \E f \in envelopes : e.id = f.id
    <3>1. \A f \in envelopes : [f EXCEPT !.pinned = FALSE].id = f.id
      BY DEF TypeInv, TypeOK, StoreTypeOK, Envelope
    <3> QED
      BY <2>1, <3>1 DEF SetMemoryPinned
  <2>3. ReindexAlone'
    BY <1>2 DEF Unpin, operatorVars, ReindexAlone
  <2> QED
    BY <1>0, <2>1, <2>2, <2>3 DEF SetMemoryPinned
<1>3. CASE ReadRawFile
  <2>1. /\ opc = "scan" /\ UNCHANGED storeVars
        /\ \/ UNCHANGED <<opc, held>>
           \/ \E p \in todo : held' = [path |-> p, text |-> files[p]]
    BY <1>3 DEF ReadRawFile
  <2>2. ReindexAlone'
    BY <2>1 DEF BackedInv, ReindexAlone, AllIdle, clientVars, storeVars
  <2> QED
    BY <1>0, <2>1, <2>2 DEF storeVars
<1>4. CASE ImportRows
  BY <1>4, BackedImportRows
<1>5. CASE ReindexEnds \/ ImportFails \/ OperatorCrash
  <2>1. /\ UNCHANGED storeVars /\ opc' # "insert"
        /\ opc' = "scan" => opc \in {"scan", "insert"}
    BY <1>5 DEF ReindexEnds, ImportFails, OperatorCrash
  <2>2. ReindexAlone'
    BY <2>1 DEF BackedInv, ReindexAlone, AllIdle, clientVars
  <2> QED
    BY <1>0, <2>1, <2>2 DEF storeVars
<1>6. CASE MayRun("reindex") /\ ListRawTree
  <2>1. AllIdle /\ UNCHANGED storeVars /\ opc' = "scan"
    BY <1>6 DEF MayRun, ListRawTree
  <2>2. ReindexAlone'
    BY <2>1 DEF ReindexAlone, AllIdle, clientVars
  <2> QED
    BY <1>0, <2>1, <2>2 DEF storeVars
<1> QED
  BY <1>1, <1>2, <1>3, <1>4, <1>5, <1>6 DEF OperatorNext, OperatorStep, OperatorFault

LEMMA BackedNext ==
    ASSUME ~CoarseClock, "reindex" \notin LiveCommands
    PROVE  TypeInv /\ BackedInv /\ [Next]_vars => BackedInv'
<1> SUFFICES ASSUME TypeInv, BackedInv, [Next]_vars PROVE BackedInv'
  OBVIOUS
<1>1. CASE UNCHANGED vars
  <2>1. ReindexAlone'
    BY <1>1 DEF vars, storeVars, clientVars, operatorVars, BackedInv, ReindexAlone, AllIdle
  <2> QED
    BY <1>1, <2>1, BackedFrame DEF vars, storeVars, clientVars
<1> QED
  BY <1>1, BackedClientNext, BackedOperatorNext DEF Next, Finished

\* No row ever loses its raw file, whatever the clients interleave, whichever
\* transaction rolls back and wherever a process dies, provided clock readings
\* differ and reindex only runs while the clients are stopped.
THEOREM RawAlwaysBacked ==
    ASSUME ~CoarseClock, "reindex" \notin LiveCommands
    PROVE  Spec => []RawBacked
<1>1. TypeInv /\ BackedInv /\ [Next]_vars => BackedInv'
  BY BackedNext
<1>2. Spec => [](TypeInv /\ BackedInv)
  BY <1>1, TypeInvInit, TypeInvNext, BackedInit, PTL DEF Spec
<1>3. BackedInv => RawBacked
  BY DEF BackedInv
<1> QED
  BY <1>2, <1>3, PTL

-----------------------------------------------------------------------------
(* The effective winner follows the precedence rules                       *)

\* A record the operator did not sign is what Choose says of some set of stored
\* memories, perhaps of fewer than there are now.
SoundRecord(rec, k, E) ==
    (rec # Null /\ rec.actor # "operator") =>
        \E G \in SUBSET Group(E, k) :
            rec.cands = Ids(G) /\ rec.winner = Choose(G).winner

UniqueIds(E) == \A e, f \in E : e.id = f.id => e = f

\* Records and half finished syncs may be stale, but every one of them was
\* sound of an earlier, smaller set of the memories that are still there.
SoundInv ==
    /\ UniqueIds(envelopes)
    /\ \A k \in Keys : SoundRecord(conflicts[k], k, envelopes)
    /\ \A c \in Clients, k \in Keys : SoundRecord(pending[c][k], k, envelopes)
    /\ \A c \in Clients : snapshot[c] \subseteq envelopes
    /\ opc = "resolve" => decision.rec.actor = "operator"

LEMMA SoundGrows ==
    ASSUME NEW rec, NEW k, NEW E, NEW F, E \subseteq F, SoundRecord(rec, k, E)
    PROVE  SoundRecord(rec, k, F)
<1> Group(E, k) \subseteq Group(F, k)
  BY DEF Group
<1> QED
  BY DEF SoundRecord

LEMMA SoundFresh ==
    ASSUME NEW k, NEW E, NEW F, E \subseteq F
    PROVE  SoundRecord(Fresh(Group(E, k)), k, F)
<1> Group(E, k) \subseteq Group(F, k)
  BY DEF Group
<1> QED
  BY DEF SoundRecord, Fresh

LEMMA SoundDetect ==
    ASSUME NEW k \in Keys, NEW E, NEW F, E \subseteq F, NEW stored,
           SoundRecord(stored[k], k, F)
    PROVE  SoundRecord(Detect(E, stored)[k], k, F)
<1>1. CASE Detect(E, stored)[k] = Null
  BY <1>1 DEF SoundRecord
<1>2. CASE Detect(E, stored)[k] = stored[k]
  BY <1>2
<1>3. CASE Detect(E, stored)[k] = Fresh(Group(E, k))
  BY <1>3, SoundFresh
<1> QED
  BY <1>1, <1>2, <1>3, DetectCases

\* Two sets of stored memories with the same ids are the same set.
LEMMA SameIdsSameSet ==
    ASSUME NEW E, UniqueIds(E), NEW G, NEW H, G \subseteq E, H \subseteq E, Ids(G) = Ids(H)
    PROVE  G = H
<1>1. ASSUME NEW X, NEW Y, X \subseteq E, Y \subseteq E, Ids(X) = Ids(Y), NEW e \in X
      PROVE  e \in Y
  <2>1. PICK f \in Y : f.id = e.id
    BY <1>1 DEF Ids
  <2> QED
    BY <1>1, <2>1 DEF UniqueIds
<1> QED
  BY <1>1

\* A stale record is ignored, one that fits the group is right.
LEMMA SoundEffective ==
    ASSUME SoundInv
    PROVE  EffectiveFollowsPrecedence
<1> SUFFICES ASSUME NEW k \in Keys, IsMany(Group(envelopes, k))
             PROVE  \/ Effective[k].winner = Choose(Group(envelopes, k)).winner
                    \/ /\ Effective[k].actor = "operator"
                       /\ Effective[k].cands = Ids(Group(envelopes, k))
  BY DEF EffectiveFollowsPrecedence
<1> DEFINE G == Group(envelopes, k)
<1>1. CASE Keeps(conflicts[k], G)
  <2>1. Effective[k] = conflicts[k] /\ conflicts[k] # Null /\ conflicts[k].cands = Ids(G)
    BY <1>1 DEF Effective, Detect, Keeps
  <2>2. CASE conflicts[k].actor = "operator"
    BY <2>1, <2>2
  <2>3. CASE conflicts[k].actor # "operator"
    <3>1. PICK H \in SUBSET G : conflicts[k].cands = Ids(H)
                                /\ conflicts[k].winner = Choose(H).winner
      BY <2>1, <2>3 DEF SoundInv, SoundRecord
    <3>2. H = G
      <4>1. G \subseteq envelopes
        BY DEF Group
      <4> QED
        BY <2>1, <3>1, <4>1, SameIdsSameSet DEF SoundInv
    <3> QED
      BY <2>1, <3>1, <3>2
  <2> QED
    BY <2>2, <2>3
<1>2. CASE ~Keeps(conflicts[k], G)
  BY <1>2 DEF Effective, Detect, Fresh
<1> QED
  BY <1>1, <1>2

LEMMA SoundInit == Init => SoundInv
  BY DEF Init, StoreInit, ClientInit, OperatorInit, SoundInv, SoundRecord, UniqueIds,
         NothingPending

\* A step that keeps the envelopes, or adds to them under a fresh id, and writes
\* no record preserves the invariant.
LEMMA SoundFrame ==
    ASSUME SoundInv, envelopes \subseteq envelopes', UniqueIds(envelopes)',
           UNCHANGED <<conflicts, decision>>,
           \A c \in Clients, k \in Keys : pending'[c][k] \in {pending[c][k], Null},
           \A c \in Clients : snapshot'[c] \subseteq envelopes',
           opc' = "resolve" => opc = "resolve"
    PROVE  SoundInv'
<1>1. \A k \in Keys : SoundRecord(conflicts[k], k, envelopes)'
  BY SoundGrows DEF SoundInv
<1>2. ASSUME NEW c \in Clients, NEW k \in Keys
      PROVE  SoundRecord(pending[c][k], k, envelopes)'
  <2>1. CASE pending'[c][k] = Null
    BY <2>1 DEF SoundRecord
  <2>2. CASE pending'[c][k] = pending[c][k]
    BY <2>2, SoundGrows DEF SoundInv
  <2> QED
    BY <2>1, <2>2
<1> QED
  BY <1>1, <1>2 DEF SoundInv

\* A row enters the table only under a free key.
LEMMA SoundInsert ==
    ASSUME SoundInv, NEW a, NEW e, a.id = e.id, InsertMemory(a, e)
    PROVE  envelopes \subseteq envelopes' /\ UniqueIds(envelopes)'
  BY DEF InsertMemory, KeysFree, SoundInv, UniqueIds

LEMMA SoundClientNext ==
    ASSUME TypeInv, SoundInv, NEW c \in Clients, ClientNext(c)
    PROVE  SoundInv'
<1> UNCHANGED operatorVars
  BY DEF ClientNext
<1> USE DEF TypeInv, TypeOK, ClientTypeOK
<1>0. ASSUME UNCHANGED <<envelopes, conflicts, pending, snapshot>>
      PROVE  SoundInv'
  BY <1>0, SoundFrame DEF SoundInv, operatorVars
<1>1. CASE Deduplicate(c) \/ GroupRepeatedError(c) \/ WriteRawFails(c) \/ CommitFails(c)
           \/ StorageFails(c) \/ IngestRaises(c) \/ WriteRaw(c) \/ UnlinkRaw(c)
           \/ \E t \in Turns : Receive(c, t)
  BY <1>0, <1>1 DEF Deduplicate, GroupRepeatedError, WriteRawFails, CommitFails, StorageFails,
                    IngestRaises, WriteRaw, UnlinkRaw, Receive, storeVars
<1>2. CASE CommitRows(c)
  <2>1. NewArtifact(c).id = NewEnvelope(c).id
    BY DEF NewArtifact, NewEnvelope
  <2>2. envelopes \subseteq envelopes' /\ UniqueIds(envelopes)'
    BY <1>2, <2>1, SoundInsert DEF CommitRows
  <2>3. UNCHANGED <<conflicts, pending, snapshot>>
    BY <1>2 DEF CommitRows
  <2> QED
    BY <2>2, <2>3, SoundFrame DEF SoundInv, operatorVars
<1>3. CASE ListEnvelopes(c)
  <2>1. UNCHANGED <<envelopes, conflicts, pending>>
        /\ snapshot' = [snapshot EXCEPT ![c] = envelopes]
    BY <1>3 DEF ListEnvelopes, storeVars
  <2> QED
    BY <2>1, SoundFrame DEF SoundInv, operatorVars
<1>4. CASE MergeConflicts(c)
  <2>1. /\ UNCHANGED <<envelopes, conflicts>>
        /\ pending' = [pending EXCEPT ![c] = Detect(snapshot[c], conflicts)]
        /\ snapshot' = [snapshot EXCEPT ![c] = {}]
    BY <1>4 DEF MergeConflicts, storeVars
  <2>2. ASSUME NEW d \in Clients, NEW k \in Keys
        PROVE  SoundRecord(pending[d][k], k, envelopes)'
    <3>1. CASE d = c
      BY <2>1, <3>1, SoundDetect DEF SoundInv
    <3>2. CASE d # c
      BY <2>1, <3>2 DEF SoundInv
    <3> QED
      BY <3>1, <3>2
  <2>3. \A d \in Clients : snapshot'[d] \subseteq envelopes'
    BY <2>1 DEF SoundInv
  <2> QED
    BY <2>1, <2>2, <2>3 DEF SoundInv, operatorVars
<1>5. CASE AppendNext(c)
  <2>1. PICK k \in Keys : /\ AppendConflict(k, pending[c][k])
                          /\ pending' = [pending EXCEPT ![c][k] = Null]
    BY <1>5 DEF AppendNext
  <2>2. /\ UNCHANGED <<envelopes, snapshot>>
        /\ conflicts' = [conflicts EXCEPT ![k] = pending[c][k]]
    BY <1>5, <2>1 DEF AppendNext, AppendConflict
  <2>3. \A j \in Keys : conflicts'[j] \in {conflicts[j], pending[c][j]}
    BY <2>2 DEF StoreTypeOK
  <2>4. \A j \in Keys : SoundRecord(conflicts[j], j, envelopes)'
    BY <2>2, <2>3 DEF SoundInv
  <2>5. \A d \in Clients, j \in Keys : pending'[d][j] \in {pending[d][j], Null}
    BY <2>1
  <2>6. ASSUME NEW d \in Clients, NEW j \in Keys
        PROVE  SoundRecord(pending[d][j], j, envelopes)'
    <3>1. CASE pending'[d][j] = Null
      BY <3>1 DEF SoundRecord
    <3>2. CASE pending'[d][j] = pending[d][j]
      <4>1. SoundRecord(pending[d][j], j, envelopes)
        BY DEF SoundInv
      <4> QED
        BY <2>2, <3>2, <4>1 DEF SoundRecord
    <3> QED
      BY <2>5, <3>1, <3>2
  <2> QED
    BY <2>2, <2>4, <2>6 DEF SoundInv, operatorVars
<1>6. CASE Return(c) \/ Crash(c)
  <2>1. /\ UNCHANGED <<envelopes, conflicts>>
        /\ pending' = [pending EXCEPT ![c] = NothingPending]
        /\ snapshot' = [snapshot EXCEPT ![c] = {}]
    BY <1>6 DEF Return, Crash, Forget, storeVars
  <2>2. \A d \in Clients, k \in Keys : pending'[d][k] \in {pending[d][k], Null}
    BY <2>1 DEF NothingPending
  <2> QED
    BY <2>1, <2>2, SoundFrame DEF SoundInv, operatorVars
<1> QED
  BY <1>1, <1>2, <1>3, <1>4, <1>5, <1>6 DEF ClientNext, ClientStep, ClientFault

LEMMA SoundOperatorNext ==
    ASSUME TypeInv, SoundInv, "unpin" \notin Commands, OperatorNext
    PROVE  SoundInv'
<1> UNCHANGED clientVars
  BY DEF OperatorNext
<1>0. ASSUME UNCHANGED <<envelopes, conflicts, decision>>, opc' = "resolve" => opc = "resolve"
      PROVE  SoundInv'
  BY <1>0, SoundFrame DEF SoundInv, clientVars
<1>1. CASE StoreDecision
  <2>1. /\ UNCHANGED envelopes /\ opc = "resolve" /\ opc' = "idle"
        /\ conflicts' = [conflicts EXCEPT ![decision.key] = decision.rec]
    BY <1>1 DEF StoreDecision, AppendConflict
  <2>2. decision.rec.actor = "operator"
    BY <2>1 DEF SoundInv
  <2>3. \A k \in Keys : conflicts'[k] \in {conflicts[k], decision.rec}
    BY <2>1 DEF TypeInv, TypeOK, StoreTypeOK
  <2>4. ASSUME NEW k \in Keys
        PROVE  SoundRecord(conflicts[k], k, envelopes)'
    <3>1. CASE conflicts'[k] = decision.rec
      BY <2>2, <3>1 DEF SoundRecord
    <3>2. CASE conflicts'[k] = conflicts[k]
      BY <2>1, <3>2 DEF SoundInv
    <3> QED
      BY <2>3, <3>1, <3>2
  <2> QED
    BY <2>1, <2>4 DEF SoundInv, clientVars
<1>2. CASE DecideConflict
  BY <1>2 DEF DecideConflict, Resolved, SoundInv, clientVars, storeVars
<1>3. CASE ImportRows
  <2>1. UNCHANGED <<conflicts, decision>> /\ opc' = "scan"
    BY <1>3 DEF ImportRows
  <2>2. CASE UNCHANGED envelopes
    BY <2>1, <2>2, <1>0
  <2>3. ASSUME NEW t \in Ticks,
               InsertMemory(ImportedArtifact(held), ImportedEnvelope(held, t))
        PROVE  SoundInv'
    <3>1. ImportedArtifact(held).id = ImportedEnvelope(held, t).id
      BY DEF ImportedArtifact, ImportedEnvelope
    <3>2. envelopes \subseteq envelopes' /\ UniqueIds(envelopes)'
      BY <2>3, <3>1, SoundInsert
    <3> QED
      BY <2>1, <3>2, SoundFrame DEF SoundInv, clientVars
  <2> QED
    BY <1>3, <2>2, <2>3 DEF ImportRows
<1>4. CASE ReadRawFile \/ ReindexEnds \/ ImportFails \/ Pin \/ ListRawTree
  BY <1>0, <1>4 DEF ReadRawFile, ReindexEnds, ImportFails, Pin, AppendPin, ListRawTree,
                    storeVars, operatorVars
<1>5. CASE OperatorCrash
  BY <1>5 DEF OperatorCrash, storeVars, clientVars, SoundInv
<1> QED
  BY <1>1, <1>2, <1>3, <1>4, <1>5 DEF OperatorNext, OperatorStep, OperatorFault, MayRun

LEMMA SoundNext ==
    ASSUME "unpin" \notin Commands
    PROVE  TypeInv /\ SoundInv /\ [Next]_vars => SoundInv'
<1> SUFFICES ASSUME TypeInv, SoundInv, [Next]_vars PROVE SoundInv'
  OBVIOUS
<1>1. CASE UNCHANGED vars
  BY <1>1 DEF vars, storeVars, clientVars, operatorVars, SoundInv
<1> QED
  BY <1>1, SoundClientNext, SoundOperatorNext DEF Next, Finished

\* Without unpin, retrieval never takes another winner than the one the
\* precedence rules choose from the memories stored at that moment or the one
\* the operator chose among exactly these: lost and reordered syncs, crashes in
\* the middle of one and stale records cannot change it.
THEOREM EffectiveAlwaysFollowsPrecedence ==
    ASSUME "unpin" \notin Commands
    PROVE  Spec => []EffectiveFollowsPrecedence
<1>1. TypeInv /\ SoundInv /\ [Next]_vars => SoundInv'
  BY SoundNext
<1>2. Spec => [](TypeInv /\ SoundInv)
  BY <1>1, TypeInvInit, TypeInvNext, SoundInit, PTL DEF Spec
<1>3. SoundInv => EffectiveFollowsPrecedence
  BY SoundEffective
<1> QED
  BY <1>2, <1>3, PTL

-----------------------------------------------------------------------------
(* The store is a ledger                                                   *)

UniqueRows == \A a, b \in artifacts : a.id = b.id => a = b

LEMMA RowsInit == Init => UniqueRows
  BY DEF Init, StoreInit, UniqueRows

\* What a step does to the tables: nothing, an insertion under a free key, or a
\* change of a flag.
LEMMA TableSteps ==
    ASSUME TypeInv, [Next]_vars
    PROVE  \/ artifacts' = artifacts /\ Ids(envelopes)' = Ids(envelopes)
           \/ \E a, e : /\ a.id = e.id /\ KeysFree(a.id) /\ a.id \in AllIds
                        /\ artifacts' = artifacts \cup {a}
                        /\ envelopes' = envelopes \cup {e}
<1>1. ASSUME NEW c \in Clients, CommitRows(c)
      PROVE  \E a, e : /\ a.id = e.id /\ KeysFree(a.id) /\ a.id \in AllIds
                       /\ artifacts' = artifacts \cup {a}
                       /\ envelopes' = envelopes \cup {e}
  <2>1. NewArtifact(c).id = NewEnvelope(c).id
    BY DEF NewArtifact, NewEnvelope
  <2>2. NewArtifact(c).id \in AllIds
    BY <1>1, RowTypes DEF CommitRows, Artifact
  <2>3. /\ KeysFree(NewArtifact(c).id)
        /\ artifacts' = artifacts \cup {NewArtifact(c)}
        /\ envelopes' = envelopes \cup {NewEnvelope(c)}
    BY <1>1 DEF CommitRows, InsertMemory
  <2> QED
    BY <2>1, <2>2, <2>3
<1>2. ASSUME NEW c \in Clients, ClientNext(c), ~CommitRows(c)
      PROVE  artifacts' = artifacts /\ envelopes' = envelopes
  BY <1>2 DEF ClientNext, ClientStep, ClientFault, Deduplicate, GroupRepeatedError, WriteRaw,
              CommitFails, UnlinkRaw, ListEnvelopes, MergeConflicts, AppendNext, AppendConflict,
              Return, Crash, StorageFails, WriteRawFails, IngestRaises, Receive, storeVars
<1>3. ASSUME ImportRows
      PROVE  \/ artifacts' = artifacts /\ envelopes' = envelopes
             \/ \E a, e : /\ a.id = e.id /\ KeysFree(a.id) /\ a.id \in AllIds
                          /\ artifacts' = artifacts \cup {a}
                          /\ envelopes' = envelopes \cup {e}
  <2>1. ASSUME NEW t \in Ticks,
               InsertMemory(ImportedArtifact(held), ImportedEnvelope(held, t))
        PROVE  \E a, e : /\ a.id = e.id /\ KeysFree(a.id) /\ a.id \in AllIds
                         /\ artifacts' = artifacts \cup {a}
                         /\ envelopes' = envelopes \cup {e}
    <3>1. ImportedArtifact(held).id = ImportedEnvelope(held, t).id
      BY DEF ImportedArtifact, ImportedEnvelope
    <3>2. ImportedArtifact(held).id \in AllIds
      BY <1>3, ParsedType DEF ImportedArtifact, ImportRows, TypeInv, CommandHolds
    <3>3. /\ KeysFree(ImportedArtifact(held).id)
          /\ artifacts' = artifacts \cup {ImportedArtifact(held)}
          /\ envelopes' = envelopes \cup {ImportedEnvelope(held, t)}
      BY <2>1 DEF InsertMemory
    <3> QED
      BY <3>1, <3>2, <3>3
  <2> QED
    BY <1>3, <2>1 DEF ImportRows
<1>4. ASSUME Unpin
      PROVE  artifacts' = artifacts /\ Ids(envelopes)' = Ids(envelopes)
  <2>1. PICK i \in Ids(envelopes) : SetMemoryPinned(i, FALSE)
    BY <1>4 DEF Unpin
  <2>2. \A e \in envelopes : [e EXCEPT !.pinned = FALSE].id = e.id
    BY DEF TypeInv, TypeOK, StoreTypeOK, Envelope
  <2> QED
    BY <2>1, <2>2 DEF SetMemoryPinned, Ids
<1>5. ASSUME OperatorNext, ~ImportRows, ~Unpin
      PROVE  artifacts' = artifacts /\ envelopes' = envelopes
  BY <1>5 DEF OperatorNext, OperatorStep, OperatorFault, StoreDecision, AppendConflict,
              ReadRawFile, ReindexEnds, ImportFails, OperatorCrash, Pin, AppendPin,
              DecideConflict, ListRawTree, storeVars
<1>6. ASSUME UNCHANGED vars
      PROVE  artifacts' = artifacts /\ envelopes' = envelopes
  BY <1>6 DEF vars, storeVars
<1> QED
  BY <1>1, <1>2, <1>3, <1>4, <1>5, <1>6 DEF Next, Finished, Ids

LEMMA RowsNext == TypeInv /\ UniqueRows /\ [Next]_vars => UniqueRows'
  BY TableSteps DEF UniqueRows, KeysFree

\* The text of a memory is the hash its row was stored with, hence fixed.
TextsFixed == \A a \in artifacts : ReadArtifactText(a.id) = a.sha

LEMMA BackedTexts == RawBacked /\ UniqueRows => TextsFixed
<1> SUFFICES ASSUME RawBacked, UniqueRows, NEW a \in artifacts
             PROVE  ReadArtifactText(a.id) = a.sha
  BY DEF TextsFixed
<1> DEFINE A == {b \in artifacts : b.id = a.id}
<1>1. A = {a}
  BY DEF UniqueRows
<1>2. (CHOOSE b \in A : TRUE) = a
  BY <1>1
<1> QED
  BY <1>1, <1>2 DEF ReadArtifactText, RawBacked

MemoriesOf(I) == {[id |-> i, text |-> ReadArtifactText(i)] : i \in I}

LEMMA LedgerInit == Init => Ledger!Init
  BY DEF Init, StoreInit, Ledger!Init

LEMMA LedgerStep ==
    ASSUME TypeInv, TypeInv', RawBacked, TextsFixed, TextsFixed', [Next]_vars
    PROVE  [Ledger!Next]_({[id |-> e.id, text |-> ReadArtifactText(e.id)] : e \in envelopes})
<1> DEFINE M == {[id |-> e.id, text |-> ReadArtifactText(e.id)] : e \in envelopes}
<1>1. M = MemoriesOf(Ids(envelopes)) /\ M' = MemoriesOf(Ids(envelopes))'
  BY DEF MemoriesOf, Ids
<1>2. artifacts \subseteq artifacts'
  BY TableSteps
<1>3. ASSUME NEW i \in Ids(envelopes)
      PROVE  ReadArtifactText(i)' = ReadArtifactText(i)
  <2>1. PICK a \in artifacts : a.id = i
    BY DEF RawBacked, Ids
  <2>2. ReadArtifactText(a.id) = a.sha
    BY DEF TextsFixed
  <2>3. ReadArtifactText(a.id)' = a.sha
    BY <1>2 DEF TextsFixed
  <2> QED
    BY <2>1, <2>2, <2>3
<1>4. CASE Ids(envelopes)' = Ids(envelopes)
  <2>1. M' = M
    BY <1>1, <1>3, <1>4 DEF MemoriesOf
  <2> QED
    BY <2>1
<1>5. ASSUME NEW a, NEW e, a.id = e.id, KeysFree(a.id), a.id \in AllIds,
             artifacts' = artifacts \cup {a}, envelopes' = envelopes \cup {e}
      PROVE  Ledger!Next
  <2>1. Ids(envelopes)' = Ids(envelopes) \cup {a.id}
    BY <1>5 DEF Ids
  <2>2. ReadArtifactText(a.id)' = a.sha
    BY <1>5 DEF TextsFixed
  <2>3. a.sha \in Texts
    BY <1>5 DEF TypeInv, TypeOK, StoreTypeOK, Artifact
  <2>4. M' = M \cup {[id |-> a.id, text |-> a.sha]}
    BY <1>1, <1>3, <2>1, <2>2 DEF MemoriesOf
  <2>5. a.id \notin {m.id : m \in M}
    BY <1>5 DEF KeysFree
  <2>6. Ledger!Remember(a.id, a.sha)
    BY <2>4, <2>5 DEF Ledger!Remember, Ledger!Names
  <2> QED
    BY <1>5, <2>3, <2>6 DEF Ledger!Next
<1> QED
  BY <1>4, <1>5, TableSteps

\* Every behaviour of the palace is one of the ledger: to its users a memory
\* appears whole, under a new name, and neither it nor its text ever changes.
THEOREM StoreIsLedger ==
    ASSUME ~CoarseClock, "reindex" \notin LiveCommands
    PROVE  Spec => LedgerSpec
<1>1. TypeInv /\ BackedInv /\ [Next]_vars => BackedInv'
  BY BackedNext
<1>2. BackedInv => RawBacked
  BY DEF BackedInv
<1>3. Spec => [](TypeInv /\ RawBacked /\ TextsFixed)
  BY <1>1, <1>2, TypeInvInit, TypeInvNext, BackedInit, RowsInit, RowsNext, BackedTexts, PTL
  DEF Spec
<1>4. TypeInv /\ TypeInv' /\ RawBacked /\ TextsFixed /\ TextsFixed' /\ [Next]_vars
        => [Ledger!Next]_({[id |-> e.id, text |-> ReadArtifactText(e.id)] : e \in envelopes})
  BY LedgerStep
<1> QED
  BY <1>3, <1>4, LedgerInit, PTL DEF Spec, LedgerSpec, Ledger!Spec
=============================================================================
