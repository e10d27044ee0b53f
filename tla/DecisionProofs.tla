---------------------------- MODULE DecisionProofs -----------------------------
(***************************************************************************)
(* What the conflict table says after syncs that interleave, fail and      *)
(* crash: the operator's decision stays in force, and a host that gets its *)
(* answer leaves the table in step with the memories.                      *)
(***************************************************************************)
EXTENDS IngestProofs

LEMMA PinsKeepIds ==
    ASSUME PinsMoved, NEW k
    PROVE  Ids(Group(envelopes', k)) = Ids(Group(envelopes, k))
<1>1. ASSUME NEW i \in Ids(Group(envelopes, k)) PROVE i \in Ids(Group(envelopes', k))
  BY DEF PinsMoved, SameMemory, Ids, Group
<1>2. ASSUME NEW i \in Ids(Group(envelopes', k)) PROVE i \in Ids(Group(envelopes, k))
  BY DEF PinsMoved, SameMemory, Ids, Group
<1>3. QED  BY <1>1, <1>2

\* A step leaves the candidates of a key alone or adds one nobody knew.
LEMMA GroupSteps ==
    ASSUME TypeInv, [Next]_vars, NEW k \in Keys
    PROVE  \/ Ids(Group(envelopes', k)) = Ids(Group(envelopes, k))
           \/ \E i : /\ i \notin Ids(envelopes)
                     /\ Ids(Group(envelopes', k)) = Ids(Group(envelopes, k)) \cup {i}
<1>1. ASSUME NEW e, envelopes' = envelopes \cup {e}, KeysFree(e.id)
      PROVE  \/ Ids(Group(envelopes', k)) = Ids(Group(envelopes, k))
             \/ \E i : /\ i \notin Ids(envelopes)
                       /\ Ids(Group(envelopes', k)) = Ids(Group(envelopes, k)) \cup {i}
  <2>1. e.id \notin Ids(envelopes)
    BY <1>1 DEF KeysFree, Ids
  <2>2. CASE e.key = k
    <3>1. Group(envelopes', k) = Group(envelopes, k) \cup {e}
      BY <1>1, <2>2 DEF Group
    <3>2. Ids(Group(envelopes', k)) = Ids(Group(envelopes, k)) \cup {e.id}
      BY <3>1 DEF Ids
    <3>3. QED  BY <2>1, <3>2
  <2>3. CASE e.key # k
    <3>1. Group(envelopes', k) = Group(envelopes, k)
      BY <1>1, <2>3 DEF Group
    <3>2. QED  BY <3>1
  <2>4. QED  BY <2>2, <2>3
<1>2. QED  BY <1>1, PinsKeepIds, EnvelopeSteps DEF Recorded, Imported

-----------------------------------------------------------------------------
(* The operator's decision                                                 *)

Signed(r) == r # Null /\ r.actor = "operator"

\* The records of a key, stored or about to be stored by a sync.
Records(k) == {conflicts[k]} \cup {pending[c][k] : c \in Clients}

\* A decision names a winner among the memories that are there.
RealDecision(r, k) ==
    /\ r.winner # Null /\ r.status # "unresolved"
    /\ r.cands \subseteq Ids(Group(envelopes, k))

\* A sync that began after a decision has listed all its candidates.
ListedAll(r, k) ==
    \A c \in Clients : pc[c] = "merge" => r.cands \subseteq Ids(Group(snapshot[c], k))

\* While a decision is over all that is there, no sync holds anything else.
Undisputed(k) ==
    \A r \in Records(k) : (Signed(r) /\ r.cands = Ids(Group(envelopes, k))) =>
        conflicts[k] = r /\ Records(k) \subseteq {Null, r}

\* A key's records: what the sticking of a decision rests on.
KeyInv(k) ==
    /\ \A r \in Records(k) : Signed(r) => RealDecision(r, k) /\ ListedAll(r, k)
    /\ Undisputed(k)
    /\ \A c \in Clients : Ids(Group(snapshot[c], k)) \subseteq Ids(Group(envelopes, k))

\* resolve-conflict only runs while the hosts are stopped, and a stopped host holds
\* no records.
CommandInv ==
    /\ opc = "resolve" => AllIdle /\ RealDecision(decision.rec, decision.key)
    /\ \A c \in Clients : pc[c] = "idle" => pending[c] = NothingPending

DecisionInv == CommandInv /\ \A k \in Keys : KeyInv(k)

LEMMA RealStays ==
    ASSUME TypeInv, [Next]_vars, NEW k \in Keys, NEW r, RealDecision(r, k)
    PROVE  RealDecision(r, k)'
<1>1. Ids(Group(envelopes, k)) \subseteq Ids(Group(envelopes', k))
  BY GroupSteps
<1>2. QED  BY <1>1 DEF RealDecision

\* Neither writing nor reading records disturbs them.
LEMMA KeyFrame ==
    ASSUME TypeInv, [Next]_vars, NEW k \in Keys, KeyInv(k),
           conflicts'[k] = conflicts[k],
           \A c \in Clients : /\ pending'[c][k] \in {pending[c][k], Null}
                              /\ snapshot'[c] \in {snapshot[c], {}}
                              /\ pc'[c] = "merge" => pc[c] = "merge" /\ snapshot'[c] = snapshot[c]
    PROVE  KeyInv(k)'
<1>1. \A r \in Records(k)' : r = Null \/ r \in Records(k)
  BY DEF Records
<1>2. ASSUME NEW r \in Records(k)', Signed(r)
      PROVE  r \in Records(k) /\ RealDecision(r, k)' /\ ListedAll(r, k)'
  <2>1. r \in Records(k)
    BY <1>1, <1>2 DEF Signed
  <2>2. RealDecision(r, k) /\ ListedAll(r, k)
    BY <1>2, <2>1 DEF KeyInv
  <2>3. QED  BY <2>1, <2>2, RealStays DEF ListedAll
<1>3. Undisputed(k)'
  <2> SUFFICES ASSUME NEW r \in Records(k)', Signed(r), r.cands = Ids(Group(envelopes', k))
               PROVE  conflicts'[k] = r /\ Records(k)' \subseteq {Null, r}
    BY DEF Undisputed, Signed
  <2>1. r \in Records(k) /\ r.cands \subseteq Ids(Group(envelopes, k))
    BY <1>2 DEF KeyInv, RealDecision
  <2>2. Ids(Group(envelopes, k)) \subseteq Ids(envelopes)
    BY DEF Ids, Group
  <2>3. r.cands = Ids(Group(envelopes, k))
    BY <2>1, <2>2, GroupSteps
  <2>4. conflicts[k] = r /\ Records(k) \subseteq {Null, r}
    BY <2>1, <2>3 DEF KeyInv, Undisputed
  <2>5. QED  BY <1>1, <2>4
<1>4. \A c \in Clients : Ids(Group(snapshot'[c], k)) \subseteq Ids(Group(envelopes', k))
  <2>1. Ids(Group({}, k)) = {}
    BY DEF Ids, Group
  <2>2. QED  BY <2>1, GroupSteps DEF KeyInv
<1>5. QED  BY <1>2, <1>3, <1>4 DEF KeyInv, Signed
\* The sync meets a decision that stands: it keeps it.
LEMMA MergeKeeps ==
    ASSUME NEW c \in Clients, NEW k \in Keys, KeyInv(k), pc[c] = "merge",
           NEW r \in Records(k), Signed(r), r.cands = Ids(Group(envelopes, k))
    PROVE  Detect(snapshot[c], conflicts)[k] \in {Null, r}
<1>1. conflicts[k] = r /\ RealDecision(r, k) /\ ListedAll(r, k)
  BY DEF KeyInv, Undisputed
<1>2. r.cands = Ids(Group(snapshot[c], k))
  BY <1>1 DEF KeyInv, ListedAll
<1>3. Keeps(conflicts[k], Group(snapshot[c], k))
  BY <1>1, <1>2 DEF Keeps, RealDecision, Signed
<1>4. QED  BY <1>1, <1>3 DEF Detect

LEMMA KeyInvMerge ==
    ASSUME TypeInv, NEW c \in Clients, MergeConflicts(c), NEW k \in Keys, KeyInv(k)
    PROVE  KeyInv(k)'
<1> USE DEF TypeInv, TypeOK, ClientTypeOK
<1> DEFINE found == Detect(snapshot[c], conflicts)[k]
<1>1. /\ pc[c] = "merge" /\ UNCHANGED <<conflicts, envelopes>>
      /\ pending' = [pending EXCEPT ![c] = Detect(snapshot[c], conflicts)]
      /\ snapshot' = [snapshot EXCEPT ![c] = {}]
      /\ pc' \in {[pc EXCEPT ![c] = "reply"], [pc EXCEPT ![c] = "append"]}
  BY DEF MergeConflicts, Reply, Goto, storeVars
<1>2. \A d \in Clients : pending'[d][k] = IF d = c THEN found ELSE pending[d][k]
  BY <1>1
<1>3. ~Signed(Fresh(Group(snapshot[c], k)))
  BY NullAssumption DEF Signed, Fresh
<1>4. found \in {Null, conflicts[k], Fresh(Group(snapshot[c], k))}
  BY DetectCases
<1> HIDE DEF found
<1>5. \A r \in Records(k)' : r \in Records(k) \cup {found}
  BY <1>1, <1>2 DEF Records
<1>6. ASSUME NEW r \in Records(k)', Signed(r)
      PROVE  r \in Records(k)
  BY <1>3, <1>4, <1>5, <1>6 DEF Records, Signed
<1>7. \A d \in Clients : pc'[d] = "merge" => pc[d] = "merge" /\ snapshot'[d] = snapshot[d]
  BY <1>1
<1>8. \A r \in Records(k)' : Signed(r) => RealDecision(r, k)' /\ ListedAll(r, k)'
  BY <1>1, <1>6, <1>7 DEF KeyInv, RealDecision, ListedAll
<1>9. Undisputed(k)'
  <2> SUFFICES ASSUME NEW r \in Records(k)', Signed(r), r.cands = Ids(Group(envelopes, k))
               PROVE  conflicts[k] = r /\ Records(k)' \subseteq {Null, r}
    BY <1>1 DEF Undisputed, Signed
  <2>1. r \in Records(k)
    BY <1>6
  <2>2. found \in {Null, r}
    BY <1>1, <2>1, MergeKeeps DEF found
  <2>3. QED  BY <1>5, <2>1, <2>2 DEF KeyInv, Undisputed
<1>10. \A d \in Clients : Ids(Group(snapshot'[d], k)) \subseteq Ids(Group(envelopes', k))
  <2>1. Ids(Group({}, k)) = {}
    BY DEF Ids, Group
  <2>2. QED  BY <1>1, <2>1 DEF KeyInv
<1>11. QED  BY <1>8, <1>9, <1>10 DEF KeyInv, Signed

LEMMA KeyInvAppend ==
    ASSUME TypeInv, NEW c \in Clients, AppendNext(c), NEW k \in Keys, KeyInv(k)
    PROVE  KeyInv(k)'
<1> USE DEF TypeInv, TypeOK, ClientTypeOK, StoreTypeOK
<1>1. PICK j \in Keys : /\ pending[c][j] # Null
                        /\ conflicts' = [conflicts EXCEPT ![j] = pending[c][j]]
                        /\ pending' = [pending EXCEPT ![c][j] = Null]
  BY DEF AppendNext, AppendConflict, IsNextPending
<1>2. /\ UNCHANGED <<envelopes, snapshot>>
      /\ pc' \in {pc, [pc EXCEPT ![c] = "reply"]}
  BY DEF AppendNext, AppendConflict, Reply, Goto
<1>3. conflicts'[k] = IF k = j THEN pending[c][j] ELSE conflicts[k]
  BY <1>1
<1>4. \A d \in Clients : pending'[d][k] \in {pending[d][k], Null}
  BY <1>1
<1>5. \A r \in Records(k)' : r = Null \/ r \in Records(k)
  BY <1>3, <1>4 DEF Records
<1>6. \A d \in Clients : pc'[d] = "merge" => pc[d] = "merge"
  BY <1>2
<1>7. \A r \in Records(k)' : Signed(r) => RealDecision(r, k)' /\ ListedAll(r, k)'
  BY <1>2, <1>5, <1>6 DEF KeyInv, RealDecision, ListedAll, Signed
<1>8. Undisputed(k)'
  <2> SUFFICES ASSUME NEW r \in Records(k)', Signed(r), r.cands = Ids(Group(envelopes, k))
               PROVE  conflicts'[k] = r /\ Records(k)' \subseteq {Null, r}
    BY <1>2 DEF Undisputed, Signed
  <2>1. conflicts[k] = r /\ Records(k) \subseteq {Null, r}
    BY <1>5 DEF KeyInv, Undisputed, Signed
  <2>2. pending[c][k] \in Records(k)
    BY DEF Records
  <2>3. QED  BY <1>1, <1>3, <1>5, <2>1, <2>2
<1>9. QED  BY <1>2, <1>7, <1>8 DEF KeyInv, Signed
LEMMA KeyInvList ==
    ASSUME TypeInv, NEW c \in Clients, ListEnvelopes(c), NEW k \in Keys, KeyInv(k)
    PROVE  KeyInv(k)'
<1> USE DEF TypeInv, TypeOK, ClientTypeOK
<1>1. /\ UNCHANGED <<envelopes, conflicts, pending>>
      /\ snapshot' = [snapshot EXCEPT ![c] = envelopes]
      /\ pc' = [pc EXCEPT ![c] = "merge"]
  BY DEF ListEnvelopes, Goto, storeVars
<1>2. Records(k)' = Records(k)
  BY <1>1 DEF Records
<1>3. \A d \in Clients : IF d = c THEN snapshot'[d] = envelopes
                         ELSE snapshot'[d] = snapshot[d] /\ pc'[d] = pc[d]
  BY <1>1
<1>4. QED
  BY <1>1, <1>2, <1>3 DEF KeyInv, RealDecision, ListedAll, Undisputed, Signed

\* The decision is stored while no sync holds a record of the key.
LEMMA KeyInvStore ==
    ASSUME TypeInv, CommandInv, StoreDecision, UNCHANGED clientVars, NEW k \in Keys, KeyInv(k)
    PROVE  KeyInv(k)'
<1> USE DEF TypeInv, TypeOK, StoreTypeOK
<1> DEFINE d == decision.rec
<1>1. /\ decision \in [key : Keys, rec : ConflictRecord(AllIds)]
      /\ AllIdle /\ RealDecision(d, decision.key)
      /\ conflicts' = [conflicts EXCEPT ![decision.key] = d]
      /\ UNCHANGED <<envelopes, pc, pending, snapshot>>
  BY DEF StoreDecision, CommandHolds, CommandInv, AppendConflict, clientVars
<1>2. \A c \in Clients : pending[c][k] = Null /\ pc[c] # "merge"
  BY <1>1 DEF AllIdle, CommandInv, NothingPending
<1>3. CASE k # decision.key
  <2>1. conflicts'[k] = conflicts[k]
    BY <1>1, <1>3
  <2>2. Records(k)' = Records(k)
    BY <1>1, <2>1 DEF Records
  <2>3. QED
    BY <1>1, <2>1, <2>2 DEF KeyInv, RealDecision, ListedAll, Undisputed, Signed
<1>4. CASE k = decision.key
  <2> HIDE DEF d
  <2>1. conflicts'[k] = d
    BY <1>1, <1>4
  <2>2. \A r \in Records(k)' : r \in {d, Null}
    BY <1>1, <1>2, <2>1 DEF Records
  <2>3. RealDecision(d, k)
    BY <1>1, <1>4
  <2>4. \A r \in Records(k)' : Signed(r) =>
            r = conflicts'[k] /\ RealDecision(r, k)' /\ ListedAll(r, k)'
    BY <1>1, <1>2, <2>1, <2>2, <2>3 DEF RealDecision, ListedAll, Signed
  <2>5. Undisputed(k)'
    <3> SUFFICES ASSUME NEW r \in Records(k)', Signed(r)
                 PROVE  conflicts'[k] = r /\ Records(k)' \subseteq {Null, r}
      BY DEF Undisputed, Signed
    <3>1. QED  BY <2>1, <2>2, <2>4
  <2>6. QED  BY <1>1, <2>4, <2>5 DEF KeyInv, Signed
<1>5. QED  BY <1>3, <1>4

\* All other steps read or forget records but write none.
LEMMA KeyInvNext ==
    ASSUME TypeInv, CommandInv, [Next]_vars, NEW k \in Keys, KeyInv(k)
    PROVE  KeyInv(k)'
<1> USE DEF TypeInv, TypeOK, ClientTypeOK
<1>1. ASSUME NEW c \in Clients, ClientNext(c),
             ~MergeConflicts(c), ~AppendNext(c), ~ListEnvelopes(c)
      PROVE  KeyInv(k)'
  <2>1. conflicts' = conflicts
    BY <1>1 DEF ClientNext, ClientStep, ClientFault, Deduplicate, GroupRepeatedError, WriteRaw,
                CommitRows, CommitFails, UnlinkRaw, Return, Crash, StorageFails, WriteRawFails,
                IngestRaises, Receive, storeVars
  <2>2. \/ UNCHANGED <<pending, snapshot>>
        \/ Forget(c)
    BY <1>1 DEF ClientNext, ClientStep, ClientFault, Deduplicate, GroupRepeatedError, WriteRaw,
                CommitRows, CommitFails, UnlinkRaw, Return, Crash, StorageFails, WriteRawFails,
                IngestRaises, Receive
  <2>3. \A d \in Clients : pc'[d] = "merge" => d # c
    BY <1>1 DEF ClientNext, ClientStep, ClientFault, Deduplicate, GroupRepeatedError, WriteRaw,
                CommitRows, CommitFails, UnlinkRaw, Return, Crash, StorageFails, WriteRawFails,
                IngestRaises, Receive, Reply, Goto, Forget
  <2>4. \A d \in Clients \ {c} : pc'[d] = pc[d] /\ snapshot'[d] = snapshot[d]
    BY <1>1, OthersStand
  <2>5. \A d \in Clients : /\ pending'[d][k] \in {pending[d][k], Null}
                           /\ snapshot'[d] \in {snapshot[d], {}}
    <3>1. CASE UNCHANGED <<pending, snapshot>>
      BY <3>1
    <3>2. CASE Forget(c)
      BY <3>2 DEF Forget, NothingPending
    <3>3. QED  BY <2>2, <3>1, <3>2
  <2>6. QED  BY <2>1, <2>3, <2>4, <2>5, KeyFrame
<1>2. ASSUME OperatorNext, ~StoreDecision
      PROVE  KeyInv(k)'
  <2>1. conflicts' = conflicts
    BY <1>2 DEF OperatorNext, OperatorStep, OperatorFault, ReadRawFile, ReindexEnds, ImportFails,
                ImportRows, OperatorCrash, Pin, AppendPin, Unpin, SetMemoryPinned, DecideConflict,
                ListRawTree, storeVars
  <2>2. UNCHANGED <<pc, pending, snapshot>>
    BY <1>2 DEF OperatorNext, clientVars
  <2>3. QED  BY <2>1, <2>2, KeyFrame
<1>3. CASE UNCHANGED vars
  <2>1. UNCHANGED <<conflicts, pc, pending, snapshot>>
    BY <1>3 DEF vars, storeVars, clientVars
  <2>2. QED  BY <2>1, KeyFrame
<1>4. QED
  BY <1>1, <1>2, <1>3, KeyInvMerge, KeyInvAppend, KeyInvList, KeyInvStore
  DEF Next, Finished, OperatorNext

LEMMA CommandInvNext ==
    ASSUME "resolve" \notin LiveCommands, TypeInv, CommandInv, [Next]_vars
    PROVE  CommandInv'
<1> USE DEF TypeInv, TypeOK, ClientTypeOK
<1>1. ASSUME NEW c \in Clients, ClientNext(c)
      PROVE  CommandInv'
  <2>1. opc # "resolve" /\ opc' = opc
    <3>1. CASE pc[c] # "idle"
      BY <1>1, <3>1 DEF CommandInv, AllIdle, ClientNext, operatorVars
    <3>2. CASE MayServe
      BY <1>1, <3>2 DEF MayServe, RunningCommand, ClientNext, operatorVars
    <3>3. QED
      BY <1>1, <3>1, <3>2
      DEF ClientNext, ClientStep, ClientFault, Deduplicate, GroupRepeatedError, WriteRaw,
          CommitRows, CommitFails, UnlinkRaw, ListEnvelopes, MergeConflicts, AppendNext,
          Return, Crash, StorageFails, WriteRawFails, IngestRaises
  <2>2. pc'[c] = "idle" => pending'[c] = NothingPending
    BY <1>1
    DEF ClientNext, ClientStep, ClientFault, Deduplicate, GroupRepeatedError, WriteRaw,
        CommitRows, CommitFails, UnlinkRaw, ListEnvelopes, MergeConflicts, AppendNext,
        Return, Crash, StorageFails, WriteRawFails, IngestRaises, Receive, Reply, Goto, Forget
  <2>3. \A d \in Clients \ {c} : pc'[d] = pc[d] /\ pending'[d] = pending[d]
    BY <1>1, OthersStand
  <2>4. QED  BY <2>1, <2>2, <2>3 DEF CommandInv
<1>2. CASE OperatorNext /\ ~DecideConflict
  <2>1. opc' = "resolve" => opc = "resolve" /\ decision' = decision
    BY <1>2 DEF OperatorNext, OperatorStep, OperatorFault, StoreDecision, ReadRawFile,
                ReindexEnds, ImportFails, ImportRows, OperatorCrash, Pin, Unpin, ListRawTree,
                operatorVars
  <2>2. opc = "resolve" => decision.key \in Keys
    BY DEF CommandHolds
  <2>3. opc' = "resolve" => RealDecision(decision.rec, decision.key)'
    <3> SUFFICES ASSUME opc' = "resolve" PROVE RealDecision(decision.rec, decision.key)'
      OBVIOUS
    <3>1. PICK r \in {decision.rec}, k \in Keys : k = decision.key /\ RealDecision(r, k)
      BY <2>1, <2>2 DEF CommandInv
    <3>2. RealDecision(r, k)'
      BY <3>1, RealStays
    <3>3. QED  BY <2>1, <3>1, <3>2
  <2>4. UNCHANGED clientVars
    BY <1>2 DEF OperatorNext
  <2>5. QED  BY <2>1, <2>3, <2>4 DEF CommandInv, AllIdle, clientVars
<1>3. CASE OperatorNext /\ DecideConflict
  <2>1. AllIdle
    BY <1>3 DEF OperatorNext, OperatorStep, OperatorFault, StoreDecision, ReadRawFile,
                ReindexEnds, ImportFails, ImportRows, OperatorCrash, Pin, Unpin, ListRawTree,
                DecideConflict, MayRun, operatorVars
  <2>2. PICK k \in Keys, w \in Ids(envelopes) :
            /\ CanResolve(envelopes, k, w)
            /\ decision' = [key |-> k, rec |-> Resolved(envelopes, k, w)]
    BY <1>3 DEF DecideConflict
  <2>3. w # Null
    <3>1. w \in AllIds
      BY IdsOfEnvelopes DEF StoreTypeOK
    <3>2. QED  BY <3>1, NullAssumption
  <2>4. decision'.key = k /\ decision'.rec = Resolved(envelopes, k, w)
    BY <2>2
  <2>5. /\ decision'.rec.winner = w /\ decision'.rec.status = "resolved_by_pin"
        /\ decision'.rec.cands = Ids(Group(envelopes, k))
    BY <2>4 DEF Resolved
  <2>6. UNCHANGED <<envelopes, clientVars>>
    BY <1>3 DEF OperatorNext, DecideConflict, storeVars
  <2>7. RealDecision(decision.rec, decision.key)'
    BY <2>3, <2>4, <2>5, <2>6 DEF RealDecision
  <2>8. QED  BY <2>1, <2>6, <2>7 DEF CommandInv, AllIdle, clientVars
<1>4. CASE UNCHANGED vars
  BY <1>4 DEF vars, storeVars, clientVars, operatorVars, CommandInv, AllIdle, RealDecision
<1>5. QED  BY <1>1, <1>2, <1>3, <1>4 DEF Next, Finished

\* A step over a group the operator has decided leaves the record, unless it is the
\* operator's next decision.
LEMMA DecisionStays ==
    ASSUME TypeInv, DecisionInv, [Next]_vars, ~StoreDecision, NEW k \in Keys,
           Signed(conflicts[k]), conflicts[k].cands = Ids(Group(envelopes', k))
    PROVE  conflicts'[k] = conflicts[k] /\ RealDecision(conflicts[k], k)
<1>1. RealDecision(conflicts[k], k)
  BY DEF DecisionInv, KeyInv, Records
<1>2. conflicts[k].cands = Ids(Group(envelopes, k))
  <2>1. Ids(Group(envelopes, k)) \subseteq Ids(envelopes)
    BY DEF Ids, Group
  <2>2. QED  BY <1>1, <2>1, GroupSteps DEF RealDecision
<1>3. ASSUME NEW c \in Clients, AppendNext(c)
      PROVE  conflicts'[k] = conflicts[k]
  <2>1. PICK j \in Keys : /\ pending[c][j] # Null
                          /\ conflicts' = [conflicts EXCEPT ![j] = pending[c][j]]
    BY <1>3 DEF AppendNext, AppendConflict, IsNextPending
  <2>2. pending[c][k] \in Records(k) /\ conflicts[k] \in Records(k)
    BY DEF Records
  <2>3. pending[c][k] \in {Null, conflicts[k]}
    BY <1>2, <2>2 DEF DecisionInv, KeyInv, Undisputed
  <2>4. QED  BY <2>1, <2>3 DEF TypeInv, TypeOK, StoreTypeOK
<1>4. ASSUME NEW c \in Clients, ClientNext(c), ~AppendNext(c)
      PROVE  conflicts' = conflicts
  BY <1>4 DEF ClientNext, ClientStep, ClientFault, Deduplicate, GroupRepeatedError, WriteRaw,
              CommitRows, CommitFails, UnlinkRaw, ListEnvelopes, MergeConflicts, Return, Crash,
              StorageFails, WriteRawFails, IngestRaises, Receive, storeVars
<1>5. ASSUME OperatorNext
      PROVE  conflicts' = conflicts
  BY <1>5 DEF OperatorNext, OperatorStep, OperatorFault, ReadRawFile, ReindexEnds, ImportFails,
              ImportRows, OperatorCrash, Pin, AppendPin, Unpin, SetMemoryPinned, DecideConflict,
              ListRawTree, storeVars
<1>6. CASE UNCHANGED vars
  BY <1>1, <1>6 DEF vars, storeVars
<1>7. QED  BY <1>1, <1>3, <1>4, <1>5, <1>6 DEF Next, Finished

\* A decision the operator made while the hosts were stopped stays in force until a
\* new candidate appears or the operator decides again: no sync of any number of
\* hosts, no crash, failure or unpin puts another winner in its place.
THEOREM OperatorDecisionAlwaysSticks ==
    ASSUME "resolve" \notin LiveCommands
    PROVE  Spec => OperatorDecisionSticks
<1>1. Init => DecisionInv
  BY DEF Init, StoreInit, ClientInit, OperatorInit, DecisionInv, CommandInv, KeyInv, Records,
         Undisputed, Signed, NothingPending, Ids, Group
<1>2. TypeInv /\ DecisionInv /\ [Next]_vars => DecisionInv'
  BY KeyInvNext, CommandInvNext DEF DecisionInv
<1>3. TypeInv /\ DecisionInv /\ [Next]_vars =>
          \A k \in Keys :
            (/\ conflicts[k] # Null
             /\ conflicts[k].actor = "operator"
             /\ conflicts[k].cands = Ids(Group(envelopes', k))
             /\ IsMany(Group(envelopes', k))
             /\ ~StoreDecision)
            => Effective'[k].winner = conflicts[k].winner
  BY DecisionStays DEF Effective, Detect, Keeps, RealDecision, Signed
<1>4. QED
  BY <1>1, <1>2, <1>3, TypeInvInit, TypeInvNext, PTL DEF Spec, OperatorDecisionSticks
-----------------------------------------------------------------------------
(* One host: the table is in step with the memories                        *)

\* A conflict's record is over all that is there and decided, so detection keeps it.
Settled(r, k) == IsMany(Group(envelopes, k)) => Keeps(r, Group(envelopes, k))

\* What a sync of c has in hand or has written.
Latest(c, k) == IF pending[c][k] = Null THEN conflicts[k] ELSE pending[c][k]

\* A host knows its stamp only once it has written, and a sync under way leaves
\* nothing out: what it has not appended yet settles the rest.
SyncFits(c) ==
    /\ pc[c] \in {"idle", "dedupe", "group", "write"} => stamp[c] = 0
    /\ pc[c] = "merge" =>
          /\ UniqueIds(snapshot[c])
          /\ \A k \in Keys : Ids(Group(snapshot[c], k)) = Ids(Group(envelopes, k))
    /\ pc[c] = "append" => \A k \in Keys : Settled(Latest(c, k), k)
    /\ (pc[c] = "reply" /\ answer[c] # Null /\ answer[c] = Id(c)) =>
          \A k \in Keys : Settled(conflicts[k], k)

\* Whether there is a conflict and whether a record is kept depends on the ids alone.
LEMMA ManyByIds ==
    ASSUME NEW G, NEW H, UniqueIds(G), Ids(G) = Ids(H), IsMany(G)
    PROVE  IsMany(H)
<1>1. PICK x, y \in G : x # y
  BY DEF IsMany
<1>2. x.id \in Ids(H) /\ y.id \in Ids(H) /\ x.id # y.id
  BY <1>1 DEF UniqueIds, Ids
<1>3. QED  BY <1>2 DEF Ids, IsMany

LEMMA KeepsByIds ==
    ASSUME NEW G, NEW H, Ids(G) = Ids(H), NEW r, Keeps(r, G)
    PROVE  Keeps(r, H)
  BY DEF Keeps

\* Detection decides every conflict, so its next run would keep what it found.
LEMMA DetectSettles ==
    ASSUME NEW E \in SUBSET Envelope, UniqueIds(E), NEW stored, NEW k \in Keys,
           IsMany(Group(E, k))
    PROVE  Detect(E, stored)[k] # Null /\ Keeps(Detect(E, stored)[k], Group(E, k))
<1> DEFINE G == Group(E, k)
<1>1. CASE Keeps(stored[k], G)
  <2>1. Detect(E, stored)[k] = stored[k]
    BY <1>1 DEF Detect
  <2>2. QED  BY <1>1, <2>1 DEF Keeps
<1>2. CASE ~Keeps(stored[k], G)
  <2>1. Detect(E, stored)[k] = Fresh(G)
    BY <1>2 DEF Detect
  <2>2. G \subseteq Envelope /\ UniqueIds(G)
    BY DEF Group, UniqueIds
  <2>3. PICK e \in G : e.id = Choose(G).winner /\ Choose(G).status # "unresolved"
    BY <2>2, StoredGroups, ChoiceIsStrongest
  <2>4. Ids(G) \subseteq AllIds
    BY <2>2 DEF Ids, Envelope
  <2>5. Choose(G).winner # Null
    BY <2>3, <2>4, NullAssumption DEF Ids
  <2>6. Fresh(G) # Null
    BY <2>4, FreshType, NullAssumption
  <2>7. /\ Fresh(G).cands = Ids(G) /\ Fresh(G).winner = Choose(G).winner
        /\ Fresh(G).status = Choose(G).status
    BY DEF Fresh
  <2>8. Keeps(Fresh(G), G)
    BY <2>3, <2>5, <2>6, <2>7 DEF Keeps
  <2>9. QED  BY <2>1, <2>6, <2>8
<1>3. QED  BY <1>1, <1>2

\* Commands and failures add no candidate, and unpin takes none away.
LEMMA OperatorKeepsIds ==
    ASSUME TypeInv, [Next]_vars, UNCHANGED pc, NEW k \in Keys
    PROVE  Ids(Group(envelopes', k)) = Ids(Group(envelopes, k))
<1>1. \A c \in Clients : ~Recorded(c)
  BY DEF Recorded, CommitRows, Goto, TypeInv, TypeOK, ClientTypeOK
<1>2. ASSUME NEW t \in Ticks, Imported(t)
      PROVE  Ids(Group(envelopes', k)) = Ids(Group(envelopes, k))
  <2>1. ImportedEnvelope(held, t).key # k
    BY KeysAssumption DEF ImportedEnvelope
  <2>2. Group(envelopes', k) = Group(envelopes, k)
    BY <1>2, <2>1 DEF Imported, Group
  <2>3. QED  BY <2>2
<1>3. QED  BY <1>1, <1>2, PinsKeepIds, EnvelopeSteps

LEMMA SyncFitsOperator ==
    ASSUME TypeInv, UniqueIds(envelopes), UniqueIds(envelopes)', CommandInv, [Next]_vars,
           OperatorNext \/ UNCHANGED vars, NEW c \in Clients, SyncFits(c)
    PROVE  SyncFits(c)'
<1>1. UNCHANGED clientVars
  BY DEF OperatorNext, vars
<1>2. CASE pc[c] = "idle"
  BY <1>1, <1>2 DEF SyncFits, clientVars
<1>3. CASE pc[c] # "idle"
  <2>1. ~StoreDecision
    BY <1>3 DEF CommandInv, AllIdle, StoreDecision
  <2>2. conflicts' = conflicts
    BY <2>1 DEF OperatorNext, OperatorStep, OperatorFault, ReadRawFile, ReindexEnds, ImportFails,
                ImportRows, OperatorCrash, Pin, AppendPin, Unpin, SetMemoryPinned, DecideConflict,
                ListRawTree, vars, storeVars
  <2>3. \A k \in Keys : Ids(Group(envelopes', k)) = Ids(Group(envelopes, k))
    BY <1>1, OperatorKeepsIds DEF clientVars
  <2>4. ASSUME NEW k \in Keys, NEW r, Settled(r, k)
        PROVE  Settled(r, k)'
    <3>1. UniqueIds(Group(envelopes', k))
      BY DEF UniqueIds, Group
    <3>2. IsMany(Group(envelopes', k)) => IsMany(Group(envelopes, k))
      BY <2>3, <3>1, ManyByIds
    <3>3. Keeps(r, Group(envelopes, k)) => Keeps(r, Group(envelopes', k))
      BY <2>3, KeepsByIds
    <3>4. QED  BY <2>4, <3>2, <3>3 DEF Settled
  <2>5. \A k \in Keys : Latest(c, k)' = Latest(c, k)
    BY <1>1, <2>2 DEF Latest, clientVars
  <2>6. CASE pc[c] = "append"
    BY <1>1, <2>4, <2>5, <2>6 DEF SyncFits, clientVars
  <2>7. CASE pc[c] = "reply"
    BY <1>1, <2>2, <2>4, <2>7 DEF SyncFits, clientVars, Id
  <2>8. CASE pc[c] = "merge"
    BY <1>1, <2>3, <2>8 DEF SyncFits, clientVars
  <2>9. CASE pc[c] \notin {"merge", "append", "reply"}
    BY <1>1, <2>9 DEF SyncFits, clientVars
  <2>10. QED  BY <2>6, <2>7, <2>8, <2>9
<1>4. QED  BY <1>2, <1>3

LEMMA SyncFitsAppend ==
    ASSUME TypeInv, NEW c \in Clients, AppendNext(c), SyncFits(c)
    PROVE  SyncFits(c)'
<1> USE DEF TypeInv, TypeOK, ClientTypeOK, StoreTypeOK
<1>1. PICK j \in Keys : /\ pending[c][j] # Null
                        /\ conflicts' = [conflicts EXCEPT ![j] = pending[c][j]]
                        /\ pending' = [pending EXCEPT ![c][j] = Null]
                        /\ IF \A k \in Keys \ {j} : pending[c][k] = Null
                           THEN Reply(c, Id(c))
                           ELSE UNCHANGED <<pc, answer>>
  BY DEF AppendNext, AppendConflict, IsNextPending
<1>2. pc[c] = "append" /\ UNCHANGED envelopes
  BY DEF AppendNext, AppendConflict
<1>3. \A k \in Keys : Settled(Latest(c, k), k)
  BY <1>2 DEF SyncFits
<1>4. \A k \in Keys : Latest(c, k)' = Latest(c, k)
  BY <1>1 DEF Latest
<1>5. \A k \in Keys : Settled(Latest(c, k), k)'
  BY <1>2, <1>3, <1>4 DEF Settled
<1>6. CASE \A k \in Keys \ {j} : pending[c][k] = Null
  <2>1. \A k \in Keys : Latest(c, k)' = conflicts'[k]
    BY <1>1, <1>6 DEF Latest
  <2>2. \A k \in Keys : Settled(conflicts[k], k)'
    BY <1>5, <2>1 DEF Settled
  <2>3. pc'[c] = "reply"
    BY <1>1, <1>6 DEF Reply, Goto
  <2>4. QED  BY <2>2, <2>3 DEF SyncFits
<1>7. CASE ~(\A k \in Keys \ {j} : pending[c][k] = Null)
  <2>1. pc'[c] = "append"
    BY <1>1, <1>2, <1>7
  <2>2. QED  BY <1>5, <2>1 DEF SyncFits
<1>8. QED  BY <1>6, <1>7

LEMMA SyncFitsMerge ==
    ASSUME TypeInv, UniqueIds(envelopes), NEW c \in Clients, MergeConflicts(c), SyncFits(c)
    PROVE  SyncFits(c)'
<1> USE DEF TypeInv, TypeOK, ClientTypeOK
<1> DEFINE found == Detect(snapshot[c], conflicts)
<1>1. /\ pc[c] = "merge" /\ UNCHANGED <<envelopes, conflicts>>
      /\ pending' = [pending EXCEPT ![c] = found]
      /\ IF found = NothingPending THEN pc'[c] = "reply" ELSE pc'[c] = "append"
  BY DEF MergeConflicts, storeVars, Reply, Goto
<1>2. ASSUME NEW k \in Keys, IsMany(Group(envelopes, k))
      PROVE  found[k] # Null /\ Keeps(found[k], Group(envelopes, k))
  <2>1. Ids(Group(snapshot[c], k)) = Ids(Group(envelopes, k)) /\ UniqueIds(snapshot[c])
    BY <1>1 DEF SyncFits
  <2>2. UniqueIds(Group(envelopes, k))
    BY DEF UniqueIds, Group
  <2>3. IsMany(Group(snapshot[c], k))
    BY <1>2, <2>1, <2>2, ManyByIds
  <2>4. found[k] # Null /\ Keeps(found[k], Group(snapshot[c], k))
    BY <2>1, <2>3, DetectSettles
  <2>5. QED  BY <2>1, <2>4, KeepsByIds
<1> HIDE DEF found
<1>3. CASE found = NothingPending
  <2>1. \A k \in Keys : ~IsMany(Group(envelopes, k))
    BY <1>2, <1>3 DEF NothingPending
  <2>2. \A k \in Keys : Settled(conflicts[k], k)'
    BY <1>1, <2>1 DEF Settled
  <2>3. QED  BY <1>1, <1>3, <2>2 DEF SyncFits
<1>4. CASE found # NothingPending
  <2>1. \A k \in Keys : Latest(c, k)' = IF found[k] = Null THEN conflicts[k] ELSE found[k]
    BY <1>1 DEF Latest
  <2>2. \A k \in Keys : Settled(Latest(c, k), k)'
    BY <1>1, <1>2, <2>1 DEF Settled
  <2>3. QED  BY <1>1, <1>4, <2>2 DEF SyncFits
<1>5. QED  BY <1>3, <1>4

LEMMA SyncFitsClient ==
    ASSUME TypeInv, UniqueIds(envelopes), NEW c \in Clients, ClientNext(c), SyncFits(c)
    PROVE  SyncFits(c)'
<1> USE DEF TypeInv, TypeOK, ClientTypeOK, StoreTypeOK
<1>1. CASE Deduplicate(c) \/ GroupRepeatedError(c)
  <2>1. \/ pc'[c] \in {"group", "write"}
        \/ pc'[c] = "reply" /\ \E e \in envelopes : answer'[c] = e.id
    BY <1>1 DEF Deduplicate, GroupRepeatedError, FindMemoryBySha, SameError, Recent, Reply, Goto
  <2>2. stamp'[c] = 0
    BY <1>1 DEF Deduplicate, GroupRepeatedError, SyncFits
  <2>3. \A e \in envelopes : e.id # <<0, 0>>
    <3>1. \A i \in AllIds : i # <<0, 0>>
      BY StorageAssumption DEF AllIds, Ticks
    <3>2. \A e \in envelopes : e.id \in AllIds
      BY DEF Envelope
    <3>3. QED  BY <3>1, <3>2
  <2>4. Id(c)' = <<0, 0>>
    BY <2>2 DEF Id
  <2>5. QED  BY <2>1, <2>2, <2>3, <2>4 DEF SyncFits
<1>2. CASE ListEnvelopes(c)
  BY <1>2 DEF ListEnvelopes, SyncFits, Goto, storeVars
<1>3. CASE AppendNext(c) \/ MergeConflicts(c)
  BY <1>3, SyncFitsAppend, SyncFitsMerge
<1>4. CASE Return(c) \/ Crash(c) \/ \E t \in Turns : Receive(c, t)
  <2>1. ASSUME NEW t \in Turns, Receive(c, t)
        PROVE  SyncFits(c)'
    <3>1. \/ pc'[c] = "dedupe" /\ stamp'[c] = 0
          \/ pc'[c] = "reply" /\ answer'[c] = Null
      BY <2>1 DEF Receive, SyncFits, Reply, Goto
    <3>2. QED  BY <3>1 DEF SyncFits
  <2>2. CASE Return(c) \/ Crash(c)
    BY <2>2 DEF Return, Crash, SyncFits, Forget, Goto
  <2>3. QED  BY <1>4, <2>1, <2>2
<1>5. CASE \/ WriteRaw(c) \/ CommitRows(c) \/ CommitFails(c) \/ UnlinkRaw(c)
           \/ WriteRawFails(c) \/ StorageFails(c) \/ IngestRaises(c)
  <2>1. \/ pc'[c] \in {"commit", "list", "unlink", "raised"}
        \/ pc'[c] = "reply" /\ answer'[c] = Null
    BY <1>5 DEF WriteRaw, CommitRows, CommitFails, UnlinkRaw, WriteRawFails, StorageFails,
                IngestRaises, Reply, Goto
  <2>2. QED  BY <2>1 DEF SyncFits
<1>6. QED
  BY <1>1, <1>2, <1>3, <1>4, <1>5 DEF ClientNext, ClientStep, ClientFault

\* When the only host hears that its memory is stored, every conflict of the store
\* is recorded as detection sees it, however many crashed or failed syncs came
\* before and whatever is unpinned in the middle of the sync, provided the operator
\* decides only between turns.
THEOREM AlwaysSyncedWhenAnswered ==
    ASSUME OneHost, "resolve" \notin LiveCommands
    PROVE  Spec => []SyncedWhenAnswered
<1> DEFINE Inv == UniqueIds(envelopes) /\ CommandInv /\ \A c \in Clients : SyncFits(c)
<1>1. Init => Inv
  BY DEF Init, StoreInit, ClientInit, OperatorInit, CommandInv, SyncFits, UniqueIds
<1>2. TypeInv /\ Inv /\ [Next]_vars => Inv'
  <2> SUFFICES ASSUME TypeInv, Inv, [Next]_vars PROVE Inv'
    OBVIOUS
  <2>1. UniqueIds(envelopes)' /\ CommandInv'
    BY CommandInvNext, UniqueIdsNext
  <2>2. ASSUME NEW c \in Clients PROVE SyncFits(c)'
    BY <2>1, SyncFitsClient, SyncFitsOperator DEF Next, Finished, OneHost
  <2>3. QED  BY <2>1, <2>2
<1>3. Inv => SyncedWhenAnswered
  <2>1. ASSUME NEW k \in Keys, Settled(conflicts[k], k), Effective[k] # Null
        PROVE  conflicts[k] = Effective[k]
    BY <2>1 DEF Settled, Effective, Detect
  <2>2. QED  BY <2>1 DEF SyncFits, SyncedWhenAnswered
<1>4. QED  BY <1>1, <1>2, <1>3, TypeInvInit, TypeInvNext, PTL DEF Spec
=============================================================================
