----------------------------- MODULE JsonlProofs ------------------------------
(***************************************************************************)
(* The safety invariants of JsonlStore for any notes, any number of        *)
(* recordings, failures and crashes.  The rows and files keep StoreInv by  *)
(* themselves; HostInv is what the host may rely on at each place of its   *)
(* call, and ties the file it has just written to the rows it adds.        *)
(***************************************************************************)
EXTENDS JsonlStore, ConflictsProofs

Writing == {"artifact", "envelope", "pin", "sync", "conflict"}

\* The variables the argument looks at have their types.
Shapes ==
    /\ files \in [Ticks -> Texts \cup {Null}]
    /\ artifacts \subseteq [id : MemoryIds, sha : Texts]
    /\ \A e \in envelopes : e.id \in MemoryIds
    /\ clock \in 0..MaxTick
    /\ at \in Places
    /\ at # "idle" => note \in Notes

\* Rows and files, whatever the host does.
StoreInv ==
    /\ \A a \in artifacts : a.id[1] <= clock /\ files[a.id[1]] \in {Null, a.sha}
    /\ \A a, b \in artifacts : a.id = b.id => a = b
    /\ \A e \in envelopes : \E a \in artifacts : a.id = e.id
    /\ RetriesNeverDuplicate

\* A confirmed memory is there and can be read.
Kept == \A i \in confirmed : i \in Ids(envelopes) /\ HasText(i)

\* The host at each place: its file, its rows, and that its text is new.
HostInv ==
    /\ at \in Writing => files[clock] = note.text
    /\ at \in Writing \cup {"unlink"} => clock > 0 /\ Id \notin confirmed
    /\ at = "artifact" => \A a \in artifacts : a.id # Id
    /\ at \in {"envelope", "pin", "sync", "conflict"} => NewArtifact \in artifacts
    /\ at = "envelope" => Id \notin Ids(envelopes)
    /\ at \in {"pin", "sync", "conflict"} => Id \in Ids(envelopes)
    /\ at \in {"raw", "artifact", "envelope"} => SameText = {}

JsonlInv == Shapes /\ StoreInv /\ Kept /\ HostInv

-----------------------------------------------------------------------------
\* The initial store is empty and the host idle.
LEMMA InitJsonl == Init => JsonlInv
BY JsonlAssumption
   DEF Init, JsonlInv, Shapes, StoreInv, Kept, HostInv, RetriesNeverDuplicate, Ids, Texts,
       Ticks, MemoryIds, Places, Writing

\* Steps that leave rows, files and clock alone keep what is said of them alone.
LEMMA StoreUntouched ==
    ASSUME JsonlInv, UNCHANGED <<files, artifacts, envelopes, clock>>
    PROVE  StoreInv' /\ \A i \in confirmed : i \in Ids(envelopes)' /\ HasText(i)'
BY DEF JsonlInv, StoreInv, Kept, RetriesNeverDuplicate, HasText, Ids

\* The row an append adds, complete or not, keeps the store's invariant and every
\* confirmed memory, and takes the host to where its row is.
LEMMA RowsAdded ==
    ASSUME JsonlInv, NEW k \in Keys, MayAppend(k), AddsRow(LogAt, k), UNCHANGED clock
    PROVE  /\ StoreInv'
           /\ \A i \in confirmed : i \in Ids(envelopes)' /\ HasText(i)'
           /\ artifacts' \subseteq [id : MemoryIds, sha : Texts]
           /\ \A e \in envelopes' : e.id \in MemoryIds
           /\ files' = files
           /\ at = "artifact" => /\ NewArtifact \in artifacts'
                                 /\ envelopes' = envelopes
                                 /\ Id \notin Ids(envelopes)
                                 /\ note' = note => SameText' = {}
           /\ at = "envelope" => artifacts' = artifacts /\ Id \in Ids(envelopes')
           /\ at \in {"pin", "conflict"} => UNCHANGED <<artifacts, envelopes>>
<1>1. files' = files /\ clock \in Ticks /\ note \in Notes /\ note.text \in Texts
  BY DEF AddsRow, MayAppend, JsonlInv, HostInv, Shapes, Writing, Ticks, Texts
<1>2. Id \in MemoryIds /\ Id[1] = clock /\ NewArtifact \in [id : MemoryIds, sha : Texts]
      /\ NewArtifact.id = Id /\ NewArtifact.sha = note.text /\ NewMemory.id = Id
  BY <1>1 DEF Id, MemoryIds, NewArtifact, NewMemory
<1>3. CASE at = "artifact"
  <2>1. artifacts' = artifacts \cup {NewArtifact} /\ envelopes' = envelopes
    BY <1>3 DEF AddsRow, LogAt
  <2>2. Id \notin Ids(envelopes) /\ SameText = {} /\ files[clock] = note.text
    BY <1>3 DEF JsonlInv, HostInv, StoreInv, Ids, Writing
  <2>3. note' = note => SameText' = {}
    BY <1>2, <2>1, <2>2 DEF SameText, Ids
  <2>4. StoreInv'
    <3>1. \A a \in artifacts' : a.id[1] <= clock /\ files[a.id[1]] \in {Null, a.sha}
      BY <1>1, <1>2, <2>1, <2>2 DEF JsonlInv, StoreInv, Ticks
    <3>2. \A a, b \in artifacts' : a.id = b.id => a = b
      BY <1>2, <1>3, <2>1 DEF JsonlInv, StoreInv, HostInv
    <3>3. RetriesNeverDuplicate'
      BY <1>2, <2>1, <2>2 DEF JsonlInv, StoreInv, RetriesNeverDuplicate
    <3>4. QED  BY <1>1, <2>1, <3>1, <3>2, <3>3 DEF JsonlInv, StoreInv
  <2>5. \A i \in confirmed : i \in Ids(envelopes)' /\ HasText(i)'
    BY <1>1, <2>1 DEF JsonlInv, Kept, HasText, Ids
  <2>6. artifacts' \subseteq [id : MemoryIds, sha : Texts]
        /\ \A e \in envelopes' : e.id \in MemoryIds
    BY <1>2, <2>1 DEF JsonlInv, Shapes
  <2>7. QED  BY <1>1, <1>3, <2>1, <2>2, <2>3, <2>4, <2>5, <2>6
<1>4. CASE at = "envelope"
  <2>1. artifacts' = artifacts /\ envelopes' = envelopes \cup {NewMemory}
    BY <1>4 DEF AddsRow, LogAt
  <2>2. NewArtifact \in artifacts /\ SameText = {}
    BY <1>4 DEF JsonlInv, HostInv
  <2>3. Ids(envelopes') = Ids(envelopes) \cup {Id}
    BY <1>2, <2>1 DEF Ids
  <2>4. RetriesNeverDuplicate'
    <3> SUFFICES ASSUME NEW a \in artifacts, NEW b \in artifacts, a # b,
                        a.id \in Ids(envelopes'), b.id \in Ids(envelopes'), a.sha = b.sha
                 PROVE  FALSE
      BY <2>1 DEF RetriesNeverDuplicate
    <3>1. CASE a.id \in Ids(envelopes) /\ b.id \in Ids(envelopes)
      BY <3>1 DEF JsonlInv, StoreInv, RetriesNeverDuplicate
    <3>2. CASE a.id = Id
      <4>1. a = NewArtifact /\ b.id \in Ids(envelopes)
        BY <1>2, <2>2, <2>3, <3>2 DEF JsonlInv, StoreInv
      <4>2. QED  BY <1>2, <2>2, <4>1 DEF SameText, Ids
    <3>3. CASE b.id = Id
      <4>1. b = NewArtifact /\ a.id \in Ids(envelopes)
        BY <1>2, <2>2, <2>3, <3>3 DEF JsonlInv, StoreInv
      <4>2. QED  BY <1>2, <2>2, <4>1 DEF SameText, Ids
    <3>4. QED  BY <2>3, <3>1, <3>2, <3>3
  <2>5. StoreInv'
    BY <1>1, <1>2, <2>1, <2>2, <2>4 DEF JsonlInv, StoreInv
  <2>6. \A i \in confirmed : i \in Ids(envelopes)' /\ HasText(i)'
    BY <1>1, <2>1, <2>3 DEF JsonlInv, Kept, HasText, Ids
  <2>7. artifacts' \subseteq [id : MemoryIds, sha : Texts]
        /\ \A e \in envelopes' : e.id \in MemoryIds
    BY <1>2, <2>1 DEF JsonlInv, Shapes
  <2>8. QED  BY <1>1, <1>4, <2>1, <2>3, <2>5, <2>6, <2>7
<1>5. CASE at \in {"pin", "conflict"}
  <2>1. UNCHANGED <<files, artifacts, envelopes>>
    BY <1>5 DEF AddsRow, LogAt
  <2>2. QED  BY <1>5, <2>1, StoreUntouched DEF JsonlInv, Shapes
<1>6. QED  BY <1>3, <1>4, <1>5 DEF MayAppend

\* So does an append that fails or is cut off, which adds the row or does not.
LEMMA RowsInterrupted ==
    ASSUME JsonlInv, NEW k \in Keys, MayAppend(k), Interrupted(LogAt, k), UNCHANGED clock
    PROVE  /\ StoreInv'
           /\ \A i \in confirmed : i \in Ids(envelopes)' /\ HasText(i)'
           /\ artifacts' \subseteq [id : MemoryIds, sha : Texts]
           /\ \A e \in envelopes' : e.id \in MemoryIds
           /\ files' = files
<1>1. CASE UNCHANGED <<files, artifacts, envelopes>>
  BY <1>1, StoreUntouched DEF JsonlInv, Shapes
<1>2. CASE AddsRow(LogAt, k)
  BY <1>2, RowsAdded
<1>3. QED  BY <1>1, <1>2 DEF Interrupted, diskVars

-----------------------------------------------------------------------------
\* A step that ends the call, or leaves it for good, and touches no row keeps the
\* invariant: at "idle" and "reply" the host relies on nothing.
LEMMA LeavingCall ==
    ASSUME JsonlInv, StoreInv', Shapes', Kept', at' \in {"idle", "reply", "dedupe"}
    PROVE  JsonlInv'
BY DEF JsonlInv, HostInv, Writing

\* A new call touches no row.
LEMMA ReceiveKeeps == JsonlInv /\ (\E n \in Notes : Receive(n)) => JsonlInv'
<1> SUFFICES ASSUME JsonlInv, NEW n \in Notes, Receive(n) PROVE JsonlInv'
  OBVIOUS
<1>1. Shapes' /\ at' = "dedupe"
  BY DEF Receive, JsonlInv, Shapes, diskVars, Places
<1>2. StoreInv' /\ Kept'
  BY StoreUntouched DEF Receive, diskVars, Kept
<1>3. QED  BY <1>1, <1>2, LeavingCall

\* The search answers with what is there, or finds the text to be new.
LEMMA DeduplicateKeeps == JsonlInv /\ Deduplicate => JsonlInv'
<1> SUFFICES ASSUME JsonlInv, Deduplicate PROVE JsonlInv'
  OBVIOUS
<1>1. Shapes' /\ at' \in {"reply", "raw"}
  BY DEF Deduplicate, Reply, JsonlInv, Shapes, diskVars, Places
<1>2. StoreInv' /\ Kept'
  BY StoreUntouched DEF Deduplicate, diskVars, Kept
<1>3. CASE at' = "reply"
  BY <1>1, <1>2, <1>3, LeavingCall
<1>4. CASE at' = "raw"
  <2>1. SameText' = {}
    BY <1>4 DEF Deduplicate, Reply, SameText, diskVars
  <2>2. HostInv'
    BY <1>4, <2>1 DEF HostInv, Writing
  <2>3. QED  BY <1>1, <1>2, <2>2 DEF JsonlInv
<1>5. QED  BY <1>1, <1>3, <1>4

\* The tick is new, so no row has it.
LEMMA WriteRawKeeps == JsonlInv /\ WriteRaw => JsonlInv'
<1> SUFFICES ASSUME JsonlInv, WriteRaw PROVE JsonlInv'
  OBVIOUS
<1>1. clock + 1 \in Ticks /\ note \in Notes /\ note.text \in Texts /\ clock \in Nat
  BY JsonlAssumption DEF WriteRaw, JsonlInv, Shapes, Ticks, Texts
<1>2. \A a \in artifacts : a.id[1] \in Ticks /\ a.id[1] # clock + 1
                           /\ a.id = <<a.id[1], 0>>
  <2> SUFFICES ASSUME NEW a \in artifacts
               PROVE  a.id[1] \in Ticks /\ a.id[1] # clock + 1 /\ a.id = <<a.id[1], 0>>
    OBVIOUS
  <2>1. a.id \in MemoryIds /\ a.id[1] <= clock
    BY DEF JsonlInv, Shapes, StoreInv
  <2>2. QED  BY <1>1, <2>1 DEF MemoryIds, Ticks
<1>3. /\ files' = [files EXCEPT ![clock + 1] = note.text]
      /\ clock' = clock + 1 /\ at' = "artifact"
      /\ UNCHANGED <<artifacts, envelopes, note, confirmed>>
  BY DEF WriteRaw
<1>4. \A a \in artifacts : files'[a.id[1]] = files[a.id[1]]
  BY <1>1, <1>2, <1>3 DEF JsonlInv, Shapes
<1>5. Shapes'
  BY <1>1, <1>3 DEF JsonlInv, Shapes, Places, Ticks
<1>6. StoreInv'
  <2>1. \A a \in artifacts' : a.id[1] <= clock' /\ files'[a.id[1]] \in {Null, a.sha}
    BY <1>1, <1>2, <1>3, <1>4 DEF JsonlInv, StoreInv, Ticks
  <2>2. QED  BY <1>3, <2>1 DEF JsonlInv, StoreInv, RetriesNeverDuplicate
<1>7. Kept'
  BY <1>3, <1>4 DEF JsonlInv, Kept, HasText, Ids
<1>8. HostInv'
  <2>1. files'[clock'] = note'.text /\ clock' > 0
    BY <1>1, <1>3 DEF JsonlInv, Shapes
  <2>2. \A a \in artifacts' : a.id # Id'
    BY <1>1, <1>2, <1>3 DEF Id
  <2>3. Id' \notin confirmed'
    BY <1>3, <2>2 DEF JsonlInv, Kept, HasText
  <2>4. SameText' = {}
    BY <1>3 DEF WriteRaw, JsonlInv, HostInv, SameText
  <2>5. QED  BY <1>3, <2>1, <2>2, <2>3, <2>4 DEF HostInv, Writing
<1>9. QED  BY <1>5, <1>6, <1>7, <1>8 DEF JsonlInv

\* The host's own memory is there and can be read when it is confirmed.
LEMMA OwnMemoryReadable ==
    ASSUME JsonlInv, at \in {"pin", "sync", "conflict"}
    PROVE  Id \in Ids(envelopes) /\ HasText(Id)
BY DEF JsonlInv, HostInv, HasText, NewArtifact, Id, Writing

\* An append that returns leads to the next one or to the answer.
LEMMA AppendKeeps == JsonlInv /\ Append => JsonlInv'
<1> SUFFICES ASSUME JsonlInv, NEW k \in Keys, MayAppend(k), AddsRow(LogAt, k), Proceed(k),
                    UNCHANGED <<clock, faults, note>>
             PROVE  JsonlInv'
  BY DEF Append
<1>1. /\ StoreInv'
      /\ \A i \in confirmed : i \in Ids(envelopes)' /\ HasText(i)'
      /\ artifacts' \subseteq [id : MemoryIds, sha : Texts]
      /\ \A e \in envelopes' : e.id \in MemoryIds
      /\ files' = files
  BY RowsAdded
<1>2. Id' = Id /\ NewArtifact' = NewArtifact /\ Id \notin confirmed /\ clock > 0
      /\ files[clock] = note.text /\ note \in Notes
  BY DEF Id, NewArtifact, JsonlInv, HostInv, MayAppend, Writing, Shapes
<1>3. CASE at = "artifact"
  <2>1. at' = "envelope" /\ confirmed' = confirmed
    BY <1>3 DEF Proceed
  <2>2. /\ NewArtifact \in artifacts' /\ SameText' = {}
        /\ envelopes' = envelopes /\ Id \notin Ids(envelopes)
    BY <1>3, RowsAdded
  <2>3. Shapes'
    BY <1>1, <2>1 DEF JsonlInv, Shapes, Places, MayAppend
  <2>4. HostInv'
    BY <1>1, <1>2, <2>1, <2>2 DEF HostInv, Writing
  <2>5. QED  BY <1>1, <2>1, <2>3, <2>4 DEF JsonlInv, Kept
<1>4. CASE at = "envelope" \/ at = "pin"
  <2>1. at' \in {"pin", "sync"} /\ confirmed' = confirmed
    BY <1>4 DEF Proceed
  <2>2. NewArtifact \in artifacts' /\ Id \in Ids(envelopes')
    BY <1>4, RowsAdded DEF JsonlInv, HostInv
  <2>3. Shapes'
    BY <1>1, <2>1 DEF JsonlInv, Shapes, Places, MayAppend
  <2>4. HostInv'
    BY <1>1, <1>2, <2>1, <2>2 DEF HostInv, Writing
  <2>5. QED  BY <1>1, <2>1, <2>3, <2>4 DEF JsonlInv, Kept
<1>5. CASE at = "conflict"
  <2>1. UNCHANGED <<files, artifacts, envelopes>>
    BY <1>1, <1>5, RowsAdded
  <2>2. NewArtifact \in artifacts' /\ Id \in Ids(envelopes') /\ HasText(Id)'
    BY <1>2, <1>5, <2>1, OwnMemoryReadable DEF JsonlInv, HostInv, HasText
  <2>3. CASE at' = "reply" /\ confirmed' = confirmed \cup {Id}
    <3>1. Shapes'
      BY <1>1, <1>2, <2>3 DEF JsonlInv, Shapes, Places
    <3>2. Kept'
      BY <1>1, <1>2, <2>2, <2>3 DEF Kept, HasText, Ids
    <3>3. QED  BY <1>1, <2>3, <3>1, <3>2, LeavingCall
  <2>4. CASE at' = "conflict" /\ confirmed' = confirmed
    <3>1. Shapes'
      BY <1>1, <1>2, <2>4 DEF JsonlInv, Shapes, Places
    <3>2. HostInv'
      BY <1>1, <1>2, <2>2, <2>4 DEF HostInv, Writing
    <3>3. QED  BY <1>1, <2>4, <3>1, <3>2 DEF JsonlInv, Kept
  <2>5. QED  BY <1>5, <2>3, <2>4 DEF Proceed, ReplyStored, Reply
<1>6. QED  BY <1>3, <1>4, <1>5 DEF MayAppend

\* After a failed append the row may be there, and its file goes next.
LEMMA AppendFailsKeeps == JsonlInv /\ AppendFails => JsonlInv'
<1> SUFFICES ASSUME JsonlInv, AppendFails PROVE JsonlInv'
  OBVIOUS
<1>1. PICK k \in Keys : MayAppend(k) /\ Interrupted(LogAt, k)
  BY DEF AppendFails
<1>2. UNCHANGED <<clock, note, confirmed>> /\ at' \in {"reply", "unlink"}
  BY DEF AppendFails, Reply
<1>3. /\ StoreInv' /\ Kept'
      /\ artifacts' \subseteq [id : MemoryIds, sha : Texts]
      /\ \A e \in envelopes' : e.id \in MemoryIds
      /\ files' = files
  BY <1>1, <1>2, RowsInterrupted DEF Kept
<1>4. Shapes'
  BY <1>1, <1>2, <1>3 DEF JsonlInv, Shapes, Places, MayAppend
<1>5. CASE at' = "reply"
  BY <1>3, <1>4, <1>5, LeavingCall
<1>6. CASE at' = "unlink"
  <2>1. clock' > 0 /\ Id' \notin confirmed'
    BY <1>1, <1>2 DEF Id, MayAppend, JsonlInv, HostInv, Writing
  <2>2. HostInv'
    BY <1>6, <2>1 DEF HostInv, Writing
  <2>3. QED  BY <1>3, <1>4, <2>2 DEF JsonlInv
<1>7. QED  BY <1>2, <1>5, <1>6

\* The file removed is the host's own, which no confirmed memory names.
LEMMA UnlinkRawKeeps == JsonlInv /\ UnlinkRaw => JsonlInv'
<1> SUFFICES ASSUME JsonlInv, UnlinkRaw PROVE JsonlInv'
  OBVIOUS
<1>1. /\ at' = "reply"
      /\ UNCHANGED <<artifacts, envelopes, clock, note, confirmed>>
      /\ files' = [files EXCEPT ![clock] = Null] \/ files' = files
  BY DEF UnlinkRaw, Reply
<1>2. Id \notin confirmed /\ clock \in Ticks /\ note \in Notes
  BY DEF UnlinkRaw, JsonlInv, HostInv, Shapes, Ticks
<1>3. \A t \in Ticks : files'[t] = files[t] \/ files'[t] = Null
  BY <1>1, <1>2 DEF JsonlInv, Shapes
<1>4. \A t \in Ticks \ {clock} : files'[t] = files[t]
  BY <1>1, <1>2 DEF JsonlInv, Shapes
<1>5. \A a \in artifacts : a.id = <<a.id[1], 0>> /\ a.id[1] \in Ticks
  BY DEF JsonlInv, Shapes, MemoryIds
<1>6. Shapes'
  BY <1>1, <1>2 DEF JsonlInv, Shapes, Places
<1>7. StoreInv'
  BY <1>1, <1>3, <1>5 DEF JsonlInv, StoreInv, RetriesNeverDuplicate
<1>8. Kept'
  <2> SUFFICES ASSUME NEW i \in confirmed PROVE i \in Ids(envelopes)' /\ HasText(i)'
    BY <1>1 DEF Kept
  <2>1. PICK a \in artifacts : a.id = i /\ files[i[1]] = a.sha
    BY DEF JsonlInv, Kept, HasText
  <2>2. i[1] \in Ticks \ {clock}
    BY <1>2, <1>5, <2>1 DEF Id
  <2>3. QED  BY <1>1, <1>4, <2>1, <2>2 DEF HasText, JsonlInv, Kept, Ids
<1>9. QED  BY <1>1, <1>6, <1>7, <1>8, LeavingCall

\* A sync appends conflicts only; if there are none the memory is confirmed.
LEMMA SyncKeeps == JsonlInv /\ Sync => JsonlInv'
<1> SUFFICES ASSUME JsonlInv, Sync PROVE JsonlInv'
  OBVIOUS
<1>1. UNCHANGED <<files, artifacts, envelopes, clock, note>> /\ at = "sync"
  BY DEF Sync, diskVars
<1>2. StoreInv' /\ (\A i \in confirmed : i \in Ids(envelopes)' /\ HasText(i)')
  BY <1>1, StoreUntouched
<1>3. \/ at' = "reply" /\ confirmed' = confirmed
      \/ at' = "reply" /\ confirmed' = confirmed \cup {Id}
      \/ at' = "conflict" /\ confirmed' = confirmed
  BY DEF Sync, Reply, ReplyStored
<1>4. Id \in Ids(envelopes)' /\ HasText(Id)' /\ Id' = Id
  BY <1>1, OwnMemoryReadable DEF HasText, Ids, Id
<1>5. Shapes' /\ Kept'
  <2>1. Shapes'
    BY <1>1, <1>3 DEF JsonlInv, Shapes, Places
  <2>2. Kept'
    BY <1>1, <1>2, <1>3, <1>4 DEF Kept, HasText, Ids
  <2>3. QED  BY <2>1, <2>2
<1>6. CASE at' = "reply"
  BY <1>2, <1>5, <1>6, LeavingCall
<1>7. CASE at' = "conflict" /\ confirmed' = confirmed
  <2>1. HostInv'
    BY <1>1, <1>7 DEF JsonlInv, HostInv, Writing, Id, NewArtifact, Ids
  <2>2. QED  BY <1>2, <1>5, <2>1 DEF JsonlInv
<1>8. QED  BY <1>3, <1>6, <1>7

\* The answer reaches the host.
LEMMA ReturnKeeps == JsonlInv /\ Return => JsonlInv'
<1> SUFFICES ASSUME JsonlInv, Return PROVE JsonlInv'
  OBVIOUS
<1>1. Shapes' /\ at' = "idle"
  BY DEF Return, Forget, JsonlInv, Shapes, diskVars, Places
<1>2. StoreInv' /\ Kept'
  BY StoreUntouched DEF Return, diskVars, Kept
<1>3. QED  BY <1>1, <1>2, LeavingCall

\* A failed read, or a raw file that was not written, changes nothing stored.
LEMMA ReadOrWriteFailsKeeps == JsonlInv /\ ReadOrWriteFails => JsonlInv'
<1> SUFFICES ASSUME JsonlInv, ReadOrWriteFails PROVE JsonlInv'
  OBVIOUS
<1>1. Shapes' /\ at' = "reply"
  BY DEF ReadOrWriteFails, Reply, JsonlInv, Shapes, diskVars, Places
<1>2. StoreInv' /\ Kept'
  BY StoreUntouched DEF ReadOrWriteFails, diskVars, Kept
<1>3. QED  BY <1>1, <1>2, LeavingCall

\* A crash, within an append or between two steps.
LEMMA CrashKeeps == JsonlInv /\ Crash => JsonlInv'
<1> SUFFICES ASSUME JsonlInv, Crash PROVE JsonlInv'
  OBVIOUS
<1>1. at' = "idle" /\ UNCHANGED <<clock, confirmed>>
  BY DEF Crash, Forget
<1>2. CASE UNCHANGED diskVars
  <2>1. Shapes'
    BY <1>1, <1>2 DEF diskVars, JsonlInv, Shapes, Places
  <2>2. StoreInv' /\ Kept'
    BY <1>1, <1>2, StoreUntouched DEF diskVars, Kept
  <2>3. QED  BY <1>1, <2>1, <2>2, LeavingCall
<1>3. CASE \E k \in Keys : MayAppend(k) /\ Interrupted(LogAt, k)
  <2>1. PICK k \in Keys : MayAppend(k) /\ Interrupted(LogAt, k)
    BY <1>3
  <2>2. /\ StoreInv' /\ Kept'
        /\ artifacts' \subseteq [id : MemoryIds, sha : Texts]
        /\ \A e \in envelopes' : e.id \in MemoryIds
        /\ files' = files
    BY <1>1, <2>1, RowsInterrupted DEF Kept
  <2>3. Shapes'
    BY <1>1, <2>2 DEF JsonlInv, Shapes, Places
  <2>4. QED  BY <1>1, <2>2, <2>3, LeavingCall
<1>4. QED  BY <1>2, <1>3 DEF Crash

\* Every step keeps the invariant.
LEMMA NextJsonl == JsonlInv /\ [Next]_vars => JsonlInv'
<1> SUFFICES ASSUME JsonlInv, [Next]_vars PROVE JsonlInv'
  OBVIOUS
<1>1. CASE UNCHANGED vars
  <2>1. UNCHANGED <<files, artifacts, envelopes, clock, at, note, confirmed>>
    BY <1>1 DEF vars, diskVars, hostVars
  <2>2. Shapes' /\ StoreInv' /\ Kept'
    BY <2>1 DEF JsonlInv, Shapes, StoreInv, Kept, RetriesNeverDuplicate, HasText, Ids
  <2>3. HostInv'
    BY <2>1 DEF JsonlInv, HostInv, Id, NewArtifact, SameText, Ids
  <2>4. QED  BY <2>2, <2>3 DEF JsonlInv
<1>2. CASE Next
  BY <1>1, <1>2, ReceiveKeeps, DeduplicateKeeps, WriteRawKeeps, AppendKeeps, AppendFailsKeeps,
     UnlinkRawKeeps, SyncKeeps, ReturnKeeps, ReadOrWriteFailsKeeps, CrashKeeps
     DEF Next, Finished
<1>3. QED  BY <1>1, <1>2

\* The invariant holds of every behaviour.
LEMMA JsonlInvariant == Spec => []JsonlInv
BY InitJsonl, NextJsonl, PTL DEF Spec

\* storage.py: a store that doctor calls healthy leads from every memory to its
\* text, for any number of recordings, failed appends, cleanups and crashes.
THEOREM HealthyStoresAreReadable == Spec => []HealthyMeansReadable
<1>1. JsonlInv => HealthyMeansReadable
  <2> SUFFICES ASSUME JsonlInv, DoctorOk, NEW i \in Ids(envelopes) PROVE HasText(i)
    BY DEF HealthyMeansReadable
  <2>1. PICK a \in artifacts : a.id = i
    BY DEF JsonlInv, StoreInv, Ids
  <2>2. files[a.id[1]] # Null /\ files[a.id[1]] \in {Null, a.sha}
    BY DEF JsonlInv, StoreInv, DoctorOk
  <2>3. QED  BY <2>1, <2>2 DEF HasText
<1>2. QED  BY <1>1, JsonlInvariant, PTL

\* A memory whose recording succeeded is never lost and stays readable, whatever
\* later recordings fail and clean up.
THEOREM ConfirmedMemoriesStay == Spec => []ConfirmedMemoriesKept
<1>1. JsonlInv => ConfirmedMemoriesKept
  BY DEF JsonlInv, Kept, ConfirmedMemoriesKept
<1>2. QED  BY <1>1, JsonlInvariant, PTL

\* However often a turn is retried after a failed or interrupted append, its text
\* gets one memory.
THEOREM RetriesStoreOnce == Spec => []RetriesNeverDuplicate
<1>1. JsonlInv => RetriesNeverDuplicate
  BY DEF JsonlInv, StoreInv
<1>2. QED  BY <1>1, JsonlInvariant, PTL

-----------------------------------------------------------------------------
(* Types                                                                   *)

\* What Shapes leaves out: the records and index endings, and what the call carries.
CallTypes ==
    /\ envelopes \subseteq Memory
    /\ conflicts \in [Keys -> ConflictRecord(MemoryIds) \cup {Null}]
    /\ pending \in [Keys -> ConflictRecord(MemoryIds) \cup {Null}]
    /\ ending \in [Logs -> Endings]
    /\ faults \in 0..MaxFaults
    /\ note \in Notes \cup {Null}
    /\ answer \in MemoryIds \cup {Null}
    /\ confirmed \subseteq MemoryIds

LEMMA InitTypes == Init => CallTypes
BY JsonlAssumption DEF Init, CallTypes, NothingPending, Endings

\* The rows an append adds are typed, and the file ends in one of the known ways.
LEMMA AppendTypes ==
    ASSUME JsonlInv, CallTypes, NEW k \in Keys, MayAppend(k),
           AddsRow(LogAt, k) \/ UNCHANGED <<envelopes, conflicts>>,
           NEW e \in Endings, EndsAs(LogAt, e) \/ UNCHANGED ending
    PROVE  /\ envelopes' \subseteq Memory
           /\ conflicts' \in [Keys -> ConflictRecord(MemoryIds) \cup {Null}]
           /\ ending' \in [Logs -> Endings]
<1>1. clock \in Ticks /\ note \in Notes
  BY DEF JsonlInv, HostInv, Shapes, MayAppend, Writing, Ticks
<1>2. NewMemory \in Memory
  BY <1>1, JsonlAssumption DEF NewMemory, Memory, Id, MemoryIds
<1>3. envelopes' \subseteq Memory
  BY <1>2 DEF CallTypes, AddsRow
<1>4. conflicts' \in [Keys -> ConflictRecord(MemoryIds) \cup {Null}]
  BY DEF CallTypes, AddsRow
<1>5. ending' \in [Logs -> Endings]
  BY DEF CallTypes, EndsAs
<1>6. QED  BY <1>3, <1>4, <1>5

LEMMA InterruptedTypes ==
    ASSUME JsonlInv, CallTypes, NEW k \in Keys, MayAppend(k), Interrupted(LogAt, k)
    PROVE  /\ envelopes' \subseteq Memory
           /\ conflicts' \in [Keys -> ConflictRecord(MemoryIds) \cup {Null}]
           /\ ending' \in [Logs -> Endings]
<1>1. PICK e \in Endings : EndsAs(LogAt, e) \/ UNCHANGED ending
  BY DEF Interrupted, Unended, Appended, Endings, diskVars
<1>2. AddsRow(LogAt, k) \/ UNCHANGED <<envelopes, conflicts>>
  BY DEF Interrupted, diskVars
<1>3. QED  BY <1>1, <1>2, AppendTypes

LEMMA NextTypes == JsonlInv /\ CallTypes /\ [Next]_vars => CallTypes'
<1> SUFFICES ASSUME JsonlInv, CallTypes, [Next]_vars PROVE CallTypes'
  OBVIOUS
<1>1. Id \in MemoryIds \/ at \notin Writing
  BY DEF JsonlInv, HostInv, Shapes, Writing, Ticks, Id, MemoryIds
<1>2. NothingPending \in [Keys -> ConflictRecord(MemoryIds) \cup {Null}]
  BY DEF NothingPending
<1>3. CASE \E n \in Notes : Receive(n)
  BY <1>3 DEF Receive, CallTypes, diskVars
<1>4. CASE Deduplicate
  <2>1. answer' \in MemoryIds \cup {Null}
    BY <1>4 DEF Deduplicate, Reply, SameText, CallTypes, Memory
  <2>2. QED  BY <1>4, <2>1 DEF Deduplicate, CallTypes, diskVars
<1>5. CASE WriteRaw
  BY <1>5 DEF WriteRaw, CallTypes
<1>6. CASE Append
  <2>1. PICK k \in Keys : /\ MayAppend(k) /\ AddsRow(LogAt, k) /\ Appended(LogAt)
                          /\ Proceed(k) /\ UNCHANGED <<clock, faults, note>>
    BY <1>6 DEF Append
  <2>2. PICK e \in Endings : EndsAs(LogAt, e)
    BY <2>1 DEF Appended, Endings
  <2>3. /\ envelopes' \subseteq Memory
        /\ conflicts' \in [Keys -> ConflictRecord(MemoryIds) \cup {Null}]
        /\ ending' \in [Logs -> Endings]
    BY <2>1, <2>2, AppendTypes
  <2>4. pending' \in [Keys -> ConflictRecord(MemoryIds) \cup {Null}]
    BY <2>1 DEF Proceed, CallTypes
  <2>5. Id \in MemoryIds
    BY <1>1, <2>1 DEF MayAppend, Writing
  <2>6. answer' \in MemoryIds \cup {Null} /\ confirmed' \subseteq MemoryIds
    BY <2>1, <2>5 DEF Proceed, ReplyStored, Reply, CallTypes
  <2>7. QED  BY <2>1, <2>3, <2>4, <2>6 DEF CallTypes
<1>7. CASE AppendFails
  <2>1. PICK k \in Keys : MayAppend(k) /\ Interrupted(LogAt, k)
    BY <1>7 DEF AppendFails
  <2>2. /\ faults' \in 0..MaxFaults /\ UNCHANGED <<note, pending, confirmed>>
        /\ answer' \in MemoryIds \cup {Null}
    BY <1>7, JsonlAssumption DEF AppendFails, Reply, CallTypes
  <2>3. QED  BY <2>1, <2>2, InterruptedTypes DEF CallTypes
<1>8. CASE UnlinkRaw
  BY <1>8, JsonlAssumption DEF UnlinkRaw, Reply, CallTypes
<1>9. CASE Sync
  <2>1. Ids(envelopes) \subseteq MemoryIds
    BY DEF CallTypes, Memory, Ids
  <2>2. Detect(envelopes, conflicts) \in [Keys -> ConflictRecord(MemoryIds) \cup {Null}]
    BY <2>1, DetectType DEF CallTypes
  <2>3. Id \in MemoryIds
    BY <1>1, <1>9 DEF Sync, Writing
  <2>4. /\ pending' \in [Keys -> ConflictRecord(MemoryIds) \cup {Null}]
        /\ answer' \in MemoryIds \cup {Null} /\ confirmed' \subseteq MemoryIds
    BY <1>9, <2>2, <2>3 DEF Sync, Reply, ReplyStored, CallTypes
  <2>5. QED  BY <1>9, <2>4 DEF Sync, CallTypes, diskVars
<1>10. CASE Return
  BY <1>2, <1>10 DEF Return, Forget, CallTypes, diskVars
<1>11. CASE ReadOrWriteFails
  BY <1>11, JsonlAssumption DEF ReadOrWriteFails, Reply, CallTypes, diskVars
<1>12. CASE Crash
  <2>1. /\ faults' \in 0..MaxFaults /\ confirmed' = confirmed /\ note' = Null
        /\ pending' = NothingPending /\ answer' = Null
    BY <1>12, JsonlAssumption DEF Crash, Forget, CallTypes
  <2>2. CASE UNCHANGED diskVars
    BY <1>2, <2>1, <2>2 DEF diskVars, CallTypes
  <2>3. CASE \E k \in Keys : MayAppend(k) /\ Interrupted(LogAt, k)
    BY <1>2, <2>1, <2>3, InterruptedTypes DEF CallTypes
  <2>4. QED  BY <1>12, <2>2, <2>3 DEF Crash
<1>13. CASE UNCHANGED vars
  BY <1>13 DEF vars, diskVars, hostVars, CallTypes
<1>14. QED
  BY <1>3, <1>4, <1>5, <1>6, <1>7, <1>8, <1>9, <1>10, <1>11, <1>12, <1>13 DEF Next, Finished

\* Rows, records, index endings and the running call keep their types, whatever is
\* torn or cut off.
THEOREM JsonlTypeCorrect == Spec => []TypeOK
<1>1. Spec => []CallTypes
  BY InitTypes, NextTypes, JsonlInvariant, PTL DEF Spec
<1>2. JsonlInv /\ CallTypes => TypeOK
  BY DEF JsonlInv, Shapes, CallTypes, TypeOK
<1>3. QED  BY <1>1, <1>2, JsonlInvariant, PTL

-----------------------------------------------------------------------------
(* The ledger                                                              *)

\* Between the raw file and the last append nobody else's file is touched.
LEMMA ConfirmedFilesStay ==
    ASSUME JsonlInv, [Next]_vars, NEW i \in confirmed
    PROVE  files'[i[1]] = files[i[1]]
<1>1. PICK a \in artifacts : a.id = i /\ files[i[1]] = a.sha
  BY DEF JsonlInv, Kept, HasText
<1>2. i \in MemoryIds /\ i[1] \in Ticks /\ i[1] <= clock /\ clock \in 0..MaxTick
  BY <1>1 DEF JsonlInv, Shapes, StoreInv, MemoryIds, Ticks
<1>3. CASE WriteRaw
  <2>1. i[1] # clock + 1
    BY <1>2 DEF Ticks
  <2>2. QED  BY <1>3, <2>1 DEF WriteRaw, JsonlInv, Shapes
<1>4. CASE UnlinkRaw
  <2>1. i # Id
    BY <1>4 DEF UnlinkRaw, JsonlInv, HostInv, Writing
  <2>2. PICK t \in Ticks : i = <<t, 0>>
    BY <1>2 DEF MemoryIds
  <2>3. i[1] # clock
    BY <2>1, <2>2 DEF Id
  <2>4. QED  BY <1>2, <1>4, <2>3 DEF UnlinkRaw, JsonlInv, Shapes
<1>5. CASE ~WriteRaw /\ ~UnlinkRaw
  BY <1>5 DEF Next, Receive, Deduplicate, Append, AddsRow, AppendFails, Interrupted, Sync,
     Return, ReadOrWriteFails, Crash, Finished, vars, diskVars
<1>6. QED  BY <1>3, <1>4, <1>5

\* A step confirms nothing, or the memory the host has just stored with its text.
LEMMA ConfirmedSteps ==
    ASSUME JsonlInv, [Next]_vars
    PROVE  \/ confirmed' = confirmed
           \/ /\ confirmed' = confirmed \cup {Id}
              /\ Id \in MemoryIds \ confirmed
              /\ files' = files /\ files[clock] = note.text /\ note.text \in Texts
<1>1. at \in {"sync", "conflict"} => /\ Id \in MemoryIds \ confirmed
                                    /\ files[clock] = note.text /\ note.text \in Texts
  BY DEF JsonlInv, Shapes, HostInv, Writing, Id, MemoryIds, Ticks, Texts
<1>2. CASE Append
  BY <1>1, <1>2 DEF Append, Proceed, ReplyStored, AddsRow
<1>3. CASE Sync
  BY <1>1, <1>3 DEF Sync, ReplyStored, diskVars
<1>4. CASE ~Append /\ ~Sync
  BY <1>4 DEF Next, Receive, Deduplicate, WriteRaw, AppendFails, UnlinkRaw,
     Return, ReadOrWriteFails, Crash, Finished, vars
<1>5. QED  BY <1>2, <1>3, <1>4

LEMMA LedgerStep ==
    ASSUME JsonlInv, [Next]_vars
    PROVE  [Ledger!Next]_({[id |-> i, text |-> files[i[1]]] : i \in confirmed})
<1> DEFINE M == {[id |-> i, text |-> files[i[1]]] : i \in confirmed}
<1>1. CASE confirmed' = confirmed
  <2>1. M' = M
    BY <1>1, ConfirmedFilesStay
  <2>2. QED  BY <2>1
<1>2. CASE /\ confirmed' = confirmed \cup {Id}
           /\ Id \in MemoryIds \ confirmed
           /\ files' = files /\ files[clock] = note.text /\ note.text \in Texts
  <2>1. PICK i \in MemoryIds, text \in Texts : i = Id /\ text = note.text
    BY <1>2
  <2>2. i \notin confirmed /\ confirmed' = confirmed \cup {i} /\ files[i[1]] = text
    BY <1>2, <2>1 DEF Id
  <2>3. M' = M \cup {[id |-> i, text |-> text]} /\ i \notin {m.id : m \in M}
    BY <1>2, <2>2
  <2>4. Ledger!Remember(i, text)
    BY <2>3 DEF Ledger!Remember, Ledger!Names
  <2>5. Ledger!Next
    BY <2>4 DEF Ledger!Next
  <2>6. QED  BY <2>5
<1>3. QED  BY <1>1, <1>2, ConfirmedSteps

\* The files without transactions implement the ledger SQLite implements, as far as a
\* host was told of success: storage.py never takes back or rewrites such a memory.
THEOREM JsonlIsLedger == Spec => LedgerSpec
<1>1. Init => Ledger!Init
  BY DEF Init, Ledger!Init
<1>2. JsonlInv /\ [Next]_vars
        => [Ledger!Next]_({[id |-> i, text |-> files[i[1]]] : i \in confirmed})
  BY LedgerStep
<1>3. QED  BY <1>1, <1>2, JsonlInvariant, PTL DEF Spec, LedgerSpec, Ledger!Spec
=============================================================================
