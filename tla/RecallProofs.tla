----------------------------- MODULE RecallProofs -----------------------------
(***************************************************************************)
(* What the reader of Recall puts into a prompt, for any number of         *)
(* clients, keys and memories: the evidence follows the precedence rules,  *)
(* nothing is quoted twice, every memory is explained, the trimming spares *)
(* what is pinned, and the prompt keeps within its cap.                    *)
(***************************************************************************)
EXTENDS Recall, IngestProofs, SequenceTheorems

(***************************************************************************)
(* truncate_to_tokens by itself, for every text, limit and encoder.  The   *)
(* inductive invariant says what the search knows: best fits, lo is just   *)
(* above it, and with a monotone count everything above hi is too long.    *)
(***************************************************************************)

SearchInv ==
    /\ hi <= length
    /\ lo <= hi + 1
    /\ best <= length
    /\ Count[best] <= limit
    /\ lo = best + 1 \/ (lo = 0 /\ best = 0 /\ hi >= 0)
    /\ Monotone => \A n \in (hi + 1)..length : Count[n] > limit

\* The facts the two theorems follow from.
TruncInv ==
    /\ TruncTypeOK
    /\ tpc = "probe" => SearchInv
    /\ Fits
    /\ Longest

LEMMA TruncInvInit == TruncInit => TruncInv
BY TruncationAssumption DEF TruncInit, TruncInv, TruncTypeOK, Fits, Longest

\* A call ends at once or starts with everything in question.
LEMMA TruncInvCall ==
    ASSUME TruncInv, NEW n \in 0..MaxLength, NEW max \in Nat, Truncate(n, max)
    PROVE  TruncInv'
<1> USE TruncationAssumption DEF Truncate
<1>1. TruncTypeOK'
  BY DEF TruncInv, TruncTypeOK
<1>2. (tpc = "probe" => SearchInv)'
  BY DEF SearchInv
<1>3. Fits'
  BY DEF Fits
<1>4. Longest'
  BY DEF Longest
<1> QED BY <1>1, <1>2, <1>3, <1>4 DEF TruncInv

\* A probe halves the lengths in question and keeps what is known of the rest.
LEMMA TruncInvProbe ==
    ASSUME TruncInv, Probe
    PROVE  TruncInv'
<1> USE TruncationAssumption DEF TruncInv, TruncTypeOK
<1>1. /\ Mid \in 0..MaxLength
      /\ lo <= Mid /\ Mid <= hi
  BY DEF Probe, Mid
<1>2. SearchInv /\ Count[Mid] \in Nat /\ Mid <= length
  BY <1>1 DEF Probe, SearchInv
<1>3. CASE Count[Mid] <= limit
  <2>1. best' = Mid /\ lo' = Mid + 1 /\ hi' = hi /\ UNCHANGED <<tpc, length, limit, cut>>
    BY <1>3 DEF Probe
  <2>2. TruncTypeOK'
    BY <2>1, <1>1
  <2>3. SearchInv'
    BY <2>1, <1>1, <1>2, <1>3 DEF SearchInv, Monotone
  <2>4. Fits' /\ Longest'
    BY <2>1 DEF Fits, Longest, Probe
  <2> QED BY <2>2, <2>3, <2>4
<1>4. CASE ~(Count[Mid] <= limit)
  <2>1. hi' = Mid - 1 /\ UNCHANGED <<best, lo, tpc, length, limit, cut>>
    BY <1>4 DEF Probe
  <2>2. TruncTypeOK'
    BY <2>1, <1>1
  <2>3. Mid # 0
    BY <1>4
  <2>4. Monotone => \A n \in Mid..length : Count[n] > limit
    BY <1>1, <1>2, <1>4 DEF Monotone
  <2>5. SearchInv'
    BY <2>1, <2>3, <2>4, <1>1, <1>2 DEF SearchInv, Monotone
  <2>6. Fits' /\ Longest'
    BY <2>1 DEF Fits, Longest, Probe
  <2> QED BY <2>2, <2>5, <2>6
<1> QED BY <1>3, <1>4

\* When nothing is left in question, everything above best is too long.
LEMMA TruncInvStop ==
    ASSUME TruncInv, Stop
    PROVE  TruncInv'
<1> USE TruncationAssumption DEF TruncInv, TruncTypeOK
<1>1. SearchInv /\ lo > hi /\ cut' = best /\ UNCHANGED <<length, limit, lo, hi, best>>
  BY DEF Stop
<1>2. TruncTypeOK' /\ tpc' = "done"
  BY DEF Stop
<1>3. Fits'
  BY <1>1 DEF SearchInv, Fits
<1>4. Longest'
  <2> SUFFICES ASSUME Monotone, NEW n \in 0..length, Count[n] <= limit
               PROVE  n <= best
    BY <1>1 DEF Longest, Monotone
  <2>1. Count[n] \in Nat /\ hi <= best
    BY <1>1 DEF SearchInv
  <2>2. n \notin (hi + 1)..length
    BY <1>1, <2>1 DEF SearchInv
  <2> QED BY <2>1, <2>2
<1> QED BY <1>2, <1>3, <1>4

LEMMA TruncInvHolds == TruncSpec => []TruncInv
<1>1. TruncInv /\ [TruncNext]_truncVars => TruncInv'
  <2> SUFFICES ASSUME TruncInv, [TruncNext]_truncVars PROVE TruncInv'
    OBVIOUS
  <2>1. CASE Probe
    BY <2>1, TruncInvProbe
  <2>2. CASE Stop
    BY <2>2, TruncInvStop
  <2>3. CASE \E n \in 0..MaxLength, max \in Nat : Truncate(n, max)
    BY <2>3, TruncInvCall
  <2>4. CASE UNCHANGED truncVars
    BY <2>4 DEF truncVars, TruncInv, TruncTypeOK, SearchInv, Fits, Longest, Monotone
  <2> QED BY <2>1, <2>2, <2>3, <2>4 DEF TruncNext
<1> QED BY TruncInvInit, <1>1, PTL DEF TruncSpec

\* The result is within the limit, for every encoder, monotone or not: the
\* promise of truncate_to_tokens in tokenizer.py.
THEOREM TruncationFits == TruncSpec => []Fits
BY TruncInvHolds, PTL DEF TruncInv

\* The result is the longest prefix within the limit for every monotone count.
THEOREM TruncationLongest == TruncSpec => []Longest
BY TruncInvHolds, PTL DEF TruncInv

\* The count of the default strategy (estimate_tokens_fallback) is monotone and
\* gives no token to the empty text alone, so both theorems apply to it.
THEOREM EstimateIsMonotone ==
    /\ Estimate \in [0..MaxLength -> Nat]
    /\ \A n \in 0..MaxLength : Estimate[n] = 0 <=> n = 0
    /\ Count = Estimate => Monotone
BY TruncationAssumption DEF Estimate, Monotone

-----------------------------------------------------------------------------
(* The reader of the palace                                                *)

\* A record decides a group: every memory of it is a candidate and the winner is the
\* choice of the rules, unless an operator signed it.
Decides(rec, G) ==
    /\ rec # Null
    /\ rec.cands = Ids(G)
    /\ rec.status # "unresolved"
    /\ rec.winner = Choose(G).winner \/ rec.actor = "operator"

Merging == {"list", "conflicts"}

\* The records in use decide every conflicting group of the listing.
MergedDecides ==
    rpc \notin Merging =>
        \A k \in Keys : IsMany(Group(listed, k)) => Decides(merged[k], Group(listed, k))

\* Whatever is selected, or may yet be, was listed and is no loser.
SelectedSafely ==
    /\ rpc \in {"idle", "list", "conflicts", "rank"} => evidence = {}
    /\ rpc = "evidence" => \A e \in waiting : e \in listed /\ ~IsLoser(e)
    /\ \A x \in evidence : x.env \in listed /\ ~IsLoser(x.env)

\* The store moves on while the reader works, but never loses what was listed.
StillStored == listed \subseteq envelopes

ReaderInv ==
    /\ rpc \in {"idle", "list"} => listed = {}
    /\ StillStored /\ MergedDecides /\ SelectedSafely

RecallInv == TypeInv /\ SoundInv /\ ReaderInv

-----------------------------------------------------------------------------
(* The store                                                               *)

\* Without unpin no memory ever changes or goes away.
LEMMA EnvelopesGrow ==
    ASSUME TypeInv, "unpin" \notin Commands, [Next]_vars
    PROVE  envelopes \subseteq envelopes'
<1>1. ASSUME NEW c \in Clients, ClientNext(c)
      PROVE  envelopes \subseteq envelopes'
  <2>1. CASE CommitRows(c)
    BY <2>1 DEF CommitRows, InsertMemory
  <2>2. CASE ~CommitRows(c)
    BY <1>1, <2>2
    DEF ClientNext, ClientStep, ClientFault, Deduplicate, GroupRepeatedError, WriteRaw,
        CommitFails, UnlinkRaw, ListEnvelopes, MergeConflicts, AppendNext, AppendConflict,
        Return, Crash, StorageFails, WriteRawFails, IngestRaises, Receive, storeVars
  <2>3. QED  BY <2>1, <2>2
<1>2. ASSUME OperatorNext
      PROVE  envelopes \subseteq envelopes'
  <2>1. CASE ImportRows
    BY <2>1 DEF ImportRows, InsertMemory
  <2>2. CASE ~ImportRows
    BY <1>2, <2>2
    DEF OperatorNext, OperatorStep, OperatorFault, StoreDecision, AppendConflict, ReadRawFile,
        ReindexEnds, ImportFails, OperatorCrash, Pin, AppendPin, DecideConflict, ListRawTree,
        MayRun, storeVars
  <2>3. QED  BY <2>1, <2>2
<1>3. CASE UNCHANGED vars
  BY <1>3 DEF vars, storeVars
<1>4. QED  BY <1>1, <1>2, <1>3 DEF Next, Finished

\* A raw file that is lost leaves every other part of the state as it is.
LEMMA LossKeepsTypes ==
    ASSUME TypeInv, LoseFile
    PROVE  /\ TypeInv'
           /\ UNCHANGED <<clock, artifacts, envelopes, pinLog, conflicts, clientVars, operatorVars>>
<1>1. /\ UNCHANGED <<clock, artifacts, envelopes, pinLog, conflicts, clientVars, operatorVars>>
      /\ files' \in [Paths -> Texts \cup {Null}]
  BY DEF LoseFile, UnlinkPath, TypeInv, TypeOK, StoreTypeOK
<1>2. StoreTypeOK'
  BY <1>1 DEF TypeInv, TypeOK, StoreTypeOK
<1>3. ClientTypeOK' /\ OperatorTypeOK'
  BY <1>1 DEF TypeInv, TypeOK, ClientTypeOK, OperatorTypeOK, clientVars, operatorVars
<1>4. Admitted' /\ Stamped' /\ CommandHolds'
  BY <1>1 DEF TypeInv, Admitted, Stamped, CommandHolds, clientVars, operatorVars
<1>5. QED  BY <1>1, <1>2, <1>3, <1>4 DEF TypeInv, TypeOK

\* It takes nothing with it that the conflicts depend on.
LEMMA LossIsHarmless ==
    ASSUME TypeInv, SoundInv, LoseFile
    PROVE  TypeInv' /\ SoundInv' /\ envelopes' = envelopes
<1>1. SoundInv'
  BY LossKeepsTypes DEF SoundInv, clientVars, operatorVars
<1>2. QED  BY <1>1, LossKeepsTypes

\* A query only reads.
LEMMA ReaderLeavesStore ==
    ASSUME ReaderStep \/ QueryFails \/ (\E q \in Queries : Ask(q))
    PROVE  UNCHANGED storeVars
  BY DEF ReaderStep, ListForQuery, MergeForQuery, Rank, SelectEvidence, StartExcerpts,
         SelectExcerpt, StartFit, DropItem, DropExcerpt, FinishFit, TruncateStep, Truncated,
         Trace, Answer, QueryFails, Ask

-----------------------------------------------------------------------------
(* The merge                                                               *)

\* Whatever record is stored, however old, the merge decides every group of the
\* listing: a record that does not fit is replaced by a fresh decision.
LEMMA MergeDecides ==
    ASSUME TypeInv, SoundInv, NEW E, E \subseteq envelopes, NEW k \in Keys,
           IsMany(Group(E, k))
    PROVE  Decides(Detect(E, conflicts)[k], Group(E, k))
<1> DEFINE G == Group(E, k)
<1>1. G \subseteq envelopes
  BY DEF Group
<1>2. CASE Keeps(conflicts[k], G)
  <2>1. /\ Detect(E, conflicts)[k] = conflicts[k]
        /\ conflicts[k] # Null /\ conflicts[k].cands = Ids(G)
        /\ conflicts[k].status # "unresolved"
    BY <1>2 DEF Detect, Keeps
  <2>2. CASE conflicts[k].actor = "operator"
    BY <2>1, <2>2 DEF Decides
  <2>3. CASE conflicts[k].actor # "operator"
    <3>1. PICK H \in SUBSET Group(envelopes, k) :
              conflicts[k].cands = Ids(H) /\ conflicts[k].winner = Choose(H).winner
      BY <2>1, <2>3 DEF SoundInv, SoundRecord
    <3>2. H \subseteq envelopes
      BY DEF Group
    <3>3. H = G
      BY <1>1, <2>1, <3>1, <3>2, SameIdsSameSet DEF SoundInv
    <3>4. QED  BY <2>1, <3>1, <3>3 DEF Decides
  <2>4. QED  BY <2>2, <2>3
<1>3. CASE ~Keeps(conflicts[k], G)
  <2>1. Detect(E, conflicts)[k] = Fresh(G)
    BY <1>3 DEF Detect
  <2>2. Choose(G).status # "unresolved"
    <3>1. G \subseteq Envelope /\ UniqueIds(G)
      BY <1>1 DEF SoundInv, UniqueIds, TypeInv, TypeOK, StoreTypeOK
    <3>2. IsGroup(G) /\ IsBounded(G) /\ IsMany(G)
      BY <3>1, StoredGroups
    <3>3. QED  BY <3>2, ChoiceIsStrongest
  <2>3. /\ Fresh(G).cands = Ids(G) /\ Fresh(G).winner = Choose(G).winner
        /\ Fresh(G).status = Choose(G).status
    BY DEF Fresh
  <2>4. Fresh(G) # Null
    <3>1. Ids(G) \subseteq AllIds
      BY <1>1, IdsOfEnvelopes DEF TypeInv, TypeOK, StoreTypeOK, Ids
    <3>2. QED  BY <3>1, FreshType, NullAssumption
  <2>5. QED  BY <2>1, <2>2, <2>3, <2>4 DEF Decides
<1>4. QED  BY <1>2, <1>3

-----------------------------------------------------------------------------
(* The reader                                                              *)

LEMMA ReaderInvInit == ReaderInit => ReaderInv
  BY DEF ReaderInit, ReaderInv, StillStored, MergedDecides, SelectedSafely, Merging, Group, IsMany

\* While the reader stands still the store may only grow.
LEMMA ReaderInvStays ==
    ASSUME ReaderInv, UNCHANGED readerVars, envelopes \subseteq envelopes'
    PROVE  ReaderInv'
  BY DEF ReaderInv, readerVars, StillStored, MergedDecides, SelectedSafely, IsLoser, RecordsOf

\* A step that keeps the listing and the records may take from what is selected and
\* from what is waiting.
LEMMA ReaderInvShrinks ==
    ASSUME ReaderInv, UNCHANGED <<listed, merged, envelopes>>,
           rpc \in {"evidence", "excerpts", "fit", "truncate", "trace"},
           rpc' \in {"evidence", "excerpts", "fit", "truncate", "trace", "answer"},
           evidence' \subseteq evidence,
           rpc' = "evidence" => rpc = "evidence" /\ waiting' \subseteq waiting
    PROVE  ReaderInv'
<1>1. \A e : IsLoser(e)' <=> IsLoser(e)
  BY DEF IsLoser, RecordsOf
<1>2. StillStored' /\ MergedDecides'
  BY DEF ReaderInv, StillStored, MergedDecides, Merging
<1>3. SelectedSafely'
  BY <1>1 DEF ReaderInv, SelectedSafely
<1>4. QED  BY <1>2, <1>3 DEF ReaderInv

\* With nothing listed there is nothing to decide.
LEMMA ReaderInvDrops ==
    ASSUME DropAll, rpc' \in {"idle", "trace"}
    PROVE  ReaderInv'
<1>1. \A k : ~IsMany(Group(listed', k))
  BY DEF DropAll, Group, IsMany
<1>2. QED
  BY <1>1 DEF DropAll, ReaderInv, StillStored, MergedDecides, SelectedSafely

\* Every step of the reader keeps what it selects in order.
LEMMA ReaderInvStep ==
    ASSUME TypeInv, SoundInv, ReaderInv, ReaderStep
    PROVE  ReaderInv'
<1>1. CASE ListForQuery
  BY <1>1 DEF ListForQuery, RGoto, storeVars, ReaderInv, StillStored, MergedDecides, Merging,
              SelectedSafely
<1>2. CASE MergeForQuery
  <2>1. /\ rpc = "conflicts" /\ rpc' = "rank" /\ UNCHANGED <<listed, evidence, envelopes>>
        /\ merged' = Detect(listed, conflicts)
    BY <1>2 DEF MergeForQuery, RGoto, storeVars
  <2>2. ASSUME NEW k \in Keys, IsMany(Group(listed, k))
        PROVE  Decides(Detect(listed, conflicts)[k], Group(listed, k))
    BY <2>2, MergeDecides DEF ReaderInv, StillStored
  <2>3. MergedDecides'
    BY <2>1, <2>2 DEF MergedDecides
  <2>4. QED  BY <2>1, <2>3 DEF ReaderInv, StillStored, SelectedSafely
<1>3. CASE Rank
  <2>1. /\ rpc = "rank" /\ rpc' = "evidence"
        /\ UNCHANGED <<listed, merged, evidence, envelopes>>
        /\ waiting' \subseteq {e \in listed : Excluded(e) = Null}
    BY <1>3 DEF Rank, RGoto, storeVars, InScope
  <2>2. ASSUME NEW e, Excluded(e) = Null PROVE ~IsLoser(e)
    BY <2>2, RetrievalAssumption DEF Excluded, Reasons
  <2>3. \A e : IsLoser(e)' <=> IsLoser(e)
    BY <2>1 DEF IsLoser, RecordsOf
  <2>4. SelectedSafely'
    BY <2>1, <2>2, <2>3 DEF ReaderInv, SelectedSafely
  <2>5. QED  BY <2>1, <2>4 DEF ReaderInv, StillStored, MergedDecides, Merging
<1>4. CASE SelectEvidence
  <2>1. /\ rpc = "evidence" /\ rpc' = "evidence" /\ UNCHANGED <<listed, merged, envelopes>>
        /\ waiting' \subseteq waiting
        /\ \A x \in evidence' \ evidence : x.env \in waiting
    BY <1>4 DEF SelectEvidence, storeVars
  <2>2. \A e : IsLoser(e)' <=> IsLoser(e)
    BY <2>1 DEF IsLoser, RecordsOf
  <2>3. \A e \in waiting : e \in listed /\ ~IsLoser(e)
    BY <2>1 DEF ReaderInv, SelectedSafely
  <2>4. \A x \in evidence' : x.env \in listed /\ ~IsLoser(x.env)
    BY <2>1, <2>3 DEF ReaderInv, SelectedSafely
  <2>5. SelectedSafely'
    BY <2>1, <2>2, <2>3, <2>4 DEF SelectedSafely
  <2>6. QED  BY <2>1, <2>5 DEF ReaderInv, StillStored, MergedDecides, Merging
<1>5. CASE StartExcerpts \/ SelectExcerpt \/ StartFit
  BY <1>5, ReaderInvShrinks DEF StartExcerpts, SelectExcerpt, StartFit, RGoto, storeVars
<1>6. CASE DropItem \/ DropExcerpt
  BY <1>6, ReaderInvShrinks DEF DropItem, DropExcerpt, MayTrim, storeVars
<1>7. CASE FinishFit
  <2>1. /\ rpc = "fit" /\ rpc' \in {"truncate", "trace"}
        /\ UNCHANGED <<listed, merged, evidence, envelopes>>
    BY <1>7 DEF FinishFit, TrimmingEnds, RGoto, storeVars
  <2>2. QED  BY <2>1, ReaderInvShrinks
<1>8. CASE TruncateStep \/ Truncated \/ Trace
  BY <1>8, ReaderInvShrinks DEF TruncateStep, Truncated, Trace, RGoto, storeVars
<1>9. CASE Answer
  BY <1>9, ReaderInvDrops DEF Answer, RGoto
<1>10. QED
  BY <1>1, <1>2, <1>3, <1>4, <1>5, <1>6, <1>7, <1>8, <1>9 DEF ReaderStep

LEMMA RecallInvNext ==
    ASSUME "unpin" \notin Commands
    PROVE  RecallInv /\ [RecallNext]_recallVars => RecallInv'
<1> SUFFICES ASSUME RecallInv, [RecallNext]_recallVars PROVE RecallInv'
  OBVIOUS
<1> USE DEF RecallInv
<1>1. ASSUME [Next]_vars, ReaderInv' PROVE RecallInv'
  BY <1>1, TypeInvNext, SoundNext
<1>2. CASE Next /\ UNCHANGED readerVars
  <2>1. envelopes \subseteq envelopes'
    BY <1>2, EnvelopesGrow
  <2>2. QED  BY <1>1, <1>2, <2>1, ReaderInvStays
<1>3. CASE LoseFile /\ UNCHANGED readerVars
  BY <1>3, LossIsHarmless, ReaderInvStays
<1>4. ASSUME ReaderStep \/ QueryFails \/ (\E q \in Queries : Ask(q)),
             UNCHANGED <<clientVars, operatorVars>>
      PROVE  RecallInv'
  <2>1. UNCHANGED storeVars
    BY <1>4, ReaderLeavesStore
  <2>2. [Next]_vars
    BY <1>4, <2>1 DEF vars
  <2>3. CASE ReaderStep
    BY <1>1, <2>2, <2>3, ReaderInvStep
  <2>4. CASE QueryFails
    <3>1. DropAll /\ rpc' = "trace"
      BY <2>4 DEF QueryFails, RGoto
    <3>2. QED  BY <1>1, <2>2, <3>1, ReaderInvDrops
  <2>5. ASSUME NEW q \in Queries, Ask(q) PROVE RecallInv'
    <3>1. /\ rpc = "idle" /\ rpc' \in {"list", "answer"}
          /\ UNCHANGED <<listed, merged, evidence, envelopes>>
      BY <2>5 DEF Ask, RGoto, storeVars
    <3>2. listed = {} /\ evidence = {}
      BY <3>1 DEF ReaderInv, SelectedSafely
    <3>3. \A k : ~IsMany(Group({}, k))
      BY DEF Group, IsMany
    <3>4. ReaderInv'
      BY <3>1, <3>2, <3>3 DEF ReaderInv, StillStored, MergedDecides, SelectedSafely
    <3>5. QED  BY <1>1, <2>2, <3>4
  <2>6. QED  BY <1>4, <2>3, <2>4, <2>5
<1>5. CASE UNCHANGED recallVars
  <2>1. [Next]_vars /\ UNCHANGED readerVars /\ envelopes' = envelopes
    BY <1>5 DEF recallVars, vars, storeVars
  <2>2. QED  BY <1>1, <2>1, ReaderInvStays
<1>6. QED  BY <1>2, <1>3, <1>4, <1>5 DEF RecallNext

\* Of the records in use and the winners they name.
LEMMA SelectedFollowsPrecedence ==
    ASSUME RecallInv
    PROVE  EvidenceFollowsPrecedence
<1> SUFFICES ASSUME NEW x \in evidence, x.env.key # Null, IsMany(Group(listed, x.env.key))
             PROVE  \/ x.env.id = Choose(Group(listed, x.env.key)).winner
                    \/ /\ merged[x.env.key] # Null
                       /\ merged[x.env.key].actor = "operator"
                       /\ merged[x.env.key].winner = x.env.id
  BY DEF EvidenceFollowsPrecedence
<1> DEFINE k == x.env.key
           rec == merged[k]
<1>1. x.env \in listed /\ ~IsLoser(x.env) /\ rpc \notin Merging
  BY DEF RecallInv, ReaderInv, SelectedSafely, Merging
<1>2. k \in Keys
  BY <1>1 DEF RecallInv, ReaderInv, StillStored, TypeInv, TypeOK, StoreTypeOK, Envelope
<1>3. Decides(rec, Group(listed, k))
  BY <1>1, <1>2 DEF RecallInv, ReaderInv, MergedDecides
<1>4. x.env.id \in rec.cands
  BY <1>1, <1>3 DEF Decides, Ids, Group
<1>5. rec \in RecordsOf(x.env)
  BY <1>2, <1>3 DEF RecordsOf, Decides
<1>6. x.env.id = rec.winner
  BY <1>1, <1>3, <1>4, <1>5 DEF IsLoser, Decides
<1>7. QED  BY <1>3, <1>6 DEF Decides

\* Without unpin, a prompt never holds two rivals as evidence, and the one it holds
\* is the choice of the rules among all that were listed, or an operator's decision:
\* whatever syncs, crashes and failures left in the conflicts table, and whatever
\* is stored or lost while the query runs.
THEOREM EvidenceAlwaysFollowsPrecedence ==
    ASSUME "unpin" \notin Commands
    PROVE  RecallSpec => []EvidenceFollowsPrecedence
<1>1. RecallInit => RecallInv
  BY TypeInvInit, SoundInit, ReaderInvInit DEF RecallInit, RecallInv
<1>2. RecallInv /\ [RecallNext]_recallVars => RecallInv'
  BY RecallInvNext
<1>3. RecallInv => EvidenceFollowsPrecedence
  BY SelectedFollowsPrecedence
<1>4. QED  BY <1>1, <1>2, <1>3, PTL DEF RecallSpec

-----------------------------------------------------------------------------
(* Texts cut to a limit                                                    *)

\* A nonempty set of lengths has a longest: the least distance to the bound is reached.
LEMMA LongestLength ==
    ASSUME NEW n \in Nat, NEW S \in SUBSET (0..n), S # {}
    PROVE  \E m \in S : \A k \in S : k <= m
<1> DEFINE T == {d \in Nat : d <= n /\ n - d \in S}
           R == {ss \in Nat \X Nat : ss[1] < ss[2]}
<1>1. T \subseteq Nat /\ T # {}
  <2>1. PICK m \in S : TRUE
    OBVIOUS
  <2>2. n - m \in Nat /\ n - (n - m) = m
    OBVIOUS
  <2>3. n - m \in T
    BY <2>2
  <2>4. QED  BY <2>3
<1>2. PICK d \in T : \A j \in T : ~(<<j, d>> \in R)
  <2>1. IsWellFoundedOn(R, Nat)
    BY NatLessThanWellFounded DEF OpToRel
  <2>2. QED  BY <1>1, <2>1, WFMin
<1>3. ASSUME NEW j \in T PROVE d <= j
  <2>1. <<j, d>> \in Nat \X Nat /\ <<j, d>>[1] = j /\ <<j, d>>[2] = d
    OBVIOUS
  <2>2. j < d => <<j, d>> \in R
    BY <2>1, Zenon
  <2>3. ~(j < d)
    BY <1>2, <2>2
  <2>4. QED  BY <2>3
<1>4. ASSUME NEW k \in S PROVE k <= n - d
  <2>1. n - k \in T
    <3>1. n - k \in Nat /\ n - k <= n /\ n - (n - k) = k
      OBVIOUS
    <3>2. QED  BY <3>1
  <2>2. d <= n - k
    BY <1>3, <2>1
  <2>3. QED  BY <2>2
<1>5. QED  BY <1>4

\* truncate_to_tokens has a result for every text and limit, and the result fits.
LEMMA CutFits ==
    ASSUME NEW n \in 0..MaxLength, NEW max \in Nat
    PROVE  Cut(n, max) \in 0..n /\ Count[Cut(n, max)] <= max
<1> DEFINE S == {m \in 0..n : Count[m] <= max}
<1>1. MaxLength \in Nat /\ \A m \in 0..n : Count[m] \in Nat
  BY TruncationAssumption
<1>2. 0 \in S
  <2>1. Count[0] = 0
    BY TruncationAssumption
  <2>2. QED  BY <1>1, <2>1
<1>3. PICK m \in S : \A k \in S : k <= m
  <2>1. n \in Nat /\ S \in SUBSET (0..n) /\ S # {}
    BY <1>1, <1>2
  <2>2. QED  BY <2>1, LongestLength
<1>4. /\ m \in 0..n /\ Count[m] <= max
      /\ Count[n] <= max => m = n
      /\ \A k \in (m + 1)..n : Count[k] > max
  <2>1. ASSUME NEW k \in (m + 1)..n PROVE Count[k] > max
    <3>1. k \in 0..n /\ k > m
      BY <1>1, <1>3
    <3>2. QED  BY <1>1, <1>3, <3>1
  <2>2. ASSUME Count[n] <= max PROVE m = n
    <3>1. n \in S
      BY <1>1, <2>2
    <3>2. QED  BY <1>3, <3>1
  <2>3. QED  BY <1>3, <2>1, <2>2
<1>5. QED  BY <1>4 DEF Cut

LEMMA ShortenedType ==
    ASSUME NEW n \in 0..MaxLength, NEW max \in Nat
    PROVE  Shortened(n, max) \in 0..MaxLength /\ Shortened(n, max) <= n
<1>1. Cut(n, max) \in 0..n /\ MaxLength \in Nat
  BY CutFits, TruncationAssumption
<1>2. QED  BY <1>1 DEF Shortened

\* A count within its share is within it before the safety margin, too.
LEMMA TokBoundsCount ==
    ASSUME NEW n \in 0..MaxLength, NEW cap \in Nat, Tok(n) <= cap
    PROVE  Count[n] <= cap
<1>1. Count[n] \in Nat /\ SafetyPercent \in Nat /\ SafetyPercent >= 100
  BY TruncationAssumption, RetrievalAssumption
<1>2. Count[n] * SafetyPercent >= Count[n] * 100
  BY <1>1
<1>3. Count[n] * SafetyPercent \in Nat
  BY <1>1
<1>4. (Count[n] * SafetyPercent) \div 100 >= Count[n]
  BY <1>1, <1>2, <1>3
<1>5. QED  BY <1>1, <1>4 DEF Tok

-----------------------------------------------------------------------------
(* What is selected, quoted and dropped                                    *)

\* Nothing is gathered before the ranking.
Early == {"idle", "list", "conflicts", "rank"}

NothingYet == waiting = {} /\ evidence = {} /\ excerpts = <<>> /\ reasons = NoReasons

Excerpt == [id : AllIds, length : Nat]

\* The type of the reader but for the text that is cut (TruncTypeOK).
QueryTypeOK ==
    /\ rpc \in RSteps
    /\ query \in Queries \cup {Null}
    /\ listed \in SUBSET Envelope
    /\ merged \in [Keys -> ConflictRecord(AllIds) \cup {Null}]
    /\ relevance \in [Ids(listed) -> 0..MaxScore]
    /\ waiting \subseteq listed
    /\ \A x \in evidence : x.env \in listed /\ x.quote \in Nat
    /\ excerpts \in Seq(Excerpt)
    /\ \A n \in 1..Len(excerpts) : excerpts[n].id \in Ids(listed)
    /\ reasons \in [AllIds -> Reasons \cup {Null}]
    /\ rounds \in 0..MaxRounds
    /\ fallback \in BOOLEAN

\* A running query is one that was asked, its listing holds every memory once.
Gathered ==
    /\ rpc # "idle" => query \in Queries
    /\ rpc \in Early => NothingYet
    /\ UniqueIds(listed)

\* A memory is selected once, and neither it nor one that may yet be selected has a
\* reason to be out.
SelectInv ==
    /\ \A x, y \in evidence : x.env = y.env => x = y
    /\ \A x \in evidence : reasons[x.env.id] = Null
    /\ rpc = "evidence" =>
           \A e \in waiting : reasons[e.id] = Null /\ \A x \in evidence : x.env # e

\* What may yet be quoted as an excerpt is not quoted by an item.
ExcerptInv ==
    /\ rpc = "evidence" => excerpts = <<>>
    /\ rpc = "excerpts" => \A e \in waiting, x \in evidence : x.quote > 0 => x.env # e
    /\ QuotedOnce

\* Nothing is dropped for the budget before the prompt is fitted to it.
DropInv ==
    /\ rpc \in {"evidence", "excerpts"} =>
           \A i \in AllIds : reasons[i] # "dropped_for_budget"
    /\ PinnedDroppedLast

GatherInv == Gathered /\ SelectInv /\ ExcerptInv /\ DropInv /\ EveryMemoryExplained

QueryInv == QueryTypeOK /\ GatherInv

LEMMA IdsOfListed ==
    ASSUME QueryTypeOK
    PROVE  Ids(listed) \subseteq AllIds /\ \A e \in listed : e.id \in AllIds /\ e.id \in Ids(listed)
  BY DEF QueryTypeOK, Ids, Envelope

\* A raw text that can be read is one of the texts.
LEMMA ReadTextType ==
    ASSUME TypeInv, NEW i, ReadArtifactText(i) # Null
    PROVE  ReadArtifactText(i) \in Texts
<1> DEFINE A == {a \in artifacts : a.id = i}
<1>1. A # {} /\ ReadArtifactText(i) = files[(CHOOSE a \in A : TRUE).path]
  BY DEF ReadArtifactText
<1>2. PICK a \in artifacts : ReadArtifactText(i) = files[a.path]
  <2>1. (CHOOSE a \in A : TRUE) \in A
    BY <1>1
  <2>2. QED  BY <1>1, <2>1
<1>3. files[a.path] \in Texts \cup {Null}
  BY DEF TypeInv, TypeOK, StoreTypeOK, Artifact
<1>4. QED  BY <1>2, <1>3

LEMMA QuoteType ==
    ASSUME TypeInv, NEW i, ReadArtifactText(i) # Null
    PROVE  TextLength[ReadArtifactText(i)] \in 1..MaxLength
  BY ReadTextType, RetrievalAssumption

\* The budget of a query is divided into natural shares.
LEMMA BudgetTypes ==
    ASSUME query \in Queries
    PROVE  RoutedBudget \in Nat /\ RawBudget \in Nat /\ Cap \in Nat /\ PerExcerpt \in Nat
<1>1. query.total \in Nat /\ TopKRaw \in Nat /\ MinExcerpt \in Nat
  BY RetrievalAssumption
<1>2. RoutedBudget \in Nat /\ RawBudget \in Nat
  BY <1>1 DEF RoutedBudget, RawBudget
<1>3. ASSUME NEW a \in Nat, NEW b \in Nat, b # 0 PROVE a \div b \in Nat
  BY <1>3
<1>4. RawBudget \div (IF TopKRaw = 0 THEN 1 ELSE TopKRaw) \in Nat
  BY <1>1, <1>2, <1>3
<1>5. QED  BY <1>1, <1>2, <1>4 DEF Cap, PerExcerpt

\* The reasons of the ranking are none of those given later.
LEMMA ExcludedType ==
    ASSUME NEW e
    PROVE  /\ Excluded(e) \in Reasons \cup {Null}
           /\ Excluded(e) # "dropped_for_budget"
           /\ Null # "dropped_for_budget"
  BY RetrievalAssumption DEF Excluded, Reasons

LEMMA QueryTypeInit == ReaderInit => QueryTypeOK
<1> SUFFICES ASSUME ReaderInit PROVE QueryTypeOK
  OBVIOUS
<1>1. relevance \in [Ids(listed) -> 0..MaxScore]
  BY DEF ReaderInit, Ids
<1>2. excerpts \in Seq(Excerpt) /\ Len(excerpts) = 0
  BY EmptySeq DEF ReaderInit
<1>3. /\ rpc \in RSteps /\ query \in Queries \cup {Null} /\ fallback \in BOOLEAN
      /\ reasons \in [AllIds -> Reasons \cup {Null}]
      /\ merged \in [Keys -> ConflictRecord(AllIds) \cup {Null}]
  BY DEF ReaderInit, RSteps, NoReasons
<1>4. rounds \in 0..MaxRounds
  BY RetrievalAssumption DEF ReaderInit
<1>5. listed = {} /\ waiting = {} /\ evidence = {}
  BY DEF ReaderInit
<1>6. QED  BY <1>1, <1>2, <1>3, <1>4, <1>5 DEF QueryTypeOK

\* With nothing kept there is nothing to get wrong.
LEMMA DropAllType ==
    ASSUME DropAll, rpc' \in RSteps, query' \in Queries \cup {Null}, fallback' \in BOOLEAN
    PROVE  QueryTypeOK'
<1>1. relevance' \in [Ids(listed') -> 0..MaxScore]
  BY DEF DropAll, Ids
<1>2. excerpts' \in Seq(Excerpt) /\ Len(excerpts') = 0
  BY EmptySeq DEF DropAll
<1>3. rounds' \in 0..MaxRounds
  BY RetrievalAssumption DEF DropAll
<1>4. QED  BY <1>1, <1>2, <1>3 DEF DropAll, QueryTypeOK, NoReasons

\* Stages after the listing keep it and what was read with it.
LEMMA QueryTypeKeeps ==
    ASSUME QueryTypeOK, UNCHANGED <<query, listed, merged, relevance, fallback>>,
           rpc' \in RSteps, waiting' \subseteq listed,
           \A x \in evidence' : x.env \in listed /\ x.quote \in Nat,
           excerpts' \in Seq(Excerpt),
           \A n \in 1..Len(excerpts') : excerpts'[n].id \in Ids(listed),
           reasons' \in [AllIds -> Reasons \cup {Null}],
           rounds' \in 0..MaxRounds
    PROVE  QueryTypeOK'
  BY DEF QueryTypeOK

\* A sequence without its last element.
LEMMA LastTakenAway ==
    ASSUME NEW S, NEW s \in Seq(S), s # <<>>
    PROVE  /\ SubSeq(s, 1, Len(s) - 1) \in Seq(S)
           /\ Len(SubSeq(s, 1, Len(s) - 1)) = Len(s) - 1
           /\ \A n \in 1..(Len(s) - 1) : SubSeq(s, 1, Len(s) - 1)[n] = s[n]
<1> DEFINE m == Len(s) - 1
           t == SubSeq(s, 1, m)
<1>1. Len(s) \in Nat \ {0} /\ \A n \in 1..Len(s) : s[n] \in S
  BY EmptySeq, LenProperties, ElementOfSeq
<1>2. m \in Nat /\ m \in Int /\ 1 \in Int /\ \A n \in 1..m : s[n] \in S
  BY <1>1
<1> HIDE DEF m
<1>3. /\ t \in Seq(S)
      /\ Len(t) = IF 1 <= m THEN m - 1 + 1 ELSE 0
      /\ \A n \in 1..(m - 1 + 1) : t[n] = s[1 + n - 1]
  BY <1>2, SubSeqProperties
<1>4. Len(t) = m /\ \A n \in 1..m : t[n] = s[n]
  BY <1>2, <1>3
<1>5. QED  BY <1>3, <1>4 DEF m

\* The guard of the trimming loop bounds its rounds.
LEMMA OneMoreRound ==
    ASSUME QueryTypeOK, DropItem \/ DropExcerpt
    PROVE  rounds' \in 0..MaxRounds
<1>1. rounds \in 0..MaxRounds /\ rounds < MaxRounds /\ rounds' = rounds + 1
  BY DEF DropItem, DropExcerpt, MayTrim, QueryTypeOK
<1>2. QED  BY <1>1, RetrievalAssumption

\* Taking an item or an excerpt away, and the stages that touch neither.
LEMMA QueryTypeLater ==
    ASSUME QueryTypeOK,
           StartExcerpts \/ StartFit \/ DropItem \/ DropExcerpt \/ FinishFit \/ TruncateStep
               \/ Truncated \/ Trace
    PROVE  QueryTypeOK'
<1>1. CASE StartExcerpts \/ StartFit \/ FinishFit \/ TruncateStep \/ Truncated
  <2>1. rounds' \in 0..MaxRounds
    BY <1>1, RetrievalAssumption
    DEF StartExcerpts, StartFit, FinishFit, TruncateStep, Truncated, QueryTypeOK
  <2>2. QED
    BY <1>1, <2>1 DEF StartExcerpts, StartFit, FinishFit, TruncateStep, Truncated, RGoto,
                      QueryTypeOK, RSteps
<1>2. CASE DropItem
  <2>1. PICK x \in evidence : /\ evidence' = evidence \ {x}
                              /\ reasons' = [reasons EXCEPT ![x.env.id] = "dropped_for_budget"]
    BY <1>2 DEF DropItem
  <2>2. UNCHANGED <<rpc, query, listed, merged, relevance, waiting, excerpts, fallback>>
    BY <1>2 DEF DropItem
  <2>3. reasons' \in [AllIds -> Reasons \cup {Null}]
    BY <2>1 DEF QueryTypeOK, Reasons
  <2>4. rounds' \in 0..MaxRounds
    BY <1>2, OneMoreRound
  <2>5. QED  BY <2>1, <2>2, <2>3, <2>4, QueryTypeKeeps DEF QueryTypeOK
<1>3. CASE DropExcerpt
  <2>1. /\ UNCHANGED <<rpc, query, listed, merged, relevance, waiting, evidence, reasons, fallback>>
        /\ excerpts # <<>> /\ excerpts' = SubSeq(excerpts, 1, Len(excerpts) - 1)
    BY <1>3 DEF DropExcerpt
  <2>2. /\ excerpts' \in Seq(Excerpt) /\ Len(excerpts') = Len(excerpts) - 1
        /\ \A n \in 1..Len(excerpts') : excerpts'[n] = excerpts[n]
    BY <2>1, LastTakenAway DEF QueryTypeOK
  <2>3. \A n \in 1..Len(excerpts') : excerpts'[n].id \in Ids(listed)
    BY <2>2 DEF QueryTypeOK
  <2>4. rounds' \in 0..MaxRounds
    BY <1>3, OneMoreRound
  <2>5. QED  BY <2>1, <2>2, <2>3, <2>4, QueryTypeKeeps DEF QueryTypeOK
<1>4. CASE Trace
  <2>1. reasons' \in [AllIds -> Reasons \cup {Null}]
    BY <1>4 DEF Trace, QueryTypeOK, Reasons
  <2>2. /\ rpc' = "answer"
        /\ UNCHANGED <<query, listed, merged, relevance, waiting, evidence, excerpts, rounds,
                       fallback>>
    BY <1>4 DEF Trace, RGoto
  <2>3. QED  BY <2>1, <2>2, QueryTypeKeeps DEF QueryTypeOK, RSteps
<1>5. QED  BY <1>1, <1>2, <1>3, <1>4

LEMMA QueryTypeStep ==
    ASSUME TypeInv, QueryTypeOK, Gathered, ReaderStep
    PROVE  QueryTypeOK'
<1>1. CASE ListForQuery
  <2>1. /\ rpc' = "conflicts" /\ listed' = envelopes /\ rpc = "list"
        /\ relevance' \in [Ids(envelopes) -> 0..MaxScore]
        /\ UNCHANGED <<query, merged, waiting, evidence, excerpts, reasons, rounds, fallback>>
    BY <1>1 DEF ListForQuery, RGoto
  <2>2. waiting = {} /\ evidence = {} /\ Len(excerpts) = 0
    BY <2>1, EmptySeq DEF Gathered, Early, NothingYet
  <2>3. QED  BY <2>1, <2>2 DEF QueryTypeOK, RSteps, TypeInv, TypeOK, StoreTypeOK
<1>2. CASE MergeForQuery
  <2>1. Detect(listed, conflicts) \in [Keys -> ConflictRecord(AllIds) \cup {Null}]
    BY IdsOfListed, DetectType DEF TypeInv, TypeOK, StoreTypeOK
  <2>2. QED  BY <1>2, <2>1 DEF MergeForQuery, RGoto, QueryTypeOK, RSteps
<1>3. CASE Rank
  <2>1. waiting' \subseteq listed /\ reasons' \in [AllIds -> Reasons \cup {Null}]
    BY <1>3, ExcludedType DEF Rank, InScope
  <2>2. /\ rpc' = "evidence"
        /\ UNCHANGED <<query, listed, merged, relevance, evidence, excerpts, rounds, fallback>>
    BY <1>3 DEF Rank, RGoto
  <2>3. QED  BY <2>1, <2>2, QueryTypeKeeps DEF QueryTypeOK, RSteps
<1>4. CASE SelectEvidence
  <2>1. PICK e \in waiting :
          /\ waiting' = waiting \ {e}
          /\ IF ~IsDiagnostic(e.kind)
             THEN evidence' = evidence \cup {[env |-> e, quote |-> 0]} /\ UNCHANGED reasons
             ELSE IF ReadArtifactText(e.id) = Null
             THEN reasons' = [reasons EXCEPT ![e.id] = "artifact_unavailable"] /\ UNCHANGED evidence
             ELSE /\ evidence' = evidence \cup
                        {[env |-> e, quote |-> TextLength[ReadArtifactText(e.id)]]}
                  /\ UNCHANGED reasons
    BY <1>4 DEF SelectEvidence
  <2>2. UNCHANGED <<rpc, query, listed, merged, relevance, excerpts, rounds, fallback>>
    BY <1>4 DEF SelectEvidence
  <2>3. ReadArtifactText(e.id) # Null => TextLength[ReadArtifactText(e.id)] \in Nat
    BY QuoteType, TruncationAssumption
  <2>4. \A x \in evidence' : x.env \in listed /\ x.quote \in Nat
    BY <2>1, <2>3 DEF QueryTypeOK
  <2>5. reasons' \in [AllIds -> Reasons \cup {Null}]
    BY <2>1 DEF QueryTypeOK, Reasons
  <2>6. QED  BY <2>1, <2>2, <2>4, <2>5, QueryTypeKeeps DEF QueryTypeOK
<1>5. CASE SelectExcerpt
  <2>1. PICK e \in waiting :
          /\ waiting' = waiting \ {e}
          /\ IF ReadArtifactText(e.id) = Null
             THEN UNCHANGED excerpts
             ELSE excerpts' = Append(excerpts,
                      [id |-> e.id,
                       length |-> Shortened(TextLength[ReadArtifactText(e.id)], PerExcerpt)])
    BY <1>5 DEF SelectExcerpt
  <2>2. /\ UNCHANGED <<rpc, query, listed, merged, relevance, evidence, reasons, rounds, fallback>>
        /\ rpc = "excerpts"
    BY <1>5 DEF SelectExcerpt
  <2>3. CASE ReadArtifactText(e.id) = Null
    BY <2>1, <2>2, <2>3, QueryTypeKeeps DEF QueryTypeOK
  <2>4. CASE ReadArtifactText(e.id) # Null
    <3> DEFINE ex == [id |-> e.id,
                      length |-> Shortened(TextLength[ReadArtifactText(e.id)], PerExcerpt)]
    <3>1. PerExcerpt \in Nat
      BY <2>2, BudgetTypes DEF Gathered
    <3>2. TextLength[ReadArtifactText(e.id)] \in 0..MaxLength /\ MaxLength \in Nat
      BY <2>4, QuoteType, TruncationAssumption
    <3>3. Shortened(TextLength[ReadArtifactText(e.id)], PerExcerpt) \in Nat
      <4>1. Shortened(TextLength[ReadArtifactText(e.id)], PerExcerpt) \in 0..MaxLength
        BY <3>1, <3>2, ShortenedType
      <4>2. QED  BY <3>2, <4>1
    <3>4. ex \in Excerpt /\ ex.id \in Ids(listed)
      BY <3>3, IdsOfListed DEF Excerpt, QueryTypeOK
    <3>5. excerpts' = Append(excerpts, ex)
      BY <2>1, <2>4
    <3> HIDE DEF ex
    <3>6. /\ excerpts' \in Seq(Excerpt) /\ Len(excerpts') = Len(excerpts) + 1
          /\ \A n \in 1..Len(excerpts) : excerpts'[n] = excerpts[n]
          /\ excerpts'[Len(excerpts) + 1] = ex
      BY <3>4, <3>5 DEF QueryTypeOK
    <3>7. \A n \in 1..Len(excerpts') : excerpts'[n].id \in Ids(listed)
      BY <3>4, <3>6 DEF QueryTypeOK
    <3>8. QED  BY <2>1, <2>2, <3>6, <3>7, QueryTypeKeeps DEF QueryTypeOK
  <2>5. QED  BY <2>3, <2>4
<1>6. CASE Answer
  BY <1>6, DropAllType DEF Answer, RGoto, RSteps
<1>7. QED  BY <1>1, <1>2, <1>3, <1>4, <1>5, <1>6, QueryTypeLater DEF ReaderStep

LEMMA GatherInit == ReaderInit => GatherInv
<1> SUFFICES ASSUME ReaderInit PROVE GatherInv
  OBVIOUS
<1>1. /\ rpc = "idle" /\ waiting = {} /\ evidence = {} /\ excerpts = <<>> /\ listed = {}
      /\ reasons = NoReasons /\ Len(excerpts) = 0
  BY EmptySeq DEF ReaderInit
<1>2. QED
  BY <1>1 DEF GatherInv, Gathered, NothingYet, UniqueIds, SelectInv, ExcerptInv, QuotedOnce,
              DropInv, PinnedDroppedLast, EveryMemoryExplained, Answered

LEMMA GatherDrops ==
    ASSUME DropAll, rpc' \in {"idle", "trace"}, rpc' # "idle" => query' \in Queries
    PROVE  GatherInv'
<1>1. /\ waiting' = {} /\ evidence' = {} /\ excerpts' = <<>> /\ listed' = {}
      /\ reasons' = NoReasons /\ Len(excerpts') = 0
  BY EmptySeq DEF DropAll
<1>2. Gathered'
  BY <1>1 DEF Gathered, NothingYet, NoReasons, UniqueIds, Early
<1>3. SelectInv' /\ ExcerptInv' /\ DropInv'
  BY <1>1 DEF SelectInv, ExcerptInv, QuotedOnce, DropInv, PinnedDroppedLast
<1>4. EveryMemoryExplained'
  BY <1>1 DEF EveryMemoryExplained, Answered
<1>5. QED  BY <1>2, <1>3, <1>4 DEF GatherInv

\* Asking, listing and merging gather nothing.
LEMMA GatherEarly ==
    ASSUME UniqueIds(envelopes), QueryInv,
           ListForQuery \/ MergeForQuery \/ (\E q \in Queries : Ask(q))
    PROVE  GatherInv'
<1>1. /\ rpc \in Early
      /\ UNCHANGED <<waiting, evidence, excerpts, reasons>>
      /\ listed' = listed \/ listed' = envelopes
      /\ query' \in Queries
      /\ rpc' \in Early \/ (rpc' = "answer" /\ ~query'.enabled)
  BY RetrievalAssumption
  DEF QueryInv, GatherInv, Gathered, ListForQuery, MergeForQuery, Ask, RGoto, Early
<1>2. /\ waiting = {} /\ evidence = {} /\ excerpts = <<>> /\ reasons = NoReasons
      /\ Len(excerpts) = 0
  BY <1>1, EmptySeq DEF QueryInv, GatherInv, Gathered, NothingYet
<1>3. Gathered'
  BY <1>1, <1>2 DEF QueryInv, GatherInv, Gathered, NothingYet, NoReasons, UniqueIds
<1>4. SelectInv'
  BY <1>1, <1>2 DEF SelectInv
<1>5. ExcerptInv'
  BY <1>1, <1>2 DEF ExcerptInv, QuotedOnce
<1>6. \A i \in AllIds : reasons'[i] = Null
  BY <1>1, <1>2 DEF NoReasons
<1>7. PinnedDroppedLast'
  BY <1>1, <1>2 DEF PinnedDroppedLast
<1>8. DropInv'
  BY <1>6, <1>7, ExcludedType DEF DropInv
<1>9. EveryMemoryExplained'
  BY <1>1 DEF EveryMemoryExplained, Answered, Early
<1>10. QED  BY <1>3, <1>4, <1>5, <1>8, <1>9 DEF GatherInv

\* The ranking gives every memory that is not eligible its reason.
LEMMA GatherRank ==
    ASSUME QueryInv, Rank
    PROVE  GatherInv'
<1>1. /\ rpc = "rank" /\ rpc' = "evidence"
      /\ UNCHANGED <<query, listed, merged, relevance, evidence, excerpts, fallback>>
      /\ reasons' = [i \in AllIds |-> IF i \in Ids(listed)
                                      THEN Excluded(CHOOSE e \in listed : e.id = i) ELSE Null]
      /\ waiting' \subseteq {e \in listed : Excluded(e) = Null}
  BY DEF Rank, RGoto, InScope
<1>2. evidence' = {} /\ excerpts' = <<>> /\ Len(excerpts') = 0
  BY <1>1, EmptySeq DEF QueryInv, GatherInv, Gathered, Early, NothingYet
<1>3. ASSUME NEW e \in waiting' PROVE reasons'[e.id] = Null
  <2>1. e \in listed /\ Excluded(e) = Null /\ e.id \in AllIds /\ e.id \in Ids(listed)
    BY <1>1, IdsOfListed DEF QueryInv
  <2>2. \A f \in listed : f.id = e.id => f = e
    BY <2>1 DEF QueryInv, GatherInv, Gathered, UniqueIds
  <2>3. (CHOOSE f \in listed : f.id = e.id) = e
    BY <2>1, <2>2
  <2>4. QED  BY <1>1, <2>1, <2>3
<1>4. \A i \in AllIds : reasons'[i] # "dropped_for_budget"
  BY <1>1, ExcludedType
<1>5. Gathered'
  BY <1>1 DEF QueryInv, GatherInv, Gathered, Early, UniqueIds
<1>6. SelectInv'
  BY <1>2, <1>3 DEF SelectInv
<1>7. ExcerptInv'
  BY <1>1, <1>2 DEF ExcerptInv, QuotedOnce
<1>8. DropInv'
  BY <1>2, <1>4 DEF DropInv, PinnedDroppedLast
<1>9. EveryMemoryExplained'
  BY <1>1 DEF EveryMemoryExplained, Answered
<1>10. QED  BY <1>5, <1>6, <1>7, <1>8, <1>9 DEF GatherInv

\* One candidate: selected without a reason, or passed over with one.
LEMMA GatherSelect ==
    ASSUME QueryInv, SelectEvidence
    PROVE  GatherInv'
<1>1. PICK e \in waiting :
        /\ waiting' = waiting \ {e}
        /\ \E quote :
              \/ evidence' = evidence \cup {[env |-> e, quote |-> quote]} /\ UNCHANGED reasons
              \/ /\ reasons' = [reasons EXCEPT ![e.id] = "artifact_unavailable"]
                 /\ UNCHANGED evidence
  BY Zenon DEF SelectEvidence
<1>2. /\ rpc = "evidence" /\ UNCHANGED <<rpc, query, listed, merged, relevance, excerpts, fallback>>
  BY DEF SelectEvidence
<1>3. e \in listed /\ e.id \in AllIds /\ reasons \in [AllIds -> Reasons \cup {Null}]
  BY IdsOfListed DEF QueryInv, QueryTypeOK
<1>4. /\ \A f \in waiting : f \in listed /\ reasons[f.id] = Null
      /\ \A x \in evidence : x.env \in listed /\ reasons[x.env.id] = Null /\ x.env # e
      /\ \A f \in waiting : \A x \in evidence : x.env # f
      /\ \A x, y \in evidence : x.env = y.env => x = y
  BY <1>2 DEF QueryInv, QueryTypeOK, GatherInv, SelectInv
<1>5. \A f \in listed : f.id = e.id => f = e
  BY <1>3 DEF QueryInv, GatherInv, Gathered, UniqueIds
<1>6. Gathered'
  BY <1>2 DEF QueryInv, GatherInv, Gathered, Early, UniqueIds
<1>7. SelectInv'
  <2>1. ASSUME NEW quote, evidence' = evidence \cup {[env |-> e, quote |-> quote]},
               UNCHANGED reasons
        PROVE  SelectInv'
    <3>1. \A x \in evidence' : x \in evidence \/ (x.env = e /\ x = [env |-> e, quote |-> quote])
      BY <2>1
    <3>2. \A x, y \in evidence' : x.env = y.env => x = y
      BY <1>4, <3>1
    <3>3. \A x \in evidence' : reasons'[x.env.id] = Null
      BY <1>4, <2>1, <3>1
    <3>4. \A f \in waiting' : reasons'[f.id] = Null /\ \A x \in evidence' : x.env # f
      BY <1>1, <1>4, <2>1, <3>1
    <3>5. QED  BY <3>2, <3>3, <3>4 DEF SelectInv
  <2>2. CASE /\ reasons' = [reasons EXCEPT ![e.id] = "artifact_unavailable"]
             /\ UNCHANGED evidence
    <3>1. \A f \in listed : f # e => reasons'[f.id] = reasons[f.id]
      BY <1>3, <1>5, <2>2
    <3>2. QED  BY <1>1, <1>4, <2>2, <3>1 DEF SelectInv
  <2>3. QED  BY <1>1, <2>1, <2>2
<1>8. excerpts' = <<>> /\ Len(excerpts') = 0
  BY <1>2, EmptySeq DEF QueryInv, GatherInv, ExcerptInv
<1>9. ExcerptInv'
  BY <1>2, <1>8 DEF ExcerptInv, QuotedOnce
<1>10. \A i \in AllIds : reasons'[i] # "dropped_for_budget"
  BY <1>1, <1>2, <1>3 DEF QueryInv, GatherInv, DropInv
<1>11. DropInv'
  BY <1>2, <1>3, <1>10, IdsOfListed DEF DropInv, PinnedDroppedLast, QueryInv
<1>12. EveryMemoryExplained'
  BY <1>2 DEF EveryMemoryExplained, Answered
<1>13. QED  BY <1>6, <1>7, <1>9, <1>11, <1>12 DEF GatherInv

\* The excerpts are taken from what no item quotes.
LEMMA GatherExcerpts ==
    ASSUME QueryInv, StartExcerpts \/ SelectExcerpt \/ StartFit
    PROVE  GatherInv'
<1>1. /\ rpc \in {"evidence", "excerpts"} /\ rpc' \in {"excerpts", "fit"}
      /\ UNCHANGED <<query, listed, evidence, reasons, fallback>>
  BY DEF StartExcerpts, SelectExcerpt, StartFit, RGoto
<1>2. Gathered' /\ SelectInv' /\ EveryMemoryExplained'
  BY <1>1 DEF QueryInv, GatherInv, Gathered, Early, UniqueIds, SelectInv, EveryMemoryExplained,
              Answered
<1>3. DropInv'
  <2>1. \A i \in AllIds : reasons'[i] # "dropped_for_budget"
    BY <1>1 DEF QueryInv, GatherInv, DropInv
  <2>2. QED  BY <1>1, <2>1, IdsOfListed DEF DropInv, PinnedDroppedLast, QueryInv
<1>4. CASE StartExcerpts
  <2>1. excerpts' = <<>> /\ Len(excerpts') = 0
    BY <1>4, EmptySeq DEF StartExcerpts, QueryInv, GatherInv, ExcerptInv
  <2>2. \A e \in waiting', x \in evidence' : x.quote > 0 => x.env # e
    BY <1>1, <1>4 DEF StartExcerpts
  <2>3. rpc' = "excerpts"
    BY <1>4 DEF StartExcerpts, RGoto
  <2>4. ExcerptInv'
    BY <2>1, <2>2, <2>3 DEF ExcerptInv, QuotedOnce
  <2>5. QED  BY <1>2, <1>3, <2>4 DEF GatherInv
<1>5. CASE SelectExcerpt
  <2>1. PICK e \in waiting :
          /\ waiting' = waiting \ {e}
          /\ \/ excerpts' = excerpts
             \/ \E size : excerpts' = Append(excerpts, [id |-> e.id, length |-> size])
    BY <1>5, Zenon DEF SelectExcerpt
  <2>2. rpc = "excerpts" /\ rpc' = "excerpts"
    BY <1>5 DEF SelectExcerpt
  <2>3. \A x \in evidence : x.quote > 0 => x.env.id # e.id
    <3>1. e \in listed /\ \A x \in evidence : x.env \in listed
      BY DEF QueryInv, QueryTypeOK
    <3>2. \A x \in evidence : x.quote > 0 => x.env # e
      BY <2>2 DEF QueryInv, GatherInv, ExcerptInv
    <3>3. QED  BY <3>1, <3>2 DEF QueryInv, GatherInv, Gathered, UniqueIds
  <2>4. QuotedOnce'
    <3>1. CASE excerpts' = excerpts
      BY <1>1, <3>1 DEF QuotedOnce, QueryInv, GatherInv, ExcerptInv
    <3>2. ASSUME NEW size, excerpts' = Append(excerpts, [id |-> e.id, length |-> size])
          PROVE  QuotedOnce'
      <4> DEFINE ex == [id |-> e.id, length |-> size]
      <4>1. ex.id = e.id
        OBVIOUS
      <4> HIDE DEF ex
      <4>2. /\ Len(excerpts) \in Nat /\ Len(excerpts') = Len(excerpts) + 1
            /\ \A n \in 1..Len(excerpts) : excerpts'[n] = excerpts[n]
            /\ excerpts'[Len(excerpts) + 1] = ex
        BY <3>2 DEF QueryInv, QueryTypeOK, ex
      <4>3. ASSUME NEW n \in 1..Len(excerpts'), NEW x \in evidence, x.quote > 0
            PROVE  x.env.id # excerpts'[n].id
        <5>1. CASE n = Len(excerpts) + 1
          BY <2>3, <4>1, <4>2, <4>3, <5>1
        <5>2. CASE n # Len(excerpts) + 1
          <6>1. n \in 1..Len(excerpts) /\ excerpts'[n] = excerpts[n]
            BY <4>2, <5>2
          <6>2. QED  BY <4>3, <6>1 DEF QueryInv, GatherInv, ExcerptInv, QuotedOnce
        <5>3. QED  BY <5>1, <5>2
      <4>4. QED  BY <1>1, <4>3 DEF QuotedOnce
    <3>3. QED  BY <2>1, <3>1, <3>2
  <2>5. ExcerptInv'
    BY <1>1, <2>1, <2>2, <2>4 DEF ExcerptInv, QueryInv, GatherInv
  <2>6. QED  BY <1>2, <1>3, <2>5 DEF GatherInv
<1>6. CASE StartFit
  <2>1. rpc' = "fit" /\ excerpts' = excerpts
    BY <1>6 DEF StartFit, RGoto
  <2>2. ExcerptInv'
    BY <1>1, <2>1 DEF ExcerptInv, QuotedOnce, QueryInv, GatherInv
  <2>3. QED  BY <1>2, <1>3, <2>2 DEF GatherInv
<1>7. QED  BY <1>4, <1>5, <1>6

\* What is pinned outside scratch rooms is dropped after everything that is not.
LEMMA PinnedLast ==
    ASSUME NEW e, NEW f, e.pinned, ~IsScratch(e), f.pinned \in BOOLEAN, DropsBefore(e, f)
    PROVE  f.pinned /\ ~IsScratch(f)
<1>1. ~IsScratch(f)
  BY DEF DropsBefore
<1>2. Worth(e) = 1 /\ Worth(f) = IF f.pinned THEN 1 ELSE 0
  BY <1>1 DEF Worth
<1>3. Worth(e) <= Worth(f)
  BY <1>1, <1>2 DEF DropsBefore
<1>4. QED  BY <1>1, <1>2, <1>3

LEMMA GatherDropItem ==
    ASSUME QueryInv, DropItem
    PROVE  GatherInv'
<1>1. PICK x \in evidence :
        /\ \A y \in evidence \ {x} : DropsBefore(x.env, y.env)
        /\ evidence' = evidence \ {x}
        /\ reasons' = [reasons EXCEPT ![x.env.id] = "dropped_for_budget"]
  BY DEF DropItem
<1>2. rpc = "fit" /\ UNCHANGED <<rpc, query, listed, merged, relevance, waiting, excerpts, fallback>>
  BY DEF DropItem, MayTrim
<1>3. x.env \in listed /\ x.env.id \in AllIds /\ reasons \in [AllIds -> Reasons \cup {Null}]
  BY IdsOfListed DEF QueryInv, QueryTypeOK
<1>4. \A f \in listed : f # x.env => reasons'[f.id] = reasons[f.id]
  <2>1. \A f \in listed : f.id \in AllIds /\ (f.id = x.env.id => f = x.env)
    BY <1>3, IdsOfListed DEF QueryInv, GatherInv, Gathered, UniqueIds
  <2>2. QED  BY <1>1, <1>3, <2>1
<1>5. Gathered' /\ EveryMemoryExplained'
  BY <1>2 DEF QueryInv, GatherInv, Gathered, Early, UniqueIds, EveryMemoryExplained, Answered
<1>6. SelectInv'
  <2>1. \A y \in evidence' : y \in evidence /\ y.env \in listed /\ y.env # x.env
    BY <1>1 DEF QueryInv, QueryTypeOK, GatherInv, SelectInv
  <2>2. \A y \in evidence' : reasons'[y.env.id] = Null
    BY <1>4, <2>1 DEF QueryInv, GatherInv, SelectInv
  <2>3. QED  BY <1>2, <2>1, <2>2 DEF QueryInv, GatherInv, SelectInv
<1>7. ExcerptInv'
  BY <1>1, <1>2 DEF ExcerptInv, QuotedOnce, QueryInv, GatherInv
<1>8. PinnedDroppedLast'
  <2>1. ASSUME NEW e \in listed, reasons'[e.id] = "dropped_for_budget", e.pinned, ~IsScratch(e),
               NEW y \in evidence'
        PROVE  y.env.pinned /\ ~IsScratch(y.env)
    <3>1. y \in evidence /\ y # x
      BY <1>1
    <3>2. CASE e = x.env
      <4>1. DropsBefore(e, y.env) /\ y.env.pinned \in BOOLEAN
        BY <1>1, <3>1, <3>2 DEF QueryInv, QueryTypeOK, Envelope
      <4>2. QED  BY <2>1, <4>1, PinnedLast
    <3>3. CASE e # x.env
      BY <1>4, <2>1, <3>1, <3>3 DEF QueryInv, GatherInv, DropInv, PinnedDroppedLast
    <3>4. QED  BY <3>2, <3>3
  <2>2. QED  BY <1>2, <2>1 DEF PinnedDroppedLast, IsScratch
<1>9. DropInv'
  BY <1>2, <1>8 DEF DropInv
<1>10. QED  BY <1>5, <1>6, <1>7, <1>9 DEF GatherInv

\* Stages after the items are settled: excerpts may go, nothing comes.
LEMMA GatherLater ==
    ASSUME QueryInv, DropExcerpt \/ FinishFit \/ TruncateStep \/ Truncated
    PROVE  GatherInv'
<1>1. /\ rpc \in {"fit", "truncate"} /\ rpc' \in {"fit", "truncate", "trace"}
      /\ UNCHANGED <<query, listed, evidence, reasons, fallback>>
      /\ \/ excerpts' = excerpts
         \/ excerpts # <<>> /\ excerpts' = SubSeq(excerpts, 1, Len(excerpts) - 1)
  BY DEF DropExcerpt, FinishFit, MayTrim, TrimmingEnds, TruncateStep, Truncated, RGoto
<1>2. /\ Len(excerpts) \in Nat /\ Len(excerpts') \in Nat /\ Len(excerpts') <= Len(excerpts)
      /\ \A n \in 1..Len(excerpts') : excerpts'[n] = excerpts[n]
  <2>1. CASE excerpts' = excerpts
    BY <2>1 DEF QueryInv, QueryTypeOK
  <2>2. CASE excerpts # <<>> /\ excerpts' = SubSeq(excerpts, 1, Len(excerpts) - 1)
    <3>1. /\ excerpts \in Seq(Excerpt) /\ Len(excerpts) \in Nat /\ Len(excerpts) # 0
      BY <2>2, EmptySeq DEF QueryInv, QueryTypeOK
    <3>2. /\ Len(excerpts') = Len(excerpts) - 1
          /\ \A n \in 1..(Len(excerpts) - 1) : excerpts'[n] = excerpts[n]
      BY <2>2, <3>1, LastTakenAway
    <3>3. QED  BY <3>1, <3>2
  <2>3. QED  BY <1>1, <2>1, <2>2
<1>3. Gathered' /\ SelectInv' /\ EveryMemoryExplained'
  BY <1>1 DEF QueryInv, GatherInv, Gathered, Early, UniqueIds, SelectInv, EveryMemoryExplained,
              Answered
<1>4. \A n \in 1..Len(excerpts') : n \in 1..Len(excerpts) /\ excerpts'[n] = excerpts[n]
  BY <1>2
<1>5. ExcerptInv'
  BY <1>1, <1>4 DEF ExcerptInv, QuotedOnce, QueryInv, GatherInv
<1>6. DropInv'
  BY <1>1 DEF DropInv, PinnedDroppedLast, IsScratch, QueryInv, GatherInv
<1>7. QED  BY <1>3, <1>5, <1>6 DEF GatherInv

\* The trace gives a reason to everybody that has none and is not selected.
LEMMA GatherTrace ==
    ASSUME QueryInv, Trace
    PROVE  GatherInv'
<1>1. /\ rpc = "trace" /\ rpc' = "answer"
      /\ UNCHANGED <<query, listed, evidence, excerpts, fallback>>
      /\ reasons' = [i \in AllIds |->
                        IF i \in Ids(listed) \ Selected /\ reasons[i] = Null /\ ~fallback
                        THEN "below_top_k" ELSE reasons[i]]
  BY DEF Trace, RGoto
<1>2. Null # "below_top_k" /\ Ids(listed) \subseteq AllIds
  BY RetrievalAssumption, IdsOfListed DEF Reasons, QueryInv
<1>3. \A x \in evidence : /\ x.env \in listed /\ x.env.id \in AllIds
                          /\ x.env.id \in Selected /\ reasons[x.env.id] = Null
  BY IdsOfListed DEF QueryInv, QueryTypeOK, GatherInv, SelectInv, Selected
<1>4. Gathered' /\ ExcerptInv'
  BY <1>1 DEF QueryInv, GatherInv, Gathered, Early, UniqueIds, ExcerptInv, QuotedOnce
<1>5. SelectInv'
  BY <1>1, <1>3 DEF QueryInv, GatherInv, SelectInv
<1>6. \A e \in listed : reasons'[e.id] = "dropped_for_budget" => reasons[e.id] = "dropped_for_budget"
  BY <1>1, IdsOfListed DEF QueryInv
<1>7. DropInv'
  BY <1>1, <1>6 DEF DropInv, PinnedDroppedLast, IsScratch, QueryInv, GatherInv
<1>8. EveryMemoryExplained'
  <2>1. ASSUME NEW i \in Ids(listed), ~fallback
        PROVE  i \in Selected <=> reasons'[i] = Null
    <3>1. i \in Selected => reasons[i] = Null
      BY <1>3 DEF Selected
    <3>2. QED  BY <1>1, <1>2, <2>1, <3>1
  <2>2. Selected' = Selected
    BY <1>1 DEF Selected
  <2>3. QED  BY <1>1, <2>1, <2>2 DEF EveryMemoryExplained, Answered
<1>9. QED  BY <1>4, <1>5, <1>7, <1>8 DEF GatherInv

LEMMA QueryInvStep ==
    ASSUME TypeInv, UniqueIds(envelopes), QueryInv,
           ReaderStep \/ QueryFails \/ (\E q \in Queries : Ask(q))
    PROVE  QueryInv'
<1>1. CASE ReaderStep
  <2>1. QueryTypeOK'
    BY <1>1, QueryTypeStep DEF QueryInv, GatherInv
  <2>2. CASE Answer
    <3>1. DropAll /\ rpc' = "idle"
      BY <2>2 DEF Answer, RGoto
    <3>2. QED  BY <2>1, <3>1, GatherDrops DEF QueryInv
  <2>3. CASE ~Answer
    <3>1. GatherInv'
      BY <1>1, <2>3, GatherEarly, GatherRank, GatherSelect, GatherExcerpts, GatherDropItem,
         GatherLater, GatherTrace DEF ReaderStep
    <3>2. QED  BY <2>1, <3>1 DEF QueryInv
  <2>4. QED  BY <2>2, <2>3
<1>2. CASE QueryFails
  <2>1. /\ DropAll /\ rpc # "idle" /\ rpc' = "trace" /\ query' = query /\ fallback' = TRUE
    BY <1>2 DEF QueryFails, RGoto
  <2>2. query' \in Queries
    BY <2>1 DEF QueryInv, GatherInv, Gathered
  <2>3. QueryTypeOK' /\ GatherInv'
    BY <2>1, <2>2, DropAllType, GatherDrops DEF RSteps
  <2>4. QED  BY <2>3 DEF QueryInv
<1>3. ASSUME NEW q \in Queries, Ask(q) PROVE QueryInv'
  <2>1. QueryTypeOK'
    BY <1>3 DEF Ask, RGoto, QueryInv, QueryTypeOK, RSteps
  <2>2. GatherInv'
    BY <1>3, GatherEarly
  <2>3. QED  BY <2>1, <2>2 DEF QueryInv
<1>4. QED  BY <1>1, <1>2, <1>3

LEMMA QueryInvStays ==
    ASSUME QueryInv, UNCHANGED readerVars
    PROVE  QueryInv'
<1>1. QueryTypeOK'
  BY DEF QueryInv, QueryTypeOK, readerVars
<1>2. Gathered' /\ SelectInv' /\ ExcerptInv'
  BY DEF QueryInv, GatherInv, Gathered, NothingYet, UniqueIds, SelectInv, ExcerptInv, QuotedOnce,
         readerVars
<1>3. DropInv' /\ EveryMemoryExplained'
  BY DEF QueryInv, GatherInv, DropInv, PinnedDroppedLast, IsScratch, EveryMemoryExplained,
         Answered, Selected, readerVars
<1>4. QED  BY <1>1, <1>2, <1>3 DEF QueryInv, GatherInv

\* What the reader relies on of the store: rows have their types and their own ids.
SharedInv == TypeInv /\ UniqueIds(envelopes)

\* A step is of the shared store, with the reader standing still, or of the reader.
LEMMA RecallStepCases ==
    ASSUME SharedInv, [RecallNext]_recallVars
    PROVE  /\ SharedInv'
           /\ \/ UNCHANGED readerVars
              \/ ReaderStep \/ QueryFails \/ (\E q \in Queries : Ask(q))
<1> USE DEF SharedInv
<1>1. ASSUME [Next]_vars PROVE SharedInv'
  BY <1>1, TypeInvNext, UniqueIdsNext
<1>2. CASE (Next \/ LoseFile) /\ UNCHANGED readerVars
  <2>1. CASE LoseFile
    BY <1>2, <2>1, LossKeepsTypes DEF UniqueIds
  <2>2. CASE Next
    BY <1>1, <1>2, <2>2
  <2>3. QED  BY <1>2, <2>1, <2>2
<1>3. CASE /\ ReaderStep \/ QueryFails \/ (\E q \in Queries : Ask(q))
           /\ UNCHANGED <<clientVars, operatorVars>>
  <2>1. [Next]_vars
    BY <1>3, ReaderLeavesStore DEF vars
  <2>2. QED  BY <1>1, <1>3, <2>1
<1>4. CASE UNCHANGED recallVars
  <2>1. UNCHANGED vars /\ UNCHANGED readerVars
    BY <1>4 DEF recallVars, vars
  <2>2. QED  BY <1>1, <2>1
<1>5. QED  BY <1>2, <1>3, <1>4 DEF RecallNext

LEMMA QueryInvHolds == RecallSpec => [](SharedInv /\ QueryInv)
<1>1. RecallInit => SharedInv /\ QueryInv
  BY TypeInvInit, QueryTypeInit, GatherInit
  DEF RecallInit, SharedInv, QueryInv, Init, StoreInit, UniqueIds
<1>2. SharedInv /\ QueryInv /\ [RecallNext]_recallVars => (SharedInv /\ QueryInv)'
  BY RecallStepCases, QueryInvStep, QueryInvStays DEF SharedInv
<1>3. QED  BY <1>1, <1>2, PTL DEF RecallSpec

\* No raw artifact is quoted twice in one prompt, by an item and by an excerpt: what
\* select_raw_diagnostic_excerpts visits leaves out what select_evidence has quoted,
\* for every number of diagnostics and whatever is read, lost or fails in between.
THEOREM AlwaysQuotedOnce == RecallSpec => []QuotedOnce
BY QueryInvHolds, PTL DEF QueryInv, GatherInv, ExcerptInv

\* The trace of every answer accounts for every listed memory: it is selected or has
\* a reason, never both.
THEOREM EveryMemoryAlwaysExplained == RecallSpec => []EveryMemoryExplained
BY QueryInvHolds, PTL DEF QueryInv, GatherInv

\* fit_to_token_budget drops a pinned memory outside scratch rooms only when every
\* item left is another such memory.
THEOREM PinnedAlwaysDroppedLast == RecallSpec => []PinnedDroppedLast
BY QueryInvHolds, PTL DEF QueryInv, GatherInv, DropInv

-----------------------------------------------------------------------------
(* Sums over finite sets: what MapThenSumSet gives and how much it is      *)

\* What MapThenSumSet picks next.
PickOf(s) == CHOOSE x \in s : TRUE

\* g gives every part s of S the sum of F over s, as MapThenFoldSet adds it up.
SumsTo(g, F, S) ==
    g = [s \in SUBSET S |-> IF s = {} THEN 0 ELSE F[PickOf(s)] + g[s \ {PickOf(s)}]]

LEMMA PartialSums ==
    ASSUME NEW F, NEW S, IsFiniteSet(S), NEW g, SumsTo(g, F, S),
           NEW s \in SUBSET S, s # {}
    PROVE  /\ PickOf(s) \in s
           /\ g[s] = F[PickOf(s)] + g[s \ {PickOf(s)}]
           /\ s \ {PickOf(s)} \in SUBSET S
           /\ IsFiniteSet(s)
           /\ Cardinality(s) \in Nat
           /\ Cardinality(s \ {PickOf(s)}) = Cardinality(s) - 1
<1>1. PickOf(s) \in s
  BY DEF PickOf
<1>2. IsFiniteSet(s)
  BY FS_Subset
<1>3. Cardinality(s \ {PickOf(s)}) = Cardinality(s) - 1 /\ Cardinality(s) \in Nat
  BY <1>1, <1>2, FS_RemoveElement, FS_CardinalityType
<1>4. g[s] = F[PickOf(s)] + g[s \ {PickOf(s)}]
  BY DEF SumsTo
<1>5. QED  BY <1>1, <1>2, <1>3, <1>4

\* Two such functions agree on common parts: the smallest part they disagreed about
\* would have a smaller one.
LEMMA SumsAgree ==
    ASSUME NEW F, NEW S, IsFiniteSet(S), NEW g, SumsTo(g, F, S),
           NEW T, IsFiniteSet(T), NEW h, SumsTo(h, F, T)
    PROVE  \A s \in (SUBSET S) \cap (SUBSET T) : g[s] = h[s]
<1> DEFINE Differ == {s \in (SUBSET S) \cap (SUBSET T) : g[s] # h[s]}
           Sizes  == {Cardinality(s) : s \in Differ}
<1> SUFFICES ASSUME Differ # {} PROVE FALSE
  OBVIOUS
<1>1. Sizes \in SUBSET Nat /\ Sizes # {}
  BY FS_Subset, FS_CardinalityType
<1>2. PICK n \in Sizes : \A m \in Sizes : n <= m
  <2> HIDE DEF Sizes
  <2>1. QED  BY <1>1, LeastNatural
<1>3. PICK s \in Differ : Cardinality(s) = n
  OBVIOUS
<1>4. s # {}
  <2>1. g[{}] = 0 /\ h[{}] = 0
    BY DEF SumsTo
  <2>2. QED  BY <1>3, <2>1
<1> DEFINE r == s \ {PickOf(s)}
<1>5. /\ r \in SUBSET S /\ g[s] = F[PickOf(s)] + g[r]
      /\ Cardinality(s) \in Nat /\ Cardinality(r) = Cardinality(s) - 1
  <2>1. s \in SUBSET S
    BY <1>3
  <2> HIDE DEF Differ
  <2>2. QED  BY <1>4, <2>1, PartialSums
<1>6. r \in SUBSET T /\ h[s] = F[PickOf(s)] + h[r]
  <2>1. s \in SUBSET T
    BY <1>3
  <2> HIDE DEF Differ
  <2>2. QED  BY <1>4, <2>1, PartialSums
<1>7. r \notin Differ
  <2>1. Cardinality(r) \notin Sizes
    <3> HIDE DEF Sizes
    <3>1. QED  BY <1>2, <1>3, <1>5
  <2>2. QED  BY <2>1
<1>8. QED  BY <1>3, <1>5, <1>6, <1>7

\* The fold is defined on every finite set.
LEMMA SumExists ==
    ASSUME NEW F, NEW S, IsFiniteSet(S)
    PROVE  \E g : SumsTo(g, F, S)
<1> DEFINE Undefined == {s \in SUBSET S : ~ \E g : SumsTo(g, F, s)}
           Sizes     == {Cardinality(s) : s \in Undefined}
<1> SUFFICES ASSUME Undefined # {} PROVE FALSE
  BY Zenon
<1>1. Sizes \in SUBSET Nat /\ Sizes # {}
  <2>1. Undefined \subseteq SUBSET S
    OBVIOUS
  <2> HIDE DEF Undefined
  <2>2. QED  BY <2>1, FS_Subset, FS_CardinalityType
<1>2. PICK n \in Sizes : \A m \in Sizes : n <= m
  <2> HIDE DEF Sizes
  <2>1. QED  BY <1>1, LeastNatural
<1>3. PICK T \in Undefined : Cardinality(T) = n
  OBVIOUS
<1>4. IsFiniteSet(T) /\ T \in SUBSET S
  BY <1>3, FS_Subset
<1> DEFINE sum == [s \in SUBSET T |-> CHOOSE g : SumsTo(g, F, s)]
<1>5. ASSUME NEW s \in SUBSET T, s # T
      PROVE  IsFiniteSet(s) /\ SumsTo(sum[s], F, s)
  <2>1. IsFiniteSet(s) /\ Cardinality(s) \in Nat /\ Cardinality(T) \in Nat
        /\ Cardinality(s) <= Cardinality(T) /\ Cardinality(s) # Cardinality(T)
    BY <1>4, <1>5, FS_Subset, FS_CardinalityType
  <2>2. s \notin Undefined
    BY <1>2, <1>3, <2>1
  <2>3. PICK g : SumsTo(g, F, s)
    BY <1>4, <2>2
  <2>4. QED  BY <2>1, <2>3
<1> HIDE DEF sum
<1> DEFINE G == [s \in SUBSET T |->
                   IF s = {} THEN 0
                   ELSE F[PickOf(s)] + sum[s \ {PickOf(s)}][s \ {PickOf(s)}]]
<1>6. ASSUME NEW s \in SUBSET T, s # T
      PROVE  G[s] = sum[s][s]
  <2> DEFINE r == s \ {PickOf(s)}
  <2>1. CASE s = {}
    <3>1. SumsTo(sum[s], F, s)
      BY <1>5, <1>6
    <3>2. sum[s][s] = 0
      BY <2>1, <3>1 DEF SumsTo
    <3>3. QED  BY <2>1, <3>2
  <2>2. CASE s # {}
    <3>1. IsFiniteSet(s) /\ SumsTo(sum[s], F, s)
      BY <1>5, <1>6
    <3>2. PickOf(s) \in s
      BY <2>2 DEF PickOf
    <3>3. r \in SUBSET T /\ r # T /\ r \in SUBSET s
      BY <1>6
    <3>4. IsFiniteSet(r) /\ SumsTo(sum[r], F, r)
      BY <1>5, <3>3
    <3>5. sum[s][s] = F[PickOf(s)] + sum[s][r]
      <4>1. PICK h : h = sum[s]
        OBVIOUS
      <4>2. h[s] = F[PickOf(s)] + h[r]
        BY <2>2, <3>1, <4>1 DEF SumsTo
      <4>3. QED  BY <4>1, <4>2
    <3>6. sum[s][r] = sum[r][r]
      <4>1. PICK h, k : h = sum[s] /\ k = sum[r]
        OBVIOUS
      <4>2. IsFiniteSet(s) /\ SumsTo(h, F, s) /\ IsFiniteSet(r) /\ SumsTo(k, F, r)
        BY <3>1, <3>4, <4>1
      <4>3. \A u \in (SUBSET s) \cap (SUBSET r) : h[u] = k[u]
        <5> HIDE DEF r
        <5>1. QED  BY <4>2, SumsAgree
      <4>4. QED  BY <3>3, <4>1, <4>3
    <3>7. QED  BY <2>2, <3>5, <3>6
  <2>3. QED  BY <2>1, <2>2
<1>7. SumsTo(G, F, T)
  <2>1. ASSUME NEW s \in SUBSET T, s # {}
        PROVE  G[s] = F[PickOf(s)] + G[s \ {PickOf(s)}]
    <3>1. PickOf(s) \in s
      BY <2>1 DEF PickOf
    <3>2. G[s \ {PickOf(s)}] = sum[s \ {PickOf(s)}][s \ {PickOf(s)}]
      BY <1>6, <3>1
    <3>3. G[s] = F[PickOf(s)] + sum[s \ {PickOf(s)}][s \ {PickOf(s)}]
      BY <2>1
    <3>4. QED  BY <3>2, <3>3
  <2> DEFINE H == [s \in SUBSET T |-> IF s = {} THEN 0 ELSE F[PickOf(s)] + G[s \ {PickOf(s)}]]
  <2>2. ASSUME NEW s \in SUBSET T PROVE G[s] = H[s]
    <3>1. CASE s = {}
      BY <3>1
    <3>2. CASE s # {}
      <4>1. H[s] = F[PickOf(s)] + G[s \ {PickOf(s)}]
        <5> HIDE DEF G
        <5>1. QED  BY <3>2
      <4>2. QED  BY <2>1, <3>2, <4>1
    <3>3. QED  BY <3>1, <3>2
  <2>3. G = [s \in SUBSET T |-> G[s]]
    OBVIOUS
  <2>4. H = [s \in SUBSET T |-> H[s]]
    <3> HIDE DEF G
    <3>1. QED  OBVIOUS
  <2>5. G = H
    <3> HIDE DEF G, H
    <3>1. QED  BY <2>2, <2>3, <2>4
  <2>6. QED
    <3> HIDE DEF G
    <3>1. QED  BY <2>5 DEF SumsTo
<1>8. QED
  <2> HIDE DEF G
  <2>1. QED  BY <1>3, <1>7

\* A sum has at most as much as its largest term for each of them.
LEMMA SumBounded ==
    ASSUME NEW F, NEW S, IsFiniteSet(S), NEW g, SumsTo(g, F, S),
           NEW M \in Nat, \A x \in S : F[x] \in 0..M
    PROVE  g[S] \in 0..(Cardinality(S) * M)
<1> DEFINE Beyond == {s \in SUBSET S : g[s] \notin 0..(Cardinality(s) * M)}
           Sizes  == {Cardinality(s) : s \in Beyond}
<1> SUFFICES ASSUME Beyond # {} PROVE FALSE
  OBVIOUS
<1>1. Sizes \in SUBSET Nat /\ Sizes # {}
  BY FS_Subset, FS_CardinalityType
<1>2. PICK n \in Sizes : \A m \in Sizes : n <= m
  <2> HIDE DEF Sizes
  <2>1. QED  BY <1>1, LeastNatural
<1>3. PICK s \in Beyond : Cardinality(s) = n
  OBVIOUS
<1>4. s # {}
  <2> SUFFICES ASSUME s = {} PROVE FALSE
    OBVIOUS
  <2>1. g[s] = 0 /\ Cardinality(s) = 0
    BY FS_EmptySet DEF SumsTo
  <2>2. QED  BY <1>3, <2>1
<1> DEFINE r == s \ {PickOf(s)}
<1>5. /\ r \in SUBSET S /\ PickOf(s) \in S
      /\ Cardinality(s) \in Nat /\ Cardinality(r) = Cardinality(s) - 1
      /\ g[s] = F[PickOf(s)] + g[r]
  BY <1>4, PartialSums
<1>6. r \notin Beyond
  <2>1. Cardinality(r) \notin Sizes
    <3> HIDE DEF Sizes
    <3>1. QED  BY <1>2, <1>3, <1>5
  <2>2. QED  BY <2>1
<1>7. g[r] \in 0..((n - 1) * M) /\ F[PickOf(s)] \in 0..M /\ n \in Nat
  BY <1>3, <1>5, <1>6
<1>8. (n - 1) * M + M = n * M
  BY <1>7
<1>9. F[PickOf(s)] + g[r] \in 0..(n * M)
  <2> DEFINE x == F[PickOf(s)]
             y == g[r]
             A == (n - 1) * M
             B == n * M
  <2>1. A \in Int /\ B = A + M
    BY <1>7, <1>8
  <2>2. x \in 0..M /\ y \in 0..A
    BY <1>7
  <2> HIDE DEF x, y, A, B
  <2>3. x + y \in 0..B
    BY <2>1, <2>2
  <2>4. QED  BY <2>3 DEF x, y, B
<1>10. QED  BY <1>3, <1>5, <1>9


-----------------------------------------------------------------------------
(* The length of the prompt                                                *)

ItemLengths    == [x \in evidence |-> ItemLength + Shortened(x.quote, MaxQuote)]
ExcerptLengths == [n \in DOMAIN excerpts |-> ExcerptLength + excerpts[n].length]

\* What render_injected_block adds up are these sums.
LEMMA ItemsAreSummed ==
    ASSUME IsFiniteSet(evidence)
    PROVE  \E g : /\ SumsTo(g, ItemLengths, evidence)
                  /\ MapThenSumSet(LAMBDA x : ItemLength + Shortened(x.quote, MaxQuote), evidence)
                        = g[evidence]
<1> DEFINE IsFold(g) ==
        g = [s \in SUBSET evidence |->
               IF s = {} THEN 0
               ELSE (ItemLength + Shortened((CHOOSE x \in s : TRUE).quote, MaxQuote))
                    + g[s \ {CHOOSE x \in s : TRUE}]]
<1>1. ASSUME NEW s \in SUBSET evidence, s # {}
      PROVE  ItemLengths[PickOf(s)] = ItemLength + Shortened((CHOOSE x \in s : TRUE).quote, MaxQuote)
  BY <1>1 DEF PickOf, ItemLengths
<1>2. ASSUME NEW g PROVE IsFold(g) <=> SumsTo(g, ItemLengths, evidence)
  BY <1>1 DEF SumsTo, PickOf
<1>3. PICK g : SumsTo(g, ItemLengths, evidence)
  BY SumExists
<1>4. IsFold(CHOOSE f : IsFold(f))
  <2>1. IsFold(g)
    BY <1>2, <1>3
  <2>2. QED  BY <2>1, Zenon
<1>5. MapThenSumSet(LAMBDA x : ItemLength + Shortened(x.quote, MaxQuote), evidence)
          = (CHOOSE f : IsFold(f))[evidence]
  BY DEF MapThenSumSet, MapThenFoldSet
<1>6. QED  BY <1>2, <1>4, <1>5

LEMMA ExcerptsAreSummed ==
    ASSUME IsFiniteSet(DOMAIN excerpts)
    PROVE  \E g : /\ SumsTo(g, ExcerptLengths, DOMAIN excerpts)
                  /\ MapThenSumSet(LAMBDA n : ExcerptLength + excerpts[n].length, DOMAIN excerpts)
                        = g[DOMAIN excerpts]
<1> DEFINE S == DOMAIN excerpts
           IsFold(g) ==
        g = [s \in SUBSET S |->
               IF s = {} THEN 0
               ELSE (ExcerptLength + excerpts[CHOOSE n \in s : TRUE].length)
                    + g[s \ {CHOOSE n \in s : TRUE}]]
<1>1. ASSUME NEW s \in SUBSET S, s # {}
      PROVE  ExcerptLengths[PickOf(s)]
                = ExcerptLength + excerpts[CHOOSE n \in s : TRUE].length
  BY <1>1 DEF PickOf, ExcerptLengths
<1>2. ASSUME NEW g PROVE IsFold(g) <=> SumsTo(g, ExcerptLengths, S)
  BY <1>1 DEF SumsTo, PickOf
<1>3. PICK g : SumsTo(g, ExcerptLengths, S)
  BY SumExists
<1>4. IsFold(CHOOSE f : IsFold(f))
  <2>1. IsFold(g)
    <3> HIDE DEF IsFold
    <3>1. QED  BY <1>2, <1>3
  <2>2. QED  BY <2>1, Zenon
<1>5. MapThenSumSet(LAMBDA n : ExcerptLength + excerpts[n].length, S)
          = (CHOOSE f : IsFold(f))[S]
  BY DEF MapThenSumSet, MapThenFoldSet
<1>6. QED  BY <1>2, <1>4, <1>5

\* At most so many items and excerpts, none longer than a stored text.
WithinTexts(n) == n = 0 \/ \E t \in Texts : n <= TextLength[t]

FewSelected ==
    /\ IsFiniteSet(evidence) /\ Cardinality(evidence) <= TopK
    /\ Len(excerpts) <= TopKRaw
    /\ \A x \in evidence : WithinTexts(x.quote)
    /\ \A n \in 1..Len(excerpts) : WithinTexts(excerpts[n].length)

LEMMA FewSelectedInit ==
    ASSUME evidence = {}, excerpts = <<>>
    PROVE  FewSelected
  BY FS_EmptySet, EmptySeq, RetrievalAssumption DEF FewSelected

LEMMA FewSelectedEvidence ==
    ASSUME TypeInv, QueryInv, FewSelected, SelectEvidence
    PROVE  FewSelected'
<1>1. Cardinality(evidence) < TopK /\ excerpts' = excerpts
  BY DEF SelectEvidence
<1>2. CASE evidence' = evidence
  BY <1>1, <1>2 DEF FewSelected, WithinTexts
<1>3. ASSUME NEW x, evidence' = evidence \cup {x}, WithinTexts(x.quote)
      PROVE  FewSelected'
  <2>1. /\ IsFiniteSet(evidence')
        /\ Cardinality(evidence') \in {Cardinality(evidence), Cardinality(evidence) + 1}
        /\ Cardinality(evidence) \in Nat
    BY <1>3, FS_AddElement, FS_CardinalityType DEF FewSelected
  <2>2. Cardinality(evidence') <= TopK
    BY <1>1, <2>1, RetrievalAssumption
  <2>3. QED  BY <1>1, <1>3, <2>1, <2>2 DEF FewSelected, WithinTexts
<1>4. ASSUME NEW e, ReadArtifactText(e.id) # Null
      PROVE  WithinTexts(TextLength[ReadArtifactText(e.id)])
  BY <1>4, ReadTextType, QuoteType, TruncationAssumption DEF WithinTexts
<1>5. PICK e \in waiting :
        \/ evidence' = evidence
        \/ evidence' = evidence \cup {[env |-> e, quote |-> 0]}
        \/ /\ ReadArtifactText(e.id) # Null
           /\ evidence' = evidence \cup {[env |-> e, quote |-> TextLength[ReadArtifactText(e.id)]]}
  BY DEF SelectEvidence
<1>6. CASE evidence' = evidence \cup {[env |-> e, quote |-> 0]}
  BY <1>3, <1>6 DEF WithinTexts
<1>7. CASE /\ ReadArtifactText(e.id) # Null
           /\ evidence' = evidence \cup {[env |-> e, quote |-> TextLength[ReadArtifactText(e.id)]]}
  <2>1. WithinTexts([env |-> e, quote |-> TextLength[ReadArtifactText(e.id)]].quote)
    BY <1>4, <1>7
  <2>2. QED  BY <1>3, <1>7, <2>1
<1>8. QED  BY <1>2, <1>5, <1>6, <1>7

LEMMA FewSelectedExcerpt ==
    ASSUME TypeInv, QueryInv, FewSelected, SelectExcerpt
    PROVE  FewSelected'
<1>1. Len(excerpts) < TopKRaw /\ evidence' = evidence
  BY DEF SelectExcerpt
<1>2. CASE excerpts' = excerpts
  BY <1>1, <1>2 DEF FewSelected, WithinTexts
<1>3. CASE excerpts' # excerpts
  <2>1. PICK e \in waiting :
          /\ ReadArtifactText(e.id) # Null
          /\ excerpts' = Append(excerpts,
                [id |-> e.id,
                 length |-> Shortened(TextLength[ReadArtifactText(e.id)], PerExcerpt)])
    BY <1>3 DEF SelectExcerpt
  <2> DEFINE t == ReadArtifactText(e.id)
             x == [id |-> e.id, length |-> Shortened(TextLength[t], PerExcerpt)]
  <2>2. t \in Texts /\ TextLength[t] \in 0..MaxLength
    BY <2>1, ReadTextType, QuoteType, TruncationAssumption
  <2>3. PerExcerpt \in Nat
    BY BudgetTypes DEF SelectExcerpt, QueryInv, GatherInv, Gathered
  <2>4. WithinTexts(x.length)
    BY <2>2, <2>3, ShortenedType DEF WithinTexts
  <2>5. excerpts \in Seq(Excerpt) /\ excerpts \in Seq(Excerpt \cup {x})
    <3>1. excerpts \in Seq(Excerpt)
      BY DEF QueryInv, QueryTypeOK
    <3> HIDE DEF x
    <3>2. QED  BY <3>1
  <2>6. /\ Len(excerpts') = Len(excerpts) + 1 /\ Len(excerpts) \in Nat
        /\ excerpts'[Len(excerpts) + 1] = x
        /\ \A n \in 1..Len(excerpts) : excerpts'[n] = excerpts[n]
    <3>1. excerpts' = Append(excerpts, x)
      BY <2>1
    <3> HIDE DEF x
    <3>2. QED  BY <2>5, <3>1
  <2>7. Len(excerpts') <= TopKRaw
    BY <1>1, <2>6, RetrievalAssumption
  <2>8. ASSUME NEW n \in 1..Len(excerpts') PROVE WithinTexts(excerpts'[n].length)
    <3>1. n \in 1..Len(excerpts) \/ n = Len(excerpts) + 1
      BY <2>6
    <3> HIDE DEF x
    <3>2. QED  BY <2>4, <2>6, <3>1 DEF FewSelected
  <2>9. QED  BY <1>1, <2>7, <2>8 DEF FewSelected, WithinTexts
<1>4. QED  BY <1>2, <1>3

LEMMA FewSelectedDrop ==
    ASSUME QueryInv, FewSelected, DropItem \/ DropExcerpt
    PROVE  FewSelected'
<1>1. CASE DropItem
  <2>1. PICK x \in evidence : evidence' = evidence \ {x}
    BY <1>1 DEF DropItem
  <2>2. /\ IsFiniteSet(evidence') /\ Cardinality(evidence') = Cardinality(evidence) - 1
        /\ Cardinality(evidence) \in Nat
    BY <2>1, FS_RemoveElement, FS_CardinalityType DEF FewSelected
  <2>3. Cardinality(evidence') <= TopK
    BY <2>2, RetrievalAssumption DEF FewSelected
  <2>4. excerpts' = excerpts
    BY <1>1 DEF DropItem
  <2>5. QED  BY <2>1, <2>2, <2>3, <2>4 DEF FewSelected, WithinTexts
<1>2. CASE DropExcerpt
  <2>1. /\ Len(excerpts') = Len(excerpts) - 1 /\ Len(excerpts) \in Nat
        /\ \A n \in 1..Len(excerpts') : excerpts'[n] = excerpts[n]
    BY <1>2, LastTakenAway, LenProperties DEF DropExcerpt, QueryInv, QueryTypeOK
  <2>2. Len(excerpts') <= TopKRaw
    BY <2>1, RetrievalAssumption DEF FewSelected
  <2>3. evidence' = evidence
    BY <1>2 DEF DropExcerpt
  <2>4. QED  BY <2>1, <2>2, <2>3 DEF FewSelected, WithinTexts
<1>3. QED  BY <1>1, <1>2

LEMMA FewSelectedStep ==
    ASSUME TypeInv, QueryInv, FewSelected,
           ReaderStep \/ QueryFails \/ (\E q \in Queries : Ask(q))
    PROVE  FewSelected'
<1>1. CASE UNCHANGED <<evidence, excerpts>>
  BY <1>1 DEF FewSelected, WithinTexts
<1>2. CASE DropAll
  <2>1. evidence' = {} /\ excerpts' = <<>>
    BY <1>2 DEF DropAll
  <2>2. QED  BY <2>1, FS_EmptySet, EmptySeq, RetrievalAssumption DEF FewSelected
<1>3. CASE \/ ListForQuery \/ MergeForQuery \/ Rank \/ StartExcerpts \/ StartFit
           \/ FinishFit \/ TruncateStep \/ Truncated \/ Trace
           \/ (\E q \in Queries : Ask(q))
  BY <1>1, <1>3 DEF ListForQuery, MergeForQuery, Rank, StartExcerpts, StartFit, FinishFit,
                    TruncateStep, Truncated, Trace, Ask
<1>4. CASE Answer \/ QueryFails
  BY <1>2, <1>4 DEF Answer, QueryFails
<1>5. QED
  BY <1>3, <1>4, FewSelectedEvidence, FewSelectedExcerpt, FewSelectedDrop DEF ReaderStep

\* No prompt is longer than MaxLength.
LEMMA PromptFits ==
    ASSUME QueryInv, FewSelected
    PROVE  Rendered(evidence, excerpts) \in 0..MaxLength
<1>1. PICK longest \in 0..MaxLength :
        /\ \A x \in Texts : TextLength[x] <= longest
        /\ HeaderLength + 2 * EmptyLength + TopK * (ItemLength + longest)
               + TopKRaw * (ExcerptLength + longest) <= MaxLength
  BY PromptAssumption
<1>2. /\ longest \in Nat /\ MaxLength \in Nat /\ \A t \in Texts : TextLength[t] \in Nat
      /\ {HeaderLength, ItemLength, ExcerptLength, EmptyLength, TopK, TopKRaw, MaxQuote} \subseteq Nat
  BY <1>1, RetrievalAssumption, TruncationAssumption
<1>3. ASSUME NEW n \in Nat, WithinTexts(n) PROVE n <= longest
  BY <1>1, <1>2, <1>3 DEF WithinTexts
<1>4. \A x \in evidence : ItemLengths[x] \in 0..(ItemLength + longest)
  <2> SUFFICES ASSUME NEW x \in evidence PROVE ItemLengths[x] \in 0..(ItemLength + longest)
    OBVIOUS
  <2>1. x.quote \in 0..longest /\ x.quote \in 0..MaxLength
    BY <1>1, <1>2, <1>3 DEF FewSelected, QueryInv, QueryTypeOK
  <2>2. Shortened(x.quote, MaxQuote) \in 0..longest
    <3>1. Shortened(x.quote, MaxQuote) \in 0..MaxLength /\ Shortened(x.quote, MaxQuote) <= x.quote
      BY <1>2, <2>1, ShortenedType
    <3>2. QED  BY <1>2, <2>1, <3>1
  <2>3. QED  BY <1>2, <2>2 DEF ItemLengths
<1> DEFINE S == DOMAIN excerpts
           items == MapThenSumSet(LAMBDA x : ItemLength + Shortened(x.quote, MaxQuote), evidence)
           quotes == MapThenSumSet(LAMBDA n : ExcerptLength + excerpts[n].length, DOMAIN excerpts)
<1>5. S = 1..Len(excerpts) /\ Len(excerpts) \in Nat /\ IsFiniteSet(S) /\ Cardinality(S) = Len(excerpts)
  <2>1. excerpts \in Seq(Excerpt)
    BY DEF QueryInv, QueryTypeOK
  <2>2. S = 1..Len(excerpts) /\ Len(excerpts) \in Nat
    BY <2>1, LenProperties
  <2> DEFINE b == Len(excerpts)
  <2>3. IsFiniteSet(1..b) /\ Cardinality(1..b) = b
    <3>1. b \in Nat
      BY <2>2
    <3> HIDE DEF b
    <3>2. b \in Int /\ 1 \in Int
      BY <3>1
    <3>3. IsFiniteSet(1..b) /\ Cardinality(1..b) = IF 1 > b THEN 0 ELSE b - 1 + 1
      BY <3>2, FS_Interval
    <3>4. QED  BY <3>1, <3>3
  <2>4. QED  BY <2>2, <2>3
<1>6. \A n \in S : ExcerptLengths[n] \in 0..(ExcerptLength + longest)
  <2> SUFFICES ASSUME NEW n \in S PROVE ExcerptLengths[n] \in 0..(ExcerptLength + longest)
    OBVIOUS
  <2>1. excerpts[n] \in Excerpt
    BY <1>5, ElementOfSeq DEF QueryInv, QueryTypeOK
  <2>2. excerpts[n].length \in Nat /\ WithinTexts(excerpts[n].length)
    BY <1>5, <2>1 DEF FewSelected, Excerpt
  <2>3. QED  BY <1>2, <1>3, <2>2 DEF ExcerptLengths
<1>7. items \in 0..(Cardinality(evidence) * (ItemLength + longest))
  <2>1. PICK g : SumsTo(g, ItemLengths, evidence) /\ items = g[evidence]
    BY ItemsAreSummed DEF FewSelected
  <2> DEFINE M == ItemLength + longest
  <2>2. g[evidence] \in 0..(Cardinality(evidence) * M)
    <3>1. M \in Nat /\ \A x \in evidence : ItemLengths[x] \in 0..M
      BY <1>2, <1>4
    <3> HIDE DEF M
    <3>2. IsFiniteSet(evidence)
      BY DEF FewSelected
    <3>3. QED  BY <2>1, <3>1, <3>2, SumBounded
  <2>3. QED  BY <2>1, <2>2
<1>8. quotes \in 0..(Len(excerpts) * (ExcerptLength + longest))
  <2>1. PICK g : SumsTo(g, ExcerptLengths, S) /\ quotes = g[S]
    BY <1>5, ExcerptsAreSummed
  <2> DEFINE M == ExcerptLength + longest
  <2>2. g[S] \in 0..(Cardinality(S) * M)
    <3>1. M \in Nat /\ \A n \in S : ExcerptLengths[n] \in 0..M
      BY <1>2, <1>6
    <3> HIDE DEF S, M
    <3>2. QED  BY <1>5, <2>1, <3>1, SumBounded
  <2>3. QED  BY <1>5, <2>1, <2>2
<1>9. ASSUME NEW k \in Nat, NEW K \in Nat, NEW M \in Nat, k <= K
      PROVE  k * M \in Nat /\ K * M \in Nat /\ k * M <= K * M
  BY <1>9
<1> HIDE DEF S, items, quotes
<1>10. items \in Nat /\ items <= TopK * (ItemLength + longest)
  <2>1. Cardinality(evidence) \in Nat /\ Cardinality(evidence) <= TopK
    BY FS_CardinalityType DEF FewSelected
  <2>2. ItemLength + longest \in Nat
    BY <1>2
  <2> DEFINE M == ItemLength + longest
             A == Cardinality(evidence) * M
             B == TopK * M
  <2>3. A \in Nat /\ B \in Nat /\ A <= B
    <3> HIDE DEF M
    <3>1. QED  BY <1>2, <1>9, <2>1, <2>2 DEF M
  <2>4. items \in 0..A
    BY <1>7
  <2> HIDE DEF A, B
  <2>5. items \in Nat /\ items <= B
    BY <2>3, <2>4
  <2>6. QED  BY <2>5 DEF B
<1>11. quotes \in Nat /\ quotes <= TopKRaw * (ExcerptLength + longest)
  <2>1. Len(excerpts) <= TopKRaw /\ ExcerptLength + longest \in Nat
    BY <1>2 DEF FewSelected
  <2> DEFINE M == ExcerptLength + longest
             A == Len(excerpts) * M
             B == TopKRaw * M
  <2>2. A \in Nat /\ B \in Nat /\ A <= B
    <3> HIDE DEF M
    <3>1. QED  BY <1>2, <1>5, <1>9, <2>1 DEF M
  <2>3. quotes \in 0..A
    BY <1>8
  <2> HIDE DEF A, B
  <2>4. quotes \in Nat /\ quotes <= B
    BY <2>2, <2>3
  <2>5. QED  BY <2>4 DEF B
<1> DEFINE none == IF evidence = {} THEN EmptyLength ELSE 0
           silent == IF excerpts = <<>> THEN EmptyLength ELSE 0
<1>12. /\ Rendered(evidence, excerpts) = HeaderLength + none + items + silent + quotes
       /\ none \in 0..EmptyLength /\ silent \in 0..EmptyLength
  <2>1. Rendered(evidence, excerpts) = HeaderLength + none + items + silent + quotes
    BY DEF Rendered, items, quotes
  <2>2. none \in 0..EmptyLength /\ silent \in 0..EmptyLength
    BY <1>2
  <2>3. QED  BY <2>1, <2>2
<1> DEFINE X == TopK * (ItemLength + longest)
           Y == TopKRaw * (ExcerptLength + longest)
<1>13. X \in Nat /\ Y \in Nat /\ HeaderLength + 2 * EmptyLength + X + Y <= MaxLength
  BY <1>1, <1>2
<1>14. items <= X /\ quotes <= Y
  BY <1>10, <1>11
<1> HIDE DEF X, Y, none, silent
<1>15. HeaderLength + none + items + silent + quotes \in 0..MaxLength
  BY <1>2, <1>10, <1>11, <1>12, <1>13, <1>14
<1>16. QED  BY <1>12, <1>15

-----------------------------------------------------------------------------
(* The cap of the prompt                                                   *)

\* The search for the cut works with the cap of the query, and what has been fitted
\* is within it.
BlockInv ==
    /\ TruncInv
    /\ block \in 0..MaxLength
    /\ rpc = "truncate" => limit = Cap
    /\ rpc \in {"trace", "answer"} /\ ~fallback /\ query.enabled => Count[block] <= Cap

LEMMA BlockInit == ReaderInit => BlockInv
<1> SUFFICES ASSUME ReaderInit PROVE BlockInv
  OBVIOUS
<1>1. TruncInv
  BY TruncInvInit DEF ReaderInit
<1>2. QED  BY <1>1, TruncationAssumption DEF ReaderInit, BlockInv

LEMMA BlockDrops ==
    ASSUME DropAll, rpc' # "truncate", rpc' = "idle" \/ fallback'
    PROVE  BlockInv'
<1>1. TruncInv'
  BY TruncationAssumption DEF DropAll, TruncInv, TruncTypeOK, Fits, Longest
<1>2. QED  BY <1>1, TruncationAssumption DEF DropAll, BlockInv

\* What neither renders nor cuts changes no length.
LEMMA BlockKeeps ==
    ASSUME BlockInv, UNCHANGED <<block, truncVars>>, rpc' # "truncate",
           \/ rpc' \notin {"trace", "answer"}
           \/ ~query'.enabled
           \/ rpc = "trace" /\ UNCHANGED <<query, fallback>>
    PROVE  BlockInv'
<1>1. TruncInv'
  BY DEF BlockInv, TruncInv, TruncTypeOK, SearchInv, Fits, Longest, truncVars
<1>2. Cap' = Cap \/ query' # query
  BY DEF Cap, RoutedBudget, RawBudget
<1>3. (rpc' \in {"trace", "answer"} /\ ~fallback' /\ query'.enabled) => Count[block'] <= Cap'
  <2>1. CASE rpc = "trace" /\ UNCHANGED <<query, fallback>>
    <3>1. ~fallback /\ query.enabled => Count[block] <= Cap
      BY <2>1 DEF BlockInv
    <3>2. QED  BY <1>2, <2>1, <3>1
  <2>2. CASE ~(rpc = "trace" /\ UNCHANGED <<query, fallback>>)
    BY <2>2
  <2>3. QED  BY <2>1, <2>2
<1>4. QED  BY <1>1, <1>3 DEF BlockInv

LEMMA BlockFinish ==
    ASSUME QueryInv, BlockInv, FewSelected, FinishFit
    PROVE  BlockInv'
<1> DEFINE n == Rendered(evidence, excerpts)
<1>1. /\ rpc = "fit" /\ block' = n /\ UNCHANGED <<query, fallback>>
      /\ IF TooLong THEN Truncate(n, Cap) /\ rpc' = "truncate"
                    ELSE rpc' = "trace" /\ UNCHANGED truncVars
  BY DEF FinishFit, TrimmingEnds, RGoto
<1>2. n \in 0..MaxLength
  BY PromptFits
<1>3. Cap \in Nat /\ Cap' = Cap
  BY <1>1, BudgetTypes DEF QueryInv, GatherInv, Gathered, Cap, RoutedBudget, RawBudget
<1>4. CASE TooLong
  <2>1. Truncate(n, Cap)
    BY <1>1, <1>4
  <2>2. TruncInv'
    BY <1>2, <1>3, <2>1, TruncInvCall DEF BlockInv
  <2>3. limit' = Cap
    BY <2>1 DEF Truncate
  <2>4. QED  BY <1>1, <1>2, <1>3, <1>4, <2>2, <2>3 DEF BlockInv
<1>5. CASE ~TooLong
  <2>1. Tok(n) <= Cap
    <3>1. Tok(n) \in Int
      BY <1>2, TruncationAssumption, RetrievalAssumption DEF Tok
    <3>2. QED  BY <1>3, <1>5, <3>1 DEF TooLong
  <2>2. Count[n] <= Cap
    BY <1>2, <1>3, <2>1, TokBoundsCount
  <2>3. TruncInv'
    BY <1>1, <1>5 DEF BlockInv, TruncInv, TruncTypeOK, SearchInv, Fits, Longest, truncVars
  <2>4. QED  BY <1>1, <1>2, <1>3, <1>5, <2>2, <2>3 DEF BlockInv
<1>6. QED  BY <1>4, <1>5

LEMMA BlockTruncate ==
    ASSUME BlockInv, TruncateStep \/ Truncated
    PROVE  BlockInv'
<1>1. CASE TruncateStep
  <2>1. /\ rpc = "truncate" /\ UNCHANGED <<rpc, query, block, fallback>>
        /\ Probe \/ Stop
    BY <1>1 DEF TruncateStep
  <2>2. TruncInv' /\ limit' = limit
    BY <2>1, TruncInvProbe, TruncInvStop DEF BlockInv, Probe, Stop
  <2>3. Cap' = Cap
    BY <2>1 DEF Cap, RoutedBudget, RawBudget
  <2>4. QED  BY <2>1, <2>2, <2>3 DEF BlockInv
<1>2. CASE Truncated
  <2>1. /\ rpc = "truncate" /\ tpc = "done" /\ block' = cut /\ rpc' = "trace"
        /\ UNCHANGED <<query, fallback, truncVars>>
    BY <1>2 DEF Truncated, RGoto
  <2>2. Count[cut] <= Cap /\ cut \in 0..MaxLength
    BY <2>1 DEF BlockInv, TruncInv, TruncTypeOK, Fits
  <2>3. TruncInv'
    BY <2>1 DEF BlockInv, TruncInv, TruncTypeOK, SearchInv, Fits, Longest, truncVars
  <2>4. Cap' = Cap
    BY <2>1 DEF Cap, RoutedBudget, RawBudget
  <2>5. QED  BY <2>1, <2>2, <2>3, <2>4 DEF BlockInv
<1>3. QED  BY <1>1, <1>2

LEMMA BlockInvStep ==
    ASSUME QueryInv, BlockInv, FewSelected,
           ReaderStep \/ QueryFails \/ (\E q \in Queries : Ask(q))
    PROVE  BlockInv'
<1>1. CASE ListForQuery \/ MergeForQuery \/ Rank \/ SelectEvidence \/ StartExcerpts
               \/ SelectExcerpt \/ StartFit \/ DropItem \/ DropExcerpt
  <2>1. UNCHANGED <<block, truncVars>> /\ rpc' \notin {"truncate", "trace", "answer"}
    BY <1>1 DEF ListForQuery, MergeForQuery, Rank, SelectEvidence, StartExcerpts, SelectExcerpt,
                StartFit, DropItem, DropExcerpt, MayTrim, RGoto
  <2>2. QED  BY <2>1, BlockKeeps
<1>2. CASE FinishFit
  BY <1>2, BlockFinish
<1>3. CASE TruncateStep \/ Truncated
  BY <1>3, BlockTruncate
<1>4. CASE Trace
  BY <1>4, BlockKeeps DEF Trace, RGoto
<1>5. CASE Answer \/ QueryFails
  BY <1>5, BlockDrops DEF Answer, QueryFails, RGoto
<1>6. ASSUME NEW q \in Queries, Ask(q) PROVE BlockInv'
  BY <1>6, BlockKeeps DEF Ask, RGoto
<1>7. QED  BY <1>1, <1>2, <1>3, <1>4, <1>5, <1>6 DEF ReaderStep

LEMMA BlockInvStays ==
    ASSUME BlockInv, UNCHANGED readerVars
    PROVE  BlockInv'
<1>1. TruncInv'
  BY DEF BlockInv, TruncInv, TruncTypeOK, SearchInv, Fits, Longest, truncVars, readerVars
<1>2. Cap' = Cap
  BY DEF Cap, RoutedBudget, RawBudget, readerVars
<1>3. UNCHANGED <<rpc, query, block, fallback, limit>>
  BY DEF readerVars, truncVars
<1>4. QED  BY <1>1, <1>2, <1>3 DEF BlockInv

LEMMA BlockInvHolds == RecallSpec => [](FewSelected /\ BlockInv)
<1>1. RecallInit => FewSelected /\ BlockInv
  BY BlockInit, FewSelectedInit DEF RecallInit, ReaderInit
<1>2. SharedInv /\ QueryInv /\ FewSelected /\ BlockInv /\ [RecallNext]_recallVars
          => (FewSelected /\ BlockInv)'
  <2> SUFFICES ASSUME SharedInv, QueryInv, FewSelected, BlockInv, [RecallNext]_recallVars
               PROVE  FewSelected' /\ BlockInv'
    OBVIOUS
  <2>1. CASE UNCHANGED readerVars
    <3>1. FewSelected'
      BY <2>1 DEF FewSelected, WithinTexts, readerVars
    <3>2. QED  BY <2>1, <3>1, BlockInvStays
  <2>2. CASE ReaderStep \/ QueryFails \/ (\E q \in Queries : Ask(q))
    BY <2>2, FewSelectedStep, BlockInvStep DEF SharedInv
  <2>3. QED  BY <2>1, <2>2, RecallStepCases
<1>3. QED  BY <1>1, <1>2, QueryInvHolds, PTL DEF RecallSpec

\* The prompt is never longer than the tokens the query granted it, for every encoder
\* (docstring "Enforce hard token cap"): the margin only makes the estimate stricter
\* than the count, and what cannot be trimmed is cut to the cap.
THEOREM BlockAlwaysWithinCap == RecallSpec => []BlockWithinCap
<1>1. QueryInv /\ BlockInv => BlockWithinCap
  BY DEF BlockInv, BlockWithinCap, Answered
<1>2. QED  BY <1>1, QueryInvHolds, BlockInvHolds, PTL

\* Palace and reader keep their types together, the text that is cut included.
THEOREM RecallTypeCorrect == RecallSpec => []RecallTypeOK
<1>1. SharedInv /\ QueryInv /\ BlockInv => RecallTypeOK
  <2> SUFFICES ASSUME SharedInv, QueryInv, BlockInv PROVE RecallTypeOK
    OBVIOUS
  <2>1. TypeOK
    BY DEF SharedInv, TypeInv
  <2>2. \A n \in 1..Len(excerpts) : excerpts[n].id \in Ids(listed) /\ excerpts[n].length \in Nat
    <3>1. \A n \in 1..Len(excerpts) : excerpts[n] \in Excerpt
      BY ElementOfSeq DEF QueryInv, QueryTypeOK
    <3>2. QED  BY <3>1 DEF QueryInv, QueryTypeOK, Excerpt
  <2>3. TruncTypeOK /\ block \in 0..MaxLength
    BY DEF BlockInv, TruncInv
  <2>4. ReaderTypeOK
    BY <2>2, <2>3 DEF QueryInv, QueryTypeOK, ReaderTypeOK
  <2>5. QED  BY <2>1, <2>4 DEF RecallTypeOK
<1>2. QED  BY <1>1, QueryInvHolds, BlockInvHolds, PTL
=============================================================================
