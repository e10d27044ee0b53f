------------------------------- MODULE Recall --------------------------------
(***************************************************************************)
(* The palace with a reader: a host builds prompts (Retrieval) while       *)
(* memories are recorded, conflicts are synced and decided (Palace) and    *)
(* raw files may be lost from outside, between any two reads of the query. *)
(***************************************************************************)
EXTENDS Palace, Retrieval

recallVars == <<vars, readerVars>>

RecallTypeOK == TypeOK /\ ReaderTypeOK

RecallInit == Init /\ ReaderInit

\* Someone deletes a raw file (doctor: "Missing raw artifact file").
LoseFile ==
    /\ "loss" \in Faults
    /\ \E a \in artifacts : files[a.path] # Null /\ UnlinkPath(a.path)
    /\ UNCHANGED <<clock, artifacts, envelopes, pinLog, conflicts, clientVars, operatorVars>>

\* Local stages of the reader touch nothing shared, so nobody need move meanwhile.
RecallNext ==
    \/ ~ReaderIsLocal /\ (Next \/ LoseFile) /\ UNCHANGED readerVars
    \/ ReaderStep /\ UNCHANGED <<clientVars, operatorVars>>
    \/ QueryFails /\ UNCHANGED <<clientVars, operatorVars>>
    \/ (\E q \in Queries : Ask(q)) /\ UNCHANGED <<clientVars, operatorVars>>

\* A reader between two steps is running code.
RecallSpec ==
    /\ RecallInit /\ [][RecallNext]_recallVars
    /\ WF_recallVars(ReaderStep /\ UNCHANGED <<clientVars, operatorVars>>)

-----------------------------------------------------------------------------
Answered == rpc = "answer" /\ ~fallback /\ query.enabled

\* However far the syncs lag behind, the evidence never holds two rivals, and the
\* one it may hold is the winner: the choice of the rules over the group as it
\* was listed, or an operator's decision (README: losers do not silently "win").
EvidenceFollowsPrecedence ==
    \A x \in evidence :
        LET G == Group(listed, x.env.key)
        IN  (x.env.key # Null /\ IsMany(G)) =>
                \/ x.env.id = Choose(G).winner
                \/ /\ merged[x.env.key] # Null
                   /\ merged[x.env.key].actor = "operator"
                   /\ merged[x.env.key].winner = x.env.id

\* No raw artifact is quoted twice in one prompt, by an item and by an excerpt.
QuotedOnce ==
    \A n \in 1..Len(excerpts) : \A x \in evidence :
        x.quote > 0 => x.env.id # excerpts[n].id

\* The trace accounts for every listed memory: it is selected or has a reason,
\* never both.
EveryMemoryExplained ==
    Answered => \A i \in Ids(listed) : i \in Selected <=> reasons[i] = Null

\* Trimming spares what is pinned: outside scratch rooms a pinned memory is
\* dropped for the budget only when no unpinned and no scratch memory is left.
PinnedDroppedLast ==
    \A e \in listed :
        (reasons[e.id] = "dropped_for_budget" /\ e.pinned /\ ~IsScratch(e))
            => \A x \in evidence : x.env.pinned /\ ~IsScratch(x.env)

\* The prompt is never longer than the tokens the query granted it: routed memory
\* and raw diagnostics together (docstring "Enforce hard token cap").
BlockWithinCap == Answered => Count[block] <= Cap

\* Every query comes back to the host, whatever happens to the store meanwhile.
EveryQueryAnswered == (rpc # "idle") ~> (rpc = "idle")

\* "losers are excluded from retrieval": no loser is quoted in the prompt.
NoLoserInPrompt ==
    \A n \in 1..Len(excerpts) : \A e \in listed :
        e.id = excerpts[n].id => ~IsLoser(e)
=============================================================================
