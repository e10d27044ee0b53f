------------------------------ MODULE Retrieval ------------------------------
(***************************************************************************)
(* build_context_for_query: plugin.py drives context_engine.py and         *)
(* routing.py to choose what goes into the prompt.  One reader asks one    *)
(* query at a time; the program counter stands before its next access to   *)
(* the shared store or its next local stage:                               *)
(*                                                                         *)
(*   idle -> list -> conflicts -> rank -> evidence -> excerpts -> fit      *)
(*        -> [truncate] -> trace -> answer -> idle                         *)
(*                                                                         *)
(* with an exit from the reads to trace when the store fails (fail open).  *)
(* The weights that make up a score (query overlap, room, age, pin, ...)   *)
(* are data: any relevance from 0 to MaxScore.  What the conflicts do to   *)
(* it, the threshold and the order are control and modelled.  A text, an   *)
(* item and the prompt are their lengths.  Rows of route_runs are written  *)
(* and never read by the plugin; they are left out.                        *)
(***************************************************************************)
EXTENDS SqliteStorage, Truncation, Sequences, FiniteSetsExt

CONSTANTS
    Queries,        \* [total, design, enabled]: budget, mode, routing switched on
    MaxScore,       \* scores are 0..MaxScore
    Threshold,      \* route_score_threshold
    Penalty,        \* unresolved_conflict_penalty
    TopK,           \* inject_top_k_routes
    TopKRaw,        \* inject_top_k_raw_excerpts
    ActiveRooms,    \* rooms of the active project
    ScratchRooms,   \* rooms whose name contains "scratch"
    TextLength,     \* of the stored texts
    HeaderLength,   \* of the prompt's fixed lines
    ItemLength,     \* of an evidence item without its excerpt
    ExcerptLength,  \* of the line above a raw excerpt
    EmptyLength,    \* of the line that stands for an empty list
    MaxQuote,       \* max_raw_excerpt_tokens
    MinExcerpt,     \* the least an excerpt may take (64 tokens in the code)
    SafetyPercent,  \* tokenizer_fallback_safety_multiplier, in percent
    MaxRounds       \* rounds of trimming (256 in the code)

\* Why a memory is not in the evidence.
Reasons == {"conflict_loser_excluded", "conflict_unresolved", "below_score_threshold",
            "artifact_unavailable", "dropped_for_budget", "below_top_k"}

ASSUME RetrievalAssumption ==
    /\ Null \notin Reasons
    /\ \A q \in Queries : q.total \in Nat /\ {q.design, q.enabled} \subseteq BOOLEAN
    /\ {MaxScore, Threshold, Penalty, TopK, TopKRaw, HeaderLength, ItemLength,
        ExcerptLength, EmptyLength, MaxQuote, MinExcerpt, MaxRounds} \subseteq Nat
    /\ TextLength \in [Texts -> 1..MaxLength]
    /\ SafetyPercent \in Nat /\ SafetyPercent >= 100

\* Bound: MaxLength is so large that no prompt is longer, however much is selected.
ASSUME PromptAssumption ==
    \E longest \in 0..MaxLength :
        /\ \A x \in Texts : TextLength[x] <= longest
        /\ HeaderLength + 2 * EmptyLength + TopK * (ItemLength + longest)
               + TopKRaw * (ExcerptLength + longest) <= MaxLength

VARIABLES
    rpc,        \* where the reader is
    query,      \* what it was asked, or Null
    listed,     \* the envelopes it listed
    merged,     \* the conflicts it works with
    relevance,  \* the score of every listed memory before conflicts count
    waiting,    \* memories the current stage has yet to visit
    evidence,   \* selected items: an envelope, the length of its raw excerpt or 0
    excerpts,   \* raw diagnostic excerpts in rank order
    reasons,    \* why a memory is not in the evidence, or Null
    rounds,     \* rounds of trimming so far
    block,      \* length of the rendered prompt
    fallback    \* the answer is the fallback payload

readerVars == <<rpc, query, listed, merged, relevance, waiting, evidence,
                excerpts, reasons, rounds, block, fallback, truncVars>>

RSteps == {"idle", "list", "conflicts", "rank", "evidence", "excerpts",
           "fit", "truncate", "trace", "answer"}

NoReasons == [i \in AllIds |-> Null]

ReaderTypeOK ==
    /\ rpc \in RSteps
    /\ query \in Queries \cup {Null}
    /\ listed \in SUBSET Envelope
    /\ merged \in [Keys -> ConflictRecord(AllIds) \cup {Null}]
    /\ relevance \in [Ids(listed) -> 0..MaxScore]
    /\ waiting \subseteq listed
    /\ \A x \in evidence : x.env \in listed /\ x.quote \in Nat
    /\ \A n \in 1..Len(excerpts) : excerpts[n].id \in Ids(listed) /\ excerpts[n].length \in Nat
    /\ reasons \in [AllIds -> Reasons \cup {Null}]
    /\ rounds \in 0..MaxRounds
    /\ block \in 0..MaxLength
    /\ fallback \in BOOLEAN
    /\ TruncTypeOK

ReaderInit ==
    /\ rpc = "idle" /\ query = Null
    /\ listed = {} /\ merged = [k \in Keys |-> Null] /\ relevance = <<>>
    /\ waiting = {} /\ evidence = {} /\ excerpts = <<>> /\ reasons = NoReasons
    /\ rounds = 0 /\ block = 0 /\ fallback = FALSE
    /\ TruncInit

RGoto(step) == rpc' = step

\* Nothing of what was gathered is kept.
DropAll ==
    /\ listed' = {} /\ merged' = [k \in Keys |-> Null] /\ relevance' = <<>>
    /\ waiting' = {} /\ evidence' = {} /\ excerpts' = <<>> /\ reasons' = NoReasons
    /\ rounds' = 0 /\ block' = 0
    /\ tpc' = "idle" /\ length' = 0 /\ limit' = 0 /\ lo' = 0 /\ hi' = 0 /\ best' = 0 /\ cut' = 0

-----------------------------------------------------------------------------
(* Scores                                                                  *)

RecordsOf(e) == {merged[k] : k \in {j \in Keys : merged[j] # Null}}

\* _memory_is_conflict_loser
IsLoser(e) ==
    \E r \in RecordsOf(e) :
        r.status # "unresolved" /\ e.id \in r.cands /\ e.id # r.winner

\* _memory_in_unresolved_conflict; a pin lifts the penalty.
IsPenalised(e) ==
    ~e.pinned /\ \E r \in RecordsOf(e) : r.status = "unresolved" /\ e.id \in r.cands

\* RouteScorer.score
Score(e) ==
    IF IsLoser(e) THEN 0
    ELSE IF ~IsPenalised(e) THEN relevance[e.id]
    ELSE IF relevance[e.id] > Penalty THEN relevance[e.id] - Penalty ELSE 0

\* sort(reverse=True) keeps the order of the listing among equals.
RankedAbove(e, f) ==
    \/ Score(e) > Score(f)
    \/ Score(e) = Score(f) /\ e.created < f.created

IsNextWaiting(e) == e \in waiting /\ \A f \in waiting \ {e} : RankedAbove(e, f)

\* select_route_candidates: why e is not eligible, or Null.
Excluded(e) ==
    IF IsLoser(e) THEN "conflict_loser_excluded"
    ELSE IF Score(e) >= Threshold THEN Null
    ELSE IF IsPenalised(e) THEN "conflict_unresolved" ELSE "below_score_threshold"

-----------------------------------------------------------------------------
(* Tokens                                                                  *)

\* _tok: the count with the safety margin, which is a percentage here and a float
\* in the code.
Tok(n) == (Count[n] * SafetyPercent) \div 100

\* allocate_budget: the share of routed memory and of raw diagnostics.
RoutedBudget == (query.total * 35) \div 100
RawBudget    == (query.total * 15) \div 100
Cap          == RoutedBudget + RawBudget

\* truncate_to_tokens as a function of its arguments: a prefix that fits, the whole
\* text if it does, and with a monotone count the longest (see Fits and Longest).
\* Otherwise the search may stop at any prefix that fits.
Cut(n, max) ==
    CHOOSE m \in 0..n :
        /\ Count[m] <= max
        /\ Count[n] <= max => m = n
        /\ Monotone => \A k \in (m + 1)..n : Count[k] > max

Shortened(n, max) == IF Tok(n) > max THEN Cut(n, max) ELSE n

PerExcerpt ==
    LET share == RawBudget \div (IF TopKRaw = 0 THEN 1 ELSE TopKRaw)
    IN  IF share > MinExcerpt THEN share ELSE MinExcerpt

\* render_injected_block; an empty list has a line that says so.
Rendered(ev, ex) ==
    HeaderLength
    + (IF ev = {} THEN EmptyLength ELSE 0)
    + MapThenSumSet(LAMBDA x : ItemLength + Shortened(x.quote, MaxQuote), ev)
    + (IF ex = <<>> THEN EmptyLength ELSE 0)
    + MapThenSumSet(LAMBDA n : ExcerptLength + ex[n].length, DOMAIN ex)

-----------------------------------------------------------------------------
(* The reads                                                               *)

\* build_context_for_query; a host with routing switched off gets the disabled
\* payload and no store access.
Ask(q) ==
    /\ rpc = "idle"
    /\ query' = q
    /\ RGoto(IF q.enabled THEN "list" ELSE "answer")
    /\ UNCHANGED <<listed, merged, relevance, waiting, evidence, excerpts, reasons,
                   rounds, block, fallback, truncVars, storeVars>>

ListForQuery ==
    /\ rpc = "list"
    /\ listed' = envelopes
    /\ relevance' \in [Ids(envelopes) -> 0..MaxScore]
    /\ RGoto("conflicts")
    /\ UNCHANGED <<query, merged, waiting, evidence, excerpts, reasons, rounds, block, fallback,
                   truncVars, storeVars>>

\* Mutant: the stored conflicts are used as they are.
ReadStoredConflicts ==
    /\ rpc = "conflicts"
    /\ merged' = conflicts
    /\ RGoto("rank")
    /\ UNCHANGED <<query, listed, relevance, waiting, evidence, excerpts, reasons, rounds, block,
                   fallback, truncVars, storeVars>>

\* list_conflicts: the stored records merged with detection over the listing.
MergeForQuery ==
    /\ rpc = "conflicts"
    /\ merged' = Detect(listed, conflicts)
    /\ RGoto("rank")
    /\ UNCHANGED <<query, listed, relevance, waiting, evidence, excerpts, reasons, rounds, block,
                   fallback, truncVars, storeVars>>

\* In design mode the rooms of the active project go first, if any is eligible.
InScope(E) ==
    LET own == {e \in E : e.room \in ActiveRooms}
    IN  IF query.design /\ own # {} THEN own ELSE E

Rank ==
    /\ rpc = "rank"
    /\ reasons' = [i \in AllIds |->
                      IF i \in Ids(listed)
                      THEN Excluded(CHOOSE e \in listed : e.id = i) ELSE Null]
    /\ waiting' = InScope({e \in listed : Excluded(e) = Null})
    /\ RGoto("evidence")
    /\ UNCHANGED <<query, listed, merged, relevance, evidence, excerpts, rounds, block, fallback,
                   truncVars, storeVars>>

\* One candidate of select_evidence.  A diagnostic is quoted from its artifact;
\* without the text it is passed over.
SelectEvidence ==
    /\ rpc = "evidence" /\ Cardinality(evidence) < TopK
    /\ \E e \in waiting :
          /\ IsNextWaiting(e)
          /\ waiting' = waiting \ {e}
          /\ IF ~IsDiagnostic(e.kind)
             THEN evidence' = evidence \cup {[env |-> e, quote |-> 0]} /\ UNCHANGED reasons
             ELSE IF ReadArtifactText(e.id) = Null
             THEN reasons' = [reasons EXCEPT ![e.id] = "artifact_unavailable"] /\ UNCHANGED evidence
             ELSE /\ evidence' = evidence \cup
                        {[env |-> e, quote |-> TextLength[ReadArtifactText(e.id)]]}
                  /\ UNCHANGED reasons
    /\ UNCHANGED <<rpc, query, listed, merged, relevance, excerpts, rounds, block, fallback,
                   truncVars, storeVars>>

\* Mutant: artifacts the evidence quotes are visited again.
StartExcerptsOfAll ==
    /\ rpc = "evidence" /\ (waiting = {} \/ Cardinality(evidence) >= TopK)
    /\ waiting' = {e \in listed : IsDiagnostic(e.kind)}
    /\ RGoto("excerpts")
    /\ UNCHANGED <<query, listed, merged, relevance, evidence, excerpts, reasons, rounds, block,
                   fallback, truncVars, storeVars>>

\* select_raw_diagnostic_excerpts visits every diagnostic that is not quoted yet,
\* eligible or not: losers and low scores only come last.
StartExcerpts ==
    /\ rpc = "evidence" /\ (waiting = {} \/ Cardinality(evidence) >= TopK)
    /\ waiting' = {e \in listed : IsDiagnostic(e.kind)}
                      \ {x.env : x \in {y \in evidence : y.quote > 0}}
    /\ RGoto("excerpts")
    /\ UNCHANGED <<query, listed, merged, relevance, evidence, excerpts, reasons, rounds, block,
                   fallback, truncVars, storeVars>>

SelectExcerpt ==
    /\ rpc = "excerpts" /\ Len(excerpts) < TopKRaw
    /\ \E e \in waiting :
          /\ IsNextWaiting(e)
          /\ waiting' = waiting \ {e}
          /\ IF ReadArtifactText(e.id) = Null
             THEN UNCHANGED excerpts
             ELSE excerpts' = Append(excerpts,
                      [id |-> e.id,
                       length |-> Shortened(TextLength[ReadArtifactText(e.id)], PerExcerpt)])
    /\ UNCHANGED <<rpc, query, listed, merged, relevance, evidence, reasons, rounds, block,
                   fallback, truncVars, storeVars>>

StartFit ==
    /\ rpc = "excerpts" /\ (waiting = {} \/ Len(excerpts) >= TopKRaw)
    /\ waiting' = {}
    /\ RGoto("fit")
    /\ UNCHANGED <<query, listed, merged, relevance, evidence, excerpts, reasons, rounds, block,
                   fallback, truncVars, storeVars>>

-----------------------------------------------------------------------------
(* fit_to_token_budget                                                     *)

IsScratch(e)  == e.room \in ScratchRooms
Worth(e)      == IF IsScratch(e) THEN Score(e) ELSE IF e.pinned THEN 1 ELSE 0
\* In tenths: an imported memory, a diagnostic, anything else.
Confidence(e) == IF e.source = "import" THEN 5 ELSE IF IsDiagnostic(e.kind) THEN 9 ELSE 7

\* Mutant: the pin tier is left out.
DropsBeforeByConfidence(e, f) ==
    LET tie == IsScratch(e) = IsScratch(f)
    IN  \/ IsScratch(e) /\ ~IsScratch(f)
        \/ tie /\ Confidence(e) < Confidence(f)
        \/ tie /\ Confidence(e) = Confidence(f) /\ IdBefore(e.id, f.id)

\* removal_sort_key
DropsBefore(e, f) ==
    LET tie == IsScratch(e) = IsScratch(f) /\ Worth(e) = Worth(f)
    IN  \/ IsScratch(e) /\ ~IsScratch(f)
        \/ IsScratch(e) = IsScratch(f) /\ Worth(e) < Worth(f)
        \/ tie /\ Confidence(e) < Confidence(f)
        \/ tie /\ Confidence(e) = Confidence(f) /\ IdBefore(e.id, f.id)

TooLong == Tok(Rendered(evidence, excerpts)) > Cap

\* One round of the loop drops an item, or an excerpt when no item is left.
MayTrim == rpc = "fit" /\ TooLong /\ rounds < MaxRounds

DropItem ==
    /\ MayTrim
    /\ \E x \in evidence :
          /\ \A y \in evidence \ {x} : DropsBefore(x.env, y.env)
          /\ evidence' = evidence \ {x}
          /\ reasons' = [reasons EXCEPT ![x.env.id] = "dropped_for_budget"]
    /\ rounds' = rounds + 1
    /\ UNCHANGED <<rpc, query, listed, merged, relevance, waiting, excerpts, block, fallback,
                   truncVars, storeVars>>

DropExcerpt ==
    /\ MayTrim /\ evidence = {} /\ excerpts # <<>>
    /\ excerpts' = SubSeq(excerpts, 1, Len(excerpts) - 1)
    /\ rounds' = rounds + 1
    /\ UNCHANGED <<rpc, query, listed, merged, relevance, waiting, evidence, reasons, block,
                   fallback, truncVars, storeVars>>

\* The loop ends when the prompt fits, nothing is left to drop, or the rounds are used up.
TrimmingEnds ==
    /\ rpc = "fit"
    /\ TooLong => (evidence = {} /\ excerpts = <<>>) \/ rounds = MaxRounds

\* Mutant: the trimmed prompt is taken as it is.
FinishFitUncut ==
    /\ TrimmingEnds
    /\ rounds' = 0 /\ block' = Rendered(evidence, excerpts)
    /\ RGoto("trace")
    /\ UNCHANGED <<query, listed, merged, relevance, waiting, evidence, excerpts, reasons,
                   fallback, truncVars, storeVars>>

\* What is still too long is cut as a whole.
FinishFit ==
    /\ TrimmingEnds
    /\ rounds' = 0 /\ block' = Rendered(evidence, excerpts)
    /\ IF TooLong
       THEN Truncate(Rendered(evidence, excerpts), Cap) /\ RGoto("truncate")
       ELSE RGoto("trace") /\ UNCHANGED truncVars
    /\ UNCHANGED <<query, listed, merged, relevance, waiting, evidence, excerpts, reasons,
                   fallback, storeVars>>

TruncateStep ==
    /\ rpc = "truncate"
    /\ Probe \/ Stop
    /\ UNCHANGED <<rpc, query, listed, merged, relevance, waiting, evidence, excerpts, reasons,
                   rounds, block, fallback, storeVars>>

Truncated ==
    /\ rpc = "truncate" /\ tpc = "done"
    /\ block' = cut
    /\ RGoto("trace")
    /\ UNCHANGED <<query, listed, merged, relevance, waiting, evidence, excerpts, reasons,
                   rounds, fallback, truncVars, storeVars>>

-----------------------------------------------------------------------------
(* The answer                                                              *)

Selected == {x.env.id : x \in evidence}

\* Mutant: only eligible candidates are explained.
TraceDroppedOnly ==
    /\ rpc = "trace"
    /\ RGoto("answer")
    /\ UNCHANGED <<query, listed, merged, relevance, waiting, evidence, excerpts, reasons,
                   rounds, block, fallback, truncVars, storeVars>>

\* The reasons the trace gives for everybody else, and insert_route_run, whose
\* failure changes nothing.
Trace ==
    /\ rpc = "trace"
    /\ reasons' = [i \in AllIds |->
                      IF i \in Ids(listed) \ Selected /\ reasons[i] = Null /\ ~fallback
                      THEN "below_top_k" ELSE reasons[i]]
    /\ RGoto("answer")
    /\ UNCHANGED <<query, listed, merged, relevance, waiting, evidence, excerpts, rounds, block,
                   fallback, truncVars, storeVars>>

\* Mutant: the fallback keeps what the failed query had listed.
QueryFailsKeepsListing ==
    /\ "db" \in Faults
    /\ rpc \in {"list", "conflicts", "evidence", "excerpts"}
    /\ RGoto("trace")
    /\ relevance' = <<>> /\ evidence' = {} /\ excerpts' = <<>> /\ reasons' = NoReasons
    /\ fallback' = TRUE
    /\ UNCHANGED <<query, listed, merged, waiting, rounds, block, truncVars, storeVars>>

\* Any exception of a read becomes on_routing_failure's payload, which holds no
\* candidate, no evidence and no text.
QueryFails ==
    /\ "db" \in Faults
    /\ rpc \in {"list", "conflicts", "evidence", "excerpts"}
    /\ RGoto("trace") /\ DropAll
    /\ fallback' = TRUE
    /\ UNCHANGED <<query, storeVars>>

\* The host has its payload.
Answer ==
    /\ rpc = "answer"
    /\ RGoto("idle") /\ query' = Null /\ fallback' = FALSE /\ DropAll
    /\ UNCHANGED storeVars

ReaderStep ==
    \/ ListForQuery \/ MergeForQuery \/ Rank \/ SelectEvidence \/ StartExcerpts
    \/ SelectExcerpt \/ StartFit \/ DropItem \/ DropExcerpt \/ FinishFit
    \/ TruncateStep \/ Truncated \/ Trace \/ Answer

\* Stages without shared access.
ReaderIsLocal == rpc \in {"rank", "fit", "truncate", "trace", "answer"}
=============================================================================
