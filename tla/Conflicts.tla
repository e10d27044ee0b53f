------------------------------ MODULE Conflicts ------------------------------
(***************************************************************************)
(* conflicts.py: which of several memories that share a conflict_key is    *)
(* the effective one, and how a stored decision is merged with a fresh     *)
(* detection.                                                              *)
(*                                                                         *)
(* Memories are records with at least the fields                           *)
(*   id        a pair <<tick, n>>: memory ids are time stamps, compared    *)
(*             lexicographically (n tells apart ids with the same stamp)   *)
(*   key       the conflict_key, or Null                                   *)
(*   truth     whether route_tags holds "runtime_truth"                    *)
(*   pinned, verified, created   as in MemoryEnvelope                      *)
(* A conflict record keeps cands, winner, status and actor.  Its losers    *)
(* are always the other candidates; its room, reason text and date are     *)
(* shown to the operator and never read back, so they are left out.        *)
(***************************************************************************)
EXTENDS Integers

CONSTANTS Keys,        \* the conflict keys in use
          Null,        \* Python's None: no key, no winner, no record
          Precedence   \* RoutingConfig.conflict_precedence

Terms == {"runtime_truth", "pin", "newer_verified"}

\* RoutingConfig.validate: every term exactly once.
ASSUME PrecedenceAssumption ==
    /\ Precedence \in [1..3 -> Terms]
    /\ \A t \in Terms : \E n \in 1..3 : Precedence[n] = t

ASSUME KeysAssumption == Null \notin Keys

IdBefore(a, b) == a[1] < b[1] \/ (a[1] = b[1] /\ a[2] < b[2])

\* sort_key of the newer_verified rule: (verified, timestamp, memory_id).
RanksBelow(e, f) ==
    \/ ~e.verified /\ f.verified
    \/ /\ e.verified = f.verified
       /\ \/ e.created < f.created
          \/ e.created = f.created /\ IdBefore(e.id, f.id)

Ids(G) == {e.id : e \in G}

Group(E, k) == {e \in E : e.key = k}

IsOne(S)  == \E x \in S : S = {x}
IsMany(S) == \E x, y \in S : x # y

-----------------------------------------------------------------------------
(* choose_effective_memory                                                 *)

\* The candidates of C that a precedence rule singles out.
Preferred(rule, C) ==
    CASE rule = "runtime_truth"  -> {e \in C : e.truth}
      [] rule = "pin"            -> {e \in C : e.pinned}
      [] rule = "newer_verified" -> {e \in C : \A f \in C : ~RanksBelow(e, f)}

\* Mutant: a rule that prefers nobody discards everybody.
NarrowedToNobody(rule, C) == Preferred(rule, C)

\* A rule that prefers nobody leaves the candidates as they are.
Narrowed(rule, C) == IF Preferred(rule, C) = {} THEN C ELSE Preferred(rule, C)

StatusOf(rule) ==
    CASE rule = "runtime_truth"  -> "resolved_by_runtime_truth"
      [] rule = "pin"            -> "resolved_by_pin"
      [] rule = "newer_verified" -> "resolved_by_newer_verified"

Decided(C, rule) == [winner |-> (CHOOSE e \in C : TRUE).id, status |-> StatusOf(rule)]
Undecided        == [winner |-> Null, status |-> "unresolved"]

\* The rules in order, each on what the ones before it left; the first that
\* leaves one candidate decides.
Choose(G) ==
    LET C1 == Narrowed(Precedence[1], G)
        C2 == Narrowed(Precedence[2], C1)
        C3 == Narrowed(Precedence[3], C2)
    IN  IF ~IsMany(G) THEN Undecided
        ELSE IF IsOne(C1) THEN Decided(C1, Precedence[1])
        ELSE IF IsOne(C2) THEN Decided(C2, Precedence[2])
        ELSE IF IsOne(C3) THEN Decided(C3, Precedence[3])
        ELSE Undecided

-----------------------------------------------------------------------------
(* detect_conflicts and resolve_conflict                                   *)

Statuses == {"unresolved"} \cup {StatusOf(t) : t \in Terms}

ConflictRecord(I) == [cands : SUBSET I, winner : I \cup {Null},
                      status : Statuses, actor : {"system", "operator", Null}]

\* A fresh decision over the group, signed by the system when there is one.
Fresh(G) ==
    LET v == Choose(G)
    IN  [cands |-> Ids(G), winner |-> v.winner, status |-> v.status,
         actor |-> IF v.winner = Null THEN Null ELSE "system"]

\* Mutant: a stored record is kept even when a candidate joined.
KeepsStale(rec, G) == rec # Null /\ rec.winner # Null /\ rec.status # "unresolved"

\* Mutant: a stored record is only kept while the rules agree with it.
KeepsIfRulesAgree(rec, G) ==
    rec # Null /\ rec.cands = Ids(G) /\ rec.winner = Choose(G).winner

\* A stored record outlives detection while it names a winner and the
\* candidates have not changed, whoever signed it.
Keeps(rec, G) ==
    /\ rec # Null
    /\ rec.cands = Ids(G)
    /\ rec.winner # Null
    /\ rec.status # "unresolved"

\* Mutant: a kept record is not passed on.
DetectForgetsKept(E, stored) ==
    [k \in Keys |->
        IF ~IsMany(Group(E, k)) \/ Keeps(stored[k], Group(E, k)) THEN Null
        ELSE Fresh(Group(E, k))]

\* The record of every key with two or more candidates, Null for the others.
Detect(E, stored) ==
    [k \in Keys |->
        IF ~IsMany(Group(E, k)) THEN Null
        ELSE IF Keeps(stored[k], Group(E, k)) THEN stored[k]
        ELSE Fresh(Group(E, k))]

\* The operator's decision; the winner must be one of the group.
CanResolve(E, k, w) == w \in Ids(Group(E, k))
Resolved(E, k, w) ==
    [cands |-> Ids(Group(E, k)), winner |-> w,
     status |-> "resolved_by_pin", actor |-> "operator"]
=============================================================================
