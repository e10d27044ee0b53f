----------------------------- MODULE MCConflicts -----------------------------
(***************************************************************************)
(* Drives the operators of Conflicts through one conflict group: memories  *)
(* join it, are pinned and unpinned, syncs store what detection says and   *)
(* the operator decides, under every legal precedence order.               *)
(***************************************************************************)
EXTENDS Integers

CONSTANTS Null, MaxMemories

VARIABLES precedence, memories, stored

vars == <<precedence, memories, stored>>

ASSUME GroupAssumption == MaxMemories \in Nat /\ Null # "key"

\* The operators under the configuration at hand.
C == INSTANCE Conflicts WITH Keys <- {"key"}, Precedence <- precedence

Rules  == {"runtime_truth", "pin", "newer_verified"}
Orders == {p \in [1..3 -> Rules] : \A r \in Rules : \E n \in 1..3 : p[n] = r}

\* Ids are handed out in order; two memories may carry the same created_at.
Joining(n) == [id : {<<n, 0>>}, key : {"key"}, truth : BOOLEAN, pinned : BOOLEAN,
               verified : BOOLEAN, created : {1, (n + 1) \div 2 + 1}]

Init ==
    /\ precedence \in Orders
    /\ memories = {}
    /\ stored = [k \in {"key"} |-> Null]

Join ==
    /\ \E n \in 1..MaxMemories :
          /\ \A e \in memories : e.id[1] < n
          /\ n = 1 \/ \E e \in memories : e.id[1] = n - 1
          /\ \E e \in Joining(n) : memories' = memories \cup {e}
    /\ UNCHANGED <<precedence, stored>>

Repin ==
    /\ \E e \in memories :
          memories' = (memories \ {e}) \cup {[e EXCEPT !.pinned = ~e.pinned]}
    /\ UNCHANGED <<precedence, stored>>

\* _sync_conflicts with nobody interfering: keys without a conflict are not written.
Sync ==
    /\ LET found == C!Detect(memories, stored)
       IN  stored' = [k \in {"key"} |-> IF found[k] = Null THEN stored[k] ELSE found[k]]
    /\ UNCHANGED <<precedence, memories>>

Resolve ==
    /\ \E e \in memories :
          /\ C!CanResolve(memories, "key", e.id)
          /\ stored' = [stored EXCEPT !["key"] = C!Resolved(memories, "key", e.id)]
    /\ UNCHANGED <<precedence, memories>>

Next == Join \/ Repin \/ Sync \/ Resolve

Spec == Init /\ [][Next]_vars

-----------------------------------------------------------------------------
\* How strongly rule r speaks for e: the reference definition compares these
\* strengths lexicographically along the precedence order.
Stronger(r, e, f) ==
    CASE r = "runtime_truth"  -> e.truth /\ ~f.truth
      [] r = "pin"            -> e.pinned /\ ~f.pinned
      [] r = "newer_verified" -> C!RanksBelow(f, e)

Outranks(e, f) ==
    \E n \in 1..3 :
        /\ Stronger(precedence[n], e, f)
        /\ \A m \in 1..(n - 1) : ~Stronger(precedence[m], f, e)

\* The effective memory of a conflicting group (choose_effective_memory) is the
\* one that outranks every other member in the lexicographic order of the
\* configured rules: narrowing the candidates rule by rule loses nobody who
\* could still win, and a group of two or more always gets a winner.
WinnerOutranksAll ==
    LET v == C!Choose(memories)
    IN  C!IsMany(memories) =>
            \E e \in memories :
                /\ e.id = v.winner
                /\ v.status # "unresolved"
                /\ \A f \in memories \ {e} : Outranks(e, f)

\* Storing what detect_conflicts returned and detecting again changes nothing,
\* whatever was stored before: repeated syncs of an unchanged store agree, so
\* the winner that retrieval sees does not flicker from one sync to the next.
SyncIsIdempotent ==
    LET once == C!Detect(memories, stored)
    IN  C!Detect(memories, once) = once
=============================================================================
