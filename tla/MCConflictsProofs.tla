-------------------------- MODULE MCConflictsProofs --------------------------
(***************************************************************************)
(* The two invariants of MCConflicts for any number of memories and every  *)
(* precedence order: the facts of ConflictsProofs, instantiated with the   *)
(* order at hand, over the groups that joins and pins can build.           *)
(***************************************************************************)
EXTENDS MCConflicts, TLAPS

P == INSTANCE ConflictsProofs WITH Keys <- {"key"}, Precedence <- precedence

-----------------------------------------------------------------------------
(* ConflictsProofs is about the operators MCConflicts runs                 *)

LEMMA SameRules ==
    /\ \A e, f : P!RanksBelow(e, f) <=> C!RanksBelow(e, f)
    /\ \A r : P!StatusOf(r) = C!StatusOf(r)
    /\ \A S : P!Ids(S) = C!Ids(S) /\ P!IsOne(S) = C!IsOne(S) /\ P!IsMany(S) = C!IsMany(S)
    /\ \A S, k : P!Group(S, k) = C!Group(S, k)
    /\ P!Undecided = C!Undecided
BY DEF P!RanksBelow, C!RanksBelow, P!IdBefore, C!IdBefore, P!StatusOf, C!StatusOf,
       P!Ids, C!Ids, P!IsOne, C!IsOne, P!IsMany, C!IsMany, P!Group, C!Group,
       P!Undecided, C!Undecided

LEMMA SameNarrowing ==
    ASSUME NEW r, NEW S
    PROVE  P!Narrowed(r, S) = C!Narrowed(r, S)
<1>1. P!Preferred(r, S) = C!Preferred(r, S)
  BY SameRules DEF P!Preferred, C!Preferred
<1>2. QED  BY <1>1 DEF P!Narrowed, C!Narrowed

LEMMA SameDecision ==
    ASSUME NEW r, NEW S
    PROVE  P!Decided(S, r) = C!Decided(S, r)
BY SameRules DEF P!Decided, C!Decided

LEMMA SameChoice ==
    ASSUME NEW G
    PROVE  P!Choose(G) = C!Choose(G)
BY SameRules, SameNarrowing, SameDecision DEF P!Choose, C!Choose

LEMMA SameDetection ==
    ASSUME NEW E, NEW s
    PROVE  P!Detect(E, s) = C!Detect(E, s)
<1>1. \A G : P!Fresh(G) = C!Fresh(G)
  BY SameRules, SameChoice DEF P!Fresh, C!Fresh
<1>2. \A rec, G : P!Keeps(rec, G) = C!Keeps(rec, G)
  BY SameRules DEF P!Keeps, C!Keeps
<1>3. QED  BY <1>1, <1>2, SameRules DEF P!Detect, C!Detect

\* The reference order of MCConflicts ranks as the proved one does.
LEMMA SameOrder ==
    ASSUME NEW e, NEW f, P!Outranks(e, f), precedence \in Orders
    PROVE  Outranks(e, f)
<1>1. ASSUME NEW n \in 1..3, NEW x, NEW y
      PROVE  P!Stronger(precedence[n], x, y) <=> Stronger(precedence[n], x, y)
  <2>1. precedence[n] \in Rules
    BY DEF Orders
  <2>2. CASE precedence[n] = "runtime_truth"
    BY <2>2 DEF P!Stronger, Stronger
  <2>3. CASE precedence[n] = "pin"
    BY <2>3 DEF P!Stronger, Stronger
  <2>4. CASE precedence[n] = "newer_verified"
    BY <2>4, SameRules DEF P!Stronger, Stronger
  <2>5. QED  BY <2>1, <2>2, <2>3, <2>4 DEF Rules
<1>2. PICK n \in 1..3 : /\ P!Stronger(precedence[n], e, f)
                        /\ \A m \in 1..(n - 1) : ~P!Stronger(precedence[m], f, e)
  BY DEF P!Outranks
<1>3. \A m \in 1..(n - 1) : m \in 1..3
  OBVIOUS
<1>4. QED  BY <1>1, <1>2, <1>3 DEF Outranks

\* What ConflictsProofs assumes of the constants holds of every configuration.
LEMMA Configured ==
    ASSUME precedence \in Orders
    PROVE  P!PrecedenceAssumption /\ P!KeysAssumption
BY GroupAssumption
DEF P!PrecedenceAssumption, P!KeysAssumption, P!Terms, Orders, Rules

-----------------------------------------------------------------------------
(* The group that joins and pins build                                     *)

Member == [id : (1..MaxMemories) \X {0}, key : {"key"}, truth : BOOLEAN, pinned : BOOLEAN,
           verified : BOOLEAN, created : 0..(MaxMemories + 1)]

GroupInv ==
    /\ precedence \in Orders
    /\ memories \subseteq Member
    /\ \A e, f \in memories : e.id = f.id => e = f

LEMMA GroupInvJoin ==
    ASSUME GroupInv, Join
    PROVE  GroupInv'
<1>1. PICK n \in 1..MaxMemories :
         /\ \A e \in memories : e.id[1] < n
         /\ \E e \in Joining(n) : memories' = memories \cup {e}
  BY DEF Join
<1>2. PICK e \in Joining(n) : memories' = memories \cup {e}
  BY <1>1
<1>3. (n + 1) \div 2 + 1 \in 0..(MaxMemories + 1)
  BY GroupAssumption
<1>4. e \in Member /\ e.id = <<n, 0>>
  BY <1>3, GroupAssumption DEF Joining, Member
<1>5. \A f \in memories : f.id # e.id
  <2> SUFFICES ASSUME NEW f \in memories PROVE f.id # e.id
    OBVIOUS
  <2>1. f.id[1] \in Nat /\ f.id[1] < n
    BY <1>1, GroupAssumption DEF GroupInv, Member
  <2>2. QED  BY <1>4, <2>1
<1>6. precedence' = precedence
  BY DEF Join
<1>7. QED  BY <1>2, <1>4, <1>5, <1>6 DEF GroupInv

LEMMA GroupInvRepin ==
    ASSUME GroupInv, Repin
    PROVE  GroupInv'
<1>1. PICK e \in memories :
         memories' = (memories \ {e}) \cup {[e EXCEPT !.pinned = ~e.pinned]}
  BY DEF Repin
<1> DEFINE g == [e EXCEPT !.pinned = ~e.pinned]
<1>2. g \in Member /\ g.id = e.id
  BY DEF GroupInv, Member
<1>3. precedence' = precedence
  BY DEF Repin
<1>4. memories' = (memories \ {e}) \cup {g}
  BY <1>1
<1> HIDE DEF g
<1>5. memories' \subseteq Member
  BY <1>2, <1>4 DEF GroupInv
<1>6. ASSUME NEW x \in memories', NEW y \in memories', x.id = y.id PROVE x = y
  BY <1>2, <1>4, <1>6 DEF GroupInv
<1>7. QED  BY <1>3, <1>5, <1>6 DEF GroupInv

LEMMA GroupInvHolds == Spec => []GroupInv
<1>1. Init => GroupInv
  BY DEF Init, GroupInv
<1>2. GroupInv /\ [Next]_vars => GroupInv'
  <2> SUFFICES ASSUME GroupInv, [Next]_vars PROVE GroupInv'
    OBVIOUS
  <2>1. CASE Join
    BY <2>1, GroupInvJoin
  <2>2. CASE Repin
    BY <2>2, GroupInvRepin
  <2>3. CASE Sync \/ Resolve
    BY <2>3 DEF Sync, Resolve, GroupInv
  <2>4. CASE UNCHANGED vars
    BY <2>4 DEF vars, GroupInv
  <2>5. QED  BY <2>1, <2>2, <2>3, <2>4 DEF Next
<1>3. QED  BY <1>1, <1>2, PTL DEF Spec

\* The group is one choose_effective_memory is proved for.
LEMMA GroupIsGroup ==
    ASSUME GroupInv
    PROVE  P!IsGroup(memories) /\ P!IsBounded(memories)
<1>1. \A e \in memories : /\ e.id \in Nat \X Nat /\ e.created \in Nat /\ e.verified \in BOOLEAN
                          /\ e.created <= MaxMemories + 1
                          /\ e.id[1] <= MaxMemories + 1 /\ e.id[2] <= MaxMemories + 1
  BY GroupAssumption DEF GroupInv, Member
<1>2. MaxMemories + 1 \in Nat
  BY GroupAssumption
<1>3. P!IsGroup(memories)
  BY <1>1 DEF GroupInv, P!IsGroup
<1>4. P!IsBounded(memories)
  BY <1>1, <1>2 DEF P!IsBounded
<1>5. QED  BY <1>3, <1>4

-----------------------------------------------------------------------------
\* choose_effective_memory finds the member that outranks all others in the order of
\* the configured rules, whatever was pinned, joined or decided before.
THEOREM WinnerAlwaysOutranksAll == Spec => []WinnerOutranksAll
<1>1. GroupInv => WinnerOutranksAll
  <2> SUFFICES ASSUME GroupInv, C!IsMany(memories)
               PROVE  \E e \in memories :
                         /\ e.id = C!Choose(memories).winner
                         /\ C!Choose(memories).status # "unresolved"
                         /\ \A f \in memories \ {e} : Outranks(e, f)
    BY DEF WinnerOutranksAll
  <2>1. precedence \in Orders /\ P!IsMany(memories)
    BY SameRules DEF GroupInv
  <2>2. \E e \in memories : /\ e.id = P!Choose(memories).winner
                            /\ P!Choose(memories).status # "unresolved"
                            /\ \A f \in memories \ {e} : P!Outranks(e, f)
    BY <2>1, Configured, GroupIsGroup, P!ChoiceIsStrongest
  <2>3. P!Choose(memories) = C!Choose(memories)
    BY SameChoice
  <2>4. QED  BY <2>1, <2>2, <2>3, SameOrder
<1>2. QED  BY <1>1, GroupInvHolds, PTL

\* detect_conflicts after its own result was stored finds nothing else, in every state
\* that joins, pins, syncs and decisions lead to.
THEOREM SyncAlwaysIdempotent == Spec => []SyncIsIdempotent
<1>1. GroupInv => SyncIsIdempotent
  <2> SUFFICES ASSUME GroupInv PROVE SyncIsIdempotent
    OBVIOUS
  <2>1. P!PrecedenceAssumption /\ P!KeysAssumption
    BY Configured DEF GroupInv
  <2>2. P!Detect(memories, P!Detect(memories, stored)) = P!Detect(memories, stored)
    BY <2>1, P!DetectionIsIdempotent
  <2>3. QED  BY <2>2, SameDetection DEF SyncIsIdempotent
<1>2. QED  BY <1>1, GroupInvHolds, PTL
=============================================================================
