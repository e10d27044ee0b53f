--------------------------- MODULE ConflictsProofs ---------------------------
(***************************************************************************)
(* choose_effective_memory for groups of any size: narrowing the group     *)
(* rule by rule finds the member that is strongest in the lexicographic    *)
(* order of the rules.  detect_conflicts for any memories and any stored   *)
(* records: its result is typed and is its own result.  MCConflicts checks *)
(* the same on small groups.                                               *)
(***************************************************************************)
EXTENDS Conflicts, WellFoundedInduction, TLAPS

\* Memories of a store: typed where the rules compare them, under unique ids.
IsGroup(G) ==
    /\ \A e \in G : e.id \in Nat \X Nat /\ e.created \in Nat /\ e.verified \in BOOLEAN
    /\ \A e, f \in G : e.id = f.id => e = f

\* Ids and dates are bounded, as in every finite group.
IsBounded(G) ==
    \E N \in Nat : \A e \in G : e.created <= N /\ e.id[1] <= N /\ e.id[2] <= N

\* Rule r speaks for e against f.
Stronger(r, e, f) ==
    CASE r = "runtime_truth"  -> e.truth /\ ~f.truth
      [] r = "pin"            -> e.pinned /\ ~f.pinned
      [] r = "newer_verified" -> RanksBelow(f, e)

\* The first rule that tells them apart speaks for e.
Outranks(e, f) ==
    \E n \in 1..3 :
        /\ Stronger(Precedence[n], e, f)
        /\ \A m \in 1..(n - 1) : ~Stronger(Precedence[m], f, e)

-----------------------------------------------------------------------------
(* What a decision and a detection return                                  *)

\* A rule leaves some of the candidates it was given, and at least one.
LEMMA NarrowedSubset ==
    ASSUME NEW r \in Terms, NEW C, C # {}
    PROVE  Narrowed(r, C) \subseteq C /\ Narrowed(r, C) # {}
<1>1. CASE r = "runtime_truth"
  BY <1>1 DEF Narrowed, Preferred
<1>2. CASE r = "pin"
  BY <1>2 DEF Narrowed, Preferred
<1>3. CASE r = "newer_verified"
  BY <1>3 DEF Narrowed, Preferred
<1> QED
  BY <1>1, <1>2, <1>3 DEF Terms

\* A decision names one of the remaining candidates and a status of its rule.
LEMMA DecidedType ==
    ASSUME NEW r \in Terms, NEW C, C # {}
    PROVE  /\ Decided(C, r).winner \in Ids(C)
           /\ Decided(C, r).status \in Statuses
<1> (CHOOSE e \in C : TRUE) \in C
  OBVIOUS
<1> QED
  BY DEF Decided, Ids, Statuses

\* choose_effective_memory names a member of the group, or nobody.
LEMMA ChooseType ==
    ASSUME NEW G
    PROVE  /\ Choose(G).winner \in Ids(G) \cup {Null}
           /\ Choose(G).status \in Statuses
<1> DEFINE C1 == Narrowed(Precedence[1], G)
           C2 == Narrowed(Precedence[2], C1)
           C3 == Narrowed(Precedence[3], C2)
<1>1. /\ Precedence[1] \in Terms
      /\ Precedence[2] \in Terms
      /\ Precedence[3] \in Terms
  BY PrecedenceAssumption
<1>2. /\ Undecided.winner \in Ids(G) \cup {Null}
      /\ Undecided.status \in Statuses
  BY DEF Undecided, Statuses
<1>3. CASE ~IsMany(G)
  BY <1>2, <1>3 DEF Choose
<1>4. CASE IsMany(G)
  <2>1. G # {}
    BY <1>4 DEF IsMany
  <2>2. C1 \subseteq G /\ C1 # {}
    BY <1>1, <2>1, NarrowedSubset
  <2>3. C2 \subseteq C1 /\ C2 # {}
    BY <1>1, <2>2, NarrowedSubset
  <2>4. C3 \subseteq C2 /\ C3 # {}
    BY <1>1, <2>3, NarrowedSubset
  <2>5. \A S \in {C1, C2, C3} : Ids(S) \subseteq Ids(G)
    BY <2>2, <2>3, <2>4 DEF Ids
  <2>6. Choose(G) \in {Undecided, Decided(C1, Precedence[1]),
                       Decided(C2, Precedence[2]), Decided(C3, Precedence[3])}
    BY <1>4 DEF Choose
  <2> HIDE DEF C1, C2, C3
  <2>7. /\ Decided(C1, Precedence[1]).winner \in Ids(C1)
        /\ Decided(C1, Precedence[1]).status \in Statuses
    BY <1>1, <2>2, DecidedType
  <2>8. /\ Decided(C2, Precedence[2]).winner \in Ids(C2)
        /\ Decided(C2, Precedence[2]).status \in Statuses
    BY <1>1, <2>3, DecidedType
  <2>9. /\ Decided(C3, Precedence[3]).winner \in Ids(C3)
        /\ Decided(C3, Precedence[3]).status \in Statuses
    BY <1>1, <2>4, DecidedType
  <2> QED
    BY <1>2, <2>5, <2>6, <2>7, <2>8, <2>9
<1> QED
  BY <1>3, <1>4

LEMMA FreshType ==
    ASSUME NEW I, NEW G, Ids(G) \subseteq I
    PROVE  Fresh(G) \in ConflictRecord(I)
  BY ChooseType DEF Fresh, ConflictRecord

\* Detection returns the stored record of a key, a fresh one or none.
LEMMA DetectCases ==
    ASSUME NEW E, NEW stored, NEW k \in Keys
    PROVE  \/ Detect(E, stored)[k] = Null
           \/ /\ Detect(E, stored)[k] = stored[k]
              /\ Keeps(stored[k], Group(E, k))
           \/ Detect(E, stored)[k] = Fresh(Group(E, k))
  BY DEF Detect

LEMMA DetectType ==
    ASSUME NEW I, NEW E, Ids(E) \subseteq I,
           NEW stored \in [Keys -> ConflictRecord(I) \cup {Null}]
    PROVE  Detect(E, stored) \in [Keys -> ConflictRecord(I) \cup {Null}]
<1> SUFFICES ASSUME NEW k \in Keys
             PROVE  Detect(E, stored)[k] \in ConflictRecord(I) \cup {Null}
  BY DEF Detect
<1>1. Ids(Group(E, k)) \subseteq I
  BY DEF Ids, Group
<1>2. Fresh(Group(E, k)) \in ConflictRecord(I)
  BY <1>1, FreshType
<1> QED
  BY <1>2, DetectCases

\* Storing what detection found changes nothing about what it finds.
LEMMA DetectTwice ==
    ASSUME NEW E, NEW s, NEW t, NEW k \in Keys,
           Detect(E, s)[k] # Null, t[k] = Detect(E, s)[k]
    PROVE  Detect(E, t)[k] = t[k]
<1>1. IsMany(Group(E, k))
  BY DEF Detect
<1>2. CASE Keeps(t[k], Group(E, k))
  BY <1>1, <1>2 DEF Detect
<1>3. CASE ~Keeps(t[k], Group(E, k))
  BY <1>1, <1>3 DEF Detect
<1>4. QED  BY <1>2, <1>3

\* detect_conflicts after its own result was stored: repeated syncs of an unchanged
\* store agree for every set of memories and whatever was stored before, so the
\* winner that retrieval sees does not flicker from one sync to the next.
THEOREM DetectionIsIdempotent ==
    ASSUME NEW E, NEW stored
    PROVE  Detect(E, Detect(E, stored)) = Detect(E, stored)
<1> DEFINE once == Detect(E, stored)
<1>1. ASSUME NEW k \in Keys PROVE Detect(E, once)[k] = once[k]
  <2>1. CASE once[k] # Null
    BY <2>1, DetectTwice
  <2>2. CASE ~IsMany(Group(E, k))
    BY <2>2 DEF Detect
  <2>3. CASE once[k] = Null /\ IsMany(Group(E, k))
    BY <2>3 DEF Detect, Keeps
  <2>4. QED  BY <2>1, <2>2, <2>3
<1>2. QED  BY <1>1 DEF Detect

-----------------------------------------------------------------------------
\* sort_key of newer_verified orders any two memories of the store.
LEMMA RankingIsTotal ==
    ASSUME NEW G, IsGroup(G), NEW e \in G, NEW f \in G, e # f
    PROVE  RanksBelow(e, f) \/ RanksBelow(f, e)
<1>1. /\ e.id \in Nat \X Nat /\ f.id \in Nat \X Nat /\ e.id # f.id
      /\ e.created \in Nat /\ f.created \in Nat
      /\ e.verified \in BOOLEAN /\ f.verified \in BOOLEAN
  BY DEF IsGroup
<1>2. IdBefore(e.id, f.id) \/ IdBefore(f.id, e.id)
  BY <1>1 DEF IdBefore
<1>3. CASE e.verified = f.verified
  <2>1. CASE e.created = f.created
    BY <1>2, <1>3, <2>1 DEF RanksBelow
  <2>2. CASE e.created # f.created
    <3>1. e.created < f.created \/ f.created < e.created
      BY <1>1, <2>2
    <3>2. QED  BY <1>3, <3>1 DEF RanksBelow
  <2>3. QED  BY <2>1, <2>2
<1>4. CASE e.verified # f.verified
  BY <1>1, <1>4 DEF RanksBelow
<1>5. QED  BY <1>3, <1>4

\* A set of naturals has a least element.
LEMMA LeastNatural ==
    ASSUME NEW S \in SUBSET Nat, S # {}
    PROVE  \E m \in S : \A n \in S : m <= n
<1> DEFINE R == {ss \in Nat \X Nat : ss[1] < ss[2]}
<1>1. IsWellFoundedOn(R, Nat)
  BY NatLessThanWellFounded DEF OpToRel
<1> HIDE DEF R
<1>2. PICK x \in S : \A y \in S : ~ (<<y, x>> \in R)
  BY <1>1, WFMin
<1>3. \A y \in S : ~ (y < x)
  BY <1>2 DEF R
<1>4. QED  BY <1>3

\* A bounded set of naturals has a greatest element.
LEMMA GreatestNatural ==
    ASSUME NEW S \in SUBSET Nat, S # {}, NEW N \in Nat, \A n \in S : n <= N
    PROVE  \E m \in S : \A n \in S : n <= m
<1> DEFINE D == {N - n : n \in S}
<1>1. D \in SUBSET Nat /\ D # {}
  <2>1. \A n \in S : N - n \in Nat
    OBVIOUS
  <2>2. D \in SUBSET Nat
    BY <2>1
  <2>3. PICK s \in S : TRUE
    OBVIOUS
  <2>4. N - s \in D
    BY <2>3
  <2>5. QED  BY <2>2, <2>4
<1>2. PICK d \in D : \A x \in D : d <= x
  <2> HIDE DEF D
  <2>1. QED  BY <1>1, LeastNatural
<1>3. PICK m \in S : d = N - m
  OBVIOUS
<1>4. \A n \in S : N - m <= N - n
  BY <1>2, <1>3
<1>5. QED  BY <1>4

\* In a group somebody ranks below nobody: the verified ones if there are any, of
\* these the newest, of these the greatest id.
LEMMA GroupsHaveTops ==
    ASSUME NEW G, IsGroup(G), IsBounded(G), G # {}
    PROVE  \E e \in G : \A f \in G : ~RanksBelow(e, f)
<1> DEFINE V == IF \E e \in G : e.verified THEN {e \in G : e.verified} ELSE G
<1>1. V \subseteq G /\ V # {} /\ \A e \in V, f \in G : f.verified => e.verified
  OBVIOUS
<1>2. \A e \in G \ V, f \in V : f.verified /\ ~e.verified
  OBVIOUS
<1> HIDE DEF V
<1>3. PICK N \in Nat : \A e \in G : e.created <= N /\ e.id[1] <= N /\ e.id[2] <= N
  BY DEF IsBounded
<1>4. \A e \in G : e.created \in Nat /\ e.id[1] \in Nat /\ e.id[2] \in Nat
  BY DEF IsGroup
<1>5. PICK a \in V : \A f \in V : f.created <= a.created
  <2>1. {e.created : e \in V} \in SUBSET Nat /\ {e.created : e \in V} # {}
        /\ \A n \in {e.created : e \in V} : n <= N
    BY <1>1, <1>3, <1>4
  <2>2. QED  BY <2>1, GreatestNatural
<1> DEFINE W == {e \in V : e.created = a.created}
<1>6. PICK b \in W : \A f \in W : f.id[1] <= b.id[1]
  <2>1. {e.id[1] : e \in W} \in SUBSET Nat /\ {e.id[1] : e \in W} # {}
        /\ \A n \in {e.id[1] : e \in W} : n <= N
    BY <1>1, <1>3, <1>4
  <2>2. QED  BY <2>1, GreatestNatural
<1> DEFINE X == {e \in W : e.id[1] = b.id[1]}
<1>7. PICK c \in X : \A f \in X : f.id[2] <= c.id[2]
  <2>1. {e.id[2] : e \in X} \in SUBSET Nat /\ {e.id[2] : e \in X} # {}
        /\ \A n \in {e.id[2] : e \in X} : n <= N
    BY <1>1, <1>3, <1>4
  <2>2. QED  BY <2>1, GreatestNatural
<1>8. c \in V /\ c \in G /\ c.created = a.created /\ c.id[1] = b.id[1]
  BY <1>1
<1>9. ASSUME NEW f \in G, RanksBelow(c, f) PROVE FALSE
  <2>1. f \in V /\ (c.verified = f.verified)
        /\ (c.created < f.created \/ (c.created = f.created /\ IdBefore(c.id, f.id)))
    BY <1>1, <1>2, <1>8, <1>9 DEF RanksBelow, IsGroup
  <2>2. f.created = a.created /\ IdBefore(c.id, f.id)
    BY <1>4, <1>5, <1>8, <2>1
  <2>3. f \in W
    BY <2>1, <2>2
  <2>4. f.id[1] = b.id[1] /\ c.id[2] < f.id[2]
    BY <1>4, <1>6, <1>8, <2>2, <2>3 DEF IdBefore
  <2>5. f \in X
    BY <2>3, <2>4
  <2>6. QED  BY <1>4, <1>7, <1>8, <2>4, <2>5
<1>10. QED  BY <1>8, <1>9

\* One narrowing: somebody is left, nobody left is beaten by anybody under the
\* rule, and everybody discarded is beaten by everybody left.
LEMMA NarrowingKeepsStrongest ==
    ASSUME NEW r \in Terms, NEW G, IsGroup(G), IsBounded(G), G # {}
    PROVE  /\ Narrowed(r, G) \subseteq G /\ Narrowed(r, G) # {}
           /\ \A e \in Narrowed(r, G), f \in G : ~Stronger(r, f, e)
           /\ \A e \in Narrowed(r, G), f \in G \ Narrowed(r, G) : Stronger(r, e, f)
<1>1. CASE r = "runtime_truth"
  <2>1. Preferred(r, G) = {e \in G : e.truth}
    BY <1>1 DEF Preferred
  <2>2. \A e, f : Stronger(r, e, f) <=> e.truth /\ ~f.truth
    BY <1>1 DEF Stronger
  <2>3. QED  BY <2>1, <2>2 DEF Narrowed
<1>2. CASE r = "pin"
  <2>1. Preferred(r, G) = {e \in G : e.pinned}
    BY <1>2 DEF Preferred
  <2>2. \A e, f : Stronger(r, e, f) <=> e.pinned /\ ~f.pinned
    BY <1>2 DEF Stronger
  <2>3. QED  BY <2>1, <2>2 DEF Narrowed
<1>3. CASE r = "newer_verified"
  <2>1. Preferred(r, G) = {e \in G : \A f \in G : ~RanksBelow(e, f)}
    BY <1>3 DEF Preferred
  <2>2. \A e, f : Stronger(r, e, f) <=> RanksBelow(f, e)
    BY <1>3 DEF Stronger
  <2>3. Preferred(r, G) # {}
    BY <2>1, GroupsHaveTops
  <2>4. Narrowed(r, G) = {e \in G : \A f \in G : ~RanksBelow(e, f)}
    BY <2>1, <2>3 DEF Narrowed
  <2>5. ASSUME NEW e \in Narrowed(r, G), NEW f \in G \ Narrowed(r, G) PROVE RanksBelow(f, e)
    <3>1. e \in G /\ f \in G /\ e # f /\ ~RanksBelow(e, f)
      BY <2>4, <2>5
    <3>2. QED  BY <3>1, RankingIsTotal
  <2>6. \A e \in Narrowed(r, G), f \in G : ~RanksBelow(e, f)
    BY <2>4
  <2>7. Narrowed(r, G) \subseteq G /\ Narrowed(r, G) # {}
    BY <2>1, <2>3, <2>4
  <2>8. QED  BY <2>2, <2>5, <2>6, <2>7
<1>4. QED  BY <1>1, <1>2, <1>3 DEF Terms

\* Two memories never rank equal, so the rule newer_verified leaves one.
LEMMA NewestIsOne ==
    ASSUME NEW G, IsGroup(G), IsBounded(G), G # {}
    PROVE  IsOne(Narrowed("newer_verified", G))
<1> DEFINE N == Narrowed("newer_verified", G)
<1>1. "newer_verified" \in Terms
  BY DEF Terms
<1>2. N \subseteq G /\ N # {} /\ \A e \in N, f \in G : ~Stronger("newer_verified", f, e)
  BY <1>1, NarrowingKeepsStrongest
<1>3. \A e, f : Stronger("newer_verified", f, e) <=> RanksBelow(e, f)
  BY DEF Stronger
<1>4. ASSUME NEW e \in N, NEW f \in N, e # f PROVE FALSE
  <2>1. e \in G /\ f \in G
    BY <1>2
  <2>2. QED  BY <1>2, <1>3, <1>4, <2>1, RankingIsTotal
<1>5. QED  BY <1>2, <1>4 DEF IsOne

\* Parts of a group inherit what is assumed of it.
LEMMA PartsOfGroups ==
    ASSUME NEW G, IsGroup(G), IsBounded(G), NEW S \in SUBSET G
    PROVE  IsGroup(S) /\ IsBounded(S)
BY DEF IsGroup, IsBounded

\* choose_effective_memory decides every conflict, however large the group and
\* whatever the precedence order, and its winner outranks every other member.
THEOREM ChoiceIsStrongest ==
    ASSUME NEW G, IsGroup(G), IsBounded(G), IsMany(G)
    PROVE  \E e \in G : /\ e.id = Choose(G).winner
                        /\ Choose(G).status # "unresolved"
                        /\ \A f \in G \ {e} : Outranks(e, f)
<1> DEFINE C1 == Narrowed(Precedence[1], G)
           C2 == Narrowed(Precedence[2], C1)
           C3 == Narrowed(Precedence[3], C2)
<1>1. Precedence[1] \in Terms /\ Precedence[2] \in Terms /\ Precedence[3] \in Terms
  BY PrecedenceAssumption
<1>2. G # {}
  BY DEF IsMany
<1>3. /\ C1 \subseteq G /\ C1 # {}
      /\ \A e \in C1, f \in G : ~Stronger(Precedence[1], f, e)
      /\ \A e \in C1, f \in G \ C1 : Stronger(Precedence[1], e, f)
  BY <1>1, <1>2, NarrowingKeepsStrongest
<1>4. IsGroup(C1) /\ IsBounded(C1)
  BY <1>3, PartsOfGroups
<1>5. /\ C2 \subseteq C1 /\ C2 # {}
      /\ \A e \in C2, f \in C1 : ~Stronger(Precedence[2], f, e)
      /\ \A e \in C2, f \in C1 \ C2 : Stronger(Precedence[2], e, f)
  BY <1>1, <1>3, <1>4, NarrowingKeepsStrongest
<1>6. IsGroup(C2) /\ IsBounded(C2)
  BY <1>4, <1>5, PartsOfGroups
<1>7. /\ C3 \subseteq C2 /\ C3 # {}
      /\ \A e \in C3, f \in C2 : ~Stronger(Precedence[3], f, e)
      /\ \A e \in C3, f \in C2 \ C3 : Stronger(Precedence[3], e, f)
  BY <1>1, <1>5, <1>6, NarrowingKeepsStrongest
<1>8. IsOne(C1) \/ IsOne(C2) \/ IsOne(C3)
  <2>1. PICK n \in 1..3 : Precedence[n] = "newer_verified"
    BY PrecedenceAssumption DEF Terms
  <2>2. CASE n = 1
    BY <1>2, <2>1, <2>2, NewestIsOne
  <2>3. CASE n = 2
    BY <1>3, <1>4, <2>1, <2>3, NewestIsOne
  <2>4. CASE n = 3
    BY <1>5, <1>6, <2>1, <2>4, NewestIsOne
  <2>5. QED  BY <2>1, <2>2, <2>3, <2>4
<1>9. \A r \in Terms : StatusOf(r) # "unresolved"
  BY DEF Terms, StatusOf
<1>10. ASSUME NEW C, NEW n \in 1..3, IsOne(C), C \subseteq G,
              Choose(G) = Decided(C, Precedence[n]),
              \A e \in C, f \in G \ C : Outranks(e, f)
       PROVE  \E e \in G : /\ e.id = Choose(G).winner
                           /\ Choose(G).status # "unresolved"
                           /\ \A f \in G \ {e} : Outranks(e, f)
  <2>1. PICK w \in C : C = {w}
    BY <1>10 DEF IsOne
  <2>2. (CHOOSE e \in C : TRUE) = w
    BY <2>1
  <2>3. Choose(G).winner = w.id /\ Choose(G).status = StatusOf(Precedence[n])
    <3> DEFINE chosen == CHOOSE e \in C : TRUE
    <3>1. Choose(G) = [winner |-> chosen.id, status |-> StatusOf(Precedence[n])]
      BY <1>10, Zenon DEF Decided
    <3>2. chosen = w
      BY <2>2
    <3> HIDE DEF chosen
    <3>3. QED  BY <3>1, <3>2
  <2>4. Precedence[n] \in Terms
    BY PrecedenceAssumption
  <2>5. QED  BY <1>9, <1>10, <2>1, <2>3, <2>4
<1>11. \A e \in C1, f \in G \ C1 : Outranks(e, f)
  BY <1>3 DEF Outranks
<1>12. \A e \in C2, f \in G \ C2 : Outranks(e, f)
  <2> SUFFICES ASSUME NEW e \in C2, NEW f \in G \ C2, f \in C1 PROVE Outranks(e, f)
    BY <1>5, <1>11
  <2>1. Stronger(Precedence[2], e, f) /\ ~Stronger(Precedence[1], f, e)
    BY <1>3, <1>5
  <2>2. \A m \in 1..(2 - 1) : m = 1
    OBVIOUS
  <2>3. QED  BY <2>1, <2>2 DEF Outranks
<1>13. \A e \in C3, f \in G \ C3 : Outranks(e, f)
  <2> SUFFICES ASSUME NEW e \in C3, NEW f \in G \ C3, f \in C2 PROVE Outranks(e, f)
    BY <1>7, <1>12
  <2>1. /\ Stronger(Precedence[3], e, f)
        /\ ~Stronger(Precedence[1], f, e) /\ ~Stronger(Precedence[2], f, e)
    BY <1>3, <1>5, <1>7
  <2>2. \A m \in 1..(3 - 1) : m = 1 \/ m = 2
    OBVIOUS
  <2>3. QED  BY <2>1, <2>2 DEF Outranks
<1>14. CASE IsOne(C1)
  <2>1. Choose(G) = Decided(C1, Precedence[1])
    BY <1>14 DEF Choose
  <2>2. QED  BY <1>3, <1>10, <1>11, <1>14, <2>1
<1>15. CASE ~IsOne(C1) /\ IsOne(C2)
  <2>1. Choose(G) = Decided(C2, Precedence[2])
    BY <1>15 DEF Choose
  <2>2. QED  BY <1>3, <1>5, <1>10, <1>12, <1>15, <2>1
<1>16. CASE ~IsOne(C1) /\ ~IsOne(C2) /\ IsOne(C3)
  <2>1. Choose(G) = Decided(C3, Precedence[3])
    BY <1>16 DEF Choose
  <2>2. QED  BY <1>3, <1>5, <1>7, <1>10, <1>13, <1>16, <2>1
<1>17. QED  BY <1>8, <1>14, <1>15, <1>16
=============================================================================
