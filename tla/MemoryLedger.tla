---------------------------- MODULE MemoryLedger -----------------------------
(***************************************************************************)
(* What the store promises its users, with no files, tables or             *)
(* transactions: a memory appears at once, under a name nobody has, with   *)
(* the text it will always have.  It is never changed and never lost.      *)
(***************************************************************************)
CONSTANTS MemoryIds, MemoryTexts

VARIABLE memories

Names(M) == {m.id : m \in M}

Init == memories = {}

Remember(i, text) ==
    /\ i \notin Names(memories)
    /\ memories' = memories \cup {[id |-> i, text |-> text]}

Next == \E i \in MemoryIds, text \in MemoryTexts : Remember(i, text)

Spec == Init /\ [][Next]_memories
=============================================================================
