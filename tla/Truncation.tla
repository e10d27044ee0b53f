----------------------------- MODULE Truncation ------------------------------
(***************************************************************************)
(* tokenizer.py: truncate_to_tokens, the binary search for the longest     *)
(* prefix of a text that stays within a token limit.  A text is its        *)
(* length; Count gives the tokens of the prefix of every length, as        *)
(* count_tokens returns them under the configured strategy.  A real        *)
(* encoder need not be monotone: one more character may merge two tokens.  *)
(***************************************************************************)
EXTENDS Integers

CONSTANTS MaxLength,   \* bound: the longest text
          Count        \* count_tokens of the prefix of every length

\* Only the empty text has no token (max(1, ...), or any encoder).
ASSUME TruncationAssumption ==
    /\ MaxLength \in Nat
    /\ Count \in [0..MaxLength -> Nat]
    /\ \A n \in 0..MaxLength : Count[n] = 0 <=> n = 0

\* estimate_tokens_fallback
Estimate == [n \in 0..MaxLength |-> (n + 2) \div 3]

VARIABLES
    tpc,      \* "idle", "probe" or "done"
    length,   \* of the text to be cut
    limit,    \* max_tokens
    lo, hi,   \* the lengths still in question
    best,     \* the longest prefix so far that fits
    cut       \* the length of the prefix returned

truncVars == <<tpc, length, limit, lo, hi, best, cut>>

TruncTypeOK ==
    /\ tpc \in {"idle", "probe", "done"}
    /\ length \in 0..MaxLength
    /\ limit \in Nat
    /\ lo \in 0..(MaxLength + 1)
    /\ hi \in -1..MaxLength
    /\ best \in 0..MaxLength
    /\ cut \in 0..MaxLength

TruncInit ==
    /\ tpc = "idle"
    /\ length = 0 /\ limit = 0
    /\ lo = 0 /\ hi = 0 /\ best = 0
    /\ cut = 0

-----------------------------------------------------------------------------
\* The call: nothing fits no token, and a text that fits is returned whole.
Truncate(n, max) ==
    /\ tpc # "probe"
    /\ length' = n /\ limit' = max
    /\ lo' = 0 /\ hi' = n /\ best' = 0
    /\ tpc' = IF max = 0 \/ Count[n] <= max THEN "done" ELSE "probe"
    /\ cut' = IF max > 0 /\ Count[n] <= max THEN n ELSE 0

Mid == (lo + hi) \div 2

\* Mutant: a probe that just fits is taken for too long.
ProbeStrict ==
    /\ tpc = "probe" /\ lo <= hi
    /\ IF Count[Mid] < limit
       THEN best' = Mid /\ lo' = Mid + 1 /\ UNCHANGED hi
       ELSE hi' = Mid - 1 /\ UNCHANGED <<best, lo>>
    /\ UNCHANGED <<tpc, length, limit, cut>>

\* Mutant: the best length is the last one probed.
ProbeRemembersLast ==
    /\ tpc = "probe" /\ lo <= hi
    /\ best' = Mid
    /\ IF Count[Mid] <= limit
       THEN lo' = Mid + 1 /\ UNCHANGED hi
       ELSE hi' = Mid - 1 /\ UNCHANGED lo
    /\ UNCHANGED <<tpc, length, limit, cut>>

\* Mutant: the lower end of the range stays at the length just probed.
ProbeKeepsMid ==
    /\ tpc = "probe" /\ lo <= hi
    /\ IF Count[Mid] <= limit
       THEN best' = Mid /\ lo' = Mid /\ UNCHANGED hi
       ELSE hi' = Mid - 1 /\ UNCHANGED <<best, lo>>
    /\ UNCHANGED <<tpc, length, limit, cut>>

Probe ==
    /\ tpc = "probe" /\ lo <= hi
    /\ IF Count[Mid] <= limit
       THEN best' = Mid /\ lo' = Mid + 1 /\ UNCHANGED hi
       ELSE hi' = Mid - 1 /\ UNCHANGED <<best, lo>>
    /\ UNCHANGED <<tpc, length, limit, cut>>

Stop ==
    /\ tpc = "probe" /\ lo > hi
    /\ tpc' = "done"
    /\ cut' = best
    /\ UNCHANGED <<length, limit, lo, hi, best>>

TruncNext == Probe \/ Stop \/ \E n \in 0..MaxLength, max \in Nat : Truncate(n, max)

TruncSpec == TruncInit /\ [][TruncNext]_truncVars

-----------------------------------------------------------------------------
\* What truncate_to_tokens returns is within the limit by the very count the
\* caller uses, however the encoder counts prefixes ("Truncate text so
\* count_tokens is <= max_tokens").
Fits == tpc = "done" => Count[cut] <= limit

Monotone == \A m, n \in 0..MaxLength : m <= n => Count[m] <= Count[n]

\* No longer prefix would have fitted, if longer texts never count less: the
\* search gives away no budget at its boundaries.
Longest ==
    (tpc = "done" /\ Monotone) =>
        \A n \in 0..length : Count[n] <= limit => n <= cut
=============================================================================
