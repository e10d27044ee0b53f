------------------------------ MODULE MCPalace -------------------------------
(***************************************************************************)
(* Values of the constants for the runs of Palace.                         *)
(***************************************************************************)
EXTENDS Palace, TLC

CONSTANTS c1, c2

ClientSymmetry == Permutations({c1, c2})

\* RoutingConfig's default conflict_precedence.
DefaultPrecedence == <<"runtime_truth", "pin", "newer_verified">>

\* Raw texts: "oops" and "oops " are one error up to white space, "key" holds a
\* key that redaction masks into the text of "masked", "secret" is dropped.  One
\* policy masks, another drops: a host may be restarted with the other between
\* two turns.
MCTexts == {"oops", "oops ", "masked", "plain"}
MCRedact ==
    [x \in {"oops", "oops ", "key", "masked", "plain", "secret"} |->
        CASE x = "key"    -> "masked"
          [] x = "secret" -> Null
          [] OTHER        -> x]
MCSignature == [x \in MCTexts |-> IF x = "oops " THEN "oops" ELSE x]

MakeTurn(kind, raw, truth, pinned, key) ==
    [room |-> "work", kind |-> kind, raw |-> raw, truth |-> truth,
     pinned |-> pinned, key |-> key]

\* Rival statements about one key, a pinned one and one tagged runtime_truth, and
\* a turn without a room.
RivalTurns ==
    { MakeTurn("note", "plain", FALSE, TRUE, "port"),
      MakeTurn("stacktrace", "oops", TRUE, FALSE, "port"),
      [MakeTurn("note", "oops", FALSE, FALSE, Null) EXCEPT !.room = Null] }

\* The same error twice in different layout, the same text as another kind, a
\* text redaction turns into one already seen, a turn without a room, a text that
\* redaction drops, and a text unrelated to the others.
RepeatingTurns ==
    { MakeTurn("stacktrace", "oops", FALSE, FALSE, Null),
      MakeTurn("stacktrace", "oops ", FALSE, FALSE, Null),
      MakeTurn("tool_output", "oops ", FALSE, FALSE, Null),
      MakeTurn("note", "masked", FALSE, FALSE, Null),
      MakeTurn("note", "key", FALSE, FALSE, Null),
      MakeTurn("note", "secret", FALSE, FALSE, Null),
      MakeTurn("note", "plain", FALSE, FALSE, Null),
      [MakeTurn("note", "plain", FALSE, FALSE, Null) EXCEPT !.room = Null] }

\* Turns that leave files reindex can and cannot name correctly.
ArchivedTurns ==
    { MakeTurn("note", "plain", FALSE, TRUE, Null),
      MakeTurn("stacktrace", "oops", FALSE, FALSE, Null),
      MakeTurn("shell_output", "masked", FALSE, FALSE, Null) }

\* Two conflicts at once.
TwoKeyTurns ==
    { MakeTurn("note", "plain", FALSE, FALSE, "port"),
      MakeTurn("note", "masked", FALSE, FALSE, "port"),
      MakeTurn("note", "oops", FALSE, FALSE, "host"),
      MakeTurn("note", "oops ", FALSE, TRUE, "host") }
=============================================================================
