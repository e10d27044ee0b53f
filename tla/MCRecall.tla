------------------------------ MODULE MCRecall -------------------------------
(***************************************************************************)
(* Values of the constants for the runs of Recall.                         *)
(***************************************************************************)
EXTENDS Recall

CONSTANT c1

MCPrecedence == <<"runtime_truth", "pin", "newer_verified">>

MCTexts     == {"trace", "plain", "output"}
Identity    == [x \in MCTexts |-> x]
MCLengths   == [x \in MCTexts |-> IF x = "plain" THEN 3 ELSE 9]

\* Two rivals, one of them a diagnostic in a scratch room, and another diagnostic.
MCTurns ==
    { [room |-> "work", kind |-> "note", raw |-> "plain", truth |-> FALSE,
       pinned |-> TRUE, key |-> "port"],
      [room |-> "scratch", kind |-> "stacktrace", raw |-> "trace", truth |-> FALSE,
       pinned |-> FALSE, key |-> "port"],
      [room |-> "home", kind |-> "shell_output", raw |-> "output", truth |-> FALSE,
       pinned |-> FALSE, key |-> Null] }

MCQuery(total, design) == [total |-> total, design |-> design, enabled |-> TRUE]

\* One token, which cuts into the fixed lines and uses up the rounds, and ten, which
\* hold one or two items.
MCQueries ==
    { MCQuery(4, TRUE), MCQuery(20, FALSE),
      [MCQuery(20, FALSE) EXCEPT !.enabled = FALSE] }

MCMaxLength == 60
=============================================================================
