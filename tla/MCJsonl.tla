------------------------------ MODULE MCJsonl --------------------------------
(***************************************************************************)
(* Values of the constants for the run of JsonlStore.                      *)
(***************************************************************************)
EXTENDS JsonlStore

DefaultPrecedence == <<"runtime_truth", "pin", "newer_verified">>

\* Three rivals for a key, one born pinned, one tagged runtime_truth, and a loner.
MCNotes ==
    { [text |-> "one",   truth |-> FALSE, pinned |-> TRUE,  key |-> "port"],
      [text |-> "two",   truth |-> FALSE, pinned |-> FALSE, key |-> "port"],
      [text |-> "three", truth |-> TRUE,  pinned |-> FALSE, key |-> "port"],
      [text |-> "four",  truth |-> FALSE, pinned |-> FALSE, key |-> Null] }
=============================================================================
