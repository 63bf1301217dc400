--------------------------- MODULE MCDecisionLoop ---------------------------
(* Bounds for DecisionLoop: a snapshot for each model, with and without chat   *)
(* of the player; a limit of two, so that a row of failures, a row broken by  *)
(* an answer and what follows the limit all fit in a few requests.            *)
EXTENDS DecisionLoop

MCSnapshots ==
    { [trigger |-> "periodic", chat |-> "none"],
      [trigger |-> "army_lost", chat |-> "simple"] }
=============================================================================
