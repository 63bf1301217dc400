-------------------------- MODULE MCStrategyExecutor --------------------------
(* Bounds for StrategyExecutor: a longer and a shorter template and a strategy *)
(* without one, and enough orders to go round the loop and enter it again at   *)
(* either place after a change of strategy.                                    *)
EXTENDS StrategyExecutor

MCTemplates == [balanced |-> <<"pgen", "mex", "factory">>, land_rush |-> <<"tank">>]
MCStrategies == {"balanced", "land_rush", "defend"}
MCExpansion == <<"mex2", "pgen2", "factory2">>
=============================================================================
