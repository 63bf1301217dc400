-------------------------- MODULE FallbackStrategy --------------------------
(* The rules of server/fallback_strategy.py, and those of _minimal_fallback   *)
(* in server/bridge_server.py, which stand in when that module cannot be      *)
(* imported.  CommandBuilder says how decisions are written here.             *)
EXTENDS CommandBuilder

List(items) == [form |-> "list", items |-> items]

_make(strategy, build_priority, comp, direction, retreat) ==
    [strategy          |-> strategy,
     build_priority    |-> build_priority,
     army_composition  |-> [land |-> comp[1], air |-> comp[2], navy |-> comp[3]],
     attack_direction  |-> direction,
     retreat_threshold |-> retreat,
     chat_message      |-> Null,
     reasoning         |-> [size |-> 45, odd |-> "no"]]  \* about that

\* The first rule that applies decides.
get_command(s) ==
    IF s.near_base > 50
      THEN _make("defend", List(<<"t2_pd", "shield">>), <<6000, 3000, 1000>>, "none", 50)
    ELSE IF s.factories < 3
      THEN _make("build_factories", List(<<"t1_mex", "land">>), <<8000, 1000, 1000>>, Null, 30)
    ELSE IF s.mass_income < 3
      THEN _make("reclaim", List(<<"t1_mex", "t2_mex">>), <<7000, 2000, 1000>>, Null, 30)
    ELSE IF s.land_military > 20
      THEN _make("attack", List(<<"land">>), <<8000, 1000, 1000>>, "nearest_enemy", 30)
    ELSE _make("balanced", List(<<"land", "t2_mex">>), <<7000, 2000, 1000>>, Null, 30)

\* Mutant: the mass is looked at before the factories.
MutMinimal(s) ==
    IF s.mass_income < 3 THEN "reclaim"
    ELSE IF s.factories < 3 THEN "build_factories"
    ELSE IF s.land_military > 20 THEN "attack"
    ELSE "balanced"

minimal_strategy(s) ==
    IF s.factories < 3 THEN "build_factories"
    ELSE IF s.land_military > 20 THEN "attack"
    ELSE IF s.mass_income < 3 THEN "reclaim"
    ELSE "balanced"

_minimal_fallback(s) ==
    _make(minimal_strategy(s), [form |-> "text", items |-> <<"land">>],
          <<7000, 2000, 1000>>, "nearest_enemy", 30)
=============================================================================
