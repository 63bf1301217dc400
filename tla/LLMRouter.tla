----------------------------- MODULE LLMRouter -----------------------------
(* server/llm_router.py: which of the two models answers a snapshot.          *)

CONSTANTS Difficulty  \* bot.difficulty of the configuration

ASSUME DifficultyAssumption == Difficulty \in {"easy", "normal", "hard"}

Models == {"deep", "fast"}

Deep_Events == {"army_lost", "phase_change", "deep_periodic"}
Fast_Events == {"ally_under_attack", "ally_air_threat", "ally_economy_stall", "periodic"}
Triggers    == Deep_Events \cup Fast_Events
                 \cup {"enemy_detected", "economy_stall", "player_chat"}

\* A snapshot, as far as the server's control flow looks at it: its trigger and
\* the player's chat in it: none, or a message that is longer than 60 characters
\* or holds a keyword ("complex"), or only others ("simple").
SnapshotType == [trigger : Triggers, chat : {"none", "simple", "complex"}]

route(snapshot) ==
    CASE Difficulty = "easy" -> "fast"
      [] Difficulty = "hard" -> "deep"
      [] OTHER ->
           IF \/ snapshot.trigger \in Deep_Events
              \/ snapshot.trigger = "player_chat" /\ snapshot.chat = "complex"
           THEN "deep"
           ELSE "fast"
=============================================================================
