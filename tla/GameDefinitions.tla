--------------------------- MODULE GameDefinitions ---------------------------
(***************************************************************************)
(* discord_bot/games.py: the five games, with what of their ServerSpec     *)
(* decides which steps a job takes.  Ports, locations, sizes and messages  *)
(* are left out; a resource is named after its game.                       *)
(***************************************************************************)

(* The defaults of the dataclass.                                          *)
ServerSpec == [has_volume |-> FALSE, stop_strategy |-> "stop"]

VALHEIM == [ServerSpec EXCEPT !.stop_strategy = "sigint-wait"]
FACTORIO == ServerSpec
ENSHROUDED == ServerSpec
ABIOTIC_FACTOR == [ServerSpec EXCEPT !.has_volume = TRUE]
WINDROSE == [ServerSpec EXCEPT !.has_volume = TRUE, !.stop_strategy = "stop-timeout"]

ALL_GAMES ==
    [game \in {"valheim", "factorio", "enshrouded", "abiotic-factor", "windrose"} |->
        CASE game = "valheim" -> VALHEIM
          [] game = "factorio" -> FACTORIO
          [] game = "enshrouded" -> ENSHROUDED
          [] game = "abiotic-factor" -> ABIOTIC_FACTOR
          [] game = "windrose" -> WINDROSE]

WithVolume(games) == {game \in games : ALL_GAMES[game].has_volume}

Stopped(games, strategy) == {game \in games : ALL_GAMES[game].stop_strategy = strategy}
==============================================================================
