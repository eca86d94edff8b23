---------------------------- MODULE GameContainer ----------------------------
(***************************************************************************)
(* One game container from `docker run` to its end, and the stop that      *)
(* remote_ops.py sends it: entrypoint.sh, the start.sh of Valheim,         *)
(* Enshrouded and Windrose, container_stop_command and stop_container.     *)
(*                                                                         *)
(* Only the first process gets the stop signal, and the container, with    *)
(* every process in it, ends when the first process does.  A shell without *)
(* a trap is deaf there: the kernel drops the signal.  Valheim's start.sh  *)
(* makes the game the first process (exec); the other two stay and have a  *)
(* trap.  What Proton, Wine and the games do when they are told to stop is *)
(* modelled from what the scripts rely on: they save the world and go.     *)
(***************************************************************************)
EXTENDS Naturals, GameDefinitions

CONSTANTS
    Games,      \* the games looked at
    PollLimit,  \* the count at which Enshrouded's search for its game gives up
    Faults      \* what may go wrong

ScriptedGames == {"valheim", "enshrouded", "windrose"}

ASSUME ContainerAssumption ==
    /\ Games \subseteq ScriptedGames
    /\ PollLimit \in Nat
    /\ Faults \subseteq {"script", "game", "proton", "grace", "job_timeout"}

VARIABLES
    game,       \* the container's game
    script,     \* where the first process is
    signal,     \* "pending": the shell has a signal whose trap has not run yet
    polls,      \* `timeout` of Enshrouded's search
    pid,        \* what enshrouded_pid is set to
    proton,     \* the process that the script waits for
    server,     \* the game itself
    gamedata,   \* "old": the game has more of the world than /gamedata
    stop,       \* the stop command of a stop job
    grace,      \* "runs": dockerd counts the seconds of a `docker stop`
    how         \* what ended the container other than its scripts' last step

shell == <<script, signal, polls, pid>>
processes == <<proton, server, gamedata>>
docker == <<stop, grace, how>>
vars == <<game, shell, processes, docker>>

(* Where a trap can run, and where it then is.                             *)
TrapAt == [launch |-> "trap_launch", wait |-> "trap_wait"]

TypeOK ==
    /\ game \in Games
    /\ script \in {"install", "prepare", "game", "launch", "trap_launch", "wait",
                   "trap_wait", "linger", "exited"}
    /\ signal \in {"none", "pending"}
    /\ pid \in {"unset", "game"}
    /\ polls \in 0..PollLimit
    /\ proton \in {"none", "runs", "told", "gone"}
    /\ server \in {"none", "runs", "saving", "gone"}
    /\ gamedata \in {"current", "old"}
    /\ stop \in {"none", "waiting", "ok", "failed"}
    /\ grace \in {"none", "runs"}
    /\ how \in {"itself", "error", "crash", "killed"}

Init ==
    /\ game \in Games
    /\ script = "install" /\ signal = "none" /\ polls = 0 /\ pid = "unset"
    /\ proton = "none" /\ server = "none" /\ gamedata = "current"
    /\ stop = "none" /\ grace = "none" /\ how = "itself"

(* The first process ends, and takes the others with it.                   *)
Exit ==
    /\ script' = "exited"
    /\ proton' = "gone" /\ server' = "gone"
    /\ UNCHANGED <<game, signal, polls, pid, gamedata, stop, grace>>

----------------------------------------------------------------------------
(* The scripts, which `set -e` ends at their first error                   *)

Install ==
    /\ script = "install"
    /\ script' = "prepare"
    /\ UNCHANGED <<game, signal, polls, pid, processes, docker>>

(* Everything up to the launch: the modpack, the configuration, Windrose's *)
(* first boot.  Valheim's script then becomes the game; the others set     *)
(* their trap and start Proton in the background.                          *)
Prepare ==
    /\ script = "prepare"
    /\ IF game = "valheim"
         THEN script' = "game" /\ UNCHANGED proton
         ELSE script' = "launch" /\ proton' = "runs"
    /\ UNCHANGED <<game, signal, polls, pid, server, gamedata, docker>>

ScriptFails ==
    /\ "script" \in Faults
    /\ script \in {"install", "prepare"}
    /\ Exit
    /\ how' = "error"

Searching == game = "enshrouded" /\ script = "launch"
GameSeen == server \in {"runs", "saving"}       \* what `ps` shows

(* Mutant: the `elif` looks for a turn the loop never has.                 *)
SearchToTheEnd ==
    /\ Searching /\ ~GameSeen
    /\ IF polls < PollLimit THEN polls' = polls + 1 /\ UNCHANGED script
                            ELSE script' = "wait" /\ UNCHANGED polls
    /\ UNCHANGED <<game, signal, pid, processes, docker>>

(* Another turn of Enshrouded's loop, whose `elif` ends the script in the  *)
(* last turn that the loop's condition allows.                             *)
SearchAgain ==
    /\ Searching /\ ~GameSeen
    /\ \/ /\ polls < PollLimit
          /\ polls' = polls + 1
          /\ UNCHANGED <<game, script, signal, pid, processes, docker>>
       \/ /\ polls = PollLimit
          /\ Exit
          /\ how' = "error"

FindGame ==
    /\ Searching /\ GameSeen
    /\ pid' = "game"
    /\ script' = "wait"
    /\ UNCHANGED <<game, signal, polls, processes, docker>>

(* Windrose: the `tail` of the log is started.                             *)
FollowLog ==
    /\ game = "windrose" /\ script = "launch"
    /\ script' = "wait"
    /\ UNCHANGED <<game, signal, polls, pid, processes, docker>>

(* `wait` returns with Proton.  An error status ends the script; otherwise *)
(* Enshrouded's waits for a game that is still there.                      *)
WaitReturns ==
    /\ script = "wait" /\ proton = "gone"
    /\ \/ Exit
       \/ /\ game = "enshrouded" /\ GameSeen
          /\ script' = "linger"
          /\ UNCHANGED <<game, signal, polls, pid, processes, stop, grace>>
    /\ UNCHANGED how

LingerEnds ==
    /\ script = "linger" /\ ~GameSeen
    /\ Exit
    /\ UNCHANGED how

(* The trap: `kill -INT` of Proton (Enshrouded), which fails, and with it  *)
(* the script, when Proton is gone; `wineserver -k` (Windrose), which does *)
(* nothing as long as the game has not started.                            *)
RunTrap ==
    /\ signal = "pending" /\ script \in DOMAIN TrapAt
    /\ IF game = "enshrouded" /\ proton = "gone"
         THEN Exit /\ how' = "error"
         ELSE /\ script' = TrapAt[script]
              /\ signal' = "none"
              /\ proton' = IF proton = "runs" /\ (game = "windrose" => server # "none")
                           THEN "told" ELSE proton
              /\ server' = IF server = "runs" THEN "saving" ELSE server
              /\ UNCHANGED <<game, polls, pid, gamedata, docker>>

(* Mutant: `wineserver -k &`, which the trap does not wait for.            *)
EndTrapAtOnce ==
    \/ script = "trap_wait" /\ Exit /\ UNCHANGED how
    \/ /\ script = "trap_launch" /\ script' = "launch"
       /\ UNCHANGED <<game, signal, polls, pid, processes, docker>>

(* `wineserver -k` is synchronous, `kill` is not.  A `wait` that was       *)
(* interrupted by the trap then returns 143, which ends the script.        *)
EndTrap ==
    /\ game = "windrose" => server # "saving"
    /\ \/ script = "trap_wait" /\ Exit /\ UNCHANGED how
       \/ /\ script = "trap_launch" /\ script' = "launch"
          /\ UNCHANGED <<game, signal, polls, pid, processes, docker>>

Script ==
    \/ Install \/ Prepare \/ SearchAgain \/ FindGame \/ FollowLog
    \/ WaitReturns \/ LingerEnds \/ RunTrap \/ EndTrap

----------------------------------------------------------------------------
(* Proton and the game                                                     *)

(* From here on the game reacts to signals.  A trap that finds no game is  *)
(* over before one has started.                                            *)
ServerStarts ==
    /\ server = "none" /\ (proton = "runs" \/ script = "game")
    /\ \A at \in DOMAIN TrapAt : script # TrapAt[at]
    /\ server' = "runs"
    /\ UNCHANGED <<game, shell, proton, gamedata, docker>>

Play ==
    /\ server = "runs"
    /\ gamedata' = "old"
    /\ UNCHANGED <<game, shell, proton, server, docker>>

(* The end of the game is the container's if it is the first process.      *)
ServerSaves ==
    /\ server = "saving"
    /\ server' = "gone" /\ gamedata' = "current"
    /\ script' = IF game = "valheim" THEN "exited" ELSE script
    /\ UNCHANGED <<game, signal, polls, pid, proton, docker>>

ServerCrashes ==
    /\ "game" \in Faults /\ server = "runs"
    /\ server' = "gone" /\ how' = "crash"
    /\ script' = IF game = "valheim" THEN "exited" ELSE script
    /\ UNCHANGED <<game, signal, polls, pid, proton, gamedata, stop, grace>>

(* Proton ends after its game or, when told to, with or before it.         *)
ProtonEnds ==
    /\ proton = "told" \/ (proton = "runs" /\ server = "gone")
    /\ proton' = "gone"
    /\ UNCHANGED <<game, shell, server, gamedata, docker>>

(* Its launcher may also end without the game.                             *)
ProtonCrashes ==
    /\ "proton" \in Faults /\ proton = "runs"
    /\ proton' = "gone" /\ how' = "crash"
    /\ UNCHANGED <<game, shell, server, gamedata, stop, grace>>

Processes == ServerStarts \/ ServerSaves \/ ProtonEnds

----------------------------------------------------------------------------
(* remote_ops.py, and dockerd                                              *)

(* A stop job comes, or comes again; container_stop_command goes by the    *)
(* game's strategy.                                                        *)
StopComes(strategies) ==
    stop \in {"none", "failed"} /\ ALL_GAMES[game].stop_strategy \in strategies

(* Mutant: no `docker wait` after `docker kill`.                           *)
KillOnly ==
    /\ StopComes({"sigint-wait"})
    /\ stop' = IF script = "exited" THEN "failed" ELSE "ok"
    /\ server' = IF script = "game" /\ server = "runs" THEN "saving" ELSE server
    /\ UNCHANGED <<game, shell, proton, gamedata, grace, how>>

(* "sigint-wait": `docker kill` fails on an exited container; its SIGINT   *)
(* does nothing before the game is there to handle it.                     *)
KillAndWait ==
    /\ StopComes({"sigint-wait"})
    /\ stop' = IF script = "exited" THEN "failed" ELSE "waiting"
    /\ server' = IF script = "game" /\ server = "runs" THEN "saving" ELSE server
    /\ UNCHANGED <<game, shell, proton, gamedata, grace, how>>

(* "stop" and "stop-timeout": SIGTERM now, SIGKILL after the grace.        *)
DockerStop ==
    /\ StopComes({"stop", "stop-timeout"})
    /\ IF script = "exited"
         THEN stop' = "ok" /\ UNCHANGED <<signal, grace>>
         ELSE /\ stop' = "waiting" /\ grace' = "runs"
              /\ signal' = IF script \in {"install", "prepare"} THEN "none" ELSE "pending"
    /\ UNCHANGED <<game, script, polls, pid, processes, how>>

StopReturns ==
    /\ stop = "waiting" /\ script = "exited"
    /\ stop' = "ok"
    /\ UNCHANGED <<game, shell, processes, grace, how>>

GraceOver ==
    /\ "grace" \in Faults
    /\ grace = "runs" /\ script # "exited"
    /\ Exit
    /\ how' = "killed"

(* RQ ends the stop job; what it started on the VM goes on.                *)
JobTimesOut ==
    /\ "job_timeout" \in Faults
    /\ stop = "waiting"
    /\ stop' = "failed"
    /\ UNCHANGED <<game, shell, processes, grace, how>>

StopContainer == KillAndWait \/ DockerStop

Next ==
    \/ Script \/ ScriptFails \/ Processes \/ Play \/ ServerCrashes \/ ProtonCrashes
    \/ StopContainer \/ StopReturns \/ GraceOver \/ JobTimesOut

Spec == Init /\ [][Next]_vars
----------------------------------------------------------------------------
(* stop_and_backup may go on: when the stop command has returned, the      *)
(* container has ended, and nothing writes the world any more.             *)
StopMeansEnded == stop = "ok" => script = "exited"

(* Nothing of the world is lost with the container when it ends by itself  *)
(* or because it was told to, before the grace is over.                    *)
WorldIsFlushed == script = "exited" /\ how = "itself" => gamedata = "current"

(* So it is for the games that are the first process or that the trap      *)
(* waits for.                                                              *)
AwaitedGamesFlush == game # "enshrouded" => WorldIsFlushed

(* enshrouded/start.sh:74: "After Proton exits, ensure the game process    *)
(* has also fully stopped".                                                *)
EnshroudedFlushes == game = "enshrouded" => WorldIsFlushed

(* `tail --pid="$enshrouded_pid"` never meets an unset variable, which     *)
(* `set -u` would make the end of the container while the game saves.      *)
PidIsKnown == script = "linger" => pid = "game"

----------------------------------------------------------------------------
(* The inductive invariant                                                 *)

(* Which game's script is where, with which processes.                     *)
ScriptsOfGames ==
    /\ script \in {"install", "prepare"} => proton = "none" /\ server = "none"
    /\ game = "valheim" => script \in {"install", "prepare", "game", "exited"}
    /\ script = "game" => game = "valheim"
    /\ script = "linger" => game = "enshrouded"
    /\ script = "exited" => server = "gone"

(* Enshrouded's script leaves its search only with the game's pid.         *)
SearchFindsPid ==
    game = "enshrouded" /\ script \in {"wait", "trap_wait", "linger"} => pid = "game"

(* Only a game that runs, saves, or crashed, has more than /gamedata.      *)
UnsavedIsInGame ==
    gamedata = "old" => server \in {"runs", "saving"} \/ script = "exited" \/ how # "itself"

(* Windrose's game never runs in its trap, and only saves in it: the       *)
(* script does not go on before the world is in /gamedata.                 *)
TrapAwaitsGame ==
    game = "windrose" =>
        /\ server = "runs" => script \notin {"trap_launch", "trap_wait"}
        /\ server = "saving" => script \in {"trap_launch", "trap_wait"}
        /\ proton \in {"told", "gone"} => server \in {"saving", "gone"} \/ how # "itself"

CInv ==
    /\ TypeOK /\ ScriptsOfGames /\ SearchFindsPid /\ UnsavedIsInGame /\ TrapAwaitsGame
    /\ StopMeansEnded /\ AwaitedGamesFlush
=============================================================================
