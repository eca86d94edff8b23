------------------------- MODULE GameContainerProofs -------------------------
(* Proofs of the properties of module GameContainer.                       *)
EXTENDS GameContainer, TLAPS

LEMMA InitC == Init => CInv
BY ContainerAssumption
   DEF Init, CInv, TypeOK, ScriptsOfGames, SearchFindsPid, UnsavedIsInGame, TrapAwaitsGame,
       StopMeansEnded, AwaitedGamesFlush, WorldIsFlushed

(* The scripts keep the invariant: the one that leaves the trap does so    *)
(* when Windrose's game has saved.                                         *)
LEMMA ScriptPreserves == CInv /\ (Script \/ ScriptFails) => CInv'
<1> SUFFICES ASSUME CInv, Script \/ ScriptFails PROVE CInv'
  OBVIOUS
<1> USE ContainerAssumption
    DEF CInv, TypeOK, ScriptsOfGames, SearchFindsPid, UnsavedIsInGame, TrapAwaitsGame,
        StopMeansEnded, AwaitedGamesFlush, WorldIsFlushed, processes, docker, GameSeen, Searching
<1>1. CASE Install
  BY <1>1 DEF Install
<1>2. CASE Prepare
  BY <1>2 DEF Prepare
<1>3. CASE SearchAgain
  BY <1>3 DEF SearchAgain, Exit
<1>4. CASE FindGame
  BY <1>4 DEF FindGame
<1>5. CASE FollowLog
  BY <1>5 DEF FollowLog
<1>6. CASE WaitReturns
  <2>1. game # "enshrouded" /\ how = "itself" => gamedata = "current"
    <3>1. script = "wait" /\ proton = "gone"
      BY <1>6 DEF WaitReturns
    <3>2. game # "enshrouded" => game = "windrose"
      BY <3>1 DEF ScriptedGames
    <3> QED
      BY <3>1, <3>2
  <2>2. CASE Exit
    BY <1>6, <2>1, <2>2 DEF WaitReturns, Exit
  <2>3. CASE ~Exit
    BY <1>6, <2>3 DEF WaitReturns
  <2> QED
    BY <2>2, <2>3
<1>7. CASE LingerEnds
  BY <1>7 DEF LingerEnds, Exit
<1>8. CASE RunTrap
  BY <1>8 DEF RunTrap, Exit, TrapAt
<1>9. CASE EndTrap
  <2>1. CASE script = "trap_launch"
    BY <1>9, <2>1 DEF EndTrap
  <2>2. CASE script = "trap_wait"
    <3>1. game # "enshrouded" /\ how = "itself" => gamedata = "current"
      <4>1. game # "enshrouded" => game = "windrose"
        BY <2>2 DEF ScriptedGames
      <4>2. game = "windrose" => server \in {"none", "gone"}
        BY <1>9, <2>2 DEF EndTrap
      <4> QED
        BY <4>1, <4>2
    <3> QED
      BY <1>9, <2>2, <3>1 DEF EndTrap, Exit
  <2> QED
    BY <1>9, <2>1, <2>2 DEF EndTrap
<1>10. CASE ScriptFails
  BY <1>10 DEF ScriptFails, Exit
<1> QED
  BY <1>1, <1>2, <1>3, <1>4, <1>5, <1>6, <1>7, <1>8, <1>9, <1>10 DEF Script

(* So do the processes in the container,                                   *)
LEMMA ProcessesPreserve == CInv /\ (Processes \/ Play \/ ServerCrashes \/ ProtonCrashes) => CInv'
<1> SUFFICES ASSUME CInv, Processes \/ Play \/ ServerCrashes \/ ProtonCrashes PROVE CInv'
  OBVIOUS
<1> USE ContainerAssumption
    DEF CInv, TypeOK, ScriptsOfGames, SearchFindsPid, UnsavedIsInGame, TrapAwaitsGame,
        StopMeansEnded, AwaitedGamesFlush, WorldIsFlushed, shell, docker
<1>1. CASE ServerStarts
  BY <1>1 DEF ServerStarts, TrapAt
<1>2. CASE ServerSaves
  BY <1>2 DEF ServerSaves
<1>3. CASE ProtonEnds
  BY <1>3 DEF ProtonEnds
<1>4. CASE Play
  BY <1>4 DEF Play
<1>5. CASE ServerCrashes
  BY <1>5 DEF ServerCrashes
<1>6. CASE ProtonCrashes
  BY <1>6 DEF ProtonCrashes
<1> QED
  BY <1>1, <1>2, <1>3, <1>4, <1>5, <1>6 DEF Processes

(* and the stop that comes from outside.                                   *)
LEMMA StopPreserves ==
    CInv /\ (StopContainer \/ StopReturns \/ GraceOver \/ JobTimesOut) => CInv'
<1> SUFFICES ASSUME CInv, StopContainer \/ StopReturns \/ GraceOver \/ JobTimesOut PROVE CInv'
  OBVIOUS
<1> USE ContainerAssumption
    DEF CInv, TypeOK, ScriptsOfGames, SearchFindsPid, UnsavedIsInGame, TrapAwaitsGame,
        StopMeansEnded, AwaitedGamesFlush, WorldIsFlushed, shell, processes, StopComes
<1>1. CASE KillAndWait
  BY <1>1 DEF KillAndWait
<1>2. CASE DockerStop
  BY <1>2 DEF DockerStop
<1>3. CASE StopReturns
  BY <1>3 DEF StopReturns
<1>4. CASE GraceOver
  BY <1>4 DEF GraceOver, Exit
<1>5. CASE JobTimesOut
  BY <1>5 DEF JobTimesOut
<1> QED
  BY <1>1, <1>2, <1>3, <1>4, <1>5 DEF StopContainer

(* The invariant of the container holds.                                   *)
THEOREM CInvInductive == Spec => []CInv
<1>1. ASSUME CInv, UNCHANGED vars PROVE CInv'
  BY <1>1 DEF CInv, TypeOK, ScriptsOfGames, SearchFindsPid, UnsavedIsInGame, TrapAwaitsGame,
              StopMeansEnded, AwaitedGamesFlush, WorldIsFlushed, vars, shell, processes, docker
<1>2. CInv /\ [Next]_vars => CInv'
  BY <1>1, ScriptPreserves, ProcessesPreserve, StopPreserves DEF Next
<1> QED
  BY InitC, <1>2, PTL DEF Spec

(* A stop command that returned has ended the container: the backup that   *)
(* follows reads a world that nothing writes.                              *)
THEOREM StoppedIsEnded == Spec => []StopMeansEnded
<1>1. CInv => StopMeansEnded
  BY DEF CInv
<1> QED
  BY <1>1, CInvInductive, PTL

(* Valheim and Windrose are never cut off while they save, unless dockerd  *)
(* or a crash does it.                                                     *)
THEOREM AwaitedGamesAreFlushed == Spec => []AwaitedGamesFlush
<1>1. CInv => AwaitedGamesFlush
  BY DEF CInv
<1> QED
  BY <1>1, CInvInductive, PTL

(* Enshrouded's script knows the process it waits for.                     *)
THEOREM PidAlwaysKnown == Spec => []PidIsKnown
<1>1. CInv => PidIsKnown
  BY DEF CInv, ScriptsOfGames, SearchFindsPid, PidIsKnown
<1> QED
  BY <1>1, CInvInductive, PTL
=============================================================================
