------------------------------- MODULE MCJobs -------------------------------
(* Instances of module Jobs for TLC, with games of the repository.         *)
EXTENDS JobsInv, GameDefinitions, TLC

MCVolumeGames == WithVolume(Games)
MCSigintGames == Stopped(Games, "sigint-wait")

(* Workers are interchangeable; games are not, some have a volume.         *)
Symmetry == Permutations(Workers)
=============================================================================
