------------------------------ MODULE MCSshKey ------------------------------
(* An instance of module SshKey for TLC.                                   *)
EXTENDS SshKey, TLC

(* No key pair, worker or game differs from another; ids are left out to   *)
(* keep the group small.                                                   *)
Symmetry == Permutations(KeyPairs) \cup Permutations(Workers) \cup Permutations(Games)
=============================================================================
