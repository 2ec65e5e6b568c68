---------------------------- MODULE MCReplication ----------------------------
(* Small instances of module Replication. *)
EXTENDS Replication, TLC

CONSTANTS r1, r2, p1, p2

Symmetric == Permutations(Runners) \cup Permutations(Patches)
=============================================================================
