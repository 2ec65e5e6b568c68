----------------------------- MODULE MCJobStream -----------------------------
(* Small instances of module JobStream. *)
EXTENDS JobStream, TLC

CONSTANTS j1, j2

Unkeyed == [j \in Jobs |-> NoKey]
=============================================================================
