------------------------------- MODULE MCJobs -------------------------------
(* Small instances of module Jobs. *)
EXTENDS Jobs, TLC

CONSTANTS j1, j2

\* Two dispatches about one resource.
SameKey == j1 :> "pool:tank" @@ j2 :> "pool:tank"

\* Dispatches without a key.
Unkeyed == [j \in Jobs |-> NoKey]

\* A job with a key and one without.
OneOfTwo == j1 :> "pool:tank" @@ j2 :> NoKey

Symmetric == Permutations({j1, j2})

\* The UniqueKey of the requests about a pool: Destroy and the scrub of a scrub
\* policy have keys of their own, all the others (POST /pools/{name}/scrub too)
\* share the pool's.
PoolUniqueKey(request, name) ==
    CASE request = "destroy"      -> <<"pool", name, "destroy">>
      [] request = "policy scrub" -> <<"pool", name, "scrub">>
      [] OTHER                    -> <<"pool", name>>

\* Two requests about the pool tank.
PoolKeys == j1 :> PoolUniqueKey("destroy", "tank")
         @@ j2 :> PoolUniqueKey("policy scrub", "tank")

\* design, Concurrency rules: at most one running job per pool, which "prevents
\* scrub-during-destroy".
OneJobPerPool ==
    \A j, k \in Jobs : pc[j] = "executing" /\ pc[k] = "executing" => j = k
=============================================================================
