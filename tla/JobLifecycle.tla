----------------------------- MODULE JobLifecycle -----------------------------
(***************************************************************************)
(* What the jobs table promises to a reader of GET /jobs, whatever happens *)
(* between the dispatcher, Redis, the worker and the process: the state of *)
(* a row moves along the edges below, no edge leaves succeeded, failed or  *)
(* cancelled, and succeeded or failed is written only after an execution   *)
(* of the host operation that ended that way.                              *)
(***************************************************************************)
CONSTANT Jobs

VARIABLES
    row,      \* the state of every job's row
    outcomes  \* the results its host operation has had so far

lifecycleVars == <<row, outcomes>>

Init ==
    /\ row = [j \in Jobs |-> "none"]
    /\ outcomes = [j \in Jobs |-> {}]

Move(j, from, to) ==
    /\ row[j] \in from
    /\ row' = [row EXCEPT ![j] = to]
    /\ UNCHANGED outcomes

Submit(j) == Move(j, {"none"}, "queued")

Begin(j) == Move(j, {"queued", "interrupted"}, "running")

Finish(j) == \E r \in outcomes[j] : Move(j, {"running"}, r)

CancelRow(j) == Move(j, {"queued", "running"}, "cancelled")

\* The host operation ends; the row may never learn of it.
Effect(j) ==
    /\ \E r \in {"succeeded", "failed"} :
          outcomes' = [outcomes EXCEPT ![j] = @ \cup {r}]
    /\ UNCHANGED row

\* A restart interrupts every unfinished job at once.
Interrupt ==
    /\ row' = [j \in Jobs |-> IF row[j] \in {"queued", "running"}
                              THEN "interrupted" ELSE row[j]]
    /\ UNCHANGED outcomes

Next ==
    \/ \E j \in Jobs :
          Submit(j) \/ Begin(j) \/ Finish(j) \/ CancelRow(j) \/ Effect(j)
    \/ Interrupt

Spec == Init /\ [][Next]_lifecycleVars

=============================================================================
