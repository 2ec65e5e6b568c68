----------------------------- MODULE MCKeyEscrow -----------------------------
(* Instances of KeyEscrow for TLC. *)
EXTENDS KeyEscrow, TLC

CONSTANTS c1, c2, c3, d1, d2

\* Two calls for one dataset and a third for another.
TwoAndOne == c1 :> d1 @@ c2 :> d1 @@ c3 :> d2
Retried == c1 :> d1 @@ c2 :> d1

\* The behaviours in which a dataset has one call at a time.
OneAtATime == \A c, e \in Calls : {c, e} \subseteq InProgress(Target[c]) => c = e
SequentialSpec == Init /\ [][Next /\ OneAtATime']_vars
=============================================================================
