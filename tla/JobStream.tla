------------------------------ MODULE JobStream ------------------------------
(***************************************************************************)
(* GET /jobs/{id}/stream composed with the job pipeline: a client that     *)
(* follows one job over server-sent events.  Stream subscribes to the      *)
(* job's Redis channel, reads the row, sends its state and, unless that    *)
(* ends the stream, forwards what the worker publishes until a terminal    *)
(* state arrives.  Every job has at most one follower, and streams and     *)
(* worker live in the same process.                                        *)
(***************************************************************************)
EXTENDS Jobs, Sequences

VARIABLES
    stream,  \* progress of the job's call of Stream
    sub,     \* its subscription in Redis
    ch,      \* the messages buffered on its Go channel
    told,    \* the last state sent to the client, "none" before the first
    intime   \* history: the subscription was in effect at the snapshot

streamVars == <<stream, sub, ch, told, intime>>
allVars == <<vars, streamVars>>

StreamTypeOK ==
    /\ stream \in [Jobs -> {"none", "subscribed", "tailing", "done"}]
    /\ sub \in [Jobs -> {"off", "requested", "active"}]
    /\ ch \in [Jobs -> Seq(Results)]
    /\ told \in [Jobs -> RowStates]
    /\ intime \in [Jobs -> BOOLEAN]

StreamInit ==
    /\ Init
    /\ stream = [j \in Jobs |-> "none"]
    /\ sub = [j \in Jobs |-> "off"]
    /\ ch = [j \in Jobs |-> <<>>]
    /\ told = [j \in Jobs |-> "none"]
    /\ intime = [j \in Jobs |-> FALSE]

isTerminalJobState(s) == s \in {"succeeded", "failed", "cancelled", "interrupted"}

\* h.Redis.Subscribe: go-redis writes the command and does not await the answer.
Subscribe(j) ==
    /\ server = "up"
    /\ stream[j] = "none"
    /\ stream' = [stream EXCEPT ![j] = "subscribed"]
    /\ sub' = [sub EXCEPT ![j] = "requested"]
    /\ UNCHANGED <<vars, ch, told, intime>>

\* Redis processes the command.
SubscriptionTakesEffect(j) ==
    /\ sub[j] = "requested"
    /\ sub' = [sub EXCEPT ![j] = "active"]
    /\ UNCHANGED <<vars, stream, ch, told, intime>>

\* Stream returns and its deferred sub.Close runs.
CloseStream(j) ==
    /\ stream' = [stream EXCEPT ![j] = "done"]
    /\ sub' = [sub EXCEPT ![j] = "off"]
    /\ UNCHANGED intime

\* GetJob and the first event; a missing row is answered with 404.
Snapshot(j) ==
    /\ stream[j] = "subscribed"
    /\ told' = [told EXCEPT ![j] = row[j]]
    /\ IF row[j] = "none" \/ isTerminalJobState(row[j])
       THEN CloseStream(j)
       ELSE /\ stream' = [stream EXCEPT ![j] = "tailing"]
            /\ intime' = [intime EXCEPT ![j] = sub[j] = "active"]
            /\ UNCHANGED sub
    /\ UNCHANGED <<vars, ch>>

\* One message in the loop.
Forward(j) ==
    /\ stream[j] = "tailing"
    /\ ch[j] # <<>>
    /\ told' = [told EXCEPT ![j] = Head(ch[j])]
    /\ ch' = [ch EXCEPT ![j] = Tail(@)]
    /\ IF isTerminalJobState(Head(ch[j]))
       THEN CloseStream(j)
       ELSE UNCHANGED <<stream, sub, intime>>
    /\ UNCHANGED vars

\* The request's context ends.
Disconnect(j) ==
    /\ stream[j] \in {"subscribed", "tailing"}
    /\ CloseStream(j)
    /\ UNCHANGED <<vars, ch, told>>

\* Mutants: finish publishes the row's state, success only, or always success.
PublishRowState(j) ==
    /\ Publish(j)
    /\ ch' = [ch EXCEPT ![j] = IF sub[j] = "active" THEN Append(@, row[j]) ELSE @]
    /\ UNCHANGED <<stream, sub, told, intime>>
PublishSuccessOnly(j) ==
    /\ Publish(j)
    /\ ch' = [ch EXCEPT ![j] = IF sub[j] = "active" /\ res[j] = "succeeded"
                               THEN Append(@, res[j]) ELSE @]
    /\ UNCHANGED <<stream, sub, told, intime>>
PublishAlwaysSuccess(j) ==
    /\ Publish(j)
    /\ ch' = [ch EXCEPT ![j] = IF sub[j] = "active" THEN Append(@, "succeeded") ELSE @]
    /\ UNCHANGED <<stream, sub, told, intime>>

\* The worker's PUBLISH reaches the subscriptions in effect, unless it fails.
PublishState(j) ==
    /\ Publish(j)
    /\ \/ ch' = [ch EXCEPT ![j] = IF sub[j] = "active" /\ j \notin ReplicationRuns
                                  THEN Append(@, res[j]) ELSE @]
       \/ "redis" \in Faults /\ UNCHANGED ch
    /\ UNCHANGED <<stream, sub, told, intime>>

StopStreams ==
    /\ Stop
    /\ stream' = [j \in Jobs |-> IF stream[j] = "none" THEN "none" ELSE "done"]
    /\ sub' = [j \in Jobs |-> "off"]
    /\ UNCHANGED <<ch, told, intime>>

StreamNext ==
    \/ \E j \in Jobs :
          \/ JobStep(j) /\ UNCHANGED streamVars
          \/ PublishState(j)
          \/ Subscribe(j)
          \/ SubscriptionTakesEffect(j)
          \/ Snapshot(j)
          \/ Forward(j)
          \/ Disconnect(j)
    \/ StopStreams
    \/ Start /\ UNCHANGED streamVars

StreamSpec ==
    /\ StreamInit
    /\ [][StreamNext]_allVars
    /\ WF_allVars(Start /\ UNCHANGED streamVars)
    /\ \A j \in Jobs :
          /\ WF_allVars(Claim(j) /\ UNCHANGED streamVars)
          /\ WF_allVars((Work(j) /\ UNCHANGED streamVars) \/ PublishState(j))
          /\ WF_allVars(SubscriptionTakesEffect(j))
          /\ WF_allVars(Snapshot(j) \/ Forward(j))

-----------------------------------------------------------------------------
\* Stream is a tail that can still learn the end of the job: a message is in
\* its buffer, or the worker has yet to publish one.
CanLearn(j) ==
    \/ ch[j] # <<>>
    \/ task[j] = "pending"
    \/ pc[j] \in {"claimed", "executing", "ran", "recorded"}

\* The failures that lose the message or leave a row running without a handler.
MessageLoss == Faults \cap {"redis", "db", "timeout", "recover"}

\* A stream whose subscription was in effect before it read the row can always
\* learn the end of the job: subscribing first leaves no gap between snapshot
\* and messages.  (A row still queued at the snapshot may be one that the worker
\* overtook: its message is already gone.)
TailCanLearn ==
    MessageLoss = {} =>
        \A j \in Jobs \ ReplicationRuns :
            stream[j] = "tailing" /\ intime[j] /\ told[j] = "running" => CanLearn(j)

\* What a stream says about the end of a job did happen: the host operation
\* succeeded if the client was told succeeded, and failed if it was told failed.
StreamTellsTruth ==
    \A j \in Jobs : told[j] \in Results => told[j] \in outcomes[j]

\* Such a stream ends by itself.
TailEnds ==
    MessageLoss = {} =>
        \A j \in Jobs \ ReplicationRuns :
            (stream[j] = "tailing" /\ intime[j] /\ told[j] = "running")
                ~> stream[j] = "done"

\* Subscribing before reading the snapshot closes the race: once the row says
\* how the job ended and the worker is done with it, no open stream is left
\* without the message (the comment at jobs_sse.go:30-34).
SubscribeFirstClosesRace ==
    \A j \in Jobs :
        stream[j] = "tailing" /\ row[j] \in Results /\ pc[j] = "idle"
            => ch[j] # <<>>

=============================================================================
