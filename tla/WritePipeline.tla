--------------------------- MODULE WritePipeline ---------------------------
(***************************************************************************)
(* How the writes of WriteQueue reach the server: the remote store keeps   *)
(* the oldest of them in a pipeline, sends the pipeline over the write     *)
(* stream once its handshake is done, takes each result for the head of    *)
(* the pipeline and each permanent error for a refusal of that head, and   *)
(* starts over when the stream fails, the user changes or the process is   *)
(* restarted (remote/remote_store.cc, remote/write_stream.cc).  The server *)
(* reads the requests of a stream in order, and gRPC may lose replies.     *)
(***************************************************************************)
EXTENDS WriteQueue, SequencesExt, Streams

CONSTANT kMaxPendingWrites  \* the size of the pipeline

ASSUME PipelineAssumption == kMaxPendingWrites \in Nat \ {0}

VARIABLES
    client,     \* the write stream and the pipeline of this process
    replies,    \* replies of this stream on their way to the client
    verdict,    \* "refused" once the server has refused the head of requests
    committed   \* the writes the server has

netVars == <<client, replies, verdict, committed>>
vars == <<queueVars, netVars>>

Hello == 0
Message == Batch \cup {Hello}

NewClient == [stream |-> NewStream, handshake |-> FALSE,
              pipeline |-> <<>>, requests |-> <<>>]

TypeOK ==
    /\ QueueTypeOK
    /\ client \in [stream : Stream, handshake : BOOLEAN,
                   pipeline : Seq(Batch), requests : Seq(Message)]
    /\ Len(client.pipeline) <= kMaxPendingWrites
    /\ replies \in Seq(Message)
    /\ verdict \in {"none", "refused"}
    /\ committed \subseteq Batch

Init ==
    /\ QueueInit
    /\ client = NewClient
    /\ replies = <<>> /\ verdict = "none"
    /\ committed = {}

-----------------------------------------------------------------------------
(***************************************************************************)
(* The remote store: its functions take the client and return it changed.  *)
(***************************************************************************)

StartIfNeeded(c) ==
    IF ~IsStarted(c.stream) /\ c.pipeline # <<>>
    THEN [c EXCEPT !.stream = Start(@)] ELSE c

\* CanAddToWritePipeline.
Room(c) == kMaxPendingWrites - Len(c.pipeline)

\* What the loop over NextMutationBatchAfterBatchId adds: the batches after the
\* last of the pipeline, in order, as many as there is room for.
Added(c, q) ==
    LET rest == {b \in q : c.pipeline # <<>> => b > Last(c.pipeline)}
    IN  {s \in UNION {[1..n -> rest] : n \in 0..Room(c)} :
            /\ \A i, j \in DOMAIN s : i < j => s[i] < s[j]
            /\ \A b \in rest \ Range(s) : Len(s) = Room(c) /\ \A i \in DOMAIN s : s[i] < b}

\* AddToWritePipeline for each of them.
Extended(c, added) ==
    LET ready == c.stream.state = "Open" /\ c.handshake
    IN  [c EXCEPT !.pipeline = @ \o added,
                  !.requests = IF ready THEN @ \o added ELSE @,
                  !.stream = IF c.pipeline \o added = <<>> THEN MarkIdle(@)
                             ELSE IF ready /\ added # <<>> THEN Send(@) ELSE @]

\* The one client that results, as a set.
FillWritePipeline(c, q) == {StartIfNeeded(Extended(c, added)) : added \in Added(c, q)}

Popped(c) == [c EXCEPT !.pipeline = Tail(@)]

Closed_HandshakeKept(c, s) == [c EXCEPT !.stream = s, !.requests = <<>>]

\* What is left of the client when its stream has been closed: NotifyStreamClose
\* resets the handshake.
Closed(c, s) == [c EXCEPT !.stream = s, !.requests = <<>>, !.handshake = FALSE]

\* The stream is gone, and with it the replies nobody has read.
StreamIsGone ==
    /\ replies' = <<>> /\ verdict' = "none"
    /\ UNCHANGED committed

OnWriteStreamClose_AllErrors(permanent) ==
    LET s == Close(client.stream, FALSE)
    IN  IF client.handshake /\ client.pipeline # <<>>
        THEN LET b == Head(client.pipeline)
             IN  /\ Settle(b, "failed")
                 /\ client' \in FillWritePipeline(Popped(Closed(client, InhibitBackoff(s))),
                                                queue[user] \ {b})
        ELSE /\ client' = StartIfNeeded(Closed(client, s))
             /\ UNCHANGED queueVars

OnWriteStreamClose_GivesUp(permanent) ==
    /\ client' = Closed(client, Close(client.stream, FALSE))
    /\ UNCHANGED queueVars

\* OnWriteStreamClose with an error: after the handshake a permanent one is
\* blamed on the head of the pipeline, any other one leads to a new attempt.
OnWriteStreamClose(permanent) ==
    LET s == Close(client.stream, FALSE)
    IN  IF permanent /\ client.handshake /\ client.pipeline # <<>>
        THEN LET b == Head(client.pipeline)
             IN  /\ Settle(b, "failed")
                 /\ client' \in FillWritePipeline(Popped(Closed(client, InhibitBackoff(s))),
                                                queue[user] \ {b})
        ELSE /\ client' = StartIfNeeded(Closed(client, s))
             /\ UNCHANGED queueVars

-----------------------------------------------------------------------------
(***************************************************************************)
(* The operations of the worker queue.                                     *)
(***************************************************************************)

WriteMutations(b) ==
    /\ Enqueue(b)
    /\ client' \in FillWritePipeline(client, queue[user] \cup {b})
    /\ UNCHANGED <<replies, verdict, committed>>

\* Whatever becomes of it, a token of an earlier start is ignored.
TokenArrives(t) ==
    /\ t \in client.stream.tokens
    /\ LET c == [client EXCEPT !.stream = TokenTaken(@, t)]
       IN  client' = IF t = "stale" THEN c ELSE [c EXCEPT !.stream = GrpcStarted(@)]
    /\ UNCHANGED <<queueVars, replies, verdict, committed>>

TokenFails ==
    /\ "current" \in client.stream.tokens
    /\ client' = StartIfNeeded(Closed(client, Close(TokenTaken(client.stream, "current"), FALSE)))
    /\ UNCHANGED <<queueVars, replies, verdict, committed>>

\* OnWriteStreamOpen sends the handshake.
StreamOpens ==
    /\ client.stream.grpc /\ client.stream.state = "Starting"
    /\ client' = [client EXCEPT !.stream = Send(OnStreamStart(@)),
                                !.requests = Append(@, Hello)]
    /\ UNCHANGED <<queueVars, replies, verdict, committed>>

\* NotifyStreamResponse: the first response is that of the handshake, whereupon
\* the pipeline is sent; every other one is the result of its head.
ResponseArrives ==
    /\ replies # <<>>
    /\ replies' = Tail(replies)
    /\ IF ~client.handshake
       THEN /\ client' = [client EXCEPT !.handshake = TRUE,
                            !.requests = @ \o client.pipeline,
                            !.stream = IF client.pipeline = <<>> THEN @ ELSE Send(@)]
            /\ UNCHANGED queueVars
       ELSE LET b == Head(client.pipeline)
            IN  /\ Settle(b, "ok")
                /\ client' \in FillWritePipeline(Popped(client), queue[user] \ {b})
    /\ UNCHANGED <<verdict, committed>>

\* gRPC ends the call with the status of the server: when its replies have been
\* read, or, dropping them, when a request behind the refused one cannot be sent.
RefusalArrives ==
    /\ verdict = "refused"
    /\ replies = <<>> \/ Len(client.requests) > 1
    /\ OnWriteStreamClose(TRUE)
    /\ StreamIsGone

StreamFails ==
    /\ client.stream.grpc
    /\ OnWriteStreamClose(FALSE)
    /\ StreamIsGone

IdleTimer ==
    /\ client.stream.idle
    /\ client' = Closed(client, Close(client.stream, TRUE))
    /\ StreamIsGone
    /\ UNCHANGED queueVars

BackoffTimer ==
    /\ client.stream.backoff
    /\ client' = [client EXCEPT !.stream = BackoffElapsed(@)]
    /\ UNCHANGED <<queueVars, replies, verdict, committed>>

HandleCredentialChange_PipelineKept(u) ==
    /\ SignIn(u)
    /\ client' \in FillWritePipeline(Closed(client, Stop(client.stream)), queue[u])
    /\ StreamIsGone

\* The queues are swapped, the streams stopped and the pipeline refilled.
HandleCredentialChange(u) ==
    /\ SignIn(u)
    /\ client' \in FillWritePipeline(
                   [Closed(client, Stop(client.stream)) EXCEPT !.pipeline = <<>>], queue[u])
    /\ StreamIsGone

\* The process ends, and the next one enables the network for the same user.
Restart ==
    /\ Forget
    /\ client' \in FillWritePipeline(NewClient, queue[user])
    /\ StreamIsGone

-----------------------------------------------------------------------------
(***************************************************************************)
(* The server.                                                             *)
(***************************************************************************)

Accept ==
    /\ client.requests # <<>> /\ verdict = "none"
    /\ client' = [client EXCEPT !.requests = Tail(@)]
    /\ replies' = Append(replies, Head(client.requests))
    /\ committed' = committed \cup ({Head(client.requests)} \cap Batch)
    /\ UNCHANGED <<queueVars, verdict>>

Refuse ==
    /\ client.requests # <<>> /\ verdict = "none"
    /\ verdict' = "refused"
    /\ UNCHANGED <<queueVars, client, replies, committed>>

Next ==
    \/ \E b \in Batch : WriteMutations(b)
    \/ TokenFails \/ \E t \in {"current", "stale"} : TokenArrives(t)
    \/ StreamOpens \/ BackoffTimer \/ IdleTimer
    \/ ResponseArrives \/ RefusalArrives \/ StreamFails
    \/ \E u \in User : HandleCredentialChange(u)
    \/ Restart
    \/ Accept \/ Refuse

Spec == Init /\ [][Next]_vars

\* Timers run, and of attempts that are made again and again some succeed: a
\* token comes, the stream opens, the server takes the handshake, says of every
\* write whether it takes it, and is heard.
FairSpec ==
    /\ Spec
    /\ WF_vars(BackoffTimer) /\ SF_vars(TokenArrives("current")) /\ SF_vars(StreamOpens)
    /\ SF_vars(Accept /\ Head(client.requests) = Hello)
    /\ SF_vars((Accept \/ Refuse) /\ Head(client.requests) # Hello)
    /\ SF_vars(ResponseArrives /\ Head(replies) = Hello)
    /\ SF_vars(ResponseArrives /\ Head(replies) # Hello)
    /\ WF_vars(RefusalArrives)
    /\ SF_vars(RefusalArrives /\ Head(client.requests) # Hello)

-----------------------------------------------------------------------------

Pipeline == client.pipeline

\* The pipeline is the beginning of the queue of the user who is signed in, and
\* as much of it as there is room for: no write is skipped, sent out of order,
\* sent for another user or left behind (FillWritePipeline, DisableNetwork).
PipelineIsTheQueue ==
    /\ \A i \in 1..(Len(Pipeline) - 1) : Pipeline[i] < Pipeline[i + 1]
    /\ Range(Pipeline) \subseteq queue[user]
    /\ \A b \in queue[user] \ Range(Pipeline) :
          Len(Pipeline) = kMaxPendingWrites /\ b > Last(Pipeline)

\* Once the handshake is done, what is on the wire is the pipeline, so that a
\* result is that of the head ("should be correlated to the first write in our
\* write pipeline", remote_store.cc); before, nothing is sent.
WireIsThePipeline ==
    IF client.handshake
    THEN client.stream.state = "Open" /\ replies \o client.requests = Pipeline
    ELSE Range(replies \o client.requests) \subseteq {Hello}

\* A program that is told that its write has been stored can rely on it.
SuccessIsTrue == \A b \in Batch : told[b] = "ok" => b \in committed

\* HandleWriteError: a write is reported as failed only when it is the one that
\* the server has refused, unless replies to the writes before that one were
\* dropped with the call.
BlamesTheRefused ==
    [][\A b \in Batch : told[b] # "failed" /\ told'[b] = "failed" /\ replies = <<>>
         => verdict = "refused" /\ Head(client.requests) = b]_vars

\* The pipeline implements the promise of WriteQueue.
KeepsThePromise == QueueSpec

\* A write of a user who stays signed in is answered.
WriteIsAnswered == \A b \in Batch : b \in queue[user] ~> b \notin queue[user]
=============================================================================
