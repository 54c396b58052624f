-------------------------- MODULE WatchConnection --------------------------
(***************************************************************************)
(* How the Firestore client decides whether a getDocuments waits for the   *)
(* server or is answered from the cache: the watch stream (remote/stream), *)
(* the tracker that guesses from it whether the backend can be reached     *)
(* (remote/online_state_tracker), the remote store that starts and stops   *)
(* the stream, and the one-shot listeners of the event manager.  Each      *)
(* action is one operation of the worker queue.                            *)
(***************************************************************************)
EXTENDS Naturals, Streams

CONSTANTS
    Call,                    \* the calls of getDocuments that can be open
    Query,                   \* the queries they ask
    QueryOf,                 \* QueryOf[c]: the query of call c
    kMaxWatchStreamFailures  \* the failures after which the client is offline

ASSUME WatchAssumption ==
    /\ QueryOf \in [Call -> Query]
    /\ kMaxWatchStreamFailures \in Nat \ {0}

VARIABLES
    calls,    \* calls[c]: "none", "waiting" or, once answered, "answered"
    synced,   \* the listened queries whose view is what the server has
    online,   \* the tracker: its state, its failures and its timer; and, HISTORY,
              \* whether the timer was dropped with the last query
    stream    \* the watch stream, its timers and what it has asked for

vars == <<calls, synced, online, stream>>

Tracker == [state : {"Unknown", "Online", "Offline"},
            failures : 0..kMaxWatchStreamFailures, timer : BOOLEAN,
            dropped : BOOLEAN]

TypeOK ==
    /\ calls \in [Call -> {"none", "waiting", "answered"}]
    /\ synced \subseteq Query
    /\ online \in Tracker
    /\ stream \in Stream

\* An answered call listens until its removal reaches the worker queue.
Listeners(q, cs) == {c \in Call : QueryOf[c] = q /\ cs[c] # "none"}

Targets(cs) == {q \in Query : Listeners(q, cs) # {}}

Init ==
    /\ calls = [c \in Call |-> "none"]
    /\ synced = {}
    /\ online = [state |-> "Unknown", failures |-> 0, timer |-> FALSE, dropped |-> FALSE]
    /\ stream = NewStream

-----------------------------------------------------------------------------
(***************************************************************************)
(* The tracker.                                                            *)
(***************************************************************************)

HandleWatchStreamStart_NoTimer(o) ==
    IF o.failures # 0 THEN o ELSE [o EXCEPT !.state = "Unknown", !.dropped = FALSE]

HandleWatchStreamStart(o) ==
    IF o.failures # 0 THEN o
    ELSE [o EXCEPT !.state = "Unknown", !.timer = TRUE, !.dropped = FALSE]

\* The count stops at the limit: past it the code never looks at it again.
HandleWatchStreamFailure(o) ==
    IF o.state = "Online" THEN [o EXCEPT !.state = "Unknown"]
    ELSE IF o.failures + 1 >= kMaxWatchStreamFailures
         THEN [o EXCEPT !.state = "Offline", !.failures = kMaxWatchStreamFailures,
                        !.timer = FALSE]
         ELSE [o EXCEPT !.failures = @ + 1]

UpdateState(s) == [state |-> s, failures |-> 0, timer |-> FALSE, dropped |-> FALSE]

Broadcast_Silent(o, cs) ==
    /\ online' = o
    /\ calls' = cs
    /\ synced' = synced \cap Targets(cs)

\* The listeners hear of the new state: offline, every view is from the cache
\* and the calls that wait for the server are answered with it.
Broadcast(o, cs) ==
    /\ online' = o
    /\ calls' = IF o.state = "Offline"
                THEN [c \in Call |-> IF cs[c] = "waiting" THEN "answered" ELSE cs[c]]
                ELSE cs
    /\ synced' = IF o.state = "Offline" THEN {} ELSE synced \cap Targets(cs)

-----------------------------------------------------------------------------
(***************************************************************************)
(* The remote store.                                                       *)
(***************************************************************************)

StartWatchStream(s, o, cs) ==
    /\ stream' = Start(s)
    /\ Broadcast(HandleWatchStreamStart(o), cs)

OnWatchStreamClose(s, cs) ==
    IF Targets(cs) # {}
    THEN StartWatchStream(s, HandleWatchStreamFailure(online), cs)
    ELSE stream' = s /\ Broadcast(UpdateState("Unknown"), cs)

\* Listen of a query that nobody listens to yet.
Listen(cs) ==
    IF ~IsStarted(stream) THEN StartWatchStream(stream, online, cs)
    ELSE /\ stream' = IF stream.state = "Open" THEN Send(stream) ELSE stream
         /\ Broadcast(online, cs)

StopListening(cs) ==
    IF stream.state = "Open"
    THEN /\ stream' = IF Targets(cs) = {} THEN MarkIdle(Send(stream)) ELSE Send(stream)
         /\ Broadcast(online, cs)
    ELSE /\ UNCHANGED stream
         /\ Broadcast(IF Targets(cs) # {} THEN online
                      ELSE [UpdateState("Unknown") EXCEPT !.dropped = TRUE], cs)

-----------------------------------------------------------------------------
(***************************************************************************)
(* The operations of the worker queue.                                     *)
(***************************************************************************)

\* AddQueryListener: a view the server has confirmed answers at once, and so
\* does the cache when the client knows that it is offline.
GetDocuments(c) ==
    /\ calls[c] = "none"
    /\ LET q == QueryOf[c]
           known == q \in synced \/ online.state = "Offline"
           cs == [calls EXCEPT ![c] = IF known THEN "answered" ELSE "waiting"]
       IN  IF q \in Targets(calls) THEN Broadcast(online, cs) /\ UNCHANGED stream
                                   ELSE Listen(cs)

\* RemoveQueryListener, queued by the one-shot listener when it was answered.
RemoveListener(c) ==
    /\ calls[c] = "answered"
    /\ LET cs == [calls EXCEPT ![c] = "none"]
       IN  IF QueryOf[c] \in Targets(cs) THEN Broadcast(online, cs) /\ UNCHANGED stream
                                         ELSE StopListening(cs)

\* A token whose stream has been closed since is ignored.
TokenArrives ==
    \E t \in stream.tokens :
      LET s == TokenTaken(stream, t)
      IN  \/ t = "stale" /\ stream' = s /\ UNCHANGED <<calls, synced, online>>
          \/ t = "current" /\ stream' = GrpcStarted(s) /\ UNCHANGED <<calls, synced, online>>
          \/ t = "current" /\ OnWatchStreamClose(Close(s, FALSE), calls)

\* OnWatchStreamOpen sends the watched queries: no timer runs to be cancelled.
StreamOpens ==
    /\ stream.grpc /\ stream.state = "Starting"
    /\ stream' = OnStreamStart(stream)
    /\ UNCHANGED <<calls, synced, online>>

\* The call fails, or the network changes under it.
StreamFails ==
    /\ stream.grpc
    /\ OnWatchStreamClose(Close(stream, FALSE), calls)

\* OnWatchStreamChange with nothing in it for a query.
OtherMessage ==
    /\ stream.state = "Open"
    /\ Broadcast(UpdateState("Online"), calls)
    /\ UNCHANGED stream

\* OnWatchStreamChange with a snapshot in which q is current.
QueryIsCurrent(q) ==
    /\ stream.state = "Open" /\ q \in Targets(calls)
    /\ online' = UpdateState("Online")
    /\ synced' = synced \cup {q}
    /\ calls' = [c \in Call |-> IF QueryOf[c] = q /\ calls[c] = "waiting"
                                THEN "answered" ELSE calls[c]]
    /\ UNCHANGED stream

\* ProcessTargetError: the listeners are told and forgotten, nothing is sent.
TargetError(q) ==
    /\ stream.state = "Open" /\ q \in Targets(calls)
    /\ online' = UpdateState("Online")
    /\ synced' = synced \ {q}
    /\ calls' = [c \in Call |-> IF QueryOf[c] = q THEN "none" ELSE calls[c]]
    /\ UNCHANGED stream

OnlineTimer ==
    /\ online.timer
    /\ Broadcast([online EXCEPT !.state = "Offline", !.timer = FALSE], calls)
    /\ UNCHANGED stream

IdleTimer ==
    /\ stream.idle
    /\ OnWatchStreamClose(Close(stream, TRUE), calls)

BackoffTimer ==
    /\ stream.backoff
    /\ stream' = BackoffElapsed(stream)
    /\ UNCHANGED <<calls, synced, online>>

\* The streams are stopped while the network counts as off, then restarted.
HandleCredentialChange ==
    LET s == Stop(stream)
        o == UpdateState("Unknown")
    IN  IF Targets(calls) # {} THEN StartWatchStream(s, o, calls)
                               ELSE stream' = s /\ Broadcast(o, calls)

Timers == OnlineTimer \/ IdleTimer \/ BackoffTimer
Server(q) == QueryIsCurrent(q) \/ TargetError(q)

Next ==
    \/ \E c \in Call : GetDocuments(c) \/ RemoveListener(c)
    \/ TokenArrives \/ StreamOpens \/ StreamFails \/ OtherMessage
    \/ \E q \in Query : Server(q)
    \/ Timers \/ HandleCredentialChange

Spec == Init /\ [][Next]_vars

\* The worker queue runs its operations and its timers, the credentials
\* provider answers, gRPC reports what became of an attempt, and a server that
\* can be reached again and again answers a query in the end.
FairSpec ==
    /\ Spec
    /\ \A c \in Call : WF_vars(RemoveListener(c))
    /\ WF_vars(TokenArrives)
    /\ WF_vars(OnlineTimer) /\ WF_vars(IdleTimer) /\ WF_vars(BackoffTimer)
    /\ WF_vars(StreamOpens \/ StreamFails)
    /\ \A q \in Query : SF_vars(Server(q))

-----------------------------------------------------------------------------
(***************************************************************************)
(* The HARD_ASSERTs of the three classes.                                  *)
(***************************************************************************)

\* "online_state_timer_ shouldn't be started yet" when a stream starts, and
\* "Timer should be canceled if we transitioned to a different state" when it
\* fires (online_state_tracker.cc).
OnlineTimerIsOwned == online.timer => online.state = "Unknown" /\ IsStarted(stream)

\* "watch_stream_failures_ must be 0" and "online_state_timer_ must not be set
\* yet" when an established stream fails (online_state_tracker.cc).
OnlineIsFresh ==
    online.state = "Online" => online.failures = 0 /\ ~online.timer /\ stream.state = "Open"

\* "Watch stream was stopped gracefully while still needed" (remote_store.cc):
\* the idle timer never outlives the arrival of a new listener.
IdleStreamIsUnneeded == stream.idle => stream.state = "Open" /\ Targets(calls) = {}

\* The tokens and the backoff timer reach the stream that asked for them.
CallbacksMeetTheirStream == CallbacksMeet(stream)

-----------------------------------------------------------------------------
(***************************************************************************)
(* What a caller may rely on.                                              *)
(***************************************************************************)

\* While someone listens there is a stream, or one on its way: a listener is
\* never left with a stream that nobody will start.
ListenersHaveAStream == Targets(calls) # {} => IsStarted(stream)

\* No getDocuments waits for a server the client knows it cannot reach.
NobodyWaitsOffline ==
    online.state = "Offline" => \A c \in Call : calls[c] # "waiting"

\* Every getDocuments is answered: by the server, from the cache or with the
\* error of its query.
CallIsAnswered == \A c \in Call : calls[c] = "waiting" ~> calls[c] # "waiting"

\* "If the timeout is reached, we transition to Offline rather than waiting
\* indefinitely" (online_state_tracker.cc): while a call waits and nothing is
\* known of the backend, the timer runs, or a failure has been counted and the
\* next one answers.  The exception is a call after the last query before it was
\* dropped with the timer and its stream was left to start: nobody times that.
WaitIsTimed ==
    (\E c \in Call : calls[c] = "waiting") /\ online.state = "Unknown" /\ ~online.dropped
        => online.timer \/ online.failures > 0
=============================================================================
