------------------------------ MODULE Streams ------------------------------
(***************************************************************************)
(* The state machine that the watch stream and the write stream of the     *)
(* Firestore client share (remote/stream.cc): Initial, Starting while the  *)
(* credentials and gRPC are on their way, Open, Error, and Backoff between *)
(* an error and the next attempt.  A stream also has an idle timer, the    *)
(* timer of its backoff, a gRPC call, and the tokens it has asked for.     *)
(***************************************************************************)

\* Tokens of an earlier start, whose close count is too low, are stale.
Stream == [state : {"Initial", "Starting", "Backoff", "Open", "Error"},
           idle : BOOLEAN, backoff : BOOLEAN, grpc : BOOLEAN,
           tokens : SUBSET {"current", "stale"}]

NewStream == [state |-> "Initial", idle |-> FALSE, backoff |-> FALSE,
              grpc |-> FALSE, tokens |-> {}]

IsStarted(s) == s.state \in {"Starting", "Backoff", "Open"}

RequestCredentials(s) ==
    [s EXCEPT !.state = "Starting", !.tokens = @ \cup {"current"}]

Start(s) ==
    IF s.state = "Error" THEN [s EXCEPT !.state = "Backoff", !.backoff = TRUE]
                         ELSE RequestCredentials(s)

BackoffElapsed(s) == RequestCredentials([s EXCEPT !.backoff = FALSE])

TokenTaken(s, t) == [s EXCEPT !.tokens = @ \ {t}]

GrpcStarted(s) == [s EXCEPT !.grpc = TRUE]

OnStreamStart(s) == [s EXCEPT !.state = "Open"]

\* The error is forgotten, so the next attempt starts at once.
InhibitBackoff(s) == [s EXCEPT !.state = "Initial"]

MarkIdle(s) == IF s.state = "Open" THEN [s EXCEPT !.idle = TRUE] ELSE s

\* A message on the stream cancels the idle timer.
Send(s) == [s EXCEPT !.idle = FALSE]

Close_TokenKept(s, graceful) ==
    [s EXCEPT !.state = IF graceful THEN "Initial" ELSE "Error",
              !.idle = FALSE, !.backoff = FALSE, !.grpc = FALSE]

\* Its timers are cancelled and its close count outdates the tokens it awaits.
Close(s, graceful) ==
    [state |-> IF graceful THEN "Initial" ELSE "Error",
     idle |-> FALSE, backoff |-> FALSE, grpc |-> FALSE,
     tokens |-> IF s.tokens = {} THEN {} ELSE {"stale"}]

Stop(s) == IF IsStarted(s) THEN Close(s, TRUE) ELSE s

\* The HARD_ASSERTs "State should still be 'Starting'" and "Backoff elapsed but
\* state is now" of stream.cc: a token or a timer of a stream that has been
\* closed meanwhile never reaches the stream that has replaced it.
CallbacksMeet(s) ==
    /\ "current" \in s.tokens => s.state = "Starting" /\ ~s.grpc
    /\ s.backoff <=> s.state = "Backoff"
=============================================================================
