---------------------------- MODULE ListenProofs ----------------------------
(***************************************************************************)
(* What the client listens to.  That the assertions of the watch connection*)
(* hold and that no call waits offline or untimed, for any calls, queries  *)
(* and number of failures; and that no document in limbo is forgotten and  *)
(* no room for its resolution wasted, for any views, keys and limit.       *)
(***************************************************************************)
EXTENDS WatchConnection, LimboResolution, FiniteSetTheorems, WellFoundedInduction, TLAPS

-----------------------------------------------------------------------------
(***************************************************************************)
(* What the operations of a stream preserve.                               *)
(***************************************************************************)

\* Callbacks meet the stream that asked for them (CallbacksMeet), which needs
\* more to be inductive: a call to gRPC belongs to a stream that starts or is
\* open, and so does an idle timer to one that is open.
StreamFits(s) ==
    /\ CallbacksMeet(s)
    /\ s.grpc => s.state \in {"Starting", "Open"}
    /\ s.idle => s.state = "Open"

\* Streams stay streams, and what their callbacks rely on.
LEMMA StreamTypes ==
    ASSUME NEW s \in Stream, NEW g \in BOOLEAN
    PROVE  /\ Close(s, g) \in Stream /\ ~IsStarted(Close(s, g)) /\ StreamFits(Close(s, g))
           /\ Start(s) \in Stream
           /\ Send(s) \in Stream /\ MarkIdle(s) \in Stream
BY DEF Stream, Close, IsStarted, StreamFits, CallbacksMeet, Start, RequestCredentials,
       Send, MarkIdle

\* Start leaves a stream that is on its way, with one callback that knows it.
LEMMA StartFits ==
    ASSUME NEW s \in Stream, StreamFits(s), ~IsStarted(s)
    PROVE  Start(s) \in Stream /\ StreamFits(Start(s)) /\ IsStarted(Start(s)) /\ ~Start(s).idle
<1>1. CASE s.state = "Error"
  BY <1>1 DEF Stream, StreamFits, CallbacksMeet, Start, IsStarted
<1>2. CASE s.state = "Initial"
  BY <1>2 DEF Stream, StreamFits, CallbacksMeet, Start, RequestCredentials, IsStarted
<1> QED BY <1>1, <1>2 DEF Stream, IsStarted

\* A token is taken once, and by the stream that is starting if it is current.
LEMMA TokenFits ==
    ASSUME NEW s \in Stream, StreamFits(s), NEW t \in s.tokens
    PROVE  LET r == TokenTaken(s, t)
           IN  /\ r \in Stream /\ StreamFits(r)
               /\ r.state = s.state /\ r.idle = s.idle /\ r.grpc = s.grpc
               /\ t = "current" =>
                     /\ GrpcStarted(r) \in Stream /\ StreamFits(GrpcStarted(r))
                     /\ GrpcStarted(r).state = "Starting" /\ s.state = "Starting"
                     /\ GrpcStarted(r).idle = s.idle /\ ~s.grpc
<1> DEFINE r == TokenTaken(s, t)
<1>1. /\ r \in Stream /\ r.state = s.state /\ r.idle = s.idle /\ r.grpc = s.grpc
      /\ r.backoff = s.backoff /\ r.tokens = s.tokens \ {t}
  BY DEF TokenTaken, Stream
<1> HIDE DEF r
<1>2. StreamFits(r)
  BY <1>1 DEF StreamFits, CallbacksMeet
<1>3. ASSUME t = "current"
      PROVE  /\ GrpcStarted(r) \in Stream /\ StreamFits(GrpcStarted(r))
             /\ GrpcStarted(r).state = "Starting" /\ s.state = "Starting"
             /\ GrpcStarted(r).idle = s.idle /\ ~s.grpc
  <2>1. s.state = "Starting" /\ ~s.grpc /\ "current" \notin r.tokens
    BY <1>1, <1>3 DEF StreamFits, CallbacksMeet
  <2>2. GrpcStarted(r) = [r EXCEPT !.grpc = TRUE]
    BY DEF GrpcStarted
  <2> QED BY <1>1, <1>2, <2>1, <2>2 DEF Stream, StreamFits, CallbacksMeet
<1> QED BY <1>1, <1>2, <1>3 DEF r

LEMMA OpenFits ==
    ASSUME NEW s \in Stream, StreamFits(s), s.grpc, s.state = "Starting"
    PROVE  LET r == OnStreamStart(s)
           IN  r \in Stream /\ StreamFits(r) /\ r.state = "Open" /\ ~r.idle
<1>1. OnStreamStart(s) = [s EXCEPT !.state = "Open"]
  BY DEF OnStreamStart
<1> QED BY <1>1 DEF Stream, StreamFits, CallbacksMeet

LEMMA BackoffFits ==
    ASSUME NEW s \in Stream, StreamFits(s), s.backoff
    PROVE  LET r == BackoffElapsed(s)
           IN  /\ r \in Stream /\ StreamFits(r) /\ r.state = "Starting" /\ ~r.idle
               /\ s.state = "Backoff"
<1>1. s.state = "Backoff" /\ ~s.grpc /\ ~s.idle
  BY DEF StreamFits, CallbacksMeet
<1> DEFINE u == [s EXCEPT !.backoff = FALSE]
<1>2. /\ u \in Stream /\ ~u.backoff /\ u.idle = s.idle /\ u.grpc = s.grpc
  BY DEF Stream
<1>3. BackoffElapsed(s) = [u EXCEPT !.state = "Starting", !.tokens = @ \cup {"current"}]
  BY DEF BackoffElapsed, RequestCredentials
<1> HIDE DEF u
<1> QED BY <1>1, <1>2, <1>3 DEF Stream, StreamFits, CallbacksMeet

-----------------------------------------------------------------------------

CallStates == [Call -> {"none", "waiting", "answered"}]

(***************************************************************************)
(* The inductive invariant.  The stream (StreamFits), the tracker and the  *)
(* calls each fit by themselves and with one another.  One part goes       *)
(* beyond what is promised: a stream that has been started is timed or has *)
(* failed unless the last query before it was dropped, whether or not      *)
(* anyone waits for it: the query that comes next relies on it.            *)
(***************************************************************************)
TrackerFits(o, s) ==
    /\ o.timer => o.state = "Unknown" /\ IsStarted(s)
    /\ o.state = "Online" => o.failures = 0 /\ ~o.timer /\ s.state = "Open"
    /\ IsStarted(s) /\ o.state = "Unknown" /\ ~o.dropped => o.timer \/ o.failures > 0

CallsFit(cs, s) ==
    /\ Targets(cs) # {} => IsStarted(s)
    /\ s.idle => Targets(cs) = {}

IInv ==
    /\ TypeOK
    /\ StreamFits(stream)
    /\ TrackerFits(online, stream)
    /\ CallsFit(calls, stream)
    /\ NobodyWaitsOffline

-----------------------------------------------------------------------------
(***************************************************************************)
(* The helpers of the tracker and of the remote store.                     *)
(***************************************************************************)

\* Calls that differ only in how they were answered listen to the same queries.
LEMMA SameTargets ==
    ASSUME NEW cs, NEW ds, \A c \in Call : cs[c] = "none" <=> ds[c] = "none"
    PROVE  Targets(cs) = Targets(ds)
<1>1. \A q : Listeners(q, cs) = Listeners(q, ds)
  BY DEF Listeners
<1> QED BY <1>1 DEF Targets

\* A broadcast changes no target and leaves nobody waiting offline.
LEMMA BroadcastFits ==
    ASSUME synced \subseteq Query, NEW o \in Tracker, NEW cs \in CallStates, Broadcast(o, cs)
    PROVE  /\ online' = o /\ calls' \in CallStates /\ synced' \subseteq Query
           /\ Targets(calls') = Targets(cs)
           /\ NobodyWaitsOffline'
<1>1. online' = o /\ synced' \subseteq Query
  BY DEF Broadcast
<1>2. calls' \in CallStates /\ \A c \in Call : calls'[c] = "none" <=> cs[c] = "none"
  <2>1. CASE o.state = "Offline"
    BY <2>1 DEF Broadcast, CallStates
  <2>2. CASE o.state # "Offline"
    BY <2>2 DEF Broadcast, CallStates
  <2> QED BY <2>1, <2>2
<1>3. Targets(calls') = Targets(cs)
  BY <1>2, SameTargets
<1>4. NobodyWaitsOffline'
  BY DEF NobodyWaitsOffline, Broadcast, CallStates
<1> QED BY <1>1, <1>2, <1>3, <1>4

\* What the worker queue leaves behind whenever a tracker, a stream and calls
\* that fit are put in place.
LEMMA Settles ==
    ASSUME synced \subseteq Query,
           NEW s \in Stream, NEW o \in Tracker, NEW cs \in CallStates,
           StreamFits(s), TrackerFits(o, s), CallsFit(cs, s),
           stream' = s, Broadcast(o, cs)
    PROVE  IInv'
<1>1. /\ online' = o /\ calls' \in CallStates /\ synced' \subseteq Query
      /\ Targets(calls') = Targets(cs)
      /\ NobodyWaitsOffline'
  BY BroadcastFits
<1>2. TypeOK'
  BY <1>1 DEF TypeOK, CallStates
<1>3. StreamFits(stream)' /\ TrackerFits(online, stream)'
  BY <1>1 DEF StreamFits, TrackerFits, CallbacksMeet, IsStarted
<1>4. CallsFit(calls, stream)'
  BY <1>1 DEF CallsFit, IsStarted, Targets, Listeners
<1> QED BY <1>1, <1>2, <1>3, <1>4 DEF IInv

\* StartWatchStream times the stream it starts, unless failures are counted.
LEMMA Starts ==
    ASSUME synced \subseteq Query,
           NEW s \in Stream, NEW o \in Tracker, NEW cs \in CallStates,
           StreamFits(s), ~IsStarted(s), o.state # "Online", o.timer => o.state = "Unknown",
           StartWatchStream(s, o, cs)
    PROVE  IInv'
<1> DEFINE p == HandleWatchStreamStart(o)
<1>1. p \in Tracker /\ TrackerFits(p, Start(s))
  <2>1. IsStarted(Start(s))
    BY StartFits
  <2>2. CASE o.failures # 0
    BY <2>1, <2>2, WatchAssumption DEF HandleWatchStreamStart, Tracker, TrackerFits
  <2>3. CASE o.failures = 0
    BY <2>1, <2>3 DEF HandleWatchStreamStart, Tracker, TrackerFits
  <2> QED BY <2>2, <2>3
<1>2. Start(s) \in Stream /\ StreamFits(Start(s)) /\ CallsFit(cs, Start(s))
  BY StartFits DEF CallsFit
<1>3. stream' = Start(s) /\ Broadcast(p, cs)
  BY DEF StartWatchStream
<1> HIDE DEF p
<1> QED BY <1>1, <1>2, <1>3, Settles

\* UpdateState forgets failures and timer: it fits any stream once it says
\* Unknown and nobody listens.
LEMMA UpdateFits ==
    ASSUME NEW st \in {"Unknown", "Online", "Offline"}
    PROVE  /\ UpdateState(st) \in Tracker
           /\ ~UpdateState(st).timer /\ UpdateState(st).failures = 0
           /\ UpdateState(st).state = st
BY WatchAssumption DEF UpdateState, Tracker

\* After a close the stream is started again if anyone listens; a graceful
\* close only happens when nobody does.
LEMMA Closes ==
    ASSUME IInv, NEW r \in Stream, NEW g \in BOOLEAN, OnWatchStreamClose(Close(r, g), calls)
    PROVE  IInv'
<1> DEFINE s == Close(r, g)
<1>1. online \in Tracker /\ calls \in CallStates /\ synced \subseteq Query
  BY DEF IInv, TypeOK, CallStates
<1>2. s \in Stream /\ ~IsStarted(s) /\ StreamFits(s) /\ ~s.idle
  BY StreamTypes DEF Close
<1> HIDE DEF s
<1>3. CASE Targets(calls) # {}
  <2> DEFINE o == HandleWatchStreamFailure(online)
  <2>1. o \in Tracker /\ o.state # "Online" /\ (o.timer => o.state = "Unknown")
    <3>1. TrackerFits(online, stream)
      BY DEF IInv
    <3>2. CASE online.state = "Online"
      BY <1>1, <3>1, <3>2 DEF HandleWatchStreamFailure, Tracker, TrackerFits
    <3>3. CASE online.state # "Online" /\ online.failures + 1 >= kMaxWatchStreamFailures
      <4>1. o = [online EXCEPT !.state = "Offline", !.failures = kMaxWatchStreamFailures,
                               !.timer = FALSE]
        BY <3>3 DEF HandleWatchStreamFailure
      <4>2. kMaxWatchStreamFailures \in 0..kMaxWatchStreamFailures
        BY WatchAssumption
      <4> HIDE DEF o
      <4> QED BY <1>1, <4>1, <4>2 DEF Tracker
    <3>4. CASE online.state # "Online" /\ ~(online.failures + 1 >= kMaxWatchStreamFailures)
      BY <1>1, <3>1, <3>4, WatchAssumption DEF HandleWatchStreamFailure, Tracker, TrackerFits
    <3> QED BY <3>2, <3>3, <3>4
  <2>2. StartWatchStream(s, o, calls)
    BY <1>3 DEF OnWatchStreamClose, s
  <2> HIDE DEF o
  <2> QED BY <1>1, <1>2, <2>1, <2>2, Starts
<1>4. CASE Targets(calls) = {}
  <2> DEFINE o == UpdateState("Unknown")
  <2>1. stream' = s /\ Broadcast(o, calls)
    BY <1>4 DEF OnWatchStreamClose, s
  <2>2. o \in Tracker /\ TrackerFits(o, s) /\ CallsFit(calls, s)
    BY <1>2, <1>4, UpdateFits DEF TrackerFits, CallsFit
  <2> HIDE DEF o
  <2> QED BY <1>1, <1>2, <2>1, <2>2, Settles
<1> QED BY <1>3, <1>4

-----------------------------------------------------------------------------
(***************************************************************************)
(* The operations of the worker queue.                                     *)
(***************************************************************************)

LEMMA InitFits == Init => IInv
<1> SUFFICES ASSUME Init PROVE IInv
  OBVIOUS
<1>1. TypeOK
  BY WatchAssumption DEF Init, TypeOK, Tracker, NewStream, Stream
<1>2. StreamFits(stream) /\ TrackerFits(online, stream)
  BY DEF Init, NewStream, StreamFits, CallbacksMeet, TrackerFits, IsStarted
<1>3. Targets(calls) = {}
  BY DEF Init, Targets, Listeners
<1>4. CallsFit(calls, stream) /\ NobodyWaitsOffline
  BY <1>3 DEF Init, CallsFit, NewStream, NobodyWaitsOffline
<1> QED BY <1>1, <1>2, <1>4 DEF IInv

\* A call that opens or ends changes the targets by its own query only.
LEMMA OneCall ==
    ASSUME NEW c \in Call, NEW cs \in CallStates, NEW v \in {"none", "waiting", "answered"}
    PROVE  LET ds == [cs EXCEPT ![c] = v]
           IN  /\ ds \in CallStates
               /\ Targets(ds) \subseteq Targets(cs) \cup {QueryOf[c]}
               /\ QueryOf[c] \in Targets(cs) /\ v # "none" => Targets(ds) = Targets(cs)
               /\ QueryOf[c] \in Targets(ds) => Targets(cs) \subseteq Targets(ds)
               /\ v # "none" => Targets(ds) # {}
BY WatchAssumption DEF CallStates, Targets, Listeners

LEMMA GetDocumentsFits ==
    ASSUME IInv, NEW c \in Call, GetDocuments(c)
    PROVE  IInv'
<1> DEFINE known == QueryOf[c] \in synced \/ online.state = "Offline"
           cs == [calls EXCEPT ![c] = IF known THEN "answered" ELSE "waiting"]
<1>1. /\ stream \in Stream /\ online \in Tracker /\ calls \in CallStates /\ synced \subseteq Query
      /\ StreamFits(stream) /\ TrackerFits(online, stream) /\ CallsFit(calls, stream)
  BY DEF IInv, TypeOK, CallStates
<1>2. /\ cs \in CallStates /\ Targets(cs) # {}
      /\ QueryOf[c] \in Targets(calls) => Targets(cs) = Targets(calls)
  BY <1>1, OneCall
<1>3. CASE QueryOf[c] \in Targets(calls)
  <2>1. stream' = stream /\ Broadcast(online, cs)
    BY <1>3 DEF GetDocuments
  <2>2. CallsFit(cs, stream)
    BY <1>1, <1>2, <1>3 DEF CallsFit
  <2> HIDE DEF cs
  <2> QED BY <1>1, <1>2, <2>1, <2>2, Settles
<1>4. CASE QueryOf[c] \notin Targets(calls)
  <2>1. Listen(cs)
    BY <1>4 DEF GetDocuments
  <2> HIDE DEF cs
  <2>2. CASE ~IsStarted(stream)
    <3>1. StartWatchStream(stream, online, cs)
      BY <2>1, <2>2 DEF Listen
    <3>2. online.state # "Online" /\ (online.timer => online.state = "Unknown")
      BY <1>1, <2>2 DEF TrackerFits, IsStarted
    <3> QED BY <1>1, <1>2, <2>2, <3>1, <3>2, Starts
  <2>3. CASE IsStarted(stream)
    <3> DEFINE s == IF stream.state = "Open" THEN Send(stream) ELSE stream
    <3>1. stream' = s /\ Broadcast(online, cs)
      BY <2>1, <2>3 DEF Listen
    <3>2. s \in Stream /\ s.state = stream.state /\ ~s.idle /\ StreamFits(s)
      BY <1>1 DEF Send, Stream, StreamFits, CallbacksMeet
    <3>3. TrackerFits(online, s) /\ CallsFit(cs, s)
      BY <1>1, <2>3, <3>2 DEF TrackerFits, CallsFit, IsStarted
    <3> HIDE DEF s
    <3> QED BY <1>1, <1>2, <3>1, <3>2, <3>3, Settles
  <2> QED BY <2>2, <2>3
<1> QED BY <1>3, <1>4

LEMMA RemoveListenerFits ==
    ASSUME IInv, NEW c \in Call, RemoveListener(c)
    PROVE  IInv'
<1> DEFINE cs == [calls EXCEPT ![c] = "none"]
<1>1. /\ stream \in Stream /\ online \in Tracker /\ calls \in CallStates /\ synced \subseteq Query
      /\ StreamFits(stream) /\ TrackerFits(online, stream) /\ CallsFit(calls, stream)
  BY DEF IInv, TypeOK, CallStates
<1>2. QueryOf[c] \in Targets(calls)
  BY WatchAssumption DEF RemoveListener, Targets, Listeners
<1>3. cs \in CallStates /\ Targets(cs) \subseteq Targets(calls)
  BY <1>1, <1>2, OneCall
<1>4. IsStarted(stream) /\ ~stream.idle
  BY <1>1, <1>2 DEF CallsFit, Stream
<1>5. CASE QueryOf[c] \in Targets(cs)
  <2>1. stream' = stream /\ Broadcast(online, cs)
    BY <1>5 DEF RemoveListener
  <2> HIDE DEF cs
  <2>2. CallsFit(cs, stream)
    BY <1>4 DEF CallsFit
  <2> QED BY <1>1, <1>3, <2>1, <2>2, Settles
<1>6. CASE QueryOf[c] \notin Targets(cs)
  <2>1. StopListening(cs)
    BY <1>6 DEF RemoveListener
  <2> HIDE DEF cs
  <2>2. CASE stream.state = "Open"
    <3> DEFINE s == IF Targets(cs) = {} THEN MarkIdle(Send(stream)) ELSE Send(stream)
    <3>1. stream' = s /\ Broadcast(online, cs)
      BY <2>1, <2>2 DEF StopListening
    <3>2. /\ s \in Stream /\ s.state = "Open" /\ (s.idle => Targets(cs) = {})
          /\ StreamFits(s)
      BY <1>1, <2>2 DEF Send, MarkIdle, Stream, StreamFits, CallbacksMeet
    <3>3. TrackerFits(online, s) /\ CallsFit(cs, s)
      BY <1>1, <2>2, <3>2 DEF TrackerFits, CallsFit, IsStarted
    <3> HIDE DEF s
    <3> QED BY <1>1, <1>3, <3>1, <3>2, <3>3, Settles
  <2>3. CASE stream.state # "Open"
    <3> DEFINE o == IF Targets(cs) # {} THEN online
                    ELSE [UpdateState("Unknown") EXCEPT !.dropped = TRUE]
    <3>1. stream' = stream /\ Broadcast(o, cs)
      BY <2>1, <2>3 DEF StopListening
    <3>2. o \in Tracker /\ TrackerFits(o, stream)
      <4>1. CASE Targets(cs) # {}
        BY <1>1, <4>1
      <4>2. CASE Targets(cs) = {}
        <5>1. o = [state |-> "Unknown", failures |-> 0, timer |-> FALSE, dropped |-> TRUE]
          BY <4>2 DEF UpdateState
        <5> HIDE DEF o
        <5> QED BY <5>1, WatchAssumption DEF Tracker, TrackerFits
      <4> QED BY <4>1, <4>2
    <3>3. CallsFit(cs, stream)
      BY <1>4 DEF CallsFit
    <3> HIDE DEF o
    <3> QED BY <1>1, <1>3, <3>1, <3>2, <3>3, Settles
  <2> QED BY <2>2, <2>3
<1> QED BY <1>5, <1>6

LEMMA TokenArrivesFits == ASSUME IInv, TokenArrives PROVE IInv'
<1>1. /\ stream \in Stream /\ StreamFits(stream)
      /\ TrackerFits(online, stream) /\ CallsFit(calls, stream)
  BY DEF IInv, TypeOK
<1>2. PICK t \in stream.tokens :
        LET s == TokenTaken(stream, t)
        IN  \/ t = "stale" /\ stream' = s /\ UNCHANGED <<calls, synced, online>>
            \/ t = "current" /\ stream' = GrpcStarted(s) /\ UNCHANGED <<calls, synced, online>>
            \/ t = "current" /\ OnWatchStreamClose(Close(s, FALSE), calls)
  BY DEF TokenArrives
<1> DEFINE s == TokenTaken(stream, t)
<1>3. CASE stream' = s /\ UNCHANGED <<calls, synced, online>>
  <2>1. /\ stream' \in Stream /\ stream'.state = stream.state /\ stream'.idle = stream.idle
        /\ StreamFits(stream')
    BY <1>1, <1>3, TokenFits
  <2> QED BY <1>1, <1>3, <2>1
          DEF IInv, TypeOK, TrackerFits, CallsFit, IsStarted, Targets, Listeners,
              NobodyWaitsOffline, StreamFits, CallbacksMeet
<1>4. CASE t = "current" /\ stream' = GrpcStarted(s) /\ UNCHANGED <<calls, synced, online>>
  <2>1. /\ stream' \in Stream /\ stream'.state = stream.state /\ stream'.idle = stream.idle
        /\ StreamFits(stream')
    BY <1>1, <1>4, TokenFits
  <2> QED BY <1>1, <1>4, <2>1
          DEF IInv, TypeOK, TrackerFits, CallsFit, IsStarted, Targets, Listeners,
              NobodyWaitsOffline, StreamFits, CallbacksMeet
<1>5. CASE OnWatchStreamClose(Close(s, FALSE), calls)
  <2>1. s \in Stream
    BY <1>1, TokenFits
  <2> HIDE DEF s
  <2> QED BY <1>5, <2>1, Closes
<1> QED BY <1>2, <1>3, <1>4, <1>5

\* An unchanged tracker and unchanged calls stay fit for a stream that has
\* gone on in its own way: opened, or out of its backoff.
LEMMA StreamMoves ==
    ASSUME IInv, UNCHANGED <<calls, synced, online>>, stream' \in Stream, StreamFits(stream'),
           IsStarted(stream), IsStarted(stream'), stream.state # "Open", ~stream'.idle
    PROVE  IInv'
<1>1. TypeOK' /\ NobodyWaitsOffline'
  BY DEF IInv, TypeOK, NobodyWaitsOffline
<1>2. TrackerFits(online, stream)'
  BY DEF IInv, TrackerFits, IsStarted
<1>3. CallsFit(calls, stream)'
  BY DEF CallsFit, IsStarted
<1> QED BY <1>1, <1>2, <1>3 DEF IInv, StreamFits, CallbacksMeet

LEMMA StreamOpensFits == ASSUME IInv, StreamOpens PROVE IInv'
<1>1. stream \in Stream /\ StreamFits(stream)
  BY DEF IInv, TypeOK
<1> QED BY <1>1, OpenFits, StreamMoves DEF StreamOpens, IsStarted

LEMMA BackoffTimerFits == ASSUME IInv, BackoffTimer PROVE IInv'
<1>1. stream \in Stream /\ StreamFits(stream)
  BY DEF IInv, TypeOK
<1> QED BY <1>1, BackoffFits, StreamMoves DEF BackoffTimer, IsStarted

LEMMA StreamFailsFits == ASSUME IInv, StreamFails PROVE IInv'
<1>1. stream \in Stream
  BY DEF IInv, TypeOK
<1> QED BY <1>1, Closes DEF StreamFails

LEMMA IdleTimerFits == ASSUME IInv, IdleTimer PROVE IInv'
<1>1. stream \in Stream
  BY DEF IInv, TypeOK
<1> QED BY <1>1, Closes DEF IdleTimer

\* What the server says counts as a sign that the client is online.
LEMMA OtherMessageFits == ASSUME IInv, OtherMessage PROVE IInv'
<1>1. /\ stream \in Stream /\ calls \in CallStates /\ synced \subseteq Query
      /\ StreamFits(stream) /\ CallsFit(calls, stream)
  BY DEF IInv, TypeOK, CallStates
<1> DEFINE o == UpdateState("Online")
<1>2. stream' = stream /\ Broadcast(o, calls) /\ stream.state = "Open"
  BY DEF OtherMessage
<1>3. o \in Tracker /\ TrackerFits(o, stream)
  BY <1>2, UpdateFits DEF TrackerFits
<1> HIDE DEF o
<1> QED BY <1>1, <1>2, <1>3, Settles

LEMMA ServerFits ==
    ASSUME IInv, NEW q \in Query, Server(q)
    PROVE  IInv'
<1>1. /\ stream \in Stream /\ calls \in CallStates /\ synced \subseteq Query
      /\ StreamFits(stream) /\ CallsFit(calls, stream)
  BY DEF IInv, TypeOK, CallStates
<1>2. /\ stream' = stream /\ stream.state = "Open"
      /\ online' = UpdateState("Online") /\ synced' \subseteq Query
      /\ calls' \in CallStates
      /\ \A c \in Call : calls[c] = "none" => calls'[c] = "none"
  BY <1>1 DEF Server, QueryIsCurrent, TargetError, CallStates
<1>3. /\ online' \in Tracker /\ TrackerFits(online', stream')
      /\ online'.state # "Offline"
  BY <1>2, UpdateFits DEF TrackerFits
<1>4. Targets(calls') \subseteq Targets(calls)
  BY <1>2 DEF Targets, Listeners
<1>5. CallsFit(calls', stream')
  BY <1>1, <1>2, <1>4 DEF CallsFit, IsStarted
<1> QED BY <1>1, <1>2, <1>3, <1>5
        DEF IInv, TypeOK, CallStates, StreamFits, CallbacksMeet, TrackerFits, CallsFit,
            IsStarted, Targets, Listeners, NobodyWaitsOffline

LEMMA OnlineTimerFits == ASSUME IInv, OnlineTimer PROVE IInv'
<1>1. /\ stream \in Stream /\ calls \in CallStates /\ synced \subseteq Query /\ online \in Tracker
      /\ StreamFits(stream) /\ CallsFit(calls, stream)
  BY DEF IInv, TypeOK, CallStates
<1> DEFINE o == [online EXCEPT !.state = "Offline", !.timer = FALSE]
<1>2. stream' = stream /\ Broadcast(o, calls)
  BY DEF OnlineTimer
<1>3. o \in Tracker /\ TrackerFits(o, stream)
  BY <1>1 DEF Tracker, TrackerFits
<1> HIDE DEF o
<1> QED BY <1>1, <1>2, <1>3, Settles

LEMMA CredentialChangeFits == ASSUME IInv, HandleCredentialChange PROVE IInv'
<1>1. /\ stream \in Stream /\ calls \in CallStates /\ synced \subseteq Query
      /\ StreamFits(stream)
  BY DEF IInv, TypeOK, CallStates
<1> DEFINE s == Stop(stream)
           o == UpdateState("Unknown")
<1>2. s \in Stream /\ ~IsStarted(s) /\ StreamFits(s) /\ ~s.idle
  BY <1>1, StreamTypes DEF Stop, Close, StreamFits, IsStarted, Stream
<1>3. o \in Tracker /\ ~o.timer /\ o.state = "Unknown"
  BY UpdateFits
<1>4. IF Targets(calls) # {} THEN StartWatchStream(s, o, calls)
                             ELSE stream' = s /\ Broadcast(o, calls)
  BY DEF HandleCredentialChange
<1> HIDE DEF s, o
<1>5. CASE Targets(calls) # {}
  BY <1>1, <1>2, <1>3, <1>4, <1>5, Starts
<1>6. CASE Targets(calls) = {}
  <2>1. TrackerFits(o, s) /\ CallsFit(calls, s)
    BY <1>2, <1>3, <1>6 DEF TrackerFits, CallsFit
  <2> QED BY <1>1, <1>2, <1>3, <1>4, <1>6, <2>1, Settles
<1> QED BY <1>5, <1>6

LEMMA StutterFits == ASSUME IInv, UNCHANGED vars PROVE IInv'
BY DEF vars, IInv, TypeOK, StreamFits, CallbacksMeet, TrackerFits, CallsFit, IsStarted,
       Targets, Listeners, NobodyWaitsOffline

LEMMA Inductive == IInv /\ [Next]_vars => IInv'
<1> SUFFICES ASSUME IInv, [Next]_vars PROVE IInv'
  OBVIOUS
<1>1. ASSUME NEW c \in Call, GetDocuments(c) PROVE IInv'
  BY <1>1, GetDocumentsFits
<1>2. ASSUME NEW c \in Call, RemoveListener(c) PROVE IInv'
  BY <1>2, RemoveListenerFits
<1>3. CASE TokenArrives
  BY <1>3, TokenArrivesFits
<1>4. CASE StreamOpens
  BY <1>4, StreamOpensFits
<1>5. CASE StreamFails
  BY <1>5, StreamFailsFits
<1>6. CASE OtherMessage
  BY <1>6, OtherMessageFits
<1>7. ASSUME NEW q \in Query, Server(q) PROVE IInv'
  BY <1>7, ServerFits
<1>8. CASE Timers
  BY <1>8, OnlineTimerFits, IdleTimerFits, BackoffTimerFits DEF Timers
<1>9. CASE HandleCredentialChange
  BY <1>9, CredentialChangeFits
<1>10. CASE UNCHANGED vars
  BY <1>10, StutterFits
<1> QED BY <1>1, <1>2, <1>3, <1>4, <1>5, <1>6, <1>7, <1>8, <1>9, <1>10 DEF Next

LEMMA Invariance == Spec => []IInv
BY InitFits, Inductive, PTL DEF Spec

-----------------------------------------------------------------------------
(***************************************************************************)
(* The theorems.                                                           *)
(***************************************************************************)

\* The variables of the event manager, the remote store, the tracker and the
\* stream keep their types; the count of failures stays within its limit.
THEOREM WatchTypeCorrect == Spec => []TypeOK
<1>1. IInv => TypeOK
  BY DEF IInv
<1> QED BY <1>1, Invariance, PTL

\* The HARD_ASSERTs of online_state_tracker.cc and remote_store.cc hold: the
\* timer belongs to a stream on its way, an established connection has neither
\* failures nor a timer, and a stream idles only while nobody listens.
THEOREM WatchAssertionsHold ==
    Spec => [](OnlineTimerIsOwned /\ OnlineIsFresh /\ IdleStreamIsUnneeded)
<1>1. IInv => OnlineTimerIsOwned /\ OnlineIsFresh /\ IdleStreamIsUnneeded
  BY DEF IInv, StreamFits, TrackerFits, CallsFit, OnlineTimerIsOwned, OnlineIsFresh,
         IdleStreamIsUnneeded
<1> QED BY <1>1, Invariance, PTL

\* Tokens and backoff timers never reach a stream that was closed and started
\* again after they were asked for (the HARD_ASSERTs of stream.cc).
THEOREM CallbacksAreMet == Spec => []CallbacksMeetTheirStream
<1>1. IInv => CallbacksMeetTheirStream
  BY DEF IInv, StreamFits, CallbacksMeetTheirStream
<1> QED BY <1>1, Invariance, PTL

\* While anyone listens the watch stream is open, starting or backing off
\* (OnWatchStreamClose starts it again, Listen starts it first).
THEOREM ListenersAreServed == Spec => []ListenersHaveAStream
<1>1. IInv => ListenersHaveAStream
  BY DEF IInv, CallsFit, ListenersHaveAStream
<1> QED BY <1>1, Invariance, PTL

\* Whatever turns the tracker to offline answers every waiting getDocuments
\* from the cache, and later ones do not wait.
THEOREM NobodyWaits == Spec => []NobodyWaitsOffline
<1>1. IInv => NobodyWaitsOffline
  BY DEF IInv
<1> QED BY <1>1, Invariance, PTL

\* A getDocuments that waits while the state is unknown is timed, or the next
\* failure answers it, except after the timer was dropped with the last query.
THEOREM WaitsAreTimed == Spec => []WaitIsTimed
<1>1. IInv => WaitIsTimed
  <2> SUFFICES ASSUME IInv, NEW c \in Call, calls[c] = "waiting", online.state = "Unknown",
                      ~online.dropped
               PROVE  online.timer \/ online.failures > 0
    BY DEF WaitIsTimed
  <2>1. QueryOf[c] \in Targets(calls)
    BY WatchAssumption DEF Targets, Listeners
  <2> QED BY <2>1 DEF IInv, CallsFit, TrackerFits
<1> QED BY <1>1, Invariance, PTL

-----------------------------------------------------------------------------
(***************************************************************************)
(* Documents in limbo.  First, what the loops of the sync engine leave     *)
(* behind: induction over a position is an appeal to the least position    *)
(* at which the claim fails.                                               *)
(***************************************************************************)

\* A set of naturals has a least element.
LEMMA LeastNatural ==
    ASSUME NEW S \in SUBSET Nat, S # {}
    PROVE  \E m \in S : \A n \in S : m <= n
<1> DEFINE R == OpToRel(<, Nat)
<1>1. IsWellFoundedOn(R, Nat)
  BY NatLessThanWellFounded
<1>2. ASSUME NEW x \in Nat, NEW y \in Nat, y < x PROVE <<y, x>> \in R
  BY <1>2 DEF OpToRel
<1> HIDE DEF R
<1>3. PICK m \in S : \A n \in S : ~ (<<n, m>> \in R)
  BY <1>1, WFMin
<1>4. ASSUME NEW n \in S PROVE m <= n
  <2>1. ~(n < m)
    BY <1>2, <1>3
  <2>2. n \in Nat /\ m \in Nat
    OBVIOUS
  <2> QED
    BY <2>1, <2>2
<1> QED
  BY <1>4

\* The loop of UpdateTrackedLimboDocuments up to change m.
Trail(f, b, s, m) ==
    f = [i \in 0..m |-> IF i = 0 THEN b ELSE Changed(f[i - 1], s[i])]

LEMMA LoopRuns ==
    ASSUME NEW b, NEW s \in Seq(LimboDocumentChange)
    PROVE  \E f : Trail(f, b, s, Len(s))
<1> DEFINE Stuck == {m \in 0..Len(s) : ~ \E f : Trail(f, b, s, m)}
<1>1. Len(s) \in Nat
  OBVIOUS
<1>2. ASSUME Stuck # {} PROVE FALSE
  <2>1. PICK m \in Stuck : \A n \in Stuck : m <= n
    <3>1. Stuck \in SUBSET Nat
      BY <1>1
    <3> QED
      BY <1>2, <3>1, LeastNatural
  <2>2. m \in 0..Len(s) /\ m \in Nat /\ ~ \E f : Trail(f, b, s, m)
    BY <1>1
  <2>3. CASE m = 0
    <3> DEFINE f == [i \in 0..0 |-> b]
    <3>1. f = [i \in 0..0 |-> IF i = 0 THEN b ELSE Changed(f[i - 1], s[i])]
      OBVIOUS
    <3>2. Trail(f, b, s, 0)
      BY <3>1 DEF Trail
    <3> QED
      BY <2>2, <2>3, <3>2
  <2>4. CASE m # 0
    <3>1. m - 1 \in 0..Len(s) /\ m - 1 \notin Stuck
      BY <1>1, <2>1, <2>2, <2>4
    <3>2. PICK g : Trail(g, b, s, m - 1)
      BY <3>1
    <3>3. g = [i \in 0..(m - 1) |-> IF i = 0 THEN b ELSE Changed(g[i - 1], s[i])]
      BY <3>2 DEF Trail
    <3> DEFINE f == [i \in 0..m |-> IF i < m THEN g[i] ELSE Changed(g[m - 1], s[m])]
    <3>4. \A i \in 0..m : f[i] = IF i = 0 THEN b ELSE Changed(f[i - 1], s[i])
      <4> TAKE i \in 0..m
      <4>1. CASE i = 0
        BY <2>2, <2>4, <3>3, <4>1
      <4>2. CASE i # 0 /\ i < m
        <5>1. f[i] = g[i] /\ i - 1 \in 0..m /\ i - 1 < m /\ f[i - 1] = g[i - 1]
          BY <2>2, <4>2
        <5>2. g[i] = Changed(g[i - 1], s[i])
          BY <2>2, <3>3, <4>2
        <5> QED
          BY <4>2, <5>1, <5>2
      <4>3. CASE i = m
        <5>1. f[m] = Changed(g[m - 1], s[m]) /\ f[m - 1] = g[m - 1]
          BY <2>2, <2>4
        <5> QED
          BY <2>4, <4>3, <5>1
      <4> QED
        BY <2>2, <4>1, <4>2, <4>3
    <3>5. f = [i \in 0..m |-> f[i]]
      OBVIOUS
    <3> HIDE DEF f
    <3>6. f = [i \in 0..m |-> IF i = 0 THEN b ELSE Changed(f[i - 1], s[i])]
      BY <3>4, <3>5
    <3> QED
      BY <2>2, <3>6 DEF Trail
  <2> QED
    BY <2>3, <2>4
<1> QED
  BY <1>1, <1>2

LEMMA LoopTrail ==
    ASSUME NEW b, NEW s \in Seq(LimboDocumentChange)
    PROVE  \E f : Trail(f, b, s, Len(s)) /\ UpdateTrackedLimboDocuments(b, s) = f[Len(s)]
<1> DEFINE after == CHOOSE f : f = [i \in 0..Len(s) |->
                                       IF i = 0 THEN b ELSE Changed(f[i - 1], s[i])]
<1>1. \E f : f = [i \in 0..Len(s) |-> IF i = 0 THEN b ELSE Changed(f[i - 1], s[i])]
  <2>1. PICK f : Trail(f, b, s, Len(s))
    BY LoopRuns
  <2>2. f = [i \in 0..Len(s) |-> IF i = 0 THEN b ELSE Changed(f[i - 1], s[i])]
    BY <2>1 DEF Trail
  <2> HIDE DEF after
  <2> QED
    BY <2>2
<1>2. after = [i \in 0..Len(s) |-> IF i = 0 THEN b ELSE Changed(after[i - 1], s[i])]
  BY <1>1
<1>3. UpdateTrackedLimboDocuments(b, s) = after[Len(s)]
  BY DEF UpdateTrackedLimboDocuments
<1> HIDE DEF after
<1> QED
  BY <1>2, <1>3 DEF Trail

-----------------------------------------------------------------------------
(***************************************************************************)
(* The books and the pump.                                                 *)
(***************************************************************************)

Book == [refs : [View -> SUBSET Key], enqueued : Seq(Key), byKey : SUBSET Key,
         byTarget : [Key -> Nat]]

\* No key but those of K is in limbo without an entry or a place in the queue.
NoneForgottenBut(b, K) ==
    \A v \in View : b.refs[v] \subseteq b.byKey \cup Range(b.enqueued) \cup K

HasRoom(b) == Cardinality(b.byKey) <= MaxResolutions

TargetsStand(b) == \A k \in b.byKey : b.byTarget[k] > 0

\* The invariant of the books; K are the keys that are about to leave limbo.
BooksFit(b, K) ==
    /\ b \in Book
    /\ NoneForgottenBut(b, K)
    /\ HasRoom(b)
    /\ b.enqueued # <<>> => Cardinality(b.byKey) = MaxResolutions
    /\ TargetsStand(b)

LEMMA BookParts ==
    ASSUME NEW b \in Book
    PROVE  /\ b.refs \in [View -> SUBSET Key] /\ b.enqueued \in Seq(Key)
           /\ b.byKey \subseteq Key /\ b.byTarget \in [Key -> Nat]
           /\ b = [refs |-> b.refs, enqueued |-> b.enqueued, byKey |-> b.byKey,
                   byTarget |-> b.byTarget]
           /\ Len(b.enqueued) \in Nat /\ DOMAIN b.enqueued = 1..Len(b.enqueued)
           /\ \A i \in 1..Len(b.enqueued) : b.enqueued[i] \in Key
BY DEF Book

LEMMA KeySets ==
    ASSUME NEW S \in SUBSET Key
    PROVE  IsFiniteSet(S) /\ Cardinality(S) \in Nat
BY LimboAssumption, FS_Subset, FS_CardinalityType

\* What listening for the first n keys that wait does to the books.
LEMMA ListenedFacts ==
    ASSUME NEW b \in Book, NEW n \in 0..Len(b.enqueued)
    PROVE  /\ Listened(b, n) \in Book
           /\ Listened(b, n).refs = b.refs
           /\ Listened(b, n).byKey = b.byKey \cup Oldest(b, n)
           /\ Listened(b, n).enqueued # <<>> => n < Len(b.enqueued)
           /\ b.byKey \cup Range(b.enqueued)
                \subseteq Listened(b, n).byKey \cup Range(Listened(b, n).enqueued)
           /\ TargetsStand(b) => TargetsStand(Listened(b, n))
<1> DEFINE q == b.enqueued
           r == SubSeq(q, n + 1, Len(q))
           t == [k \in Key |-> b.byTarget[k] + Times(b, n, k)]
<1>1. /\ q \in Seq(Key) /\ Len(q) \in Nat /\ n \in Nat /\ n <= Len(q)
      /\ \A i \in 1..Len(q) : q[i] \in Key
  BY BookParts
<1>2. Listened(b, n) = [refs |-> b.refs, enqueued |-> r, byKey |-> b.byKey \cup Oldest(b, n),
                        byTarget |-> t]
  BY DEF Listened
<1>3. /\ r \in Seq(Key) /\ Len(r) = Len(q) - n
      /\ \A i \in 1..(Len(q) - n) : r[i] = q[i + n]
  BY <1>1
<1>4. Oldest(b, n) \subseteq Key
  BY <1>1 DEF Oldest
<1>5. ASSUME NEW k \in Key
      PROVE  Times(b, n, k) \in Nat /\ (k \in Oldest(b, n) => Times(b, n, k) > 0)
  <2> DEFINE P == {i \in 1..n : b.enqueued[i] = k}
  <2>1. IsFiniteSet(1..n) /\ P \in SUBSET (1..n)
    BY <1>1, FS_Interval
  <2>2. IsFiniteSet(P) /\ Cardinality(P) \in Nat
    BY <2>1, FS_Subset, FS_CardinalityType
  <2>3. k \in Oldest(b, n) => P # {}
    BY DEF Oldest
  <2>4. P # {} => Cardinality(P) # 0
    BY <2>2, FS_EmptySet
  <2> QED
    BY <2>2, <2>3, <2>4 DEF Times
<1>6. t \in [Key -> Nat]
  BY <1>5, BookParts
<1>7. Listened(b, n) \in Book
  BY <1>2, <1>3, <1>4, <1>6, BookParts DEF Book
<1>8. Range(q) \subseteq Oldest(b, n) \cup Range(r)
  <2> SUFFICES ASSUME NEW i \in 1..Len(q), q[i] \notin Oldest(b, n) PROVE q[i] \in Range(r)
    BY <1>1 DEF Range
  <2>1. i > n
    BY <1>1 DEF Oldest
  <2>2. i - n \in 1..Len(r) /\ r[i - n] = q[i]
    BY <1>1, <1>3, <2>1
  <2>3. DOMAIN r = 1..Len(r)
    BY <1>3
  <2> HIDE DEF r
  <2> QED
    BY <2>2, <2>3 DEF Range
<1>9. r # <<>> => n < Len(q)
  BY <1>1, <1>3
<1>10. TargetsStand(b) => TargetsStand(Listened(b, n))
  <2> SUFFICES ASSUME TargetsStand(b), NEW k \in b.byKey \cup Oldest(b, n) PROVE t[k] > 0
    BY <1>2 DEF TargetsStand
  <2>1. k \in Key /\ b.byTarget[k] \in Nat
    BY <1>4, BookParts
  <2>2. t[k] = b.byTarget[k] + Times(b, n, k)
    BY <2>1
  <2>3. b.byTarget[k] > 0 \/ Times(b, n, k) > 0
    BY <1>5, <2>1 DEF TargetsStand
  <2>4. Times(b, n, k) \in Nat
    BY <1>5, <2>1
  <2> HIDE DEF t
  <2> QED
    BY <2>1, <2>2, <2>3, <2>4
<1> HIDE DEF q, r, t
<1>11. Listened(b, n).enqueued # <<>> => n < Len(b.enqueued)
  BY <1>2, <1>9 DEF q
<1> QED
  BY <1>2, <1>7, <1>8, <1>10, <1>11 DEF q

\* The pump stops when nothing waits any more or the limit is reached.
Enough(b, n) ==
    \/ n = Len(b.enqueued)
    \/ Cardinality(b.byKey \cup Oldest(b, n)) >= MaxResolutions

LEMMA PumpStops ==
    ASSUME NEW b \in Book
    PROVE  \E n \in 0..Len(b.enqueued) :
              /\ Pump(b) = Listened(b, n)
              /\ Enough(b, n)
              /\ \A m \in 0..(n - 1) : ~Enough(b, m)
<1> DEFINE S == {n \in 0..Len(b.enqueued) : Enough(b, n)}
<1>1. Len(b.enqueued) \in Nat
  BY BookParts
<1>2. Len(b.enqueued) \in S /\ S \in SUBSET Nat
  BY <1>1 DEF Enough
<1>3. \E x \in S : \A y \in S : x <= y
  <2> HIDE DEF S
  <2> QED
    BY <1>2, LeastNatural
<1>4. Min(S) \in S /\ \A y \in S : Min(S) <= y
  <2> HIDE DEF S
  <2> QED
    BY <1>3 DEF Min
<1>5. Pump(b) = Listened(b, Min(S))
  BY DEF Pump, Enough
<1>6. ASSUME NEW m \in 0..(Min(S) - 1) PROVE ~Enough(b, m)
  <2>1. Min(S) \in 0..Len(b.enqueued)
    BY <1>4
  <2>2. m \in 0..Len(b.enqueued) /\ ~(Min(S) <= m)
    BY <1>1, <2>1
  <2> QED
    BY <1>4, <2>2
<1>7. Min(S) \in 0..Len(b.enqueued) /\ Enough(b, Min(S))
  BY <1>4
<1> QED
  BY <1>5, <1>6, <1>7

\* PumpEnqueuedLimboResolutions makes good whatever freed a place: it never
\* passes the limit and leaves keys waiting only when the limit is reached.
LEMMA PumpFits ==
    ASSUME NEW b \in Book, NEW K, NoneForgottenBut(b, K), HasRoom(b), TargetsStand(b)
    PROVE  BooksFit(Pump(b), K) /\ Pump(b).refs = b.refs
<1>1. PICK n \in 0..Len(b.enqueued) :
        /\ Pump(b) = Listened(b, n) /\ Enough(b, n)
        /\ \A m \in 0..(n - 1) : ~Enough(b, m)
  BY PumpStops
<1> DEFINE p == Listened(b, n)
<1>2. /\ p \in Book /\ p.refs = b.refs /\ p.byKey = b.byKey \cup Oldest(b, n)
      /\ p.enqueued # <<>> => n < Len(b.enqueued)
      /\ b.byKey \cup Range(b.enqueued) \subseteq p.byKey \cup Range(p.enqueued)
      /\ TargetsStand(p)
  BY ListenedFacts
<1> HIDE DEF p
<1>3. NoneForgottenBut(p, K)
  BY <1>2 DEF NoneForgottenBut
<1>4. /\ Len(b.enqueued) \in Nat /\ n \in Nat /\ MaxResolutions \in Nat
      /\ \A i \in 1..Len(b.enqueued) : b.enqueued[i] \in Key
      /\ b.byKey \subseteq Key
  BY BookParts, LimboAssumption
<1>5. Cardinality(p.byKey) \in Nat
  BY <1>2, BookParts, KeySets
<1>6. HasRoom(p)
  <2>1. CASE n = 0
    <3>1. p.byKey = b.byKey
      BY <1>2, <2>1 DEF Oldest
    <3> QED
      BY <3>1 DEF HasRoom
  <2>2. CASE n # 0
    <3> DEFINE S == b.byKey \cup Oldest(b, n - 1)
    <3>1. n - 1 \in 0..(n - 1)
      BY <1>4, <2>2
    <3>2. S \subseteq Key /\ ~(Cardinality(S) >= MaxResolutions)
      <4>1. ~Enough(b, n - 1)
        BY <1>1, <3>1
      <4>2. Oldest(b, n - 1) \subseteq Key
        BY <1>4 DEF Oldest
      <4> QED
        BY <1>4, <4>1, <4>2 DEF Enough
    <3>3. IsFiniteSet(S) /\ Cardinality(S) \in Nat
      BY <3>2, KeySets
    <3>4. p.byKey = S \cup {b.enqueued[n]}
      BY <1>2, <1>4, <2>2 DEF Oldest
    <3> HIDE DEF S
    <3>5. Cardinality(p.byKey) <= Cardinality(S) + 1
      <4>1. Cardinality(S \cup {b.enqueued[n]})
               = IF b.enqueued[n] \in S THEN Cardinality(S) ELSE Cardinality(S) + 1
        BY <3>3, FS_AddElement
      <4> QED
        BY <3>3, <3>4, <4>1
    <3> QED
      BY <1>4, <1>5, <3>2, <3>3, <3>5 DEF HasRoom
  <2> QED
    BY <2>1, <2>2
<1>7. p.enqueued # <<>> => Cardinality(p.byKey) = MaxResolutions
  <2> SUFFICES ASSUME p.enqueued # <<>> PROVE Cardinality(p.byKey) = MaxResolutions
    OBVIOUS
  <2>1. n # Len(b.enqueued)
    BY <1>2, <1>4
  <2>2. Cardinality(p.byKey) >= MaxResolutions
    BY <1>1, <1>2, <2>1 DEF Enough
  <2> QED
    BY <1>4, <1>5, <1>6, <2>2 DEF HasRoom
<1> QED
  BY <1>1, <1>2, <1>3, <1>6, <1>7 DEF BooksFit, p

-----------------------------------------------------------------------------
(***************************************************************************)
(* One change, and one change after the other.                             *)
(***************************************************************************)

LEMMA RefsChange ==
    ASSUME NEW b \in Book, NEW v \in View, NEW k
    PROVE  /\ [b EXCEPT !.refs[v] = @ \cup {k}]
                = [refs |-> [b.refs EXCEPT ![v] = @ \cup {k}], enqueued |-> b.enqueued,
                   byKey |-> b.byKey, byTarget |-> b.byTarget]
           /\ [b EXCEPT !.refs[v] = @ \ {k}]
                = [refs |-> [b.refs EXCEPT ![v] = @ \ {k}], enqueued |-> b.enqueued,
                   byKey |-> b.byKey, byTarget |-> b.byTarget]
           /\ [b EXCEPT !.refs[v] = {}]
                = [refs |-> [b.refs EXCEPT ![v] = {}], enqueued |-> b.enqueued,
                   byKey |-> b.byKey, byTarget |-> b.byTarget]
<1>1. b = [refs |-> b.refs, enqueued |-> b.enqueued, byKey |-> b.byKey, byTarget |-> b.byTarget]
  BY BookParts
<1>2. [b EXCEPT !.refs[v] = @ \cup {k}]
         = [refs |-> [b.refs EXCEPT ![v] = @ \cup {k}], enqueued |-> b.enqueued,
            byKey |-> b.byKey, byTarget |-> b.byTarget]
  BY <1>1
<1>3. [b EXCEPT !.refs[v] = @ \ {k}]
         = [refs |-> [b.refs EXCEPT ![v] = @ \ {k}], enqueued |-> b.enqueued,
            byKey |-> b.byKey, byTarget |-> b.byTarget]
  BY <1>1
<1>4. [b EXCEPT !.refs[v] = {}]
         = [refs |-> [b.refs EXCEPT ![v] = {}], enqueued |-> b.enqueued,
            byKey |-> b.byKey, byTarget |-> b.byTarget]
  BY <1>1
<1> QED
  BY <1>2, <1>3, <1>4

\* The two sides of a LimboDocumentChange keep the books in order and touch
\* the references of their own view and key only.
LEMMA AddedFits ==
    ASSUME NEW b, NEW K, BooksFit(b, K), NEW v \in View, NEW k \in Key
    PROVE  LET a == TrackLimboChange([b EXCEPT !.refs[v] = @ \cup {k}], k)
           IN  BooksFit(a, K) /\ a.refs = [b.refs EXCEPT ![v] = @ \cup {k}]
<1> DEFINE rs == [b.refs EXCEPT ![v] = @ \cup {k}]
           c == [refs |-> rs, enqueued |-> b.enqueued, byKey |-> b.byKey,
                 byTarget |-> b.byTarget]
<1>1. b \in Book
  BY DEF BooksFit
<1>2. rs \in [View -> SUBSET Key] /\ \A w \in View : rs[w] \subseteq b.refs[w] \cup {k}
  BY <1>1, BookParts
<1>3. [b EXCEPT !.refs[v] = @ \cup {k}] = c
  BY <1>1, RefsChange
<1>4. c \in Book
  BY <1>1, <1>2, BookParts DEF Book
<1>5. CASE k \in b.byKey
  <2>1. TrackLimboChange(c, k) = c
    BY <1>5 DEF TrackLimboChange
  <2>2. NoneForgottenBut(c, K)
    BY <1>2, <1>5 DEF NoneForgottenBut, BooksFit
  <2>3. BooksFit(c, K)
    BY <1>4, <2>2 DEF BooksFit, HasRoom, TargetsStand
  <2> QED
    BY <1>3, <2>1, <2>3
<1>6. CASE k \notin b.byKey
  <2> DEFINE d == [refs |-> rs, enqueued |-> Append(b.enqueued, k), byKey |-> b.byKey,
                   byTarget |-> b.byTarget]
  <2>1. TrackLimboChange(c, k) = Pump(d)
    <3>1. [c EXCEPT !.enqueued = Append(@, k)] = d
      <4> HIDE DEF rs
      <4> QED
        OBVIOUS
    <3> QED
      BY <1>6, <3>1 DEF TrackLimboChange
  <2>2. Append(b.enqueued, k) \in Seq(Key)
        /\ Range(Append(b.enqueued, k)) = Range(b.enqueued) \cup {k}
    <3>1. b.enqueued \in Seq(Key)
      BY <1>1, BookParts
    <3>2. /\ Append(b.enqueued, k) \in Seq(Key)
          /\ DOMAIN Append(b.enqueued, k) = 1..(Len(b.enqueued) + 1)
          /\ DOMAIN b.enqueued = 1..Len(b.enqueued) /\ Len(b.enqueued) \in Nat
          /\ \A i \in 1..Len(b.enqueued) : Append(b.enqueued, k)[i] = b.enqueued[i]
          /\ Append(b.enqueued, k)[Len(b.enqueued) + 1] = k
      BY <3>1
    <3>3. Range(Append(b.enqueued, k)) = {Append(b.enqueued, k)[i] : i \in 1..(Len(b.enqueued) + 1)}
      BY <3>2 DEF Range
    <3>4. Range(b.enqueued) = {b.enqueued[i] : i \in 1..Len(b.enqueued)}
      BY <3>2 DEF Range
    <3>5. 1..(Len(b.enqueued) + 1) = 1..Len(b.enqueued) \cup {Len(b.enqueued) + 1}
      BY <3>2
    <3> QED
      BY <3>2, <3>3, <3>4, <3>5
  <2>3. d \in Book
    BY <1>1, <1>2, <2>2, BookParts DEF Book
  <2>4. NoneForgottenBut(d, K)
    BY <1>2, <2>2 DEF NoneForgottenBut, BooksFit
  <2>5. HasRoom(d) /\ TargetsStand(d)
    BY DEF BooksFit, HasRoom, TargetsStand
  <2>6. d.refs = rs
    OBVIOUS
  <2> HIDE DEF d
  <2>7. BooksFit(Pump(d), K) /\ Pump(d).refs = rs
    BY <2>3, <2>4, <2>5, <2>6, PumpFits
  <2> QED
    BY <1>3, <2>1, <2>7
<1> QED
  BY <1>5, <1>6

LEMMA EntryGoes ==
    ASSUME NEW b \in Book, NEW k \in Key
    PROVE  /\ OneTargetLess(b, k)
                = [refs |-> b.refs, enqueued |-> b.enqueued, byKey |-> b.byKey,
                   byTarget |-> [b.byTarget EXCEPT ![k] = @ - 1]]
           /\ NoEntry(OneTargetLess(b, k), k)
                = [refs |-> b.refs, enqueued |-> b.enqueued, byKey |-> b.byKey \ {k},
                   byTarget |-> [b.byTarget EXCEPT ![k] = @ - 1]]
<1> DEFINE t == [b.byTarget EXCEPT ![k] = @ - 1]
<1>1. b = [refs |-> b.refs, enqueued |-> b.enqueued, byKey |-> b.byKey, byTarget |-> b.byTarget]
  BY BookParts
<1>2. OneTargetLess(b, k)
         = [refs |-> b.refs, enqueued |-> b.enqueued, byKey |-> b.byKey, byTarget |-> t]
  BY <1>1 DEF OneTargetLess
<1> HIDE DEF t
<1>3. NoEntry(OneTargetLess(b, k), k)
         = [refs |-> b.refs, enqueued |-> b.enqueued, byKey |-> b.byKey \ {k}, byTarget |-> t]
  <2> DEFINE o == [refs |-> b.refs, enqueued |-> b.enqueued, byKey |-> b.byKey, byTarget |-> t]
  <2>1. [o EXCEPT !.byKey = @ \ {k}]
           = [refs |-> b.refs, enqueued |-> b.enqueued, byKey |-> b.byKey \ {k}, byTarget |-> t]
    OBVIOUS
  <2>2. OneTargetLess(b, k) = o
    BY <1>2
  <2> HIDE DEF o
  <2>3. NoEntry(OneTargetLess(b, k), k) = NoEntry(o, k)
    BY <2>2
  <2>4. NoEntry(o, k) = [o EXCEPT !.byKey = @ \ {k}]
    BY DEF NoEntry
  <2> QED
    BY <2>1, <2>3, <2>4, Zenon
<1> QED
  BY <1>2, <1>3 DEF t

LEMMA ReleaseFits ==
    ASSUME NEW b, NEW K, BooksFit(b, K), NEW k \in Key, ~ContainsKey(b, k)
    PROVE  LET a == RemoveLimboTarget(b, k) IN BooksFit(a, K) /\ a.refs = b.refs
<1>1. b \in Book
  BY DEF BooksFit
<1>2. CASE k \notin b.byKey
  BY <1>2 DEF RemoveLimboTarget
<1>3. CASE k \in b.byKey
  <2> DEFINE t == [b.byTarget EXCEPT ![k] = @ - 1]
             d == [refs |-> b.refs, enqueued |-> b.enqueued, byKey |-> b.byKey \ {k},
                   byTarget |-> t]
  <2>1. RemoveLimboTarget(b, k) = Pump(d)
    <3>1. NoEntry(OneTargetLess(b, k), k) = d
      BY <1>1, EntryGoes
    <3> QED
      BY <1>3, <3>1 DEF RemoveLimboTarget
  <2>2. b.byTarget \in [Key -> Nat] /\ b.byTarget[k] > 0
    BY <1>1, <1>3, BookParts DEF BooksFit, TargetsStand
  <2>3. t \in [Key -> Nat] /\ \A j \in Key \ {k} : t[j] = b.byTarget[j]
    BY <2>2
  <2>4. d \in Book
    BY <1>1, <2>3, BookParts DEF Book
  <2>5. NoneForgottenBut(d, K)
    BY DEF NoneForgottenBut, BooksFit, ContainsKey
  <2>6. HasRoom(d)
    <3>1. IsFiniteSet(b.byKey) /\ Cardinality(b.byKey) \in Nat
      BY <1>1, BookParts, KeySets
    <3>2. Cardinality(b.byKey \ {k}) = Cardinality(b.byKey) - 1
      BY <1>3, <3>1, FS_RemoveElement
    <3> QED
      BY <3>1, <3>2, LimboAssumption DEF HasRoom, BooksFit
  <2>7. TargetsStand(d)
    <3>1. \A j \in b.byKey \ {k} : t[j] > 0
      BY <1>1, <2>3, BookParts DEF BooksFit, TargetsStand
    <3> QED
      BY <3>1 DEF TargetsStand
  <2>8. d.refs = b.refs
    OBVIOUS
  <2> HIDE DEF d
  <2> QED
    BY <2>1, <2>4, <2>5, <2>6, <2>7, <2>8, PumpFits
<1> QED
  BY <1>2, <1>3

LEMMA ChangedFits ==
    ASSUME NEW b, NEW K, BooksFit(b, K), NEW c \in LimboDocumentChange
    PROVE  /\ BooksFit(Changed(b, c), K)
           /\ c.type = "Removed" => Changed(b, c).refs = [b.refs EXCEPT ![c.view] = @ \ {c.key}]
<1>1. c.view \in View /\ c.key \in Key /\ c.type \in {"Added", "Removed"}
  BY DEF LimboDocumentChange
<1>2. CASE c.type = "Added"
  BY <1>1, <1>2, AddedFits DEF Changed
<1>3. CASE c.type = "Removed"
  <2> DEFINE rs == [b.refs EXCEPT ![c.view] = @ \ {c.key}]
             less == [refs |-> rs, enqueued |-> b.enqueued, byKey |-> b.byKey,
                      byTarget |-> b.byTarget]
  <2>1. b \in Book
    BY DEF BooksFit
  <2>2. [b EXCEPT !.refs[c.view] = @ \ {c.key}] = less
    BY <1>1, <2>1, RefsChange
  <2>3. rs \in [View -> SUBSET Key] /\ \A w \in View : rs[w] \subseteq b.refs[w]
    BY <2>1, BookParts
  <2>4. less \in Book
    BY <2>1, <2>3, BookParts DEF Book
  <2>5. NoneForgottenBut(less, K)
    BY <2>3 DEF NoneForgottenBut, BooksFit
  <2>6. BooksFit(less, K) /\ less.refs = rs
    BY <2>4, <2>5 DEF BooksFit, HasRoom, TargetsStand
  <2>7. Changed(b, c) = IF ContainsKey(less, c.key) THEN less ELSE RemoveLimboTarget(less, c.key)
    BY <1>3, <2>2 DEF Changed
  <2> HIDE DEF less
  <2> QED
    BY <1>1, <1>3, <2>6, <2>7, ReleaseFits
<1> QED
  BY <1>1, <1>2, <1>3

\* Every change of the loop finds and leaves the books in order; when all are
\* removals, what they remove is gone in the end and nothing has joined.
LEMMA LoopFits ==
    ASSUME NEW b, NEW K, BooksFit(b, K), NEW s \in Seq(LimboDocumentChange)
    PROVE  LET a == UpdateTrackedLimboDocuments(b, s)
           IN  /\ BooksFit(a, K)
               /\ (\A i \in 1..Len(s) : s[i].type = "Removed") =>
                     /\ \A v \in View : a.refs[v] \subseteq b.refs[v]
                     /\ \A i \in 1..Len(s) : s[i].key \notin a.refs[s[i].view]
<1>1. PICK f : Trail(f, b, s, Len(s)) /\ UpdateTrackedLimboDocuments(b, s) = f[Len(s)]
  BY LoopTrail
<1>2. /\ Len(s) \in Nat
      /\ f[0] = b
      /\ \A i \in 1..Len(s) : f[i] = Changed(f[i - 1], s[i])
  <2>1. f = [i \in 0..Len(s) |-> IF i = 0 THEN b ELSE Changed(f[i - 1], s[i])]
    BY <1>1 DEF Trail
  <2>2. \A i \in 0..Len(s) : f[i] = IF i = 0 THEN b ELSE Changed(f[i - 1], s[i])
    BY <2>1
  <2> QED
    BY <2>2
<1>3. \A i \in 1..Len(s) : s[i] \in LimboDocumentChange /\ s[i].view \in View
  <2> TAKE i \in 1..Len(s)
  <2>1. s[i] \in LimboDocumentChange
    OBVIOUS
  <2> QED
    BY <2>1 DEF LimboDocumentChange
<1> DEFINE Removes == \A i \in 1..Len(s) : s[i].type = "Removed"
           Fine(i) == /\ BooksFit(f[i], K)
                      /\ Removes =>
                            /\ \A v \in View : f[i].refs[v] \subseteq b.refs[v]
                            /\ \A j \in 1..i : s[j].key \notin f[i].refs[s[j].view]
           Bad == {i \in 0..Len(s) : ~Fine(i)}
<1>4. Fine(0)
  BY <1>2
<1>5. ASSUME NEW i \in 1..Len(s), Fine(i - 1) PROVE Fine(i)
  <2>1. /\ BooksFit(f[i - 1], K) /\ f[i] = Changed(f[i - 1], s[i])
        /\ s[i] \in LimboDocumentChange /\ s[i].view \in View
    BY <1>2, <1>3, <1>5
  <2> DEFINE g == f[i - 1]
             c == s[i]
  <2>2. BooksFit(f[i], K)
        /\ (c.type = "Removed" => f[i].refs = [g.refs EXCEPT ![c.view] = @ \ {c.key}])
    <3>1. BooksFit(g, K) /\ c \in LimboDocumentChange /\ f[i] = Changed(g, c)
      BY <2>1
    <3> HIDE DEF g, c
    <3> QED
      BY <3>1, ChangedFits
  <2>3. ASSUME Removes
        PROVE  /\ \A v \in View : f[i].refs[v] \subseteq b.refs[v]
               /\ \A j \in 1..i : s[j].key \notin f[i].refs[s[j].view]
    <3>1. f[i].refs = [f[i - 1].refs EXCEPT ![s[i].view] = @ \ {s[i].key}]
      BY <2>2, <2>3
    <3>2. f[i - 1].refs \in [View -> SUBSET Key]
      BY <2>1, BookParts DEF BooksFit
    <3>3. /\ \A v \in View : f[i].refs[v] \subseteq f[i - 1].refs[v]
          /\ s[i].key \notin f[i].refs[s[i].view]
      BY <2>1, <3>1, <3>2
    <3>4. \A v \in View : f[i].refs[v] \subseteq b.refs[v]
      BY <1>5, <2>3, <3>3
    <3>5. ASSUME NEW j \in 1..i PROVE s[j].key \notin f[i].refs[s[j].view]
      <4>1. CASE j = i
        BY <3>3, <4>1
      <4>2. CASE j # i
        <5>1. j \in 1..(i - 1) /\ s[j].view \in View
          BY <1>2, <1>3, <4>2
        <5>2. s[j].key \notin f[i - 1].refs[s[j].view]
          BY <1>5, <2>3, <5>1
        <5> QED
          BY <3>3, <5>1, <5>2
      <4> QED
        BY <4>1, <4>2
    <3> QED
      BY <3>4, <3>5
  <2> QED
    BY <2>2, <2>3
<1> HIDE DEF Fine
<1>6. Bad = {}
  <2> SUFFICES ASSUME Bad # {} PROVE FALSE
    OBVIOUS
  <2>1. Bad \in SUBSET Nat
    BY <1>2
  <2>2. PICK m \in Bad : \A n \in Bad : m <= n
    BY <2>1, LeastNatural
  <2>3. m \in 0..Len(s) /\ m \in Nat /\ ~Fine(m) /\ m # 0
    BY <1>2, <1>4
  <2>4. m - 1 \in 0..Len(s) /\ m \in 1..Len(s) /\ ~(m <= m - 1)
    BY <1>2, <2>3
  <2>5. Fine(m - 1)
    BY <2>2, <2>4
  <2> QED
    BY <1>5, <2>3, <2>4, <2>5
<1>7. Fine(Len(s))
  <2>1. Len(s) \in 0..Len(s)
    BY <1>2
  <2> QED
    BY <1>6, <2>1
<1> QED
  BY <1>1, <1>7 DEF Fine


-----------------------------------------------------------------------------
(***************************************************************************)
(* The changes of one update, as a sequence.                               *)
(***************************************************************************)

\* A finite set can be put in an order: SetToSeq names each element once.
LEMMA SetAsSeq ==
    ASSUME NEW S, IsFiniteSet(S)
    PROVE  /\ SetToSeq(S) \in Seq(S)
           /\ \A x \in S : \E i \in 1..Len(SetToSeq(S)) : SetToSeq(S)[i] = x
<1> DEFINE n == Cardinality(S)
<1>1. n \in Nat /\ \E f : f \in Bijection(1..n, S)
  BY FS_CardinalityType DEF ExistsBijection
<1>2. \E f \in [1..n -> S] : IsInjective(f)
  BY <1>1 DEF Bijection, Injection
<1> DEFINE q == CHOOSE f \in [1..n -> S] : IsInjective(f)
<1>3. SetToSeq(S) = q
  BY DEF SetToSeq
<1>4. q \in [1..n -> S] /\ IsInjective(q)
  BY <1>2
<1> HIDE DEF q
<1>5. q \in Injection(1..n, S)
  BY <1>4 DEF Injection
<1>6. q \in Surjection(1..n, S)
  <2>1. Cardinality(1..n) = n
    BY <1>1, FS_Interval
  <2> QED
    BY <1>5, <2>1, FS_Injection
<1>7. q \in Seq(S) /\ Len(q) = n
  BY <1>1, <1>4
<1>8. \A x \in S : \E i \in 1..n : q[i] = x
  BY <1>6 DEF Surjection
<1> HIDE DEF n
<1> QED
  BY <1>3, <1>7, <1>8

\* The sequence s is of changes of one type and has one for each view and key.
Lists(s, type, views, keys) ==
    /\ s \in Seq(LimboDocumentChange)
    /\ \A i \in 1..Len(s) : s[i].type = type
    /\ \A v \in views, k \in keys : \E i \in 1..Len(s) : s[i].view = v /\ s[i].key = k

LEMMA ChangesFacts ==
    ASSUME NEW type \in {"Added", "Removed"}, NEW views \in SUBSET View, NEW keys \in SUBSET Key
    PROVE  Lists(Changes(type, views, keys), type, views, keys)
<1> DEFINE S == [type : {type}, view : views, key : keys]
           change(p) == [type |-> type, view |-> p[1], key |-> p[2]]
           f == [p \in views \X keys |-> change(p)]
<1>1. IsFiniteSet(views \X keys)
  BY LimboAssumption, FS_Subset, FS_Product
<1>2. f \in Surjection(views \X keys, S)
  <2>1. f \in [views \X keys -> S]
    OBVIOUS
  <2>2. ASSUME NEW c \in S PROVE \E p \in views \X keys : f[p] = c
    <3>1. /\ <<c.view, c.key>> \in views \X keys
          /\ c = [type |-> type, view |-> c.view, key |-> c.key]
      OBVIOUS
    <3>2. f[<<c.view, c.key>>] = c
      BY <3>1
    <3> QED
      BY <3>1, <3>2
  <2> HIDE DEF f, S
  <2> QED
    BY <2>1, <2>2 DEF Surjection
<1>3. IsFiniteSet(S)
  <2> HIDE DEF f, S
  <2> QED
    BY <1>1, <1>2, FS_Surjection
<1>4. S \subseteq LimboDocumentChange
  BY DEF LimboDocumentChange
<1> DEFINE s == SetToSeq(S)
<1>5. s \in Seq(S) /\ \A x \in S : \E i \in 1..Len(s) : s[i] = x
  <2> HIDE DEF S
  <2> QED
    BY <1>3, SetAsSeq
<1>6. \A c \in S : c.type = type
  OBVIOUS
<1>7. \A v \in views, k \in keys : [type |-> type, view |-> v, key |-> k] \in S
  OBVIOUS
<1>8. Changes(type, views, keys) = s
  BY DEF Changes
<1> HIDE DEF S, s
<1>9. s \in Seq(LimboDocumentChange)
  BY <1>4, <1>5
<1>10. \A i \in 1..Len(s) : s[i].type = type
  <2> TAKE i \in 1..Len(s)
  <2>1. s[i] \in S
    BY <1>5
  <2> QED
    BY <1>6, <2>1
<1>11. ASSUME NEW v \in views, NEW k \in keys
       PROVE  \E i \in 1..Len(s) : s[i].view = v /\ s[i].key = k
  <2> DEFINE c == [type |-> type, view |-> v, key |-> k]
  <2>1. c.view = v /\ c.key = k
    OBVIOUS
  <2>2. c \in S
    BY <1>7
  <2> HIDE DEF c
  <2>3. PICK i \in 1..Len(s) : s[i] = c
    BY <1>5, <2>2
  <2> QED
    BY <2>1, <2>3
<1> QED
  BY <1>8, <1>9, <1>10, <1>11 DEF Lists

-----------------------------------------------------------------------------
(***************************************************************************)
(* The invariant, action by action.                                        *)
(***************************************************************************)

LEMMA LimboUpdateFits ==
    ASSUME NEW b, BooksFit(b, {}), NEW v \in View, NEW ks \in SUBSET Key
    PROVE  BooksFit(Update(b, v, ks), {})
<1> DEFINE out == Changes("Removed", {v}, b.refs[v] \ ks)
           in  == Changes("Added", {v}, ks \ b.refs[v])
<1>1. b.refs[v] \subseteq Key
  BY BookParts DEF BooksFit
<1>2. out \in Seq(LimboDocumentChange) /\ in \in Seq(LimboDocumentChange)
  <2>1. {v} \in SUBSET View /\ (b.refs[v] \ ks) \in SUBSET Key /\ (ks \ b.refs[v]) \in SUBSET Key
    BY <1>1
  <2> QED
    BY <2>1, ChangesFacts DEF Lists
<1>3. Update(b, v, ks) = UpdateTrackedLimboDocuments(b, out \o in)
  BY DEF Update
<1> HIDE DEF out, in
<1> DEFINE s == out \o in
<1>4. s \in Seq(LimboDocumentChange)
  BY <1>2
<1> HIDE DEF s
<1>5. BooksFit(UpdateTrackedLimboDocuments(b, s), {})
  BY <1>4, LoopFits
<1> QED
  BY <1>3, <1>5 DEF s

\* The document is gone from every view: nothing is owed to its key.
LEMMA GoneFits ==
    ASSUME NEW b, NEW k \in Key, BooksFit(b, {k})
    PROVE  BooksFit(Gone(b, k), {})
<1> DEFINE views == {v \in View : k \in b.refs[v]}
           only == {k}
           s == Changes("Removed", views, only)
           a == UpdateTrackedLimboDocuments(b, s)
<1>1. /\ s \in Seq(LimboDocumentChange)
      /\ \A i \in 1..Len(s) : s[i].type = "Removed"
      /\ \A v \in views : \E i \in 1..Len(s) : s[i].view = v /\ s[i].key = k
  <2>1. views \in SUBSET View /\ only \in SUBSET Key
    OBVIOUS
  <2> HIDE DEF views, only
  <2>2. Lists(s, "Removed", views, only)
    BY <2>1, ChangesFacts
  <2>3. k \in only
    BY DEF only
  <2> HIDE DEF s
  <2> QED
    BY <2>2, <2>3 DEF Lists
<1>2. Gone(b, k) = a
  BY DEF Gone
<1> HIDE DEF s
<1>3. /\ BooksFit(a, {k})
      /\ \A v \in View : a.refs[v] \subseteq b.refs[v]
      /\ \A i \in 1..Len(s) : s[i].key \notin a.refs[s[i].view]
  BY <1>1, LoopFits
<1> HIDE DEF a
<1>4. \A v \in View : k \notin a.refs[v]
  BY <1>1, <1>3
<1>5. NoneForgottenBut(a, {})
  BY <1>3, <1>4 DEF BooksFit, NoneForgottenBut
<1> QED
  BY <1>2, <1>3, <1>5 DEF BooksFit

\* The inductive invariant: the books are in order between two calls.
LimboInv == LimboTypeOK /\ BooksFit(Books, {})

LEMMA LimboInvInit == LimboInit => LimboInv
<1> SUFFICES ASSUME LimboInit PROVE LimboInv
  OBVIOUS
<1>1. LimboTypeOK
  BY LimboAssumption DEF LimboInit, LimboTypeOK
<1>2. Books \in Book
  BY LimboAssumption DEF LimboInit, Books, Book
<1>3. /\ \A v \in View : Books.refs[v] = {}
      /\ Books.byKey = {} /\ Books.enqueued = <<>>
  BY DEF LimboInit, Books
<1>4. Cardinality({}) = 0
  BY FS_EmptySet
<1>5. NoneForgottenBut(Books, {}) /\ HasRoom(Books) /\ TargetsStand(Books)
  BY <1>3, <1>4, LimboAssumption DEF NoneForgottenBut, HasRoom, TargetsStand
<1> QED
  BY <1>1, <1>2, <1>3, <1>5 DEF LimboInv, BooksFit

\* Where the books are in order when the call returns, the state is.
LEMMA BecomeKeepsInv ==
    ASSUME NEW b, BooksFit(b, {}), Become(b)
    PROVE  LimboInv'
<1>1. /\ b \in Book
      /\ b.refs \in [View -> SUBSET Key] /\ b.enqueued \in Seq(Key)
      /\ b.byKey \subseteq Key /\ b.byTarget \in [Key -> Nat]
      /\ b = [refs |-> b.refs, enqueued |-> b.enqueued, byKey |-> b.byKey,
              byTarget |-> b.byTarget]
  BY BookParts DEF BooksFit
<1>2. /\ refs' = b.refs /\ enqueued' = b.enqueued /\ byKey' = b.byKey
      /\ byTarget' = b.byTarget
      /\ Len(b.enqueued) <= MaxEnqueued
      /\ \A k \in Key : b.byTarget[k] <= MaxTargets
  BY DEF Become
<1>3. b.byTarget \in [Key -> 0..MaxTargets]
  BY <1>1, <1>2, LimboAssumption
<1>4. LimboTypeOK'
  BY <1>1, <1>2, <1>3 DEF LimboTypeOK
<1>5. Books' = b
  BY <1>1, <1>2 DEF Books
<1>6. BooksFit(Books', {})
  BY <1>5
<1>7. BooksFit(Books, {})'
  BY <1>6 DEF BooksFit, NoneForgottenBut, HasRoom, TargetsStand, Book
<1> QED
  BY <1>4, <1>7 DEF LimboInv

LEMMA LimboInvInvariance == LimboInv /\ [LimboNext]_limboVars => LimboInv'
<1> SUFFICES ASSUME LimboInv, [LimboNext]_limboVars PROVE LimboInv'
  OBVIOUS
<1>1. BooksFit(Books, {}) /\ Books \in Book /\ LimboTypeOK
  BY DEF LimboInv, BooksFit
<1>2. /\ Books.refs = refs /\ Books.enqueued = enqueued
      /\ Books.byKey = byKey /\ Books.byTarget = byTarget
  BY DEF Books
<1>3. ASSUME NEW v \in View, NEW ks \in SUBSET Key, ViewChanges(v, ks) PROVE LimboInv'
  <2>1. Become(Update(Books, v, ks))
    BY <1>3 DEF ViewChanges
  <2> QED
    BY <1>1, <2>1, LimboUpdateFits, BecomeKeepsInv
<1>4. ASSUME NEW v \in View, QueryEnds(v) PROVE LimboInv'
  <2> DEFINE rs == [refs EXCEPT ![v] = {}]
             c == [refs |-> rs, enqueued |-> enqueued, byKey |-> byKey, byTarget |-> byTarget]
             s == Changes("Removed", {v}, refs[v])
  <2>1. [Books EXCEPT !.refs[v] = {}] = c
    BY <1>1, <1>2, RefsChange
  <2>2. Become(UpdateTrackedLimboDocuments(c, s))
    BY <1>4, <2>1 DEF QueryEnds
  <2>3. rs \in [View -> SUBSET Key] /\ \A w \in View : rs[w] \subseteq refs[w]
    BY <1>1 DEF LimboTypeOK
  <2>4. c \in Book
    BY <1>1, <1>2, <2>3, BookParts DEF Book
  <2>5. NoneForgottenBut(c, {})
    BY <1>1, <1>2, <2>3 DEF NoneForgottenBut, BooksFit
  <2>6. BooksFit(c, {})
    BY <1>1, <1>2, <2>4, <2>5 DEF BooksFit, HasRoom, TargetsStand
  <2>7. s \in Seq(LimboDocumentChange)
    <3>1. {v} \in SUBSET View /\ refs[v] \in SUBSET Key
      BY <1>1 DEF LimboTypeOK
    <3>2. Lists(s, "Removed", {v}, refs[v])
      BY <3>1, ChangesFacts
    <3> QED
      BY <3>2 DEF Lists
  <2> HIDE DEF c, s
  <2>8. BooksFit(UpdateTrackedLimboDocuments(c, s), {})
    BY <2>6, <2>7, LoopFits
  <2> QED
    BY <2>2, <2>8, BecomeKeepsInv
<1>5. ASSUME NEW k \in Key, LimboResolved(k) PROVE LimboInv'
  <2>1. BooksFit(Books, {k})
    BY <1>1 DEF BooksFit, NoneForgottenBut
  <2>2. Become(Gone(Books, k))
    BY <1>5 DEF LimboResolved
  <2> QED
    BY <2>1, <2>2, GoneFits, BecomeKeepsInv
<1>6. ASSUME NEW k \in Key, HandleRejectedListen(k) PROVE LimboInv'
  <2> DEFINE t == [byTarget EXCEPT ![k] = @ - 1]
             d == [refs |-> refs, enqueued |-> enqueued, byKey |-> byKey \ {k}, byTarget |-> t]
  <2>1. NoEntry(OneTargetLess(Books, k), k) = d
    BY <1>1, <1>2, EntryGoes
  <2>2. byTarget[k] > 0 /\ Become(Gone(Pump(d), k))
    BY <1>6, <2>1 DEF HandleRejectedListen
  <2>3. byTarget \in [Key -> Nat]
    BY <1>1, <1>2, BookParts
  <2>4. t \in [Key -> Nat] /\ \A j \in Key \ {k} : t[j] = byTarget[j]
    BY <2>2, <2>3
  <2>5. d \in Book
    BY <1>1, <1>2, <2>4, BookParts DEF Book
  <2>6. NoneForgottenBut(d, {k})
    BY <1>1, <1>2 DEF BooksFit, NoneForgottenBut
  <2>7. HasRoom(d)
    <3>1. byKey \subseteq Key /\ Cardinality(byKey) <= MaxResolutions
      BY <1>1, <1>2 DEF BooksFit, HasRoom, LimboTypeOK
    <3>2. /\ IsFiniteSet(byKey) /\ Cardinality(byKey) \in Nat
          /\ Cardinality(byKey \ {k}) \in Nat
      BY <3>1, KeySets
    <3>3. Cardinality(byKey \ {k}) <= Cardinality(byKey)
      BY <3>2, FS_Subset
    <3> QED
      BY <3>1, <3>2, <3>3, LimboAssumption DEF HasRoom
  <2>8. TargetsStand(d)
    <3>1. \A j \in byKey \ {k} : t[j] > 0
      BY <1>1, <1>2, <2>4 DEF BooksFit, TargetsStand, LimboTypeOK
    <3> QED
      BY <3>1 DEF TargetsStand
  <2> HIDE DEF d
  <2>9. BooksFit(Pump(d), {k})
    BY <2>5, <2>6, <2>7, <2>8, PumpFits
  <2> QED
    BY <2>2, <2>9, GoneFits, BecomeKeepsInv
<1>7. CASE UNCHANGED limboVars
  <2>1. Books' = Books
    BY <1>7 DEF limboVars, Books
  <2>2. BooksFit(Books, {})'
    BY <1>1, <2>1 DEF BooksFit, NoneForgottenBut, HasRoom, TargetsStand, Book
  <2>3. LimboTypeOK'
    BY <1>1, <1>7 DEF limboVars, LimboTypeOK
  <2> QED
    BY <2>2, <2>3 DEF LimboInv
<1> QED
  BY <1>3, <1>4, <1>5, <1>6, <1>7 DEF LimboNext

LEMMA LimboInvAlways == LimboSpec => []LimboInv
BY LimboInvInit, LimboInvInvariance, PTL DEF LimboSpec

\* The type invariant of the limbo resolution: in particular no entry and no
\* target is booked for a key that is not one.
THEOREM LimboTypeCorrect == LimboSpec => []LimboTypeOK
<1>1. LimboInv => LimboTypeOK
  BY DEF LimboInv
<1> QED
  BY <1>1, LimboInvAlways, PTL

\* TrackLimboChange, and every call that takes an entry away: a document that
\* is in limbo is being resolved or waits for it, whatever the number of
\* queries, of documents and of resolutions at a time.
THEOREM LimboIsRemembered == LimboSpec => []NoLimboIsForgotten
<1>1. LimboInv => NoLimboIsForgotten
  BY DEF LimboInv, BooksFit, NoneForgottenBut, Books, NoLimboIsForgotten
<1> QED
  BY <1>1, LimboInvAlways, PTL

\* PumpEnqueuedLimboResolutions: no more entries than the limit, and no key
\* waits while there is room.
THEOREM RoomIsNeverWasted == LimboSpec => []RoomIsUsed
<1>1. LimboInv => RoomIsUsed
  BY DEF LimboInv, BooksFit, HasRoom, Books, RoomIsUsed
<1> QED
  BY <1>1, LimboInvAlways, PTL

\* RemoveLimboTarget and StopListening: the assertion "target not currently
\* watched" holds of every key with an entry.
THEOREM EntriesStand == LimboSpec => []EntriesHaveTargets
<1>1. LimboInv => EntriesHaveTargets
  BY DEF LimboInv, BooksFit, TargetsStand, Books, EntriesHaveTargets
<1> QED
  BY <1>1, LimboInvAlways, PTL
=============================================================================
