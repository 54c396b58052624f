------------------------ MODULE WritePipelineProofs ------------------------
(***************************************************************************)
(* That the pipeline mirrors the queue and the wire the pipeline, that     *)
(* what is reported of a write is true, that the whole keeps the promise   *)
(* of WriteQueue, and that the writes of a user reach the server in their  *)
(* order, for any users, writes and size of the pipeline.                  *)
(***************************************************************************)
EXTENDS WritePipeline, SequenceTheorems, TLAPS

-----------------------------------------------------------------------------
(***************************************************************************)
(* What the operations of a stream preserve.                               *)
(***************************************************************************)

\* Callbacks meet the stream that asked for them (CallbacksMeet), which needs
\* more to be inductive: a call to gRPC belongs to a stream that starts or is
\* open, and so does an idle timer to one that is open.
StreamFits(s) ==
    /\ CallbacksMeet(s)
    /\ s.grpc => s.state \in {"Starting", "Open"}
    /\ s.idle => s.state = "Open"

\* Streams stay streams, and what their callbacks rely on.
LEMMA StreamTypes ==
    ASSUME NEW s \in Stream, NEW g \in BOOLEAN
    PROVE  /\ Close(s, g) \in Stream /\ ~IsStarted(Close(s, g)) /\ StreamFits(Close(s, g))
           /\ Start(s) \in Stream
           /\ Send(s) \in Stream /\ MarkIdle(s) \in Stream
BY DEF Stream, Close, IsStarted, StreamFits, CallbacksMeet, Start, RequestCredentials,
       Send, MarkIdle

\* Start leaves a stream that is on its way, with one callback that knows it.
LEMMA StartFits ==
    ASSUME NEW s \in Stream, StreamFits(s), ~IsStarted(s)
    PROVE  Start(s) \in Stream /\ StreamFits(Start(s)) /\ IsStarted(Start(s)) /\ ~Start(s).idle
<1>1. CASE s.state = "Error"
  BY <1>1 DEF Stream, StreamFits, CallbacksMeet, Start, IsStarted
<1>2. CASE s.state = "Initial"
  BY <1>2 DEF Stream, StreamFits, CallbacksMeet, Start, RequestCredentials, IsStarted
<1> QED BY <1>1, <1>2 DEF Stream, IsStarted

\* A token is taken once, and by the stream that is starting if it is current.
LEMMA TokenFits ==
    ASSUME NEW s \in Stream, StreamFits(s), NEW t \in s.tokens
    PROVE  LET r == TokenTaken(s, t)
           IN  /\ r \in Stream /\ StreamFits(r)
               /\ r.state = s.state /\ r.idle = s.idle /\ r.grpc = s.grpc
               /\ t = "current" =>
                     /\ GrpcStarted(r) \in Stream /\ StreamFits(GrpcStarted(r))
                     /\ GrpcStarted(r).state = "Starting" /\ s.state = "Starting"
                     /\ GrpcStarted(r).idle = s.idle /\ ~s.grpc
<1> DEFINE r == TokenTaken(s, t)
<1>1. /\ r \in Stream /\ r.state = s.state /\ r.idle = s.idle /\ r.grpc = s.grpc
      /\ r.backoff = s.backoff /\ r.tokens = s.tokens \ {t}
  BY DEF TokenTaken, Stream
<1> HIDE DEF r
<1>2. StreamFits(r)
  BY <1>1 DEF StreamFits, CallbacksMeet
<1>3. ASSUME t = "current"
      PROVE  /\ GrpcStarted(r) \in Stream /\ StreamFits(GrpcStarted(r))
             /\ GrpcStarted(r).state = "Starting" /\ s.state = "Starting"
             /\ GrpcStarted(r).idle = s.idle /\ ~s.grpc
  <2>1. s.state = "Starting" /\ ~s.grpc /\ "current" \notin r.tokens
    BY <1>1, <1>3 DEF StreamFits, CallbacksMeet
  <2>2. GrpcStarted(r) = [r EXCEPT !.grpc = TRUE]
    BY DEF GrpcStarted
  <2> QED BY <1>1, <1>2, <2>1, <2>2 DEF Stream, StreamFits, CallbacksMeet
<1> QED BY <1>1, <1>2, <1>3 DEF r

LEMMA OpenFits ==
    ASSUME NEW s \in Stream, StreamFits(s), s.grpc, s.state = "Starting"
    PROVE  LET r == OnStreamStart(s)
           IN  r \in Stream /\ StreamFits(r) /\ r.state = "Open" /\ ~r.idle
<1>1. OnStreamStart(s) = [s EXCEPT !.state = "Open"]
  BY DEF OnStreamStart
<1> QED BY <1>1 DEF Stream, StreamFits, CallbacksMeet

LEMMA BackoffFits ==
    ASSUME NEW s \in Stream, StreamFits(s), s.backoff
    PROVE  LET r == BackoffElapsed(s)
           IN  /\ r \in Stream /\ StreamFits(r) /\ r.state = "Starting" /\ ~r.idle
               /\ s.state = "Backoff"
<1>1. s.state = "Backoff" /\ ~s.grpc /\ ~s.idle
  BY DEF StreamFits, CallbacksMeet
<1> DEFINE u == [s EXCEPT !.backoff = FALSE]
<1>2. /\ u \in Stream /\ ~u.backoff /\ u.idle = s.idle /\ u.grpc = s.grpc
  BY DEF Stream
<1>3. BackoffElapsed(s) = [u EXCEPT !.state = "Starting", !.tokens = @ \cup {"current"}]
  BY DEF BackoffElapsed, RequestCredentials
<1> HIDE DEF u
<1> QED BY <1>1, <1>2, <1>3 DEF Stream, StreamFits, CallbacksMeet

\* Messages and the idle timer are of an open stream.
LEMMA SendFits ==
    ASSUME NEW s \in Stream, StreamFits(s)
    PROVE  /\ Send(s) \in Stream /\ StreamFits(Send(s)) /\ Send(s).state = s.state /\ ~Send(s).idle
           /\ MarkIdle(s) \in Stream /\ StreamFits(MarkIdle(s)) /\ MarkIdle(s).state = s.state
BY DEF Send, MarkIdle, Stream, StreamFits, CallbacksMeet

LEMMA StopFits ==
    ASSUME NEW s \in Stream, StreamFits(s)
    PROVE  Stop(s) \in Stream /\ StreamFits(Stop(s)) /\ ~IsStarted(Stop(s)) /\ ~Stop(s).idle
BY DEF Stop, Close, Stream, StreamFits, CallbacksMeet, IsStarted

LEMMA InhibitFits ==
    ASSUME NEW s \in Stream
    PROVE  LET r == InhibitBackoff(Close(s, FALSE))
           IN  r \in Stream /\ StreamFits(r) /\ ~IsStarted(r) /\ ~r.idle
BY DEF InhibitBackoff, Close, Stream, StreamFits, CallbacksMeet, IsStarted

LEMMA NewFits == NewStream \in Stream /\ StreamFits(NewStream) /\ ~IsStarted(NewStream) /\ ~NewStream.idle
BY DEF NewStream, Stream, StreamFits, CallbacksMeet, IsStarted

-----------------------------------------------------------------------------

Client == [stream : Stream, handshake : BOOLEAN,
           pipeline : Seq(Batch), requests : Seq(Message)]

(***************************************************************************)
(* The inductive invariant, of a client, a queue and the replies on their  *)
(* way.  Beyond what is promised, nothing is on the wire of a stream that  *)
(* is not open and only the greeting before its answer is there, so that   *)
(* the first reply of a stream is never mistaken for that of a write; and  *)
(* a refusal has its request, a success its commit.                        *)
(***************************************************************************)
Increasing(p) == \A i, j \in DOMAIN p : i < j => p[i] < p[j]

\* p is the beginning of q; and it is as long as it can be.
Begins(p, q) ==
    /\ Increasing(p)
    /\ Range(p) \subseteq q
    /\ p # <<>> => \A b \in q \ Range(p) : b > Last(p)

QueueFits(p, q) ==
    /\ Len(p) <= kMaxPendingWrites
    /\ Begins(p, q)
    /\ q \ Range(p) # {} => Len(p) = kMaxPendingWrites

WireFits(c, r) ==
    IF c.handshake
    THEN c.stream.state = "Open" /\ r \o c.requests = c.pipeline
    ELSE r \o c.requests = IF c.stream.state = "Open" THEN <<Hello>> ELSE <<>>

\* The HARD_ASSERT "Write stream was stopped gracefully while still needed",
\* and that writes which wait have a stream or one on its way.
StreamServes(c) ==
    /\ c.stream.idle => c.handshake /\ c.pipeline = <<>>
    /\ c.pipeline # <<>> => IsStarted(c.stream)

ClientFits(c, q, r) ==
    /\ c \in Client
    /\ StreamFits(c.stream)
    /\ QueueFits(c.pipeline, q)
    /\ WireFits(c, r)
    /\ StreamServes(c)

\* Batch ids are used in order, and what waits has been written.
Written ==
    /\ \A x, y \in Batch : x < y /\ told[y] # "unused" => told[x] # "unused"
    /\ \A u \in User : \A b \in queue[u] : told[b] # "unused"

RepliesAreCommitted == \A i \in DOMAIN replies : replies[i] \in Batch => replies[i] \in committed

IInv ==
    /\ TypeOK
    /\ ClientFits(client, queue[user], replies)
    /\ Written
    /\ verdict = "refused" => client.requests # <<>>
    /\ RepliesAreCommitted
    /\ SuccessIsTrue

-----------------------------------------------------------------------------
(***************************************************************************)
(* Sequences.                                                              *)
(***************************************************************************)

LEMMA BatchesAreNumbers == Batch \subseteq Nat \ {0} /\ Hello \notin Batch /\ Batch \subseteq Message
BY QueueAssumption DEF Batch, Hello, Message

\* A reply is taken from the head of what is on the wire ...
LEMMA ReplyTaken ==
    ASSUME NEW r \in Seq(Message), NEW q \in Seq(Message), r # <<>>
    PROVE  /\ Head(r) \in Message /\ Tail(r) \in Seq(Message)
           /\ r \o q # <<>> /\ Head(r \o q) = Head(r) /\ Tail(r \o q) = Tail(r) \o q
<1>1. r \o q \in Seq(Message) /\ Len(r \o q) = Len(r) + Len(q) /\ Len(r) \in Nat \ {0} /\ Len(q) \in Nat
  BY ConcatProperties, EmptySeq
<1>2. r \o q # <<>> /\ Head(r \o q) = Head(r)
  BY <1>1
<1>3. Tail(r) \in Seq(Message) /\ Len(Tail(r)) = Len(r) - 1 /\ Head(r) \in Message
  BY HeadTailProperties
<1>4. Tail(r) \o q \in Seq(Message) /\ Len(Tail(r) \o q) = Len(r) - 1 + Len(q)
  BY <1>3, ConcatProperties
<1>5. Tail(r \o q) \in Seq(Message) /\ Len(Tail(r \o q)) = Len(r) + Len(q) - 1
  BY <1>1, <1>2, HeadTailProperties
<1>6. ASSUME NEW i \in 1..(Len(r) + Len(q) - 1) PROVE Tail(r \o q)[i] = (Tail(r) \o q)[i]
  BY <1>1, <1>3
<1>7. Tail(r \o q) = Tail(r) \o q
  BY <1>4, <1>5, <1>6, SeqEqual
<1> QED BY <1>2, <1>3, <1>7

\* ... and stays in its place when the server turns a request into it.
LEMMA RequestAnswered ==
    ASSUME NEW r \in Seq(Message), NEW q \in Seq(Message), q # <<>>
    PROVE  /\ Head(q) \in Message /\ Tail(q) \in Seq(Message)
           /\ Append(r, Head(q)) \in Seq(Message)
           /\ Append(r, Head(q)) \o Tail(q) = r \o q
<1>1. Head(q) \in Message /\ Tail(q) \in Seq(Message) /\ <<Head(q)>> \in Seq(Message)
  BY HeadTailProperties
<1>2. Append(r, Head(q)) = r \o <<Head(q)>> /\ Append(r, Head(q)) \in Seq(Message)
  BY <1>1, AppendIsConcat, AppendProperties
<1>3. <<Head(q)>> \o Tail(q) = q
  BY <1>1
<1> QED BY <1>1, <1>2, <1>3, ConcatAssociative

-----------------------------------------------------------------------------
(***************************************************************************)
(* The pipeline and the queue.                                             *)
(***************************************************************************)

\* The batches that follow the pipeline are those that are not in it.
LEMMA RestOfTheQueue ==
    ASSUME NEW p \in Seq(Batch), NEW q \in SUBSET Batch, Begins(p, q)
    PROVE  /\ {b \in q : p # <<>> => b > Last(p)} = q \ Range(p)
           /\ p # <<>> => Last(p) \in Batch /\ \A i \in 1..Len(p) : p[i] <= Last(p)
<1>1. Len(p) \in Nat /\ DOMAIN p = 1..Len(p) /\ \A i \in 1..Len(p) : p[i] \in Batch
  BY LenProperties, ElementOfSeq
<1>2. Batch \subseteq Nat
  BY BatchesAreNumbers
<1>3. CASE p = <<>>
  BY <1>3 DEF Range
<1>4. CASE p # <<>>
  <2>1. Len(p) \in 1..Len(p) /\ Last(p) = p[Len(p)]
    BY <1>1, <1>4, EmptySeq DEF Last
  <2>2. ASSUME NEW i \in 1..Len(p) PROVE p[i] <= Last(p)
    <3>1. p[i] \in Nat /\ Last(p) \in Nat
      BY <1>1, <1>2, <2>1
    <3>2. i = Len(p) \/ i < Len(p)
      <4>1. Len(p) \in Nat
        BY <1>1
      <4> QED BY <4>1
    <3>3. i < Len(p) => p[i] < p[Len(p)]
      BY <1>1, <2>1 DEF Begins, Increasing
    <3> QED BY <2>1, <3>1, <3>2, <3>3
  <2>3. ASSUME NEW b \in Range(p) PROVE ~(b > Last(p))
    <3>1. PICK i \in 1..Len(p) : b = p[i]
      BY <1>1 DEF Range
    <3>2. b \in Nat /\ Last(p) \in Nat
      BY <1>1, <1>2, <2>1, <3>1
    <3>3. b <= Last(p)
      BY <2>2, <3>1
    <3> QED BY <3>2, <3>3
  <2>4. \A b \in q \ Range(p) : b > Last(p)
    BY <1>4 DEF Begins
  <2> QED BY <1>1, <1>4, <2>1, <2>2, <2>3, <2>4
<1> QED BY <1>3, <1>4

\* FillWritePipeline takes up the queue in order and as far as there is room.
LEMMA PipelineExtends ==
    ASSUME NEW c, NEW q \in SUBSET Batch, c.pipeline \in Seq(Batch),
           Len(c.pipeline) <= kMaxPendingWrites, Begins(c.pipeline, q),
           NEW added \in Added(c, q)
    PROVE  /\ added \in Seq(Batch) /\ c.pipeline \o added \in Seq(Batch)
           /\ QueueFits(c.pipeline \o added, q)
<1> DEFINE p == c.pipeline
           rest == {b \in q : p # <<>> => b > Last(p)}
           P == p \o added
<1>1. Len(p) \in Nat /\ DOMAIN p = 1..Len(p) /\ \A i \in 1..Len(p) : p[i] \in Batch
  BY LenProperties, ElementOfSeq
<1>2. /\ rest = q \ Range(p)
      /\ p # <<>> => Last(p) \in Batch /\ \A i \in 1..Len(p) : p[i] <= Last(p)
  BY RestOfTheQueue
<1>3. /\ added \in UNION {[1..n -> rest] : n \in 0..Room(c)}
      /\ \A i, j \in DOMAIN added : i < j => added[i] < added[j]
      /\ \A b \in rest \ Range(added) : Len(added) = Room(c) /\ \A i \in DOMAIN added : added[i] < b
  BY DEF Added
<1>4. kMaxPendingWrites \in Nat \ {0} /\ Room(c) = kMaxPendingWrites - Len(p) /\ Room(c) \in Nat
  BY <1>1, PipelineAssumption DEF Room
<1>5. PICK n \in 0..Room(c) : added \in [1..n -> rest]
  BY <1>3
<1>6. \A b \in rest : b \in q /\ (p # <<>> => b > Last(p))
  OBVIOUS
<1>7. Batch \subseteq Nat
  BY BatchesAreNumbers
<1> HIDE DEF rest
<1>8. /\ added \in Seq(rest) /\ Len(added) = n /\ DOMAIN added = 1..n /\ n \in Nat
      /\ rest \subseteq Batch
  BY <1>2, <1>4, <1>5
<1>9. added \in Seq(Batch)
  BY <1>8, SeqMonotonic
<1>10. \A i \in 1..n : added[i] \in rest /\ added[i] \in Nat
  BY <1>5, <1>7, <1>8
<1>11. /\ P \in Seq(Batch) /\ Len(P) = Len(p) + n /\ DOMAIN P = 1..(Len(p) + n)
       /\ \A i \in 1..(Len(p) + n) : P[i] = IF i <= Len(p) THEN p[i] ELSE added[i - Len(p)]
  <2>1. /\ P \in Seq(Batch) /\ Len(P) = Len(p) + Len(added)
        /\ \A i \in 1..(Len(p) + Len(added)) : P[i] = IF i <= Len(p) THEN p[i] ELSE added[i - Len(p)]
    BY <1>9, ConcatProperties
  <2>2. DOMAIN P = 1..Len(P)
    BY <2>1, LenProperties
  <2> QED BY <1>8, <2>1, <2>2
<1>12. Range(P) = Range(p) \cup Range(added)
  BY <1>9, RangeConcatenation
<1>13. Range(added) \subseteq rest
  BY <1>8, <1>10 DEF Range
<1> HIDE DEF P
<1>14. Increasing(P)
  <2> SUFFICES ASSUME NEW i \in 1..(Len(p) + n), NEW j \in 1..(Len(p) + n), i < j
               PROVE  P[i] < P[j]
    BY <1>11 DEF Increasing
  <2>1. CASE j <= Len(p)
    <3>1. i \in DOMAIN p /\ j \in DOMAIN p /\ P[i] = p[i] /\ P[j] = p[j]
      BY <1>1, <1>8, <1>11, <2>1
    <3> QED BY <3>1 DEF Begins, Increasing
  <2>2. CASE i <= Len(p) /\ ~(j <= Len(p))
    <3>1. j - Len(p) \in 1..n /\ i \in 1..Len(p) /\ p # <<>>
      BY <1>1, <1>8, <2>2
    <3>2. p[i] <= Last(p) /\ added[j - Len(p)] > Last(p)
      BY <1>2, <1>6, <1>10, <3>1
    <3>3. p[i] \in Nat /\ added[j - Len(p)] \in Nat /\ Last(p) \in Nat
      BY <1>1, <1>2, <1>7, <1>10, <3>1
    <3>4. P[i] = p[i] /\ P[j] = added[j - Len(p)]
      BY <1>11, <2>2
    <3> QED BY <3>2, <3>3, <3>4
  <2>3. CASE ~(i <= Len(p)) /\ ~(j <= Len(p))
    <3>1. i - Len(p) \in 1..n /\ j - Len(p) \in 1..n /\ i - Len(p) < j - Len(p)
      BY <1>1, <1>8, <2>3
    <3>2. P[i] = added[i - Len(p)] /\ P[j] = added[j - Len(p)]
      BY <1>11, <2>3
    <3> QED BY <1>3, <1>8, <3>1, <3>2
  <2>4. ~(i <= Len(p)) => ~(j <= Len(p))
    BY <1>1, <1>8
  <2> QED BY <2>1, <2>2, <2>3, <2>4
<1>15. Range(P) \subseteq q
  BY <1>2, <1>12, <1>13 DEF Begins
<1>16. ASSUME NEW b \in q \ Range(P)
       PROVE  Len(P) = kMaxPendingWrites /\ b > Last(P)
  <2>1. b \in rest /\ b \notin Range(added) /\ b \in Nat
    BY <1>2, <1>7, <1>12
  <2>2. Len(added) = Room(c) /\ \A i \in 1..n : added[i] < b
    BY <1>3, <1>8, <2>1 DEF rest
  <2>3. Len(P) = kMaxPendingWrites
    BY <1>1, <1>4, <1>8, <1>11, <2>2
  <2>4. Last(P) = P[Len(p) + n]
    BY <1>11 DEF Last
  <2>5. CASE n = 0
    <3>1. Len(p) \in 1..Len(p) /\ Len(p) + n = Len(p) /\ p # <<>>
      BY <1>1, <1>4, <1>11, <2>3, <2>5
    <3>2. P[Len(p) + n] = p[Len(p)]
      BY <1>1, <1>11, <2>5, <3>1
    <3>3. Last(p) = p[Len(p)] /\ b > Last(p)
      BY <1>6, <2>1, <3>1 DEF Last
    <3> QED BY <2>3, <2>4, <3>2, <3>3
  <2>6. CASE n # 0
    <3>1. n \in 1..n /\ Len(p) + n - Len(p) = n
      BY <1>1, <1>8, <2>6
    <3>2. P[Len(p) + n] = added[n]
      BY <1>1, <1>11, <3>1
    <3> QED BY <1>10, <2>1, <2>2, <2>3, <2>4, <3>1, <3>2
  <2> QED BY <2>5, <2>6
<1>17. Len(P) <= kMaxPendingWrites
  BY <1>1, <1>4, <1>5, <1>11
<1>18. QueueFits(P, q)
  BY <1>14, <1>15, <1>16, <1>17 DEF QueueFits, Begins
<1> QED BY <1>9, <1>11, <1>18 DEF P

\* The head of the pipeline is the oldest write of the queue, and without it the
\* one is still the beginning of the other.
LEMMA PoppedFits ==
    ASSUME NEW p \in Seq(Batch), p # <<>>, NEW q \in SUBSET Batch, QueueFits(p, q)
    PROVE  /\ Head(p) \in q /\ \A x \in q : Head(p) <= x
           /\ Tail(p) \in Seq(Batch) /\ Len(Tail(p)) <= kMaxPendingWrites
           /\ Begins(Tail(p), q \ {Head(p)})
<1> DEFINE b == Head(p)
           t == Tail(p)
<1>1. Len(p) \in Nat \ {0} /\ DOMAIN p = 1..Len(p) /\ \A i \in 1..Len(p) : p[i] \in Batch
  BY EmptySeq, LenProperties, ElementOfSeq
<1>2. Batch \subseteq Nat
  BY BatchesAreNumbers
<1>3. b = p[1] /\ 1 \in 1..Len(p)
  BY <1>1
<1>4. /\ t \in Seq(Batch) /\ Len(t) = Len(p) - 1
      /\ \A i \in 1..Len(t) : t[i] = p[i + 1]
  BY HeadTailProperties
<1>5. DOMAIN t = 1..Len(t)
  BY <1>4, LenProperties
<1> HIDE DEF b, t
<1>6. \A i, j \in 1..Len(p) : i < j => p[i] < p[j]
  BY <1>1 DEF QueueFits, Begins, Increasing
<1>7. \A i \in 1..Len(p) : p[i] \in Range(p) /\ p[i] \in q
  BY <1>1 DEF QueueFits, Begins, Range
<1>8. \A i \in 1..Len(t) : i + 1 \in 1..Len(p) /\ t[i] = p[i + 1] /\ 1 < i + 1
  BY <1>1, <1>4
<1>9. Increasing(t)
  <2> SUFFICES ASSUME NEW i \in 1..Len(t), NEW j \in 1..Len(t), i < j PROVE t[i] < t[j]
    BY <1>5 DEF Increasing
  <2> QED BY <1>6, <1>8
<1>10. Range(t) \subseteq q \ {b}
  <2> SUFFICES ASSUME NEW i \in 1..Len(t) PROVE t[i] \in q /\ t[i] # b
    BY <1>5 DEF Range
  <2>1. t[i] \in q /\ p[1] < t[i] /\ p[1] \in Nat /\ t[i] \in Nat
    BY <1>1, <1>2, <1>3, <1>6, <1>7, <1>8
  <2> QED BY <1>3, <2>1
<1>11. Range(p) \subseteq {b} \cup Range(t)
  <2> SUFFICES ASSUME NEW i \in 1..Len(p), i # 1 PROVE p[i] \in Range(t)
    BY <1>1, <1>3 DEF Range
  <2>1. i - 1 \in 1..Len(t) /\ (i - 1) + 1 = i
    BY <1>1, <1>4
  <2>2. t[i - 1] = p[i]
    BY <1>4, <2>1
  <2> QED BY <1>5, <2>1, <2>2 DEF Range
<1>12. t # <<>> => Last(t) = Last(p)
  <2>1. t # <<>> => Len(t) \in 1..Len(t)
    BY <1>4, EmptySeq
  <2>2. Len(t) + 1 = Len(p)
    BY <1>1, <1>4
  <2> QED BY <1>4, <2>1, <2>2 DEF Last
<1>13. \A x \in q \ Range(p) : x > Last(p)
  BY <1>1, EmptySeq DEF QueueFits, Begins
<1>14. ASSUME NEW x \in q PROVE b <= x
  <2>1. CASE x \in Range(p)
    <3>1. PICK i \in 1..Len(p) : x = p[i]
      BY <1>1, <2>1 DEF Range
    <3>2. p[1] \in Nat /\ p[i] \in Nat
      BY <1>1, <1>2, <1>3
    <3>3. i = 1 \/ p[1] < p[i]
      <4>1. i = 1 \/ 1 < i
        OBVIOUS
      <4> QED BY <1>3, <1>6, <4>1
    <3> QED BY <1>3, <3>1, <3>2, <3>3
  <2>2. CASE x \notin Range(p)
    <3>1. x > Last(p) /\ Last(p) = p[Len(p)] /\ Len(p) \in 1..Len(p)
      BY <1>1, <1>13, <2>2 DEF Last
    <3>2. p[1] \in Nat /\ p[Len(p)] \in Nat /\ x \in Nat
      BY <1>1, <1>2, <1>3, <3>1
    <3>3. Len(p) = 1 \/ p[1] < p[Len(p)]
      <4>0. Len(p) \in Nat \ {0}
        BY <1>1
      <4>1. \A n \in Nat \ {0} : n = 1 \/ 1 < n
        OBVIOUS
      <4>2. 1 \in 1..Len(p) /\ Len(p) \in 1..Len(p)
        BY <4>0
      <4>3. 1 < Len(p) => p[1] < p[Len(p)]
        BY <1>6, <4>2
      <4> QED BY <4>0, <4>1, <4>3
    <3> QED BY <1>3, <3>1, <3>2, <3>3
  <2> QED BY <2>1, <2>2
<1>15. Begins(t, q \ {b})
  BY <1>9, <1>10, <1>11, <1>12, <1>13 DEF Begins
<1>16. Len(t) <= kMaxPendingWrites
  <2>1. Len(p) \in Nat /\ Len(t) = Len(p) - 1 /\ Len(p) <= kMaxPendingWrites
    BY <1>1, <1>4 DEF QueueFits
  <2> QED BY <2>1, PipelineAssumption
<1> QED BY <1>3, <1>4, <1>7, <1>14, <1>15, <1>16 DEF b, t

\* A write that is younger than all of the queue changes nothing at its beginning.
LEMMA GrownFits ==
    ASSUME NEW p \in Seq(Batch), NEW q \in SUBSET Batch, Begins(p, q),
           NEW b \in Batch, \A x \in q : x < b
    PROVE  Begins(p, q \cup {b})
<1>1. ASSUME p # <<>> PROVE b > Last(p)
  <2>1. Len(p) \in 1..Len(p) /\ Last(p) = p[Len(p)] /\ DOMAIN p = 1..Len(p)
    BY <1>1, EmptySeq, LenProperties DEF Last
  <2>2. Last(p) \in q
    BY <2>1 DEF Begins, Range
  <2>3. Last(p) \in Nat /\ b \in Nat
    BY <2>2, BatchesAreNumbers
  <2> QED BY <2>2, <2>3
<1> QED BY <1>1 DEF Begins

-----------------------------------------------------------------------------
(***************************************************************************)
(* The remote store.                                                       *)
(***************************************************************************)

\* A client without a stream has nothing on the wire.
LEMMA NothingOnTheWire ==
    ASSUME NEW c, ~IsStarted(c.stream), ~c.handshake, c.requests = <<>>
    PROVE  WireFits(c, <<>>)
<1>1. <<>> \o c.requests = <<>>
  BY ConcatEmptySeq, EmptySeq
<1> QED BY <1>1 DEF WireFits, IsStarted

\* A stream is started when writes wait, and nothing is on its wire yet.
LEMMA StartIfNeededFits ==
    ASSUME NEW c \in Client, NEW q, NEW r,
           StreamFits(c.stream), QueueFits(c.pipeline, q), WireFits(c, r),
           c.stream.idle => c.handshake /\ c.pipeline = <<>>
    PROVE  ClientFits(StartIfNeeded(c), q, r) /\ StartIfNeeded(c).requests = c.requests
<1>1. CASE ~IsStarted(c.stream) /\ c.pipeline # <<>>
  <2> DEFINE s == Start(c.stream)
             d == [c EXCEPT !.stream = s]
  <2>1. c.stream \in Stream
    BY DEF Client
  <2>2. s \in Stream /\ StreamFits(s) /\ IsStarted(s) /\ ~s.idle
    BY <1>1, <2>1, StartFits
  <2>3. s.state # "Open" /\ c.stream.state # "Open"
    BY <1>1, <2>1 DEF Start, RequestCredentials, Stream, IsStarted
  <2>4. StartIfNeeded(c) = d
    BY <1>1 DEF StartIfNeeded
  <2> HIDE DEF s
  <2>5. /\ d \in Client /\ d.stream = s /\ d.handshake = c.handshake
        /\ d.pipeline = c.pipeline /\ d.requests = c.requests
    BY <2>2 DEF Client
  <2> HIDE DEF d
  <2>6. WireFits(d, r)
    BY <2>3, <2>5 DEF WireFits
  <2> QED BY <2>2, <2>4, <2>5, <2>6 DEF ClientFits, StreamServes
<1>2. CASE ~(~IsStarted(c.stream) /\ c.pipeline # <<>>)
  <2>1. StartIfNeeded(c) = c
    BY <1>2 DEF StartIfNeeded
  <2> QED BY <1>2, <2>1 DEF ClientFits, StreamServes
<1> QED BY <1>1, <1>2

\* FillWritePipeline leaves a client that fits, whatever beginning of the queue it
\* is called with, unless it would set a timer for a stream that has yet to greet.
LEMMA FillFits ==
    ASSUME NEW c \in Client, NEW q \in SUBSET Batch, NEW r \in Seq(Message),
           StreamFits(c.stream), Len(c.pipeline) <= kMaxPendingWrites, Begins(c.pipeline, q),
           WireFits(c, r),
           c.stream.idle => c.handshake /\ c.pipeline = <<>>,
           c.stream.state = "Open" /\ ~c.handshake => q # {},
           NEW f \in FillWritePipeline(c, q)
    PROVE  ClientFits(f, q, r) /\ (c.requests # <<>> => f.requests # <<>>)
<1>1. PICK added \in Added(c, q) : f = StartIfNeeded(Extended(c, added))
  BY DEF FillWritePipeline
<1> DEFINE P == c.pipeline \o added
           d == Extended(c, added)
           ready == c.stream.state = "Open" /\ c.handshake
<1>2. /\ c.stream \in Stream /\ c.handshake \in BOOLEAN
      /\ c.pipeline \in Seq(Batch) /\ c.requests \in Seq(Message)
  BY DEF Client
<1>3. added \in Seq(Batch) /\ P \in Seq(Batch) /\ QueueFits(P, q)
  BY <1>2, PipelineExtends
<1>4. added \in Seq(Message) /\ c.pipeline \in Seq(Message)
  BY <1>2, <1>3, BatchesAreNumbers, SeqMonotonic
<1>5. /\ d \in Client /\ StreamFits(d.stream) /\ d.pipeline = P /\ d.handshake = c.handshake
      /\ d.requests = IF ready THEN c.requests \o added ELSE c.requests
      /\ d.stream = IF P = <<>> THEN MarkIdle(c.stream)
                    ELSE IF ready /\ added # <<>> THEN Send(c.stream) ELSE c.stream
      /\ d.stream.state = c.stream.state
  <2> DEFINE s == IF P = <<>> THEN MarkIdle(c.stream)
                  ELSE IF ready /\ added # <<>> THEN Send(c.stream) ELSE c.stream
             w == IF ready THEN c.requests \o added ELSE c.requests
  <2>1. s \in Stream /\ StreamFits(s) /\ s.state = c.stream.state
    BY <1>2, SendFits
  <2>2. w \in Seq(Message)
    BY <1>2, <1>4, ConcatProperties
  <2>3. d = [c EXCEPT !.pipeline = P, !.requests = w, !.stream = s]
    BY DEF Extended
  <2> HIDE DEF s, w, d
  <2>4. d \in Client /\ d.pipeline = P /\ d.requests = w /\ d.stream = s /\ d.handshake = c.handshake
    BY <1>3, <2>1, <2>2, <2>3 DEF Client
  <2> QED BY <2>1, <2>4 DEF s, w
<1> HIDE DEF d
<1>6. WireFits(d, r)
  <2>1. CASE c.handshake
    <3>1. c.stream.state = "Open" /\ r \o c.requests = c.pipeline
      BY <2>1 DEF WireFits
    <3>2. (r \o c.requests) \o added = r \o (c.requests \o added)
      <4>1. \A x, y, z \in Seq(Message) : (x \o y) \o z = x \o (y \o z)
        BY ConcatAssociative
      <4> QED BY <1>2, <1>4, <4>1, Zenon
    <3> QED BY <1>5, <2>1, <3>1, <3>2 DEF WireFits
  <2>2. CASE ~c.handshake
    BY <1>5, <2>2 DEF WireFits
  <2> QED BY <2>1, <2>2
<1>7. d.stream.idle => d.handshake /\ d.pipeline = <<>>
  <2>1. CASE P = <<>>
    <3>1. q = {}
      <4>1. Len(P) = 0 /\ Range(P) = {}
        BY <2>1, EmptySeq DEF Range
      <4> QED BY <1>3, <4>1, PipelineAssumption DEF QueueFits
    <3>2. CASE c.stream.state = "Open"
      <4>1. c.handshake /\ d.handshake = c.handshake /\ d.pipeline = P
        BY <1>5, <3>1, <3>2
      <4> QED BY <2>1, <4>1
    <3>3. CASE c.stream.state # "Open"
      BY <1>2, <1>5, <2>1, <3>3 DEF MarkIdle, StreamFits
    <3> QED BY <3>2, <3>3
  <2>2. CASE P # <<>>
    <3>1. CASE ready /\ added # <<>>
      BY <1>2, <1>5, <2>2, <3>1 DEF Send, Stream
    <3>2. CASE ~(ready /\ added # <<>>)
      <4>1. d.stream = c.stream
        BY <1>5, <2>2, <3>2
      <4>2. c.stream.idle => ready /\ c.pipeline = <<>>
        BY DEF StreamFits
      <4>3. c.pipeline = <<>> /\ added = <<>> => P = <<>>
        BY <1>3, ConcatEmptySeq
      <4> QED BY <2>2, <3>2, <4>1, <4>2, <4>3
    <3> QED BY <3>1, <3>2
  <2> QED BY <2>1, <2>2
<1>8. ClientFits(f, q, r) /\ f.requests = d.requests
  <2>1. QueueFits(d.pipeline, q) /\ f = StartIfNeeded(d)
    BY <1>1, <1>3, <1>5 DEF d
  <2> HIDE DEF P
  <2> QED BY <1>5, <1>6, <1>7, <2>1, StartIfNeededFits
<1>9. c.requests # <<>> => c.requests \o added # <<>>
  BY <1>2, <1>4, ConcatEqualIffEmpty
<1> QED BY <1>5, <1>8, <1>9

\* The client whose stream has been closed, and that whose head has been answered.
LEMMA ClosedFits ==
    ASSUME NEW c \in Client, NEW s \in Stream, ~IsStarted(s)
    PROVE  LET d == Closed(c, s)
           IN  /\ d \in Client /\ d.stream = s /\ d.pipeline = c.pipeline
               /\ ~d.handshake /\ d.requests = <<>> /\ WireFits(d, <<>>)
<1> DEFINE d == Closed(c, s)
<1>1. <<>> \in Seq(Message)
  BY EmptySeq
<1>2. /\ d \in Client /\ d.stream = s /\ d.pipeline = c.pipeline
      /\ ~d.handshake /\ d.requests = <<>>
  BY <1>1 DEF Closed, Client
<1> HIDE DEF d
<1>3. WireFits(d, <<>>)
  BY <1>2, NothingOnTheWire
<1> QED BY <1>2, <1>3 DEF d

-----------------------------------------------------------------------------
(***************************************************************************)
(* The queue.                                                              *)
(***************************************************************************)

\* A new write is younger than all that wait.
LEMMA EnqueueFits ==
    ASSUME IInv, NEW b \in Batch, Enqueue(b), UNCHANGED committed
    PROVE  /\ QueueTypeOK' /\ Written' /\ SuccessIsTrue'
           /\ user' = user /\ queue'[user] = queue[user] \cup {b}
           /\ \A x \in queue[user] : x < b
<1>1. QueueTypeOK /\ Written /\ SuccessIsTrue
  BY DEF IInv, TypeOK
<1>2. /\ user \in User /\ queue \in [User -> SUBSET Batch] /\ told \in [Batch -> Knowledge]
      /\ user' = user
      /\ queue' = [queue EXCEPT ![user] = queue[user] \cup {b}]
      /\ told' = [told EXCEPT ![b] = "pending"]
      /\ told[b] = "unused" /\ \A x \in 1..(b - 1) : told[x] # "unused"
  BY <1>1 DEF QueueTypeOK, Enqueue, IsNext
<1>3. Batch \subseteq Nat \ {0}
  BY BatchesAreNumbers
<1>4. ASSUME NEW x \in Batch, ~(x < b) PROVE x = b \/ told[x] = "unused"
  BY <1>1, <1>2, <1>3, <1>4 DEF Written
<1>5. \A x \in queue[user] : x < b
  BY <1>1, <1>2, <1>4 DEF Written
<1>6. QueueTypeOK'
  BY <1>2 DEF QueueTypeOK, Knowledge
<1>7. \A x \in Batch : told'[x] = IF x = b THEN "pending" ELSE told[x]
  BY <1>2
<1>8. Written'
  <2>1. ASSUME NEW x \in Batch, NEW y \in Batch, x < y, told'[y] # "unused"
        PROVE  told'[x] # "unused"
    <3>1. CASE y = b
      <4>1. x \in 1..(b - 1)
        BY <1>3, <2>1, <3>1
      <4> QED BY <1>2, <1>7, <4>1
    <3>2. CASE y # b
      BY <1>1, <1>7, <2>1, <3>2 DEF Written
    <3> QED BY <3>1, <3>2
  <2>2. ASSUME NEW u \in User, NEW x \in queue'[u] PROVE told'[x] # "unused"
    <3>1. x \in queue[u] \/ x = b
      BY <1>2
    <3>2. x \in Batch
      BY <1>2, <3>1
    <3> QED BY <1>1, <1>7, <3>1, <3>2 DEF Written
  <2> QED BY <2>1, <2>2 DEF Written
<1>9. SuccessIsTrue'
  BY <1>1, <1>7 DEF SuccessIsTrue
<1> QED BY <1>2, <1>5, <1>6, <1>8, <1>9

\* What is settled leaves the queue, and is reported as stored if it is.
LEMMA SettleFits ==
    ASSUME IInv, NEW b \in Batch, NEW answer \in {"ok", "failed"}, Settle(b, answer),
           UNCHANGED committed, answer = "ok" => b \in committed
    PROVE  /\ QueueTypeOK' /\ Written' /\ SuccessIsTrue'
           /\ user' = user /\ queue'[user] = queue[user] \ {b}
<1>1. QueueTypeOK /\ Written /\ SuccessIsTrue
  BY DEF IInv, TypeOK
<1>2. /\ user \in User /\ queue \in [User -> SUBSET Batch] /\ told \in [Batch -> Knowledge]
      /\ user' = user
      /\ queue' = [queue EXCEPT ![user] = queue[user] \ {b}]
      /\ told' = [told EXCEPT ![b] = IF told[b] = "pending" THEN answer ELSE told[b]]
  BY <1>1 DEF QueueTypeOK, Settle
<1>3. QueueTypeOK'
  BY <1>2 DEF QueueTypeOK, Knowledge
<1>4. \A x \in Batch : told'[x] = IF x = b /\ told[b] = "pending" THEN answer ELSE told[x]
  BY <1>2
<1>5. Written'
  BY <1>1, <1>2, <1>4 DEF Written
<1>6. SuccessIsTrue'
  BY <1>1, <1>4 DEF SuccessIsTrue
<1> QED BY <1>2, <1>3, <1>5, <1>6

\* The parts of the invariant, as the actions need them.
LEMMA Given ==
    ASSUME IInv
    PROVE  /\ QueueTypeOK /\ user \in User /\ queue[user] \in SUBSET Batch
           /\ client \in Client /\ replies \in Seq(Message) /\ committed \in SUBSET Batch
           /\ client.stream \in Stream /\ client.handshake \in BOOLEAN
           /\ client.pipeline \in Seq(Batch) /\ client.requests \in Seq(Message)
           /\ StreamFits(client.stream)
           /\ QueueFits(client.pipeline, queue[user])
           /\ WireFits(client, replies)
           /\ client.stream.idle => client.handshake /\ client.pipeline = <<>>
           /\ client.pipeline # <<>> => IsStarted(client.stream)
BY DEF IInv, TypeOK, QueueTypeOK, ClientFits, StreamServes, Client

\* Steps that leave the queue and what the server has alone.
LEMMA QueueUnchanged ==
    ASSUME IInv, UNCHANGED <<user, queue, told, committed>>
    PROVE  QueueTypeOK' /\ Written' /\ SuccessIsTrue' /\ queue'[user'] = queue[user]
<1>1. QueueTypeOK /\ Written /\ SuccessIsTrue
  BY DEF IInv, TypeOK
<1>2. QueueTypeOK'
  BY <1>1 DEF QueueTypeOK
<1>3. Written'
  BY <1>1 DEF Written
<1>4. SuccessIsTrue'
  BY <1>1 DEF SuccessIsTrue
<1> QED BY <1>2, <1>3, <1>4

\* A client that fits completes the invariant.
LEMMA Completes ==
    ASSUME QueueTypeOK', Written', SuccessIsTrue', committed' \in SUBSET Batch,
           replies' \in Seq(Message), verdict' \in {"none", "refused"},
           ClientFits(client', queue'[user'], replies'),
           verdict' = "refused" => client'.requests # <<>>,
           RepliesAreCommitted'
    PROVE  IInv'
<1>1. client' \in Client /\ Len(client'.pipeline) <= kMaxPendingWrites
  BY DEF ClientFits, QueueFits
<1>2. TypeOK'
  BY <1>1 DEF TypeOK, Client
<1>3. ClientFits(client, queue[user], replies)'
  BY DEF ClientFits, StreamFits, CallbacksMeet, QueueFits, Begins, WireFits, StreamServes, IsStarted
<1> QED BY <1>2, <1>3 DEF IInv

\* And so does one whose stream is gone.
LEMMA CompletesGone ==
    ASSUME IInv, QueueTypeOK', Written', SuccessIsTrue', StreamIsGone,
           ClientFits(client', queue'[user'], <<>>)
    PROVE  IInv'
<1>1. replies' = <<>> /\ verdict' = "none" /\ committed' = committed /\ committed \in SUBSET Batch
  BY Given DEF StreamIsGone
<1>2. RepliesAreCommitted'
  BY <1>1 DEF RepliesAreCommitted
<1>3. replies' \in Seq(Message)
  BY <1>1, EmptySeq
<1> QED BY <1>1, <1>2, <1>3, Completes

-----------------------------------------------------------------------------
(***************************************************************************)
(* The actions.                                                            *)
(***************************************************************************)

LEMMA Initial == ASSUME Init PROVE IInv
<1>1. /\ client = NewClient /\ replies = <<>> /\ verdict = "none" /\ committed = {}
      /\ user \in User /\ queue = [u \in User |-> {}] /\ told = [b \in Batch |-> "unused"]
  BY DEF Init, QueueInit
<1>2. QueueTypeOK /\ Written /\ SuccessIsTrue
  BY <1>1 DEF QueueTypeOK, Knowledge, Written, SuccessIsTrue
<1>3. <<>> \in Seq(Batch) /\ <<>> \in Seq(Message) /\ Len(<<>>) = 0
  BY EmptySeq
<1>4. /\ client \in Client /\ client.stream = NewStream /\ client.pipeline = <<>>
      /\ ~client.handshake /\ client.requests = <<>>
  BY <1>1, <1>3, NewFits DEF NewClient, Client
<1>5. QueueFits(<<>>, queue[user])
  BY <1>1, <1>3, PipelineAssumption DEF QueueFits, Begins, Increasing, Range
<1>6. ClientFits(client, queue[user], replies)
  BY <1>1, <1>4, <1>5, NewFits, NothingOnTheWire DEF ClientFits, StreamServes
<1>7. TypeOK
  BY <1>1, <1>2, <1>3, <1>4, PipelineAssumption DEF TypeOK, Client
<1> QED BY <1>1, <1>2, <1>6, <1>7 DEF IInv, RepliesAreCommitted

LEMMA WriteMutationsFits == ASSUME IInv, NEW b \in Batch, WriteMutations(b) PROVE IInv'
<1> DEFINE q == queue[user] \cup {b}
<1>1. /\ Enqueue(b) /\ client' \in FillWritePipeline(client, q)
      /\ replies' = replies /\ verdict' = verdict /\ committed' = committed
  BY DEF WriteMutations
<1>2. /\ QueueTypeOK' /\ Written' /\ SuccessIsTrue'
      /\ user' = user /\ queue'[user] = q /\ \A x \in queue[user] : x < b
  BY <1>1, EnqueueFits
<1>3. Begins(client.pipeline, q) /\ Len(client.pipeline) <= kMaxPendingWrites
  BY <1>2, Given, GrownFits DEF QueueFits
<1>4. q \in SUBSET Batch /\ q # {}
  BY Given
<1> HIDE DEF q
<1>5. ClientFits(client', q, replies) /\ (client.requests # <<>> => client'.requests # <<>>)
  BY <1>1, <1>3, <1>4, Given, FillFits
<1>6. RepliesAreCommitted' /\ verdict \in {"none", "refused"}
      /\ (verdict = "refused" => client.requests # <<>>)
  BY <1>1 DEF IInv, TypeOK, RepliesAreCommitted
<1> QED BY <1>1, <1>2, <1>5, <1>6, Given, Completes

\* Steps of the stream alone: the wire, the pipeline and the queue stay.
LEMMA StreamSteps ==
    ASSUME IInv, NEW s \in Stream, StreamFits(s),
           s.state = client.stream.state \/ "Open" \notin {s.state, client.stream.state},
           IsStarted(client.stream) => IsStarted(s), s.idle => client.stream.idle,
           client' = [client EXCEPT !.stream = s],
           UNCHANGED <<queueVars, replies, verdict, committed>>
    PROVE  IInv'
<1>1. /\ client' \in Client /\ client'.stream = s /\ client'.handshake = client.handshake
      /\ client'.pipeline = client.pipeline /\ client'.requests = client.requests
  BY Given DEF Client
<1>2. WireFits(client', replies)
  BY <1>1, Given DEF WireFits
<1>3. ClientFits(client', queue[user], replies)
  BY <1>1, <1>2, Given DEF ClientFits, StreamServes
<1>4. QueueTypeOK' /\ Written' /\ SuccessIsTrue' /\ queue'[user'] = queue[user]
  BY QueueUnchanged DEF queueVars
<1>5. RepliesAreCommitted' /\ verdict \in {"none", "refused"}
      /\ (verdict = "refused" => client.requests # <<>>)
  BY DEF IInv, TypeOK, RepliesAreCommitted
<1> QED BY <1>1, <1>3, <1>4, <1>5, Given, Completes

LEMMA TokenArrivesFits ==
    ASSUME IInv, NEW t \in {"current", "stale"}, TokenArrives(t) PROVE IInv'
<1> DEFINE r == TokenTaken(client.stream, t)
<1>1. t \in client.stream.tokens
  BY DEF TokenArrives
<1>2. /\ r \in Stream /\ StreamFits(r) /\ r.state = client.stream.state /\ r.idle = client.stream.idle
      /\ t = "current" =>
            /\ GrpcStarted(r) \in Stream /\ StreamFits(GrpcStarted(r))
            /\ GrpcStarted(r).state = "Starting" /\ client.stream.state = "Starting"
            /\ GrpcStarted(r).idle = client.stream.idle
  BY <1>1, Given, TokenFits
<1> HIDE DEF r
<1>3. CASE t = "current"
  <2>1. client' = [client EXCEPT !.stream = GrpcStarted(r)]
    BY <1>3, Given DEF TokenArrives, Client, r
  <2>2. UNCHANGED <<queueVars, replies, verdict, committed>>
    BY DEF TokenArrives
  <2>3. IsStarted(GrpcStarted(r))
    BY <1>2, <1>3 DEF IsStarted
  <2> QED BY <1>2, <1>3, <2>1, <2>2, <2>3, StreamSteps
<1>4. CASE t # "current"
  <2>1. client' = [client EXCEPT !.stream = r] /\ UNCHANGED <<queueVars, replies, verdict, committed>>
    BY <1>4 DEF TokenArrives, r
  <2>2. IsStarted(client.stream) => IsStarted(r)
    BY <1>2 DEF IsStarted
  <2> QED BY <1>2, <2>1, <2>2, StreamSteps
<1> QED BY <1>3, <1>4

LEMMA BackoffTimerFits == ASSUME IInv, BackoffTimer PROVE IInv'
<1> DEFINE s == BackoffElapsed(client.stream)
<1>1. s \in Stream /\ StreamFits(s) /\ s.state = "Starting" /\ ~s.idle /\ client.stream.state = "Backoff"
  BY Given, BackoffFits DEF BackoffTimer
<1>2. client' = [client EXCEPT !.stream = s] /\ UNCHANGED <<queueVars, replies, verdict, committed>>
  BY DEF BackoffTimer
<1> HIDE DEF s
<1>3. IsStarted(s)
  BY <1>1 DEF IsStarted
<1> QED BY <1>1, <1>2, <1>3, StreamSteps

\* A stream that has not opened has nothing on its wire.
LEMMA WireIsEmpty ==
    ASSUME IInv, client.stream.state # "Open"
    PROVE  ~client.handshake /\ replies = <<>> /\ client.requests = <<>> /\ verdict # "refused"
<1>1. ~client.handshake /\ replies \o client.requests = <<>>
  BY Given DEF WireFits
<1>2. replies = <<>> /\ client.requests = <<>>
  BY <1>1, Given, ConcatEqualIffEmpty
<1> QED BY <1>1, <1>2 DEF IInv

LEMMA TokenFailsFits == ASSUME IInv, TokenFails PROVE IInv'
<1> DEFINE r == TokenTaken(client.stream, "current")
           s == Close(r, FALSE)
<1>1. r \in Stream /\ client.stream.state = "Starting"
  BY Given, TokenFits DEF TokenFails
<1> HIDE DEF r
<1>2. s \in Stream /\ ~IsStarted(s) /\ StreamFits(s) /\ ~s.idle
  BY <1>1, StreamTypes DEF Close
<1>3. client' = StartIfNeeded(Closed(client, s)) /\ UNCHANGED <<queueVars, replies, verdict, committed>>
  BY DEF TokenFails, r
<1> HIDE DEF s
<1>4. replies = <<>> /\ verdict # "refused"
  BY <1>1, WireIsEmpty
<1>5. ClientFits(client', queue[user], replies)
  BY <1>2, <1>3, <1>4, Given, ClosedFits, StartIfNeededFits
<1>6. QueueTypeOK' /\ Written' /\ SuccessIsTrue' /\ queue'[user'] = queue[user]
  BY <1>3, QueueUnchanged DEF queueVars
<1>7. RepliesAreCommitted' /\ verdict \in {"none", "refused"}
  BY <1>3 DEF IInv, TypeOK, RepliesAreCommitted
<1> QED BY <1>3, <1>4, <1>5, <1>6, <1>7, Given, Completes

\* The greeting is alone on the wire.
LEMMA StreamOpensFits == ASSUME IInv, StreamOpens PROVE IInv'
<1> DEFINE o == OnStreamStart(client.stream)
           s == Send(o)
<1>1. /\ client.stream.grpc /\ client.stream.state = "Starting"
      /\ client' = [client EXCEPT !.stream = s, !.requests = Append(client.requests, Hello)]
      /\ UNCHANGED <<queueVars, replies, verdict, committed>>
  BY Given DEF StreamOpens, Client
<1>2. o \in Stream /\ StreamFits(o) /\ o.state = "Open"
  BY <1>1, Given, OpenFits
<1> HIDE DEF o
<1>3. s \in Stream /\ StreamFits(s) /\ s.state = "Open" /\ ~s.idle
  BY <1>2, SendFits
<1> HIDE DEF s
<1>4. ~client.handshake /\ replies = <<>> /\ client.requests = <<>> /\ verdict # "refused"
  BY <1>1, WireIsEmpty
<1>5. Append(client.requests, Hello) = <<Hello>> /\ <<Hello>> \in Seq(Message)
  BY <1>4 DEF Message
<1>6. /\ client' \in Client /\ client'.stream = s /\ ~client'.handshake
      /\ client'.pipeline = client.pipeline /\ client'.requests = <<Hello>>
  BY <1>1, <1>3, <1>4, <1>5, Given DEF Client
<1>7. replies \o client'.requests = <<Hello>>
  BY <1>4, <1>5, <1>6, ConcatEmptySeq
<1>8. WireFits(client', replies)
  BY <1>3, <1>6, <1>7 DEF WireFits
<1>9. ClientFits(client', queue[user], replies)
  BY <1>3, <1>6, <1>8, Given DEF ClientFits, StreamServes, IsStarted
<1>10. QueueTypeOK' /\ Written' /\ SuccessIsTrue' /\ queue'[user'] = queue[user]
  BY <1>1, QueueUnchanged DEF queueVars
<1>11. RepliesAreCommitted' /\ verdict \in {"none", "refused"}
  BY <1>1 DEF IInv, TypeOK, RepliesAreCommitted
<1> QED BY <1>1, <1>4, <1>9, <1>10, <1>11, Given, Completes

\* What is left of the replies has been committed.
LEMMA RestIsCommitted ==
    ASSUME IInv, replies # <<>>, replies' = Tail(replies), UNCHANGED committed
    PROVE  RepliesAreCommitted'
<1>1. /\ replies' \in Seq(Message) /\ Len(replies') = Len(replies) - 1 /\ Len(replies) \in Nat
      /\ \A i \in 1..Len(replies') : replies'[i] = replies[i + 1]
  BY Given, HeadTailProperties, LenProperties
<1>2. DOMAIN replies' = 1..Len(replies') /\ DOMAIN replies = 1..Len(replies)
  BY <1>1, Given, LenProperties
<1>3. \A i \in 1..Len(replies) : replies[i] \in Batch => replies[i] \in committed
  BY <1>2 DEF IInv, RepliesAreCommitted
<1>4. ASSUME NEW i \in 1..Len(replies'), replies'[i] \in Batch PROVE replies'[i] \in committed
  <2>1. i + 1 \in 1..Len(replies)
    BY <1>1
  <2> QED BY <1>1, <1>3, <1>4, <2>1
<1> QED BY <1>2, <1>4 DEF RepliesAreCommitted

\* After the answer to the greeting the pipeline is on the wire ...
LEMMA HandshakeFits == ASSUME IInv, ResponseArrives, ~client.handshake PROVE IInv'
<1> DEFINE s == IF client.pipeline = <<>> THEN client.stream ELSE Send(client.stream)
           w == client.requests \o client.pipeline
<1>1. /\ replies # <<>> /\ replies' = Tail(replies)
      /\ client' = [client EXCEPT !.handshake = TRUE, !.requests = w, !.stream = s]
      /\ UNCHANGED <<queueVars, verdict, committed>>
  BY Given DEF ResponseArrives, Client
<1>2. client.stream.state = "Open" /\ replies \o client.requests = <<Hello>>
  <2>1. replies \o client.requests # <<>>
    BY <1>1, Given, ReplyTaken
  <2> QED BY <2>1, Given DEF WireFits
<1>3. replies' \in Seq(Message) /\ replies' \o client.requests = <<>>
  <2>1. Tail(replies \o client.requests) = replies' \o client.requests /\ replies' \in Seq(Message)
    BY <1>1, Given, ReplyTaken
  <2>2. Tail(<<Hello>>) = <<>>
    OBVIOUS
  <2> QED BY <1>2, <2>1, <2>2
<1>4. replies' = <<>> /\ client.requests = <<>>
  BY <1>3, Given, ConcatEqualIffEmpty
<1>5. client.pipeline \in Seq(Message)
  BY Given, BatchesAreNumbers, SeqMonotonic
<1>6. w = client.pipeline /\ replies' \o w = client.pipeline
  BY <1>4, <1>5, ConcatEmptySeq
<1>7. s \in Stream /\ StreamFits(s) /\ s.state = "Open" /\ ~s.idle
  <2>1. ~client.stream.idle
    BY Given
  <2> QED BY <1>2, <2>1, Given, SendFits
<1> HIDE DEF s, w
<1>8. /\ client' \in Client /\ client'.stream = s /\ client'.handshake
      /\ client'.pipeline = client.pipeline /\ client'.requests = w
  BY <1>1, <1>5, <1>6, <1>7, Given DEF Client
<1>9. WireFits(client', replies')
  BY <1>6, <1>7, <1>8 DEF WireFits
<1>10. ClientFits(client', queue[user], replies')
  BY <1>7, <1>8, <1>9, Given DEF ClientFits, StreamServes, IsStarted
<1>11. QueueTypeOK' /\ Written' /\ SuccessIsTrue' /\ queue'[user'] = queue[user]
  BY <1>1, QueueUnchanged DEF queueVars
<1>12. verdict = "none"
  BY <1>4 DEF IInv, TypeOK
<1>13. RepliesAreCommitted'
  BY <1>1, RestIsCommitted
<1> QED BY <1>1, <1>3, <1>10, <1>11, <1>12, <1>13, Given, Completes

\* ... so that every later reply is that of its head, which has been committed.
LEMMA ResultIsOfTheHead ==
    ASSUME IInv, client.handshake, replies # <<>>
    PROVE  /\ client.stream.state = "Open"
           /\ client.pipeline # <<>> /\ Head(client.pipeline) \in committed
           /\ Tail(replies) \in Seq(Message)
           /\ Tail(replies) \o client.requests = Tail(client.pipeline)
<1>1. client.stream.state = "Open" /\ replies \o client.requests = client.pipeline
  BY Given DEF WireFits
<1>2. /\ Tail(replies) \in Seq(Message)
      /\ client.pipeline # <<>> /\ Head(client.pipeline) = Head(replies)
      /\ Tail(client.pipeline) = Tail(replies) \o client.requests
  BY <1>1, Given, ReplyTaken
<1>3. Head(client.pipeline) \in Batch
  BY <1>2, Given, HeadTailProperties
<1>4. Head(replies) = replies[1] /\ 1 \in DOMAIN replies
  BY Given, EmptySeq, LenProperties
<1>5. Head(client.pipeline) \in committed
  BY <1>2, <1>3, <1>4 DEF IInv, RepliesAreCommitted
<1> QED BY <1>1, <1>2, <1>5

LEMMA ResultFits == ASSUME IInv, ResponseArrives, client.handshake PROVE IInv'
<1> DEFINE b == Head(client.pipeline)
           c == Popped(client)
           q == queue[user] \ {b}
           t == Tail(replies)
<1>1. /\ replies # <<>> /\ replies' = t /\ verdict' = verdict /\ committed' = committed
      /\ Settle(b, "ok") /\ client' \in FillWritePipeline(c, q)
  BY DEF ResponseArrives
<1>2. /\ client.stream.state = "Open" /\ client.pipeline # <<>> /\ b \in committed
      /\ t \in Seq(Message) /\ t \o client.requests = Tail(client.pipeline)
  BY <1>1, ResultIsOfTheHead
<1>3. /\ b \in queue[user] /\ Tail(client.pipeline) \in Seq(Batch)
      /\ Len(Tail(client.pipeline)) <= kMaxPendingWrites
      /\ Begins(Tail(client.pipeline), q)
  BY <1>2, Given, PoppedFits
<1>4. b \in Batch /\ q \in SUBSET Batch
  BY <1>3, Given
<1> HIDE DEF b, q, t
<1>5. /\ c \in Client /\ c.stream = client.stream /\ c.handshake
      /\ c.pipeline = Tail(client.pipeline) /\ c.requests = client.requests
  BY <1>3, Given DEF Popped, Client
<1> HIDE DEF c
<1>6. WireFits(c, t)
  BY <1>2, <1>5 DEF WireFits
<1>7. ~c.stream.idle
  BY <1>2, <1>5, Given
<1>8. ClientFits(client', q, t) /\ (client.requests # <<>> => client'.requests # <<>>)
  BY <1>1, <1>2, <1>3, <1>4, <1>5, <1>6, <1>7, Given, FillFits
<1>9. QueueTypeOK' /\ Written' /\ SuccessIsTrue' /\ user' = user /\ queue'[user] = q
  BY <1>1, <1>2, <1>4, SettleFits DEF q
<1>10. RepliesAreCommitted'
  BY <1>1, RestIsCommitted DEF t
<1>11. verdict \in {"none", "refused"} /\ (verdict = "refused" => client.requests # <<>>)
  BY DEF IInv, TypeOK
<1> QED BY <1>1, <1>2, <1>8, <1>9, <1>10, <1>11, Given, Completes

\* A refused head leaves the queue with the stream, any other error just closes it.
LEMMA CloseFits ==
    ASSUME IInv, NEW permanent \in BOOLEAN, OnWriteStreamClose(permanent), StreamIsGone
    PROVE  IInv'
<1> DEFINE s == Close(client.stream, FALSE)
           refused == permanent /\ client.handshake /\ client.pipeline # <<>>
<1>1. s \in Stream /\ ~IsStarted(s) /\ StreamFits(s) /\ ~s.idle
  BY Given, StreamTypes DEF Close
<1>2. committed' = committed
  BY DEF StreamIsGone
<1>3. CASE refused
  <2> DEFINE b == Head(client.pipeline)
             i == InhibitBackoff(s)
             d == Closed(client, i)
             c == Popped(d)
             q == queue[user] \ {b}
  <2>1. Settle(b, "failed") /\ client' \in FillWritePipeline(c, q)
    BY <1>3 DEF OnWriteStreamClose
  <2>2. i \in Stream /\ StreamFits(i) /\ ~IsStarted(i) /\ ~i.idle
    BY Given, InhibitFits
  <2> HIDE DEF i
  <2>3. /\ d \in Client /\ d.stream = i /\ d.pipeline = client.pipeline
        /\ ~d.handshake /\ d.requests = <<>>
    BY <2>2, Given, ClosedFits
  <2> HIDE DEF d
  <2>4. /\ b \in queue[user] /\ Tail(client.pipeline) \in Seq(Batch)
        /\ Len(Tail(client.pipeline)) <= kMaxPendingWrites
        /\ Begins(Tail(client.pipeline), q)
    BY <1>3, Given, PoppedFits
  <2>5. b \in Batch /\ q \in SUBSET Batch
    BY <2>4, Given
  <2> HIDE DEF b, q
  <2>6. /\ c \in Client /\ c.stream = i /\ ~c.handshake /\ c.requests = <<>>
        /\ c.pipeline = Tail(client.pipeline)
    BY <2>3, <2>4 DEF Popped, Client
  <2> HIDE DEF c
  <2>7. WireFits(c, <<>>) /\ c.stream.state # "Open" /\ ~c.stream.idle
    BY <2>2, <2>6, NothingOnTheWire DEF IsStarted
  <2>8. <<>> \in Seq(Message)
    BY EmptySeq
  <2>9. ClientFits(client', q, <<>>)
    BY <2>1, <2>2, <2>4, <2>5, <2>6, <2>7, <2>8, FillFits
  <2>10. QueueTypeOK' /\ Written' /\ SuccessIsTrue' /\ user' = user /\ queue'[user] = q
    BY <1>2, <2>1, <2>5, SettleFits DEF q
  <2> QED BY <2>9, <2>10, CompletesGone
<1>4. CASE ~refused
  <2>1. client' = StartIfNeeded(Closed(client, s)) /\ UNCHANGED queueVars
    BY <1>4 DEF OnWriteStreamClose
  <2> HIDE DEF s
  <2>2. ClientFits(client', queue[user], <<>>)
    BY <1>1, <2>1, Given, ClosedFits, StartIfNeededFits
  <2>3. QueueTypeOK' /\ Written' /\ SuccessIsTrue' /\ queue'[user'] = queue[user]
    BY <1>2, <2>1, QueueUnchanged DEF queueVars
  <2> QED BY <2>2, <2>3, CompletesGone
<1> QED BY <1>3, <1>4

LEMMA IdleTimerFits == ASSUME IInv, IdleTimer PROVE IInv'
<1> DEFINE s == Close(client.stream, TRUE)
<1>1. s \in Stream /\ ~IsStarted(s) /\ StreamFits(s) /\ ~s.idle
  BY Given, StreamTypes DEF Close
<1>2. /\ client.stream.idle /\ client' = Closed(client, s) /\ StreamIsGone
      /\ UNCHANGED queueVars /\ UNCHANGED committed
  BY DEF IdleTimer, StreamIsGone
<1> HIDE DEF s
<1>3. client.pipeline = <<>>
  BY <1>2, Given
<1>4. ClientFits(client', queue[user], <<>>)
  BY <1>1, <1>2, <1>3, Given, ClosedFits DEF ClientFits, StreamServes
<1>5. QueueTypeOK' /\ Written' /\ SuccessIsTrue' /\ queue'[user'] = queue[user]
  BY <1>2, QueueUnchanged DEF queueVars
<1> QED BY <1>2, <1>4, <1>5, CompletesGone

\* A client that starts over takes up the beginning of the queue.
LEMMA StartsOver ==
    ASSUME NEW c \in Client, NEW q \in SUBSET Batch, StreamFits(c.stream), ~IsStarted(c.stream),
           ~c.stream.idle, ~c.handshake, c.requests = <<>>, c.pipeline = <<>>,
           NEW f \in FillWritePipeline(c, q)
    PROVE  ClientFits(f, q, <<>>)
<1>1. <<>> \in Seq(Message) /\ Len(<<>>) = 0 /\ Begins(<<>>, q)
  BY EmptySeq DEF Begins, Increasing, Range
<1>2. Len(c.pipeline) <= kMaxPendingWrites
  BY <1>1, PipelineAssumption
<1>3. WireFits(c, <<>>) /\ c.stream.state # "Open"
  BY NothingOnTheWire DEF IsStarted
<1> QED BY <1>1, <1>2, <1>3, FillFits

LEMMA HandleCredentialChangeFits ==
    ASSUME IInv, NEW u \in User, HandleCredentialChange(u) PROVE IInv'
<1> DEFINE s == Stop(client.stream)
           d == Closed(client, s)
           c == [d EXCEPT !.pipeline = <<>>]
<1>1. /\ user' = u /\ queue' = queue /\ told' = told /\ StreamIsGone /\ committed' = committed
      /\ client' \in FillWritePipeline(c, queue[u])
  BY DEF HandleCredentialChange, SignIn, StreamIsGone
<1>2. s \in Stream /\ StreamFits(s) /\ ~IsStarted(s) /\ ~s.idle
  BY Given, StopFits
<1> HIDE DEF s
<1>3. d \in Client /\ d.stream = s /\ ~d.handshake /\ d.requests = <<>>
  BY <1>2, Given, ClosedFits
<1> HIDE DEF d
<1>4. <<>> \in Seq(Batch)
  BY EmptySeq
<1>5. /\ c \in Client /\ c.stream = s /\ ~c.handshake /\ c.requests = <<>> /\ c.pipeline = <<>>
  BY <1>3, <1>4 DEF Client
<1> HIDE DEF c
<1>6. queue[u] \in SUBSET Batch
  BY Given DEF QueueTypeOK
<1>7. ClientFits(client', queue[u], <<>>)
  BY <1>1, <1>2, <1>5, <1>6, StartsOver
<1>8. QueueTypeOK' /\ Written' /\ SuccessIsTrue'
  BY <1>1 DEF IInv, TypeOK, QueueTypeOK, Written, SuccessIsTrue
<1> QED BY <1>1, <1>7, <1>8, CompletesGone

LEMMA RestartFits == ASSUME IInv, Restart PROVE IInv'
<1>1. /\ user' = user /\ queue' = queue /\ StreamIsGone /\ committed' = committed
      /\ told' = [b \in Batch |-> IF told[b] = "pending" THEN "forgotten" ELSE told[b]]
      /\ client' \in FillWritePipeline(NewClient, queue[user])
  BY DEF Restart, Forget, StreamIsGone
<1>2. <<>> \in Seq(Batch) /\ <<>> \in Seq(Message)
  BY EmptySeq
<1>3. /\ NewClient \in Client /\ NewClient.stream = NewStream /\ ~NewClient.handshake
      /\ NewClient.requests = <<>> /\ NewClient.pipeline = <<>>
  BY <1>2, NewFits DEF NewClient, Client
<1>4. ClientFits(client', queue[user], <<>>)
  BY <1>1, <1>3, NewFits, Given, StartsOver
<1>5. /\ QueueTypeOK /\ Written /\ SuccessIsTrue
  BY DEF IInv, TypeOK
<1>6. \A b \in Batch : told'[b] = IF told[b] = "pending" THEN "forgotten" ELSE told[b]
  BY <1>1
<1>7. QueueTypeOK'
  BY <1>1, <1>5 DEF QueueTypeOK, Knowledge
<1>8. Written'
  BY <1>1, <1>5, <1>6 DEF Written, QueueTypeOK
<1>9. SuccessIsTrue'
  BY <1>1, <1>5, <1>6 DEF SuccessIsTrue
<1> QED BY <1>1, <1>4, <1>7, <1>8, <1>9, CompletesGone

\* The server turns a request into a reply, in its place on the wire.
LEMMA AcceptFits == ASSUME IInv, Accept PROVE IInv'
<1> DEFINE m == Head(client.requests)
           w == Tail(client.requests)
           r == Append(replies, m)
<1>1. /\ client.requests # <<>> /\ verdict = "none" /\ replies' = r
      /\ client' = [client EXCEPT !.requests = w]
      /\ committed' = committed \cup ({m} \cap Batch)
      /\ UNCHANGED <<user, queue, told>> /\ verdict' = verdict
  BY DEF Accept, queueVars
<1>2. m \in Message /\ w \in Seq(Message) /\ r \in Seq(Message) /\ r \o w = replies \o client.requests
  BY <1>1, Given, RequestAnswered
<1>3. /\ Len(r) = Len(replies) + 1 /\ r[Len(replies) + 1] = m
      /\ \A i \in 1..Len(replies) : r[i] = replies[i]
  BY <1>2, Given, AppendProperties
<1>4. DOMAIN r = 1..Len(r) /\ DOMAIN replies = 1..Len(replies) /\ Len(replies) \in Nat
  BY <1>2, Given, LenProperties
<1> HIDE DEF m, w, r
<1>5. /\ client' \in Client /\ client'.stream = client.stream
      /\ client'.handshake = client.handshake
      /\ client'.pipeline = client.pipeline /\ client'.requests = w
  BY <1>1, <1>2, Given DEF Client
<1>6. WireFits(client', r)
  BY <1>2, <1>5, Given DEF WireFits
<1>7. ClientFits(client', queue[user], r)
  BY <1>5, <1>6, Given DEF ClientFits, StreamServes
<1>8. RepliesAreCommitted'
  <2>1. \A i \in 1..Len(replies) : replies[i] \in Batch => replies[i] \in committed
    BY <1>4 DEF IInv, RepliesAreCommitted
  <2>2. ASSUME NEW i \in 1..Len(r), r[i] \in Batch PROVE r[i] \in committed'
    <3>1. i \in 1..Len(replies) \/ i = Len(replies) + 1
      BY <1>3, <1>4
    <3> QED BY <1>1, <1>3, <2>1, <2>2, <3>1
  <2> QED BY <1>1, <1>4, <2>2 DEF RepliesAreCommitted
<1>9. QueueTypeOK' /\ Written'
  BY <1>1 DEF IInv, TypeOK, QueueTypeOK, Written
<1>10. SuccessIsTrue'
  BY <1>1 DEF IInv, SuccessIsTrue
<1>11. committed' \in SUBSET Batch
  BY <1>1, Given
<1> QED BY <1>1, <1>2, <1>7, <1>8, <1>9, <1>10, <1>11, Completes

LEMMA RefuseFits == ASSUME IInv, Refuse PROVE IInv'
<1>1. /\ client.requests # <<>> /\ verdict' = "refused" /\ client' = client /\ replies' = replies
      /\ UNCHANGED <<user, queue, told, committed>>
  BY DEF Refuse, queueVars
<1>2. ClientFits(client', queue[user], replies)
  BY <1>1 DEF IInv
<1>3. QueueTypeOK' /\ Written' /\ SuccessIsTrue' /\ queue'[user'] = queue[user]
  BY <1>1, QueueUnchanged
<1>4. RepliesAreCommitted'
  BY <1>1 DEF IInv, RepliesAreCommitted
<1> QED BY <1>1, <1>2, <1>3, <1>4, Given, Completes

LEMMA Inductive == IInv /\ [Next]_vars => IInv'
<1> SUFFICES ASSUME IInv, [Next]_vars PROVE IInv'
  OBVIOUS
<1>1. ASSUME NEW b \in Batch, WriteMutations(b) PROVE IInv'
  BY <1>1, WriteMutationsFits
<1>2. CASE TokenFails
  BY <1>2, TokenFailsFits
<1>3. ASSUME NEW t \in {"current", "stale"}, TokenArrives(t) PROVE IInv'
  BY <1>3, TokenArrivesFits
<1>4. CASE StreamOpens
  BY <1>4, StreamOpensFits
<1>5. CASE BackoffTimer
  BY <1>5, BackoffTimerFits
<1>6. CASE IdleTimer
  BY <1>6, IdleTimerFits
<1>7. CASE ResponseArrives
  BY <1>7, HandshakeFits, ResultFits
<1>8. CASE RefusalArrives
  BY <1>8, CloseFits DEF RefusalArrives
<1>9. CASE StreamFails
  BY <1>9, CloseFits DEF StreamFails
<1>10. ASSUME NEW u \in User, HandleCredentialChange(u) PROVE IInv'
  BY <1>10, HandleCredentialChangeFits
<1>11. CASE Restart
  BY <1>11, RestartFits
<1>12. CASE Accept
  BY <1>12, AcceptFits
<1>13. CASE Refuse
  BY <1>13, RefuseFits
<1>14. CASE UNCHANGED vars
  <2>1. UNCHANGED <<user, queue, told, client, replies, verdict, committed>>
    BY <1>14 DEF vars, queueVars, netVars
  <2>2. QueueTypeOK' /\ Written' /\ SuccessIsTrue' /\ queue'[user'] = queue[user]
    BY <2>1, QueueUnchanged
  <2>3. /\ RepliesAreCommitted' /\ ClientFits(client, queue[user], replies)
        /\ verdict' \in {"none", "refused"} /\ (verdict' = "refused" => client'.requests # <<>>)
    BY <2>1 DEF IInv, TypeOK, RepliesAreCommitted
  <2> QED BY <2>1, <2>2, <2>3, Given, Completes
<1> QED
  BY <1>1, <1>2, <1>3, <1>4, <1>5, <1>6, <1>7, <1>8, <1>9, <1>10, <1>11, <1>12, <1>13, <1>14
  DEF Next

LEMMA Invariance == Spec => []IInv
<1> QED BY Initial, Inductive, PTL DEF Spec

-----------------------------------------------------------------------------

\* TypeOK: the queue, the client, the wire and the server keep their types
\* (remote_store.cc, write_stream.cc, local_store.cc).
THEOREM PipelineTypeCorrect == Spec => []TypeOK
<1>1. IInv => TypeOK
  BY DEF IInv
<1> QED BY <1>1, Invariance, PTL

\* PipelineIsTheQueue: no write is skipped, sent out of order, sent for another
\* user or left behind while there is room (remote_store.cc, FillWritePipeline).
THEOREM PipelineMirrorsQueue == Spec => []PipelineIsTheQueue
<1>1. ASSUME IInv PROVE PipelineIsTheQueue
  <2> DEFINE p == client.pipeline
             q == queue[user]
  <2>1. p \in Seq(Batch) /\ QueueFits(p, q)
    BY <1>1, Given
  <2>2. Len(p) \in Nat /\ DOMAIN p = 1..Len(p)
    BY <2>1, LenProperties
  <2>3. ASSUME NEW i \in 1..(Len(p) - 1) PROVE p[i] < p[i + 1]
    <3>1. i \in 1..Len(p) /\ i + 1 \in 1..Len(p) /\ i < i + 1
      BY <2>2
    <3> QED BY <2>1, <2>2, <3>1 DEF QueueFits, Begins, Increasing
  <2>4. ASSUME NEW b \in q \ Range(p) PROVE Len(p) = kMaxPendingWrites /\ b > Last(p)
    <3>1. Len(p) = kMaxPendingWrites
      BY <2>1 DEF QueueFits
    <3>2. p # <<>>
      BY <3>1, EmptySeq, PipelineAssumption
    <3> QED BY <2>1, <3>1, <3>2 DEF QueueFits, Begins
  <2>5. Range(p) \subseteq q
    BY <2>1 DEF QueueFits, Begins
  <2> QED BY <2>3, <2>4, <2>5 DEF PipelineIsTheQueue, Pipeline
<1> QED BY <1>1, Invariance, PTL

\* WireIsThePipeline: once the handshake is done, the replies and requests of the
\* stream are the pipeline in its order (remote_store.cc, OnWriteStreamMutationResult).
THEOREM WireMirrorsPipeline == Spec => []WireIsThePipeline
<1>1. ASSUME IInv PROVE WireIsThePipeline
  <2>1. CASE client.handshake
    BY <1>1, <2>1, Given DEF WireFits, WireIsThePipeline, Pipeline
  <2>2. CASE ~client.handshake
    <3>1. replies \o client.requests \in {<<Hello>>, <<>>}
      BY <1>1, <2>2, Given DEF WireFits
    <3>2. Range(<<Hello>>) = {Hello} /\ Range(<<>>) = {}
      BY DEF Range
    <3> QED BY <2>2, <3>1, <3>2 DEF WireIsThePipeline
  <2> QED BY <2>1, <2>2
<1> QED BY <1>1, Invariance, PTL

\* SuccessIsTrue: a write that is reported as stored is stored (remote_store.cc,
\* OnWriteStreamMutationResult; sync_engine.cc, HandleSuccessfulWrite).
THEOREM SuccessIsReliable == Spec => []SuccessIsTrue
<1>1. IInv => SuccessIsTrue
  BY DEF IInv
<1> QED BY <1>1, Invariance, PTL

\* The HARD_ASSERTs of stream.cc and remote_store.cc about the write stream:
\* callbacks meet the stream they belong to, it is idle only while no write
\* waits, and no write waits without a stream.
THEOREM WriteAssertionsHold == Spec => [](CallbacksMeet(client.stream) /\ StreamServes(client))
<1>1. IInv => CallbacksMeet(client.stream) /\ StreamServes(client)
  BY DEF IInv, ClientFits, StreamFits
<1> QED BY <1>1, Invariance, PTL

(***************************************************************************)
(* What the steps do to the queue: a write is answered when it is the      *)
(* oldest, and it fails when the server has refused what is sent first.    *)
(***************************************************************************)
Fails(b) ==
    /\ IsOldest(b) /\ Settle(b, "failed")
    /\ verdict = "refused" /\ (replies = <<>> => Head(client.requests) = b)

QueueMoves ==
    \/ UNCHANGED queueVars
    \/ \E b \in Batch : Enqueue(b)
    \/ \E u \in User : SignIn(u)
    \/ Forget
    \/ \E b \in Batch : IsOldest(b) /\ Settle(b, "ok")
    \/ \E b \in Batch : Fails(b)

LEMMA HeadIsOldest ==
    ASSUME IInv, client.pipeline # <<>>
    PROVE  Head(client.pipeline) \in Batch /\ IsOldest(Head(client.pipeline))
BY Given, PoppedFits DEF IsOldest

LEMMA StepsMoveTheQueue == ASSUME IInv, [Next]_vars PROVE QueueMoves
<1>1. ASSUME NEW b \in Batch, WriteMutations(b) PROVE QueueMoves
  BY <1>1 DEF WriteMutations, QueueMoves
<1>2. CASE TokenFails
  BY <1>2 DEF TokenFails, QueueMoves
<1>3. ASSUME NEW t \in {"current", "stale"}, TokenArrives(t) PROVE QueueMoves
  BY <1>3 DEF TokenArrives, QueueMoves
<1>4. CASE StreamOpens
  BY <1>4 DEF StreamOpens, QueueMoves
<1>5. CASE BackoffTimer
  BY <1>5 DEF BackoffTimer, QueueMoves
<1>6. CASE IdleTimer
  BY <1>6 DEF IdleTimer, QueueMoves
<1>7. CASE ResponseArrives
  <2>1. CASE ~client.handshake
    BY <1>7, <2>1 DEF ResponseArrives, QueueMoves
  <2>2. CASE client.handshake
    <3>1. replies # <<>> /\ Settle(Head(client.pipeline), "ok")
      BY <1>7, <2>2 DEF ResponseArrives
    <3>2. Head(client.pipeline) \in Batch /\ IsOldest(Head(client.pipeline))
      BY <2>2, <3>1, ResultIsOfTheHead, HeadIsOldest
    <3> QED BY <3>1, <3>2 DEF QueueMoves
  <2> QED BY <2>1, <2>2
<1>8. CASE RefusalArrives
  <2>1. verdict = "refused" /\ OnWriteStreamClose(TRUE)
    BY <1>8 DEF RefusalArrives
  <2>2. CASE client.handshake /\ client.pipeline # <<>>
    <3> DEFINE b == Head(client.pipeline)
    <3>1. Settle(b, "failed") /\ b \in Batch /\ IsOldest(b)
      BY <2>1, <2>2, HeadIsOldest DEF OnWriteStreamClose
    <3>2. replies = <<>> => Head(client.requests) = b
      <4>1. replies \o client.requests = client.pipeline
        BY <2>2, Given DEF WireFits
      <4>2. replies = <<>> => client.requests = client.pipeline
        BY <4>1, Given, ConcatEmptySeq
      <4> QED BY <4>2
    <3> QED BY <2>1, <3>1, <3>2 DEF QueueMoves, Fails
  <2>3. CASE ~(client.handshake /\ client.pipeline # <<>>)
    BY <2>1, <2>3 DEF OnWriteStreamClose, QueueMoves
  <2> QED BY <2>2, <2>3
<1>9. CASE StreamFails
  BY <1>9 DEF StreamFails, OnWriteStreamClose, QueueMoves
<1>10. ASSUME NEW u \in User, HandleCredentialChange(u) PROVE QueueMoves
  BY <1>10 DEF HandleCredentialChange, QueueMoves
<1>11. CASE Restart
  BY <1>11 DEF Restart, QueueMoves
<1>12. CASE Accept
  BY <1>12 DEF Accept, QueueMoves
<1>13. CASE Refuse
  BY <1>13 DEF Refuse, QueueMoves
<1>14. CASE UNCHANGED vars
  BY <1>14 DEF vars, QueueMoves
<1> QED
  BY <1>1, <1>2, <1>3, <1>4, <1>5, <1>6, <1>7, <1>8, <1>9, <1>10, <1>11, <1>12, <1>13, <1>14
  DEF Next

\* BlamesTheRefused: a write fails only when the server has refused that write,
\* unless replies were lost with the call (remote_store.cc, HandleWriteError).
THEOREM BlameIsRight == Spec => BlamesTheRefused
<1>1. ASSUME IInv, [Next]_vars, NEW b \in Batch,
             told[b] # "failed", told'[b] = "failed", replies = <<>>
      PROVE  verdict = "refused" /\ Head(client.requests) = b
  <2>1. QueueMoves
    BY <1>1, StepsMoveTheQueue
  <2>2. told \in [Batch -> Knowledge]
    BY <1>1, Given DEF QueueTypeOK
  <2>3. CASE UNCHANGED queueVars \/ \E u \in User : SignIn(u)
    BY <1>1, <2>3 DEF queueVars, SignIn
  <2>4. ASSUME NEW x \in Batch, Enqueue(x) PROVE FALSE
    BY <1>1, <2>2, <2>4 DEF Enqueue
  <2>5. CASE Forget
    BY <1>1, <2>5 DEF Forget
  <2>6. ASSUME NEW x \in Batch, Settle(x, "ok") PROVE FALSE
    BY <1>1, <2>2, <2>6 DEF Settle
  <2>7. ASSUME NEW x \in Batch, Fails(x) PROVE verdict = "refused" /\ Head(client.requests) = b
    <3>1. x = b
      BY <1>1, <2>2, <2>7 DEF Fails, Settle
    <3> QED BY <1>1, <2>7, <3>1 DEF Fails
  <2> QED BY <2>1, <2>3, <2>4, <2>5, <2>6, <2>7 DEF QueueMoves
<1>2. ASSUME IInv, [Next]_vars
      PROVE  [\A b \in Batch : told[b] # "failed" /\ told'[b] = "failed" /\ replies = <<>>
                => verdict = "refused" /\ Head(client.requests) = b]_vars
  BY <1>1, <1>2
<1> QED BY <1>2, Invariance, PTL DEF Spec, BlamesTheRefused

\* KeepsThePromise: streams, failures, users who change and restarts do nothing
\* to the queues but what WriteQueue allows (local_store.cc, sync_engine.cc).
THEOREM PromiseIsKept == Spec => KeepsThePromise
<1>1. Init => QueueInit
  BY DEF Init
<1>2. ASSUME IInv, [Next]_vars PROVE [QueueNext]_queueVars
  <2>1. QueueMoves
    BY <1>2, StepsMoveTheQueue
  <2>2. ASSUME NEW b \in Batch, IsOldest(b), NEW a \in {"ok", "failed"}, Settle(b, a) PROVE QueueNext
    BY <2>2 DEF QueueNext, Answer
  <2>3. ASSUME NEW b \in Batch, Fails(b) PROVE QueueNext
    BY <2>2, <2>3 DEF Fails
  <2>4. ASSUME NEW b \in Batch, Enqueue(b) PROVE QueueNext
    BY <2>4 DEF QueueNext
  <2> QED BY <2>1, <2>2, <2>3, <2>4 DEF QueueMoves, QueueNext
<1> QED BY <1>1, <1>2, Invariance, PTL DEF Spec, KeepsThePromise, QueueSpec

-----------------------------------------------------------------------------
(***************************************************************************)
(* What WriteQueue promises without a network, and the pipeline with it.   *)
(***************************************************************************)

\* A write is in the queue of one user while it waits, and in none before it
\* is made and after it is reported.
OnePlace ==
    /\ \A u, v \in User : u # v => queue[u] \cap queue[v] = {}
    /\ \A b \in Batch : told[b] = "pending" => \E u \in User : b \in queue[u]
    /\ \A b \in Batch : told[b] \in {"unused", "ok", "failed"} => \A u \in User : b \notin queue[u]

LEMMA OnePlaceKept ==
    ASSUME QueueTypeOK, OnePlace, [QueueNext]_queueVars
    PROVE  QueueTypeOK' /\ OnePlace'
<1>1. user \in User /\ queue \in [User -> SUBSET Batch] /\ told \in [Batch -> Knowledge]
  BY DEF QueueTypeOK
<1>2. ASSUME NEW b \in Batch, Enqueue(b) PROVE QueueTypeOK' /\ OnePlace'
  <2>1. /\ told[b] = "unused" /\ user' = user
        /\ queue' = [queue EXCEPT ![user] = @ \cup {b}]
        /\ told' = [told EXCEPT ![b] = "pending"]
    BY <1>2 DEF Enqueue, IsNext
  <2>2. /\ queue'[user] = queue[user] \cup {b}
        /\ \A u \in User \ {user} : queue'[u] = queue[u]
        /\ told'[b] = "pending" /\ \A x \in Batch \ {b} : told'[x] = told[x]
    BY <1>1, <2>1
  <2>3. QueueTypeOK'
    BY <1>1, <2>1 DEF QueueTypeOK, Knowledge
  <2>4. \A u \in User : b \notin queue[u]
    BY <2>1 DEF OnePlace
  <2>5. \A u, v \in User : u # v => queue'[u] \cap queue'[v] = {}
    BY <2>2, <2>4 DEF OnePlace
  <2>6. \A x \in Batch : told'[x] = "pending" => \E u \in User : x \in queue'[u]
    <3>1. \A x \in Batch \ {b} : told[x] = "pending" => \E u \in User : x \in queue[u]
      BY DEF OnePlace
    <3> QED BY <1>1, <2>2, <3>1
  <2>7. \A x \in Batch : told'[x] \in {"unused", "ok", "failed"} => \A u \in User : x \notin queue'[u]
    BY <1>1, <2>2 DEF OnePlace
  <2> QED BY <2>3, <2>5, <2>6, <2>7 DEF OnePlace
<1>3. ASSUME NEW b \in Batch, IsOldest(b), NEW answer \in {"ok", "failed"}, Settle(b, answer)
      PROVE  QueueTypeOK' /\ OnePlace'
  <2>1. /\ user' = user /\ b \in queue[user]
        /\ queue' = [queue EXCEPT ![user] = @ \ {b}]
        /\ told' = [told EXCEPT ![b] = IF @ = "pending" THEN answer ELSE @]
    BY <1>3 DEF IsOldest, Settle
  <2>2. /\ queue'[user] = queue[user] \ {b}
        /\ \A u \in User \ {user} : queue'[u] = queue[u]
        /\ told'[b] = (IF told[b] = "pending" THEN answer ELSE told[b])
        /\ \A x \in Batch \ {b} : told'[x] = told[x]
    BY <1>1, <2>1
  <2>3. QueueTypeOK'
    BY <1>1, <2>1 DEF QueueTypeOK, Knowledge
  <2>4. \A u \in User : b \notin queue'[u]
    BY <1>1, <2>1, <2>2 DEF OnePlace
  <2>5. \A u, v \in User : u # v => queue'[u] \cap queue'[v] = {}
    BY <2>2 DEF OnePlace
  <2>6. \A x \in Batch : told'[x] = "pending" => \E u \in User : x \in queue'[u]
    <3>1. told'[b] # "pending"
      BY <1>3, <2>2
    <3>2. \A x \in Batch \ {b}, u \in User : x \in queue[u] => x \in queue'[u]
      BY <2>2
    <3> QED BY <2>2, <3>1, <3>2 DEF OnePlace
  <2>7. \A x \in Batch : told'[x] \in {"unused", "ok", "failed"} => \A u \in User : x \notin queue'[u]
    BY <2>2, <2>4 DEF OnePlace
  <2> QED BY <2>3, <2>5, <2>6, <2>7 DEF OnePlace
<1>4. ASSUME NEW u \in User, SignIn(u) PROVE QueueTypeOK' /\ OnePlace'
  BY <1>1, <1>4 DEF SignIn, QueueTypeOK, OnePlace
<1>5. CASE Forget
  <2>1. /\ queue' = queue /\ user' = user
        /\ told' = [b \in Batch |-> IF told[b] = "pending" THEN "forgotten" ELSE told[b]]
    BY <1>5 DEF Forget
  <2>2. QueueTypeOK'
    BY <1>1, <2>1 DEF QueueTypeOK, Knowledge
  <2>3. \A b \in Batch : told'[b] # "pending"
    BY <2>1
  <2>4. \A b \in Batch : told'[b] \in {"unused", "ok", "failed"} => told[b] = told'[b]
    BY <2>1
  <2> QED BY <2>1, <2>2, <2>3, <2>4 DEF OnePlace
<1>6. CASE UNCHANGED queueVars
  BY <1>6 DEF queueVars, QueueTypeOK, OnePlace
<1> QED
  BY <1>2, <1>3, <1>4, <1>5, <1>6 DEF QueueNext, Answer

LEMMA OnePlaceAlways == QueueSpec => [](QueueTypeOK /\ OnePlace)
<1>1. ASSUME QueueInit PROVE QueueTypeOK /\ OnePlace
  BY <1>1 DEF QueueInit, QueueTypeOK, OnePlace, Knowledge
<1>2. QueueTypeOK /\ OnePlace /\ [QueueNext]_queueVars => (QueueTypeOK /\ OnePlace)'
  BY OnePlaceKept
<1> QED BY <1>1, <1>2, PTL DEF QueueSpec

\* NextMutationBatchAfterBatchId and RemoveMutationBatch (leveldb_mutation_queue.cc)
\* with HandleSuccessfulWrite and HandleRejectedWrite (sync_engine.cc): no write
\* is lost before it is reported, is queued for two users, or stays in a queue
\* to be reported again.  WriteQueue says so, and the pipeline implements it.
THEOREM WritesHaveOnePlace == Spec => []OnePlace
<1>1. QueueSpec => []OnePlace
  BY OnePlaceAlways, PTL
<1> QED BY <1>1, PromiseIsKept, PTL DEF KeepsThePromise

-----------------------------------------------------------------------------

\* The server has of each queue a beginning.
ServerHasABeginning ==
    \A u \in User : \A x, b \in queue[u] : x < b /\ b \in committed => x \in committed

CommittedIsWritten == \A b \in committed : told[b] # "unused"

OrderInv == IInv /\ OnePlace /\ CommittedIsWritten /\ ServerHasABeginning

\* Only the server commits, and it does not touch the queues.
LEMMA OnlyAcceptCommits ==
    ASSUME IInv, [Next]_vars
    PROVE  UNCHANGED committed \/ Accept
BY DEF Next, vars, netVars, WriteMutations, TokenFails, TokenArrives, StreamOpens, BackoffTimer,
       IdleTimer, StreamIsGone, ResponseArrives, RefusalArrives, StreamFails,
       HandleCredentialChange, Restart, Refuse

\* What the server takes next is the oldest write that it does not have.
LEMMA AcceptIsInOrder ==
    ASSUME IInv, Accept, Head(client.requests) \in Batch
    PROVE  LET h == Head(client.requests)
           IN  /\ h \in queue[user]
               /\ \A x \in queue[user] : x < h => x \in committed
<1> DEFINE h == Head(client.requests)
           p == client.pipeline
           n == Len(replies)
<1>1. /\ client.requests # <<>>
      /\ replies \in Seq(Message) /\ client.requests \in Seq(Message) /\ p \in Seq(Batch)
  BY Given DEF Accept
<1>2. client.handshake /\ replies \o client.requests = p
  <2>1. CASE client.handshake
    BY <2>1, Given DEF WireFits
  <2>2. CASE ~client.handshake
    <3>1. replies \o client.requests \in {<<Hello>>, <<>>}
      BY <2>2, Given DEF WireFits
    <3>2. /\ Len(replies \o client.requests) = Len(replies) + Len(client.requests)
          /\ (replies \o client.requests)[Len(replies) + 1] = h
          /\ Len(replies) \in Nat /\ Len(client.requests) \in Nat \ {0}
      BY <1>1
    <3>3. h = Hello
      <4>1. CASE replies \o client.requests = <<>>
        BY <3>2, <4>1
      <4>2. CASE replies \o client.requests = <<Hello>>
        <5>1. Len(<<Hello>>) = 1 /\ <<Hello>>[1] = Hello
          OBVIOUS
        <5>2. Len(replies) = 0
          BY <3>2, <4>2, <5>1
        <5> QED BY <3>2, <4>2, <5>1, <5>2
      <4> QED BY <3>1, <4>1, <4>2
    <3> QED BY <3>3, BatchesAreNumbers
  <2> QED BY <2>1, <2>2
<1>3. /\ n \in Nat /\ Len(p) \in Nat /\ n + 1 <= Len(p) /\ p[n + 1] = h
      /\ \A i \in 1..n : p[i] = replies[i]
  BY <1>1, <1>2
<1>4. /\ Increasing(p) /\ Range(p) \subseteq queue[user]
      /\ \A b \in queue[user] \ Range(p) : b > Last(p)
      /\ DOMAIN p = 1..Len(p) /\ Last(p) = p[Len(p)]
  BY <1>1, <1>3, Given, LenProperties DEF QueueFits, Begins, Last
<1> HIDE DEF h, p
<1>5. h \in queue[user]
  BY <1>3, <1>4 DEF Range
<1>6. \A b \in queue[user] : b \in Nat
  BY Given, BatchesAreNumbers
<1>7. ASSUME NEW x \in queue[user], x < h PROVE x \in committed
  <2>1. x \in Range(p)
    <3>1. h <= Last(p)
      <4>1. CASE n + 1 = Len(p)
        BY <1>3, <1>4, <1>5, <1>6, <4>1
      <4>2. CASE n + 1 < Len(p)
        <5>1. p[n + 1] < p[Len(p)]
          BY <1>3, <1>4, <4>2 DEF Increasing
        <5>2. p[Len(p)] \in queue[user]
          BY <1>3, <1>4 DEF Range
        <5> QED BY <1>3, <1>4, <1>5, <1>6, <5>1, <5>2
      <4> QED BY <1>3, <4>1, <4>2
    <3>2. Last(p) \in queue[user]
      BY <1>3, <1>4 DEF Range
    <3>3. ~(x > Last(p))
      BY <1>5, <1>6, <1>7, <3>1, <3>2
    <3> QED BY <1>4, <3>3
  <2>2. PICK i \in 1..Len(p) : p[i] = x
    BY <1>4, <2>1 DEF Range
  <2>3. i <= n
    <3>1. CASE i = n + 1
      BY <1>3, <1>5, <1>6, <1>7, <2>2, <3>1
    <3>2. CASE i > n + 1
      <4>1. p[n + 1] < p[i]
        BY <1>3, <1>4, <3>2 DEF Increasing
      <4> QED BY <1>3, <1>5, <1>6, <1>7, <2>2, <4>1
    <3> QED BY <1>3, <3>1, <3>2
  <2>4. x = replies[i] /\ i \in DOMAIN replies /\ x \in Batch
    BY <1>1, <1>3, <2>2, <2>3, Given, LenProperties
  <2> QED BY <2>4 DEF IInv, RepliesAreCommitted
<1> QED BY <1>5, <1>7 DEF h

\* Moving the queues leaves what the server has a beginning of each.
LEMMA QueuesKeepOrder ==
    ASSUME OrderInv, QueueMoves, UNCHANGED committed
    PROVE  CommittedIsWritten' /\ ServerHasABeginning'
<1>1. /\ user \in User /\ queue \in [User -> SUBSET Batch] /\ told \in [Batch -> Knowledge]
      /\ committed \subseteq Batch /\ Written
  BY Given DEF OrderInv, QueueTypeOK, IInv
<1>2. CASE queue' = queue /\ \A b \in Batch : told[b] # "unused" => told'[b] # "unused"
  BY <1>1, <1>2 DEF OrderInv, CommittedIsWritten, ServerHasABeginning
<1>3. ASSUME NEW b \in Batch, Enqueue(b) PROVE CommittedIsWritten' /\ ServerHasABeginning'
  <2>1. /\ told[b] = "unused"
        /\ queue'[user] = queue[user] \cup {b}
        /\ \A u \in User \ {user} : queue'[u] = queue[u]
        /\ told'[b] = "pending" /\ \A x \in Batch \ {b} : told'[x] = told[x]
    BY <1>1, <1>3 DEF Enqueue, IsNext
  <2>2. CommittedIsWritten'
    BY <1>1, <2>1 DEF OrderInv, CommittedIsWritten
  <2>3. b \notin committed
    BY <2>1 DEF OrderInv, CommittedIsWritten
  <2>4. ASSUME NEW y \in queue[user], b < y PROVE FALSE
    BY <1>1, <2>1, <2>4 DEF Written
  <2>5. ServerHasABeginning'
    <3> SUFFICES ASSUME NEW u \in User, NEW x \in queue'[u], NEW y \in queue'[u],
                        x < y, y \in committed
                 PROVE  x \in committed
      BY DEF ServerHasABeginning
    <3>1. CASE u = user
      <4>1. y \in queue[user] /\ x \in queue[user]
        BY <2>1, <2>3, <2>4, <3>1
      <4> QED BY <1>1, <4>1 DEF OrderInv, ServerHasABeginning
    <3>2. CASE u # user
      BY <2>1, <3>2 DEF OrderInv, ServerHasABeginning
    <3> QED BY <3>1, <3>2
  <2> QED BY <2>2, <2>5
<1>4. ASSUME NEW b \in Batch, NEW answer \in {"ok", "failed"}, Settle(b, answer)
      PROVE  CommittedIsWritten' /\ ServerHasABeginning'
  <2>1. \A u \in User : queue'[u] \subseteq queue[u]
    BY <1>1, <1>4 DEF Settle
  <2>2. \A x \in Batch : told[x] # "unused" => told'[x] # "unused"
    BY <1>1, <1>4 DEF Settle
  <2> QED BY <1>1, <2>1, <2>2 DEF OrderInv, CommittedIsWritten, ServerHasABeginning
<1>5. CASE UNCHANGED queueVars \/ \E u \in User : SignIn(u)
  BY <1>2, <1>5 DEF queueVars, SignIn
<1>6. CASE Forget
  BY <1>1, <1>2, <1>6 DEF Forget
<1> QED
  BY <1>3, <1>4, <1>5, <1>6 DEF QueueMoves, Fails

LEMMA AcceptKeepsOrder ==
    ASSUME OrderInv, Accept
    PROVE  CommittedIsWritten' /\ ServerHasABeginning'
<1> DEFINE h == Head(client.requests)
<1>1. /\ committed' = committed \cup ({h} \cap Batch)
      /\ queue' = queue /\ told' = told
  BY DEF Accept, queueVars
<1>2. CASE h \notin Batch
  BY <1>1, <1>2 DEF OrderInv, CommittedIsWritten, ServerHasABeginning
<1>3. CASE h \in Batch
  <2>1. h \in queue[user] /\ \A x \in queue[user] : x < h => x \in committed
    BY <1>3, AcceptIsInOrder DEF OrderInv
  <2>2. user \in User /\ Written
    BY Given DEF OrderInv, IInv
  <2> HIDE DEF h
  <2>3. CommittedIsWritten'
    BY <1>1, <2>1, <2>2 DEF OrderInv, CommittedIsWritten, Written
  <2>4. ServerHasABeginning'
    <3> SUFFICES ASSUME NEW u \in User, NEW x \in queue[u], NEW y \in queue[u],
                        x < y, y \in committed \cup {h}
                 PROVE  x \in committed \cup {h}
      BY <1>1, <1>3 DEF ServerHasABeginning
    <3>1. CASE y \in committed
      BY <3>1 DEF OrderInv, ServerHasABeginning
    <3>2. CASE y = h
      <4>1. u = user
        BY <2>1, <2>2, <3>2 DEF OrderInv, OnePlace
      <4> QED BY <2>1, <3>2, <4>1
    <3> QED BY <3>1, <3>2
  <2> QED BY <2>3, <2>4
<1> QED BY <1>2, <1>3

\* AddToWritePipeline and WriteMutations (remote_store.cc, write_stream.cc): of the
\* writes that a user is still waiting for, the server never has a later one
\* without the earlier ones, whatever streams broke, requests were refused and
\* users changed in between.
THEOREM WritesReachTheServerInOrder == Spec => []ServerHasABeginning
<1>1. ASSUME Init PROVE OrderInv
  <2>1. IInv
    BY <1>1, Initial
  <2>2. OnePlace
    BY <1>1 DEF Init, QueueInit, OnePlace, Knowledge
  <2> QED BY <1>1, <2>1, <2>2 DEF Init, QueueInit, OrderInv, CommittedIsWritten, ServerHasABeginning
<1>2. ASSUME OrderInv, [Next]_vars, OnePlace' PROVE OrderInv'
  <2>1. IInv'
    BY <1>2, Inductive DEF OrderInv
  <2>2. CASE Accept
    BY <1>2, <2>1, <2>2, AcceptKeepsOrder DEF OrderInv
  <2>3. CASE UNCHANGED committed
    <3>1. QueueMoves
      BY <1>2, StepsMoveTheQueue DEF OrderInv
    <3>2. CommittedIsWritten' /\ ServerHasABeginning'
      BY <1>2, <2>3, <3>1, QueuesKeepOrder
    <3> QED BY <1>2, <2>1, <3>2 DEF OrderInv
  <2> QED BY <1>2, <2>2, <2>3, OnlyAcceptCommits DEF OrderInv
<1>3. OrderInv => ServerHasABeginning
  BY DEF OrderInv
<1>4. OrderInv /\ [Next]_vars /\ OnePlace' => OrderInv'
  BY <1>2
<1> QED BY <1>1, <1>3, <1>4, WritesHaveOnePlace, PTL DEF Spec
=============================================================================
