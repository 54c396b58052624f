----------------------- MODULE FirestoreClientProofs -----------------------
(***************************************************************************)
(* Theorems about FirestoreClient, for every set of documents, fields and  *)
(* values and for queues of any length.                                    *)
(***************************************************************************)
EXTENDS FirestoreClient, WellFoundedInduction, TLAPS

-----------------------------------------------------------------------------
(***************************************************************************)
(* The last writer of a field.                                             *)
(***************************************************************************)

\* A non-empty set of positions has a greatest one.
LEMMA GreatestPosition ==
    ASSUME NEW n \in Nat, NEW P, P \subseteq 1..n, P # {}
    PROVE  \E i \in P : \A j \in P : j <= i
<1> DEFINE D == {n - i : i \in P}
<1>1. D \subseteq Nat /\ D # {}
  <2>1. \A i \in P : n - i \in Nat
    OBVIOUS
  <2> QED
    BY <2>1
<1>2. PICK m \in D : \A k \in D : ~(<<k, m>> \in OpToRel(<, Nat))
  BY <1>1, NatLessThanWellFounded, WFMin
<1>3. \A k \in D : ~(k < m)
  BY <1>1, <1>2 DEF OpToRel
<1>4. PICK i \in P : m = n - i
  OBVIOUS
<1>5. \A j \in P : j <= i
  <2> TAKE j \in P
  <2>1. n - j \in D
    OBVIOUS
  <2> QED
    BY <2>1, <1>3, <1>4
<1> QED
  BY <1>5

\* If some mutation of a queue writes a field, one of them is the last to.
LEMMA LastWriterExists ==
    ASSUME NEW q \in Seq(Mutation), NEW d \in DocId, NEW f \in Field,
           NEW k \in 1..Len(q), Writes(q, k, d, f)
    PROVE  \E i \in 1..Len(q) : LastWriter(q, i, d, f)
<1> DEFINE P == {j \in 1..Len(q) : Writes(q, j, d, f)}
<1>1. Len(q) \in Nat /\ P \subseteq 1..Len(q) /\ P # {}
  OBVIOUS
<1> HIDE DEF P
<1>2. PICK i \in P : \A j \in P : j <= i
  BY <1>1, GreatestPosition
<1>3. i \in 1..Len(q) /\ Writes(q, i, d, f)
  BY <1>2 DEF P
<1>4. \A j \in 1..Len(q) : j > i => ~Writes(q, j, d, f)
  BY <1>1, <1>2, <1>3 DEF P
<1> QED
  BY <1>3, <1>4 DEF LastWriter

\* There is at most one last writer of a field.
LEMMA LastWriterUnique ==
    ASSUME NEW q \in Seq(Mutation), NEW d \in DocId, NEW f \in Field,
           NEW i \in 1..Len(q), NEW j \in 1..Len(q),
           LastWriter(q, i, d, f), LastWriter(q, j, d, f)
    PROVE  i = j
BY DEF LastWriter

\* What the overlay holds in a field that the queue writes, and in one that
\* it does not write.
LEMMA OverlayWritten ==
    ASSUME NEW q \in Seq(Mutation), NEW base, NEW d \in DocId, NEW f \in Field,
           NEW i \in 1..Len(q), LastWriter(q, i, d, f)
    PROVE  Overlay(base, q)[d][f] = q[i].write[f]
<1>1. i = CHOOSE k \in 1..Len(q) : LastWriter(q, k, d, f)
  BY LastWriterUnique
<1> QED
  BY <1>1 DEF Overlay

LEMMA OverlayUnwritten ==
    ASSUME NEW q \in Seq(Mutation), NEW base, NEW d \in DocId, NEW f \in Field,
           \A i \in 1..Len(q) : ~Writes(q, i, d, f)
    PROVE  Overlay(base, q)[d][f] = base[d][f]
BY DEF Overlay, LastWriter

LEMMA OverlayShape ==
    ASSUME NEW q, NEW base
    PROVE  /\ Overlay(base, q) = [d \in DocId |-> Overlay(base, q)[d]]
           /\ \A d \in DocId : Overlay(base, q)[d] = [f \in Field |-> Overlay(base, q)[d][f]]
BY DEF Overlay

\* Two overlays that agree field by field are equal.
LEMMA OverlayEqual ==
    ASSUME NEW q, NEW base, NEW r, NEW other,
           \A d \in DocId, f \in Field : Overlay(base, q)[d][f] = Overlay(other, r)[d][f]
    PROVE  Overlay(base, q) = Overlay(other, r)
<1>1. \A d \in DocId : Overlay(base, q)[d] = Overlay(other, r)[d]
  <2> TAKE d \in DocId
  <2>1. [f \in Field |-> Overlay(base, q)[d][f]] = [f \in Field |-> Overlay(other, r)[d][f]]
    OBVIOUS
  <2>2. Overlay(base, q)[d] = [f \in Field |-> Overlay(base, q)[d][f]]
    BY OverlayShape
  <2>3. Overlay(other, r)[d] = [f \in Field |-> Overlay(other, r)[d][f]]
    BY OverlayShape
  <2> QED
    BY <2>1, <2>2, <2>3
<1>2. [d \in DocId |-> Overlay(base, q)[d]] = [d \in DocId |-> Overlay(other, r)[d]]
  BY <1>1
<1>3. Overlay(base, q) = [d \in DocId |-> Overlay(base, q)[d]]
  BY OverlayShape
<1>4. Overlay(other, r) = [d \in DocId |-> Overlay(other, r)[d]]
  BY OverlayShape
<1> QED
  BY <1>2, <1>3, <1>4

-----------------------------------------------------------------------------
(***************************************************************************)
(* Type correctness.                                                       *)
(***************************************************************************)

LEMMA ApplyType ==
    ASSUME NEW docs \in [DocId -> Document], NEW m \in Mutation
    PROVE  Apply(docs, m) \in [DocId -> Document]
<1>1. Merge(docs[m.doc], m.write) \in Document
  BY DEF Merge, Mutation, Document
<1> QED
  BY <1>1 DEF Apply, Mutation

\* Field by field, what Apply does.
LEMMA ApplyField ==
    ASSUME NEW docs \in [DocId -> Document], NEW m \in Mutation,
           NEW d \in DocId, NEW f \in Field
    PROVE  Apply(docs, m)[d][f] =
             IF m.doc = d /\ m.write[f] # Keep THEN m.write[f] ELSE docs[d][f]
<1>1. CASE m.doc = d
  BY <1>1 DEF Apply, Merge, Mutation
<1>2. CASE m.doc # d
  BY <1>2 DEF Apply, Mutation
<1> QED
  BY <1>1, <1>2

\* Each step of the store keeps its types.  The steps are the same in every
\* module that builds on the store, so they are stated one by one.
LEMMA WriteType ==
    ASSUME StoreTypeOK, NEW m \in Mutation, Write(m)
    PROVE  StoreTypeOK'
<1>1. queue' \in Seq(Mutation) /\ Len(queue') = Len(queue) + 1 /\ Len(queue) \in Nat
  BY DEF StoreTypeOK, Write
<1> QED
  BY <1>1 DEF StoreTypeOK, Write

LEMMA DeliverType ==
    ASSUME StoreTypeOK, Deliver
    PROVE  StoreTypeOK'
<1>1. queue[sent + 1] \in Mutation
  BY DEF StoreTypeOK, Deliver
<1>2. server' \in [DocId -> Document]
  BY <1>1, ApplyType DEF StoreTypeOK, Deliver
<1>3. synced' \in [DocId -> 0..sent']
  <2>1. sent \in Nat /\ sent' = sent + 1 /\ synced' = synced /\ synced \in [DocId -> 0..sent]
    BY DEF StoreTypeOK, Deliver
  <2> QED
    BY <2>1
<1> QED
  BY <1>2, <1>3 DEF StoreTypeOK, Deliver

LEMMA AcknowledgeType ==
    ASSUME StoreTypeOK, Acknowledge
    PROVE  StoreTypeOK'
<1>1. queue # <<>> /\ Head(queue) \in Mutation
  BY DEF StoreTypeOK, Acknowledge
<1>2. queue' \in Seq(Mutation) /\ Len(queue') = Len(queue) - 1
  BY <1>1 DEF StoreTypeOK, Acknowledge
<1>3. cache' \in [DocId -> Document]
  BY <1>1, ApplyType DEF StoreTypeOK, Acknowledge, AcknowledgeCache
<1>4. synced' \in [DocId -> 0..sent']
  <2>1. sent \in Nat /\ sent > 0 /\ sent' = sent - 1 /\ synced \in [DocId -> 0..sent]
    BY DEF StoreTypeOK, Acknowledge
  <2>2. synced' = OneLessSynced
    BY DEF Acknowledge, AcknowledgeCache
  <2> QED
    BY <2>1, <2>2 DEF OneLessSynced
<1> QED
  BY <1>2, <1>3, <1>4 DEF StoreTypeOK, Acknowledge

LEMMA RejectType ==
    ASSUME StoreTypeOK, Reject
    PROVE  StoreTypeOK'
<1>1. queue' \in Seq(Mutation) /\ Len(queue') \in Nat
  BY DEF StoreTypeOK, Reject
<1> QED
  BY <1>1 DEF StoreTypeOK, Reject

LEMMA ReconnectType ==
    ASSUME StoreTypeOK, Reconnect
    PROVE  StoreTypeOK'
BY DEF StoreTypeOK, Reconnect

LEMMA SynchroniseType ==
    ASSUME StoreTypeOK, Synchronise
    PROVE  StoreTypeOK'
<1>1. synced' \in [DocId -> 0..sent']
  <2>1. sent \in Nat /\ sent' = sent /\ synced \in [DocId -> 0..sent]
    BY DEF StoreTypeOK, Synchronise
  <2>2. PICK silent :
          synced' = [d \in DocId |-> IF d \in silent THEN synced[d] ELSE sent]
    BY DEF Synchronise
  <2> QED
    BY <2>1, <2>2
<1> QED
  BY <1>1 DEF StoreTypeOK, Synchronise

LEMMA RemoteSetType ==
    ASSUME StoreTypeOK, NEW d \in DocId, NEW doc \in Document, RemoteSet(d, doc)
    PROVE  StoreTypeOK'
BY DEF StoreTypeOK, RemoteSet

\* StoreTypeOK holds in every reachable state of the store.
THEOREM StoreTypeCorrect == StoreSpec => []StoreTypeOK
<1>1. StoreInit => StoreTypeOK
  BY DEF StoreInit, StoreTypeOK, Document, NoDoc
<1>2. StoreTypeOK /\ [StoreNext]_storeVars => StoreTypeOK'
  <2> SUFFICES ASSUME StoreTypeOK, [StoreNext]_storeVars
               PROVE  StoreTypeOK'
    OBVIOUS
  <2>1. ASSUME NEW m \in Mutation, Write(m) PROVE StoreTypeOK'
    BY <2>1, WriteType
  <2>2. CASE Deliver
    BY <2>2, DeliverType
  <2>3. CASE Acknowledge
    BY <2>3, AcknowledgeType
  <2>4. CASE Reject
    BY <2>4, RejectType
  <2>5. CASE Reconnect
    BY <2>5, ReconnectType
  <2>6. CASE Synchronise
    BY <2>6, SynchroniseType
  <2>7. ASSUME NEW d \in DocId, NEW doc \in Document, RemoteSet(d, doc) PROVE StoreTypeOK'
    BY <2>7, RemoteSetType
  <2>8. CASE UNCHANGED storeVars
    BY <2>8 DEF StoreTypeOK, storeVars
  <2> QED
    BY <2>1, <2>2, <2>3, <2>4, <2>5, <2>6, <2>7, <2>8 DEF StoreNext
<1> QED
  BY <1>1, <1>2, PTL DEF StoreSpec

-----------------------------------------------------------------------------
(***************************************************************************)
(* Latency compensation.                                                   *)
(***************************************************************************)

\* Applying any mutation of the queue to the base changes no overlaid field:
\* what it writes, it or a later mutation of the queue writes on top.
LEMMA OverlayAbsorbs ==
    ASSUME NEW base \in [DocId -> Document], NEW q \in Seq(Mutation), NEW k \in 1..Len(q)
    PROVE  Overlay(Apply(base, q[k]), q) = Overlay(base, q)
<1>1. q[k] \in Mutation
  OBVIOUS
<1>2. ASSUME NEW d \in DocId, NEW f \in Field
      PROVE  Overlay(Apply(base, q[k]), q)[d][f] = Overlay(base, q)[d][f]
  <2>1. CASE \E i \in 1..Len(q) : Writes(q, i, d, f)
    <3>1. PICK i \in 1..Len(q) : LastWriter(q, i, d, f)
      BY <2>1, LastWriterExists
    <3> QED
      BY <3>1, OverlayWritten
  <2>2. CASE \A i \in 1..Len(q) : ~Writes(q, i, d, f)
    <3>1. Apply(base, q[k])[d][f] = base[d][f]
      BY <1>1, <2>2, ApplyField DEF Writes
    <3> QED
      BY <2>2, <3>1, OverlayUnwritten
  <2> QED
    BY <2>1, <2>2
<1> QED
  BY <1>2, OverlayEqual

\* Moving the head of the queue into the base changes no overlaid field.
LEMMA OverlayTail ==
    ASSUME NEW base \in [DocId -> Document], NEW q \in Seq(Mutation), q # <<>>
    PROVE  Overlay(Apply(base, Head(q)), Tail(q)) = Overlay(base, q)
<1>1. PICK r \in Seq(Mutation) :
        /\ r = Tail(q) /\ Len(r) = Len(q) - 1
        /\ \A i \in 1..Len(r) : r[i] = q[i + 1]
  <2>1. /\ Tail(q) \in Seq(Mutation) /\ Len(Tail(q)) = Len(q) - 1
        /\ \A i \in 1..Len(Tail(q)) : Tail(q)[i] = q[i + 1]
    OBVIOUS
  <2> QED
    BY <2>1
<1>2. Head(q) = q[1] /\ q[1] \in Mutation /\ Len(q) \in Nat \ {0}
  OBVIOUS
<1>3. ASSUME NEW d \in DocId, NEW f \in Field
      PROVE  Overlay(Apply(base, q[1]), r)[d][f] = Overlay(base, q)[d][f]
  <2>1. CASE \E i \in 1..Len(r) : Writes(r, i, d, f)
    <3>1. PICK i \in 1..Len(r) : LastWriter(r, i, d, f)
      BY <1>1, <1>2, <2>1, LastWriterExists
    <3>2. i + 1 \in 1..Len(q) /\ LastWriter(q, i + 1, d, f)
      <4>1. Writes(q, i + 1, d, f)
        BY <1>1, <1>2, <3>1 DEF LastWriter, Writes
      <4>2. ASSUME NEW j \in 1..Len(q), j > i + 1 PROVE ~Writes(q, j, d, f)
        <5>1. j - 1 \in 1..Len(r) /\ j - 1 > i /\ r[j - 1] = q[j]
          BY <1>1, <1>2, <4>2
        <5> QED
          BY <5>1, <3>1 DEF LastWriter, Writes
      <4> QED
        BY <1>1, <1>2, <4>1, <4>2 DEF LastWriter
    <3>3. Overlay(base, q)[d][f] = q[i + 1].write[f]
      BY <3>2, OverlayWritten
    <3>4. \A b : Overlay(b, r)[d][f] = r[i].write[f]
      BY <3>1, OverlayWritten
    <3> QED
      BY <1>1, <1>2, <3>3, <3>4
  <2>2. CASE \A i \in 1..Len(r) : ~Writes(r, i, d, f)
    <3>1. Overlay(Apply(base, q[1]), r)[d][f] = Apply(base, q[1])[d][f]
      BY <1>1, <1>2, <2>2, OverlayUnwritten
    <3>2. \A j \in 1..Len(q) : j > 1 => ~Writes(q, j, d, f)
      <4> TAKE j \in 1..Len(q)
      <4> HAVE j > 1
      <4>1. j - 1 \in 1..Len(r) /\ r[j - 1] = q[j]
        BY <1>1, <1>2
      <4> QED
        BY <4>1, <2>2 DEF Writes
    <3>3. CASE Writes(q, 1, d, f)
      <4>1. 1 \in 1..Len(q) /\ LastWriter(q, 1, d, f)
        BY <1>1, <1>2, <3>2, <3>3 DEF LastWriter
      <4>2. Overlay(base, q)[d][f] = q[1].write[f]
        BY <4>1, OverlayWritten
      <4>3. Apply(base, q[1])[d][f] = q[1].write[f]
        BY <1>1, <1>2, <3>3, ApplyField DEF Writes
      <4> QED
        BY <3>1, <4>2, <4>3
    <3>4. CASE ~Writes(q, 1, d, f)
      <4>1. \A j \in 1..Len(q) : ~Writes(q, j, d, f)
        BY <1>1, <1>2, <3>2, <3>4
      <4>2. Overlay(base, q)[d][f] = base[d][f]
        BY <4>1, OverlayUnwritten
      <4>3. Apply(base, q[1])[d][f] = base[d][f]
        BY <1>1, <1>2, <3>4, ApplyField DEF Writes
      <4> QED
        BY <3>1, <4>2, <4>3
    <3> QED
      BY <3>3, <3>4
  <2> QED
    BY <2>1, <2>2
<1> QED
  BY <1>1, <1>2, <1>3, OverlayEqual

\* A mutation that joins the queue shows at once, in the fields it writes.
LEMMA OverlayAppend ==
    ASSUME NEW base, NEW q \in Seq(Mutation), NEW m \in Mutation, NEW d \in DocId, NEW f \in Field
    PROVE  Overlay(base, Append(q, m))[d][f] =
             IF m.doc = d /\ m.write[f] # Keep THEN m.write[f] ELSE Overlay(base, q)[d][f]
<1> DEFINE r == Append(q, m)
           n == Len(q) + 1
<1>1. /\ r \in Seq(Mutation) /\ Len(r) = n /\ Len(q) \in Nat
      /\ \A i \in 1..Len(q) : r[i] = q[i]
      /\ r[n] = m
  OBVIOUS
<1>2. n \in 1..Len(r)
  BY <1>1
<1> HIDE DEF r
<1>3. CASE m.doc = d /\ m.write[f] # Keep
  <2>1. LastWriter(r, n, d, f)
    BY <1>1, <1>2, <1>3 DEF LastWriter, Writes
  <2>2. Overlay(base, r)[d][f] = r[n].write[f]
    BY <1>1, <1>2, <2>1, OverlayWritten
  <2> QED
    BY <1>1, <1>3, <2>2 DEF r
<1>4. CASE ~(m.doc = d /\ m.write[f] # Keep)
  <2>1. ~Writes(r, n, d, f) /\ \A i \in 1..Len(q) : Writes(r, i, d, f) <=> Writes(q, i, d, f)
    BY <1>1, <1>2, <1>4 DEF Writes
  <2>2. CASE \E i \in 1..Len(q) : Writes(q, i, d, f)
    <3>1. PICK i \in 1..Len(q) : LastWriter(q, i, d, f)
      BY <2>2, LastWriterExists
    <3>2. LastWriter(r, i, d, f)
      BY <1>1, <2>1, <3>1 DEF LastWriter
    <3>3. Overlay(base, r)[d][f] = r[i].write[f]
      BY <1>1, <3>2, OverlayWritten
    <3>4. Overlay(base, q)[d][f] = q[i].write[f]
      BY <3>1, OverlayWritten
    <3> QED
      BY <1>1, <1>4, <3>3, <3>4 DEF r
  <2>3. CASE \A i \in 1..Len(q) : ~Writes(q, i, d, f)
    <3>1. \A i \in 1..Len(r) : ~Writes(r, i, d, f)
      BY <1>1, <2>1, <2>3
    <3>2. Overlay(base, r)[d][f] = base[d][f] /\ Overlay(base, q)[d][f] = base[d][f]
      BY <1>1, <2>3, <3>1, OverlayUnwritten
    <3> QED
      BY <1>4, <3>2 DEF r
  <2> QED
    BY <2>2, <2>3
<1> QED
  BY <1>3, <1>4

\* What a query sees of each document is a document.
LEMMA OverlayType ==
    ASSUME NEW base \in [DocId -> Document], NEW q \in Seq(Mutation)
    PROVE  Overlay(base, q) \in [DocId -> Document]
<1>1. ASSUME NEW d \in DocId, NEW f \in Field
      PROVE  Overlay(base, q)[d][f] \in Value \cup {Nil}
  <2>1. CASE \E i \in 1..Len(q) : Writes(q, i, d, f)
    <3>1. PICK i \in 1..Len(q) : LastWriter(q, i, d, f)
      BY <2>1, LastWriterExists
    <3>2. q[i].write[f] \in Value \cup {Nil}
      <4>1. q[i] \in Mutation
        OBVIOUS
      <4>2. q[i].write \in [Field -> Value \cup {Nil, Keep}]
        BY <4>1 DEF Mutation
      <4>3. q[i].write[f] # Keep
        BY <3>1 DEF LastWriter, Writes
      <4> QED
        BY <4>2, <4>3
    <3> QED
      BY <3>1, <3>2, OverlayWritten
  <2>2. CASE \A i \in 1..Len(q) : ~Writes(q, i, d, f)
    BY <2>2, OverlayUnwritten DEF Document
  <2> QED
    BY <2>1, <2>2
<1>2. \A d \in DocId : Overlay(base, q)[d] \in Document
  <2> TAKE d \in DocId
  <2>1. Overlay(base, q)[d] = [f \in Field |-> Overlay(base, q)[d][f]]
    BY OverlayShape
  <2> QED
    BY <1>1, <2>1 DEF Document
<1>3. Overlay(base, q) = [d \in DocId |-> Overlay(base, q)[d]]
  BY OverlayShape
<1> QED
  BY <1>2, <1>3

LEMMA DeliveryUnseen ==
    ASSUME StoreTypeOK, Deliver
    PROVE  LocalView' = LocalView
<1>1. sent + 1 \in 1..Len(queue)
  BY DEF StoreTypeOK, Deliver
<1> QED
  BY <1>1, OverlayAbsorbs DEF StoreTypeOK, Deliver, LocalView

\* No delivery of a write, first or repeated, changes the overlaid view.
THEOREM DeliveryInvisible == StoreSpec => DeliveryIsInvisible
<1>1. StoreTypeOK => [Deliver => LocalView' = LocalView]_storeVars
  BY DeliveryUnseen
<1> QED
  BY <1>1, StoreTypeCorrect, PTL DEF DeliveryIsInvisible

\* What a query sees of a document depends on no other document of the base.
LEMMA OverlayLocal ==
    ASSUME NEW q, NEW base, NEW other, NEW d \in DocId, base[d] = other[d]
    PROVE  Overlay(base, q)[d] = Overlay(other, q)[d]
BY DEF Overlay

LEMMA AcknowledgementUnseen ==
    ASSUME StoreTypeOK, Acknowledge, NEW d \in DocId, synced[d] = 0
    PROVE  CachedView'[d] = CachedView[d]
<1> DEFINE head == Head(queue)
<1>1. queue \in Seq(Mutation) /\ queue # <<>> /\ head \in Mutation /\ queue' = Tail(queue)
  BY DEF StoreTypeOK, Acknowledge
<1>2. Overlay(Apply(cache, head), queue')[d] = Overlay(cache, queue)[d]
  BY <1>1, OverlayTail DEF StoreTypeOK
<1>3. cache'[d] = Apply(cache, head)[d]
  <2>1. cache' = IF synced[head.doc] = 0 THEN Apply(cache, head) ELSE cache
    BY DEF Acknowledge, AcknowledgeCache
  <2>2. CASE head.doc = d
    BY <2>1, <2>2
  <2>3. CASE head.doc # d
    <3>1. Apply(cache, head)[d] = cache[d]
      BY <1>1, <2>3 DEF Apply, StoreTypeOK
    <3> QED
      BY <2>1, <3>1
  <2> QED
    BY <2>2, <2>3
<1> QED
  <2>1. CachedView'[d] = Overlay(cache', queue')[d]
    BY DEF CachedView
  <2>2. Overlay(cache', queue')[d] = Overlay(Apply(cache, head), queue')[d]
    BY <1>3, OverlayLocal
  <2> QED
    BY <1>2, <2>1, <2>2 DEF CachedView

\* No acknowledgement changes the view that the cache answers queries from,
\* but for a document of which a later query has brought something newer.
THEOREM AcknowledgementInvisible == StoreSpec => AcknowledgementIsInvisible
<1>1. StoreTypeOK =>
        [Acknowledge => \A d \in DocId : synced[d] = 0 => CachedView'[d] = CachedView[d]]_storeVars
  BY AcknowledgementUnseen
<1> QED
  BY <1>1, StoreTypeCorrect, PTL DEF AcknowledgementIsInvisible

-----------------------------------------------------------------------------
(***************************************************************************)
(* What a document holds of the writes that have reached it.  The server   *)
(* holds what the last of the first `sent` mutations of the queue wrote,   *)
(* and the cache what the last of the first synced[d] did, unless someone  *)
(* else has written the document since.                                    *)
(***************************************************************************)

Unwritten(q, d, f) == \A i \in 1..Len(q) : ~Writes(q, i, d, f)

\* Mutation i is the last of the first k of q that writes field f of d.
LastOfFirst(q, k, i, d, f) ==
    /\ i <= k
    /\ Writes(q, i, d, f)
    /\ \A j \in 1..Len(q) : j > i /\ j <= k => ~Writes(q, j, d, f)

Holds(docs, q, k, d, f) ==
    \A i \in 1..Len(q) : LastOfFirst(q, k, i, d, f) => docs[d][f] = q[i].write[f]

LEMMA HoldsNone ==
    ASSUME NEW docs, NEW q \in Seq(Mutation), NEW d, NEW f
    PROVE  Holds(docs, q, 0, d, f)
BY DEF Holds, LastOfFirst

LEMMA HoldsLocal ==
    ASSUME NEW docs, NEW other, NEW q, NEW k, NEW d, NEW f, docs[d] = other[d],
           Holds(docs, q, k, d, f)
    PROVE  Holds(other, q, k, d, f)
BY DEF Holds

\* A mutation that joins the queue has reached nothing yet.
LEMMA HoldsAppend ==
    ASSUME NEW docs, NEW q \in Seq(Mutation), NEW m \in Mutation, NEW k \in 0..Len(q),
           NEW d, NEW f, Holds(docs, q, k, d, f)
    PROVE  Holds(docs, Append(q, m), k, d, f)
<1> DEFINE r == Append(q, m)
<1>1. /\ Len(q) \in Nat /\ Len(r) = Len(q) + 1
      /\ \A i \in 1..Len(q) : r[i] = q[i]
  OBVIOUS
<1> HIDE DEF r
<1>2. ASSUME NEW i \in 1..Len(r), LastOfFirst(r, k, i, d, f)
      PROVE  docs[d][f] = r[i].write[f]
  <2>1. i \in 1..Len(q)
    BY <1>1, <1>2 DEF LastOfFirst
  <2>2. LastOfFirst(q, k, i, d, f)
    BY <1>1, <1>2, <2>1 DEF LastOfFirst, Writes
  <2> QED
    BY <1>1, <2>1, <2>2 DEF Holds
<1> QED
  BY <1>2 DEF Holds, r

\* The next mutation reaches the documents.
LEMMA HoldsApply ==
    ASSUME NEW docs \in [DocId -> Document], NEW q \in Seq(Mutation),
           NEW k \in 0..(Len(q) - 1), NEW d \in DocId, NEW f \in Field,
           Writes(q, k + 1, d, f) \/ Holds(docs, q, k, d, f)
    PROVE  Holds(Apply(docs, q[k + 1]), q, k + 1, d, f)
<1>1. Len(q) \in Nat /\ k + 1 \in 1..Len(q) /\ q[k + 1] \in Mutation
  OBVIOUS
<1>2. Apply(docs, q[k + 1])[d][f] =
        IF Writes(q, k + 1, d, f) THEN q[k + 1].write[f] ELSE docs[d][f]
  BY <1>1, ApplyField DEF Writes
<1>3. CASE Writes(q, k + 1, d, f)
  <2>1. \A i \in 1..Len(q) : LastOfFirst(q, k + 1, i, d, f) => i = k + 1
    BY <1>1, <1>3 DEF LastOfFirst
  <2> QED
    BY <1>2, <1>3, <2>1 DEF Holds
<1>4. CASE ~Writes(q, k + 1, d, f)
  <2>1. \A i \in 1..Len(q) : LastOfFirst(q, k + 1, i, d, f) => LastOfFirst(q, k, i, d, f)
    BY <1>1, <1>4 DEF LastOfFirst
  <2> QED
    BY <1>2, <1>4, <2>1 DEF Holds
<1> QED
  BY <1>3, <1>4

\* What the tail of a queue is.
LEMMA TailOf ==
    ASSUME NEW q \in Seq(Mutation), q # <<>>
    PROVE  /\ Tail(q) \in Seq(Mutation) /\ Len(Tail(q)) = Len(q) - 1 /\ Len(q) \in Nat \ {0}
           /\ \A i \in 1..Len(Tail(q)) : i + 1 \in 1..Len(q) /\ Tail(q)[i] = q[i + 1]
           /\ \A i \in 1..Len(q) : i > 1 => i - 1 \in 1..Len(Tail(q)) /\ Tail(q)[i - 1] = q[i]
           /\ Head(q) = q[1] /\ q[1] \in Mutation
OBVIOUS

LEMMA UnwrittenTail ==
    ASSUME NEW q \in Seq(Mutation), q # <<>>, NEW d, NEW f
    PROVE  Unwritten(Tail(q), d, f) <=> \A i \in 1..Len(q) : i > 1 => ~Writes(q, i, d, f)
<1>1. PICK r \in Seq(Mutation) :
        /\ r = Tail(q) /\ Len(r) = Len(q) - 1 /\ Len(q) \in Nat \ {0}
        /\ \A i \in 1..Len(r) : i + 1 \in 1..Len(q) /\ r[i] = q[i + 1]
        /\ \A i \in 1..Len(q) : i > 1 => i - 1 \in 1..Len(r) /\ r[i - 1] = q[i]
  BY TailOf
<1>2. ASSUME Unwritten(r, d, f), NEW i \in 1..Len(q), i > 1 PROVE ~Writes(q, i, d, f)
  <2>1. i - 1 \in 1..Len(r) /\ r[i - 1] = q[i]
    BY <1>1, <1>2
  <2> QED
    BY <1>2, <2>1 DEF Unwritten, Writes
<1>3. ASSUME \A i \in 1..Len(q) : i > 1 => ~Writes(q, i, d, f), NEW i \in 1..Len(r)
      PROVE  ~Writes(r, i, d, f)
  <2>1. i + 1 \in 1..Len(q) /\ i + 1 > 1 /\ r[i] = q[i + 1]
    BY <1>1
  <2> QED
    BY <1>3, <2>1 DEF Writes
<1> QED
  BY <1>1, <1>2, <1>3 DEF Unwritten

\* The answered head leaves the queue.
LEMMA HoldsTail ==
    ASSUME NEW docs, NEW q \in Seq(Mutation), q # <<>>, NEW k \in Nat, NEW d, NEW f,
           Holds(docs, q, k + 1, d, f)
    PROVE  Holds(docs, Tail(q), k, d, f)
<1>1. PICK r \in Seq(Mutation) :
        /\ r = Tail(q) /\ Len(r) = Len(q) - 1 /\ Len(q) \in Nat \ {0}
        /\ \A i \in 1..Len(r) : i + 1 \in 1..Len(q) /\ r[i] = q[i + 1]
        /\ \A i \in 1..Len(q) : i > 1 => i - 1 \in 1..Len(r) /\ r[i - 1] = q[i]
  BY TailOf
<1>2. ASSUME NEW i \in 1..Len(r), LastOfFirst(r, k, i, d, f)
      PROVE  docs[d][f] = r[i].write[f]
  <2>1. i + 1 \in 1..Len(q) /\ i + 1 <= k + 1 /\ Writes(q, i + 1, d, f)
    BY <1>1, <1>2 DEF LastOfFirst, Writes
  <2>2. ASSUME NEW j \in 1..Len(q), j > i + 1, j <= k + 1 PROVE ~Writes(q, j, d, f)
    <3>1. j - 1 \in 1..Len(r) /\ j - 1 > i /\ j - 1 <= k /\ r[j - 1] = q[j]
      BY <1>1, <2>2
    <3> QED
      BY <1>2, <3>1 DEF LastOfFirst, Writes
  <2>3. LastOfFirst(q, k + 1, i + 1, d, f)
    BY <2>1, <2>2 DEF LastOfFirst
  <2> QED
    BY <1>1, <2>1, <2>3 DEF Holds
<1> QED
  BY <1>1, <1>2 DEF Holds

\* An acknowledgement leaves server and cache with the same value of a field
\* that the queue has nothing more to say about.
LEMMA AcknowledgeMeets ==
    ASSUME StoreTypeOK, Acknowledge, NEW d \in DocId, NEW f \in Field,
           Unwritten(queue', d, f),
           Holds(server, queue, sent, d, f), Holds(cache, queue, synced[d], d, f),
           Unwritten(queue, d, f) => server[d][f] = cache[d][f]
    PROVE  server'[d][f] = cache'[d][f]
<1>1. /\ queue \in Seq(Mutation) /\ queue # <<>> /\ queue' = Tail(queue) /\ server' = server
      /\ sent \in 1..Len(queue) /\ synced[d] \in 0..sent /\ cache \in [DocId -> Document]
  BY DEF StoreTypeOK, Acknowledge
<1>2. /\ Head(queue) = queue[1] /\ queue[1] \in Mutation /\ 1 \in 1..Len(queue)
      /\ Len(queue) \in Nat
      /\ \A i \in 1..Len(queue) : i > 1 => ~Writes(queue, i, d, f)
  <2>1. Len(queue) \in Nat \ {0}
    BY <1>1, TailOf
  <2>2. 1 \in 1..Len(queue)
    BY <2>1
  <2> QED
    BY <1>1, <2>1, <2>2, TailOf, UnwrittenTail
<1>3. cache' = IF synced[queue[1].doc] = 0 THEN Apply(cache, queue[1]) ELSE cache
  BY <1>2 DEF Acknowledge, AcknowledgeCache
<1>4. Apply(cache, queue[1])[d][f] =
        IF Writes(queue, 1, d, f) THEN queue[1].write[f] ELSE cache[d][f]
  BY <1>1, <1>2, ApplyField DEF Writes
<1>5. CASE Writes(queue, 1, d, f)
  <2>1. LastOfFirst(queue, sent, 1, d, f)
    BY <1>1, <1>2, <1>5 DEF LastOfFirst
  <2>2. server[d][f] = queue[1].write[f]
    BY <1>2, <2>1 DEF Holds
  <2>3. CASE synced[d] = 0
    BY <1>1, <1>3, <1>4, <1>5, <2>2, <2>3 DEF Writes
  <2>4. CASE synced[d] # 0
    <3>1. LastOfFirst(queue, synced[d], 1, d, f)
      BY <1>1, <1>2, <1>5, <2>4 DEF LastOfFirst
    <3>2. cache' = cache
      BY <1>3, <1>5, <2>4 DEF Writes
    <3> QED
      BY <1>1, <1>2, <2>2, <3>1, <3>2 DEF Holds
  <2> QED
    BY <2>3, <2>4
<1>6. CASE ~Writes(queue, 1, d, f)
  <2>1. Unwritten(queue, d, f)
    BY <1>2, <1>6 DEF Unwritten
  <2> QED
    BY <1>1, <1>3, <1>4, <1>6, <2>1
<1> QED
  BY <1>5, <1>6

\* What a query sees of the server stays the same while the server holds what
\* the mutations it has acknowledged have written.
LEMMA AcknowledgeKeepsField ==
    ASSUME StoreTypeOK, Acknowledge, NEW d \in DocId, NEW f \in Field,
           Holds(server, queue, sent, d, f)
    PROVE  LocalView'[d][f] = LocalView[d][f]
<1>1. /\ queue \in Seq(Mutation) /\ queue # <<>> /\ queue' = Tail(queue) /\ server' = server
      /\ sent \in 1..Len(queue) /\ server \in [DocId -> Document]
  BY DEF StoreTypeOK, Acknowledge
<1>2. /\ Tail(queue) \in Seq(Mutation) /\ Head(queue) = queue[1] /\ queue[1] \in Mutation
      /\ 1 \in 1..Len(queue) /\ Len(queue) \in Nat
  BY <1>1, TailOf
<1>3. Overlay(Apply(server, queue[1]), Tail(queue))[d][f] = Overlay(server, queue)[d][f]
  BY <1>1, <1>2, OverlayTail
<1>4. CASE Unwritten(Tail(queue), d, f)
  <2>1. \A base : Overlay(base, Tail(queue))[d][f] = base[d][f]
    BY <1>2, <1>4, OverlayUnwritten DEF Unwritten
  <2>2. \A i \in 1..Len(queue) : i > 1 => ~Writes(queue, i, d, f)
    BY <1>1, <1>4, UnwrittenTail
  <2>3. Apply(server, queue[1])[d][f] = server[d][f]
    <3>1. CASE Writes(queue, 1, d, f)
      <4>1. LastOfFirst(queue, sent, 1, d, f)
        BY <1>1, <1>2, <2>2, <3>1 DEF LastOfFirst
      <4> QED
        BY <1>1, <1>2, <3>1, <4>1, ApplyField DEF Holds, Writes
    <3>2. CASE ~Writes(queue, 1, d, f)
      BY <1>1, <1>2, <3>2, ApplyField DEF Writes
    <3> QED
      BY <3>1, <3>2
  <2> QED
    BY <1>1, <1>3, <2>1, <2>3 DEF LocalView
<1>5. CASE ~Unwritten(Tail(queue), d, f)
  <2>1. PICK i \in 1..Len(Tail(queue)) : LastWriter(Tail(queue), i, d, f)
    BY <1>2, <1>5, LastWriterExists DEF Unwritten
  <2>2. \A base : Overlay(base, Tail(queue))[d][f] = Tail(queue)[i].write[f]
    BY <1>2, <2>1, OverlayWritten
  <2> QED
    BY <1>1, <1>3, <2>2 DEF LocalView
<1> QED
  BY <1>4, <1>5
=============================================================================
