-------------------------- MODULE FirestoreClient --------------------------
(***************************************************************************)
(* The part of the bundled Firestore client that the screens of the app    *)
(* rely on, for one collection: a write is appended to a persistent queue  *)
(* and is visible at once to this device's queries, the queue is delivered *)
(* to the server in order, and an answer removes the head of the queue.    *)
(*                                                                         *)
(* A document is a total function from fields to values; a field that is   *)
(* not there is Nil, and a document all of whose fields are Nil is a       *)
(* document that does not exist.  A mutation names a document and gives    *)
(* each field a new value, or Keep for a field outside its field mask; a   *)
(* deletion is the mutation that makes every field Nil.                    *)
(***************************************************************************)
EXTENDS Naturals, Sequences

CONSTANTS
    DocId,      \* the document keys of the collection
    Field,      \* the fields the program reads or writes
    Value,      \* what a field may hold
    Nil,        \* the field is missing
    Keep,       \* the field is outside the mutation's field mask
    Resend,     \* may the server apply a mutation again after a broken stream?
    Rejects,    \* may the server refuse a mutation for good?
    MaxWrites   \* BOUND on the unacknowledged mutations of the device

ASSUME StoreAssumption ==
    /\ Nil \notin Value
    /\ Keep \notin Value
    /\ Nil # Keep
    /\ Resend \in BOOLEAN
    /\ Rejects \in BOOLEAN
    /\ MaxWrites \in Nat

VARIABLES
    server,     \* the collection as the server holds it
    cache,      \* the remote-document cache of the device
    queue,      \* the mutation queue of the device, oldest first
    sent,       \* how many mutations of the queue this stream has delivered
    synced      \* synced[d]: how many of those are no newer than the cached d

storeVars == <<server, cache, queue, sent, synced>>

Document == [Field -> Value \cup {Nil}]
NoDoc    == [f \in Field |-> Nil]
Mutation == [doc : DocId, write : [Field -> Value \cup {Nil, Keep}]]

Deletion(d) == [doc |-> d, write |-> NoDoc]

StoreTypeOK ==
    /\ server \in [DocId -> Document]
    /\ cache \in [DocId -> Document]
    /\ queue \in Seq(Mutation)
    /\ sent \in 0..Len(queue)
    /\ synced \in [DocId -> 0..sent]

-----------------------------------------------------------------------------
(***************************************************************************)
(* What mutations do to documents.                                         *)
(***************************************************************************)

Merge_DropsOtherFields(doc, w) == [f \in Field |-> IF w[f] = Keep THEN Nil ELSE w[f]]

\* A merge replaces the fields of its mask and keeps the others.
Merge(doc, w) == [f \in Field |-> IF w[f] = Keep THEN doc[f] ELSE w[f]]

\* A mutation without a precondition applies to a missing document too.
Apply(docs, m) == [docs EXCEPT ![m.doc] = Merge(@, m.write)]

\* Mutation i of q writes field f of document d.
Writes(q, i, d, f) == q[i].doc = d /\ q[i].write[f] # Keep

\* Mutation i of q is the last one that writes field f of document d.
LastWriter(q, i, d, f) ==
    /\ i \in 1..Len(q)
    /\ Writes(q, i, d, f)
    /\ \A j \in 1..Len(q) : j > i => ~Writes(q, j, d, f)

Overlay_ForgetsQueue(base, q) == base

\* The documents a query sees: the base with the mutations of q on top, so
\* every field holds what its last writer in q gave it.
Overlay(base, q) ==
    [d \in DocId |-> [f \in Field |->
        IF \E i \in 1..Len(q) : LastWriter(q, i, d, f)
        THEN q[CHOOSE i \in 1..Len(q) : LastWriter(q, i, d, f)].write[f]
        ELSE base[d][f]]]

LocalView  == Overlay(server, queue)
CachedView == Overlay(cache, queue)

-----------------------------------------------------------------------------
(***************************************************************************)
(* The steps of the client and of the server.                              *)
(***************************************************************************)

StoreInit ==
    /\ server = [d \in DocId |-> NoDoc]
    /\ cache = [d \in DocId |-> NoDoc]
    /\ queue = <<>>
    /\ sent = 0
    /\ synced = [d \in DocId |-> 0]

\* The program writes: the mutation joins the queue and the call returns.
Write(m) ==
    /\ queue' = Append(queue, m)
    /\ UNCHANGED <<server, cache, sent, synced>>

\* The server applies the next mutation of the write pipeline.
Deliver ==
    /\ sent < Len(queue)
    /\ server' = Apply(server, queue[sent + 1])
    /\ sent' = sent + 1
    /\ UNCHANGED <<cache, queue, synced>>

OneLessSynced == [d \in DocId |-> IF synced[d] = 0 THEN 0 ELSE synced[d] - 1]

AcknowledgeCache_Skipped == cache' = cache /\ synced' = OneLessSynced

\* An acknowledged mutation moves from the queue to the cached document,
\* unless the cached document is already as new as that.
AcknowledgeCache ==
    /\ cache' = IF synced[Head(queue).doc] = 0 THEN Apply(cache, Head(queue)) ELSE cache
    /\ synced' = OneLessSynced

\* The answer to the oldest mutation: it is stored.
Acknowledge ==
    /\ sent > 0
    /\ queue' = Tail(queue)
    /\ sent' = sent - 1
    /\ AcknowledgeCache
    /\ UNCHANGED server

\* The answer to the oldest mutation: it is refused for good and dropped.
Reject ==
    /\ Rejects
    /\ queue # <<>>
    /\ sent = 0
    /\ queue' = Tail(queue)
    /\ UNCHANGED <<server, cache, sent, synced>>

\* The stream breaks before the answers arrive: the pipeline is sent again.
Reconnect ==
    /\ Resend
    /\ sent # 0
    /\ sent' = 0
    /\ synced' = [d \in DocId |-> 0]
    /\ UNCHANGED <<server, cache, queue>>

\* A query that reaches the server brings the cache up to date.  Of a document
\* that is neither on the server nor in the cache it need not learn that it
\* was deleted.
Synchronise ==
    /\ cache' = server
    /\ \E silent \in SUBSET {d \in DocId : server[d] = NoDoc /\ cache[d] = NoDoc} :
          synced' = [d \in DocId |-> IF d \in silent THEN synced[d] ELSE sent]
    /\ UNCHANGED <<server, queue, sent>>

\* Someone else (the web portal) stores or deletes a document.
RemoteSet(d, doc) ==
    /\ server' = [server EXCEPT ![d] = doc]
    /\ UNCHANGED <<cache, queue, sent, synced>>

StoreNext ==
    \/ \E m \in Mutation : Len(queue) < MaxWrites /\ Write(m)
    \/ Deliver
    \/ Acknowledge
    \/ Reject
    \/ Reconnect
    \/ Synchronise
    \/ \E d \in DocId, doc \in Document : RemoteSet(d, doc)

StoreSpec == StoreInit /\ [][StoreNext]_storeVars

-----------------------------------------------------------------------------
(***************************************************************************)
(* Latency compensation: what this device sees of its own writes does not  *)
(* depend on how far the network has got with them.  Whatever the server   *)
(* does with the mutations of the queue, and however often a broken stream *)
(* makes it apply an old one over a newer one, the view of the server with *)
(* the queue on top stays as it was.                                       *)
(***************************************************************************)
DeliveryIsInvisible == [][Deliver => LocalView' = LocalView]_storeVars

(***************************************************************************)
(* An acknowledgement hands the mutation over from the queue to the cache  *)
(* without a moment at which a query that is answered from the cache sees  *)
(* the document without it, unless the cache has learned something newer.  *)
(***************************************************************************)
AcknowledgementIsInvisible ==
    [][Acknowledge =>
        \A d \in DocId : synced[d] = 0 => CachedView'[d] = CachedView[d]]_storeVars
=============================================================================
