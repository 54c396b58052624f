--------------------------- MODULE FirestoreCalls ---------------------------
(***************************************************************************)
(* The calls a screen makes to Firestore and the completion handlers that  *)
(* come back: getDocuments is answered by the server or from the cache or  *)
(* fails, setData is answered when the server has stored or refused the    *)
(* mutation, and every handler is queued for the main queue, which runs    *)
(* one at a time.  A process that ends keeps what is on disk and forgets   *)
(* every call and every handler.                                           *)
(***************************************************************************)
EXTENDS FirestoreClient, FiniteSets, SequencesExt

CONSTANTS
    Requester,  \* the places in the program that call getDocuments
    Waiter,     \* the places in the program whose setData has a handler
    KeyOrder    \* KeyOrder[d]: the rank of key d in the order of the keys

Nobody == "nobody"

ASSUME CallsAssumption ==
    /\ Nobody \notin Waiter
    /\ IsFiniteSet(DocId)
    /\ KeyOrder \in [DocId -> Nat]

VARIABLES
    fetching,   \* fetching[r]: calls of getDocuments by r that are unanswered
    handlers,   \* handlers[i]: whose handler waits for mutation i of the queue
    mainq       \* completion handlers that wait for the main queue

callVars == <<fetching, handlers, mainq>>

Snapshot == [documentID : DocId, data : Document]

Completion ==
    [kind : {"snapshot"}, to : Requester, docs : Seq(Snapshot)]
    \cup [kind : {"loadError"}, to : Requester]
    \cup [kind : {"written"}, to : Waiter, doc : DocId, ok : BOOLEAN]

CallsTypeOK ==
    /\ StoreTypeOK
    /\ fetching \in [Requester -> Nat]
    /\ handlers \in Seq(Waiter \cup {Nobody})
    /\ Len(handlers) = Len(queue)
    /\ mainq \in Seq(Completion)

CallsInit ==
    /\ fetching = [r \in Requester |-> 0]
    /\ handlers = <<>>
    /\ mainq = <<>>

-----------------------------------------------------------------------------
(***************************************************************************)
(* What the program does.                                                  *)
(***************************************************************************)

GetDocuments(r) == fetching' = [fetching EXCEPT ![r] = @ + 1]

SetData(w, m) ==
    /\ Len(queue) < MaxWrites
    /\ Write(m)
    /\ handlers' = Append(handlers, w)

\* What r is still to be told: an answer to come or one that waits its turn.
Awaits(r) == fetching[r] > 0 \/ \E i \in DOMAIN mainq : mainq[i].to = r

\* The handlers of w wait for the server, or for their turn.
Pending(w) == (\E i \in DOMAIN handlers : handlers[i] = w)
              \/ \E i \in DOMAIN mainq : mainq[i].to = w

\* From now on the handlers of w find their program where v was.
HandOver(w, v) ==
    /\ handlers' = [i \in DOMAIN handlers |-> IF handlers[i] = w THEN v ELSE handlers[i]]
    /\ mainq' = [i \in DOMAIN mainq |->
                    IF mainq[i].to = w THEN [mainq[i] EXCEPT !.to = v] ELSE mainq[i]]

ProcessEnds_QueueLost ==
    /\ queue' = <<>> /\ sent' = 0 /\ synced' = [d \in DocId |-> 0]
    /\ UNCHANGED <<server, cache>>
    /\ fetching' = [r \in Requester |-> 0]
    /\ handlers' = <<>>
    /\ mainq' = <<>>

\* The queue and the cache are on disk, the calls and the handlers are not.
ProcessEnds ==
    /\ UNCHANGED storeVars
    /\ fetching' = [r \in Requester |-> 0]
    /\ handlers' = [i \in DOMAIN handlers |-> Nobody]
    /\ mainq' = <<>>

-----------------------------------------------------------------------------
(***************************************************************************)
(* What the client does.                                                   *)
(***************************************************************************)

\* The documents of a view that satisfy the query, in key order.
Results(view, wanted) ==
    LET found == {d \in DocId : view[d] \in wanted}
    IN  {[i \in DOMAIN keys |-> [documentID |-> keys[i], data |-> view[keys[i]]]] :
            keys \in {s \in [1..Cardinality(found) -> found] :
                        \A i, j \in DOMAIN s : i < j => KeyOrder[s[i]] < KeyOrder[s[j]]}}

AnswerQuery(r, view, wanted) ==
    /\ fetching[r] > 0
    /\ fetching' = [fetching EXCEPT ![r] = @ - 1]
    /\ \E docs \in Results(view, wanted) :
          mainq' = Append(mainq, [kind |-> "snapshot", to |-> r, docs |-> docs])
    /\ UNCHANGED handlers

QueryServer(r, wanted) == AnswerQuery(r, LocalView, wanted) /\ Synchronise
QueryCache(r, wanted)  == AnswerQuery(r, CachedView, wanted) /\ UNCHANGED storeVars

QueryFails(r) ==
    /\ fetching[r] > 0
    /\ fetching' = [fetching EXCEPT ![r] = @ - 1]
    /\ mainq' = Append(mainq, [kind |-> "loadError", to |-> r])
    /\ UNCHANGED <<storeVars, handlers>>

NotifyUser_Never(ok) == handlers' = Tail(handlers) /\ UNCHANGED mainq

\* The handler of the oldest mutation, if it still has one, is queued.
NotifyUser(ok) ==
    /\ handlers' = Tail(handlers)
    /\ mainq' = IF Head(handlers) = Nobody THEN mainq
                ELSE Append(mainq, [kind |-> "written", to |-> Head(handlers),
                                    doc |-> Head(queue).doc, ok |-> ok])

WriteAnswered ==
    /\ \/ Acknowledge /\ NotifyUser(TRUE)
       \/ Reject /\ NotifyUser(FALSE)
    /\ UNCHANGED fetching

WriteStream == (Deliver \/ Reconnect) /\ UNCHANGED callVars
=============================================================================
