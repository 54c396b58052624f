-------------------------- MODULE LimboResolution --------------------------
(***************************************************************************)
(* Documents in limbo: a view has them from the cache while the server,    *)
(* which has sent the whole query, does not know them.  The sync engine    *)
(* listens for each of them on a target of its own, a few at a time, until *)
(* no view has it in limbo any more (core/sync_engine.cc, core/view.cc);   *)
(* until then no getDocuments of such a query is answered by the server.   *)
(***************************************************************************)
EXTENDS Naturals, FiniteSetsExt, SequencesExt

CONSTANTS
    View,            \* the views of the queries that can be listened to
    Key,             \* the keys of documents
    MaxResolutions,  \* max_concurrent_limbo_resolutions_
    MaxEnqueued,     \* BOUND: keys that wait
    MaxTargets       \* BOUND: targets that listen for one key

ASSUME LimboAssumption ==
    /\ IsFiniteSet(View) /\ IsFiniteSet(Key)
    /\ MaxResolutions \in Nat \ {0} /\ MaxEnqueued \in Nat /\ MaxTargets \in Nat \ {0}

VARIABLES
    refs,      \* refs[v]: the limbo documents of view v
    enqueued,  \* the keys that wait for a resolution
    byKey,     \* the keys with an entry in active_limbo_targets_by_key_
    byTarget   \* byTarget[k]: targets that listen for k

limboVars == <<refs, enqueued, byKey, byTarget>>

LimboTypeOK ==
    /\ refs \in [View -> SUBSET Key]
    /\ enqueued \in Seq(Key) /\ Len(enqueued) <= MaxEnqueued
    /\ byKey \subseteq Key
    /\ byTarget \in [Key -> 0..MaxTargets]

LimboInit ==
    /\ refs = [v \in View |-> {}]
    /\ enqueued = <<>>
    /\ byKey = {}
    /\ byTarget = [k \in Key |-> 0]

-----------------------------------------------------------------------------
(***************************************************************************)
(* The functions of the sync engine take its books and return them         *)
(* changed.                                                                *)
(***************************************************************************)

Books == [refs |-> refs, enqueued |-> enqueued, byKey |-> byKey, byTarget |-> byTarget]

ContainsKey(b, k) == \E v \in View : k \in b.refs[v]

\* The first n keys that wait, and how often k is one of them.
Oldest(b, n) == {b.enqueued[i] : i \in 1..n}
Times(b, n, k) == Cardinality({i \in 1..n : b.enqueued[i] = k})

\* The first n keys that wait are listened for, whether or not they already are.
Listened(b, n) ==
    [refs     |-> b.refs,
     enqueued |-> SubSeq(b.enqueued, n + 1, Len(b.enqueued)),
     byKey    |-> b.byKey \cup Oldest(b, n),
     byTarget |-> [k \in Key |-> b.byTarget[k] + Times(b, n, k)]]

Pump_NoLimit(b) == Listened(b, Len(b.enqueued))

\* PumpEnqueuedLimboResolutions: from the front, while there is room.
Pump(b) ==
    Listened(b, Min({n \in 0..Len(b.enqueued) :
                        \/ n = Len(b.enqueued)
                        \/ Cardinality(b.byKey \cup Oldest(b, n)) >= MaxResolutions}))

TrackLimboChange_OneQuery(b, k) ==
    IF k \in b.byKey \/ Cardinality(b.byKey) >= MaxResolutions
    THEN b ELSE Pump([b EXCEPT !.enqueued = Append(@, k)])

TrackLimboChange(b, k) ==
    IF k \in b.byKey THEN b ELSE Pump([b EXCEPT !.enqueued = Append(@, k)])

\* A target that listens for k is gone, or the entry of k.
OneTargetLess(b, k) == [b EXCEPT !.byTarget[k] = @ - 1]
NoEntry(b, k) == [b EXCEPT !.byKey = @ \ {k}]

\* Only a key with an entry has a target to stop.
RemoveLimboTarget(b, k) ==
    IF k \notin b.byKey THEN b ELSE Pump(NoEntry(OneTargetLess(b, k), k))

LimboDocumentChange == [type : {"Added", "Removed"}, view : View, key : Key]

Changed(b, c) ==
    IF c.type = "Added"
    THEN TrackLimboChange([b EXCEPT !.refs[c.view] = @ \cup {c.key}], c.key)
    ELSE LET less == [b EXCEPT !.refs[c.view] = @ \ {c.key}]
         IN  IF ContainsKey(less, c.key) THEN less ELSE RemoveLimboTarget(less, c.key)

\* One change after the other, in some order of the views and keys.
UpdateTrackedLimboDocuments(b, changes) ==
    LET after[i \in 0..Len(changes)] ==
            IF i = 0 THEN b ELSE Changed(after[i - 1], changes[i])
    IN  after[Len(changes)]

Changes(type, views, keys) == SetToSeq([type : {type}, view : views, key : keys])

\* The limbo of view v becomes ks: what leaves it goes before what joins it.
Update(b, v, ks) ==
    UpdateTrackedLimboDocuments(b, Changes("Removed", {v}, b.refs[v] \ ks)
                                      \o Changes("Added", {v}, ks \ b.refs[v]))

\* The document is gone: every view loses it.
Gone(b, k) ==
    UpdateTrackedLimboDocuments(b, Changes("Removed", {v \in View : k \in b.refs[v]}, {k}))

Become(b) ==
    /\ Len(b.enqueued) <= MaxEnqueued
    /\ \A k \in Key : b.byTarget[k] <= MaxTargets
    /\ refs' = b.refs /\ enqueued' = b.enqueued
    /\ byKey' = b.byKey /\ byTarget' = b.byTarget

-----------------------------------------------------------------------------

\* A remote event or a write changes what view v has in limbo.
ViewChanges(v, ks) == ks # refs[v] /\ Become(Update(Books, v, ks))

\* RemoveAndCleanupTarget: all references of v go, then what nobody refers to.
QueryEnds(v) ==
    /\ refs[v] # {}
    /\ Become(UpdateTrackedLimboDocuments([Books EXCEPT !.refs[v] = {}],
                                          Changes("Removed", {v}, refs[v])))

\* The server answers that the document does not exist.
LimboResolved(k) ==
    /\ byTarget[k] > 0 /\ ContainsKey(Books, k)
    /\ Become(Gone(Books, k))

HandleRejectedListen_EntryKept(k) ==
    /\ byTarget[k] > 0
    /\ Become(Gone(Pump(OneTargetLess(Books, k)), k))

\* HandleRejectedListen of a target that listens for k.
HandleRejectedListen(k) ==
    /\ byTarget[k] > 0
    /\ Become(Gone(Pump(NoEntry(OneTargetLess(Books, k), k)), k))

LimboNext ==
    \/ \E v \in View : QueryEnds(v) \/ \E ks \in SUBSET Key : ViewChanges(v, ks)
    \/ \E k \in Key : LimboResolved(k) \/ HandleRejectedListen(k)

LimboSpec == LimboInit /\ [][LimboNext]_limboVars

-----------------------------------------------------------------------------

\* A document that is in limbo is being resolved or waits for it: otherwise its
\* query could not be answered by the server again (TrackLimboChange).
NoLimboIsForgotten ==
    \A v \in View : refs[v] \subseteq byKey \cup Range(enqueued)

\* Keys wait only while the limit is reached (PumpEnqueuedLimboResolutions is
\* called wherever an entry goes), and the entries never exceed it.
RoomIsUsed ==
    /\ Cardinality(byKey) <= MaxResolutions
    /\ enqueued # <<>> => Cardinality(byKey) = MaxResolutions

\* The HARD_ASSERT "target not currently watched" of StopListening: a key with
\* an entry has a target to stop.
EntriesHaveTargets == \A k \in byKey : byTarget[k] > 0
=============================================================================
