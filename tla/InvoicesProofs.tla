--------------------------- MODULE InvoicesProofs ---------------------------
(***************************************************************************)
(* Theorems about Invoices, for any number of invoices, queues of any      *)
(* length and any number of loads, and whether or not writes are resent or *)
(* refused (where they must not be refused, the theorem says so).          *)
(***************************************************************************)
EXTENDS Invoices, FirestoreClientProofs, SequenceTheorems, FiniteSetTheorems

-----------------------------------------------------------------------------
(***************************************************************************)
(* The inductive invariant.                                                *)
(***************************************************************************)

\* What the app queues for the collection.
PaidMutation == {[doc |-> d, write |-> PaidWrite(t)] : d \in DocId, t \in Type}

\* A document of the project says whether the invoice is paid.
Whole(doc) == Listed(doc) => doc.invoiceType \in Type

ListedSnapshot == {s \in Snapshot : Listed(s.data) /\ s.data.invoiceType \in Type}

ListCompletion ==
    [kind : {"snapshot"}, to : {"list"}, docs : Seq(ListedSnapshot)]
    \cup [kind : {"loadError"}, to : {"list"}]

StoreOK ==
    /\ StoreTypeOK
    /\ queue \in Seq(PaidMutation)
    /\ \A d \in DocId : Whole(server[d]) /\ Whole(cache[d])

CallsOK ==
    /\ fetching \in [{"list"} -> Nat]
    /\ handlers \in Seq({Nobody})
    /\ Len(handlers) = Len(queue)
    /\ mainq \in Seq(ListCompletion)

ListOK ==
    /\ invoices \in Seq(Invoice)
    /\ rows \in Seq(Invoice)
    /\ screen \in {"away", "list"}
    /\ trap \in {"none", "range"}
    /\ overlap \in BOOLEAN
    /\ billed \subseteq DocId
    /\ tapped \in [DocId -> Type \cup {"none"}]

\* Loads that do not overlap come one at a time, and to an empty array.
LoadsUnderWay == fetching["list"] + Len(mainq)

OneLoad ==
    ~overlap => LoadsUnderWay <= 1 /\ (LoadsUnderWay = 1 => invoices = <<>>)

IInv == StoreOK /\ CallsOK /\ ListOK /\ TapMarksTheInvoiceShown /\ OneLoad

\* Only keys that the portal has used are stored or queued.
KeysUsed ==
    /\ \A d \in DocId : Listed(server[d]) \/ Listed(cache[d]) => d \in billed
    /\ \A i \in 1..Len(queue) : queue[i].doc \in billed

\* The server and the cache hold the marks that have reached them, and agree
\* on an invoice of which no mark waits.
MarksMeet ==
    \A d \in DocId :
        /\ Listed(server[d]) => Holds(server, queue, sent, d, "invoiceType")
        /\ Listed(cache[d]) => Holds(cache, queue, synced[d], d, "invoiceType")
        /\ Listed(server[d]) /\ Listed(cache[d]) /\ Unwritten(queue, d, "invoiceType")
              => server[d].invoiceType = cache[d].invoiceType

\* The mark t is the one that the server will hold of d.
FinalMark(d, t) == Listed(LocalView[d]) => LocalView[d].invoiceType = t

\* An invoice on its way to the table, or on it, has a key that the portal has
\* used, and while loads do not overlap its mark is final.
MarkFits(d, t) == d \in billed /\ (~overlap => FinalMark(d, t))

\* An answer lists no invoice twice.
AnswerFits(c) ==
    c.kind = "snapshot" =>
        /\ \A i, j \in DOMAIN c.docs : c.docs[i].documentID = c.docs[j].documentID => i = j
        /\ \A i \in DOMAIN c.docs : MarkFits(c.docs[i].documentID, c.docs[i].data.invoiceType)

AnswersFit == \A k \in DOMAIN mainq : AnswerFits(mainq[k])

\* Neither does an array that one load has filled.
RowsFit ==
    /\ ~overlap => \A i, j \in DOMAIN invoices :
                       invoices[i].invoiceID = invoices[j].invoiceID => i = j
    /\ \A i \in DOMAIN invoices : MarkFits(invoices[i].invoiceID, invoices[i].paid)

\* The invariant behind the marks, when no write is refused.
MarksInv == IInv /\ KeysUsed /\ MarksMeet /\ AnswersFit /\ RowsFit

-----------------------------------------------------------------------------
(***************************************************************************)
(* Documents, mutations and views.                                         *)
(***************************************************************************)

LEMMA FieldNames ==
    /\ Field = {"projectID", "invoiceType", "invoicePaidDate"}
    /\ Value = {"project", "paid", "unpaid", "date", "blank"}
    /\ Nil \notin Value /\ Keep \notin Value /\ Nil # Keep
    /\ Requester = {"list"} /\ Waiter = {}
    /\ KeyOrder \in [DocId -> Nat] /\ IsFiniteSet(DocId)
BY InvoicesAssumption, StoreAssumption, CallsAssumption

LEMMA DocumentTypes ==
    /\ Bill \in Document /\ Whole(Bill) /\ Listed(Bill)
    /\ NoDoc \in Document /\ Whole(NoDoc) /\ ~Listed(NoDoc)
BY FieldNames DEF Document, Bill, NoDoc, Whole, Listed, Type

\* A tap stores the mark, and never the project of the invoice.
LEMMA PaidMutationType ==
    ASSUME NEW m \in PaidMutation
    PROVE  /\ m \in Mutation /\ m.doc \in DocId
           /\ m.write.projectID = Keep /\ m.write.invoiceType \in Type
<1>1. PICK d \in DocId, t \in Type : m = [doc |-> d, write |-> PaidWrite(t)]
  BY DEF PaidMutation
<1>2. PaidWrite(t) \in [Field -> Value \cup {Nil, Keep}]
  BY FieldNames DEF PaidWrite, Type
<1> QED
  BY <1>1, <1>2 DEF Mutation, PaidWrite

LEMMA QueueMask ==
    ASSUME NEW q \in Seq(PaidMutation)
    PROVE  /\ q \in Seq(Mutation)
           /\ \A i \in 1..Len(q) : q[i].write.invoiceType \in Type
           /\ \A i \in 1..Len(q), d \in DocId :
                 /\ ~Writes(q, i, d, "projectID")
                 /\ Writes(q, i, d, "invoiceType") <=> q[i].doc = d
<1>1. \A i \in 1..Len(q) : q[i] \in PaidMutation
  OBVIOUS
<1>2. q \in Seq(Mutation)
  <2>1. PaidMutation \subseteq Mutation
    BY PaidMutationType
  <2> QED
    BY <2>1, SeqMonotonic
<1> QED
  BY <1>1, <1>2, PaidMutationType, FieldNames DEF Writes, Type

\* A mark that is applied lists no invoice, and takes none from the list.
LEMMA ApplyWhole ==
    ASSUME NEW docs \in [DocId -> Document], NEW m \in PaidMutation, NEW d \in DocId
    PROVE  /\ Listed(Apply(docs, m)[d]) <=> Listed(docs[d])
           /\ Whole(docs[d]) => Whole(Apply(docs, m)[d])
<1>1. m \in Mutation /\ m.write.projectID = Keep /\ m.write.invoiceType \in Type
  BY PaidMutationType
<1>2. Apply(docs, m)[d].projectID = docs[d].projectID
  BY <1>1, ApplyField, FieldNames
<1>3. Apply(docs, m)[d].invoiceType \in {docs[d].invoiceType, m.write.invoiceType}
  BY <1>1, ApplyField, FieldNames
<1> QED
  BY <1>1, <1>2, <1>3 DEF Listed, Whole

\* Marks that wait in the queue do not change which invoices a query lists.
LEMMA OverlayWhole ==
    ASSUME NEW base \in [DocId -> Document], NEW q \in Seq(PaidMutation), NEW d \in DocId
    PROVE  /\ Listed(Overlay(base, q)[d]) <=> Listed(base[d])
           /\ Whole(base[d]) => Whole(Overlay(base, q)[d])
<1>1. Overlay(base, q)[d].projectID = base[d].projectID
  BY QueueMask, OverlayUnwritten, FieldNames
<1>2. Overlay(base, q)[d].invoiceType \in {base[d].invoiceType} \cup Type
  <2>1. CASE \E i \in 1..Len(q) : Writes(q, i, d, "invoiceType")
    <3>1. PICK i \in 1..Len(q) : LastWriter(q, i, d, "invoiceType")
      BY <2>1, QueueMask, LastWriterExists, FieldNames
    <3> QED
      BY <3>1, QueueMask, OverlayWritten, FieldNames
  <2>2. CASE \A i \in 1..Len(q) : ~Writes(q, i, d, "invoiceType")
    BY <2>2, QueueMask, OverlayUnwritten, FieldNames
  <2> QED
    BY <2>1, <2>2
<1> QED
  BY <1>1, <1>2 DEF Listed, Whole

LEMMA ViewWhole ==
    ASSUME StoreOK
    PROVE  /\ LocalView \in [DocId -> Document] /\ CachedView \in [DocId -> Document]
           /\ \A d \in DocId : /\ Listed(LocalView[d]) <=> Listed(server[d])
                               /\ Listed(CachedView[d]) <=> Listed(cache[d])
                               /\ Whole(LocalView[d]) /\ Whole(CachedView[d])
<1>1. /\ server \in [DocId -> Document] /\ cache \in [DocId -> Document]
      /\ queue \in Seq(PaidMutation) /\ queue \in Seq(Mutation)
  BY DEF StoreOK, StoreTypeOK
<1>2. LocalView \in [DocId -> Document] /\ CachedView \in [DocId -> Document]
  BY <1>1, OverlayType DEF LocalView, CachedView
<1> QED
  BY <1>1, <1>2, OverlayWhole DEF StoreOK, LocalView, CachedView

\* What a query answers: the listed documents of the view, each once.
LEMMA ResultsType ==
    ASSUME NEW view \in [DocId -> Document], \A d \in DocId : Whole(view[d]),
           NEW docs \in Results(view, Mine)
    PROVE  /\ docs \in Seq(ListedSnapshot)
           /\ \A i \in DOMAIN docs : /\ docs[i].documentID \in DocId
                                     /\ Listed(view[docs[i].documentID])
                                     /\ docs[i].data = view[docs[i].documentID]
           /\ \A i, j \in DOMAIN docs : docs[i].documentID = docs[j].documentID => i = j
<1> DEFINE found == {d \in DocId : view[d] \in Mine}
<1>1. PICK keys \in [1..Cardinality(found) -> found] :
        /\ \A i, j \in DOMAIN keys : i < j => KeyOrder[keys[i]] < KeyOrder[keys[j]]
        /\ docs = [i \in DOMAIN keys |-> [documentID |-> keys[i], data |-> view[keys[i]]]]
  BY DEF Results
<1>2. PICK n \in Nat : n = Cardinality(found)
  BY FieldNames, FS_Subset, FS_CardinalityType
<1>3. \A k \in found : /\ k \in DocId /\ Listed(view[k]) /\ view[k].invoiceType \in Type
                       /\ view[k] \in Document /\ KeyOrder[k] \in Nat
  BY FieldNames DEF Mine, Whole
<1> HIDE DEF found
<1>4. /\ docs \in [1..n -> ListedSnapshot]
      /\ \A i \in 1..n : /\ keys[i] \in found
                         /\ docs[i] = [documentID |-> keys[i], data |-> view[keys[i]]]
  BY <1>1, <1>2, <1>3 DEF ListedSnapshot, Snapshot
<1>5. \A i, j \in 1..n : keys[i] = keys[j] => i = j
  <2> SUFFICES ASSUME NEW i \in 1..n, NEW j \in 1..n, i < j PROVE keys[i] # keys[j]
    OBVIOUS
  <2>1. KeyOrder[keys[i]] < KeyOrder[keys[j]] /\ KeyOrder[keys[i]] \in Nat
    BY <1>1, <1>2, <1>3, <1>4
  <2> QED
    BY <2>1
<1> QED
  BY <1>3, <1>4, <1>5

-----------------------------------------------------------------------------
(***************************************************************************)
(* The steps keep the invariant.                                           *)
(***************************************************************************)

LEMMA StoreStep ==
    ASSUME StoreOK,
           \/ \E m \in PaidMutation : Write(m)
           \/ Deliver \/ Acknowledge \/ Reject \/ Reconnect \/ Synchronise
           \/ \E d \in DocId : RemoteSet(d, Bill) \/ RemoteSet(d, NoDoc)
           \/ UNCHANGED storeVars
    PROVE  StoreOK'
<1>1. /\ StoreTypeOK /\ queue \in Seq(PaidMutation) /\ queue \in Seq(Mutation)
      /\ server \in [DocId -> Document] /\ cache \in [DocId -> Document]
      /\ \A d \in DocId : Whole(server[d]) /\ Whole(cache[d])
  BY DEF StoreOK, StoreTypeOK
<1>2. ASSUME NEW m \in PaidMutation, Write(m) PROVE StoreOK'
  <2>1. StoreTypeOK'
    BY <1>1, <1>2, WriteType, PaidMutationType
  <2>2. queue' \in Seq(PaidMutation)
    BY <1>1, <1>2 DEF Write
  <2> QED
    BY <1>1, <1>2, <2>1, <2>2 DEF StoreOK, Write
<1>3. CASE Deliver
  <2>1. queue[sent + 1] \in PaidMutation
    BY <1>1, <1>3 DEF StoreTypeOK, Deliver
  <2>2. \A d \in DocId : Whole(server'[d])
    BY <1>1, <1>3, <2>1, ApplyWhole DEF Deliver
  <2> QED
    BY <1>1, <1>3, <2>2, DeliverType DEF StoreOK, Deliver
<1>4. CASE Acknowledge
  <2>1. queue # <<>>
    BY <1>1, <1>4 DEF StoreTypeOK, Acknowledge
  <2>2. Head(queue) \in PaidMutation /\ Tail(queue) \in Seq(PaidMutation)
    BY <1>1, <2>1
  <2>3. \A d \in DocId : Whole(cache'[d])
    BY <1>1, <1>4, <2>2, ApplyWhole DEF Acknowledge, AcknowledgeCache
  <2> QED
    BY <1>1, <1>4, <2>2, <2>3, AcknowledgeType DEF StoreOK, Acknowledge
<1>5. CASE Reject
  <2>1. Tail(queue) \in Seq(PaidMutation)
    BY <1>1, <1>5 DEF Reject
  <2> QED
    BY <1>1, <1>5, <2>1, RejectType DEF StoreOK, Reject
<1>6. CASE Reconnect
  BY <1>1, <1>6, ReconnectType DEF StoreOK, Reconnect
<1>7. CASE Synchronise
  BY <1>1, <1>7, SynchroniseType DEF StoreOK, Synchronise
<1>8. ASSUME NEW d \in DocId, NEW doc \in {Bill, NoDoc}, RemoteSet(d, doc) PROVE StoreOK'
  <2>1. \A e \in DocId : Whole(server'[e])
    BY <1>1, <1>8, DocumentTypes DEF RemoteSet
  <2> QED
    BY <1>1, <1>8, <2>1, DocumentTypes, RemoteSetType DEF StoreOK, RemoteSet
<1>9. CASE UNCHANGED storeVars
  BY <1>1, <1>9 DEF storeVars, StoreOK, StoreTypeOK
<1> QED
  BY <1>2, <1>3, <1>4, <1>5, <1>6, <1>7, <1>8, <1>9

\* The calls and the list, unfolded.
LEMMA Parts ==
    ASSUME IInv
    PROVE  /\ StoreOK /\ StoreTypeOK /\ CallsOK /\ ListOK /\ OneLoad
           /\ fetching \in [{"list"} -> Nat] /\ fetching["list"] \in Nat
           /\ mainq \in Seq(ListCompletion) /\ Len(mainq) \in Nat
           /\ handlers \in Seq({Nobody}) /\ Len(handlers) = Len(queue)
           /\ invoices \in Seq(Invoice) /\ rows \in Seq(Invoice)
           /\ ~overlap /\ invoices # <<>> => rows = invoices
BY DEF IInv, StoreOK, CallsOK, ListOK, TapMarksTheInvoiceShown

\* The list awaits what its loads bring.
LEMMA AwaitsLoads ==
    ASSUME IInv
    PROVE  Awaits("list") <=> LoadsUnderWay # 0
<1>1. \A k \in 1..Len(mainq) : mainq[k].to = "list"
  <2>1. \A c \in ListCompletion : c.to = "list"
    BY DEF ListCompletion
  <2> QED
    BY <2>1, Parts
<1>2. DOMAIN mainq = 1..Len(mainq)
  BY Parts
<1>3. Awaits("list") <=> fetching["list"] > 0 \/ \E k \in 1..Len(mainq) : TRUE
  BY <1>1, <1>2 DEF Awaits
<1>4. PICK n \in Nat : n = Len(mainq)
  BY Parts
<1>5. (\E k \in 1..n : TRUE) <=> n # 0
  OBVIOUS
<1> QED
  BY <1>3, <1>4, <1>5, Parts DEF LoadsUnderWay

\* A call of getDocuments, on an array that is empty.
LEMMA GetStep ==
    ASSUME IInv, GetDocuments("list"), UNCHANGED <<storeVars, handlers, mainq, trap, billed, tapped>>,
           invoices' = <<>>, rows' \in {rows, <<>>}, screen' \in {"away", "list"},
           \/ ~Awaits("list") /\ overlap' = FALSE
           \/ overlap' = (overlap \/ Awaits("list"))
    PROVE  IInv'
<1>1. StoreOK'
  BY StoreStep, Parts
<1>2. fetching' \in [{"list"} -> Nat] /\ fetching'["list"] = fetching["list"] + 1
  BY Parts DEF GetDocuments
<1>3. CallsOK'
  BY <1>2, Parts DEF CallsOK, storeVars
<1>4. ListOK'
  BY Parts, <<>> \in Seq(Invoice) DEF ListOK
<1>5. OneLoad'
  <2>1. ~overlap' => LoadsUnderWay = 0
    BY AwaitsLoads
  <2>2. LoadsUnderWay' = LoadsUnderWay + 1
    BY <1>2, Parts DEF LoadsUnderWay
  <2> QED
    BY <2>1, <2>2 DEF OneLoad
<1> QED
  BY <1>1, <1>3, <1>4, <1>5 DEF IInv, TapMarksTheInvoiceShown

LEMMA MarkedType ==
    ASSUME NEW v \in Invoice, NEW t \in Type
    PROVE  Marked(v, t) \in Invoice /\ Marked(v, t).invoiceID = v.invoiceID /\ Marked(v, t).paid = t
BY DEF Marked, Invoice

\* A tap writes one mutation, in the array, in the row and in the queue.
LEMMA TapFacts ==
    ASSUME IInv, NEW i \in DOMAIN rows, PaidButtonTapped(i), i \in DOMAIN invoices
    PROVE  \E t \in Type :
              /\ i \in 1..Len(invoices) /\ i \in 1..Len(rows) /\ invoices[i] \in Invoice
              /\ Write([doc |-> invoices[i].invoiceID, write |-> PaidWrite(t)])
              /\ [doc |-> invoices[i].invoiceID, write |-> PaidWrite(t)] \in PaidMutation
              /\ handlers' = Append(handlers, Nobody)
              /\ invoices' = [invoices EXCEPT ![i] = Marked(invoices[i], t)]
              /\ Marked(invoices[i], t) \in Invoice
              /\ rows' = [rows EXCEPT ![i] = Marked(invoices[i], t)]
              /\ tapped' = [tapped EXCEPT ![invoices[i].invoiceID] = t]
              /\ UNCHANGED <<fetching, mainq, trap, screen, overlap, billed>>
<1>1. i \in 1..Len(invoices) /\ i \in 1..Len(rows) /\ invoices[i] \in Invoice
  BY Parts
<1>2. PICK t : t = CHOOSE u \in Type : u # rows[i].paid
  OBVIOUS
<1>3. t \in Type
  <2>1. \E u \in Type : u # rows[i].paid
    BY DEF Type
  <2> QED
    BY <1>2, <2>1
<1>4. invoices[i].invoiceID \in DocId
  BY <1>1 DEF Invoice
<1>5. [doc |-> invoices[i].invoiceID, write |-> PaidWrite(t)] \in PaidMutation
  BY <1>3, <1>4 DEF PaidMutation
<1>6. /\ SetData(Nobody, [doc |-> invoices[i].invoiceID, write |-> PaidWrite(t)])
      /\ invoices' = [invoices EXCEPT ![i] = Marked(invoices[i], t)]
      /\ rows' = [rows EXCEPT ![i] = invoices'[i]]
      /\ tapped' = [tapped EXCEPT ![invoices[i].invoiceID] = t]
      /\ UNCHANGED <<fetching, mainq, trap, screen, overlap, billed>>
  BY <1>2 DEF PaidButtonTapped
<1>7. invoices'[i] = Marked(invoices[i], t)
  BY <1>1, <1>6
<1> QED
  BY <1>1, <1>3, <1>5, <1>6, <1>7, MarkedType DEF SetData

LEMMA UserStep ==
    ASSUME IInv, UserActs
    PROVE  IInv'
<1>1. CASE Open
  BY <1>1, GetStep DEF Open
<1>2. CASE Back
  <2>1. StoreOK'
    BY <1>2, StoreStep, Parts DEF Back
  <2> QED
    BY <1>2, <2>1, Parts
    DEF Back, storeVars, callVars, IInv, CallsOK, ListOK, OneLoad, LoadsUnderWay,
        TapMarksTheInvoiceShown
<1>3. CASE Refresh
  BY <1>3, GetStep, Parts DEF Refresh, ListOK
<1>4. ASSUME NEW i \in DOMAIN rows, CellForRow(i) PROVE IInv'
  <2>1. StoreOK'
    BY <1>4, StoreStep, Parts DEF CellForRow
  <2>2. CASE i \in DOMAIN invoices
    <3>1. /\ i \in 1..Len(rows) /\ invoices[i] \in Invoice
          /\ rows' = [rows EXCEPT ![i] = invoices[i]] /\ UNCHANGED trap
      BY <1>4, <2>2, Parts DEF CellForRow
    <3>2. rows' \in Seq(Invoice)
      BY <3>1, Parts
    <3>3. ~overlap /\ invoices # <<>> => rows' = invoices
      BY <3>1, Parts
    <3> QED
      BY <1>4, <2>1, <3>1, <3>2, <3>3, Parts
      DEF CellForRow, storeVars, callVars, IInv, CallsOK, ListOK, OneLoad, LoadsUnderWay,
          TapMarksTheInvoiceShown
  <2>3. CASE i \notin DOMAIN invoices
    BY <1>4, <2>1, <2>3, Parts
    DEF CellForRow, storeVars, callVars, IInv, CallsOK, ListOK, OneLoad, LoadsUnderWay,
        TapMarksTheInvoiceShown
  <2> QED
    BY <2>2, <2>3
<1>5. ASSUME NEW i \in DOMAIN rows, PaidButtonTapped(i) PROVE IInv'
  <2>1. CASE i \in DOMAIN invoices
    <3>1. PICK t \in Type :
            /\ i \in 1..Len(invoices) /\ i \in 1..Len(rows) /\ invoices[i] \in Invoice
            /\ Write([doc |-> invoices[i].invoiceID, write |-> PaidWrite(t)])
            /\ [doc |-> invoices[i].invoiceID, write |-> PaidWrite(t)] \in PaidMutation
            /\ handlers' = Append(handlers, Nobody)
            /\ invoices' = [invoices EXCEPT ![i] = Marked(invoices[i], t)]
            /\ Marked(invoices[i], t) \in Invoice
            /\ rows' = [rows EXCEPT ![i] = Marked(invoices[i], t)]
            /\ tapped' = [tapped EXCEPT ![invoices[i].invoiceID] = t]
            /\ UNCHANGED <<fetching, mainq, trap, screen, overlap, billed>>
      BY <1>5, <2>1, TapFacts
    <3>2. StoreOK'
      BY <3>1, StoreStep, Parts
    <3>3. CallsOK'
      <4>1. /\ queue' = Append(queue, [doc |-> invoices[i].invoiceID, write |-> PaidWrite(t)])
            /\ queue \in Seq(PaidMutation)
        BY <3>1, Parts DEF Write, StoreOK
      <4>2. Len(queue') = Len(queue) + 1
        BY <3>1, <4>1
      <4>3. handlers' \in Seq({Nobody}) /\ Len(handlers') = Len(handlers) + 1
        BY <3>1, Parts
      <4> QED
        BY <3>1, <4>2, <4>3, Parts DEF CallsOK
    <3>4. /\ invoices' \in Seq(Invoice) /\ rows' \in Seq(Invoice)
          /\ invoices' # <<>> /\ invoices # <<>>
          /\ rows = invoices => rows' = invoices'
      <4>1. invoices' \in Seq(Invoice) /\ rows' \in Seq(Invoice)
        BY <3>1, Parts
      <4>2. Len(invoices') = Len(invoices) /\ invoices # <<>>
        BY <3>1, Parts
      <4>3. Len(invoices) \in Nat \ {0}
        BY <3>1, Parts
      <4>4. invoices' # <<>>
        BY <4>2, <4>3
      <4> QED
        BY <3>1, <4>1, <4>2, <4>4
    <3>5. ListOK'
      BY <3>1, <3>4, Parts DEF ListOK
    <3> QED
      BY <3>1, <3>2, <3>3, <3>4, <3>5, Parts
      DEF IInv, OneLoad, LoadsUnderWay, TapMarksTheInvoiceShown
  <2>2. CASE i \notin DOMAIN invoices
    <3>1. StoreOK'
      BY <1>5, <2>2, StoreStep, Parts DEF PaidButtonTapped
    <3> QED
      BY <1>5, <2>2, <3>1, Parts
      DEF PaidButtonTapped, storeVars, callVars, IInv, CallsOK, ListOK, OneLoad, LoadsUnderWay,
          TapMarksTheInvoiceShown
  <2> QED
    BY <2>1, <2>2
<1> QED
  BY <1>1, <1>2, <1>3, <1>4, <1>5 DEF UserActs

\* The first answer of the main queue, and what it leaves.
LEMMA HeadAnswer ==
    ASSUME IInv, mainq # <<>>
    PROVE  /\ Head(mainq) \in ListCompletion /\ Head(mainq) = mainq[1] /\ 1 \in 1..Len(mainq)
           /\ Tail(mainq) \in Seq(ListCompletion) /\ Len(Tail(mainq)) = Len(mainq) - 1
           /\ Len(mainq) \in Nat \ {0}
           /\ \A k \in 1..Len(Tail(mainq)) : k + 1 \in 1..Len(mainq) /\ Tail(mainq)[k] = mainq[k + 1]
BY Parts

\* The invoices that a snapshot brings join the array.
LEMMA SnapshotFacts ==
    ASSUME IInv, SnapshotArrives
    PROVE  \E docs \in Seq(ListedSnapshot), new \in Seq(Invoice) :
              /\ docs = Head(mainq).docs /\ Head(mainq).kind = "snapshot" /\ mainq # <<>>
              /\ Len(new) = Len(docs)
              /\ \A i \in 1..Len(docs) : docs[i] \in ListedSnapshot /\ new[i] = InvoiceOf(docs[i])
              /\ invoices' = invoices \o new
              /\ invoices = <<>> => invoices' = new
              /\ invoices' \in Seq(Invoice)
<1>1. mainq # <<>> /\ Head(mainq).kind = "snapshot"
  BY DEF SnapshotArrives
<1>2. PICK docs \in Seq(ListedSnapshot) : docs = Head(mainq).docs
  BY <1>1, HeadAnswer DEF ListCompletion
<1> DEFINE new == [i \in DOMAIN docs |-> InvoiceOf(docs[i])]
<1>3. \A i \in 1..Len(docs) : docs[i] \in ListedSnapshot /\ InvoiceOf(docs[i]) \in Invoice
  <2>1. \A s \in ListedSnapshot : InvoiceOf(s) \in Invoice
    BY DEF ListedSnapshot, Snapshot, InvoiceOf, Invoice
  <2> QED
    BY <1>2, <2>1
<1>4. /\ new \in Seq(Invoice) /\ Len(new) = Len(docs)
      /\ \A i \in 1..Len(docs) : new[i] = InvoiceOf(docs[i])
  BY <1>2, <1>3
<1>5. invoices' = invoices \o new
  BY <1>2 DEF SnapshotArrives
<1> HIDE DEF new
<1>6. invoices \o new \in Seq(Invoice) /\ (invoices = <<>> => invoices \o new = new)
  BY <1>4, Parts, ConcatProperties, ConcatEmptySeq
<1> QED
  BY <1>1, <1>2, <1>3, <1>4, <1>5, <1>6

LEMMA HandlerStep ==
    ASSUME IInv, SnapshotArrives \/ LoadErrorArrives
    PROVE  IInv'
<1>1. /\ mainq # <<>> /\ mainq' = Tail(mainq)
      /\ UNCHANGED <<storeVars, fetching, handlers, screen, trap, overlap, billed, tapped>>
  BY DEF SnapshotArrives, LoadErrorArrives, listVars
<1>2. StoreOK'
  BY <1>1, StoreStep, Parts
<1>3. CallsOK'
  BY <1>1, HeadAnswer, Parts DEF CallsOK, storeVars
<1>4. LoadsUnderWay' = LoadsUnderWay - 1 /\ LoadsUnderWay \in Nat
  <2>1. Len(mainq') = Len(mainq) - 1 /\ Len(mainq) \in Nat
    BY <1>1, HeadAnswer
  <2>2. fetching' = fetching /\ fetching["list"] \in Nat
    BY <1>1, Parts
  <2> QED
    BY <2>1, <2>2 DEF LoadsUnderWay
<1>5. /\ invoices' \in Seq(Invoice) /\ rows' \in Seq(Invoice)
      /\ rows' = invoices' \/ UNCHANGED <<invoices, rows>>
  BY SnapshotFacts, Parts DEF SnapshotArrives, LoadErrorArrives, listVars
<1>6. ListOK'
  BY <1>1, <1>5, Parts DEF ListOK
<1>7. ~overlap => LoadsUnderWay' = 0
  BY <1>4, HeadAnswer, <1>1, Parts DEF OneLoad, LoadsUnderWay
<1> QED
  BY <1>1, <1>2, <1>3, <1>5, <1>6, <1>7, Parts DEF IInv, OneLoad, TapMarksTheInvoiceShown

\* What a query adds to the main queue.
LEMMA AnswerFacts ==
    ASSUME IInv, NEW view \in [DocId -> Document], \A d \in DocId : Whole(view[d]),
           AnswerQuery("list", view, Mine)
    PROVE  \E docs \in Results(view, Mine) :
              /\ docs \in Seq(ListedSnapshot)
              /\ mainq' = Append(mainq, [kind |-> "snapshot", to |-> "list", docs |-> docs])
              /\ [kind |-> "snapshot", to |-> "list", docs |-> docs] \in ListCompletion
              /\ fetching["list"] > 0 /\ fetching' = [fetching EXCEPT !["list"] = @ - 1]
              /\ UNCHANGED handlers
<1>1. PICK docs \in Results(view, Mine) :
        mainq' = Append(mainq, [kind |-> "snapshot", to |-> "list", docs |-> docs])
  BY DEF AnswerQuery
<1>2. docs \in Seq(ListedSnapshot)
  BY ResultsType
<1>3. [kind |-> "snapshot", to |-> "list", docs |-> docs] \in ListCompletion
  BY <1>2 DEF ListCompletion
<1> QED
  BY <1>1, <1>2, <1>3 DEF AnswerQuery

LEMMA AnswerStep ==
    ASSUME IInv, LoadAnswered
    PROVE  IInv'
<1>1. PICK c \in ListCompletion :
        /\ mainq' = Append(mainq, c)
        /\ fetching["list"] > 0 /\ fetching' = [fetching EXCEPT !["list"] = @ - 1]
        /\ UNCHANGED <<handlers, queue>> /\ (Synchronise \/ UNCHANGED storeVars)
  <2>1. CASE QueryServer("list", Mine)
    BY <2>1, AnswerFacts, ViewWhole, Parts DEF QueryServer, Synchronise
  <2>2. CASE QueryCache("list", Mine)
    BY <2>2, AnswerFacts, ViewWhole, Parts DEF QueryCache, storeVars
  <2>3. CASE QueryFails("list")
    BY <2>3 DEF QueryFails, ListCompletion, storeVars
  <2> QED
    BY <2>1, <2>2, <2>3 DEF LoadAnswered
<1>2. UNCHANGED <<listVars, billed, tapped>>
  BY DEF LoadAnswered
<1>3. StoreOK'
  BY <1>1, StoreStep, Parts
<1>4. mainq' \in Seq(ListCompletion) /\ Len(mainq') = Len(mainq) + 1
  BY <1>1, Parts, AppendProperties
<1>5. /\ fetching' \in [{"list"} -> Nat] /\ fetching'["list"] = fetching["list"] - 1
      /\ fetching["list"] \in Nat
  BY <1>1, Parts
<1>6. LoadsUnderWay' = LoadsUnderWay
  BY <1>4, <1>5, Parts DEF LoadsUnderWay
<1> QED
  BY <1>1, <1>2, <1>3, <1>4, <1>5, <1>6, Parts
  DEF listVars, IInv, CallsOK, ListOK, OneLoad, TapMarksTheInvoiceShown

\* No handler waits for a mark, so an answer to it is told to nobody.
LEMMA NobodyIsTold ==
    ASSUME IInv, WriteAnswered
    PROVE  /\ Acknowledge \/ Reject
           /\ queue # <<>> /\ queue' = Tail(queue)
           /\ handlers' \in Seq({Nobody}) /\ Len(handlers') = Len(queue')
           /\ UNCHANGED <<fetching, mainq>>
<1>1. /\ Acknowledge \/ Reject
      /\ handlers' = Tail(handlers) /\ UNCHANGED fetching
      /\ mainq' = mainq \/ Head(handlers) # Nobody
  BY DEF WriteAnswered, NotifyUser
<1>2. queue \in Seq(Mutation) /\ sent \in 0..Len(queue)
  BY Parts DEF StoreTypeOK
<1>3. queue # <<>> /\ queue' = Tail(queue)
  BY <1>1, <1>2 DEF Acknowledge, Reject
<1>4. Len(queue) \in Nat \ {0} /\ Len(Tail(queue)) = Len(queue) - 1
  BY <1>2, <1>3
<1>5. handlers # <<>>
  BY <1>4, Parts
<1>6. Head(handlers) = Nobody /\ Tail(handlers) \in Seq({Nobody})
      /\ Len(Tail(handlers)) = Len(handlers) - 1
  BY <1>5, Parts
<1> QED
  BY <1>1, <1>3, <1>4, <1>6, Parts

LEMMA ClientStep ==
    ASSUME IInv, PaymentAnswered \/ StreamWorks \/ PortalActs \/ Restart
    PROVE  IInv'
<1>1. CASE PaymentAnswered
  <2>1. StoreOK'
    BY <1>1, NobodyIsTold, StoreStep, Parts DEF PaymentAnswered
  <2> QED
    BY <1>1, <2>1, NobodyIsTold, Parts
    DEF PaymentAnswered, listVars, IInv, CallsOK, ListOK, OneLoad, LoadsUnderWay,
        TapMarksTheInvoiceShown
<1>2. CASE StreamWorks
  <2>1. StoreOK' /\ UNCHANGED queue
    BY <1>2, StoreStep, Parts DEF StreamWorks, WriteStream, Deliver, Reconnect
  <2> QED
    BY <1>2, <2>1, Parts
    DEF StreamWorks, WriteStream, callVars, listVars, IInv, CallsOK, ListOK, OneLoad,
        LoadsUnderWay, TapMarksTheInvoiceShown
<1>3. CASE PortalActs
  <2>1. StoreOK' /\ UNCHANGED queue /\ billed' \subseteq DocId
    BY <1>3, StoreStep, Parts DEF PortalActs, RemoteSet, ListOK
  <2> QED
    BY <1>3, <2>1, Parts
    DEF PortalActs, callVars, listVars, IInv, CallsOK, ListOK, OneLoad,
        LoadsUnderWay, TapMarksTheInvoiceShown
<1>4. CASE Restart
  <2>1. /\ UNCHANGED <<storeVars, billed, tapped>> /\ mainq' = <<>>
        /\ invoices' = <<>> /\ rows' = <<>> /\ overlap' = FALSE
        /\ screen' = "away" /\ trap' = "none"
        /\ fetching' = [r \in {"list"} |-> 0]
        /\ handlers' = [i \in DOMAIN handlers |-> Nobody]
    BY <1>4, FieldNames DEF Restart, ProcessEnds
  <2>2. StoreOK'
    BY <2>1, StoreStep, Parts
  <2>3. handlers' \in Seq({Nobody}) /\ Len(handlers') = Len(handlers)
    BY <2>1, Parts
  <2>4. LoadsUnderWay' = 0
    BY <2>1 DEF LoadsUnderWay
  <2>5. <<>> \in Seq(Invoice) /\ <<>> \in Seq(ListCompletion)
    OBVIOUS
  <2>6. CallsOK'
    BY <2>1, <2>3, <2>5, Parts DEF storeVars, CallsOK
  <2>7. ListOK'
    BY <2>1, <2>5, Parts DEF ListOK
  <2> QED
    BY <2>1, <2>2, <2>4, <2>6, <2>7 DEF IInv, OneLoad, TapMarksTheInvoiceShown
<1> QED
  BY <1>1, <1>2, <1>3, <1>4

LEMMA Initially == Init => IInv
<1> SUFFICES ASSUME Init PROVE IInv
  OBVIOUS
<1>1. StoreOK
  <2>1. server \in [DocId -> Document] /\ cache \in [DocId -> Document]
        /\ \A d \in DocId : Whole(server[d]) /\ Whole(cache[d])
    BY DocumentTypes DEF Init
  <2>2. /\ queue \in Seq(Mutation) /\ queue \in Seq(PaidMutation)
        /\ sent \in 0..Len(queue) /\ synced \in [DocId -> 0..sent]
    BY DEF Init
  <2> QED
    BY <2>1, <2>2 DEF StoreOK, StoreTypeOK
<1>2. /\ fetching = [r \in {"list"} |-> 0] /\ handlers = <<>> /\ mainq = <<>> /\ queue = <<>>
      /\ invoices = <<>> /\ rows = <<>>
  BY FieldNames DEF Init, CallsInit
<1>3. CallsOK
  BY <1>2 DEF CallsOK
<1>4. ListOK
  <2>1. <<>> \in Seq(Invoice)
    OBVIOUS
  <2> QED
    BY <1>2, <2>1, InvoicesAssumption DEF Init, ListOK
<1> QED
  BY <1>1, <1>2, <1>3, <1>4 DEF IInv, OneLoad, LoadsUnderWay, TapMarksTheInvoiceShown

LEMMA Stutter ==
    ASSUME IInv, UNCHANGED vars
    PROVE  IInv'
<1>1. StoreOK'
  BY StoreStep, Parts DEF vars
<1> QED
  BY <1>1, Parts
  DEF vars, storeVars, callVars, listVars, IInv, CallsOK, ListOK, OneLoad, LoadsUnderWay,
      TapMarksTheInvoiceShown

LEMMA Inductive == IInv /\ [Next]_vars => IInv'
BY UserStep, AnswerStep, HandlerStep, ClientStep, Stutter DEF Next

LEMMA Invariant == Spec => []IInv
BY Initially, Inductive, PTL DEF Spec

\* Every variable holds what it may hold, in every reachable state: the array
\* and the table hold invoices, and the only handlers that ever wait are those
\* of the loads.
THEOREM TypeCorrect == Spec => []TypeOK
<1>1. IInv => TypeOK
  <2> SUFFICES ASSUME IInv PROVE TypeOK
    OBVIOUS
  <2>1. mainq \in Seq(Completion)
    <3>1. Seq(ListedSnapshot) \subseteq Seq(Snapshot)
      BY SeqMonotonic DEF ListedSnapshot
    <3>2. ListCompletion \subseteq Completion
      BY <3>1, FieldNames DEF ListCompletion, Completion
    <3> QED
      BY <3>2, Parts, SeqMonotonic
  <2>2. handlers \in Seq(Waiter \cup {Nobody})
    BY Parts, FieldNames
  <2>3. CallsTypeOK
    BY <2>1, <2>2, Parts, FieldNames DEF CallsTypeOK
  <2> QED
    BY <2>3, Parts DEF ListOK, TypeOK
<1> QED
  BY <1>1, Invariant, PTL

\* Whatever loads, taps, answers and restarts are interleaved, a tap marks the
\* invoice that its row shows, as long as no two loads have filled one array.
THEOREM TapsHitTheRowShown == Spec => []TapMarksTheInvoiceShown
<1>1. IInv => TapMarksTheInvoiceShown
  BY DEF IInv
<1> QED
  BY <1>1, Invariant, PTL

\* No write of the app, however late it is delivered and however often, lists
\* an invoice that the portal has withdrawn: only a bill under a key that has
\* never been used does.
THEOREM WithdrawnStayAway == Spec => WithdrawnBillsStayAway
<1>1. ASSUME IInv, [Next]_vars, NEW d \in billed, ~Listed(server[d])
      PROVE  ~Listed(server'[d])
  <2>1. /\ d \in DocId /\ server \in [DocId -> Document]
        /\ queue \in Seq(PaidMutation) /\ sent \in 0..Len(queue)
    BY <1>1 DEF IInv, ListOK, StoreOK, StoreTypeOK
  <2>2. CASE UNCHANGED server
    BY <1>1, <2>2
  <2>3. CASE Deliver
    <3>1. queue[sent + 1] \in PaidMutation /\ server' = Apply(server, queue[sent + 1])
      BY <2>1, <2>3 DEF Deliver
    <3> QED
      BY <1>1, <2>1, <3>1, ApplyWhole
  <2>4. CASE PortalActs
    <3>1. PICK e \in DocId :
            \/ e \notin billed /\ RemoteSet(e, Bill)
            \/ RemoteSet(e, NoDoc)
      BY <2>4 DEF PortalActs
    <3> QED
      BY <1>1, <2>1, <3>1, DocumentTypes DEF RemoteSet
  <2>5. UNCHANGED server \/ Deliver \/ PortalActs
    BY <1>1
    DEF Next, UserActs, Open, Back, Refresh, CellForRow, PaidButtonTapped, SnapshotArrives,
        LoadErrorArrives, LoadAnswered, QueryServer, QueryCache, QueryFails, PaymentAnswered,
        WriteAnswered, StreamWorks, WriteStream, Restart, ProcessEnds, SetData, Write,
        Acknowledge, Reject, Reconnect, Synchronise, storeVars, vars
  <2> QED
    BY <2>2, <2>3, <2>4, <2>5
<1>2. IInv /\ [Next]_vars => [\A d \in billed : ~Listed(server[d]) => ~Listed(server'[d])]_vars
  BY <1>1
<1> QED
  BY <1>2, Invariant, PTL DEF Spec, WithdrawnBillsStayAway

-----------------------------------------------------------------------------
(***************************************************************************)
(* The marks.  Every step but a tap leaves what the server will hold of an *)
(* invoice as it is, unless it withdraws the invoice; a tap changes one    *)
(* invoice, which the array holds once and no answer on its way lists.     *)
(***************************************************************************)

QuietStep ==
    \/ Deliver \/ Acknowledge \/ Reconnect \/ Synchronise
    \/ \E d \in DocId : \/ RemoteSet(d, NoDoc)
                        \/ d \notin billed /\ RemoteSet(d, Bill) /\ d \in billed'
    \/ UNCHANGED storeVars

\* The store, unfolded.
LEMMA StoreParts ==
    ASSUME IInv
    PROVE  /\ StoreOK /\ StoreTypeOK /\ queue \in Seq(PaidMutation) /\ queue \in Seq(Mutation)
           /\ Len(queue) \in Nat /\ sent \in 0..Len(queue) /\ synced \in [DocId -> 0..sent]
           /\ server \in [DocId -> Document] /\ cache \in [DocId -> Document]
           /\ billed \subseteq DocId
BY DEF IInv, StoreOK, StoreTypeOK, ListOK

LEMMA TypeField == "invoiceType" \in Field /\ "projectID" \in Field
BY FieldNames

\* An acknowledged mark lists no invoice in the cache.
LEMMA AcknowledgedCache ==
    ASSUME IInv, Acknowledge, NEW d \in DocId
    PROVE  /\ queue # <<>> /\ queue' = Tail(queue) /\ server' = server /\ sent' = sent - 1
           /\ sent \in 1..Len(queue)
           /\ Listed(cache'[d]) <=> Listed(cache[d])
           /\ synced'[d] = IF synced[d] = 0 THEN 0 ELSE synced[d] - 1
           /\ synced[d] # 0 => cache'[d] = cache[d]
<1>1. /\ queue # <<>> /\ queue' = Tail(queue) /\ server' = server /\ sent' = sent - 1
      /\ sent \in 1..Len(queue)
  BY StoreParts DEF Acknowledge
<1>2. Head(queue) \in PaidMutation
  BY <1>1, StoreParts
<1>3. Head(queue) \in Mutation /\ Head(queue).doc \in DocId
  BY <1>2, PaidMutationType
<1>4. cache' = IF synced[Head(queue).doc] = 0 THEN Apply(cache, Head(queue)) ELSE cache
  BY DEF Acknowledge, AcknowledgeCache
<1>5. Listed(cache'[d]) <=> Listed(cache[d])
  BY <1>2, <1>4, ApplyWhole, StoreParts
<1>6. synced[d] # 0 => cache'[d] = cache[d]
  BY <1>3, <1>4, StoreParts DEF Apply
<1> QED
  BY <1>1, <1>5, <1>6 DEF Acknowledge, AcknowledgeCache, OneLessSynced

LEMMA KeysStep ==
    ASSUME MarksInv, QuietStep, billed \subseteq billed'
    PROVE  KeysUsed'
<1>1. IInv /\ KeysUsed
  BY DEF MarksInv
<1>2. CASE Deliver
  <2>1. queue[sent + 1] \in PaidMutation
    BY <1>1, <1>2, StoreParts DEF Deliver
  <2>2. \A d \in DocId : Listed(server'[d]) <=> Listed(server[d])
    BY <1>1, <1>2, <2>1, StoreParts, ApplyWhole DEF Deliver
  <2> QED
    BY <1>1, <1>2, <2>2 DEF KeysUsed, Deliver
<1>3. CASE Acknowledge
  <2>1. \A d \in DocId : /\ Listed(cache'[d]) <=> Listed(cache[d])
                         /\ server' = server
    BY <1>1, <1>3, AcknowledgedCache
  <2>2. queue # <<>> /\ queue' = Tail(queue) /\ server' = server
    BY <1>1, <1>3, StoreParts DEF Acknowledge
  <2>3. \A i \in 1..Len(Tail(queue)) : i + 1 \in 1..Len(queue) /\ Tail(queue)[i] = queue[i + 1]
    BY <1>1, <2>2, StoreParts, TailOf
  <2>4. \A i \in 1..Len(queue') : queue'[i].doc \in billed
    BY <1>1, <2>2, <2>3 DEF KeysUsed
  <2> QED
    BY <1>1, <2>1, <2>2, <2>4 DEF KeysUsed
<1>4. CASE Reconnect
  BY <1>1, <1>4 DEF KeysUsed, Reconnect
<1>5. CASE Synchronise
  BY <1>1, <1>5 DEF KeysUsed, Synchronise
<1>6. ASSUME NEW d \in DocId, RemoteSet(d, NoDoc) PROVE KeysUsed'
  BY <1>1, <1>6, StoreParts, DocumentTypes DEF KeysUsed, RemoteSet
<1>7. ASSUME NEW d \in DocId, RemoteSet(d, Bill), d \in billed' PROVE KeysUsed'
  BY <1>1, <1>7, StoreParts DEF KeysUsed, RemoteSet
<1>8. CASE UNCHANGED storeVars
  BY <1>1, <1>8 DEF KeysUsed, storeVars
<1> QED
  BY <1>2, <1>3, <1>4, <1>5, <1>6, <1>7, <1>8 DEF QuietStep

\* A key that the portal has not used is written by no mark.
LEMMA UnusedKey ==
    ASSUME IInv, KeysUsed, NEW d \in DocId, d \notin billed
    PROVE  /\ ~Listed(cache[d]) /\ Unwritten(queue, d, "invoiceType")
           /\ \A docs, k : Holds(docs, queue, k, d, "invoiceType")
BY DEF KeysUsed, Unwritten, Writes, Holds, LastOfFirst

LEMMA MarksMeetStep ==
    ASSUME MarksInv, QuietStep
    PROVE  MarksMeet'
<1>1. IInv /\ KeysUsed /\ MarksMeet
  BY DEF MarksInv
<1> SUFFICES ASSUME NEW d \in DocId
             PROVE  /\ Listed(server'[d]) => Holds(server', queue', sent', d, "invoiceType")
                    /\ Listed(cache'[d]) => Holds(cache', queue', synced'[d], d, "invoiceType")
                    /\ Listed(server'[d]) /\ Listed(cache'[d]) /\ Unwritten(queue', d, "invoiceType")
                          => server'[d].invoiceType = cache'[d].invoiceType
  BY DEF MarksMeet
<1>2. /\ Listed(server[d]) => Holds(server, queue, sent, d, "invoiceType")
      /\ Listed(cache[d]) => Holds(cache, queue, synced[d], d, "invoiceType")
      /\ Listed(server[d]) /\ Listed(cache[d]) /\ Unwritten(queue, d, "invoiceType")
            => server[d].invoiceType = cache[d].invoiceType
  BY <1>1 DEF MarksMeet
<1>3. CASE Deliver
  <2>1. /\ queue[sent + 1] \in PaidMutation /\ server' = Apply(server, queue[sent + 1])
        /\ sent' = sent + 1 /\ UNCHANGED <<cache, queue, synced>>
        /\ sent \in 0..(Len(queue) - 1) /\ sent + 1 \in 1..Len(queue)
    BY <1>1, <1>3, StoreParts DEF Deliver
  <2>2. Listed(server'[d]) <=> Listed(server[d])
    BY <1>1, <2>1, StoreParts, ApplyWhole
  <2>3. Listed(server'[d]) => Holds(server', queue', sent', d, "invoiceType")
    BY <1>1, <1>2, <2>1, <2>2, StoreParts, TypeField, HoldsApply
  <2>4. Unwritten(queue, d, "invoiceType") => server'[d].invoiceType = server[d].invoiceType
    <3>1. queue[sent + 1] \in Mutation
      BY <2>1, PaidMutationType
    <3> QED
      BY <1>1, <2>1, <3>1, StoreParts, TypeField, ApplyField DEF Unwritten, Writes
  <2> QED
    BY <1>2, <2>1, <2>2, <2>3, <2>4
<1>4. CASE Acknowledge
  <2>1. /\ queue # <<>> /\ queue' = Tail(queue) /\ server' = server /\ sent' = sent - 1
        /\ sent \in 1..Len(queue) /\ synced[d] \in 0..sent
        /\ Listed(cache'[d]) <=> Listed(cache[d])
        /\ synced'[d] = IF synced[d] = 0 THEN 0 ELSE synced[d] - 1
        /\ synced[d] # 0 => cache'[d] = cache[d]
    BY <1>1, <1>4, AcknowledgedCache, StoreParts
  <2>2. sent - 1 \in Nat /\ (sent - 1) + 1 = sent /\ queue \in Seq(Mutation)
    BY <1>1, <2>1, StoreParts
  <2>3. Listed(server'[d]) => Holds(server', queue', sent', d, "invoiceType")
    BY <1>2, <2>1, <2>2, HoldsTail
  <2>4. Listed(cache'[d]) => Holds(cache', queue', synced'[d], d, "invoiceType")
    <3>1. CASE synced[d] = 0
      BY <2>1, <2>2, <3>1, HoldsNone, TailOf
    <3>2. CASE synced[d] # 0
      <4>1. synced[d] - 1 \in Nat /\ (synced[d] - 1) + 1 = synced[d]
        BY <2>1, <3>2
      <4>2. Listed(cache[d]) => Holds(cache, queue', synced'[d], d, "invoiceType")
        BY <1>2, <2>1, <2>2, <3>2, <4>1, HoldsTail
      <4> QED
        BY <2>1, <3>2, <4>2, HoldsLocal
    <3> QED
      BY <3>1, <3>2
  <2> QED
    BY <1>1, <1>2, <1>4, <2>1, <2>3, <2>4, AcknowledgeMeets, StoreParts, TypeField
<1>5. CASE Reconnect
  <2>1. UNCHANGED <<server, cache, queue>> /\ sent' = 0 /\ synced'[d] = 0
    BY <1>5 DEF Reconnect
  <2> QED
    BY <1>1, <1>2, <2>1, StoreParts, HoldsNone
<1>6. CASE Synchronise
  <2>1. /\ cache' = server /\ UNCHANGED <<server, queue, sent>>
        /\ synced'[d] = sent \/ server[d] = NoDoc
    BY <1>6 DEF Synchronise
  <2> QED
    BY <1>2, <2>1, DocumentTypes
<1>7. ASSUME NEW e \in DocId, NEW doc \in {Bill, NoDoc}, RemoteSet(e, doc),
             doc = Bill => e \notin billed
      PROVE  /\ Listed(server'[d]) => Holds(server', queue', sent', d, "invoiceType")
             /\ Listed(cache'[d]) => Holds(cache', queue', synced'[d], d, "invoiceType")
             /\ Listed(server'[d]) /\ Listed(cache'[d]) /\ Unwritten(queue', d, "invoiceType")
                   => server'[d].invoiceType = cache'[d].invoiceType
  <2>1. UNCHANGED <<cache, queue, sent, synced>> /\ server' = [server EXCEPT ![e] = doc]
    BY <1>7 DEF RemoteSet
  <2>2. CASE d = e
    <3>1. server'[d] = doc
      BY <1>1, <2>1, <2>2, StoreParts
    <3> QED
      BY <1>1, <1>2, <1>7, <2>1, <2>2, <3>1, UnusedKey, DocumentTypes
  <2>3. CASE d # e
    <3>1. server'[d] = server[d]
      BY <1>1, <2>1, <2>3, StoreParts
    <3> QED
      BY <1>2, <2>1, <3>1, HoldsLocal
  <2> QED
    BY <2>2, <2>3
<1>8. CASE UNCHANGED storeVars
  BY <1>2, <1>8 DEF storeVars
<1>9. CASE \E e \in DocId : RemoteSet(e, NoDoc) \/ (e \notin billed /\ RemoteSet(e, Bill))
  <2>1. Bill # NoDoc
    BY DocumentTypes
  <2>2. PICK e \in DocId : RemoteSet(e, NoDoc) \/ (e \notin billed /\ RemoteSet(e, Bill))
    BY <1>9
  <2>3. CASE RemoteSet(e, NoDoc)
    BY <1>7, <2>1, <2>3
  <2>4. CASE e \notin billed /\ RemoteSet(e, Bill)
    BY <1>7, <2>4
  <2> QED
    BY <2>2, <2>3, <2>4
<1> QED
  BY <1>3, <1>4, <1>5, <1>6, <1>8, <1>9 DEF QuietStep

\* No quiet step changes what the server will hold of an invoice.
LEMMA FinalKept ==
    ASSUME MarksInv, QuietStep, NEW d \in billed, NEW t, FinalMark(d, t)
    PROVE  FinalMark(d, t)'
<1>1. IInv /\ KeysUsed /\ MarksMeet /\ d \in DocId
  BY StoreParts DEF MarksInv
<1>2. StoreOK'
  <2>1. QuietStep => \/ Deliver \/ Acknowledge \/ Reconnect \/ Synchronise
                     \/ \E e \in DocId : RemoteSet(e, Bill) \/ RemoteSet(e, NoDoc)
                     \/ UNCHANGED storeVars
    BY DEF QuietStep
  <2> QED
    BY <1>1, <2>1, StoreParts, StoreStep
<1>3. Listed(LocalView'[d]) <=> Listed(server'[d])
  <2>1. /\ server' \in [DocId -> Document] /\ queue' \in Seq(PaidMutation)
    BY <1>2 DEF StoreOK, StoreTypeOK
  <2> QED
    BY <1>1, <2>1, OverlayWhole DEF LocalView
<1>4. Listed(LocalView[d]) <=> Listed(server[d])
  BY <1>1, StoreParts, ViewWhole
<1>5. CASE LocalView'[d] = LocalView[d]
  BY <1>5 DEF FinalMark
<1>6. CASE Acknowledge
  <2>1. Listed(server[d]) => LocalView'[d].invoiceType = LocalView[d].invoiceType
    BY <1>1, <1>6, StoreParts, TypeField, AcknowledgeKeepsField DEF MarksMeet
  <2>2. server' = server
    BY <1>6 DEF Acknowledge
  <2> QED
    BY <1>3, <1>4, <2>1, <2>2 DEF FinalMark
<1>7. CASE Deliver
  <2>1. sent + 1 \in 1..Len(queue)
    BY <1>1, <1>7, StoreParts DEF Deliver
  <2>2. LocalView' = LocalView
    BY <1>1, <1>7, <2>1, OverlayAbsorbs, StoreParts DEF Deliver, LocalView
  <2> QED
    BY <1>5, <2>2
<1>8. CASE Reconnect \/ Synchronise \/ UNCHANGED storeVars
  <2>1. UNCHANGED <<server, queue>>
    BY <1>8 DEF Reconnect, Synchronise, storeVars
  <2>2. LocalView' = LocalView
    BY <2>1 DEF LocalView
  <2> QED
    BY <1>5, <2>2
<1>9. ASSUME NEW e \in DocId, RemoteSet(e, NoDoc) \/ (e \notin billed /\ RemoteSet(e, Bill))
      PROVE  FinalMark(d, t)'
  <2>1. UNCHANGED queue /\ (e = d => server'[d] = NoDoc) /\ (e # d => server'[d] = server[d])
    BY <1>1, <1>9, StoreParts DEF RemoteSet
  <2>2. CASE e = d
    BY <1>3, <2>1, <2>2, DocumentTypes DEF FinalMark
  <2>3. CASE e # d
    <3>1. LocalView'[d] = LocalView[d]
      BY <1>1, <2>1, <2>3, OverlayLocal DEF LocalView
    <3> QED
      BY <1>5, <3>1
  <2> QED
    BY <2>2, <2>3
<1> QED
  BY <1>6, <1>7, <1>8, <1>9 DEF QuietStep

\* Neither does it spoil an answer on its way or an array.
LEMMA MarkKept ==
    ASSUME MarksInv, QuietStep, billed \subseteq billed', ~overlap' => ~overlap,
           NEW d, NEW t, MarkFits(d, t)
    PROVE  MarkFits(d, t)'
BY FinalKept DEF MarkFits

LEMMA AnswerKept ==
    ASSUME MarksInv, QuietStep, billed \subseteq billed', ~overlap' => ~overlap,
           NEW c, AnswerFits(c)
    PROVE  AnswerFits(c)'
<1>1. CASE c.kind # "snapshot"
  BY <1>1 DEF AnswerFits
<1>2. CASE c.kind = "snapshot"
  <2>1. \A i \in DOMAIN c.docs : MarkFits(c.docs[i].documentID, c.docs[i].data.invoiceType)'
    <3> TAKE i \in DOMAIN c.docs
    <3>1. MarkFits(c.docs[i].documentID, c.docs[i].data.invoiceType)
      BY <1>2 DEF AnswerFits
    <3> QED
      BY <3>1, MarkKept
  <2> QED
    BY <1>2, <2>1 DEF AnswerFits
<1> QED
  BY <1>1, <1>2

LEMMA AnswersKept ==
    ASSUME MarksInv, QuietStep, billed \subseteq billed', ~overlap' => ~overlap, UNCHANGED mainq
    PROVE  AnswersFit'
<1> SUFFICES ASSUME NEW k \in DOMAIN mainq PROVE AnswerFits(mainq[k])'
  BY DEF AnswersFit
<1>1. PICK c : c = mainq[k]
  OBVIOUS
<1>2. AnswerFits(c)
  BY <1>1 DEF MarksInv, AnswersFit
<1>3. AnswerFits(c)'
  BY <1>2, AnswerKept
<1>4. mainq'[k] = c
  BY <1>1
<1> QED
  BY <1>3, <1>4 DEF AnswerFits

LEMMA RowsKept ==
    ASSUME MarksInv, QuietStep, billed \subseteq billed', ~overlap' => ~overlap, UNCHANGED invoices
    PROVE  RowsFit'
<1>1. ASSUME NEW i \in DOMAIN invoices
      PROVE  MarkFits(invoices[i].invoiceID, invoices[i].paid)'
  <2>1. PICK v : v = invoices[i]
    OBVIOUS
  <2>2. MarkFits(v.invoiceID, v.paid)
    BY <2>1 DEF MarksInv, RowsFit
  <2>3. MarkFits(v.invoiceID, v.paid)'
    BY <2>2, MarkKept
  <2> QED
    BY <2>1, <2>3 DEF MarkFits
<1>2. ~overlap' => \A i, j \in DOMAIN invoices :
                       invoices[i].invoiceID = invoices[j].invoiceID => i = j
  BY DEF MarksInv, RowsFit
<1> QED
  BY <1>1, <1>2 DEF RowsFit

\* What the server and the cache list, a query reports with its final mark.
LEMMA ViewsAreFinal ==
    ASSUME MarksInv, NEW d \in DocId
    PROVE  /\ FinalMark(d, LocalView[d].invoiceType)
           /\ Listed(CachedView[d]) => FinalMark(d, CachedView[d].invoiceType)
           /\ Listed(LocalView[d]) \/ Listed(CachedView[d]) => d \in billed
<1>1. IInv /\ KeysUsed /\ MarksMeet
  BY DEF MarksInv
<1>2. /\ Listed(LocalView[d]) <=> Listed(server[d])
      /\ Listed(CachedView[d]) <=> Listed(cache[d])
  BY <1>1, ViewWhole, StoreParts
<1>3. ASSUME Listed(server[d]), Listed(cache[d])
      PROVE  CachedView[d].invoiceType = LocalView[d].invoiceType
  <2>1. CASE Unwritten(queue, d, "invoiceType")
    <3>1. /\ LocalView[d].invoiceType = server[d].invoiceType
          /\ CachedView[d].invoiceType = cache[d].invoiceType
      BY <1>1, <2>1, StoreParts, TypeField, OverlayUnwritten DEF LocalView, CachedView, Unwritten
    <3> QED
      BY <1>1, <1>3, <2>1, <3>1 DEF MarksMeet
  <2>2. CASE ~Unwritten(queue, d, "invoiceType")
    <3>1. PICK i \in 1..Len(queue) : LastWriter(queue, i, d, "invoiceType")
      BY <1>1, <2>2, StoreParts, TypeField, LastWriterExists DEF Unwritten
    <3> QED
      BY <1>1, <3>1, StoreParts, TypeField, OverlayWritten DEF LocalView, CachedView
  <2> QED
    BY <2>1, <2>2
<1> QED
  BY <1>1, <1>2, <1>3 DEF FinalMark, KeysUsed

LEMMA FetchMarks ==
    ASSUME MarksInv, LoadAnswered
    PROVE  MarksInv'
<1>1. IInv /\ IInv' /\ UNCHANGED <<listVars, billed, tapped>>
  BY AnswerStep DEF MarksInv, LoadAnswered
<1>2. QuietStep
  BY DEF LoadAnswered, QueryServer, QueryCache, QueryFails, QuietStep
<1>3. KeysUsed'
  BY <1>1, <1>2, KeysStep
<1>4. MarksMeet' /\ RowsFit'
  BY <1>1, <1>2, MarksMeetStep, RowsKept DEF listVars
<1>5. ASSUME NEW c \in ListCompletion, AnswerFits(c), mainq' = Append(mainq, c)
      PROVE  AnswersFit'
  <2>1. \A k \in DOMAIN mainq' : mainq'[k] = c \/ (k \in DOMAIN mainq /\ mainq'[k] = mainq[k])
    BY <1>1, <1>5, Parts
  <2> SUFFICES ASSUME NEW k \in DOMAIN mainq' PROVE AnswerFits(mainq[k])'
    BY DEF AnswersFit
  <2>2. PICK b : b = mainq'[k]
    OBVIOUS
  <2>3. AnswerFits(b)
    BY <1>5, <2>1, <2>2 DEF MarksInv, AnswersFit
  <2>4. AnswerFits(b)'
    BY <1>1, <1>2, <2>3, AnswerKept DEF listVars
  <2>5. (mainq[k])' = b
    BY <2>2
  <2> QED
    BY <2>4, <2>5 DEF AnswerFits
<1>6. ASSUME NEW view \in {LocalView, CachedView}, AnswerQuery("list", view, Mine)
      PROVE  AnswersFit'
  <2>1. view \in [DocId -> Document] /\ \A d \in DocId : Whole(view[d])
    BY <1>1, ViewWhole, StoreParts
  <2>2. PICK docs \in Results(view, Mine) :
          /\ mainq' = Append(mainq, [kind |-> "snapshot", to |-> "list", docs |-> docs])
          /\ [kind |-> "snapshot", to |-> "list", docs |-> docs] \in ListCompletion
    BY <1>1, <1>6, <2>1, AnswerFacts
  <2>3. \A i \in DOMAIN docs : MarkFits(docs[i].documentID, docs[i].data.invoiceType)
    BY <2>1, ResultsType, ViewsAreFinal DEF MarkFits
  <2>4. AnswerFits([kind |-> "snapshot", to |-> "list", docs |-> docs])
    BY <2>1, <2>3, ResultsType DEF AnswerFits
  <2> QED
    BY <1>5, <2>2, <2>4
<1>7. AnswersFit'
  <2>1. CASE QueryServer("list", Mine) \/ QueryCache("list", Mine)
    BY <1>6, <2>1 DEF QueryServer, QueryCache
  <2>2. CASE QueryFails("list")
    BY <1>5, <2>2 DEF QueryFails, ListCompletion, AnswerFits
  <2> QED
    BY <2>1, <2>2 DEF LoadAnswered
<1> QED
  BY <1>1, <1>3, <1>4, <1>7 DEF MarksInv

\* Every entry of two sequences joined is an entry of one of them.
LEMMA Joined ==
    ASSUME NEW S, NEW a \in Seq(S), NEW b \in Seq(S), NEW i \in 1..Len(a \o b)
    PROVE  \/ \E k \in 1..Len(a) : (a \o b)[i] = a[k]
           \/ \E k \in 1..Len(b) : (a \o b)[i] = b[k]
<1>1. /\ Len(a) \in Nat /\ Len(b) \in Nat /\ DOMAIN a = 1..Len(a) /\ DOMAIN b = 1..Len(b)
      /\ Len(a \o b) = Len(a) + Len(b)
  OBVIOUS
<1>2. (a \o b)[i] = IF i <= Len(a) THEN a[i] ELSE b[i - Len(a)]
  BY <1>1, ConcatProperties
<1> QED
  BY <1>1, <1>2

LEMMA HandlerMarks ==
    ASSUME MarksInv, SnapshotArrives \/ LoadErrorArrives
    PROVE  MarksInv'
<1>1. /\ IInv /\ IInv' /\ mainq # <<>> /\ mainq' = Tail(mainq)
      /\ UNCHANGED <<storeVars, overlap, billed>>
  BY HandlerStep DEF MarksInv, SnapshotArrives, LoadErrorArrives, listVars
<1>2. QuietStep
  BY <1>1 DEF QuietStep
<1>3. KeysUsed' /\ MarksMeet'
  BY <1>1, <1>2, MarksMeetStep DEF MarksInv, KeysUsed, storeVars
<1>4. UNCHANGED LocalView
  BY <1>1 DEF storeVars, LocalView
<1>5. \A d, t : MarkFits(d, t)' <=> MarkFits(d, t)
  BY <1>1, <1>4 DEF MarkFits, FinalMark
<1>6. AnswersFit'
  <2>1. DOMAIN mainq' = 1..Len(Tail(mainq))
    BY <1>1, HeadAnswer
  <2>2. \A k \in DOMAIN mainq' : k + 1 \in DOMAIN mainq /\ mainq'[k] = mainq[k + 1]
    BY <1>1, <2>1, HeadAnswer, Parts
  <2>3. \A c : AnswerFits(c)' <=> AnswerFits(c)
    BY <1>5 DEF AnswerFits
  <2>4. \A k \in DOMAIN mainq' : AnswerFits(mainq[k + 1])
    BY <2>2 DEF MarksInv, AnswersFit
  <2> QED
    BY <2>2, <2>3, <2>4 DEF AnswersFit, AnswerFits
<1>7. CASE LoadErrorArrives
  BY <1>1, <1>2, <1>3, <1>6, <1>7, RowsKept DEF MarksInv, LoadErrorArrives, listVars
<1>8. CASE SnapshotArrives
  <2>1. PICK docs \in Seq(ListedSnapshot), new \in Seq(Invoice) :
          /\ docs = Head(mainq).docs /\ Head(mainq).kind = "snapshot"
          /\ Len(new) = Len(docs)
          /\ \A i \in 1..Len(docs) : docs[i] \in ListedSnapshot /\ new[i] = InvoiceOf(docs[i])
          /\ invoices' = invoices \o new
          /\ invoices = <<>> => invoices' = new
    BY <1>1, <1>8, SnapshotFacts
  <2>2. /\ \A i, j \in 1..Len(docs) : docs[i].documentID = docs[j].documentID => i = j
        /\ \A i \in 1..Len(docs) : MarkFits(docs[i].documentID, docs[i].data.invoiceType)
    <3>1. AnswerFits(Head(mainq))
      <4>1. Head(mainq) = mainq[1] /\ 1 \in DOMAIN mainq
        BY <1>1, HeadAnswer, Parts
      <4> QED
        BY <4>1 DEF MarksInv, AnswersFit
    <3> QED
      BY <2>1, <3>1 DEF AnswerFits
  <2>3. \A i \in 1..Len(docs) : new[i].invoiceID = docs[i].documentID
                                /\ new[i].paid = docs[i].data.invoiceType
    <3>1. \A s : InvoiceOf(s).invoiceID = s.documentID /\ InvoiceOf(s).paid = s.data.invoiceType
      BY DEF InvoiceOf
    <3> QED
      BY <2>1, <3>1
  <2>4. ~overlap => invoices = <<>>
    <3>1. LoadsUnderWay # 0
      BY <1>1, HeadAnswer, Parts DEF LoadsUnderWay
    <3> QED
      BY <1>1, <3>1, Parts DEF OneLoad, LoadsUnderWay
  <2>5. \A i \in DOMAIN invoices' : MarkFits(invoices'[i].invoiceID, invoices'[i].paid)
    <3>1. invoices \in Seq(Invoice) /\ new \in Seq(Invoice) /\ invoices' = invoices \o new
      BY <1>1, <2>1, Parts
    <3>2. \A i \in 1..Len(invoices \o new) :
            \/ \E k \in 1..Len(invoices) : (invoices \o new)[i] = invoices[k]
            \/ \E k \in 1..Len(new) : (invoices \o new)[i] = new[k]
      BY <3>1, Joined
    <3>3. \A k \in 1..Len(invoices) : MarkFits(invoices[k].invoiceID, invoices[k].paid)
      BY <3>1 DEF MarksInv, RowsFit
    <3>4. \A k \in 1..Len(new) : MarkFits(new[k].invoiceID, new[k].paid)
      BY <2>1, <2>2, <2>3
    <3>5. DOMAIN invoices' = 1..Len(invoices \o new)
      BY <1>1, <3>1, Parts DEF IInv, ListOK
    <3> QED
      BY <3>1, <3>2, <3>3, <3>4, <3>5
  <2>6. ~overlap => \A i, j \in DOMAIN invoices' :
                        invoices'[i].invoiceID = invoices'[j].invoiceID => i = j
    BY <2>1, <2>2, <2>3, <2>4
  <2>7. RowsFit'
    BY <1>1, <1>5, <2>5, <2>6 DEF RowsFit
  <2> QED
    BY <1>1, <1>3, <1>6, <2>7 DEF MarksInv
<1> QED
  BY <1>7, <1>8

\* A tap changes what the server will hold of the invoice it marks.
LEMMA TapMarks ==
    ASSUME MarksInv, NEW i \in DOMAIN rows, PaidButtonTapped(i), i \in DOMAIN invoices
    PROVE  MarksInv'
<1>1. IInv /\ IInv' /\ KeysUsed /\ MarksMeet
  BY UserStep DEF MarksInv, UserActs
<1>2. PICK t \in Type :
        /\ i \in 1..Len(invoices) /\ invoices[i] \in Invoice
        /\ Write([doc |-> invoices[i].invoiceID, write |-> PaidWrite(t)])
        /\ [doc |-> invoices[i].invoiceID, write |-> PaidWrite(t)] \in PaidMutation
        /\ invoices' = [invoices EXCEPT ![i] = Marked(invoices[i], t)]
        /\ UNCHANGED <<mainq, overlap, billed>>
  BY <1>1, TapFacts
<1>3. PICK d \in DocId : d = invoices[i].invoiceID
  BY <1>2 DEF Invoice
<1>4. PICK m \in PaidMutation :
        /\ m.doc = d /\ m.write.invoiceType = t /\ m.write.invoiceType # Keep
        /\ m.write.projectID = Keep /\ m \in Mutation
        /\ queue' = Append(queue, m) /\ UNCHANGED <<server, cache, sent, synced>>
  <2>1. PaidWrite(t).invoiceType = t /\ t # Keep
    BY FieldNames DEF PaidWrite, Type
  <2> QED
    BY <1>2, <1>3, <2>1, PaidMutationType DEF Write
<1>5. /\ Len(queue') = Len(queue) + 1 /\ queue'[Len(queue) + 1] = m
      /\ \A k \in 1..Len(queue) : queue'[k] = queue[k]
  BY <1>1, <1>4, StoreParts
<1>6. KeysUsed'
  <2>1. d \in billed
    BY <1>2, <1>3 DEF MarksInv, RowsFit, MarkFits
  <2>2. \A k \in 1..Len(queue') : queue'[k].doc \in billed
    BY <1>1, <1>4, <1>5, <2>1, StoreParts DEF KeysUsed
  <2> QED
    BY <1>1, <1>2, <1>4, <2>2 DEF KeysUsed
<1>7. MarksMeet'
  <2> SUFFICES ASSUME NEW e \in DocId
               PROVE  /\ Listed(server[e]) => Holds(server, queue', sent, e, "invoiceType")
                      /\ Listed(cache[e]) => Holds(cache, queue', synced[e], e, "invoiceType")
                      /\ Unwritten(queue', e, "invoiceType") => Unwritten(queue, e, "invoiceType")
    BY <1>1, <1>4 DEF MarksMeet
  <2>1. synced[e] \in 0..Len(queue)
    BY <1>1, StoreParts
  <2>2. Unwritten(queue', e, "invoiceType") => Unwritten(queue, e, "invoiceType")
    BY <1>1, <1>5, StoreParts DEF Unwritten, Writes
  <2> QED
    BY <1>1, <1>4, <2>1, <2>2, StoreParts, HoldsAppend DEF MarksMeet
\* The views of the other invoices stay, and of this one the mark is t.
<1>8. \A e \in DocId :
        /\ LocalView'[e].invoiceType = IF e = d THEN t ELSE LocalView[e].invoiceType
        /\ LocalView'[e].projectID = LocalView[e].projectID
  <2> TAKE e \in DocId
  <2>1. \A f \in Field :
          Overlay(server, Append(queue, m))[e][f] =
            IF m.doc = e /\ m.write[f] # Keep THEN m.write[f] ELSE Overlay(server, queue)[e][f]
    BY <1>1, <1>4, StoreParts, OverlayAppend
  <2>2. LocalView' = Overlay(server, Append(queue, m)) /\ LocalView = Overlay(server, queue)
    BY <1>4 DEF LocalView
  <2>3. \A f \in Field :
          LocalView'[e][f] = IF m.doc = e /\ m.write[f] # Keep THEN m.write[f] ELSE LocalView[e][f]
    BY <2>1, <2>2
  <2> QED
    BY <1>4, <2>3, TypeField
<1>9. ASSUME NEW e \in DocId, e # d, NEW u, MarkFits(e, u) PROVE MarkFits(e, u)'
  <2>1. LocalView'[e].invoiceType = LocalView[e].invoiceType
    BY <1>8, <1>9
  <2>2. Listed(LocalView'[e]) <=> Listed(LocalView[e])
    BY <1>8 DEF Listed
  <2> QED
    BY <1>2, <1>9, <2>1, <2>2 DEF MarkFits, FinalMark
<1>10. MarkFits(d, t)'
  BY <1>2, <1>3, <1>8 DEF MarkFits, FinalMark, MarksInv, RowsFit
\* Nothing is on its way to an array that is not empty.
<1>11. ~overlap => mainq = <<>>
  <2>1. invoices # <<>>
    BY <1>1, <1>2, Parts
  <2>2. ~overlap => LoadsUnderWay = 0
    BY <1>1, <2>1, Parts DEF OneLoad, LoadsUnderWay
  <2> QED
    BY <1>1, <2>2, Parts DEF LoadsUnderWay
<1>12. AnswersFit'
  <2>1. CASE overlap
    <3>1. \A e, u : MarkFits(e, u)' <=> MarkFits(e, u)
      BY <1>2, <2>1 DEF MarkFits
    <3>2. \A c : AnswerFits(c)' <=> AnswerFits(c)
      BY <3>1 DEF AnswerFits
    <3> QED
      BY <1>2, <3>2 DEF AnswersFit, MarksInv, AnswerFits
  <2>2. CASE ~overlap
    BY <1>2, <1>11, <2>2 DEF AnswersFit
  <2> QED
    BY <2>1, <2>2
<1>13. /\ DOMAIN invoices' = DOMAIN invoices
       /\ \A k \in DOMAIN invoices : k # i => invoices'[k] = invoices[k]
       /\ invoices'[i].invoiceID = d /\ invoices'[i].paid = t
  BY <1>1, <1>2, <1>3, Parts, MarkedType
<1>14. RowsFit'
  <2>1. ~overlap => \A j, k \in DOMAIN invoices :
                        invoices'[j].invoiceID = invoices'[k].invoiceID => j = k
    BY <1>2, <1>3, <1>13 DEF MarksInv, RowsFit
  <2>2. ASSUME NEW k \in DOMAIN invoices
        PROVE  MarkFits(invoices[k].invoiceID, invoices[k].paid)'
    <3>1. CASE k = i
      BY <1>10, <1>13, <3>1 DEF MarkFits
    <3>2. CASE k # i
      <4>1. PICK e, u : e = invoices[k].invoiceID /\ u = invoices[k].paid
        OBVIOUS
      <4>2. e \in DocId /\ MarkFits(e, u)
        BY <1>1, <4>1, StoreParts DEF MarksInv, RowsFit, MarkFits
      <4>3. MarkFits(e, u)'
        <5>1. CASE ~overlap
          <6>1. e # d
            BY <1>2, <1>3, <3>2, <4>1, <5>1 DEF MarksInv, RowsFit
          <6> QED
            BY <1>9, <4>2, <6>1
        <5>2. CASE overlap
          BY <1>2, <4>2, <5>2 DEF MarkFits
        <5> QED
          BY <5>1, <5>2
      <4> QED
        BY <1>13, <3>2, <4>1, <4>3 DEF MarkFits
    <3> QED
      BY <3>1, <3>2
  <2> QED
    BY <1>2, <1>13, <2>1, <2>2 DEF RowsFit
<1> QED
  BY <1>1, <1>6, <1>7, <1>12, <1>14 DEF MarksInv

\* A quiet step that leaves the answers and the array alone, or drops them.
LEMMA QuietMarks ==
    ASSUME MarksInv, IInv', QuietStep, billed \subseteq billed',
           mainq' = <<>> \/ (UNCHANGED mainq /\ (~overlap' => ~overlap)),
           invoices' = <<>> \/ (UNCHANGED invoices /\ (~overlap' => ~overlap))
    PROVE  MarksInv'
<1>1. KeysUsed' /\ MarksMeet'
  BY KeysStep, MarksMeetStep
<1>2. AnswersFit'
  <2>1. CASE mainq' = <<>>
    BY <2>1 DEF AnswersFit
  <2>2. CASE UNCHANGED mainq /\ (~overlap' => ~overlap)
    BY <2>2, AnswersKept
  <2> QED
    BY <2>1, <2>2
<1>3. RowsFit'
  <2>1. CASE invoices' = <<>>
    BY <2>1 DEF RowsFit
  <2>2. CASE UNCHANGED invoices /\ (~overlap' => ~overlap)
    BY <2>2, RowsKept
  <2> QED
    BY <2>1, <2>2
<1> QED
  BY <1>1, <1>2, <1>3 DEF MarksInv

LEMMA MarksInitially == Init => MarksInv
<1> SUFFICES ASSUME Init PROVE MarksInv
  OBVIOUS
<1>1. IInv /\ queue = <<>> /\ mainq = <<>> /\ invoices = <<>> /\ billed = Existing
  BY Initially DEF Init, CallsInit
<1>2. \A d \in DocId : /\ Listed(server[d]) => d \in Existing
                       /\ ~Listed(cache[d])
  BY DocumentTypes DEF Init
<1>3. \A docs, k, d, f : Holds(docs, <<>>, k, d, f)
  BY DEF Holds
<1> QED
  BY <1>1, <1>2, <1>3 DEF MarksInv, KeysUsed, MarksMeet, AnswersFit, RowsFit

LEMMA MarksInductive ==
    ASSUME ~Rejects
    PROVE  MarksInv /\ [Next]_vars => MarksInv'
<1> SUFFICES ASSUME MarksInv, [Next]_vars PROVE MarksInv'
  OBVIOUS
<1>1. IInv /\ IInv'
  BY Inductive DEF MarksInv
<1>2. CASE Open
  <2>1. mainq' = <<>>
    BY <1>1, <1>2, AwaitsLoads, Parts DEF Open, LoadsUnderWay
  <2> QED
    BY <1>1, <1>2, <2>1, QuietMarks DEF Open, QuietStep
<1>3. CASE Back
  BY <1>1, <1>3, QuietMarks DEF Back, callVars, QuietStep
<1>4. CASE Refresh
  BY <1>1, <1>4, QuietMarks DEF Refresh, QuietStep
<1>5. ASSUME NEW i \in DOMAIN rows, CellForRow(i) PROVE MarksInv'
  BY <1>1, <1>5, QuietMarks DEF CellForRow, callVars, QuietStep
<1>6. ASSUME NEW i \in DOMAIN rows, PaidButtonTapped(i) PROVE MarksInv'
  <2>1. CASE i \in DOMAIN invoices
    BY <1>6, <2>1, TapMarks
  <2>2. CASE i \notin DOMAIN invoices
    BY <1>1, <1>6, <2>2, QuietMarks DEF PaidButtonTapped, callVars, QuietStep
  <2> QED
    BY <2>1, <2>2
<1>7. CASE PaymentAnswered
  <2>1. Acknowledge /\ UNCHANGED <<mainq, listVars, billed>>
    BY <1>1, <1>7, NobodyIsTold DEF PaymentAnswered, Reject
  <2> QED
    BY <1>1, <2>1, QuietMarks DEF listVars, QuietStep
<1>8. CASE StreamWorks
  BY <1>1, <1>8, QuietMarks DEF StreamWorks, WriteStream, callVars, listVars, QuietStep
<1>9. CASE PortalActs
  <2>1. QuietStep /\ billed \subseteq billed' /\ UNCHANGED <<mainq, invoices, overlap>>
    BY <1>9 DEF PortalActs, callVars, listVars, QuietStep
  <2> QED
    BY <1>1, <2>1, QuietMarks
<1>10. CASE Restart
  BY <1>1, <1>10, QuietMarks DEF Restart, ProcessEnds, QuietStep
<1>11. CASE UNCHANGED vars
  BY <1>1, <1>11, QuietMarks DEF vars, callVars, listVars, QuietStep
<1>12. CASE LoadAnswered
  BY <1>12, FetchMarks
<1>13. CASE SnapshotArrives \/ LoadErrorArrives
  BY <1>13, HandlerMarks
<1> QED
  BY <1>2, <1>3, <1>4, <1>5, <1>6, <1>7, <1>8, <1>9, <1>10, <1>11, <1>12, <1>13
  DEF Next, UserActs

LEMMA MarksInvariant == ASSUME ~Rejects PROVE Spec => []MarksInv
BY MarksInitially, MarksInductive, PTL DEF Spec

\* While loads do not overlap and no write is refused, the button of every
\* listed invoice that still exists shows the mark that the server will hold
\* when the queue has drained: no answer that was on its way when the user
\* tapped, no write sent twice and no restart takes the mark back.
THEOREM MarksAreFinal == Spec => []PaidBoxTellsFinalState
<1>1. CASE Rejects
  <2>1. PaidBoxTellsFinalState
    BY <1>1 DEF PaidBoxTellsFinalState
  <2> QED
    BY <2>1, PTL
<1>2. CASE ~Rejects
  <2>1. MarksInv => PaidBoxTellsFinalState
    BY DEF MarksInv, RowsFit, MarkFits, FinalMark, PaidBoxTellsFinalState
  <2>2. Spec => []MarksInv
    BY <1>2, MarksInvariant
  <2> QED
    BY <2>1, <2>2, PTL
<1> QED
  BY <1>1, <1>2

-----------------------------------------------------------------------------
(***************************************************************************)
(* The invoices and the Firestore client.                                  *)
(***************************************************************************)

LEMMA ClientSteps ==
    ASSUME IInv, [Next]_vars
    PROVE  [StoreNext]_storeVars
<1>1. CASE UserActs
  <2>1. ASSUME NEW i \in DOMAIN rows, PaidButtonTapped(i) PROVE [StoreNext]_storeVars
    <3>1. CASE i \in DOMAIN invoices
      <4> DEFINE paid == CHOOSE t \in Type : t # rows[i].paid
                 m    == [doc |-> invoices[i].invoiceID, write |-> PaidWrite(paid)]
      <4>1. Len(queue) < MaxWrites /\ Write(m)
        BY <2>1, <3>1 DEF PaidButtonTapped, SetData
      <4>2. paid \in Type
        BY DEF Type
      <4>3. invoices[i].invoiceID \in DocId
        <5>1. invoices[i] \in Invoice
          BY <3>1, Parts
        <5> QED
          BY <5>1 DEF Invoice
      <4> HIDE DEF paid
      <4>4. m \in PaidMutation
        BY <4>2, <4>3 DEF PaidMutation
      <4> QED
        BY <4>1, <4>4, PaidMutationType DEF StoreNext
    <3>2. CASE i \notin DOMAIN invoices
      BY <2>1, <3>2 DEF PaidButtonTapped
    <3> QED
      BY <3>1, <3>2
  <2> QED
    BY <1>1, <2>1 DEF UserActs, Open, Back, Refresh, CellForRow
<1>2. CASE LoadAnswered
  BY <1>2 DEF LoadAnswered, QueryServer, QueryCache, QueryFails, StoreNext
<1>3. CASE PaymentAnswered \/ StreamWorks
  BY <1>3 DEF PaymentAnswered, WriteAnswered, StreamWorks, WriteStream, StoreNext
<1>4. CASE SnapshotArrives \/ LoadErrorArrives \/ Restart
  BY <1>4 DEF SnapshotArrives, LoadErrorArrives, Restart, ProcessEnds
<1>5. CASE PortalActs
  BY <1>5, DocumentTypes DEF PortalActs, StoreNext
<1>6. CASE UNCHANGED vars
  BY <1>6 DEF vars, storeVars
<1> QED
  BY <1>1, <1>2, <1>3, <1>4, <1>5, <1>6 DEF Next

\* Whatever the list, the portal and a restart do, the queue, the cache and the
\* server take only the steps of FirestoreClient: an invoice is marked through
\* the client's queue, and sent and withdrawn by the portal.
THEOREM StepsAreTheClients == Spec => [][StoreNext]_storeVars
<1>1. IInv /\ [Next]_vars => [StoreNext]_storeVars
  BY ClientSteps
<1> QED
  BY <1>1, Invariant, PTL DEF Spec

\* What a load would bring does not depend on how far the network has got with
\* the marks of the list.
THEOREM WritesStayInSight == Spec => DeliveryIsInvisible /\ AcknowledgementIsInvisible
<1>1. StoreTypeOK => [Deliver => LocalView' = LocalView]_storeVars
  BY DeliveryUnseen
<1>2. StoreTypeOK =>
        [Acknowledge => \A d \in DocId : synced[d] = 0 => CachedView'[d] = CachedView[d]]_storeVars
  BY AcknowledgementUnseen
<1>3. TypeOK => StoreTypeOK
  BY DEF TypeOK, CallsTypeOK
<1> QED
  BY <1>1, <1>2, <1>3, TypeCorrect, PTL DEF DeliveryIsInvisible, AcknowledgementIsInvisible
=============================================================================
