------------------------------ MODULE Invoices ------------------------------
(***************************************************************************)
(* The invoices of a project (InvoicesViewController): a table that is     *)
(* loaded when it opens and when it is pulled down, and a button in each   *)
(* row that marks the invoice as paid or unpaid.  The mark is stored       *)
(* without a completion handler, and drawn without waiting for it.         *)
(*                                                                         *)
(* An invoice is told apart by the key it is stored under, which the       *)
(* portal also writes into its field invoiceID.  The collection holds the  *)
(* invoices of this project only; name, link and due date are left out.    *)
(*                                                                         *)
(* There is one controller at a time: it is opened again when the calls of *)
(* its predecessor, which stays alive for them, are answered.              *)
(***************************************************************************)
EXTENDS FirestoreCalls

CONSTANTS
    Existing,   \* the invoices stored when the app starts
    MaxLoads    \* BOUND on the loads under way at a time

ASSUME InvoicesAssumption ==
    /\ Field = {"projectID", "invoiceType", "invoicePaidDate"}
    /\ Value = {"project", "paid", "unpaid", "date", "blank"}
    /\ Requester = {"list"}
    /\ Waiter = {}
    /\ Existing \subseteq DocId
    /\ MaxLoads \in Nat

VARIABLES
    invoices,   \* the controller's array
    rows,       \* what the cells of the table show
    screen,     \* "away" or "list"
    trap,       \* why the process was killed, or "none"
    overlap,    \* HISTORY: two loads filled one array
    billed,     \* HISTORY: the keys the portal has used
    tapped      \* HISTORY: the last mark the user gave each invoice, or "none"

listVars == <<invoices, rows, screen, trap, overlap>>
vars == <<storeVars, callVars, listVars, billed, tapped>>

Type == {"paid", "unpaid"}
Invoice == [invoiceID : DocId, paid : Type, paidDate : {"date", "N/A", "blank"}]

TypeOK ==
    /\ CallsTypeOK
    /\ invoices \in Seq(Invoice)
    /\ rows \in Seq(Invoice)
    /\ screen \in {"away", "list"}
    /\ trap \in {"none", "range"}
    /\ overlap \in BOOLEAN
    /\ billed \subseteq DocId
    /\ tapped \in [DocId -> Type \cup {"none"}]

\* What the portal stores for an invoice.
Bill == [projectID |-> "project", invoiceType |-> "unpaid", invoicePaidDate |-> "blank"]

PaidWrite_TypeOnly(paid) ==
    [projectID |-> Keep, invoiceType |-> paid,
     invoicePaidDate |-> IF paid = "paid" THEN "date" ELSE Keep]
PaidWrite_Whole(paid) ==
    [projectID |-> "project", invoiceType |-> paid,
     invoicePaidDate |-> IF paid = "paid" THEN "date" ELSE "blank"]

\* The fields that a tap on the button merges into the document.
PaidWrite(paid) ==
    [projectID |-> Keep, invoiceType |-> paid,
     invoicePaidDate |-> IF paid = "paid" THEN "date" ELSE "blank"]

\* whereField("projectID", isEqualTo: projectID): without it no document.
Listed(doc) == doc.projectID = "project"
Mine == {doc \in Document : Listed(doc)}

\* The Invoice made from a document: a date that is no Timestamp reads "N/A".
InvoiceOf(snapshot) ==
    [invoiceID |-> snapshot.documentID,
     paid |-> snapshot.data.invoiceType,
     paidDate |-> IF snapshot.data.invoicePaidDate = "date" THEN "date" ELSE "N/A"]

-----------------------------------------------------------------------------
(***************************************************************************)
(* The controller.                                                         *)
(***************************************************************************)

Alive == trap = "none"

\* A new controller, whose viewDidLoad calls createArray.
Open ==
    /\ Alive /\ screen = "away" /\ ~Awaits("list")
    /\ screen' = "list"
    /\ invoices' = <<>> /\ rows' = <<>>
    /\ overlap' = FALSE
    /\ GetDocuments("list")
    /\ UNCHANGED <<storeVars, handlers, mainq, trap, billed, tapped>>

Back ==
    /\ Alive /\ screen = "list"
    /\ screen' = "away"
    /\ UNCHANGED <<storeVars, callVars, invoices, rows, trap, overlap, billed, tapped>>

\* Pull down: removeAll() and createArray(); the table is not told.
Refresh ==
    /\ Alive /\ screen = "list"
    /\ fetching["list"] + Len(mainq) < MaxLoads
    /\ invoices' = <<>>
    /\ overlap' = (overlap \/ Awaits("list"))
    /\ GetDocuments("list")
    /\ UNCHANGED <<storeVars, handlers, mainq, rows, screen, trap, billed, tapped>>

\* A row is scrolled into view or tapped: its index is looked up in the array.
CellForRow(i) ==
    /\ Alive /\ screen = "list"
    /\ \/ /\ i \in DOMAIN invoices
          /\ rows' = [rows EXCEPT ![i] = invoices[i]]
          /\ UNCHANGED trap
       \/ i \notin DOMAIN invoices /\ trap' = "range" /\ UNCHANGED rows
    /\ UNCHANGED <<storeVars, callVars, invoices, screen, overlap, billed, tapped>>

Marked(invoice, paid) ==
    [invoice EXCEPT !.paid = paid, !.paidDate = IF paid = "paid" THEN "date" ELSE "blank"]

\* The button toggles what the row shows; the invoice of the same index in
\* the array is the one that is stored, with no completion handler.
PaidButtonTapped(i) ==
    /\ Alive /\ screen = "list"
    /\ \/ /\ i \in DOMAIN invoices
          /\ LET paid == CHOOSE t \in Type : t # rows[i].paid
                 d    == invoices[i].invoiceID
             IN  /\ SetData(Nobody, [doc |-> d, write |-> PaidWrite(paid)])
                 /\ invoices' = [invoices EXCEPT ![i] = Marked(@, paid)]
                 /\ rows' = [rows EXCEPT ![i] = invoices'[i]]
                 /\ tapped' = [tapped EXCEPT ![d] = paid]
          /\ UNCHANGED <<fetching, mainq, trap>>
       \/ /\ i \notin DOMAIN invoices
          /\ trap' = "range"
          /\ UNCHANGED <<storeVars, callVars, invoices, rows, tapped>>
    /\ UNCHANGED <<screen, overlap, billed>>

SnapshotArrives_TableNotTold ==
    /\ Alive /\ mainq # <<>> /\ Head(mainq).kind = "snapshot"
    /\ mainq' = Tail(mainq)
    /\ invoices' = invoices \o [i \in DOMAIN Head(mainq).docs |-> InvoiceOf(Head(mainq).docs[i])]
    /\ UNCHANGED <<storeVars, fetching, handlers, rows, screen, trap, overlap, billed, tapped>>

\* createArray's handler: append every document, reloadData().
SnapshotArrives ==
    /\ Alive /\ mainq # <<>> /\ Head(mainq).kind = "snapshot"
    /\ mainq' = Tail(mainq)
    /\ invoices' = invoices \o [i \in DOMAIN Head(mainq).docs |-> InvoiceOf(Head(mainq).docs[i])]
    /\ rows' = invoices'
    /\ UNCHANGED <<storeVars, fetching, handlers, screen, trap, overlap, billed, tapped>>

\* ... or print the error.
LoadErrorArrives ==
    /\ Alive /\ mainq # <<>> /\ Head(mainq).kind = "loadError"
    /\ mainq' = Tail(mainq)
    /\ UNCHANGED <<storeVars, fetching, handlers, listVars, billed, tapped>>

\* The process is killed, or was by a trap, and is started again.
Restart ==
    /\ ProcessEnds
    /\ screen' = "away" /\ trap' = "none"
    /\ invoices' = <<>> /\ rows' = <<>> /\ overlap' = FALSE
    /\ UNCHANGED <<billed, tapped>>

-----------------------------------------------------------------------------
(***************************************************************************)
(* The Firestore client, the server and the portal.                        *)
(***************************************************************************)

LoadAnswered ==
    /\ Alive
    /\ QueryServer("list", Mine) \/ QueryCache("list", Mine) \/ QueryFails("list")
    /\ UNCHANGED <<listVars, billed, tapped>>

PaymentAnswered == Alive /\ WriteAnswered /\ UNCHANGED <<listVars, billed, tapped>>
StreamWorks     == Alive /\ WriteStream /\ UNCHANGED <<listVars, billed, tapped>>

\* The portal sends a bill, under a key of its own, or withdraws one.
PortalActs ==
    /\ \E d \in DocId :
          \/ d \notin billed /\ RemoteSet(d, Bill) /\ billed' = billed \cup {d}
          \/ Listed(server[d]) /\ RemoteSet(d, NoDoc) /\ UNCHANGED billed
    /\ UNCHANGED <<callVars, listVars, tapped>>

Init ==
    /\ server = [d \in DocId |-> IF d \in Existing THEN Bill ELSE NoDoc]
    /\ cache = [d \in DocId |-> NoDoc]
    /\ queue = <<>> /\ sent = 0
    /\ synced = [d \in DocId |-> 0]
    /\ CallsInit
    /\ invoices = <<>> /\ rows = <<>>
    /\ screen = "away" /\ trap = "none" /\ overlap = FALSE
    /\ billed = Existing
    /\ tapped = [d \in DocId |-> "none"]

UserActs ==
    \/ Open \/ Back \/ Refresh
    \/ \E i \in DOMAIN rows : CellForRow(i) \/ PaidButtonTapped(i)

Next ==
    \/ UserActs
    \/ SnapshotArrives \/ LoadErrorArrives
    \/ LoadAnswered \/ PaymentAnswered \/ StreamWorks
    \/ PortalActs \/ Restart

Spec == Init /\ [][Next]_vars

\* The main queue runs; the app is not killed every time before the network
\* has come back, and a stream does not break every time before the answer.
FairSpec ==
    /\ Spec
    /\ WF_vars(SnapshotArrives \/ LoadErrorArrives)
    /\ WF_vars(LoadAnswered)
    /\ SF_vars(Alive /\ Deliver /\ UNCHANGED <<callVars, listVars, billed, tapped>>)
    /\ SF_vars(PaymentAnswered)
    /\ WF_vars(Restart /\ ~Alive)

-----------------------------------------------------------------------------
(***************************************************************************)
(* Properties.                                                             *)
(***************************************************************************)

\* While loads do not overlap and no write is refused, the button of every
\* listed invoice that still exists shows the mark that the server will hold
\* when the queue of the device has drained: no answer that was on its way
\* when the user tapped takes the mark back.
PaidBoxTellsFinalState ==
    ~overlap /\ ~Rejects =>
        \A i \in DOMAIN invoices :
            LET doc == LocalView[invoices[i].invoiceID]
            IN  Listed(doc) => doc.invoiceType = invoices[i].paid

\* An invoice that the portal has withdrawn is not billed again by a tap on
\* the row that still shows it, by a write that was waiting for the network
\* or by one that a broken stream sends twice.
WithdrawnBillsStayAway ==
    [][\A d \in billed : ~Listed(server[d]) => ~Listed(server'[d])]_vars

\* While loads do not overlap, what a row shows is the invoice of its index,
\* or the array is empty: a tap never marks an invoice other than the one the
\* row shows.
TapMarksTheInvoiceShown == ~overlap /\ invoices # <<>> => rows = invoices

\* Unless the portal withdraws the invoice, the mark that the user gave it
\* last is stored in the end, through restarts of the app and breaks of the
\* stream, although nothing waits for the answer.
PaymentIsStored ==
    \A d \in DocId : \A t \in Type :
        tapped[d] = t ~> tapped[d] # t \/ server[d].invoiceType = t \/ ~Listed(server[d])
=============================================================================
