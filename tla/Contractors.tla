----------------------------- MODULE Contractors -----------------------------
(***************************************************************************)
(* The contractors of a customer: the list (EditContractorsViewController),*)
(* a stack of buttons that is built by hand from an array, and the form on *)
(* top of it (ShowContractorInfoViewController), which stores a contractor *)
(* and has the list reload when the server has answered.                   *)
(*                                                                         *)
(* A contractor is told apart by the key it is stored under.  The five     *)
(* fields of a contractor are always written together and are one field    *)
(* here; the collection holds the contractors of this customer only.       *)
(*                                                                         *)
(* There is one list controller at a time: it is opened again when the     *)
(* calls of its predecessor, which stays alive for them, are answered.     *)
(***************************************************************************)
EXTENDS FirestoreCalls

CONSTANTS
    Existing,   \* the contractors stored when the app starts
    MaxBlanks   \* BOUND on the "New Contractor" buttons of one list

ASSUME ContractorsAssumption ==
    /\ Field = {"contractor"}
    /\ Value = DocId
    /\ Requester = {"list"}
    /\ Waiter = {"form", "closed form"}
    /\ Existing \subseteq DocId
    /\ MaxBlanks \in Nat

VARIABLES
    used,               \* the keys drawn so far
    contractorArray,    \* the controller's array
    contractorNumber,   \* how many of them came from Firestore
    index,              \* the tag of the next button
    stack,              \* the arranged subviews of the stack view
    labelled,           \* errorLabel is in the view hierarchy
    screen,             \* "away", "list" or "form"
    currentContractor,  \* the contractor passed to the form
    errorShown,         \* the form says that its save has failed
    trap,               \* why the process was killed, or "none"
    overlap,            \* HISTORY: two loads filled one array
    confirmed           \* HISTORY: contractors the user was told are stored

listVars == <<contractorArray, contractorNumber, index, stack, labelled>>
vars == <<storeVars, callVars, used, listVars, screen, currentContractor,
          errorShown, trap, overlap, confirmed>>

Blank == "blank"
Plus  == [kind |-> "plus"]

Button(tag, c) == [kind |-> "contractor", tag |-> tag, contractor |-> c]

TypeOK ==
    /\ CallsTypeOK
    /\ used \subseteq DocId
    /\ contractorArray \in Seq(DocId \cup {Blank})
    /\ contractorNumber \in Nat
    /\ index \in Nat
    /\ stack \in Seq({Plus} \cup [kind : {"contractor"}, tag : Nat, contractor : DocId \cup {Blank}])
    /\ labelled \in BOOLEAN
    /\ screen \in {"away", "list", "form"}
    /\ currentContractor \in DocId \cup {Blank}
    /\ errorShown \in BOOLEAN
    /\ trap \in {"none", "range", "constraint"}
    /\ overlap \in BOOLEAN
    /\ confirmed \subseteq used

Contractor(d) == [contractor |-> d]
Mine          == Document \ {NoDoc}

-----------------------------------------------------------------------------
(***************************************************************************)
(* The list.                                                               *)
(***************************************************************************)

Alive == trap = "none"

\* A controller as it is created, or as reload() leaves it: no subviews.
Clear ==
    /\ index' = 0
    /\ contractorNumber' = 0
    /\ contractorArray' = <<>>
    /\ stack' = <<>>
    /\ labelled' = FALSE

\* reload(): start over, viewDidLoad and checkContractors included.
Reload ==
    /\ Clear
    /\ GetDocuments("list")
    /\ overlap' = Awaits("list")

\* addContractorButtonsToStackView and addInsertionButtonsToStackView.
Buttons(array, first) == [i \in DOMAIN array |-> Button(first + i - 1, array[i])]

\* buildPage.
BuildPage(array, number) ==
    /\ stack' = IF number = 0 THEN stack ELSE stack \o Buttons(array, index) \o <<Plus>>
    /\ index' = IF number = 0 THEN index ELSE index + Len(array)
    /\ labelled' = (labelled \/ number = 0)

\* checkContractors' handler, when there is an answer.
SnapshotArrives ==
    LET new == [i \in DOMAIN Head(mainq).docs |-> Head(mainq).docs[i].documentID]
    IN  /\ Head(mainq).kind = "snapshot"
        /\ mainq' = Tail(mainq)
        /\ contractorArray' = contractorArray \o new
        /\ contractorNumber' = contractorNumber + Len(new)
        /\ BuildPage(contractorArray', contractorNumber')
        /\ UNCHANGED <<fetching, handlers, screen, errorShown, trap, overlap, confirmed>>

\* ... and when there is none: showError pins errorLabel to views it has no
\* ancestor in common with, unless an earlier page without contractors has
\* put it there.
LoadErrorArrives ==
    /\ Head(mainq).kind = "loadError"
    /\ mainq' = Tail(mainq)
    /\ IF labelled
       THEN BuildPage(contractorArray, contractorNumber) /\ UNCHANGED trap
       ELSE trap' = "constraint" /\ UNCHANGED <<stack, index, labelled>>
    /\ UNCHANGED <<contractorArray, contractorNumber, fetching, handlers, screen,
                   errorShown, overlap, confirmed>>

\* The segue to the list: a new controller, whose viewDidLoad loads.
Open ==
    /\ Alive /\ screen = "away"
    /\ ~Awaits("list") /\ \A w \in Waiter : ~Pending(w)
    /\ screen' = "list"
    /\ Reload
    /\ UNCHANGED <<storeVars, handlers, mainq, used, currentContractor, errorShown, trap,
                   confirmed>>

Back ==
    /\ Alive /\ screen = "list"
    /\ screen' = "away"
    /\ UNCHANGED <<storeVars, callVars, used, listVars, currentContractor, errorShown,
                   trap, overlap, confirmed>>

\* A button of the stack: the contractor at the index of its tag is passed on.
ContractorButtonAction(i) ==
    /\ Alive /\ screen = "list" /\ stack[i] # Plus
    /\ IF stack[i].tag + 1 \in DOMAIN contractorArray
       THEN /\ currentContractor' = contractorArray[stack[i].tag + 1]
            /\ screen' = "form"
            /\ errorShown' = FALSE
            /\ UNCHANGED trap
       ELSE trap' = "range" /\ UNCHANGED <<currentContractor, screen, errorShown>>
    /\ UNCHANGED <<storeVars, callVars, used, listVars, overlap, confirmed>>

InsertButton_AtEnd(button) == stack' = Append(stack, button)

\* insertArrangedSubview(button, at: index).
InsertButton(button) == stack' = InsertAt(stack, index + 1, button)

\* The "+" button.
InsertionButtonAction(i) ==
    /\ Alive /\ screen = "list" /\ stack[i] = Plus
    /\ Cardinality({j \in DOMAIN contractorArray : contractorArray[j] = Blank}) < MaxBlanks
    /\ contractorArray' = Append(contractorArray, Blank)
    /\ InsertButton(Button(index, Blank))
    /\ index' = index + 1
    /\ UNCHANGED <<storeVars, callVars, used, contractorNumber, labelled, screen,
                   currentContractor, errorShown, trap, overlap, confirmed>>

-----------------------------------------------------------------------------
(***************************************************************************)
(* The form.  It can be filled in only when it was passed a blank          *)
(* contractor, and nothing disables its button while a write is under way. *)
(***************************************************************************)

AddContractorTapped(d) ==
    /\ Alive /\ screen = "form" /\ currentContractor = Blank
    /\ d \notin used
    /\ used' = used \cup {d}
    /\ SetData("form", [doc |-> d, write |-> Contractor(d)])
    /\ UNCHANGED <<fetching, mainq, listVars, screen, currentContractor, errorShown,
                   trap, overlap, confirmed>>

\* The form leaves the navigation stack; its handlers stay.
LeaveForm ==
    /\ Alive /\ screen = "form"
    /\ screen' = "list"
    /\ HandOver("form", "closed form")
    /\ UNCHANGED <<storeVars, fetching, used, listVars, currentContractor, errorShown,
                   trap, overlap, confirmed>>

ConfirmAndReload_NoReload ==
    /\ confirmed' = confirmed \cup {Head(mainq).doc}
    /\ UNCHANGED <<listVars, fetching, overlap>>

\* The success message and the delegate's reload().
ConfirmAndReload ==
    /\ confirmed' = confirmed \cup {Head(mainq).doc}
    /\ Reload

\* The answer to a save.  A form that is still there shows the message and
\* goes; one that has gone has no navigation controller to pop.
SaveAnswered ==
    LET rest == Tail(mainq)
        form == Head(mainq).to
    IN  /\ Head(mainq).kind = "written"
        /\ IF Head(mainq).ok
           THEN /\ ConfirmAndReload
                /\ screen' = IF form = "form" THEN "list" ELSE screen
                /\ handlers' = [i \in DOMAIN handlers |->
                        IF handlers[i] = form THEN "closed form" ELSE handlers[i]]
                /\ mainq' = [i \in DOMAIN rest |->
                        IF rest[i].to = form THEN [rest[i] EXCEPT !.to = "closed form"] ELSE rest[i]]
                /\ UNCHANGED errorShown
           ELSE /\ mainq' = rest
                /\ errorShown' = (errorShown \/ form = "form")
                /\ UNCHANGED <<listVars, fetching, handlers, screen, overlap, confirmed>>
        /\ UNCHANGED trap

-----------------------------------------------------------------------------
(***************************************************************************)
(* The client, the main queue, the process, the portal.                    *)
(***************************************************************************)

programVars == <<used, listVars, screen, currentContractor, errorShown, trap, overlap,
                   confirmed>>

LoadAnswered ==
    /\ Alive
    /\ QueryServer("list", Mine) \/ QueryCache("list", Mine) \/ QueryFails("list")
    /\ UNCHANGED programVars

SaveConfirmed == Alive /\ WriteAnswered /\ UNCHANGED programVars
StreamWorks   == Alive /\ WriteStream /\ UNCHANGED programVars

MainQueueRuns ==
    /\ Alive /\ mainq # <<>>
    /\ SnapshotArrives \/ LoadErrorArrives \/ SaveAnswered
    /\ UNCHANGED <<storeVars, used, currentContractor>>

\* The process ends, by a trap or by the system, and is started again.
Restart ==
    /\ ProcessEnds
    /\ Clear
    /\ screen' = "away"
    /\ errorShown' = FALSE
    /\ trap' = "none"
    /\ overlap' = FALSE
    /\ confirmed' = confirmed
    /\ UNCHANGED <<used, currentContractor>>

PortalActs(d) ==
    /\ \/ d \notin used /\ used' = used \cup {d} /\ RemoteSet(d, Contractor(d))
       \/ server[d] # NoDoc /\ RemoteSet(d, NoDoc) /\ UNCHANGED used
    /\ UNCHANGED <<callVars, listVars, screen, currentContractor, errorShown, trap, overlap,
                   confirmed>>

Init ==
    /\ server = [d \in DocId |-> IF d \in Existing THEN Contractor(d) ELSE NoDoc]
    /\ cache = [d \in DocId |-> NoDoc]
    /\ queue = <<>> /\ sent = 0 /\ synced = [d \in DocId |-> 0]
    /\ CallsInit
    /\ used = Existing
    /\ contractorArray = <<>> /\ contractorNumber = 0
    /\ index = 0 /\ stack = <<>> /\ labelled = FALSE
    /\ screen = "away" /\ currentContractor = Blank
    /\ errorShown = FALSE /\ trap = "none"
    /\ overlap = FALSE /\ confirmed = {}

UserActs ==
    \/ Open \/ Back \/ LeaveForm
    \/ \E i \in DOMAIN stack : ContractorButtonAction(i) \/ InsertionButtonAction(i)
    \/ \E d \in DocId : AddContractorTapped(d)

ClientActs == LoadAnswered \/ SaveConfirmed \/ StreamWorks \/ MainQueueRuns

Next == UserActs \/ ClientActs \/ Restart \/ \E d \in DocId : PortalActs(d)

Spec == Init /\ [][Next]_vars

\* The network answers in the end and the main queue runs what waits for it.
Fairness ==
    /\ WF_vars(LoadAnswered)
    /\ WF_vars(StreamWorks)
    /\ WF_vars(SaveConfirmed)
    /\ WF_vars(MainQueueRuns)

FairSpec == Spec /\ Fairness

-----------------------------------------------------------------------------
(***************************************************************************)
(* Properties.                                                             *)
(***************************************************************************)

\* Unless two loads have filled one array, the stack of buttons and the
\* array match: the i-th button is titled with, and opens, the i-th element,
\* "+" is the last button and the next one goes in just before it, whatever
\* blank contractors, reloads and late answers came in between.
StackMatchesArray ==
    ~overlap /\ stack # <<>> =>
        /\ index = Len(contractorArray)
        /\ stack = Buttons(contractorArray, 0) \o <<Plus>>

\* When the user was told that a contractor has been added, the list that is
\* shown once the calls are answered has it, also when it was loaded from the
\* cache, unless someone else has removed the contractor.
ConfirmedContractorIsListed ==
    Alive /\ screen = "list" /\ ~Awaits("list") /\ queue = <<>> /\ mainq = <<>> =>
        \A d \in confirmed :
            server[d] # NoDoc =>
                \E i \in DOMAIN stack : stack[i] # Plus /\ stack[i].contractor = d

\* A form that has stored its contractor goes away by itself or says that the
\* save has failed, unless the process is killed: the server's answer finds it.
SavedFormCloses ==
    screen = "form" /\ (\E i \in DOMAIN handlers : handlers[i] = "form")
        ~> screen # "form" \/ errorShown \/ ~Alive

=============================================================================
