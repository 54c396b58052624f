------------------------------ MODULE TaskList ------------------------------
(***************************************************************************)
(* The task list of one project (TaskViewController), the sheet that       *)
(* creates a task (AddTaskViewController, its network part) and the        *)
(* Firestore collection "Task" under them.  Everything the two controllers *)
(* do runs on the main queue, one callback or touch at a time; between two *)
(* of them anything else may run.                                          *)
(***************************************************************************)
EXTENDS FirestoreClient, FiniteSets, SequencesExt

CONSTANTS
    Project,    \* the projects whose tasks share the collection
    project,    \* the project whose tasks the screen lists
    Existing,   \* the tasks already in the collection when the app starts
    KeyOrder,   \* KeyOrder[d]: the rank of key d in the order of the keys
    Swipable,   \* can the sheet be swiped away (iOS 13 and later)?
    MaxLoads    \* BOUND on the queries a user has outstanding at once

TaskField == {"projectID", "taskType", "taskResolvedDate", "taskDueDate", "taskID"}

ASSUME TaskAssumption ==
    /\ Field = TaskField
    /\ Value = DocId \cup Project \cup {"ongoing", "completed", "date", "blank"}
    /\ project \in Project
    /\ Existing \subseteq DocId
    /\ KeyOrder \in [DocId -> Nat]
    /\ IsFiniteSet(DocId)
    /\ Swipable \in BOOLEAN
    /\ MaxLoads \in Nat

VARIABLES
    used,       \* keys already drawn by document() or by the portal
    tasks,      \* the controller's array
    rows,       \* what the table view shows, row by row
    fetching,   \* getDocuments calls that have not been answered
    mainq,      \* completion handlers waiting for the main queue
    screen,     \* "away", "list" or "sheet"
    closing,    \* the sheet will dismiss itself (asyncAfter 3 s)
    creator,    \* the sheet whose handler waits for the answer to a create
    trap,       \* why the process was killed by a run-time trap, or "none"
    overlap,    \* HISTORY: two loads were under way at once on this screen
    deleted     \* HISTORY: tasks the user deleted and the server accepts so

uiVars  == <<tasks, rows, fetching, mainq, screen, closing, creator, trap, overlap>>
vars    == <<storeVars, used, uiVars, deleted>>

Task == [taskID : DocId \cup {Nil}, taskStatus : {"ongoing", "completed", Nil},
         taskResolvedDate : {"date", "N/A"}]

Callback ==
    [kind : {"snapshot"}, docs : Seq(Document)]
    \cup [kind : {"loadError"}]
    \cup [kind : {"created"}, doc : DocId, ok : BOOLEAN]

TypeOK ==
    /\ StoreTypeOK
    /\ used \subseteq DocId
    /\ tasks \in Seq(Task)
    /\ rows \in Seq(Task)
    /\ fetching \in Nat
    /\ mainq \in Seq(Callback)
    /\ screen \in {"away", "list", "sheet"}
    /\ closing \in BOOLEAN
    /\ creator \in [DocId -> {"none", "open sheet", "closed sheet"}]
    /\ trap \in {"none", "range", "cast", "inconsistent"}
    /\ overlap \in BOOLEAN
    /\ deleted \subseteq DocId

-----------------------------------------------------------------------------
(***************************************************************************)
(* Documents and mutations of the collection.                              *)
(***************************************************************************)

\* The document that a new task is written as.
NewTask(d, p) ==
    [projectID |-> p, taskType |-> "ongoing", taskResolvedDate |-> "blank",
     taskDueDate |-> "date", taskID |-> d]

Creation(d) == [doc |-> d, write |-> NewTask(d, project)]

StatusWrite_WithProject(completed) ==
    [projectID |-> project, taskDueDate |-> Keep, taskID |-> Keep,
     taskType |-> IF completed THEN "completed" ELSE "ongoing",
     taskResolvedDate |-> IF completed THEN "date" ELSE "blank"]

StatusWrite_StatusOnly(completed) ==
    [projectID |-> Keep, taskDueDate |-> Keep, taskID |-> Keep,
     taskType |-> IF completed THEN "completed" ELSE "ongoing",
     taskResolvedDate |-> IF completed THEN "date" ELSE Keep]

\* The fields that a tap on the checkbox writes.
StatusWrite(completed) ==
    [projectID |-> Keep, taskDueDate |-> Keep, taskID |-> Keep,
     taskType |-> IF completed THEN "completed" ELSE "ongoing",
     taskResolvedDate |-> IF completed THEN "date" ELSE "blank"]

Listed_Any(doc) == doc # NoDoc

\* The filter of createTaskArray.
Listed(doc) == doc.projectID = project

TaskOf_NoTaskID(doc) ==
    [taskID |-> Nil, taskStatus |-> doc.taskType, taskResolvedDate |-> "N/A"]

\* The Task object made from a document ("N/A" for a missing string is Nil).
TaskOf(doc) ==
    [taskID |-> doc.taskID,
     taskStatus |-> doc.taskType,
     taskResolvedDate |-> IF doc.taskResolvedDate = "date" THEN "date" ELSE "N/A"]

\* The documents of this project in a view, in key order.
Listings(view) ==
    LET found == {d \in DocId : Listed(view[d])}
    IN  {[i \in DOMAIN keys |-> view[keys[i]]] :
            keys \in {s \in SeqOf(found, Cardinality(found)) :
                        /\ ToSet(s) = found
                        /\ \A i, j \in DOMAIN s : i < j => KeyOrder[s[i]] < KeyOrder[s[j]]}}

-----------------------------------------------------------------------------
(***************************************************************************)
(* The controller's private steps.                                         *)
(***************************************************************************)

Alive == trap = "none"

Trap(why) ==
    /\ trap' = why
    /\ UNCHANGED <<tasks, rows, fetching, mainq, screen, closing, creator, overlap>>

Loading == fetching > 0 \/ \E i \in DOMAIN mainq : mainq[i].kind = "snapshot"

ReloadTaskList_NoRemoveAll ==
    tasks' = tasks /\ fetching' = fetching + 1 /\ overlap' = (overlap \/ Loading)

\* removeAll() and createTaskArray(): the table is not told.
ReloadTaskList ==
    /\ tasks' = <<>>
    /\ fetching' = fetching + 1
    /\ overlap' = (overlap \/ Loading)

Display_Nothing(list) == rows' = rows

\* reloadData() after the array was filled.
Display(list) == rows' = list

\* The controller is released, with what its handlers may still do to it.
ReleaseScreen ==
    /\ screen' = "away"
    /\ tasks' = <<>> /\ rows' = <<>>
    /\ fetching' = 0 /\ mainq' = <<>>
    /\ closing' = FALSE
    /\ creator' = [d \in DocId |-> "none"]
    /\ trap' = "none"
    /\ overlap' = FALSE

-----------------------------------------------------------------------------
(***************************************************************************)
(* The user on the task list.                                              *)
(***************************************************************************)

\* The segue to the list: a new controller, whose viewDidLoad loads once.
Open ==
    /\ Alive /\ screen = "away"
    /\ screen' = "list"
    /\ fetching' = 1
    /\ UNCHANGED <<storeVars, used, tasks, rows, mainq, closing, creator, trap, overlap, deleted>>

Back ==
    /\ Alive /\ screen = "list"
    /\ ReleaseScreen
    /\ UNCHANGED <<storeVars, used, deleted>>

OnDisk_Lost ==
    /\ queue' = <<>> /\ sent' = 0 /\ synced' = [d \in DocId |-> 0]
    /\ UNCHANGED <<server, cache>>

\* The mutation queue and the cache are on disk.
OnDisk == UNCHANGED storeVars

\* The process ends (killed, or by a trap) and is started again: what the
\* Firestore client keeps on disk stays, everything else is gone.
Restart ==
    /\ screen # "away"
    /\ ReleaseScreen
    /\ OnDisk
    /\ UNCHANGED <<used, deleted>>

Refresh ==
    /\ Alive /\ screen = "list"
    /\ fetching + Len(mainq) < MaxLoads
    /\ ReloadTaskList
    /\ UNCHANGED <<storeVars, used, rows, mainq, screen, closing, creator, trap, deleted>>

\* A row is scrolled into view: the table asks for the cell of row i.
CellForRow(i) ==
    /\ Alive /\ screen = "list"
    /\ IF i \in DOMAIN tasks
       THEN /\ rows' = [rows EXCEPT ![i] = tasks[i]]
            /\ UNCHANGED <<tasks, fetching, mainq, screen, closing, creator, trap, overlap>>
       ELSE Trap("range")
    /\ UNCHANGED <<storeVars, used, deleted>>

Toggled(task, completed) ==
    [task EXCEPT !.taskStatus = IF completed THEN "completed" ELSE "ongoing",
                 !.taskResolvedDate = IF completed THEN "date" ELSE "N/A"]

\* The checkbox in row i: it toggles what the row shows, and the task of the
\* same index in the array is the one that is written.
ResolvedButtonTapped(i) ==
    /\ Alive /\ screen = "list"
    /\ Len(queue) < MaxWrites
    /\ LET completed == rows[i].taskStatus # "completed"
       IN  IF i \in DOMAIN tasks
           THEN /\ Write([doc |-> tasks[i].taskID, write |-> StatusWrite(completed)])
                /\ tasks' = [tasks EXCEPT ![i] = Toggled(@, completed)]
                /\ rows' = [rows EXCEPT ![i] = tasks'[i]]
                /\ UNCHANGED <<fetching, mainq, screen, closing, creator, trap, overlap>>
           ELSE Trap("range") /\ UNCHANGED storeVars
    /\ UNCHANGED <<used, deleted>>

RemoveRow(list, i) == RemoveAt(list, i)

\* Swipe to delete.  The table view raises an exception unless the number of
\* rows it is told at the end is one less than it shows.
DeleteRow(i) ==
    /\ Alive /\ screen = "list"
    /\ Len(queue) < MaxWrites
    /\ IF i \in DOMAIN tasks
       THEN /\ Write(Deletion(tasks[i].taskID))
            /\ deleted' = deleted \cup {tasks[i].taskID}
            /\ IF Len(tasks) = Len(rows)
               THEN /\ tasks' = RemoveRow(tasks, i)
                    /\ rows' = RemoveRow(rows, i)
                    /\ UNCHANGED <<fetching, mainq, screen, closing, creator, trap, overlap>>
               ELSE Trap("inconsistent")
       ELSE Trap("range") /\ UNCHANGED <<storeVars, deleted>>
    /\ UNCHANGED used

\* The segue to the details of row i, which only shows the task it is given.
ShowMoreTask(i) ==
    /\ Alive /\ screen = "list"
    /\ i \notin DOMAIN tasks
    /\ Trap("range")
    /\ UNCHANGED <<storeVars, used, deleted>>

-----------------------------------------------------------------------------
(***************************************************************************)
(* The user on the sheet.                                                  *)
(***************************************************************************)

AddTaskButtonTapped ==
    /\ Alive /\ screen = "list"
    /\ screen' = "sheet"
    /\ UNCHANGED <<storeVars, used, tasks, rows, fetching, mainq, closing, creator, trap, overlap, deleted>>

\* The form is complete; nothing disables the button, so it may be tapped
\* again while the answer, or the dismissal, is still to come.
CreateTaskButtonTapped(d) ==
    /\ Alive /\ screen = "sheet"
    /\ Len(queue) < MaxWrites
    /\ d \notin used
    /\ used' = used \cup {d}
    /\ Write(Creation(d))
    /\ creator' = [creator EXCEPT ![d] = "open sheet"]
    /\ UNCHANGED <<tasks, rows, fetching, mainq, screen, closing, trap, overlap, deleted>>

\* The sheet goes: its handlers still run, but it has nothing to dismiss.
CloseSheet ==
    /\ screen' = "list"
    /\ closing' = FALSE
    /\ creator' = [d \in DocId |-> IF creator[d] = "none" THEN "none" ELSE "closed sheet"]
    /\ UNCHANGED <<storeVars, used, tasks, rows, fetching, mainq, trap, overlap, deleted>>

DismissAfterSuccess == Alive /\ closing /\ CloseSheet

SwipeSheetAway == Swipable /\ Alive /\ screen = "sheet" /\ CloseSheet

-----------------------------------------------------------------------------
(***************************************************************************)
(* Answers: the client evaluates a query, or gives up, and puts the        *)
(* completion handler on the main queue.                                   *)
(***************************************************************************)

Answer(callback) == mainq' = Append(mainq, callback)

AnswerQuery(view) ==
    /\ Alive /\ fetching > 0
    /\ fetching' = fetching - 1
    /\ \E docs \in Listings(view) : Answer([kind |-> "snapshot", docs |-> docs])
    /\ UNCHANGED <<used, tasks, rows, screen, closing, creator, trap, overlap, deleted>>

QueryServer == AnswerQuery(LocalView) /\ Synchronise
QueryCache  == AnswerQuery(CachedView) /\ UNCHANGED storeVars

QueryFails ==
    /\ Alive /\ fetching > 0
    /\ fetching' = fetching - 1
    /\ Answer([kind |-> "loadError"])
    /\ UNCHANGED <<storeVars, used, tasks, rows, screen, closing, creator, trap, overlap, deleted>>

NotifyUser_Never(ok) == UNCHANGED mainq

\* The handler of the oldest mutation, if it has one, learns the answer.
NotifyUser(ok) ==
    LET m == Head(queue)
    IN  IF m.write.projectID \in Project /\ creator[m.doc] # "none"
        THEN Answer([kind |-> "created", doc |-> m.doc, ok |-> ok])
        ELSE UNCHANGED mainq

WriteAcknowledged ==
    /\ Alive
    /\ Acknowledge
    /\ NotifyUser(TRUE)
    /\ UNCHANGED <<used, tasks, rows, fetching, screen, closing, creator, trap, overlap, deleted>>

\* A refused deletion leaves the task in place; no handler hears of it.
WriteRejected ==
    /\ Alive
    /\ Reject
    /\ NotifyUser(FALSE)
    /\ deleted' = IF Head(queue).write = NoDoc THEN deleted \ {Head(queue).doc} ELSE deleted
    /\ UNCHANGED <<used, tasks, rows, fetching, screen, closing, creator, trap, overlap>>

WriteDelivered == Alive /\ Deliver /\ UNCHANGED <<used, uiVars, deleted>>
StreamBroken   == Alive /\ Reconnect /\ UNCHANGED <<used, uiVars, deleted>>

-----------------------------------------------------------------------------
(***************************************************************************)
(* The main queue runs its oldest completion handler.                      *)
(***************************************************************************)

\* createTaskArray's handler: append every task, then reload the table.
SnapshotArrives ==
    LET docs == Head(mainq).docs
    IN  /\ Head(mainq).kind = "snapshot"
        /\ IF \E i \in DOMAIN docs : docs[i].taskDueDate = Nil
           THEN Trap("cast")
           ELSE /\ tasks' = tasks \o [i \in DOMAIN docs |-> TaskOf(docs[i])]
                /\ Display(tasks')
                /\ mainq' = Tail(mainq)
                /\ UNCHANGED <<fetching, screen, closing, creator, trap, overlap>>

\* The error is printed and the list stays as it is.
LoadErrorArrives ==
    /\ Head(mainq).kind = "loadError"
    /\ mainq' = Tail(mainq)
    /\ UNCHANGED <<tasks, rows, fetching, screen, closing, creator, trap, overlap>>

\* The answer to a create: on success the list reloads at once and the sheet,
\* if it is still the one on screen, dismisses itself three seconds later.
CreateAnswered ==
    LET d == Head(mainq).doc
    IN  /\ Head(mainq).kind = "created"
        /\ mainq' = Tail(mainq)
        /\ creator' = [creator EXCEPT ![d] = "none"]
        /\ IF Head(mainq).ok
           THEN /\ ReloadTaskList
                /\ closing' = (closing \/ creator[d] = "open sheet")
           ELSE UNCHANGED <<tasks, fetching, closing, overlap>>
        /\ UNCHANGED <<rows, screen, trap>>

MainQueueRuns ==
    /\ Alive /\ mainq # <<>>
    /\ SnapshotArrives \/ LoadErrorArrives \/ CreateAnswered
    /\ UNCHANGED <<storeVars, used, deleted>>

-----------------------------------------------------------------------------
(***************************************************************************)
(* The web portal inserts and deletes tasks.                               *)
(***************************************************************************)

PortalInserts(d, p) ==
    /\ d \notin used
    /\ used' = used \cup {d}
    /\ RemoteSet(d, NewTask(d, p))
    /\ UNCHANGED <<uiVars, deleted>>

PortalDeletes(d) ==
    /\ server[d] # NoDoc
    /\ RemoteSet(d, NoDoc)
    /\ UNCHANGED <<used, uiVars, deleted>>

-----------------------------------------------------------------------------
Init ==
    /\ server = [d \in DocId |-> IF d \in Existing THEN NewTask(d, project) ELSE NoDoc]
    /\ cache = [d \in DocId |-> NoDoc]
    /\ queue = <<>> /\ sent = 0 /\ synced = [d \in DocId |-> 0]
    /\ used = Existing
    /\ tasks = <<>> /\ rows = <<>>
    /\ fetching = 0 /\ mainq = <<>>
    /\ screen = "away" /\ closing = FALSE
    /\ creator = [d \in DocId |-> "none"]
    /\ trap = "none"
    /\ overlap = FALSE
    /\ deleted = {}

RowTouched ==
    \E i \in DOMAIN rows :
        CellForRow(i) \/ ResolvedButtonTapped(i) \/ DeleteRow(i) \/ ShowMoreTask(i)

UserActs ==
    \/ Open \/ Back \/ Refresh \/ RowTouched
    \/ AddTaskButtonTapped \/ SwipeSheetAway
    \/ \E d \in DocId : CreateTaskButtonTapped(d)

ClientActs ==
    \/ QueryServer \/ QueryCache \/ QueryFails
    \/ WriteDelivered \/ WriteAcknowledged \/ WriteRejected \/ StreamBroken
    \/ MainQueueRuns \/ DismissAfterSuccess

PortalActs ==
    \E d \in DocId : PortalDeletes(d) \/ \E p \in Project : PortalInserts(d, p)

Next == UserActs \/ ClientActs \/ PortalActs \/ Restart

Spec == Init /\ [][Next]_vars

\* The network answers in the end, the main queue runs what waits for it and
\* the timer fires; nothing is assumed of the user or of the portal.
Fairness ==
    /\ WF_vars(QueryServer \/ QueryCache \/ QueryFails)
    /\ WF_vars(WriteDelivered)
    /\ WF_vars(WriteAcknowledged)
    /\ WF_vars(MainQueueRuns)
    /\ WF_vars(DismissAfterSuccess)

FairSpec == Spec /\ Fairness

-----------------------------------------------------------------------------
(***************************************************************************)
(* Properties.                                                             *)
(***************************************************************************)

\* The array and the table agree, except while a reload has emptied the array
\* under a table that still shows the old rows: a touch on a row either acts
\* on the very task shown there or finds no task at all, never another one.
ShownMatchesModel == tasks # <<>> => rows = tasks

\* The only run-time traps of the list are touches of rows that a reload has
\* left behind: never a forced cast of a due date that is not there (a tap on
\* a deleted task stores a document without one), never a table whose row
\* count does not add up after a deletion.
TrapsOnlyOnClearedList ==
    trap # "none" => trap = "range" /\ tasks = <<>> /\ rows # <<>>

\* A task the user deleted is not found by any later query of this device,
\* answered by the server or from the cache, whatever taps, restarts, resent
\* writes and deletions by the portal it is mixed with.
UserDeletesStick ==
    \A d \in deleted : ~Listed(LocalView[d]) /\ ~Listed(CachedView[d])

\* While loads do not overlap, no task is listed twice.
NoTaskListedTwice(list) ==
    \A i, j \in DOMAIN list : list[i].taskID = list[j].taskID => i = j

SingleLoadsListOnce == ~overlap => NoTaskListedTwice(rows)

\* While loads do not overlap and no write is refused, the checkbox of every
\* listed task that still exists shows the state the server will hold once
\* the device's queue has drained: the user's last tap is never overwritten
\* by an older answer, an older write or a stale cache.
CheckboxTellsFinalState ==
    ~overlap /\ ~Rejects =>
        \A i \in DOMAIN tasks : \A d \in DocId :
            d = tasks[i].taskID /\ Listed(LocalView[d])
                => LocalView[d].taskType = tasks[i].taskStatus

\* When the handler of a create learns of its success, the reload it starts
\* finds the task even if it is answered from the cache, unless someone has
\* deleted the task meanwhile.
ConfirmedTaskIsFound ==
    \A i \in DOMAIN mainq :
        mainq[i].kind = "created" /\ mainq[i].ok =>
            LET d == mainq[i].doc
            IN  Listed(LocalView[d]) => Listed(CachedView[d])

\* A task has a date of completion exactly while it is completed, on the
\* server, in both views of the device and in the list.
ResolvedDateTellsStatus ==
    /\ \A d \in DocId : \A doc \in {server[d], LocalView[d], CachedView[d]} :
          Listed(doc) => (doc.taskType = "completed" <=> doc.taskResolvedDate = "date")
    /\ \A i \in DOMAIN tasks :
          tasks[i].taskStatus = "completed" <=> tasks[i].taskResolvedDate = "date"

\* The life of every task on the server is a life the ledger allows.
AwaitsCreation(d) ==
    \E i \in DOMAIN queue : i > sent /\ queue[i] = Creation(d)

StatusOf(d) ==
    IF server[d].projectID \in Project THEN server[d].taskType
    ELSE IF d \in used /\ ~AwaitsCreation(d) THEN "gone"
    ELSE "unborn"

Ledger == INSTANCE TaskLedger WITH status <- [d \in DocId |-> StatusOf(d)]

ServerFollowsLedger == Ledger!LedgerSpec

\* Every handler that waits for the answer to a create gets one, unless its
\* controller goes away or the process is killed by a trap.
CreateIsAnswered ==
    \A d \in DocId : creator[d] # "none" ~> creator[d] = "none" \/ trap # "none"

\* A new task reaches the server although the controllers, or the process,
\* end before it does.
CreateSurvives ==
    \A d \in DocId : AwaitsCreation(d) ~> Listed(server[d]) \/ trap # "none"

-----------------------------------------------------------------------------
(***************************************************************************)
(* What the comments of the controller say, and the code does not do.      *)
(***************************************************************************)

\* "Change the state of the checkbox when it's clicked", "Sends the state of
\* the task to the Firebase database": a tap on a row that the table shows
\* finds the task to write.
ClickNeverTraps == trap # "range"
=============================================================================
