# A formal model of the Going Rogue Design customer app

The repository is an iOS app (Swift, UIKit, Firebase) with which the customers
of a design studio follow their projects. Its own code is about thirty Swift
files in `src/GoingRogueDesign/GoingRogueDesign/`; everything else under `src/`
is vendored pods (Firestore, gRPC, leveldb, abseil, BoringSSL, ...), of which
only Firestore's client core decides how the app behaves.

What is hard about such an app is not in any one handler: every handler is
short, but each screen keeps an array, a table view and several outstanding
requests, the handlers run one at a time on the main queue in an order nobody
wrote down, writes are visible before they are stored, and the same documents
are changed by another program (the studio's web portal).

## 1. Inventory

The app's files are in `src/GoingRogueDesign/GoingRogueDesign/`, the Firestore
client's in `src/GoingRogueDesign/Pods/FirebaseFirestore/Firestore/core/src/`.

| Component | State | Operations | Talks to | Hard part | What makes it correct |
|---|---|---|---|---|---|
| **Firestore: local view and calls** (`local/`, `core/sync_engine.cc`, `api/`) | mutation queue and document cache (both on disk), callbacks | write, deliver, acknowledge, reject, resend, answer a query | server; completion handlers on the main queue | a mutation moves from queue to cache; a broken stream resends; the cache may be newer than an acknowledgement | a device's view of its own writes never depends on the progress of the network |
| **Firestore: watch connection** (`remote/stream.cc`, `online_state_tracker.cc`, `remote_store.cc`, `core/event_manager.cc`) | stream state, idle, backoff and online timers, failures, listeners | listen, stop, token, open, fail, message, timers, user change | gRPC, credentials, server | timers and tokens of a stream that has been replaced; when to give up waiting | every call is answered, from the cache at the latest |
| **Firestore: write pipeline** (`remote/write_stream.cc`, `grpc_stream.cc`, `remote_store.cc`) | queue per user, pipeline of ten, handshake, wire | enqueue, fill, handshake, result, refusal, failure, user change, restart | server | a result carries no name: it is taken for the head | order, nobody else's writes, success and blame reported truly, every write answered |
| **Firestore: limbo resolution** (`core/sync_engine.cc`, `view.cc`) | limbo documents per query, keys that wait, entries, targets | track, pump, resolve, reject, end of a query | remote store | a limit of 100 at a time, keys shared by queries | none forgotten, free places used |
| **Task list** (`TaskViewController`, `TaskViewCell`, `Task`) | `tasks`, table rows, outstanding loads | load, pull-to-refresh, checkbox, swipe-to-delete, segue, reload asked by the sheet | Firestore; sheet (delegate) | row indices used on an array that reloads empty and refill; stale answers; deleted tasks that are ticked | a touch acts on the task that is shown; the checkbox tells what the server will hold; a deleted task stays deleted |
| **Add task sheet** (`AddTaskViewController`) | fields, picker, pending create, 3-second timer | type, pick a date, create, dismiss | Firestore; task list (delegate) | the sheet may be gone when the answer comes; the limit of 200 mixes two ways of counting | one answer per create; the task survives screens and process; the stored date is the shown date |
| **Invoices** (`InvoicesViewController`) | array, rows, loads | load, refresh, mark paid | Firestore | a mark that nobody waits for, on an invoice that may be withdrawn | the mark goes to the invoice shown, stays and is stored |
| **Contractors** (`EditContractorsViewController`, `ShowContractorInfoViewController`) | array, stack of buttons, `index` | load, add a blank, open, save, reload by delegate | Firestore; form | a stack kept by hand beside an array; late answers | one button per contractor; what was confirmed is listed |
| **Account** (`AccountViewController`, `EditAccountViewController`) | labels, form, `documentID` list | load, update, log out | Firestore; delegate | answers for a page that was replaced, a user who has gone | "All the changes have been saved." is said only when they are |
| **Session** (`HomeViewController`, `LoginViewController`, `LogOutViewController`) | current user, enabled tabs, greeting | sign in, sign out, select a tab, pop-ups | FirebaseAuth; tab bar | sign-ins overlap, answers find pages gone | tabs and greeting belong to who is signed in |
| **Task details, project, document and calendar lists** | labels; array and rows | show; load, refresh, open a row | Firestore, Storage, EventKit | as task list and invoices, read-only | - |
| **Request form, list of services, calculator, helpers** | none that outlives a tap | - | mail composer | none | - |
| **Web portal** | not in the repository | inserts and deletes documents | Firestore | changes what is shown on the device | - |

The interactions: controllers call Firestore and get one completion per call on
the main queue; a sheet or form tells its parent through a delegate
(`reloadTaskList`, `reloadAccountInfo`, `reload`); a controller dies with its
navigation-stack entry, its calls do not; FirebaseAuth changes the user on a queue
of its own and tells the Firestore client by a notification. Inside the client,
everything runs on one worker queue, to which gRPC, timers, credentials and the
app's calls post operations. The hazards, with the line where each bites and the
properties that cover it, are listed in `PROJECT.json`; each has a property.

## 2. Modules

| Module | What it is |
|---|---|
| `FirestoreClient` | one collection as a device sees it: `server`, `cache`, `queue`, `sent`, `synced`, and the steps that change them |
| `FirestoreCalls` | EXTENDS it: unanswered `getDocuments`, the handler of each queued write, the main queue, and the end of the process |
| `TaskList` | EXTENDS `FirestoreClient`: the task list, the network part of the add-task sheet, user and portal |
| `TaskLedger` | abstract specification of the life of a task, which `TaskList` implements |
| `AddTaskForm` | what the sheet's fields accept, show and hand over |
| `Contractors`, `Account`, `Invoices` | EXTEND `FirestoreCalls`: a list with its form, a page with its form and signing out, a table with buttons |
| `Session` | sign-ins, tabs, greeting, pop-ups |
| `Streams` | the state machine that both streams share (`remote/stream.cc`), as operators on a record |
| `WatchConnection` | EXTENDS `Streams`: remote store, online-state tracker, one-shot listeners |
| `WriteQueue` | abstract specification: queues per user, answered oldest first, each write reported once at most |
| `WritePipeline` | EXTENDS `WriteQueue` and `Streams`: how the writes reach the server; it implements `WriteQueue` |
| `LimboResolution` | the sync engine's books of documents in limbo |
| `MC...` | the sets that the TLC configurations use |
| `...Proofs` | theorems and proofs, of the module of that name; `ListenProofs` is about `WatchConnection` and `LimboResolution`, `ScreenProofs` about `Session` and `AddTaskForm` |

The composition: `FirestoreClient` is what the screens are composed with.
`WritePipeline`, `WatchConnection` and `LimboResolution` look inside the client
and justify what `FirestoreClient` and `FirestoreCalls` take for granted: that
the head of the queue is answered first and truly, and that every query
is answered.

### `FirestoreClient` and the code

A document is a function from the fields the app uses to values; `Nil` is a
missing field and a document that is `Nil` everywhere does not exist. A
mutation gives each field a value or `Keep` (outside the field mask).

* `Write` is `LocalStore::WriteLocally` with the write pipeline: the batch joins
  the persistent queue before the call returns.
* `Overlay` is `LocalDocumentsView` applying the queue to a base document. It is
  stated by what it computes (each field holds what its *last writer* gave it)
  rather than as a fold, so that it can be proved about.
* `Deliver` and `Acknowledge` are the write stream: the server applies in order,
  and the answer to the head moves it from queue to cache.
* `synced[d]` counts the delivered mutations that are no newer than the cached
  `d`. It is the model's form of the version comparison of
  `local_store.cc:213`: an acknowledgement whose version is not newer than the
  cached document's leaves that document alone. `Synchronise` may leave it
  alone for a document absent on both sides, whose deletion the watch stream
  has no reason to tell.
* `Reject` drops a mutation the server refuses for good; `Reconnect` is the
  pipeline being sent again (`remote_store.cc`). Whether the server applies a
  mutation twice is the server's business, not in the repository: the constant
  `Resend` covers both answers.
* `RemoteSet` is every other client.

### `TaskList` and the code

`tasks` is the controller's array, `rows` what the table has on screen, `fetching`
the unanswered `getDocuments` calls, `mainq` the completion handlers that wait
for the main queue, `creator[d]` the sheet whose handler waits for the answer to
the create of `d`. One action is one handler: `Refresh`, `CellForRow`,
`ResolvedButtonTapped`, `DeleteRow`, `ShowMoreTask`, `CreateTaskButtonTapped`,
`SnapshotArrives`, `CreateAnswered`, ... each with the index checks of Swift's
arrays: an index out of range, the forced cast of the due date and the row-count
check of `deleteRows` set `trap`, after which only `Restart` is possible.
`Restart` also stands for the process being killed: queue and cache stay, every
screen, answer and handler is lost.

Abstractions, all of them on purpose:

* of a task, its project, status, date of completion, whether it has a due date
  and its key are kept; names, descriptions and date formats are not. "date" is
  any formatted date, "blank" the empty string the app writes for "not yet";
* a query is evaluated in one step, in which its answer is fixed; the handler
  runs later. The watch stream really brings changes in several messages, but
  the answer is raised only once the target is current, and documents older than
  the cached version are ignored (`local_store.cc:333`);
* one user is signed in and the portal inserts and deletes tasks but does not
  edit them;
* the limit of the write pipeline is the matter of `WritePipeline`;
* `overlap` and `deleted` are history variables: no action reads them.

### The other screens

* `Contractors`: `contractorArray`, `index` and the `stack` of buttons are the
  list controller's; a button remembers the `tag` it was built with, as the code
  does. `Reload` empties all three, `BuildPage` fills the stack from the array,
  `InsertionButtonAction` inserts a blank. `AddContractorTapped` is the form's
  save; its handler pops the form and reloads the list when the answer is good and
  shows the error when it is not. The five fields are always written together
  and are one value.
* `Account`: `labels` is the page, `text` the form's fields, `userID` whether the
  form knows the document it is to update. Updating writes what is in the fields to that
  document, and says that all is saved even if it knows none. Logging out replaces
  the page at once and the client learns of it later (`CredentialsChange`), from when
  the queue of that customer rests until the same customer is back.
* `Invoices`: a tap writes two fields of the row's invoice without a handler,
  and the row is redrawn at once.
* In these three there is one list controller at a time: it is opened again
  once the calls of its predecessor have been answered. A controller that has left
  the screen lives for its handlers alone, and two of them share nothing but the store.
* `Session`: `logins` are the calls of `signIn` under way, `mainq` the handlers
  that wait, each with whether its page is still on screen; `NewTabBar` is the
  `viewDidLoad` of `HomeViewController`, the only place that enables tabs.
* `AddTaskForm`: a description is a sequence of UTF-16 units, each of which begins a
  character or is joined to the one before it, so a character may be any number of
  units long, and a text put behind another may have fewer new characters than it had by
  itself. `Count` counts characters, an `NSRange` is measured in units, and
  `ShouldChangeTextIn` does the code's arithmetic with both.

### Inside the client

* `Streams`: `state`, the three timers or calls a stream may own, and the tokens
  it awaits, which a close makes "stale" (the code compares `close_count_`).
* `WatchConnection`: one action is one operation of the worker queue. A call waits,
  is answered, and then removes its listener. `kMaxWatchStreamFailures` is 1 in the code
  and in the run; the proofs take any value.
* `WritePipeline`: `requests` and `replies` are the two directions of the stream,
  with `Hello` for the handshake; `verdict` is a refusal that has not reached the
  client. `Added` and `Extended` are the loop of `FillWritePipeline`.
* `LimboResolution`: `refs` is what each view holds in limbo, `byKey` and
  `byTarget` are the two maps of the sync engine, `enqueued` the keys that wait. The functions of
  the sync engine take these books and return them changed: `Pump` listens for as many of the keys that
  wait as its loop would (the least number at which it stops), `UpdateTrackedLimboDocuments` makes
  one change after the other.

## 3. Runs

| Run | Properties | Instance | Outcome |
|---|---|---|---|
| `races` | `TypeOK`, `SingleLoadsListOnce`, `ShownMatchesModel`, `TrapsOnlyOnClearedList`, `UserDeletesStick`, `ConfirmedTaskIsFound`, `ResolvedDateTellsStatus`, `DeliveryIsInvisible`, `AcknowledgementIsInvisible` | 1 key, 2 projects, 2 writes, 2 loads, resends, refusals, swipable sheet | holds; 391 348 states |
| `liveness` | `CheckboxTellsFinalState`, `CreateIsAnswered`, `CreateSurvives`, `ServerFollowsLedger` | 1 key, 3 writes, 1 load, `FairSpec` | holds; 67 926 |
| `contractors` | `StackMatchesArray`, `ConfirmedContractorIsListed`, `SavedFormCloses` | 3 keys, 1 there already, 1 blank, 2 writes, resends, refusals | holds; 141 742 |
| `account` | `SavedIsStored`, `PageShowsProfile` | 2 profiles, 2 writes, 2 calls, resends, refusals, log-outs | holds; 678 858 |
| `session` | `TabsNeedCustomer`, `WelcomeIsForCustomer`, `LoginOpensTabs` | 2 customers, 3 overlapping sign-ins | holds; 90 959 |
| `invoices` | `PaidBoxTellsFinalState`, `TapMarksTheInvoiceShown`, `WithdrawnBillsStayAway`, `PaymentIsStored` | 2 invoices, 1 there already, 2 writes, 1 load, resends | holds; 212 885 |
| `add_task_form` | `StoredDateIsShown` | limit 2, texts to 4 units, edits to 2, 2 days | holds; 15 640 |
| `watch` | `CallbacksMeetTheirStream`, `NobodyWaitsOffline`, `WaitIsTimed`, `CallIsAnswered` | 4 calls of 3 queries | holds; 2 414 |
| `writes` | `PipelineIsTheQueue`, `WireIsThePipeline`, `SuccessIsTrue`, `BlamesTheRefused`, `KeepsThePromise`, `WriteIsAnswered` | 3 writes, 2 users, pipeline of 2 | holds; 33 182 |
| `limbo` | `NoLimboIsForgotten`, `RoomIsUsed`, `EntriesHaveTargets` | 3 keys, 2 views, 2 resolutions at a time | holds; 15 300 |
| `click` | `ClickNeverTraps` | 1 task, 1 write, 1 load | **violated** |
| `description_limit` | `DescriptionWithinLimit` | as `add_task_form` | **violated** |

Each property of a passing run has a mutant in `PROJECT.json`: a change of the
modelled code, as a plausible bug would make it, under which TLC finds the property
violated.

**Bounds.** `MaxWrites` bounds the unacknowledged mutations, in `writes` the
writes that are made; `MaxLoads` and `MaxCalls` the queries a user has
outstanding, `MaxLogins` the sign-ins under way, `MaxBlanks` the contractors that
are being added. Where a load is started by a handler rather than by the user,
they do not stop it, so runs with one load too meet loads that overlap. Two writes
are the smallest number at which order matters: a deletion after a tap, an old
write resent over a new one, an acknowledgement while a second write waits.
Three writes with a pipeline of two (`kMaxPendingWrites`, 10 in the code) are the
smallest in which one has to wait for a place. One key is enough for what
happens to one document, since mutations of different documents do not
interact; what a list adds is the index, which `invoices` and `contractors`
check with two or three, and the theorems about the task list for any number of tasks. `MaxText`, `MaxInsert` and `Limit` keep the
texts short: four units hold two characters of two units each, which is a full
description at the limit of two, and one more than it needs to pass the limit. `MaxEnqueued` and
`MaxTargets` bound the waiting keys and the targets of one key in limbo; with two
views a key is enqueued twice at most. No run counts steps: all
behaviours of an instance, of any length, are explored. No run uses symmetry or a
constraint, and deadlock is checked in all of them.

**Fairness.** Nothing is assumed of the user or the portal, nor that the process
stays alive; a property either allows for the end of the process or holds through it.

* `TaskList`, `Contractors`: weak fairness of the client's answers, of the
  stream and of the main queue: the obligations of the SDK, of a network that is
  there eventually, and of GCD. Each of these steps, once possible, stays so
  until it is taken or until a restart. `liveness` has neither resends nor refusals, under
  which the server may never hold the task; that the checkbox is right under
  resends too is the theorem `CheckboxesAreFinal`.
* `Invoices`: the same, with strong fairness of delivery and answer, since
  `PaymentIsStored` spans restarts: the app is not killed every single time
  before the network has come back.
* `Session`: sign-ins and queries are answered and handlers run.
* `WatchConnection`: timers fire, the credentials come, gRPC reports what became of
  an attempt. That the server answers a query is strong fairness: of attempts
  that are made again and again, some get through. For a server that never
  answers, `NobodyWaitsOffline` and `WaitIsTimed` say what ends the wait.
* `WritePipeline`: as above; of attempts that are made again and again some open,
  are greeted, get a request judged and its verdict heard. Each is a strong
  fairness condition of its own, because any of them may be undone by a failure of the
  stream.

### What the code does not promise

Properties here state what the code does guarantee, with its exceptions. The
exceptions are worth knowing. Two are runs of their own, where comments in the code
say what it is to do: `click` and `description_limit`.

* `click`: `refresh` and `reloadTaskList` empty the array without telling the
  table. Until the answer comes (for ever, if the load fails), a tap on
  any row still on screen indexes an empty array. `TrapsOnlyOnClearedList` shows that
  this is the only trap. `InvoicesViewController.swift:98` repeats the lines, so
  `TapMarksTheInvoiceShown` excepts the emptied array.
* `description_limit`: the check of `AddTaskViewController.swift:93` subtracts the length of
  the replaced range, in UTF-16 units, from counts of characters, so it takes a replaced
  character of several units (emoji, flags, letters with separate accents) for as many.
  With 199 letters and an emoji of two units, replacing the emoji by two letters is
  accepted, 200 + (2 - 2), and leaves 201 characters; a replaced flag makes it 203. Nor
  does it end there: `n` emoji may be replaced by `n + 200`, and these by `n + 400`. Only
  where every replaced character is one unit long does the check keep the limit. TLC needs
  three edits: a letter, an accent with another letter behind it, and two letters in place of the first.
* `TaskViewController.swift:74`: loads that overlap append to one array and list
  every task twice. `SingleLoadsListOnce` shows that nothing else does. In the
  contractors' list (`EditContractorsViewController.swift:96`) the tags of the
  buttons then also run past each other; `StackMatchesArray` excepts it.
* `EditContractorsViewController.swift:112`: the button that adds a contractor is only built when
  there is one. Line 176: a failed load adds constraints to a label that is not in the
  view yet, which is a trap.
* `EditAccountViewController.swift:109`: update before the load has answered
  writes nothing and says that everything is saved; `SavedIsStored` is about forms that
  were touched after loading. A late load overwrites what has been typed (line 67).
* `AccountViewController.swift:46`: a form whose update is answered after a log-out
  reloads the page, which unwraps the user who has gone.
* `LoginViewController.swift:39`: logging out does not cancel the sign-ins that
  are under way; line 58: a login page that has been left has no window whose root
  it could replace, so the customer is signed in behind locked tabs.
  `ProjectsViewController.swift:47`: a session that ends on the server leaves the tabs enabled.
* `remote_store.cc:168`: dropping the last query clears the online-state timer
  while the stream is still starting, and the query that comes next is not timed
  (compare the comment at `online_state_tracker.cc:44`); `WaitIsTimed` excepts it.
* `remote_store.cc:489`: a permanent error is blamed on the head of the pipeline.
  If a later request could not be sent (`grpc_stream.cc:313`), replies that were
  under way are dropped with the call, and the head may have been stored.
  `BlamesTheRefused` holds whenever none were.
* `sync_engine.cc:532`: a key that waits and is tracked again by a second query
  is enqueued twice and may get two targets, one of which is never stopped.
* `AddTaskViewController.swift:118`: the stored date is the wheel's, which may have
  been turned after Done; `StoredDateIsShown` excepts that.

## 4. Proofs

All theorems hold for every value of the constants: any tasks, projects and keys, queue
lengths, loads, users, writes, pipeline sizes, calls, queries, failure limits, customers and
sign-ins, with or without resends and refusals, from the modules' named
assumptions alone (finite keys, positive limits, distinct markers). Only `LedgerFollowed` assumes more: that the server does
not apply a mutation twice (`~Resend`), as its run does. With resends it is false:
a creation that is sent again after its deletion brings the task back on the
server, until the deletion is sent again too, or for good if it was the portal that
deleted it. (A user who deleted the task does not see it:
`DeletedStayDeleted` needs no such assumption.)

| Theorem | Says |
|---|---|
| `FirestoreClientProofs!StoreTypeCorrect` | `StoreSpec => []StoreTypeOK` |
| `FirestoreClientProofs!DeliveryInvisible` | `StoreSpec => DeliveryIsInvisible` |
| `FirestoreClientProofs!AcknowledgementInvisible` | `StoreSpec => AcknowledgementIsInvisible` |
| `TaskListProofs!TypeCorrect` | `Spec => []TypeOK` |
| `TaskListProofs!RowsMirrorTasks` | `Spec => []ShownMatchesModel` |
| `TaskListProofs!OnlyRangeTraps` | `Spec => []TrapsOnlyOnClearedList` |
| `TaskListProofs!ResolvedDateCorrect` | `Spec => []ResolvedDateTellsStatus` |
| `TaskListProofs!DeletedStayDeleted` | `Spec => []UserDeletesStick` |
| `TaskListProofs!LedgerFollowed` | `~Resend` implies `Spec => ServerFollowsLedger` |
| `TaskListProofs!CreatedIsFound` | `Spec => []ConfirmedTaskIsFound` |
| `TaskListProofs!EachTaskHasOneRow` | `Spec => []SingleLoadsListOnce` |
| `TaskListProofs!CheckboxesAreFinal` | `Spec => []CheckboxTellsFinalState` |
| `TaskListProofs!StepsAreTheClients` | `Spec => [][StoreNext]_storeVars` |
| `TaskListProofs!DeliveryUnderTheList` | `Spec => DeliveryIsInvisible` |
| `TaskListProofs!AcknowledgementUnderTheList` | `Spec => AcknowledgementIsInvisible` |
| `InvoicesProofs!TypeCorrect` | `Spec => []TypeOK` |
| `InvoicesProofs!TapsHitTheRowShown` | `Spec => []TapMarksTheInvoiceShown` |
| `InvoicesProofs!WithdrawnStayAway` | `Spec => WithdrawnBillsStayAway` |
| `InvoicesProofs!MarksAreFinal` | `Spec => []PaidBoxTellsFinalState` |
| `InvoicesProofs!StepsAreTheClients` | `Spec => [][StoreNext]_storeVars` |
| `InvoicesProofs!WritesStayInSight` | `Spec => DeliveryIsInvisible /\ AcknowledgementIsInvisible` |
| `ContractorsProofs!TypeCorrect` | `Spec => []TypeOK` |
| `ContractorsProofs!ButtonsOpenWhatTheyShow` | `Spec => []StackMatchesArray` |
| `ContractorsProofs!ConfirmedIsListed` | `Spec => []ConfirmedContractorIsListed` |
| `ContractorsProofs!StepsAreTheClients` | `Spec => [][StoreNext]_storeVars` |
| `ContractorsProofs!WritesStayInSight` | `Spec => DeliveryIsInvisible /\ AcknowledgementIsInvisible` |
| `AccountProofs!TypeCorrect` | `Spec => []TypeOK` |
| `AccountProofs!SavedIsTrue` | `Spec => []SavedIsStored` |
| `AccountProofs!PageIsUpToDate` | `Spec => []PageShowsProfile` |
| `AccountProofs!WritesStayInSight` | `Spec => DeliveryIsInvisible /\ AcknowledgementIsInvisible` |
| `WritePipelineProofs!PipelineTypeCorrect` | `Spec => []TypeOK` |
| `WritePipelineProofs!PipelineMirrorsQueue` | `Spec => []PipelineIsTheQueue` |
| `WritePipelineProofs!WireMirrorsPipeline` | `Spec => []WireIsThePipeline` |
| `WritePipelineProofs!SuccessIsReliable` | `Spec => []SuccessIsTrue` |
| `WritePipelineProofs!WriteAssertionsHold` | the assertions about the write stream |
| `WritePipelineProofs!BlameIsRight` | `Spec => BlamesTheRefused` |
| `WritePipelineProofs!PromiseIsKept` | `Spec => KeepsThePromise` (refinement of `WriteQueue`) |
| `WritePipelineProofs!WritesHaveOnePlace` | `Spec => []OnePlace` (by the refinement) |
| `WritePipelineProofs!WritesReachTheServerInOrder` | `Spec => []ServerHasABeginning` |
| `ListenProofs!WatchTypeCorrect` | `Spec => []TypeOK` |
| `ListenProofs!WatchAssertionsHold` | `OnlineTimerIsOwned`, `OnlineIsFresh`, `IdleStreamIsUnneeded` |
| `ListenProofs!CallbacksAreMet` | `Spec => []CallbacksMeetTheirStream` |
| `ListenProofs!ListenersAreServed` | `Spec => []ListenersHaveAStream` |
| `ListenProofs!NobodyWaits` | `Spec => []NobodyWaitsOffline` |
| `ListenProofs!WaitsAreTimed` | `Spec => []WaitIsTimed` |
| `ListenProofs!LimboTypeCorrect` | `LimboSpec => []LimboTypeOK` |
| `ListenProofs!LimboIsRemembered` | `LimboSpec => []NoLimboIsForgotten` |
| `ListenProofs!RoomIsNeverWasted` | `LimboSpec => []RoomIsUsed` |
| `ListenProofs!EntriesStand` | `LimboSpec => []EntriesHaveTargets` |
| `ScreenProofs!SessionTypeCorrect` | `Spec => []TypeOK` |
| `ScreenProofs!TabsAreForCustomers` | `Spec => []TabsNeedCustomer` |
| `ScreenProofs!WelcomeIsCorrect` | `Spec => []WelcomeIsForCustomer` |
| `ScreenProofs!FormTypeCorrect` | `FormSpec => []FormTypeOK` |
| `ScreenProofs!StoredDayIsShown` | `FormSpec => []StoredDateIsShown` |

*The store.* A field of `Overlay(base, q)` is the value of the last writer of
that field in `q`, or the base's if there is none. Delivering `q[i]` changes the
base only in fields that `q[i]` writes; these have a last writer in `q`, so the
change is not seen (`OverlayAbsorbs`). Acknowledging moves the head into the base
and removes it from the queue: a field has the same last writer, one place
further to the front, or it was written by the head alone, whose value the base now has
(`OverlayTail`). Both hold of every screen as well, since each keeps the client's types.
The task list, the invoices and the contractors moreover take only the client's own steps
(`StepsAreTheClients`); the account adds one, the restart of the write stream when the user
changes (`CredentialsChange`), which needs no broken stream.

What the screens need beyond that is what the two bases hold: `Holds(docs, q, k, d, f)`
says that field `f` of `d` is what the last of the first `k` mutations of `q` that write it
wrote. It is true of the server with `k = sent` and of the cache with
`k = synced[d]`, for as long as nobody else writes the field, and each step of the store keeps it
(`HoldsAppend`, `HoldsApply`, `HoldsTail`). When the queue no longer writes the field,
server and cache therefore say the same (`AcknowledgeMeets`), and an
acknowledgement leaves the view of a field as it was (`AcknowledgeKeepsField`).

*The task list.* None of the invariants is inductive by itself. That the
cast of the due date never traps depends on what can be in the collection:
a tap merges two fields into a document that may have been deleted meanwhile
and so stores a document *without* a due date. It is harmless only because such a
document has no `projectID` either and the list filters on that. The inductive
invariant therefore says of every document that belongs to a project, in
`server`, in `cache` and in every answer that waits, that it is whole (`Complete`);
of every mutation in the queue, that it is one of the three kinds the app
makes (a creation, a deletion, a tap); and of every task in the array that its
key and its status are what such documents have. From the three kinds it
follows that the invariant also holds of `LocalView` and `CachedView`
(documents under any suffix of the queue), which is what a query answers.
`IInv` joins this with the type invariant and the three screen properties, and
the proof that `Next` preserves it has one step per action.

*Deletions.* `DInv` adds what relates the queue's positions to the server and the
cache. For a deleted task (`Gone`): the last queued mutation that writes its
project takes it away; and if no mutation behind the first `sent` writes the
project, the server no longer has it there, and the same for the cache behind
the first `synced[d]`. A delivery, an acknowledgement (whether or not the cache is
newer), a resend, a query and a refusal each move one of these marks, and
`GoneWhenApplied`, `GoneInTail` and `GoneWhenDropped` say what that does. That no
creation of a deleted task can follow needs its key to be drawn, so the
invariant also says that every document, queued creation, waiting answer
and row has a drawn key (`StoreUsesKeys`, `ScreenUsesKeys`). `StoreSteps`
reduces the steps of the whole system to the eleven that the store can tell apart,
the ten of `QuietStep` and the tap.

*The ledger.* `LInv` adds that a task is created by one mutation only and is not
on the server while that mutation is still to be applied. `StatusStep` then
shows that a step changes the status of at most one task, and by a move of the
ledger; `LedgerFollowed` maps initial states to initial states and steps to
steps or stutters.

*Confirmed creations.* The property is about the moment at which a handler learns
of its success; what makes it true happened when the server's answer came. `HInv` says
that a document that the server or the cache lists `Holds` what has reached it, and `CInv` that
a task's creation is queued at most once (`CreatedOnce`), that a cache as new as the
delivered creation lists the task if the server does (`Follows`), and so does any cache
once the good news is on its way (`Told`), from when on no creation of it is queued.

*One row per task.* `SInv`: while loads do not overlap, at most one is under way or
waits to be heard and it has the empty array to itself; a listing that waits has
distinct keys; a screen that is away has nothing. The property by itself says
nothing of the answer that is about to fill the array.

*Final status.* While loads do not overlap, `MInv` says of every row, and of every
answer that waits, that its status is the one in the view of the *server* under the whole queue (`FinalStatus`),
which only a tap on that task changes. An answer from the cache says so because, where the
queue decides the status, both views agree, and where it does not, server and cache
do (`StatusesMeet`). A tap changes `FinalStatus`, the row and
the array alike, and finds no answer waiting: loads that do not overlap leave no
task in the array while one is under way.

*Invoices.* `IInv` needs that a listed invoice has a mark (`Whole`), which holds because
the app's only mutation writes no `projectID` and so lists nothing: that a withdrawn
bill stays away is the same fact. `MarksInv` has the shape of `MInv`, for the two fields of
a mark.

*Contractors.* That buttons and array match is kept by a page that is built
on an empty list (`OneLoad`, `Fresh`) and by an insertion that finds room
(`RoomForButton`). `ConfirmedInv` relates news, store and answers: an addition that was
answered is in the cache (`ToldServed`), so that a listing that is evaluated after it has
the contractor (`AnswersList`); and a list is on its way to show it, or does, and
has no page that says there is none (`ListShows`).

*Account.* `SavedIsStored` speaks of a moment at which no update is pending, and rests on
`NewsIsTrue`: once no update of the form on screen is queued, the *last* answer that waits for it, or if
none waits the message, is true when it is good. That needs three more
facts: the form loads once, and before it knows its document, so that no load replaces
what was typed after it (`FormLoadsOnce`); nobody queues anything behind an update of
the form (`UpdatesLast`), so that the last answer leaves the queue empty; and the last
queued update says what was entered (`EnteredIsQueued`). A server that answers well
holds that update, by `Holds`. `PageShowsProfile` needs that the page either loads, or
a handler is still to come that makes it load (`Reloads`), or the last it has heard or
is about to hear is the profile that stays (`PageHears`); only an update changes the
profile that stays, and that update's handler reloads. Leaving the form and
logging out drop and rename answers in the middle of the main queue; `SameMapped`
reduces every such change to a map of places that keeps the order. (`Forget` is stated
with the places it keeps, `Kept`, rather than with `SelectSeq`, for that reason.)

*The streams.* What every operation on a stream preserves is `StreamFits`: the
assertion that callbacks meet the stream they belong to, strengthened by where a gRPC
call and an idle timer may exist. Each connection's proofs begin with the lemmas about
the operations that it uses.

*The watch connection.* The invariant joins stream, tracker and calls. What is
promised of a call that waits is not inductive: a stream that was started while
nobody waited must already be timed or have failed, since the next query relies on it
(`TrackerFits`). The proof treats the helpers as the code does: `Settles` says what
any tracker, stream and calls that fit leave behind, `Starts` and `Closes` lift
it to the two compound operations.

*The write pipeline.* `IInv` says that the pipeline is the beginning of the queue
and full while anything waits (`QueueFits`), that the wire carries the pipeline once
the handshake is done and the greeting alone before (`WireFits`), that ids are
used in order (`Written`), that a reply on its way has its commit and a refusal its
request. The greeting matters: without it, that no reply to a write comes
before the handshake's is not inductive. `PipelineExtends` proves that the loop of
`FillWritePipeline` extends any beginning of the queue to the longest that fits,
`PoppedFits` that the head is the oldest and what is left is still a beginning.
`StepsMoveTheQueue` then reduces every step to what it does to the queue, from which
blame and refinement follow. `OnePlace` is proved of `WriteQueue` alone (a write waits in
one queue, from when it is made until it is reported) and holds of the pipeline because it implements `WriteQueue`.
With it, `ServerHasABeginning` is inductive: what the server takes next is on the wire
right behind what it has answered, which is the beginning of the pipeline (`AcceptIsInOrder`),
and a batch that is new has an id above all that the server has. No run checks these two;
they are stated in the proof module.

*The session.* Tabs carry themselves; the greeting needs the same of the
name that is still on its way (`NamingIsForCustomer`).

*The sheet.* The stored date needs that the field shows the wheel's day
until the wheel is turned again (`ShownIsPicked`). That any number of edits leaves a text
a text, with its count on the label, is `ReplacedType`.

*Limbo resolution.* `BooksFit(b, K)` is the invariant of the sync engine's books `b`, at every
point at which one of its functions returns, with `K` the keys that are about to
leave limbo: every other key in limbo has an entry or a place in the queue, the entries are
within the limit and have targets, and keys wait only at the limit. `PumpFits` shows
that the pump establishes the last of these from books that lack it; `ChangedFits` that one change keeps all of it; `LoopFits` that any number of changes does, and that
removals remove. `HandleRejectedListen` is why `K` is there: it pumps while
the key whose entry it has just erased is still in limbo, and only the synthetic
deletion that follows takes the key away. The loop over the changes is a recursive
function over its positions. Induction over them is an appeal to the first position at which the
claim fails, which exists because `<` is well-founded on the naturals (`LeastNatural`,
`LoopRuns`, `LoopFits`). `SetAsSeq` is what makes the order of the changes immaterial: a finite set put in
any order names every element.

*What stays with TLC.* Liveness, since the prover does not reason about
fairness and ENABLED: `CreateIsAnswered`, `CreateSurvives`, `SavedFormCloses`,
`LoginOpensTabs`, `CallIsAnswered`, `WriteIsAnswered`, `PaymentIsStored`. Every safety
property that a run checks, and every type invariant, has a theorem, except
`ClickNeverTraps` and `DescriptionWithinLimit`, which are false.

## 5. Not modelled

Task details, request form, list of services, calculator and the helpers keep no
state worth a model: a tap is a segue, a mail or a link. The project, document and
calendar lists are read-only copies of the reload protocol that `TaskList` and `Invoices`
model, down to the lines; a module of their own would check nothing new. Labels,
colours, fonts and date formats are left out everywhere, and so is the content of
documents beyond the fields a property is about.

Of Firestore: transactions, field transforms, listeners that stay attached,
bundles, garbage collection of the cache, `enableNetwork` and `disableNetwork`,
and multiple tabs: the app uses none of them. Of `AccountViewController` and
`LogOutViewController`, two copies of one alert, one is modelled.

By far the most lines under `src/` are other vendored pods (BoringSSL, gRPC core,
leveldb, abseil, generated certificates and tables). The app reaches them through
Firestore alone, which the model cuts at the worker queue: gRPC is what its
callbacks may say, leveldb what survives a restart, and nothing in the app's behaviour
depends on more. So the share of the repository's lines that the map covers is small,
and would be with every line of the app modelled.

Edits by the portal are not assumed: nothing in the repository says which fields it
edits.

## 6. Plan

1. A composition of `Session` with a screen: what a screen that is still
   loading does when the user changes (`Account` does it for its own page).
2. `FirestoreClient` as an implementation by `WritePipeline` and
   `WatchConnection`: one module in which the client's queue is the pipeline's and
   a query's answer is the watch stream's.
