--------------------------- MODULE TaskListProofs ---------------------------
(***************************************************************************)
(* Theorems about TaskList, for any number of tasks and projects, queues   *)
(* of any length, and whether or not writes are resent or refused and the  *)
(* sheet can be swiped away.                                               *)
(***************************************************************************)
EXTENDS TaskList, FirestoreClientProofs, SequenceTheorems, FiniteSetTheorems

-----------------------------------------------------------------------------
(***************************************************************************)
(* The inductive invariant.                                                *)
(***************************************************************************)

\* What the app queues for the collection.
StatusMutation(d, completed) == [doc |-> d, write |-> StatusWrite(completed)]

TaskMutation ==
    {Deletion(d) : d \in DocId} \cup {Creation(d) : d \in DocId}
    \cup {StatusMutation(d, c) : d \in DocId, c \in BOOLEAN}

\* A document that belongs to a project is a whole task under its own key.
Complete(d, doc) ==
    doc.projectID \in Project =>
        /\ doc.taskID = d
        /\ doc.taskDueDate = "date"
        /\ doc.taskType \in {"ongoing", "completed"}
        /\ doc.taskType = "completed" <=> doc.taskResolvedDate = "date"

ListedDocument == {doc \in Document : Listed(doc) /\ \E d \in DocId : Complete(d, doc)}

ListedTask ==
    {t \in Task : /\ t.taskID \in DocId
                  /\ t.taskStatus = "completed" <=> t.taskResolvedDate = "date"}

ListCallback ==
    [kind : {"snapshot"}, docs : Seq(ListedDocument)]
    \cup [kind : {"loadError"}]
    \cup [kind : {"created"}, doc : DocId, ok : BOOLEAN]

StoreOK ==
    /\ StoreTypeOK
    /\ queue \in Seq(TaskMutation)
    /\ \A d \in DocId : Complete(d, server[d]) /\ Complete(d, cache[d])

ScreenOK ==
    /\ used \subseteq DocId
    /\ tasks \in Seq(ListedTask)
    /\ rows \in Seq(Task)
    /\ fetching \in Nat
    /\ mainq \in Seq(ListCallback)
    /\ screen \in {"away", "list", "sheet"}
    /\ closing \in BOOLEAN
    /\ creator \in [DocId -> {"none", "open sheet", "closed sheet"}]
    /\ trap \in {"none", "range", "cast", "inconsistent"}
    /\ overlap \in BOOLEAN
    /\ deleted \subseteq DocId

IInv ==
    /\ StoreOK
    /\ ScreenOK
    /\ ShownMatchesModel
    /\ TrapsOnlyOnClearedList

-----------------------------------------------------------------------------
(***************************************************************************)
(* Documents and mutations.                                                *)
(***************************************************************************)

LEMMA FieldNames ==
    /\ Field = {"projectID", "taskType", "taskResolvedDate", "taskDueDate", "taskID"}
    /\ DocId \subseteq Value /\ Project \subseteq Value
    /\ "ongoing" \in Value /\ "completed" \in Value /\ "date" \in Value /\ "blank" \in Value
    /\ project \in Project
    /\ Nil \notin Value /\ Keep \notin Value /\ Nil # Keep
BY TaskAssumption, StoreAssumption DEF TaskField

LEMMA NewTaskType ==
    ASSUME NEW d \in DocId, NEW p \in Project
    PROVE  NewTask(d, p) \in Document /\ Complete(d, NewTask(d, p))
<1>1. NewTask(d, p) \in Document
  BY FieldNames DEF Document, NewTask
<1>2. Complete(d, NewTask(d, p))
  BY DEF Complete, NewTask
<1> QED
  BY <1>1, <1>2

LEMMA NoDocType ==
    ASSUME NEW d \in DocId
    PROVE  NoDoc \in Document /\ Complete(d, NoDoc) /\ ~Listed(NoDoc)
BY FieldNames DEF Document, NoDoc, Complete, Listed

\* The three kinds of mutation, field by field.
IsDeletion(m) == \A f \in Field : m.write[f] = Nil

IsCreation(m) == m.write = NewTask(m.doc, project)

IsStatusChange(m) ==
    /\ m.write.projectID = Keep /\ m.write.taskDueDate = Keep /\ m.write.taskID = Keep
    /\ \/ m.write.taskType = "completed" /\ m.write.taskResolvedDate = "date"
       \/ m.write.taskType = "ongoing" /\ m.write.taskResolvedDate = "blank"

LEMMA MutationKinds ==
    ASSUME NEW m \in TaskMutation
    PROVE  /\ m \in Mutation
           /\ IsDeletion(m) \/ IsCreation(m) \/ IsStatusChange(m)
<1>1. CASE \E d \in DocId : m = Deletion(d)
  BY <1>1, FieldNames DEF Deletion, NoDoc, Mutation, IsDeletion
<1>2. CASE \E d \in DocId : m = Creation(d)
  <2>1. PICK d \in DocId : m = Creation(d)
    BY <1>2
  <2>2. NewTask(d, project) \in [Field -> Value \cup {Nil, Keep}]
    BY NewTaskType, FieldNames DEF Document
  <2> QED
    BY <2>1, <2>2 DEF Creation, Mutation, IsCreation
<1>3. CASE \E d \in DocId, c \in BOOLEAN : m = StatusMutation(d, c)
  <2>1. PICK d \in DocId, c \in BOOLEAN : m = StatusMutation(d, c)
    BY <1>3
  <2>2. StatusWrite(c) \in [Field -> Value \cup {Nil, Keep}]
    BY FieldNames DEF StatusWrite
  <2>3. IsStatusChange(m)
    BY <2>1 DEF StatusMutation, StatusWrite, IsStatusChange
  <2> QED
    BY <2>1, <2>2, <2>3 DEF StatusMutation, Mutation
<1> QED
  BY <1>1, <1>2, <1>3 DEF TaskMutation

\* The fields that a mutation writes come in two groups.
LEMMA MutationMask ==
    ASSUME NEW q \in Seq(TaskMutation), NEW i \in 1..Len(q), NEW d \in DocId
    PROVE  /\ Writes(q, i, d, "taskDueDate") <=> Writes(q, i, d, "projectID")
           /\ Writes(q, i, d, "taskID") <=> Writes(q, i, d, "projectID")
           /\ Writes(q, i, d, "taskType") <=> q[i].doc = d
           /\ Writes(q, i, d, "taskResolvedDate") <=> q[i].doc = d
<1>1. q[i] \in TaskMutation
  OBVIOUS
<1>2. q[i] \in Mutation
  BY <1>1, MutationKinds
<1>3. CASE IsDeletion(q[i])
  BY <1>3, FieldNames DEF IsDeletion, Writes
<1>4. CASE IsCreation(q[i])
  BY <1>2, <1>4, FieldNames DEF IsCreation, NewTask, Writes, Mutation
<1>5. CASE IsStatusChange(q[i])
  BY <1>5, FieldNames DEF IsStatusChange, Writes
<1> QED
  BY <1>1, <1>3, <1>4, <1>5, MutationKinds

\* Applying a mutation of the app keeps documents whole.
LEMMA ApplyComplete ==
    ASSUME NEW docs \in [DocId -> Document], NEW m \in TaskMutation,
           \A d \in DocId : Complete(d, docs[d])
    PROVE  \A d \in DocId : Complete(d, Apply(docs, m)[d])
<1> TAKE d \in DocId
<1>1. m \in Mutation
  BY MutationKinds
<1>2. CASE m.doc # d
  <2>1. Apply(docs, m)[d] = docs[d]
    BY <1>1, <1>2 DEF Apply, Mutation
  <2> QED
    BY <2>1
<1>3. CASE m.doc = d
  <2>1. Apply(docs, m)[d] = Merge(docs[d], m.write)
    BY <1>3 DEF Apply
  <2>2. CASE IsDeletion(m)
    BY <2>1, <2>2, FieldNames DEF IsDeletion, Merge, Complete
  <2>3. CASE IsCreation(m)
    BY <1>1, <1>3, <2>1, <2>3, FieldNames DEF IsCreation, NewTask, Merge, Complete
  <2>4. CASE IsStatusChange(m)
    BY <2>1, <2>4, FieldNames DEF IsStatusChange, Merge, Complete
  <2> QED
    BY <2>2, <2>3, <2>4, MutationKinds
<1> QED
  BY <1>2, <1>3

\* A view of whole documents with the app's own queue on top shows only whole
\* tasks: no tap on a task that is gone brings half of it back.
LEMMA OverlayComplete ==
    ASSUME NEW base \in [DocId -> Document], NEW q \in Seq(TaskMutation),
           \A d \in DocId : Complete(d, base[d])
    PROVE  \A d \in DocId : Complete(d, Overlay(base, q)[d])
<1> TAKE d \in DocId
<1> DEFINE o == Overlay(base, q)[d]
<1>1. q \in Seq(Mutation) /\ \A i \in 1..Len(q) : q[i] \in TaskMutation
  BY MutationKinds
<1>2. SUFFICES ASSUME o.projectID \in Project
               PROVE  /\ o.taskID = d /\ o.taskDueDate = "date"
                      /\ o.taskType \in {"ongoing", "completed"}
                      /\ o.taskType = "completed" <=> o.taskResolvedDate = "date"
  BY DEF Complete
\* The status and the date of completion are written together.
<1>3. ASSUME NEW k \in 1..Len(q), LastWriter(q, k, d, "taskType"), ~IsDeletion(q[k])
      PROVE  /\ o.taskType \in {"ongoing", "completed"}
             /\ o.taskType = "completed" <=> o.taskResolvedDate = "date"
  <2>1. LastWriter(q, k, d, "taskResolvedDate")
    BY <1>3, MutationMask DEF LastWriter
  <2>2. o.taskType = q[k].write.taskType /\ o.taskResolvedDate = q[k].write.taskResolvedDate
    BY <1>1, <1>3, <2>1, OverlayWritten, FieldNames
  <2>3. IsCreation(q[k]) \/ IsStatusChange(q[k])
    BY <1>1, <1>3, MutationKinds
  <2> QED
    BY <2>2, <2>3 DEF IsCreation, NewTask, IsStatusChange
<1>4. CASE \A i \in 1..Len(q) : ~Writes(q, i, d, "projectID")
  <2>1. o.projectID = base[d].projectID
    BY <1>1, <1>4, OverlayUnwritten, FieldNames
  <2>2. o.taskID = base[d].taskID /\ o.taskDueDate = base[d].taskDueDate
    <3>1. \A i \in 1..Len(q) : ~Writes(q, i, d, "taskID") /\ ~Writes(q, i, d, "taskDueDate")
      BY <1>4, MutationMask
    <3> QED
      BY <1>1, <3>1, OverlayUnwritten, FieldNames
  <2>3. CASE \E i \in 1..Len(q) : q[i].doc = d
    <3>1. PICK k \in 1..Len(q) : LastWriter(q, k, d, "taskType")
      BY <1>1, <2>3, MutationMask, LastWriterExists, FieldNames
    <3>2. q[k].doc = d
      BY <3>1 DEF LastWriter, Writes
    <3>3. ~IsDeletion(q[k])
      BY <1>4, <3>2, FieldNames DEF IsDeletion, Writes
    <3> QED
      BY <1>2, <1>3, <2>1, <2>2, <3>1, <3>3 DEF Complete
  <2>4. CASE \A i \in 1..Len(q) : q[i].doc # d
    <3>1. o.taskType = base[d].taskType /\ o.taskResolvedDate = base[d].taskResolvedDate
      BY <1>1, <2>4, OverlayUnwritten, FieldNames DEF Writes
    <3> QED
      BY <1>2, <2>1, <2>2, <3>1 DEF Complete
  <2> QED
    BY <2>3, <2>4
<1>5. CASE \E i \in 1..Len(q) : Writes(q, i, d, "projectID")
  <2>1. PICK i \in 1..Len(q) : LastWriter(q, i, d, "projectID")
    BY <1>1, <1>5, LastWriterExists, FieldNames
  <2>2. q[i].doc = d /\ o.projectID = q[i].write.projectID
    BY <1>1, <2>1, OverlayWritten, FieldNames DEF LastWriter, Writes
  <2>3. IsCreation(q[i])
    <3>1. ~IsDeletion(q[i])
      BY <1>2, <2>2, FieldNames DEF IsDeletion
    <3>2. ~IsStatusChange(q[i])
      BY <1>2, <2>2, FieldNames DEF IsStatusChange
    <3> QED
      BY <1>1, <3>1, <3>2, MutationKinds
  <2>4. o.taskID = d /\ o.taskDueDate = "date"
    <3>1. LastWriter(q, i, d, "taskID") /\ LastWriter(q, i, d, "taskDueDate")
      BY <2>1, MutationMask DEF LastWriter
    <3>2. o.taskID = q[i].write.taskID /\ o.taskDueDate = q[i].write.taskDueDate
      BY <1>1, <3>1, OverlayWritten, FieldNames
    <3> QED
      BY <2>2, <2>3, <3>2 DEF IsCreation, NewTask
  <2>5. PICK k \in 1..Len(q) : LastWriter(q, k, d, "taskType")
    BY <1>1, <2>2, MutationMask, LastWriterExists, FieldNames
  <2>6. ~IsDeletion(q[k])
    <3>1. SUFFICES ASSUME IsDeletion(q[k]) PROVE FALSE
      OBVIOUS
    <3>2. q[k].doc = d
      BY <2>5 DEF LastWriter, Writes
    <3>3. Writes(q, k, d, "projectID")
      BY <3>1, <3>2, FieldNames DEF IsDeletion, Writes
    <3>4. Writes(q, i, d, "taskType")
      BY <2>2, MutationMask
    <3>5. i = k
      BY <2>1, <2>5, <3>3, <3>4 DEF LastWriter
    <3> QED
      BY <2>2, <3>1, <3>5, <1>2, FieldNames DEF IsDeletion
  <2> QED
    BY <1>3, <2>4, <2>5, <2>6
<1> QED
  BY <1>4, <1>5

-----------------------------------------------------------------------------
(***************************************************************************)
(* The steps of the store keep its documents whole.                        *)
(***************************************************************************)

LEMMA WriteStoreOK ==
    ASSUME StoreOK, NEW m \in TaskMutation, Write(m)
    PROVE  StoreOK'
<1>1. StoreTypeOK'
  BY WriteType, MutationKinds DEF StoreOK
<1>2. queue' \in Seq(TaskMutation)
  BY DEF StoreOK, Write
<1> QED
  BY <1>1, <1>2 DEF StoreOK, Write

LEMMA DeliverStoreOK ==
    ASSUME StoreOK, Deliver
    PROVE  StoreOK'
<1>1. queue[sent + 1] \in TaskMutation
  BY DEF StoreOK, StoreTypeOK, Deliver
<1>2. \A d \in DocId : Complete(d, server'[d])
  BY <1>1, ApplyComplete DEF StoreOK, StoreTypeOK, Deliver
<1> QED
  BY <1>2, DeliverType DEF StoreOK, Deliver

LEMMA AcknowledgeStoreOK ==
    ASSUME StoreOK, Acknowledge
    PROVE  StoreOK'
<1>1. queue # <<>>
  BY DEF StoreOK, StoreTypeOK, Acknowledge
<1>2. Head(queue) \in TaskMutation /\ Tail(queue) \in Seq(TaskMutation)
  BY <1>1 DEF StoreOK
<1>3. \A d \in DocId : Complete(d, cache'[d])
  BY <1>2, ApplyComplete DEF StoreOK, StoreTypeOK, Acknowledge, AcknowledgeCache
<1> QED
  BY <1>2, <1>3, AcknowledgeType DEF StoreOK, Acknowledge

LEMMA RejectStoreOK ==
    ASSUME StoreOK, Reject
    PROVE  StoreOK'
<1>1. queue' \in Seq(TaskMutation)
  BY DEF StoreOK, Reject
<1> QED
  BY <1>1, RejectType DEF StoreOK, Reject

LEMMA ReconnectStoreOK ==
    ASSUME StoreOK, Reconnect
    PROVE  StoreOK'
BY ReconnectType DEF StoreOK, Reconnect

LEMMA SynchroniseStoreOK ==
    ASSUME StoreOK, Synchronise
    PROVE  StoreOK'
BY SynchroniseType DEF StoreOK, Synchronise

LEMMA RemoteSetStoreOK ==
    ASSUME StoreOK, NEW d \in DocId, NEW doc \in Document, Complete(d, doc), RemoteSet(d, doc)
    PROVE  StoreOK'
<1>1. \A e \in DocId : Complete(e, server'[e])
  BY DEF StoreOK, StoreTypeOK, RemoteSet
<1> QED
  BY <1>1, RemoteSetType DEF StoreOK, RemoteSet

LEMMA UnchangedStoreOK ==
    ASSUME StoreOK, UNCHANGED storeVars
    PROVE  StoreOK'
BY DEF StoreOK, StoreTypeOK, storeVars

-----------------------------------------------------------------------------
(***************************************************************************)
(* Queries and rows.                                                       *)
(***************************************************************************)

\* A query lists whole tasks of the project.
LEMMA ListingType ==
    ASSUME NEW view \in [DocId -> Document], \A d \in DocId : Complete(d, view[d]),
           NEW docs \in Listings(view)
    PROVE  docs \in Seq(ListedDocument)
<1> DEFINE found == {d \in DocId : Listed(view[d])}
<1>1. PICK keys \in SeqOf(found, Cardinality(found)) : docs = [i \in DOMAIN keys |-> view[keys[i]]]
  BY DEF Listings
<1>2. PICK m \in Nat : keys \in [1..m -> found]
  <2>1. Cardinality(found) \in Nat
    BY TaskAssumption, FS_Subset, FS_CardinalityType
  <2>2. PICK m \in 0..Cardinality(found) : keys \in [1..m -> found]
    BY DEF SeqOf
  <2> QED
    BY <2>1, <2>2
<1>3. docs \in [1..m -> ListedDocument]
  BY <1>1, <1>2 DEF ListedDocument
<1> QED
  BY <1>3

LEMMA LocalViewOK ==
    ASSUME StoreOK
    PROVE  /\ LocalView \in [DocId -> Document] /\ \A d \in DocId : Complete(d, LocalView[d])
           /\ CachedView \in [DocId -> Document] /\ \A d \in DocId : Complete(d, CachedView[d])
BY OverlayType, OverlayComplete DEF StoreOK, StoreTypeOK, LocalView, CachedView

LEMMA TaskOfType ==
    ASSUME NEW doc \in ListedDocument
    PROVE  TaskOf(doc) \in ListedTask
BY FieldNames DEF ListedDocument, Listed, Complete, TaskOf, ListedTask, Task

LEMMA RemoveRowType ==
    ASSUME NEW S, NEW list \in Seq(S), NEW i \in 1..Len(list)
    PROVE  RemoveRow(list, i) \in Seq(S)
<1>1. SubSeq(list, 1, i - 1) \in Seq(S) /\ SubSeq(list, i + 1, Len(list)) \in Seq(S)
  OBVIOUS
<1> QED
  BY <1>1 DEF RemoveRow, RemoveAt

LEMMA ToggledType ==
    ASSUME NEW t \in ListedTask, NEW c \in BOOLEAN
    PROVE  Toggled(t, c) \in ListedTask /\ Toggled(t, c).taskID = t.taskID
BY DEF Toggled, ListedTask, Task

\* A row that is touched is the row of the task of the same index, or the
\* array is empty.
LEMMA TouchedRow ==
    ASSUME IInv, NEW i \in DOMAIN rows
    PROVE  /\ i \in DOMAIN tasks => rows = tasks /\ tasks # <<>> /\ i \in 1..Len(tasks)
           /\ i \notin DOMAIN tasks => tasks = <<>> /\ rows # <<>>
<1>1. tasks \in Seq(ListedTask) /\ rows \in Seq(Task)
  BY DEF IInv, ScreenOK
<1>2. tasks # <<>> => rows = tasks
  BY DEF IInv, ShownMatchesModel
<1>3. DOMAIN tasks = 1..Len(tasks)
  BY <1>1
<1>4. DOMAIN rows = 1..Len(rows) /\ rows # <<>>
  <2>1. DOMAIN rows = 1..Len(rows) /\ Len(rows) \in Nat
    BY <1>1
  <2>2. rows = <<>> => Len(rows) = 0
    OBVIOUS
  <2> QED
    BY <2>1, <2>2
<1>5. CASE i \in DOMAIN tasks
  <2>1. tasks # <<>>
    <3>1. Len(tasks) # 0
      BY <1>1, <1>3, <1>5
    <3>2. tasks = <<>> => Len(tasks) = 0
      OBVIOUS
    <3> QED
      BY <3>1, <3>2
  <2> QED
    BY <1>2, <1>3, <1>5, <2>1
<1>6. CASE i \notin DOMAIN tasks
  BY <1>2, <1>4, <1>6
<1> QED
  BY <1>5, <1>6

LEMMA ScreenParts ==
    ASSUME ScreenOK
    PROVE  fetching \in Nat /\ tasks \in Seq(ListedTask) /\ mainq \in Seq(ListCallback)
BY Zenon DEF ScreenOK

\* The app's own mutations.
LEMMA AppMutations ==
    ASSUME NEW d \in DocId, NEW c \in BOOLEAN
    PROVE  {Deletion(d), Creation(d), StatusMutation(d, c)} \subseteq TaskMutation
BY DEF TaskMutation

-----------------------------------------------------------------------------
(***************************************************************************)
(* The invariant is inductive.                                             *)
(***************************************************************************)

\* What the user does on the list.
LEMMA TouchStep ==
    ASSUME IInv, NEW i \in DOMAIN rows,
           CellForRow(i) \/ ResolvedButtonTapped(i) \/ DeleteRow(i) \/ ShowMoreTask(i)
    PROVE  IInv'
<1>1. CASE CellForRow(i)
  <2>1. StoreOK'
    BY <1>1, UnchangedStoreOK DEF IInv, CellForRow
  <2>2. CASE i \in DOMAIN tasks
    <3>1. rows' = rows
      <4>1. rows' = [rows EXCEPT ![i] = tasks[i]] /\ rows = tasks /\ tasks \in Seq(ListedTask)
        BY <1>1, <2>2, TouchedRow DEF CellForRow, IInv, ScreenOK
      <4> QED
        BY <4>1, <2>2
    <3> QED
      BY <1>1, <2>1, <2>2, <3>1 DEF CellForRow, IInv, ScreenOK, ShownMatchesModel, TrapsOnlyOnClearedList
  <2>3. CASE i \notin DOMAIN tasks
    BY <1>1, <2>1, <2>3, TouchedRow
    DEF CellForRow, Trap, IInv, ScreenOK, ShownMatchesModel, TrapsOnlyOnClearedList
  <2> QED
    BY <2>2, <2>3
<1>2. CASE ResolvedButtonTapped(i)
  <2>1. CASE i \in DOMAIN tasks
    <3> DEFINE c == rows[i].taskStatus # "completed"
               m == StatusMutation(tasks[i].taskID, c)
    <3>1. rows = tasks /\ i \in 1..Len(tasks) /\ tasks[i] \in ListedTask /\ c \in BOOLEAN
      <4>1. rows = tasks /\ i \in 1..Len(tasks) /\ tasks \in Seq(ListedTask)
        BY <2>1, TouchedRow DEF IInv, ScreenOK
      <4> QED
        BY <4>1
    <3>2. m \in TaskMutation
      <4>1. tasks[i].taskID \in DocId
        BY <3>1 DEF ListedTask
      <4> QED
        BY <3>1, <4>1, AppMutations
    <3>3. Write(m)
      BY <1>2, <2>1 DEF ResolvedButtonTapped, StatusMutation
    <3>4. StoreOK'
      BY <3>2, <3>3, WriteStoreOK DEF IInv
    <3>5. tasks' = [tasks EXCEPT ![i] = Toggled(tasks[i], c)] /\ rows' = [rows EXCEPT ![i] = tasks'[i]]
      BY <1>2, <2>1 DEF ResolvedButtonTapped
    <3>6. Toggled(tasks[i], c) \in ListedTask
      BY <3>1, ToggledType
    <3>7. tasks \in Seq(ListedTask) /\ tasks' \in Seq(ListedTask)
      BY <3>1, <3>5, <3>6, ExceptSeq DEF IInv, ScreenOK
    <3>8. rows' = tasks'
      <4>1. tasks'[i] = Toggled(tasks[i], c)
        BY <3>1, <3>5, <3>7
      <4> QED
        BY <3>1, <3>5, <4>1
    <3>9. rows' \in Seq(Task)
      BY <3>7, <3>8, SeqMonotonic DEF ListedTask
    <3> QED
      BY <1>2, <2>1, <3>4, <3>7, <3>8, <3>9
      DEF ResolvedButtonTapped, IInv, ScreenOK, ShownMatchesModel, TrapsOnlyOnClearedList, Alive
  <2>2. CASE i \notin DOMAIN tasks
    <3>1. StoreOK'
      BY <1>2, <2>2, UnchangedStoreOK DEF IInv, ResolvedButtonTapped
    <3> QED
      BY <1>2, <2>2, <3>1, TouchedRow
      DEF ResolvedButtonTapped, Trap, IInv, ScreenOK, ShownMatchesModel, TrapsOnlyOnClearedList
  <2> QED
    BY <2>1, <2>2
<1>3. CASE DeleteRow(i)
  <2>1. CASE i \in DOMAIN tasks
    <3>1. rows = tasks /\ i \in 1..Len(tasks) /\ tasks[i] \in ListedTask
      <4>1. rows = tasks /\ i \in 1..Len(tasks) /\ tasks \in Seq(ListedTask)
        BY <2>1, TouchedRow DEF IInv, ScreenOK
      <4> QED
        BY <4>1
    <3>2. Deletion(tasks[i].taskID) \in TaskMutation /\ tasks[i].taskID \in DocId
      <4>1. tasks[i].taskID \in DocId
        BY <3>1 DEF ListedTask
      <4> QED
        BY <4>1, AppMutations
    <3>3. StoreOK'
      BY <1>3, <2>1, <3>2, WriteStoreOK DEF IInv, DeleteRow
    <3>4. /\ tasks' = RemoveRow(tasks, i) /\ rows' = RemoveRow(rows, i)
          /\ deleted' = deleted \cup {tasks[i].taskID}
          /\ UNCHANGED <<used, fetching, mainq, screen, closing, creator, trap, overlap>>
      BY <1>3, <2>1, <3>1 DEF DeleteRow
    <3>5. tasks' \in Seq(ListedTask) /\ rows' = tasks'
      BY <3>1, <3>4, RemoveRowType DEF IInv, ScreenOK
    <3>6. rows' \in Seq(Task)
      BY <3>5, SeqMonotonic DEF ListedTask
    <3>7. trap = "none"
      BY <1>3 DEF DeleteRow, Alive
    <3> QED
      BY <3>2, <3>3, <3>4, <3>5, <3>6, <3>7
      DEF IInv, ScreenOK, ShownMatchesModel, TrapsOnlyOnClearedList
  <2>2. CASE i \notin DOMAIN tasks
    <3>1. StoreOK'
      BY <1>3, <2>2, UnchangedStoreOK DEF IInv, DeleteRow
    <3> QED
      BY <1>3, <2>2, <3>1, TouchedRow
      DEF DeleteRow, Trap, IInv, ScreenOK, ShownMatchesModel, TrapsOnlyOnClearedList
  <2> QED
    BY <2>1, <2>2
<1>4. CASE ShowMoreTask(i)
  <2>1. StoreOK'
    BY <1>4, UnchangedStoreOK DEF IInv, ShowMoreTask
  <2> QED
    BY <1>4, <2>1, TouchedRow
    DEF ShowMoreTask, Trap, IInv, ScreenOK, ShownMatchesModel, TrapsOnlyOnClearedList
<1> QED
  BY <1>1, <1>2, <1>3, <1>4

\* A reload empties the array and starts one more query.
LEMMA ReloadStep ==
    ASSUME ScreenOK, ReloadTaskList
    PROVE  tasks' = <<>> /\ tasks' \in Seq(ListedTask) /\ fetching' \in Nat /\ overlap' \in BOOLEAN
<1>1. tasks' = <<>> /\ tasks' \in Seq(ListedTask)
  <2>1. tasks' = <<>>
    BY Zenon DEF ReloadTaskList
  <2> QED
    BY <2>1
<1>2. fetching' \in Nat
  <2>1. fetching' = fetching + 1
    BY Zenon DEF ReloadTaskList
  <2> QED
    BY <2>1, ScreenParts
<1>3. overlap' \in BOOLEAN
  <2>1. overlap' = (overlap \/ Loading)
    BY Zenon DEF ReloadTaskList
  <2>2. (overlap \/ Loading) \in BOOLEAN
    BY Zenon
  <2> QED
    BY <2>1, <2>2, Zenon
<1> QED
  BY <1>1, <1>2, <1>3

\* What else the user does, and the end of the process.
LEMMA UserStep ==
    ASSUME IInv, UserActs \/ DismissAfterSuccess \/ Restart
    PROVE  IInv'
<1>1. CASE Open
  <2>1. StoreOK'
    BY <1>1, UnchangedStoreOK DEF IInv, Open
  <2> QED
    BY <1>1, <2>1 DEF Open, IInv, ScreenOK, ShownMatchesModel, TrapsOnlyOnClearedList
<1>2. CASE Back \/ Restart
  <2>1. StoreOK' /\ ReleaseScreen /\ UNCHANGED <<used, deleted>>
    BY <1>2, UnchangedStoreOK DEF IInv, Back, Restart, OnDisk
  <2>2. <<>> \in Seq(ListedTask) /\ <<>> \in Seq(Task) /\ <<>> \in Seq(ListCallback)
    OBVIOUS
  <2> QED
    BY <2>1, <2>2 DEF ReleaseScreen, IInv, ScreenOK, ShownMatchesModel, TrapsOnlyOnClearedList
<1>3. CASE Refresh
  <2>1. StoreOK'
    BY <1>3, UnchangedStoreOK DEF IInv, Refresh
  <2>2. ReloadTaskList /\ trap = "none"
        /\ UNCHANGED <<used, rows, mainq, screen, closing, creator, trap, deleted>>
    BY <1>3, Zenon DEF Refresh, Alive
  <2> QED
    BY <2>1, <2>2, ReloadStep
    DEF IInv, ScreenOK, ShownMatchesModel, TrapsOnlyOnClearedList
<1>4. CASE RowTouched
  BY <1>4, TouchStep DEF RowTouched
<1>5. CASE AddTaskButtonTapped
  <2>1. StoreOK'
    BY <1>5, UnchangedStoreOK DEF IInv, AddTaskButtonTapped
  <2> QED
    BY <1>5, <2>1
    DEF AddTaskButtonTapped, IInv, ScreenOK, ShownMatchesModel, TrapsOnlyOnClearedList
<1>6. CASE SwipeSheetAway \/ DismissAfterSuccess
  <2>1. StoreOK'
    BY <1>6, UnchangedStoreOK DEF IInv, SwipeSheetAway, DismissAfterSuccess, CloseSheet
  <2> QED
    BY <1>6, <2>1
    DEF SwipeSheetAway, DismissAfterSuccess, CloseSheet, IInv, ScreenOK, ShownMatchesModel,
        TrapsOnlyOnClearedList
<1>7. ASSUME NEW d \in DocId, CreateTaskButtonTapped(d) PROVE IInv'
  <2>1. Creation(d) \in TaskMutation
    BY AppMutations
  <2>2. StoreOK'
    BY <1>7, <2>1, WriteStoreOK DEF IInv, CreateTaskButtonTapped
  <2> QED
    BY <1>7, <2>2
    DEF CreateTaskButtonTapped, IInv, ScreenOK, ShownMatchesModel, TrapsOnlyOnClearedList
<1> QED
  BY <1>1, <1>2, <1>3, <1>4, <1>5, <1>6, <1>7 DEF UserActs

\* The answers of the client, and the portal.
LEMMA AnswerStep ==
    ASSUME IInv,
           \/ QueryServer \/ QueryCache \/ QueryFails
           \/ WriteDelivered \/ WriteAcknowledged \/ WriteRejected \/ StreamBroken
           \/ PortalActs
    PROVE  IInv'
<1>1. ASSUME NEW c \in ListCallback
      PROVE  Append(mainq, c) \in Seq(ListCallback)
  <2>1. mainq \in Seq(ListCallback)
    BY ScreenParts DEF IInv
  <2> QED
    BY <2>1, AppendProperties
<1>2. ASSUME NEW view \in [DocId -> Document], \A d \in DocId : Complete(d, view[d]),
             AnswerQuery(view), StoreOK'
      PROVE  IInv'
  <2>1. PICK docs \in Listings(view) : mainq' = Append(mainq, [kind |-> "snapshot", docs |-> docs])
    BY <1>2 DEF AnswerQuery, Answer
  <2>2. docs \in Seq(ListedDocument)
    BY <1>2, ListingType
  <2>3. [kind |-> "snapshot", docs |-> docs] \in ListCallback
    BY <2>2 DEF ListCallback
  <2>4. mainq' \in Seq(ListCallback)
    BY <1>1, <2>1, <2>3
  <2>5. fetching' \in Nat
    <3>1. fetching \in Nat
      BY ScreenParts DEF IInv
    <3>2. fetching > 0 /\ fetching' = fetching - 1
      BY <1>2 DEF AnswerQuery
    <3> QED
      BY <3>1, <3>2
  <2>6. UNCHANGED <<used, tasks, rows, screen, closing, creator, trap, overlap, deleted>>
    BY <1>2 DEF AnswerQuery
  <2> QED
    BY <1>2, <2>4, <2>5, <2>6 DEF IInv, ScreenOK, ShownMatchesModel, TrapsOnlyOnClearedList
<1>3. CASE QueryServer
  <2>1. StoreOK' /\ AnswerQuery(LocalView)
    BY <1>3, SynchroniseStoreOK DEF IInv, QueryServer
  <2>2. LocalView \in [DocId -> Document] /\ \A d \in DocId : Complete(d, LocalView[d])
    BY LocalViewOK DEF IInv
  <2> QED
    BY <1>2, <2>1, <2>2
<1>4. CASE QueryCache
  <2>1. StoreOK' /\ AnswerQuery(CachedView)
    BY <1>4, UnchangedStoreOK DEF IInv, QueryCache
  <2>2. CachedView \in [DocId -> Document] /\ \A d \in DocId : Complete(d, CachedView[d])
    BY LocalViewOK DEF IInv
  <2> QED
    BY <1>2, <2>1, <2>2
<1>5. CASE QueryFails
  <2>1. StoreOK'
    BY <1>5, UnchangedStoreOK DEF IInv, QueryFails
  <2>2. mainq' \in Seq(ListCallback)
    <3>1. [kind |-> "loadError"] \in ListCallback
      BY DEF ListCallback
    <3> QED
      BY <1>1, <1>5, <3>1 DEF QueryFails, Answer
  <2>3. fetching' \in Nat
    <3>1. fetching \in Nat
      BY ScreenParts DEF IInv
    <3>2. fetching > 0 /\ fetching' = fetching - 1
      BY <1>5 DEF QueryFails
    <3> QED
      BY <3>1, <3>2
  <2> QED
    BY <1>5, <2>1, <2>2, <2>3
    DEF QueryFails, IInv, ScreenOK, ShownMatchesModel, TrapsOnlyOnClearedList
<1>6. ASSUME NEW ok \in BOOLEAN, NotifyUser(ok), queue # <<>>
      PROVE  mainq' \in Seq(ListCallback)
  <2>1. Head(queue).doc \in DocId
    <3>1. queue \in Seq(Mutation)
      BY DEF IInv, StoreOK, StoreTypeOK
    <3>2. Head(queue) \in Mutation
      BY <1>6, <3>1
    <3> QED
      BY <3>2 DEF Mutation
  <2>2. [kind |-> "created", doc |-> Head(queue).doc, ok |-> ok] \in ListCallback
    BY <2>1 DEF ListCallback
  <2>3. mainq \in Seq(ListCallback) /\ Append(mainq, [kind |-> "created", doc |-> Head(queue).doc, ok |-> ok]) \in Seq(ListCallback)
    BY <1>1, <2>2, ScreenParts DEF IInv
  <2> QED
    BY <1>6, <2>3 DEF NotifyUser, Answer
<1>7. CASE WriteDelivered
  <2>1. StoreOK'
    BY <1>7, DeliverStoreOK DEF IInv, WriteDelivered
  <2> QED
    BY <1>7, <2>1
    DEF WriteDelivered, uiVars, IInv, ScreenOK, ShownMatchesModel, TrapsOnlyOnClearedList
<1>8. CASE WriteAcknowledged
  <2>1. StoreOK' /\ queue # <<>>
    BY <1>8, AcknowledgeStoreOK DEF IInv, StoreOK, StoreTypeOK, WriteAcknowledged, Acknowledge
  <2>2. mainq' \in Seq(ListCallback)
    BY <1>6, <1>8, <2>1 DEF WriteAcknowledged
  <2> QED
    BY <1>8, <2>1, <2>2
    DEF WriteAcknowledged, IInv, ScreenOK, ShownMatchesModel, TrapsOnlyOnClearedList
<1>9. CASE WriteRejected
  <2>1. StoreOK' /\ queue # <<>>
    BY <1>9, RejectStoreOK DEF IInv, WriteRejected, Reject
  <2>2. mainq' \in Seq(ListCallback)
    BY <1>6, <1>9, <2>1 DEF WriteRejected
  <2>3. deleted' \subseteq DocId
    BY <1>9 DEF WriteRejected, IInv, ScreenOK
  <2> QED
    BY <1>9, <2>1, <2>2, <2>3
    DEF WriteRejected, IInv, ScreenOK, ShownMatchesModel, TrapsOnlyOnClearedList
<1>10. CASE StreamBroken
  <2>1. StoreOK'
    BY <1>10, ReconnectStoreOK DEF IInv, StreamBroken
  <2> QED
    BY <1>10, <2>1
    DEF StreamBroken, uiVars, IInv, ScreenOK, ShownMatchesModel, TrapsOnlyOnClearedList
<1>11. ASSUME NEW d \in DocId, PortalDeletes(d) PROVE IInv'
  <2>1. StoreOK'
    BY <1>11, NoDocType, RemoteSetStoreOK DEF IInv, PortalDeletes
  <2> QED
    BY <1>11, <2>1
    DEF PortalDeletes, uiVars, IInv, ScreenOK, ShownMatchesModel, TrapsOnlyOnClearedList
<1>12. ASSUME NEW d \in DocId, NEW p \in Project, PortalInserts(d, p) PROVE IInv'
  <2>1. StoreOK'
    BY <1>12, NewTaskType, RemoteSetStoreOK DEF IInv, PortalInserts
  <2> QED
    BY <1>12, <2>1
    DEF PortalInserts, uiVars, IInv, ScreenOK, ShownMatchesModel, TrapsOnlyOnClearedList
<1> QED
  BY <1>3, <1>4, <1>5, <1>7, <1>8, <1>9, <1>10, <1>11, <1>12 DEF PortalActs

\* The completion handlers on the main queue.
LEMMA HandlerStep ==
    ASSUME IInv, MainQueueRuns
    PROVE  IInv'
<1>1. StoreOK' /\ trap = "none" /\ UNCHANGED <<used, deleted>>
  BY UnchangedStoreOK DEF IInv, MainQueueRuns, Alive
<1>2. mainq # <<>> /\ mainq \in Seq(ListCallback)
  BY DEF MainQueueRuns, IInv, ScreenOK
<1>3. Head(mainq) \in ListCallback /\ Tail(mainq) \in Seq(ListCallback)
  BY <1>2
<1>4. CASE SnapshotArrives
  <2> DEFINE docs == Head(mainq).docs
             new  == [i \in DOMAIN docs |-> TaskOf(docs[i])]
  <2>1. docs \in Seq(ListedDocument)
    BY <1>3, <1>4 DEF SnapshotArrives, ListCallback
  <2>2. ~\E i \in DOMAIN docs : docs[i].taskDueDate = Nil
    <3> SUFFICES ASSUME NEW i \in DOMAIN docs PROVE docs[i].taskDueDate # Nil
      OBVIOUS
    <3>1. docs[i] \in ListedDocument
      BY <2>1
    <3> QED
      BY <3>1, FieldNames DEF ListedDocument, Listed, Complete
  <2>3. new \in Seq(ListedTask)
    <3>1. \A i \in 1..Len(docs) : docs[i] \in ListedDocument
      BY <2>1
    <3>2. \A i \in 1..Len(docs) : TaskOf(docs[i]) \in ListedTask
      BY <3>1, TaskOfType
    <3>3. new = [i \in 1..Len(docs) |-> TaskOf(docs[i])] /\ Len(docs) \in Nat
      BY <2>1
    <3> QED
      BY <3>2, <3>3, IsASeq
  <2>4. /\ tasks' = tasks \o new /\ rows' = tasks' /\ mainq' = Tail(mainq)
        /\ UNCHANGED <<fetching, screen, closing, creator, trap, overlap>>
    BY <1>4, <2>2 DEF SnapshotArrives, Display
  <2>5. tasks' \in Seq(ListedTask)
    <3> HIDE DEF new
    <3>1. tasks \in Seq(ListedTask)
      BY ScreenParts DEF IInv
    <3> QED
      BY <2>3, <2>4, <3>1, ConcatProperties
  <2>6. rows' \in Seq(Task)
    BY <2>4, <2>5, SeqMonotonic DEF ListedTask
  <2> QED
    BY <1>1, <1>3, <2>4, <2>5, <2>6
    DEF IInv, ScreenOK, ShownMatchesModel, TrapsOnlyOnClearedList
<1>5. CASE LoadErrorArrives
  BY <1>1, <1>3, <1>5
  DEF LoadErrorArrives, IInv, ScreenOK, ShownMatchesModel, TrapsOnlyOnClearedList
<1>6. CASE CreateAnswered
  <2>1. Head(mainq).doc \in DocId /\ Head(mainq).ok \in BOOLEAN
    BY <1>3, <1>6 DEF CreateAnswered, ListCallback
  <2>2. mainq' \in Seq(ListCallback) /\ UNCHANGED <<rows, screen, trap>>
        /\ creator' = [creator EXCEPT ![Head(mainq).doc] = "none"]
    BY <1>3, <1>6, Zenon DEF CreateAnswered
  <2>3. creator' \in [DocId -> {"none", "open sheet", "closed sheet"}]
    BY <2>1, <2>2 DEF IInv, ScreenOK
  <2>4. CASE Head(mainq).ok
    <3>1. ReloadTaskList /\ closing' = (closing \/ creator[Head(mainq).doc] = "open sheet")
      BY <1>6, <2>4, Zenon DEF CreateAnswered
    <3>2. closing' \in BOOLEAN
      <4>1. (closing \/ creator[Head(mainq).doc] = "open sheet") \in BOOLEAN
        BY Zenon
      <4> QED
        BY <3>1, <4>1, Zenon
    <3> QED
      BY <1>1, <2>2, <2>3, <3>1, <3>2, ReloadStep
      DEF IInv, ScreenOK, ShownMatchesModel, TrapsOnlyOnClearedList
  <2>5. CASE ~Head(mainq).ok
    <3>1. UNCHANGED <<tasks, fetching, closing, overlap>>
      BY <1>6, <2>5, Zenon DEF CreateAnswered
    <3> QED
      BY <1>1, <2>2, <2>3, <3>1
      DEF IInv, ScreenOK, ShownMatchesModel, TrapsOnlyOnClearedList
  <2> QED
    BY <2>4, <2>5
<1> QED
  BY <1>4, <1>5, <1>6 DEF MainQueueRuns

-----------------------------------------------------------------------------
(***************************************************************************)
(* The theorems.                                                           *)
(***************************************************************************)

LEMMA Initially == Init => IInv
<1> SUFFICES ASSUME Init PROVE IInv
  OBVIOUS
<1>1. StoreOK
  <2>1. \A d \in DocId : /\ server[d] \in Document /\ Complete(d, server[d])
                         /\ cache[d] \in Document /\ Complete(d, cache[d])
    BY NewTaskType, NoDocType, FieldNames DEF Init
  <2>2. server \in [DocId -> Document] /\ cache \in [DocId -> Document]
    BY <2>1 DEF Init
  <2>3. /\ queue \in Seq(Mutation) /\ queue \in Seq(TaskMutation)
        /\ sent \in 0..Len(queue) /\ synced \in [DocId -> 0..sent]
    BY DEF Init
  <2> QED
    BY <2>1, <2>2, <2>3 DEF StoreOK, StoreTypeOK
<1>2. ScreenOK
  <2>1. <<>> \in Seq(ListedTask) /\ <<>> \in Seq(Task) /\ <<>> \in Seq(ListCallback)
    OBVIOUS
  <2> QED
    BY <2>1, TaskAssumption DEF Init, ScreenOK
<1> QED
  BY <1>1, <1>2 DEF Init, IInv, ShownMatchesModel, TrapsOnlyOnClearedList

LEMMA Inductive == IInv /\ [Next]_vars => IInv'
<1> SUFFICES ASSUME IInv, [Next]_vars PROVE IInv'
  OBVIOUS
<1>1. CASE Next
  BY <1>1, UserStep, AnswerStep, HandlerStep DEF Next, ClientActs
<1>2. CASE UNCHANGED vars
  <2>1. StoreOK'
    BY <1>2, UnchangedStoreOK DEF IInv, vars
  <2> QED
    BY <1>2, <2>1
    DEF vars, uiVars, IInv, ScreenOK, ShownMatchesModel, TrapsOnlyOnClearedList
<1> QED
  BY <1>1, <1>2

LEMMA Invariant == Spec => []IInv
BY Initially, Inductive, PTL DEF Spec

\* Every variable holds what it may hold, in every reachable state: the array
\* and the table hold tasks, the queue mutations of the collection, the main
\* queue answers to calls that the two controllers make.
THEOREM TypeCorrect == Spec => []TypeOK
<1>1. IInv => TypeOK
  <2> SUFFICES ASSUME IInv PROVE TypeOK
    OBVIOUS
  <2>1. tasks \in Seq(Task)
    <3>1. tasks \in Seq(ListedTask) /\ ListedTask \subseteq Task
      BY ScreenParts DEF IInv, ListedTask
    <3> QED
      BY <3>1, SeqMonotonic
  <2>2. mainq \in Seq(Callback)
    <3>1. Seq(ListedDocument) \subseteq Seq(Document)
      BY SeqMonotonic DEF ListedDocument
    <3>2. ListCallback \subseteq Callback
      BY <3>1 DEF ListCallback, Callback
    <3> QED
      BY <3>2, ScreenParts, SeqMonotonic DEF IInv
  <2> QED
    BY <2>1, <2>2 DEF IInv, StoreOK, ScreenOK, TypeOK
<1> QED
  BY <1>1, Invariant, PTL

\* Whatever loads, taps, deletions, answers and reloads are interleaved, the
\* array and the table agree unless the array has just been emptied.
THEOREM RowsMirrorTasks == Spec => []ShownMatchesModel
<1>1. IInv => ShownMatchesModel
  BY DEF IInv
<1> QED
  BY <1>1, Invariant, PTL

\* The list can only trap on a touch of a row that a reload has left behind.
THEOREM OnlyRangeTraps == Spec => []TrapsOnlyOnClearedList
<1>1. IInv => TrapsOnlyOnClearedList
  BY DEF IInv
<1> QED
  BY <1>1, Invariant, PTL

\* No mixture of taps, deletions, refusals, resent writes and the portal's
\* changes separates the status of a task from its date of completion.
THEOREM ResolvedDateCorrect == Spec => []ResolvedDateTellsStatus
<1>1. IInv => ResolvedDateTellsStatus
  <2> SUFFICES ASSUME IInv PROVE ResolvedDateTellsStatus
    OBVIOUS
  <2>1. ASSUME NEW d \in DocId, NEW doc, Complete(d, doc), Listed(doc)
        PROVE  doc.taskType = "completed" <=> doc.taskResolvedDate = "date"
    BY <2>1, FieldNames DEF Complete, Listed
  <2>2. \A d \in DocId : Complete(d, server[d])
    BY DEF IInv, StoreOK
  <2>3. \A d \in DocId : Complete(d, LocalView[d]) /\ Complete(d, CachedView[d])
    BY LocalViewOK DEF IInv
  <2>4. ASSUME NEW i \in DOMAIN tasks
        PROVE  tasks[i].taskStatus = "completed" <=> tasks[i].taskResolvedDate = "date"
    <3>1. tasks \in Seq(ListedTask)
      BY ScreenParts DEF IInv
    <3>2. tasks[i] \in ListedTask
      BY <3>1
    <3> QED
      BY <3>2 DEF ListedTask
  <2> QED
    BY <2>1, <2>2, <2>3, <2>4 DEF ResolvedDateTellsStatus
<1> QED
  BY <1>1, Invariant, PTL

-----------------------------------------------------------------------------
(***************************************************************************)
(* Second part: a task that the user deleted stays deleted.  The invariant *)
(* relates the positions of the mutation queue to what the server and the  *)
(* cache hold.                                                             *)
(***************************************************************************)

(***************************************************************************)
(* The inductive invariant.                                                *)
(***************************************************************************)

\* Only documents whose key has been drawn belong to a project, are created
\* by the queue, or are listed.
UsedIn(docs, keys) == \A d \in DocId : docs[d].projectID \in Project => d \in keys

UsedMutation(keys) == {m \in TaskMutation : IsCreation(m) => m.doc \in keys}

UsedTask(keys) == {t \in ListedTask : t.taskID \in keys}

UsedCallback(keys) ==
    {c \in ListCallback : c.kind = "snapshot" =>
                            \A i \in DOMAIN c.docs : c.docs[i].taskID \in keys}

StoreUsesKeys ==
    /\ UsedIn(server, used) /\ UsedIn(cache, used)
    /\ queue \in Seq(UsedMutation(used))

ScreenUsesKeys ==
    /\ tasks \in Seq(UsedTask(used))
    /\ mainq \in Seq(UsedCallback(used))
    /\ deleted \subseteq used

\* Document d, in which the first k mutations of q have done their work, is
\* gone unless a later one still writes its project.
GoneAfter(docs, q, k, d) ==
    (\A i \in 1..Len(q) : i > k => ~Writes(q, i, d, "projectID"))
        => docs[d].projectID = Nil

\* The last mutation of q that writes the project of d takes it away.
LastTakesAway(q, d) ==
    \A i \in 1..Len(q) :
        LastWriter(q, i, d, "projectID") => q[i].write.projectID = Nil

\* Nothing that is still to come brings d back.
Gone(d) ==
    /\ LastTakesAway(queue, d)
    /\ GoneAfter(server, queue, sent, d)
    /\ GoneAfter(cache, queue, synced[d], d)

DeletedAreGone == \A d \in deleted : Gone(d)

DInv == IInv /\ StoreUsesKeys /\ ScreenUsesKeys /\ DeletedAreGone

-----------------------------------------------------------------------------
(***************************************************************************)
(* The steps, as the store sees them.                                      *)
(***************************************************************************)

\* A refused deletion is no deletion any more.
DropRefused ==
    deleted' = IF Head(queue).write = NoDoc THEN deleted \ {Head(queue).doc} ELSE deleted

\* Everything but a tap on a checkbox.
QuietStep ==
    \/ UNCHANGED <<storeVars, used, deleted>>
    \/ \E d \in DocId : /\ d \notin used /\ used' = used \cup {d}
                        /\ Write(Creation(d)) /\ UNCHANGED deleted
    \/ \E i \in 1..Len(tasks) : /\ Write(Deletion(tasks[i].taskID)) /\ UNCHANGED used
                                /\ deleted' = deleted \cup {tasks[i].taskID}
    \/ Deliver /\ UNCHANGED <<used, deleted>>
    \/ Acknowledge /\ UNCHANGED <<used, deleted>>
    \/ Reject /\ DropRefused /\ UNCHANGED used
    \/ Reconnect /\ UNCHANGED <<used, deleted>>
    \/ Synchronise /\ UNCHANGED <<used, deleted>>
    \/ \E d \in DocId, p \in Project :
          /\ d \notin used /\ used' = used \cup {d}
          /\ RemoteSet(d, NewTask(d, p)) /\ UNCHANGED deleted
    \/ \E d \in DocId : RemoteSet(d, NoDoc) /\ UNCHANGED <<used, deleted>>

\* A tap on the checkbox of a listed task.
Tapped(i, c) ==
    /\ Write(StatusMutation(tasks[i].taskID, c))
    /\ tasks' = [tasks EXCEPT ![i] = Toggled(tasks[i], c)]
    /\ UNCHANGED <<fetching, mainq, overlap, used, deleted>>

StoreStep ==
    \/ QuietStep
    \/ \E d \in DocId, c \in BOOLEAN :
          d \in used /\ Write(StatusMutation(d, c)) /\ UNCHANGED <<used, deleted>>

LEMMA TapOrQuiet ==
    ASSUME IInv, [Next]_vars
    PROVE  QuietStep \/ \E i \in 1..Len(tasks), c \in BOOLEAN : Tapped(i, c)
<1>1. ASSUME NEW i \in DOMAIN rows,
             CellForRow(i) \/ ResolvedButtonTapped(i) \/ DeleteRow(i) \/ ShowMoreTask(i)
      PROVE  QuietStep \/ \E j \in 1..Len(tasks), c \in BOOLEAN : Tapped(j, c)
  <2>1. tasks \in Seq(ListedTask) /\ DOMAIN tasks = 1..Len(tasks)
    BY ScreenParts DEF IInv
  <2>2. CASE CellForRow(i) \/ ShowMoreTask(i)
    BY <2>2 DEF CellForRow, ShowMoreTask, QuietStep
  <2>3. CASE ResolvedButtonTapped(i)
    <3>1. CASE i \in DOMAIN tasks
      <4>1. (rows[i].taskStatus # "completed") \in BOOLEAN
        OBVIOUS
      <4>2. Tapped(i, rows[i].taskStatus # "completed")
        BY <2>3, <3>1 DEF ResolvedButtonTapped, StatusMutation, Tapped
      <4> QED
        BY <2>1, <3>1, <4>1, <4>2
    <3>2. CASE i \notin DOMAIN tasks
      BY <2>3, <3>2 DEF ResolvedButtonTapped, QuietStep
    <3> QED
      BY <3>1, <3>2
  <2>4. CASE DeleteRow(i)
    BY <2>1, <2>4 DEF DeleteRow, QuietStep
  <2> QED
    BY <1>1, <2>2, <2>3, <2>4
<1>2. CASE UserActs
  <2>1. CASE Open \/ Back \/ Refresh \/ AddTaskButtonTapped \/ SwipeSheetAway
    BY <2>1 DEF Open, Back, Refresh, AddTaskButtonTapped, SwipeSheetAway, CloseSheet, QuietStep
  <2>2. CASE \E d \in DocId : CreateTaskButtonTapped(d)
    BY <2>2 DEF CreateTaskButtonTapped, QuietStep
  <2> QED
    BY <1>1, <1>2, <2>1, <2>2 DEF UserActs, RowTouched
<1>3. CASE ClientActs
  BY <1>3
  DEF ClientActs, QueryServer, QueryCache, QueryFails, AnswerQuery, WriteDelivered,
      WriteAcknowledged, WriteRejected, StreamBroken, MainQueueRuns, DismissAfterSuccess,
      CloseSheet, QuietStep, DropRefused
<1>4. CASE PortalActs
  BY <1>4 DEF PortalActs, PortalInserts, PortalDeletes, QuietStep
<1>5. CASE Restart
  BY <1>5 DEF Restart, OnDisk, QuietStep
<1>6. CASE UNCHANGED vars
  BY <1>6 DEF vars, QuietStep
<1> QED
  BY <1>2, <1>3, <1>4, <1>5, <1>6 DEF Next

LEMMA StoreSteps ==
    ASSUME IInv, ScreenUsesKeys, [Next]_vars
    PROVE  StoreStep
<1>1. ASSUME NEW i \in 1..Len(tasks), NEW c \in BOOLEAN, Tapped(i, c) PROVE StoreStep
  <2>1. tasks[i] \in UsedTask(used)
    BY DEF ScreenUsesKeys
  <2>2. tasks[i].taskID \in DocId /\ tasks[i].taskID \in used
    BY <2>1 DEF UsedTask, ListedTask
  <2> QED
    BY <1>1, <2>2 DEF Tapped, StoreStep
<1> QED
  BY <1>1, TapOrQuiet DEF StoreStep

LEMMA UsedGrows ==
    ASSUME StoreStep
    PROVE  used \subseteq used'
BY DEF StoreStep, QuietStep

-----------------------------------------------------------------------------
(***************************************************************************)
(* Only drawn keys are in use.                                             *)
(***************************************************************************)

LEMMA UsedMonotone ==
    ASSUME NEW K, NEW L, K \subseteq L
    PROVE  /\ \A docs : UsedIn(docs, K) => UsedIn(docs, L)
           /\ Seq(UsedMutation(K)) \subseteq Seq(UsedMutation(L))
           /\ Seq(UsedTask(K)) \subseteq Seq(UsedTask(L))
           /\ Seq(UsedCallback(K)) \subseteq Seq(UsedCallback(L))
<1>1. UsedMutation(K) \subseteq UsedMutation(L) /\ UsedTask(K) \subseteq UsedTask(L)
  BY DEF UsedMutation, UsedTask
<1>2. UsedCallback(K) \subseteq UsedCallback(L)
  BY DEF UsedCallback
<1>3. \A docs : UsedIn(docs, K) => UsedIn(docs, L)
  BY DEF UsedIn
<1> QED
  BY <1>1, <1>2, <1>3, SeqMonotonic

\* Only a creation puts a document into a project.
LEMMA ProjectWriter ==
    ASSUME NEW m \in TaskMutation
    PROVE  /\ m.write.projectID \in Project => IsCreation(m)
           /\ IsCreation(m) => m.write.projectID \in Project
           /\ ~IsCreation(m) => m.write.projectID \in {Nil, Keep}
BY MutationKinds, FieldNames DEF IsDeletion, IsCreation, IsStatusChange, NewTask

LEMMA ApplyUsed ==
    ASSUME NEW keys, NEW docs \in [DocId -> Document], UsedIn(docs, keys),
           NEW m \in UsedMutation(keys)
    PROVE  UsedIn(Apply(docs, m), keys)
<1> SUFFICES ASSUME NEW d \in DocId, Apply(docs, m)[d].projectID \in Project
             PROVE  d \in keys
  BY DEF UsedIn
<1>1. m \in TaskMutation /\ m \in Mutation
  BY MutationKinds DEF UsedMutation
<1>2. Apply(docs, m)[d].projectID =
        IF m.doc = d /\ m.write.projectID # Keep THEN m.write.projectID ELSE docs[d].projectID
  BY <1>1, ApplyField, FieldNames
<1> QED
  BY <1>1, <1>2, ProjectWriter DEF UsedIn, UsedMutation

LEMMA OverlayUsed ==
    ASSUME NEW keys, NEW base \in [DocId -> Document], UsedIn(base, keys),
           NEW q \in Seq(UsedMutation(keys))
    PROVE  UsedIn(Overlay(base, q), keys)
<1>1. q \in Seq(Mutation) /\ \A i \in 1..Len(q) : q[i] \in UsedMutation(keys)
  <2>1. UsedMutation(keys) \subseteq Mutation
    BY MutationKinds DEF UsedMutation
  <2> QED
    BY <2>1, SeqMonotonic
<1> SUFFICES ASSUME NEW d \in DocId, Overlay(base, q)[d].projectID \in Project
             PROVE  d \in keys
  BY DEF UsedIn
<1>2. CASE \E i \in 1..Len(q) : Writes(q, i, d, "projectID")
  <2>1. PICK i \in 1..Len(q) : LastWriter(q, i, d, "projectID")
    BY <1>1, <1>2, LastWriterExists, FieldNames
  <2>2. q[i].doc = d /\ Overlay(base, q)[d].projectID = q[i].write.projectID
    BY <1>1, <2>1, OverlayWritten, FieldNames DEF LastWriter, Writes
  <2> QED
    BY <1>1, <2>2, ProjectWriter DEF UsedMutation
<1>3. CASE \A i \in 1..Len(q) : ~Writes(q, i, d, "projectID")
  BY <1>1, <1>3, OverlayUnwritten, FieldNames DEF UsedIn
<1> QED
  BY <1>2, <1>3

LEMMA ListingUsed ==
    ASSUME NEW keys, NEW view \in [DocId -> Document], UsedIn(view, keys),
           \A d \in DocId : Complete(d, view[d]),
           NEW docs \in Listings(view)
    PROVE  \A i \in DOMAIN docs : docs[i].taskID \in keys
<1> DEFINE found == {d \in DocId : Listed(view[d])}
<1>1. PICK s \in SeqOf(found, Cardinality(found)) : docs = [i \in DOMAIN s |-> view[s[i]]]
  BY DEF Listings
<1>2. \A i \in DOMAIN s : s[i] \in found
  BY <1>1 DEF SeqOf
<1> QED
  BY <1>1, <1>2, FieldNames DEF Listed, Complete, UsedIn

LEMMA StoreKeysStep ==
    ASSUME IInv, StoreUsesKeys, ScreenUsesKeys, StoreStep
    PROVE  StoreUsesKeys'
<1>1. /\ UsedIn(server, used') /\ UsedIn(cache, used') /\ queue \in Seq(UsedMutation(used'))
      /\ used \subseteq used'
  BY UsedGrows, UsedMonotone DEF StoreUsesKeys
<1>2. server \in [DocId -> Document] /\ cache \in [DocId -> Document]
      /\ sent \in 0..Len(queue) /\ Len(queue) \in Nat
  BY DEF IInv, StoreOK, StoreTypeOK
<1>3. ASSUME NEW m \in UsedMutation(used'), Write(m) PROVE StoreUsesKeys'
  BY <1>1, <1>3 DEF Write, StoreUsesKeys
<1>4. \A m \in TaskMutation : ~IsCreation(m) => m \in UsedMutation(used')
  BY DEF UsedMutation
<1>5. CASE UNCHANGED <<storeVars, used, deleted>>
  BY <1>1, <1>5 DEF storeVars, StoreUsesKeys
<1>6. ASSUME NEW d \in DocId, used' = used \cup {d}, Write(Creation(d)) PROVE StoreUsesKeys'
  <2>1. Creation(d) \in UsedMutation(used')
    BY <1>6, AppMutations DEF UsedMutation, Creation
  <2> QED
    BY <1>3, <1>6, <2>1
<1>7. ASSUME NEW d \in DocId, NEW c \in BOOLEAN, Write(StatusMutation(d, c)) PROVE StoreUsesKeys'
  <2>1. ~IsCreation(StatusMutation(d, c))
    BY FieldNames DEF IsCreation, NewTask, StatusMutation, StatusWrite
  <2> QED
    BY <1>3, <1>4, <1>7, <2>1, AppMutations
<1>8. ASSUME NEW i \in 1..Len(tasks), Write(Deletion(tasks[i].taskID)) PROVE StoreUsesKeys'
  <2>1. tasks[i].taskID \in DocId
    <3>1. tasks[i] \in ListedTask
      BY ScreenParts DEF IInv
    <3> QED
      BY <3>1 DEF ListedTask
  <2>2. ~IsCreation(Deletion(tasks[i].taskID))
    BY FieldNames DEF IsCreation, NewTask, Deletion, NoDoc
  <2> QED
    BY <1>3, <1>4, <1>8, <2>1, <2>2, AppMutations
<1>9. CASE Deliver
  <2>1. queue[sent + 1] \in UsedMutation(used')
    BY <1>1, <1>2, <1>9 DEF Deliver
  <2>2. UsedIn(server', used')
    BY <1>1, <1>2, <1>9, <2>1, ApplyUsed DEF Deliver
  <2> QED
    BY <1>1, <1>9, <2>2 DEF Deliver, StoreUsesKeys
<1>10. CASE Acknowledge
  <2>1. queue # <<>>
    BY <1>2, <1>10 DEF Acknowledge
  <2>2. Head(queue) \in UsedMutation(used') /\ Tail(queue) \in Seq(UsedMutation(used'))
    BY <1>1, <2>1
  <2>3. UsedIn(Apply(cache, Head(queue)), used')
    BY <1>1, <1>2, <2>2, ApplyUsed
  <2> QED
    BY <1>1, <1>10, <2>2, <2>3 DEF Acknowledge, AcknowledgeCache, StoreUsesKeys
<1>11. CASE Reject
  BY <1>1, <1>11 DEF Reject, StoreUsesKeys
<1>12. CASE Reconnect \/ Synchronise
  BY <1>1, <1>12 DEF Reconnect, Synchronise, StoreUsesKeys
<1>13. ASSUME NEW d \in DocId, NEW doc, doc.projectID \in Project => d \in used',
              RemoteSet(d, doc)
       PROVE  StoreUsesKeys'
  BY <1>1, <1>2, <1>13 DEF RemoteSet, UsedIn, StoreUsesKeys
<1>14. NoDoc.projectID \notin Project
  BY FieldNames DEF NoDoc
<1>15. ASSUME NEW d \in DocId, NEW p \in Project, used' = used \cup {d}, RemoteSet(d, NewTask(d, p))
       PROVE  StoreUsesKeys'
  BY <1>13, <1>15
<1>16. ASSUME NEW d \in DocId, RemoteSet(d, NoDoc) PROVE StoreUsesKeys'
  BY <1>13, <1>14, <1>16
<1> QED
  BY <1>5, <1>6, <1>7, <1>8, <1>9, <1>10, <1>11, <1>12, <1>15, <1>16 DEF StoreStep, QuietStep

\* The array: a row changes, goes, or the whole array is emptied.
LEMMA TouchKeys ==
    ASSUME IInv, ScreenUsesKeys, NEW i \in DOMAIN rows,
           CellForRow(i) \/ ResolvedButtonTapped(i) \/ DeleteRow(i) \/ ShowMoreTask(i)
    PROVE  tasks' \in Seq(UsedTask(used)) /\ mainq' = mainq
<1>1. tasks \in Seq(UsedTask(used)) /\ DOMAIN tasks = 1..Len(tasks)
  BY DEF ScreenUsesKeys
<1>2. CASE CellForRow(i) \/ ShowMoreTask(i)
  BY <1>1, <1>2 DEF CellForRow, ShowMoreTask, Trap
<1>3. CASE ResolvedButtonTapped(i)
  <2>1. CASE i \in DOMAIN tasks
    <3> DEFINE c == rows[i].taskStatus # "completed"
    <3>1. tasks' = [tasks EXCEPT ![i] = Toggled(tasks[i], c)] /\ mainq' = mainq
      BY <1>3, <2>1 DEF ResolvedButtonTapped
    <3>2. tasks[i] \in ListedTask /\ tasks[i].taskID \in used
      BY <1>1, <2>1 DEF UsedTask
    <3>3. Toggled(tasks[i], c) \in UsedTask(used)
      BY <3>2, ToggledType DEF UsedTask
    <3>4. [tasks EXCEPT ![i] = Toggled(tasks[i], c)] \in Seq(UsedTask(used))
      <4> HIDE DEF c
      <4>1. i \in 1..Len(tasks)
        BY <1>1, <2>1
      <4> QED
        BY <1>1, <3>3, <4>1, ExceptSeq
    <3> HIDE DEF c
    <3> QED
      BY <3>1, <3>4
  <2>2. CASE i \notin DOMAIN tasks
    BY <1>1, <1>3, <2>2 DEF ResolvedButtonTapped, Trap
  <2> QED
    BY <2>1, <2>2
<1>4. CASE DeleteRow(i)
  <2>1. tasks' = tasks \/ (i \in 1..Len(tasks) /\ tasks' = RemoveRow(tasks, i))
    BY <1>1, <1>4 DEF DeleteRow, Trap
  <2>2. mainq' = mainq
    BY <1>4 DEF DeleteRow, Trap
  <2> QED
    BY <1>1, <2>1, <2>2, RemoveRowType
<1> QED
  BY <1>2, <1>3, <1>4

LEMMA HandlerKeys ==
    ASSUME IInv, ScreenUsesKeys, MainQueueRuns
    PROVE  tasks' \in Seq(UsedTask(used)) /\ mainq' \in Seq(UsedCallback(used))
<1>1. tasks \in Seq(UsedTask(used)) /\ mainq \in Seq(UsedCallback(used)) /\ mainq # <<>>
  BY DEF ScreenUsesKeys, MainQueueRuns
<1>2. Head(mainq) \in UsedCallback(used) /\ Tail(mainq) \in Seq(UsedCallback(used))
  BY <1>1
<1>3. <<>> \in Seq(UsedTask(used))
  OBVIOUS
<1>4. CASE SnapshotArrives
  <2> DEFINE docs == Head(mainq).docs
             new  == [i \in DOMAIN docs |-> TaskOf(docs[i])]
  <2>1. CASE \E i \in DOMAIN docs : docs[i].taskDueDate = Nil
    BY <1>1, <1>4, <2>1 DEF SnapshotArrives, Trap
  <2>2. CASE ~\E i \in DOMAIN docs : docs[i].taskDueDate = Nil
    <3>1. tasks' = tasks \o new /\ mainq' = Tail(mainq)
      BY <1>4, <2>2 DEF SnapshotArrives
    <3>2. Head(mainq) \in ListCallback /\ Head(mainq).kind = "snapshot"
      BY <1>2, <1>4 DEF UsedCallback, SnapshotArrives
    <3>3. docs \in Seq(ListedDocument) /\ \A i \in DOMAIN docs : docs[i].taskID \in used
      BY <1>2, <3>2 DEF UsedCallback, ListCallback
    <3>4. \A i \in 1..Len(docs) : TaskOf(docs[i]) \in UsedTask(used)
      <4> TAKE i \in 1..Len(docs)
      <4>1. docs[i] \in ListedDocument /\ docs[i].taskID \in used
        BY <3>3
      <4>2. TaskOf(docs[i]).taskID = docs[i].taskID
        BY DEF TaskOf
      <4> QED
        BY <4>1, <4>2, TaskOfType DEF UsedTask
    <3>5. new = [i \in 1..Len(docs) |-> TaskOf(docs[i])] /\ Len(docs) \in Nat
      BY <3>3
    <3>6. new \in Seq(UsedTask(used))
      BY <3>4, <3>5, IsASeq
    <3> HIDE DEF new
    <3> QED
      BY <1>1, <1>2, <3>1, <3>6, ConcatProperties
  <2> QED
    BY <2>1, <2>2
<1>5. CASE LoadErrorArrives
  BY <1>1, <1>2, <1>5 DEF LoadErrorArrives
<1>6. CASE CreateAnswered
  <2>1. mainq' = Tail(mainq)
    BY <1>6, Zenon DEF CreateAnswered
  <2>2. tasks' = <<>> \/ tasks' = tasks
    BY <1>6, Zenon DEF CreateAnswered, ReloadTaskList
  <2> QED
    BY <1>1, <1>2, <1>3, <2>1, <2>2
<1> QED
  BY <1>4, <1>5, <1>6 DEF MainQueueRuns

LEMMA ScreenKeysStep ==
    ASSUME IInv, StoreUsesKeys, ScreenUsesKeys, [Next]_vars
    PROVE  ScreenUsesKeys'
<1>1. StoreStep /\ used \subseteq used'
  BY StoreSteps, UsedGrows
<1>2. deleted' \subseteq used'
  <2>1. \A i \in 1..Len(tasks) : tasks[i].taskID \in used
    <3>1. \A i \in 1..Len(tasks) : tasks[i] \in UsedTask(used)
      BY DEF ScreenUsesKeys
    <3> QED
      BY <3>1 DEF UsedTask
  <2>2. deleted' \subseteq deleted \/ \E i \in 1..Len(tasks) : deleted' = deleted \cup {tasks[i].taskID}
    BY <1>1 DEF StoreStep, QuietStep, DropRefused
  <2> QED
    BY <1>1, <2>1, <2>2 DEF ScreenUsesKeys
<1>3. tasks \in Seq(UsedTask(used)) /\ mainq \in Seq(UsedCallback(used))
  BY DEF ScreenUsesKeys
<1>4. <<>> \in Seq(UsedTask(used)) /\ <<>> \in Seq(UsedCallback(used))
  OBVIOUS
<1> SUFFICES tasks' \in Seq(UsedTask(used)) /\ mainq' \in Seq(UsedCallback(used))
  <2>1. Seq(UsedTask(used)) \subseteq Seq(UsedTask(used')) /\ Seq(UsedCallback(used)) \subseteq Seq(UsedCallback(used'))
    BY <1>1, UsedMonotone
  <2> QED
    BY <1>2, <2>1 DEF ScreenUsesKeys
<1>5. ASSUME NEW c \in ListCallback, c.kind # "snapshot", mainq' = Append(mainq, c)
      PROVE  mainq' \in Seq(UsedCallback(used))
  <2>1. c \in UsedCallback(used)
    BY <1>5 DEF UsedCallback
  <2> QED
    BY <1>3, <1>5, <2>1, AppendProperties
<1>6. ASSUME NEW view \in [DocId -> Document], \A d \in DocId : Complete(d, view[d]),
             UsedIn(view, used), AnswerQuery(view)
      PROVE  tasks' = tasks /\ mainq' \in Seq(UsedCallback(used))
  <2>1. PICK docs \in Listings(view) : mainq' = Append(mainq, [kind |-> "snapshot", docs |-> docs])
    BY <1>6 DEF AnswerQuery, Answer
  <2>2. docs \in Seq(ListedDocument) /\ \A i \in DOMAIN docs : docs[i].taskID \in used
    BY <1>6, ListingType, ListingUsed
  <2>3. [kind |-> "snapshot", docs |-> docs] \in UsedCallback(used)
    BY <2>2 DEF ListCallback, UsedCallback
  <2>4. tasks' = tasks
    BY <1>6 DEF AnswerQuery
  <2> QED
    BY <1>3, <2>1, <2>3, <2>4, AppendProperties
<1>7. /\ LocalView \in [DocId -> Document] /\ \A d \in DocId : Complete(d, LocalView[d])
      /\ CachedView \in [DocId -> Document] /\ \A d \in DocId : Complete(d, CachedView[d])
      /\ UsedIn(LocalView, used) /\ UsedIn(CachedView, used)
  BY LocalViewOK, OverlayUsed DEF IInv, StoreOK, StoreTypeOK, StoreUsesKeys, LocalView, CachedView
<1>8. ASSUME NEW ok \in BOOLEAN, NotifyUser(ok), queue # <<>>
      PROVE  mainq' \in Seq(UsedCallback(used))
  <2>1. Head(queue) \in Mutation
    BY <1>8 DEF IInv, StoreOK, StoreTypeOK
  <2>2. [kind |-> "created", doc |-> Head(queue).doc, ok |-> ok] \in ListCallback
    BY <2>1 DEF Mutation, ListCallback
  <2> QED
    BY <1>3, <1>5, <1>8, <2>2 DEF NotifyUser, Answer
<1>9. CASE UserActs
  <2>1. CASE Open \/ AddTaskButtonTapped \/ SwipeSheetAway \/ \E d \in DocId : CreateTaskButtonTapped(d)
    BY <1>3, <2>1 DEF Open, AddTaskButtonTapped, SwipeSheetAway, CloseSheet, CreateTaskButtonTapped
  <2>2. CASE Back
    BY <1>4, <2>2 DEF Back, ReleaseScreen
  <2>3. CASE Refresh
    <3>1. tasks' = <<>> /\ mainq' = mainq
      BY <2>3, Zenon DEF Refresh, ReloadTaskList
    <3> QED
      BY <1>3, <1>4, <3>1
  <2>4. CASE RowTouched
    BY <1>3, <2>4, TouchKeys DEF RowTouched
  <2> QED
    BY <1>9, <2>1, <2>2, <2>3, <2>4 DEF UserActs
<1>10. CASE QueryServer \/ QueryCache
  BY <1>3, <1>6, <1>7, <1>10 DEF QueryServer, QueryCache
<1>11. CASE QueryFails
  <2>1. [kind |-> "loadError"] \in ListCallback
    BY DEF ListCallback
  <2>2. mainq' = Append(mainq, [kind |-> "loadError"]) /\ tasks' = tasks
    BY <1>11 DEF QueryFails, Answer
  <2> QED
    BY <1>3, <1>5, <2>1, <2>2
<1>12. CASE WriteDelivered \/ StreamBroken \/ PortalActs
  BY <1>3, <1>12 DEF WriteDelivered, StreamBroken, PortalActs, PortalInserts, PortalDeletes, uiVars
<1>13. CASE WriteAcknowledged
  <2>1. queue # <<>>
    BY <1>13 DEF WriteAcknowledged, Acknowledge, IInv, StoreOK, StoreTypeOK
  <2> QED
    BY <1>3, <1>8, <1>13, <2>1 DEF WriteAcknowledged
<1>14. CASE WriteRejected
  BY <1>3, <1>8, <1>14 DEF WriteRejected, Reject
<1>15. CASE MainQueueRuns
  BY <1>15, HandlerKeys
<1>16. CASE DismissAfterSuccess
  BY <1>3, <1>16 DEF DismissAfterSuccess, CloseSheet
<1>17. CASE Restart
  BY <1>4, <1>17 DEF Restart, ReleaseScreen
<1>18. CASE UNCHANGED vars
  BY <1>3, <1>18 DEF vars, uiVars
<1> QED
  BY <1>9, <1>10, <1>11, <1>12, <1>13, <1>14, <1>15, <1>16, <1>17, <1>18 DEF Next, ClientActs

-----------------------------------------------------------------------------
(***************************************************************************)
(* What the steps of the queue do to a document that is gone.              *)
(***************************************************************************)

LEMMA GoneLocal ==
    ASSUME NEW docs, NEW other, NEW q, NEW k, NEW d, docs[d] = other[d],
           GoneAfter(docs, q, k, d)
    PROVE  GoneAfter(other, q, k, d)
BY DEF GoneAfter

\* A deletion joins the queue.
LEMMA GoneByDeletion ==
    ASSUME NEW q \in Seq(Mutation), NEW m \in Mutation, NEW d \in DocId,
           m.doc = d, m.write.projectID = Nil
    PROVE  /\ LastTakesAway(Append(q, m), d)
           /\ \A docs : \A k \in 0..Len(q) : GoneAfter(docs, Append(q, m), k, d)
<1> DEFINE r == Append(q, m)
<1>1. Len(r) = Len(q) + 1 /\ Len(q) \in Nat /\ r[Len(q) + 1] = m
  OBVIOUS
<1> HIDE DEF r
<1>2. Writes(r, Len(q) + 1, d, "projectID")
  BY <1>1, FieldNames DEF Writes
<1>3. \A i \in 1..Len(r) : LastWriter(r, i, d, "projectID") => i = Len(q) + 1
  BY <1>1, <1>2 DEF LastWriter
<1>4. LastTakesAway(r, d)
  BY <1>1, <1>3 DEF LastTakesAway
<1>5. \A docs : \A k \in 0..Len(q) : GoneAfter(docs, r, k, d)
  BY <1>1, <1>2 DEF GoneAfter
<1> QED
  BY <1>4, <1>5 DEF r

\* Any other mutation that leaves the project of d alone joins the queue.
LEMMA GoneDespiteWrite ==
    ASSUME NEW q \in Seq(Mutation), NEW m \in Mutation, NEW d \in DocId,
           m.doc = d => m.write.projectID = Keep
    PROVE  /\ LastTakesAway(q, d) => LastTakesAway(Append(q, m), d)
           /\ \A docs : \A k \in 0..Len(q) :
                 GoneAfter(docs, q, k, d) => GoneAfter(docs, Append(q, m), k, d)
<1> DEFINE r == Append(q, m)
<1>1. /\ Len(r) = Len(q) + 1 /\ Len(q) \in Nat /\ r[Len(q) + 1] = m
      /\ \A i \in 1..Len(q) : r[i] = q[i]
  OBVIOUS
<1> HIDE DEF r
<1>2. /\ ~Writes(r, Len(q) + 1, d, "projectID")
      /\ \A i \in 1..Len(q) : Writes(r, i, d, "projectID") <=> Writes(q, i, d, "projectID")
  BY <1>1 DEF Writes
<1>3. \A i \in 1..Len(r) :
        LastWriter(r, i, d, "projectID") => i \in 1..Len(q) /\ LastWriter(q, i, d, "projectID")
  BY <1>1, <1>2 DEF LastWriter
<1>4. LastTakesAway(q, d) => LastTakesAway(r, d)
  BY <1>1, <1>3 DEF LastTakesAway
<1>5. \A docs : \A k \in 0..Len(q) : GoneAfter(docs, q, k, d) => GoneAfter(docs, r, k, d)
  BY <1>1, <1>2 DEF GoneAfter
<1> QED
  BY <1>4, <1>5 DEF r

\* The next mutation does its work.
LEMMA GoneWhenApplied ==
    ASSUME NEW q \in Seq(Mutation), NEW docs \in [DocId -> Document], NEW d \in DocId,
           NEW k \in 0..(Len(q) - 1), LastTakesAway(q, d), GoneAfter(docs, q, k, d)
    PROVE  GoneAfter(Apply(docs, q[k + 1]), q, k + 1, d)
<1>1. k + 1 \in 1..Len(q) /\ q[k + 1] \in Mutation
  OBVIOUS
<1>2. SUFFICES ASSUME \A i \in 1..Len(q) : i > k + 1 => ~Writes(q, i, d, "projectID")
               PROVE  Apply(docs, q[k + 1])[d].projectID = Nil
  BY DEF GoneAfter
<1>3. Apply(docs, q[k + 1])[d].projectID =
        IF Writes(q, k + 1, d, "projectID") THEN q[k + 1].write.projectID ELSE docs[d].projectID
  BY <1>1, ApplyField, FieldNames DEF Writes
<1>4. CASE Writes(q, k + 1, d, "projectID")
  <2>1. LastWriter(q, k + 1, d, "projectID")
    BY <1>1, <1>2, <1>4 DEF LastWriter
  <2> QED
    BY <1>1, <1>3, <1>4, <2>1 DEF LastTakesAway
<1>5. CASE ~Writes(q, k + 1, d, "projectID")
  <2>1. \A i \in 1..Len(q) : i > k => ~Writes(q, i, d, "projectID")
    BY <1>2, <1>5
  <2> QED
    BY <1>3, <1>5, <2>1 DEF GoneAfter
<1> QED
  BY <1>4, <1>5

\* The head leaves the queue.
LEMMA GoneInTail ==
    ASSUME NEW q \in Seq(Mutation), q # <<>>, NEW d \in DocId
    PROVE  /\ LastTakesAway(q, d) => LastTakesAway(Tail(q), d)
           /\ \A docs : \A k \in Nat :
                 GoneAfter(docs, q, k + 1, d) => GoneAfter(docs, Tail(q), k, d)
<1>1. PICK r \in Seq(Mutation) :
        r = Tail(q) /\ Len(r) = Len(q) - 1 /\ \A i \in 1..Len(r) : r[i] = q[i + 1]
  <2>1. /\ Tail(q) \in Seq(Mutation) /\ Len(Tail(q)) = Len(q) - 1
        /\ \A i \in 1..Len(Tail(q)) : Tail(q)[i] = q[i + 1]
    OBVIOUS
  <2> QED
    BY <2>1
<1>2. Len(q) \in Nat \ {0}
  OBVIOUS
<1>3. \A i \in 1..Len(r) : Writes(r, i, d, "projectID") <=> Writes(q, i + 1, d, "projectID")
  BY <1>1 DEF Writes
<1>4. ASSUME NEW i \in 1..Len(r), LastWriter(r, i, d, "projectID")
      PROVE  LastWriter(q, i + 1, d, "projectID")
  <2>1. i + 1 \in 1..Len(q) /\ Writes(q, i + 1, d, "projectID")
    BY <1>1, <1>2, <1>3, <1>4 DEF LastWriter
  <2>2. ASSUME NEW j \in 1..Len(q), j > i + 1 PROVE ~Writes(q, j, d, "projectID")
    <3>1. j - 1 \in 1..Len(r) /\ j - 1 > i /\ (j - 1) + 1 = j
      BY <1>1, <1>2, <2>2
    <3> QED
      BY <1>3, <1>4, <3>1 DEF LastWriter
  <2> QED
    BY <2>1, <2>2 DEF LastWriter
<1>5. LastTakesAway(q, d) => LastTakesAway(r, d)
  BY <1>1, <1>2, <1>4 DEF LastTakesAway
<1>6. ASSUME NEW docs, NEW k \in Nat, GoneAfter(docs, q, k + 1, d)
      PROVE  GoneAfter(docs, r, k, d)
  <2>1. SUFFICES ASSUME \A i \in 1..Len(r) : i > k => ~Writes(r, i, d, "projectID")
                 PROVE  \A i \in 1..Len(q) : i > k + 1 => ~Writes(q, i, d, "projectID")
    BY <1>6 DEF GoneAfter
  <2> TAKE i \in 1..Len(q)
  <2> HAVE i > k + 1
  <2>2. i - 1 \in 1..Len(r) /\ i - 1 > k /\ (i - 1) + 1 = i
    BY <1>1, <1>2
  <2> QED
    BY <1>3, <2>1, <2>2
<1> QED
  BY <1>1, <1>5, <1>6

\* The head leaves the queue without having done its work.
LEMMA GoneWhenDropped ==
    ASSUME NEW q \in Seq(TaskMutation), q # <<>>, NEW d \in DocId, NEW docs,
           Head(q) # Deletion(d), LastTakesAway(q, d), GoneAfter(docs, q, 0, d)
    PROVE  GoneAfter(docs, Tail(q), 0, d)
<1>1. q \in Seq(Mutation) /\ q[1] \in TaskMutation /\ Head(q) = q[1] /\ 1 \in 1..Len(q)
  <2>1. TaskMutation \subseteq Mutation
    BY MutationKinds
  <2> QED
    BY <2>1, SeqMonotonic
<1>2. CASE GoneAfter(docs, q, 1, d)
  BY <1>1, <1>2, GoneInTail
<1>3. CASE ~GoneAfter(docs, q, 1, d)
  <2>1. /\ \A i \in 1..Len(q) : i > 1 => ~Writes(q, i, d, "projectID")
        /\ docs[d].projectID # Nil
    BY <1>3 DEF GoneAfter
  <2>2. Writes(q, 1, d, "projectID")
    BY <1>1, <2>1 DEF GoneAfter
  <2>3. q[1].write.projectID = Nil /\ q[1].doc = d
    BY <1>1, <2>1, <2>2 DEF LastWriter, LastTakesAway, Writes
  <2>4. q[1] = Deletion(d)
    <3>1. ASSUME NEW e \in DocId, q[1] = Creation(e) PROVE FALSE
      BY <2>3, <3>1, FieldNames DEF Creation, NewTask
    <3>2. ASSUME NEW e \in DocId, NEW c \in BOOLEAN, q[1] = StatusMutation(e, c) PROVE FALSE
      BY <2>3, <3>2, FieldNames DEF StatusMutation, StatusWrite
    <3> QED
      BY <1>1, <2>3, <3>1, <3>2 DEF TaskMutation, Deletion
  <2> QED
    BY <1>1, <2>4
<1> QED
  BY <1>2, <1>3

-----------------------------------------------------------------------------
(***************************************************************************)
(* Deleted tasks stay gone.                                                *)
(***************************************************************************)

LEMMA StoreParts ==
    ASSUME IInv
    PROVE  /\ server \in [DocId -> Document] /\ cache \in [DocId -> Document]
           /\ queue \in Seq(Mutation) /\ queue \in Seq(TaskMutation) /\ Len(queue) \in Nat
           /\ sent \in 0..Len(queue) /\ synced \in [DocId -> 0..sent]
           /\ \A d \in DocId : synced[d] \in 0..Len(queue) /\ synced[d] \in 0..sent
BY DEF IInv, StoreOK, StoreTypeOK

LEMMA WriteGone ==
    ASSUME IInv, NEW d \in DocId, NEW m \in TaskMutation, Write(m),
           \/ m = Deletion(d)
           \/ Gone(d) /\ (m.doc = d => m.write.projectID = Keep)
    PROVE  Gone(d)'
<1>1. /\ m \in Mutation /\ queue' = Append(queue, m)
      /\ server' = server /\ cache' = cache /\ sent' = sent /\ synced' = synced
  BY MutationKinds DEF Write
<1>2. CASE m = Deletion(d)
  <2>1. m.doc = d /\ m.write.projectID = Nil
    BY <1>2, FieldNames DEF Deletion, NoDoc
  <2> QED
    BY <1>1, <2>1, StoreParts, GoneByDeletion DEF Gone
<1>3. CASE Gone(d) /\ (m.doc = d => m.write.projectID = Keep)
  BY <1>1, <1>3, StoreParts, GoneDespiteWrite DEF Gone
<1> QED
  BY <1>2, <1>3

LEMMA DeliverGone ==
    ASSUME IInv, NEW d \in DocId, Gone(d), Deliver
    PROVE  Gone(d)'
<1>1. sent \in 0..(Len(queue) - 1)
  BY StoreParts DEF Deliver
<1>2. GoneAfter(Apply(server, queue[sent + 1]), queue, sent + 1, d)
  BY <1>1, StoreParts, GoneWhenApplied DEF Gone
<1> QED
  BY <1>2 DEF Gone, Deliver

LEMMA AcknowledgeGone ==
    ASSUME IInv, NEW d \in DocId, Gone(d), Acknowledge
    PROVE  Gone(d)'
<1>1. /\ queue # <<>> /\ queue' = Tail(queue) /\ sent' = sent - 1 /\ sent' \in Nat
      /\ server' = server /\ Len(queue) \in Nat \ {0}
  BY StoreParts DEF Acknowledge
<1>2. Head(queue) = queue[1] /\ queue[1] \in Mutation
  BY <1>1, StoreParts
<1>3. LastTakesAway(queue', d) /\ GoneAfter(server', queue', sent', d)
  <2>1. GoneAfter(server, queue, sent' + 1, d)
    BY <1>1, StoreParts DEF Gone
  <2> QED
    BY <1>1, <2>1, StoreParts, GoneInTail DEF Gone
<1>4. synced'[d] = IF synced[d] = 0 THEN 0 ELSE synced[d] - 1
  BY DEF Acknowledge, AcknowledgeCache, OneLessSynced
<1>5. cache' = IF synced[queue[1].doc] = 0 THEN Apply(cache, queue[1]) ELSE cache
  BY <1>2 DEF Acknowledge, AcknowledgeCache
<1>6. queue[1].doc # d => Apply(cache, queue[1])[d] = cache[d]
  BY <1>2, StoreParts DEF Apply, Mutation
<1>7. CASE synced[d] = 0
  <2>1. GoneAfter(Apply(cache, queue[1]), queue, 1, d)
    BY <1>1, <1>7, StoreParts, GoneWhenApplied DEF Gone
  <2>2. GoneAfter(cache', queue, 1, d)
    BY <1>5, <1>6, <1>7, <2>1, GoneLocal
  <2> QED
    BY <1>1, <1>3, <1>4, <1>7, <2>2, StoreParts, GoneInTail DEF Gone
<1>8. CASE synced[d] # 0
  <2>1. synced[d] - 1 \in Nat /\ (synced[d] - 1) + 1 = synced[d]
    BY <1>8, StoreParts
  <2>2. cache'[d] = cache[d]
    BY <1>5, <1>6, <1>8
  <2>3. GoneAfter(cache', queue, (synced[d] - 1) + 1, d)
    BY <2>1, <2>2, GoneLocal DEF Gone
  <2>4. GoneAfter(cache', queue', synced[d] - 1, d)
    BY <1>1, <2>1, <2>3, StoreParts, GoneInTail
  <2> QED
    BY <1>3, <1>4, <1>8, <2>4 DEF Gone
<1> QED
  BY <1>7, <1>8

LEMMA RejectGone ==
    ASSUME IInv, NEW d \in DocId, Gone(d), Reject, Head(queue) # Deletion(d)
    PROVE  Gone(d)'
<1>1. /\ queue # <<>> /\ queue' = Tail(queue) /\ sent = 0 /\ synced[d] = 0
      /\ server' = server /\ cache' = cache /\ sent' = sent /\ synced' = synced
  BY StoreParts DEF Reject
<1>2. LastTakesAway(queue', d)
  BY <1>1, StoreParts, GoneInTail DEF Gone
<1>3. GoneAfter(server, Tail(queue), 0, d) /\ GoneAfter(cache, Tail(queue), 0, d)
  BY <1>1, StoreParts, GoneWhenDropped DEF Gone
<1> QED
  BY <1>1, <1>2, <1>3 DEF Gone

LEMMA ReconnectGone ==
    ASSUME IInv, NEW d \in DocId, Gone(d), Reconnect
    PROVE  Gone(d)'
<1>1. sent' = 0 /\ synced'[d] = 0 /\ UNCHANGED <<server, cache, queue>>
  BY DEF Reconnect
<1>2. GoneAfter(server, queue, 0, d) /\ GoneAfter(cache, queue, 0, d)
  BY StoreParts DEF Gone, GoneAfter
<1> QED
  BY <1>1, <1>2 DEF Gone

LEMMA SynchroniseGone ==
    ASSUME IInv, NEW d \in DocId, Gone(d), Synchronise
    PROVE  Gone(d)'
<1>1. cache' = server /\ UNCHANGED <<server, queue, sent>>
  BY DEF Synchronise
<1>2. synced'[d] = sent \/ server[d] = NoDoc
  <2>1. PICK silent \in SUBSET {e \in DocId : server[e] = NoDoc /\ cache[e] = NoDoc} :
          synced' = [e \in DocId |-> IF e \in silent THEN synced[e] ELSE sent]
    BY DEF Synchronise
  <2> QED
    BY <2>1
<1>3. CASE synced'[d] = sent
  BY <1>1, <1>3 DEF Gone
<1>4. CASE server[d] = NoDoc
  <2>1. server[d].projectID = Nil
    BY <1>4, FieldNames DEF NoDoc
  <2> QED
    BY <1>1, <2>1 DEF Gone, GoneAfter
<1> QED
  BY <1>2, <1>3, <1>4

\* Another client writes another document, or deletes d as well.
LEMMA RemoteSetGone ==
    ASSUME IInv, NEW d \in DocId, Gone(d), NEW e \in DocId, NEW doc, RemoteSet(e, doc),
           e = d => doc = NoDoc
    PROVE  Gone(d)'
<1>1. UNCHANGED <<cache, queue, sent, synced>>
  BY DEF RemoteSet
<1>2. server'[d] = server[d] \/ server'[d].projectID = Nil
  BY StoreParts, FieldNames DEF RemoteSet, NoDoc
<1>3. GoneAfter(server', queue, sent, d)
  BY <1>2, GoneLocal DEF Gone, GoneAfter
<1> QED
  BY <1>1, <1>3 DEF Gone

LEMMA DeletedStep ==
    ASSUME DInv, StoreStep
    PROVE  DeletedAreGone'
<1> SUFFICES ASSUME NEW d \in deleted' PROVE Gone(d)'
  BY DEF DeletedAreGone
<1>1. IInv /\ deleted \subseteq used /\ used \subseteq DocId
  BY DEF DInv, ScreenUsesKeys, IInv, ScreenOK
<1>2. \A e \in deleted : e \in DocId /\ Gone(e)
  BY <1>1 DEF DInv, DeletedAreGone
<1>3. CASE UNCHANGED <<storeVars, used, deleted>>
  BY <1>2, <1>3 DEF storeVars, Gone
<1>4. ASSUME NEW e \in DocId, e \notin used, Write(Creation(e)), UNCHANGED deleted PROVE Gone(d)'
  <2>1. Creation(e).doc # d /\ Creation(e) \in TaskMutation
    BY <1>1, <1>4, AppMutations DEF Creation
  <2> QED
    BY <1>1, <1>2, <1>4, <2>1, WriteGone
<1>5. ASSUME NEW e \in DocId, NEW c \in BOOLEAN, Write(StatusMutation(e, c)), UNCHANGED deleted
      PROVE  Gone(d)'
  <2>1. StatusMutation(e, c).write.projectID = Keep /\ StatusMutation(e, c) \in TaskMutation
    BY AppMutations DEF StatusMutation, StatusWrite
  <2> QED
    BY <1>1, <1>2, <1>5, <2>1, WriteGone
<1>6. ASSUME NEW i \in 1..Len(tasks), Write(Deletion(tasks[i].taskID)),
             deleted' = deleted \cup {tasks[i].taskID}
      PROVE  Gone(d)'
  <2>1. tasks[i].taskID \in DocId
    <3>1. tasks[i] \in ListedTask
      BY <1>1, ScreenParts DEF IInv
    <3> QED
      BY <3>1 DEF ListedTask
  <2>2. Deletion(tasks[i].taskID) \in TaskMutation /\ Deletion(tasks[i].taskID).doc = tasks[i].taskID
    BY <2>1, AppMutations DEF Deletion
  <2>3. CASE d = tasks[i].taskID
    BY <1>1, <1>6, <2>1, <2>2, <2>3, WriteGone
  <2>4. CASE d # tasks[i].taskID
    BY <1>1, <1>2, <1>6, <2>2, <2>4, WriteGone
  <2> QED
    BY <2>3, <2>4
<1>7. ASSUME UNCHANGED deleted, Deliver \/ Acknowledge \/ Reconnect \/ Synchronise
      PROVE  Gone(d)'
  BY <1>1, <1>2, <1>7, DeliverGone, AcknowledgeGone, ReconnectGone, SynchroniseGone
<1>8. ASSUME Reject, DropRefused PROVE Gone(d)'
  <2>1. d \in deleted /\ (Head(queue).write = NoDoc => d # Head(queue).doc)
    BY <1>8 DEF DropRefused
  <2>2. Head(queue) # Deletion(d)
    BY <2>1 DEF Deletion
  <2> QED
    BY <1>1, <1>2, <1>8, <2>1, <2>2, RejectGone
<1>9. ASSUME NEW e \in DocId, NEW doc, e \notin used \/ doc = NoDoc, RemoteSet(e, doc),
             UNCHANGED deleted
      PROVE  Gone(d)'
  <2>1. d \in deleted /\ (e = d => doc = NoDoc)
    BY <1>1, <1>9
  <2> QED
    BY <1>1, <1>2, <1>9, <2>1, RemoteSetGone
<1> QED
  BY <1>3, <1>4, <1>5, <1>6, <1>7, <1>8, <1>9 DEF StoreStep, QuietStep

LEMMA DeletionInitially == Init => DInv
<1> SUFFICES ASSUME Init PROVE DInv
  OBVIOUS
<1>1. \A d \in DocId : NewTask(d, project).projectID = project /\ NoDoc.projectID = Nil
  BY FieldNames DEF NewTask, NoDoc
<1>2. UsedIn(server, used) /\ UsedIn(cache, used)
  BY <1>1, FieldNames DEF Init, UsedIn
<1>3. queue \in Seq(UsedMutation(used)) /\ ScreenUsesKeys /\ DeletedAreGone
  BY DEF Init, ScreenUsesKeys, DeletedAreGone
<1> QED
  BY <1>2, <1>3, Initially DEF DInv, StoreUsesKeys

LEMMA DeletionInductive == DInv /\ [Next]_vars => DInv'
<1> SUFFICES ASSUME DInv, [Next]_vars PROVE DInv'
  OBVIOUS
<1>1. IInv' /\ StoreStep
  BY Inductive, StoreSteps DEF DInv
<1> QED
  BY <1>1, StoreKeysStep, ScreenKeysStep, DeletedStep DEF DInv

LEMMA DeletionInvariant == Spec => []DInv
BY DeletionInitially, DeletionInductive, PTL DEF Spec

\* Once the user has deleted a task, no later query of this device finds it,
\* whatever taps, restarts, resent writes, refusals of other writes, stale
\* caches and deletions by the portal the deletion is mixed with.
THEOREM DeletedStayDeleted == Spec => []UserDeletesStick
<1>1. DInv => UserDeletesStick
  <2> SUFFICES ASSUME DInv, NEW d \in deleted
               PROVE  ~Listed(LocalView[d]) /\ ~Listed(CachedView[d])
    BY DEF UserDeletesStick
  <2>1. IInv /\ d \in DocId /\ Gone(d)
    BY DEF DInv, IInv, ScreenOK, DeletedAreGone
  <2>2. ASSUME NEW docs, NEW k \in Nat, GoneAfter(docs, queue, k, d)
        PROVE  Overlay(docs, queue)[d].projectID = Nil
    <3>1. CASE \E i \in 1..Len(queue) : Writes(queue, i, d, "projectID")
      <4>1. PICK i \in 1..Len(queue) : LastWriter(queue, i, d, "projectID")
        BY <2>1, <3>1, StoreParts, LastWriterExists, FieldNames
      <4>2. Overlay(docs, queue)[d].projectID = queue[i].write.projectID
        BY <2>1, <4>1, StoreParts, OverlayWritten, FieldNames
      <4> QED
        BY <2>1, <4>1, <4>2 DEF Gone, LastTakesAway
    <3>2. CASE \A i \in 1..Len(queue) : ~Writes(queue, i, d, "projectID")
      <4>1. docs[d].projectID = Nil
        BY <2>2, <3>2 DEF GoneAfter
      <4> QED
        BY <2>1, <3>2, <4>1, StoreParts, OverlayUnwritten, FieldNames
    <3> QED
      BY <3>1, <3>2
  <2>3. LocalView[d].projectID = Nil /\ CachedView[d].projectID = Nil
    BY <2>1, <2>2, StoreParts DEF Gone, LocalView, CachedView
  <2> QED
    BY <2>3, FieldNames DEF Listed
<1> QED
  BY <1>1, DeletionInvariant, PTL

-----------------------------------------------------------------------------
(***************************************************************************)
(* Third part: the tasks on the server implement the ledger of TaskLedger, *)
(* if the server applies a mutation at most once.                          *)
(***************************************************************************)

(***************************************************************************)
(* Creations in a queue.                                                   *)
(***************************************************************************)

\* Behind the first k mutations of q there is a creation of d.
Awaits(q, k, d) == \E i \in 1..Len(q) : i > k /\ q[i] = Creation(d)

CreatedOnce(q, d) ==
    \A i, j \in 1..Len(q) : q[i] = Creation(d) /\ q[j] = Creation(d) => i = j

LEMMA AwaitsAppend ==
    ASSUME NEW q \in Seq(Mutation), NEW m \in Mutation, NEW d \in DocId, NEW k \in 0..Len(q)
    PROVE  /\ Awaits(Append(q, m), k, d) <=> Awaits(q, k, d) \/ m = Creation(d)
           /\ CreatedOnce(q, d) /\ (Awaits(q, 0, d) => m # Creation(d))
                => CreatedOnce(Append(q, m), d)
<1> DEFINE r == Append(q, m)
<1>1. /\ Len(r) = Len(q) + 1 /\ Len(q) \in Nat /\ r[Len(q) + 1] = m
      /\ \A i \in 1..Len(q) : r[i] = q[i]
  OBVIOUS
<1> HIDE DEF r
<1>2. Awaits(r, k, d) <=> Awaits(q, k, d) \/ m = Creation(d)
  BY <1>1 DEF Awaits
<1>3. ASSUME CreatedOnce(q, d), Awaits(q, 0, d) => m # Creation(d) PROVE CreatedOnce(r, d)
  BY <1>1, <1>3 DEF Awaits, CreatedOnce
<1> QED
  BY <1>2, <1>3 DEF r

LEMMA AwaitsNext ==
    ASSUME NEW q \in Seq(Mutation), NEW d \in DocId, NEW k \in 0..(Len(q) - 1)
    PROVE  /\ Awaits(q, k, d) <=> Awaits(q, k + 1, d) \/ q[k + 1] = Creation(d)
           /\ CreatedOnce(q, d) /\ q[k + 1] = Creation(d) => ~Awaits(q, k + 1, d)
BY DEF Awaits, CreatedOnce

LEMMA AwaitsTail ==
    ASSUME NEW q \in Seq(Mutation), q # <<>>, NEW d \in DocId, NEW k \in Nat
    PROVE  /\ Awaits(Tail(q), k, d) <=> Awaits(q, k + 1, d)
           /\ CreatedOnce(q, d) => CreatedOnce(Tail(q), d)
<1>1. PICK r \in Seq(Mutation) :
        r = Tail(q) /\ Len(r) = Len(q) - 1 /\ \A i \in 1..Len(r) : r[i] = q[i + 1]
  <2>1. /\ Tail(q) \in Seq(Mutation) /\ Len(Tail(q)) = Len(q) - 1
        /\ \A i \in 1..Len(Tail(q)) : Tail(q)[i] = q[i + 1]
    OBVIOUS
  <2> QED
    BY <2>1
<1>2. Len(q) \in Nat \ {0}
  OBVIOUS
<1>3. Awaits(r, k, d) => Awaits(q, k + 1, d)
  <2> SUFFICES ASSUME NEW i \in 1..Len(r), i > k, r[i] = Creation(d) PROVE Awaits(q, k + 1, d)
    BY DEF Awaits
  <2>1. i + 1 \in 1..Len(q) /\ i + 1 > k + 1 /\ q[i + 1] = Creation(d)
    BY <1>1, <1>2
  <2> QED
    BY <2>1 DEF Awaits
<1>4. Awaits(q, k + 1, d) => Awaits(r, k, d)
  <2> SUFFICES ASSUME NEW i \in 1..Len(q), i > k + 1, q[i] = Creation(d) PROVE Awaits(r, k, d)
    BY DEF Awaits
  <2>1. i - 1 \in 1..Len(r) /\ i - 1 > k /\ (i - 1) + 1 = i
    BY <1>1, <1>2
  <2> QED
    BY <1>1, <2>1 DEF Awaits
<1>5. CreatedOnce(q, d) => CreatedOnce(r, d)
  <2> SUFFICES ASSUME CreatedOnce(q, d), NEW i \in 1..Len(r), NEW j \in 1..Len(r),
                      r[i] = Creation(d), r[j] = Creation(d)
               PROVE  i = j
    BY DEF CreatedOnce
  <2>1. i + 1 \in 1..Len(q) /\ j + 1 \in 1..Len(q) /\ q[i + 1] = Creation(d) /\ q[j + 1] = Creation(d)
    BY <1>1, <1>2
  <2> QED
    BY <2>1 DEF CreatedOnce
<1> QED
  BY <1>1, <1>3, <1>4, <1>5

-----------------------------------------------------------------------------
(***************************************************************************)
(* The invariant of the refinement.                                        *)
(***************************************************************************)

\* A task is created by one mutation, and is not on the server before it.
CreationOK(d) ==
    /\ CreatedOnce(queue, d)
    /\ Awaits(queue, 0, d) => d \in used
    /\ Awaits(queue, sent, d) => server[d].projectID \notin Project

LInv == DInv /\ \A d \in DocId : CreationOK(d)

\* The status of d in terms of its document, of whether its key is drawn and
\* of whether its creation is still to come.
StatusGiven(doc, drawn, awaited) ==
    IF doc.projectID \in Project THEN doc.taskType
    ELSE IF drawn /\ ~awaited THEN "gone" ELSE "unborn"

LEMMA StatusParts ==
    ASSUME IInv, NEW d \in DocId
    PROVE  StatusOf(d) = StatusGiven(server[d], d \in used, Awaits(queue, sent, d))
<1>1. DOMAIN queue = 1..Len(queue)
  BY StoreParts
<1> QED
  BY <1>1 DEF StatusOf, AwaitsCreation, StatusGiven, Awaits

LEMMA StatusPartsNext ==
    ASSUME IInv', NEW d \in DocId
    PROVE  StatusOf(d)' = StatusGiven(server'[d], d \in used', Awaits(queue', sent', d))
<1>1. queue' \in Seq(Mutation)
  BY DEF IInv, StoreOK, StoreTypeOK
<1>2. DOMAIN queue' = 1..Len(queue')
  BY <1>1
<1> QED
  BY <1>2 DEF StatusOf, AwaitsCreation, StatusGiven, Awaits

\* What belongs to a project has a drawn key and a status.
LEMMA ProjectStatus ==
    ASSUME DInv, NEW d \in DocId, server[d].projectID \in Project
    PROVE  d \in used /\ server[d].taskType \in {"ongoing", "completed"}
BY DEF DInv, StoreUsesKeys, UsedIn, IInv, StoreOK, Complete

LEMMA AwaitedIsUsed ==
    ASSUME DInv, NEW d \in DocId, NEW k \in Nat, Awaits(queue, k, d)
    PROVE  d \in used
<1>1. PICK i \in 1..Len(queue) : queue[i] = Creation(d)
  BY DEF Awaits
<1>2. queue[i] \in UsedMutation(used)
  BY DEF DInv, StoreUsesKeys
<1>3. IsCreation(queue[i]) /\ queue[i].doc = d
  BY <1>1 DEF Creation, IsCreation
<1> QED
  BY <1>2, <1>3 DEF UsedMutation

-----------------------------------------------------------------------------
(***************************************************************************)
(* Creations happen once.                                                  *)
(***************************************************************************)

LEMMA CreationStep ==
    ASSUME LInv, DInv', StoreStep, ~Resend, NEW d \in DocId
    PROVE  CreationOK(d)'
<1>1. /\ IInv /\ DInv /\ CreationOK(d)
      /\ Awaits(queue', 0, d) => d \in used'
  <2>1. Awaits(queue', 0, d) => d \in used'
    <3> SUFFICES ASSUME Awaits(queue', 0, d) PROVE d \in used'
      OBVIOUS
    <3>1. PICK i \in 1..Len(queue') : queue'[i] = Creation(d)
      BY DEF Awaits
    <3>2. queue'[i] \in UsedMutation(used')
      BY DEF DInv, StoreUsesKeys
    <3>3. IsCreation(queue'[i]) /\ queue'[i].doc = d
      BY <3>1 DEF Creation, IsCreation
    <3> QED
      BY <3>2, <3>3 DEF UsedMutation
  <2> QED
    BY <2>1 DEF LInv, DInv
<1>2. /\ server \in [DocId -> Document] /\ queue \in Seq(Mutation) /\ queue \in Seq(TaskMutation)
      /\ Len(queue) \in Nat /\ sent \in 0..Len(queue)
  BY <1>1, StoreParts
<1>3. SUFFICES /\ CreatedOnce(queue', d)
               /\ Awaits(queue', sent', d) => server'[d].projectID \notin Project
  BY <1>1 DEF CreationOK
<1>4. CASE UNCHANGED <<server, queue, sent>>
  BY <1>1, <1>4 DEF CreationOK
<1>5. ASSUME NEW m \in TaskMutation, Write(m),
             m = Creation(d) => d \notin used
      PROVE  CreatedOnce(queue', d) /\ (Awaits(queue', sent', d) => server'[d].projectID \notin Project)
  <2>1. queue' = Append(queue, m) /\ server' = server /\ sent' = sent /\ m \in Mutation
    BY <1>5, MutationKinds DEF Write
  <2>2. m = Creation(d) => ~Awaits(queue, 0, d) /\ server[d].projectID \notin Project
    BY <1>1, <1>5, ProjectStatus DEF CreationOK
  <2> QED
    BY <1>1, <1>2, <2>1, <2>2, AwaitsAppend DEF CreationOK
<1>6. ASSUME NEW e \in DocId, e \notin used, Write(Creation(e))
      PROVE  CreatedOnce(queue', d) /\ (Awaits(queue', sent', d) => server'[d].projectID \notin Project)
  <2>1. Creation(e) = Creation(d) => e = d
    BY DEF Creation
  <2> QED
    BY <1>5, <1>6, <2>1, AppMutations
<1>7. ASSUME NEW e \in DocId, NEW c \in BOOLEAN, Write(StatusMutation(e, c))
      PROVE  CreatedOnce(queue', d) /\ (Awaits(queue', sent', d) => server'[d].projectID \notin Project)
  <2>1. StatusMutation(e, c) # Creation(d)
    BY FieldNames DEF Creation, NewTask, StatusMutation, StatusWrite
  <2> QED
    BY <1>5, <1>7, <2>1, AppMutations
<1>8. ASSUME NEW i \in 1..Len(tasks), Write(Deletion(tasks[i].taskID))
      PROVE  CreatedOnce(queue', d) /\ (Awaits(queue', sent', d) => server'[d].projectID \notin Project)
  <2>1. tasks[i].taskID \in DocId
    <3>1. tasks[i] \in ListedTask
      BY <1>1, ScreenParts DEF IInv
    <3> QED
      BY <3>1 DEF ListedTask
  <2>2. Deletion(tasks[i].taskID) # Creation(d)
    BY FieldNames DEF Creation, NewTask, Deletion, NoDoc
  <2> QED
    BY <1>5, <1>8, <2>1, <2>2, AppMutations
<1>9. CASE Deliver
  <2>1. sent \in 0..(Len(queue) - 1) /\ queue[sent + 1] \in TaskMutation /\ queue[sent + 1] \in Mutation
    BY <1>2, <1>9 DEF Deliver
  <2>2. queue' = queue /\ sent' = sent + 1 /\ server' = Apply(server, queue[sent + 1])
    BY <1>9 DEF Deliver
  <2>3. CreatedOnce(queue', d)
    BY <1>1, <2>2 DEF CreationOK
  <2>4. ASSUME Awaits(queue', sent', d) PROVE server'[d].projectID \notin Project
    <3>1. server[d].projectID \notin Project /\ queue[sent + 1] # Creation(d)
      BY <1>1, <1>2, <2>1, <2>2, <2>4, AwaitsNext DEF CreationOK
    <3>2. queue[sent + 1].doc = d => ~IsCreation(queue[sent + 1])
      <4>1. ASSUME NEW e \in DocId, queue[sent + 1] = Deletion(e) PROVE ~IsCreation(queue[sent + 1])
        BY <4>1, FieldNames DEF Deletion, NoDoc, IsCreation, NewTask
      <4>2. ASSUME NEW e \in DocId, NEW c \in BOOLEAN, queue[sent + 1] = StatusMutation(e, c)
            PROVE  ~IsCreation(queue[sent + 1])
        BY <4>2, FieldNames DEF StatusMutation, StatusWrite, IsCreation, NewTask
      <4>3. ASSUME NEW e \in DocId, queue[sent + 1] = Creation(e) PROVE queue[sent + 1].doc # d
        BY <3>1, <4>3 DEF Creation
      <4> QED
        BY <2>1, <4>1, <4>2, <4>3 DEF TaskMutation
    <3>3. server'[d].projectID =
            IF queue[sent + 1].doc = d /\ queue[sent + 1].write.projectID # Keep
            THEN queue[sent + 1].write.projectID ELSE server[d].projectID
      BY <1>2, <2>1, <2>2, ApplyField, FieldNames
    <3> QED
      BY <2>1, <3>1, <3>2, <3>3, ProjectWriter
  <2> QED
    BY <2>3, <2>4
<1>10. CASE Acknowledge
  <2>1. /\ queue # <<>> /\ queue' = Tail(queue) /\ sent' = sent - 1 /\ server' = server
        /\ sent' \in Nat /\ sent' + 1 = sent
    BY <1>2, <1>10 DEF Acknowledge
  <2> QED
    BY <1>1, <1>2, <2>1, AwaitsTail DEF CreationOK
<1>11. CASE Reject
  <2>1. queue # <<>> /\ queue' = Tail(queue) /\ sent = 0 /\ sent' = 0 /\ server' = server
    BY <1>11 DEF Reject
  <2>2. Awaits(queue, 1, d) => Awaits(queue, 0, d)
    BY DEF Awaits
  <2> QED
    BY <1>1, <1>2, <2>1, <2>2, AwaitsTail DEF CreationOK
<1>12. ASSUME NEW e \in DocId, NEW doc, RemoteSet(e, doc), e \notin used \/ doc = NoDoc
       PROVE  CreatedOnce(queue', d) /\ (Awaits(queue', sent', d) => server'[d].projectID \notin Project)
  <2>1. queue' = queue /\ sent' = sent /\ server' = [server EXCEPT ![e] = doc]
    BY <1>12 DEF RemoteSet
  <2>2. Awaits(queue, sent, d) => d \in used
    BY <1>1, <1>2, AwaitedIsUsed
  <2>3. NoDoc.projectID \notin Project
    BY FieldNames DEF NoDoc
  <2>4. Awaits(queue, sent, d) => server'[d] = server[d] \/ server'[d] = NoDoc
    BY <1>2, <1>12, <2>1, <2>2
  <2> QED
    BY <1>1, <2>1, <2>3, <2>4 DEF CreationOK
<1>13. ~Reconnect
  BY DEF Reconnect
<1> QED
  BY <1>4, <1>6, <1>7, <1>8, <1>9, <1>10, <1>11, <1>12, <1>13 DEF StoreStep, QuietStep, storeVars, Synchronise

-----------------------------------------------------------------------------
(***************************************************************************)
(* Every step is a step of the ledger, or none.                            *)
(***************************************************************************)

StatusStays(d) == StatusOf(d)' = StatusOf(d)

\* The moves of the ledger.
LedgerMove(from, to) ==
    \/ from = "unborn" /\ to = "ongoing"
    \/ from = "ongoing" /\ to = "completed"
    \/ from = "completed" /\ to = "ongoing"
    \/ from \in {"unborn", "ongoing", "completed"} /\ to = "gone"

OneMoves(e) ==
    /\ StatusStays(e) \/ LedgerMove(StatusOf(e), StatusOf(e)')
    /\ \A d \in DocId \ {e} : StatusStays(d)

LEMMA StatusStep ==
    ASSUME LInv, LInv', StoreStep, ~Resend
    PROVE  (\A d \in DocId : StatusStays(d)) \/ \E e \in DocId : OneMoves(e)
<1>1. /\ IInv /\ DInv /\ IInv' /\ DInv'
      /\ \A d \in DocId : CreationOK(d)
  BY DEF LInv, DInv
<1>2. /\ server \in [DocId -> Document] /\ queue \in Seq(Mutation) /\ queue \in Seq(TaskMutation)
      /\ Len(queue) \in Nat /\ sent \in 0..Len(queue)
  BY <1>1, StoreParts
<1>3. ASSUME NEW d \in DocId
      PROVE  /\ StatusOf(d) = StatusGiven(server[d], d \in used, Awaits(queue, sent, d))
             /\ StatusOf(d)' = StatusGiven(server'[d], d \in used', Awaits(queue', sent', d))
  BY <1>1, StatusParts, StatusPartsNext
\* What does not change the status of a task.
<1>4. ASSUME NEW d \in DocId, server'[d] = server[d], d \in used' <=> d \in used,
             Awaits(queue', sent', d) <=> Awaits(queue, sent, d)
      PROVE  StatusStays(d)
  BY <1>3, <1>4 DEF StatusStays, StatusGiven
<1>5. CASE UNCHANGED <<server, queue, sent, used>>
  BY <1>4, <1>5
<1>6. ASSUME NEW m \in TaskMutation, Write(m)
      PROVE  \A d \in DocId : /\ server'[d] = server[d]
                              /\ Awaits(queue', sent', d) <=> Awaits(queue, sent, d) \/ m = Creation(d)
  <2>1. queue' = Append(queue, m) /\ server' = server /\ sent' = sent /\ m \in Mutation
    BY <1>6, MutationKinds DEF Write
  <2> QED
    BY <1>2, <2>1, AwaitsAppend
<1>7. ASSUME NEW e \in DocId, e \notin used, used' = used \cup {e}, Write(Creation(e))
      PROVE  \A d \in DocId : StatusStays(d)
  <2> TAKE d \in DocId
  <2>1. server'[d] = server[d] /\ (Awaits(queue', sent', d) <=> Awaits(queue, sent, d) \/ Creation(e) = Creation(d))
    BY <1>6, <1>7, AppMutations
  <2>2. CASE d = e
    <3>1. Awaits(queue', sent', d) /\ server[d].projectID \notin Project
      BY <1>1, <1>7, <2>1, <2>2, ProjectStatus
    <3> QED
      BY <1>3, <1>7, <2>1, <2>2, <3>1 DEF StatusStays, StatusGiven
  <2>3. CASE d # e
    <3>1. Creation(e) # Creation(d)
      BY <2>3 DEF Creation
    <3> QED
      BY <1>4, <1>7, <2>1, <2>3, <3>1
  <2> QED
    BY <2>2, <2>3
<1>8. ASSUME NEW e \in DocId, NEW c \in BOOLEAN, Write(StatusMutation(e, c)), UNCHANGED used
      PROVE  \A d \in DocId : StatusStays(d)
  <2> TAKE d \in DocId
  <2>1. StatusMutation(e, c) # Creation(d)
    BY FieldNames DEF Creation, NewTask, StatusMutation, StatusWrite
  <2> QED
    BY <1>4, <1>6, <1>8, <2>1, AppMutations
<1>9. ASSUME NEW i \in 1..Len(tasks), Write(Deletion(tasks[i].taskID)), UNCHANGED used
      PROVE  \A d \in DocId : StatusStays(d)
  <2> TAKE d \in DocId
  <2>1. tasks[i].taskID \in DocId
    <3>1. tasks[i] \in ListedTask
      BY <1>1, ScreenParts DEF IInv
    <3> QED
      BY <3>1 DEF ListedTask
  <2>2. Deletion(tasks[i].taskID) # Creation(d)
    BY FieldNames DEF Creation, NewTask, Deletion, NoDoc
  <2> QED
    BY <1>4, <1>6, <1>9, <2>1, <2>2, AppMutations
<1>10. ASSUME Deliver, UNCHANGED used
       PROVE  \E e \in DocId : OneMoves(e)
  <2>1. sent \in 0..(Len(queue) - 1) /\ queue[sent + 1] \in TaskMutation
    BY <1>2, <1>10 DEF Deliver
  <2>2. PICK m \in TaskMutation : m = queue[sent + 1]
    BY <2>1
  <2>3. m \in Mutation
    BY MutationKinds
  <2>4. PICK e \in DocId : e = m.doc
    BY <2>3 DEF Mutation
  <2>5. /\ sent \in 0..(Len(queue) - 1) /\ m \in TaskMutation /\ m \in Mutation /\ e \in DocId
        /\ m = queue[sent + 1] /\ e = m.doc
    BY <2>1, <2>2, <2>3, <2>4
  <2>6. queue' = queue /\ sent' = sent + 1 /\ server' = Apply(server, m)
    BY <1>10, <2>5 DEF Deliver
  <2>7. \A d \in DocId : Awaits(queue, sent, d) <=> Awaits(queue', sent', d) \/ m = Creation(d)
    BY <1>2, <2>5, <2>6, AwaitsNext
  <2>8. ASSUME NEW d \in DocId \ {e} PROVE StatusStays(d)
    <3>1. server'[d] = server[d]
      BY <1>2, <2>5, <2>6, <2>8 DEF Apply
    <3>2. m # Creation(d)
      BY <2>5, <2>8 DEF Creation
    <3> QED
      BY <1>4, <1>10, <2>7, <3>1, <3>2
  <2>9. \A f \in Field : server'[e][f] = IF m.write[f] # Keep THEN m.write[f] ELSE server[e][f]
    BY <1>2, <2>5, <2>6, ApplyField
  <2>10. CASE m = Creation(e)
    <3>1. server'[e].projectID \in Project /\ server'[e].taskType = "ongoing"
      BY <2>9, <2>10, FieldNames DEF Creation, NewTask
    <3>2. Awaits(queue, sent, e) /\ server[e].projectID \notin Project
      BY <1>1, <2>5, <2>7, <2>10 DEF CreationOK
    <3>3. StatusOf(e) = "unborn" /\ StatusOf(e)' = "ongoing"
      BY <1>3, <2>5, <3>1, <3>2 DEF StatusGiven
    <3> QED
      BY <2>8, <3>3 DEF LedgerMove, OneMoves
  <2>11. CASE m = Deletion(e)
    <3>1. server'[e].projectID \notin Project
      BY <2>9, <2>11, FieldNames DEF Deletion, NoDoc
    <3>2. Awaits(queue', sent', e) <=> Awaits(queue, sent, e)
      <4>1. Deletion(e) # Creation(e)
        BY FieldNames DEF Deletion, NoDoc, Creation, NewTask
      <4> QED
        BY <2>7, <2>11, <4>1
    <3>3. CASE server[e].projectID \in Project
      <4>1. ~Awaits(queue, sent, e) /\ e \in used /\ server[e].taskType \in {"ongoing", "completed"}
        BY <1>1, <2>5, <3>3, ProjectStatus DEF CreationOK
      <4>2. StatusOf(e) \in {"ongoing", "completed"} /\ StatusOf(e)' = "gone"
        BY <1>3, <1>10, <2>5, <3>1, <3>2, <3>3, <4>1 DEF StatusGiven
      <4> QED
        BY <2>8, <4>2 DEF LedgerMove, OneMoves
    <3>4. CASE server[e].projectID \notin Project
      <4>1. StatusStays(e)
        BY <1>3, <1>10, <2>5, <3>1, <3>2, <3>4 DEF StatusGiven, StatusStays
      <4> QED
        BY <2>8, <4>1 DEF OneMoves
    <3> QED
      BY <3>3, <3>4
  <2>12. ASSUME NEW c \in BOOLEAN, m = StatusMutation(e, c) PROVE OneMoves(e)
    <3>1. /\ server'[e].projectID = server[e].projectID
          /\ server'[e].taskType \in {"ongoing", "completed"}
      BY <2>9, <2>12, FieldNames DEF StatusMutation, StatusWrite
    <3>2. Awaits(queue', sent', e) <=> Awaits(queue, sent, e)
      <4>1. StatusMutation(e, c) # Creation(e)
        BY FieldNames DEF StatusMutation, StatusWrite, Creation, NewTask
      <4> QED
        BY <2>7, <2>12, <4>1
    <3>3. CASE server[e].projectID \in Project
      <4>1. server[e].taskType \in {"ongoing", "completed"}
        BY <1>1, <2>5, <3>3, ProjectStatus
      <4>2. StatusOf(e) = server[e].taskType /\ StatusOf(e)' = server'[e].taskType
        BY <1>3, <2>5, <3>1, <3>3 DEF StatusGiven
      <4> QED
        BY <2>8, <3>1, <4>1, <4>2 DEF LedgerMove, OneMoves, StatusStays
    <3>4. CASE server[e].projectID \notin Project
      <4>1. StatusStays(e)
        BY <1>3, <1>10, <2>5, <3>1, <3>2, <3>4 DEF StatusGiven, StatusStays
      <4> QED
        BY <2>8, <4>1 DEF OneMoves
    <3> QED
      BY <3>3, <3>4
  <2>13. m = Deletion(e) \/ m = Creation(e) \/ \E c \in BOOLEAN : m = StatusMutation(e, c)
    <3>1. ASSUME NEW d \in DocId, m = Deletion(d) PROVE d = e
      BY <2>5, <3>1 DEF Deletion
    <3>2. ASSUME NEW d \in DocId, m = Creation(d) PROVE d = e
      BY <2>5, <3>2 DEF Creation
    <3>3. ASSUME NEW d \in DocId, NEW c \in BOOLEAN, m = StatusMutation(d, c) PROVE d = e
      BY <2>5, <3>3 DEF StatusMutation
    <3> QED
      BY <2>5, <3>1, <3>2, <3>3 DEF TaskMutation
  <2> QED
    BY <2>10, <2>11, <2>12, <2>13
<1>11. ASSUME Acknowledge, UNCHANGED used PROVE \A d \in DocId : StatusStays(d)
  <2>1. /\ queue # <<>> /\ queue' = Tail(queue) /\ sent' = sent - 1 /\ server' = server
        /\ sent' \in Nat /\ sent' + 1 = sent
    BY <1>2, <1>11 DEF Acknowledge
  <2>2. \A d \in DocId : Awaits(queue', sent', d) <=> Awaits(queue, sent, d)
    BY <1>2, <2>1, AwaitsTail
  <2> QED
    BY <1>4, <1>11, <2>1, <2>2
<1>12. ASSUME Reject, UNCHANGED used
       PROVE  \E e \in DocId : OneMoves(e)
  <2>1. /\ queue # <<>> /\ queue' = Tail(queue) /\ sent = 0 /\ sent' = 0 /\ server' = server
        /\ Head(queue) = queue[1] /\ queue[1] \in Mutation /\ 0 \in 0..(Len(queue) - 1)
    BY <1>2, <1>12 DEF Reject
  <2>2. PICK e \in DocId : e = queue[1].doc
    BY <2>1 DEF Mutation
  <2>3. \A d \in DocId : /\ Awaits(queue', sent', d) <=> Awaits(queue, 1, d)
                         /\ Awaits(queue, sent, d) <=> Awaits(queue, 1, d) \/ queue[1] = Creation(d)
    BY <1>2, <2>1, AwaitsTail, AwaitsNext
  <2>4. ASSUME NEW d \in DocId, queue[1] # Creation(d) PROVE StatusStays(d)
    BY <1>4, <1>12, <2>1, <2>3, <2>4
  <2>5. ASSUME NEW d \in DocId \ {e} PROVE StatusStays(d)
    <3>1. queue[1] # Creation(d)
      BY <2>2, <2>5 DEF Creation
    <3> QED
      BY <2>4, <3>1
  <2>6. CASE queue[1] = Creation(e)
    <3>1. ~Awaits(queue, 1, e) /\ Awaits(queue, sent, e)
      BY <1>1, <1>2, <2>1, <2>2, <2>3, <2>6, AwaitsNext DEF CreationOK
    <3>2. server[e].projectID \notin Project /\ e \in used
      BY <1>1, <1>2, <2>2, <3>1, AwaitedIsUsed DEF CreationOK
    <3>3. StatusOf(e) = "unborn" /\ StatusOf(e)' = "gone"
      BY <1>3, <1>12, <2>1, <2>2, <2>3, <3>1, <3>2 DEF StatusGiven
    <3> QED
      BY <2>2, <2>5, <3>3 DEF LedgerMove, OneMoves
  <2>7. CASE queue[1] # Creation(e)
    BY <2>2, <2>4, <2>5, <2>7 DEF OneMoves
  <2> QED
    BY <2>2, <2>6, <2>7
<1>13. ASSUME NEW e \in DocId, NEW p \in Project, e \notin used, used' = used \cup {e},
              RemoteSet(e, NewTask(e, p))
       PROVE  OneMoves(e)
  <2>1. queue' = queue /\ sent' = sent /\ server' = [server EXCEPT ![e] = NewTask(e, p)]
    BY <1>13 DEF RemoteSet
  <2>2. \A d \in DocId \ {e} : StatusStays(d)
    BY <1>2, <1>4, <1>13, <2>1
  <2>3. server[e].projectID \notin Project
    BY <1>1, <1>13, ProjectStatus
  <2>4. server'[e].projectID \in Project /\ server'[e].taskType = "ongoing"
    BY <1>2, <2>1 DEF NewTask
  <2>5. StatusOf(e) = "unborn" /\ StatusOf(e)' = "ongoing"
    BY <1>3, <1>13, <2>3, <2>4 DEF StatusGiven
  <2> QED
    BY <2>2, <2>5 DEF LedgerMove, OneMoves
<1>14. ASSUME NEW e \in DocId, RemoteSet(e, NoDoc), UNCHANGED used PROVE OneMoves(e)
  <2>1. queue' = queue /\ sent' = sent /\ server' = [server EXCEPT ![e] = NoDoc]
    BY <1>14 DEF RemoteSet
  <2>2. \A d \in DocId \ {e} : StatusStays(d)
    BY <1>2, <1>4, <1>14, <2>1
  <2>3. server'[e].projectID \notin Project
    BY <1>2, <2>1, FieldNames DEF NoDoc
  <2>4. CASE server[e].projectID \in Project
    <3>1. ~Awaits(queue, sent, e) /\ e \in used /\ server[e].taskType \in {"ongoing", "completed"}
      BY <1>1, <2>4, ProjectStatus DEF CreationOK
    <3>2. StatusOf(e) \in {"ongoing", "completed"} /\ StatusOf(e)' = "gone"
      BY <1>3, <1>14, <2>1, <2>3, <2>4, <3>1 DEF StatusGiven
    <3> QED
      BY <2>2, <3>2 DEF LedgerMove, OneMoves
  <2>5. CASE server[e].projectID \notin Project
    <3>1. StatusStays(e)
      BY <1>3, <1>14, <2>1, <2>3, <2>5 DEF StatusGiven, StatusStays
    <3> QED
      BY <2>2, <3>1 DEF OneMoves
  <2> QED
    BY <2>4, <2>5
<1>15. ~Reconnect
  BY DEF Reconnect
<1> QED
  BY <1>5, <1>7, <1>8, <1>9, <1>10, <1>11, <1>12, <1>13, <1>14, <1>15
  DEF StoreStep, QuietStep, storeVars, Synchronise

-----------------------------------------------------------------------------
(***************************************************************************)
(* The refinement.                                                         *)
(***************************************************************************)

LEMMA LedgerInvariant == ASSUME ~Resend PROVE Spec => []LInv
<1>1. Init => DInv
  BY DeletionInitially
<1>2. Init => LInv
  BY <1>1 DEF Init, LInv, CreationOK, CreatedOnce, Awaits
<1>3. LInv /\ [Next]_vars => LInv'
  <2> SUFFICES ASSUME LInv, [Next]_vars PROVE LInv'
    OBVIOUS
  <2>1. DInv' /\ StoreStep
    BY DeletionInductive, StoreSteps DEF LInv, DInv
  <2> QED
    BY <2>1, CreationStep DEF LInv
<1> QED
  BY <1>2, <1>3, PTL DEF Spec

\* Unless the server applies a mutation twice, a task appears once, as
\* "ongoing", is ticked and unticked, and never comes back once it is deleted
\* or refused, whoever touches it.
THEOREM LedgerFollowed == ASSUME ~Resend PROVE Spec => ServerFollowsLedger
<1>1. Init => Ledger!LedgerInit
  <2> SUFFICES ASSUME Init PROVE Ledger!LedgerInit
    OBVIOUS
  <2>1. IInv
    BY Initially
  <2>2. ASSUME NEW d \in DocId PROVE StatusOf(d) \in {"unborn", "ongoing"}
    <3>1. StatusOf(d) = StatusGiven(server[d], d \in used, Awaits(queue, sent, d))
      BY <2>1, StatusParts
    <3>2. server[d] = IF d \in Existing THEN NewTask(d, project) ELSE NoDoc
      BY DEF Init
    <3> QED
      BY <3>1, <3>2, FieldNames DEF Init, StatusGiven, NewTask, NoDoc
  <2> QED
    BY <2>2 DEF Ledger!LedgerInit
<1>2. LInv /\ LInv' /\ [Next]_vars =>
        [Ledger!LedgerNext]_[d \in DocId |-> StatusOf(d)]
  <2> SUFFICES ASSUME LInv, LInv', [Next]_vars
               PROVE  [Ledger!LedgerNext]_[d \in DocId |-> StatusOf(d)]
    OBVIOUS
  <2>1. StoreStep
    BY StoreSteps DEF LInv, DInv
  <2>2. CASE \A d \in DocId : StatusStays(d)
    BY <2>2 DEF StatusStays
  <2>3. ASSUME NEW e \in DocId, OneMoves(e)
        PROVE  [Ledger!LedgerNext]_[d \in DocId |-> StatusOf(d)]
    <3>1. CASE StatusStays(e)
      BY <2>3, <3>1 DEF OneMoves, StatusStays
    <3>2. CASE LedgerMove(StatusOf(e), StatusOf(e)')
      <4>1. [d \in DocId |-> StatusOf(d)'] =
              [[d \in DocId |-> StatusOf(d)] EXCEPT ![e] = StatusOf(e)']
        BY <2>3 DEF OneMoves, StatusStays
      <4> QED
        BY <3>2, <4>1
        DEF LedgerMove, Ledger!LedgerNext, Ledger!Appear, Ledger!Complete, Ledger!Reopen,
            Ledger!Vanish, Ledger!Move, Ledger!Status
    <3> QED
      BY <2>3, <3>1, <3>2 DEF OneMoves
  <2> QED
    BY <2>1, <2>2, <2>3, StatusStep
<1> QED
  BY <1>1, <1>2, LedgerInvariant, PTL DEF Spec, ServerFollowsLedger, Ledger!LedgerSpec

-----------------------------------------------------------------------------
(***************************************************************************)
(* Fourth part: what the delivered mutations have written is what the      *)
(* documents hold, and a task whose creation the user hears of is found.   *)
(***************************************************************************)

(***************************************************************************)
(* Delivered mutations and documents.                                      *)
(***************************************************************************)

\* Everything the queue names has been drawn.
QueueUsesKeys == \A i \in 1..Len(queue) : queue[i].doc \in used

\* A listed task holds what the mutations delivered so far have written last,
\* unless someone else has taken it away, which unlists it for good.
TaskHolds(d) ==
    /\ Listed(server[d]) => /\ Holds(server, queue, sent, d, "projectID")
                            /\ Holds(server, queue, sent, d, "taskType")
    /\ Listed(cache[d]) => Holds(cache, queue, synced[d], d, "taskType")

StoreHolds == \A d \in DocId : TaskHolds(d)

HInv == DInv /\ QueueUsesKeys /\ StoreHolds

LEMMA TaskFields == "projectID" \in Field /\ "taskType" \in Field
BY FieldNames

\* What the invariants give the lemmas below.
LEMMA HeldParts ==
    ASSUME HInv
    PROVE  IInv /\ DInv /\ QueueUsesKeys /\ StoreHolds /\ used \subseteq DocId
BY DEF HInv, DInv, IInv, ScreenOK

\* Only the creation of d lists d, and a mutation that writes the project of
\* a task writes its status too.
LEMMA Lister ==
    ASSUME NEW m \in TaskMutation
    PROVE  /\ m \in Mutation
           /\ m.write.projectID = project => m = Creation(m.doc)
           /\ m.write.projectID # Keep => m.write.taskType # Keep
           /\ m.write.taskType # Keep
<1>1. CASE \E d \in DocId : m = Deletion(d)
  BY <1>1, MutationKinds, FieldNames DEF Deletion, NoDoc
<1>2. CASE \E d \in DocId : m = Creation(d)
  BY <1>2, MutationKinds, FieldNames DEF Creation, NewTask
<1>3. CASE \E d \in DocId, c \in BOOLEAN : m = StatusMutation(d, c)
  BY <1>3, MutationKinds, FieldNames DEF StatusMutation, StatusWrite
<1> QED
  BY <1>1, <1>2, <1>3 DEF TaskMutation

\* The step that acknowledges, as one document sees it.
LEMMA AcknowledgedTask ==
    ASSUME IInv, Acknowledge, NEW d \in DocId
    PROVE  /\ queue # <<>> /\ queue' = Tail(queue) /\ server' = server /\ sent' = sent - 1
           /\ sent \in 1..Len(queue) /\ Head(queue) = queue[1]
           /\ queue[1] \in TaskMutation /\ 1 \in 1..Len(queue)
           /\ synced'[d] = IF synced[d] = 0 THEN 0 ELSE synced[d] - 1
           /\ synced[d] # 0 \/ queue[1].doc # d => cache'[d] = cache[d]
           /\ synced[d] = 0 /\ queue[1].doc = d => cache'[d] = Merge(cache[d], queue[1].write)
<1>1. /\ queue # <<>> /\ queue' = Tail(queue) /\ server' = server /\ sent' = sent - 1
      /\ sent \in 1..Len(queue)
  BY StoreParts DEF Acknowledge
<1>2. 1 \in 1..Len(queue)
  BY <1>1, StoreParts
<1>3. queue[1] \in TaskMutation /\ Head(queue) = queue[1]
  BY <1>1, <1>2, StoreParts
<1>4. queue[1].doc \in DocId
  BY <1>3, MutationKinds DEF Mutation
<1>5. cache' = IF synced[queue[1].doc] = 0 THEN Apply(cache, queue[1]) ELSE cache
  BY <1>3 DEF Acknowledge, AcknowledgeCache
<1>6. Apply(cache, queue[1])[d] = IF queue[1].doc = d THEN Merge(cache[d], queue[1].write) ELSE cache[d]
  BY <1>4, StoreParts DEF Apply
<1>7. synced'[d] = IF synced[d] = 0 THEN 0 ELSE synced[d] - 1
  BY DEF Acknowledge, AcknowledgeCache, OneLessSynced
<1> QED
  BY <1>1, <1>2, <1>3, <1>5, <1>6, <1>7

LEMMA QueueKeysStep ==
    ASSUME HInv, StoreStep
    PROVE  QueueUsesKeys'
<1>1. /\ IInv /\ QueueUsesKeys /\ used \subseteq used'
      /\ queue \in Seq(Mutation) /\ Len(queue) \in Nat
  BY HeldParts, UsedGrows, StoreParts
<1>2. ASSUME NEW m \in Mutation, m.doc \in used', Write(m) PROVE QueueUsesKeys'
  <2>1. /\ queue' = Append(queue, m) /\ Len(queue') = Len(queue) + 1
        /\ queue'[Len(queue) + 1] = m /\ \A i \in 1..Len(queue) : queue'[i] = queue[i]
    BY <1>1, <1>2 DEF Write
  <2>2. \A i \in 1..Len(queue') : i \in 1..Len(queue) \/ i = Len(queue) + 1
    BY <1>1, <2>1
  <2> QED
    BY <1>1, <1>2, <2>1, <2>2 DEF QueueUsesKeys
<1>3. ASSUME queue # <<>>, queue' = Tail(queue) PROVE QueueUsesKeys'
  <2>1. \A i \in 1..Len(Tail(queue)) : i + 1 \in 1..Len(queue) /\ Tail(queue)[i] = queue[i + 1]
    BY <1>1, <1>3, TailOf
  <2> QED
    BY <1>1, <1>3, <2>1 DEF QueueUsesKeys
<1>4. CASE UNCHANGED queue
  BY <1>1, <1>4 DEF QueueUsesKeys
<1>5. ASSUME NEW d \in DocId, used' = used \cup {d}, Write(Creation(d)) PROVE QueueUsesKeys'
  BY <1>2, <1>5, AppMutations, Lister DEF Creation
<1>6. ASSUME NEW d \in DocId, NEW c \in BOOLEAN, d \in used, Write(StatusMutation(d, c))
      PROVE  QueueUsesKeys'
  BY <1>1, <1>2, <1>6, AppMutations, Lister DEF StatusMutation
<1>7. ASSUME NEW i \in 1..Len(tasks), Write(Deletion(tasks[i].taskID)) PROVE QueueUsesKeys'
  <2>1. tasks[i] \in UsedTask(used)
    BY HeldParts DEF DInv, ScreenUsesKeys
  <2>2. tasks[i].taskID \in DocId /\ tasks[i].taskID \in used
    BY <2>1 DEF UsedTask, ListedTask
  <2> QED
    BY <1>1, <1>2, <1>7, <2>2, AppMutations, Lister DEF Deletion
<1>8. CASE Acknowledge \/ Reject
  BY <1>1, <1>3, <1>8, AcknowledgedTask, StoreParts DEF Acknowledge, Reject
<1> QED
  BY <1>4, <1>5, <1>6, <1>7, <1>8
  DEF StoreStep, QuietStep, storeVars, Deliver, Reconnect, Synchronise, RemoteSet

\* Deliveries and acknowledgements.
LEMMA DeliverHolds ==
    ASSUME IInv, Deliver, NEW d \in DocId, TaskHolds(d)
    PROVE  TaskHolds(d)'
<1>1. /\ sent \in 0..(Len(queue) - 1) /\ sent + 1 \in 1..Len(queue)
      /\ UNCHANGED <<cache, queue, synced>> /\ sent' = sent + 1
      /\ server' = Apply(server, queue[sent + 1])
  BY StoreParts DEF Deliver
<1>2. queue[sent + 1] \in TaskMutation /\ queue[sent + 1] \in Mutation
  BY <1>1, StoreParts, MutationKinds
<1>3. server'[d].projectID =
        IF Writes(queue, sent + 1, d, "projectID") THEN queue[sent + 1].write.projectID
        ELSE server[d].projectID
  BY <1>1, <1>2, StoreParts, ApplyField, TaskFields DEF Writes
<1>4. Writes(queue, sent + 1, d, "projectID") => Writes(queue, sent + 1, d, "taskType")
  BY <1>2, Lister DEF Writes
<1>5. ASSUME Listed(server'[d]), NEW f \in {"projectID", "taskType"}
      PROVE  Holds(server', queue', sent', d, f)
  <2>1. Writes(queue, sent + 1, d, "projectID") \/ Listed(server[d])
    BY <1>3, <1>5 DEF Listed
  <2>2. Writes(queue, sent + 1, d, f) \/ Holds(server, queue, sent, d, f)
    BY <1>4, <1>5, <2>1 DEF TaskHolds
  <2> QED
    BY <1>1, <2>2, StoreParts, TaskFields, HoldsApply
<1> QED
  BY <1>1, <1>5 DEF TaskHolds

LEMMA AcknowledgeHolds ==
    ASSUME IInv, Acknowledge, NEW d \in DocId, TaskHolds(d)
    PROVE  TaskHolds(d)'
<1>1. /\ queue # <<>> /\ queue' = Tail(queue) /\ server' = server /\ sent' = sent - 1
      /\ sent \in 1..Len(queue)
      /\ synced'[d] = IF synced[d] = 0 THEN 0 ELSE synced[d] - 1
      /\ synced[d] # 0 => cache'[d] = cache[d]
  BY AcknowledgedTask
<1>2. /\ sent - 1 \in Nat /\ (sent - 1) + 1 = sent /\ queue \in Seq(Mutation)
      /\ synced[d] \in 0..Len(queue)
  BY <1>1, StoreParts
<1>3. ASSUME Listed(server'[d]), NEW f \in {"projectID", "taskType"}
      PROVE  Holds(server', queue', sent', d, f)
  <2>1. Holds(server, queue, sent, d, f)
    BY <1>1, <1>3 DEF TaskHolds
  <2> QED
    BY <1>1, <1>2, <2>1, HoldsTail
<1>4. ASSUME Listed(cache'[d]) PROVE Holds(cache', queue', synced'[d], d, "taskType")
  <2>1. CASE synced[d] = 0
    BY <1>1, <1>2, <2>1, HoldsNone, TailOf
  <2>2. CASE synced[d] # 0
    <3>1. synced[d] - 1 \in Nat /\ (synced[d] - 1) + 1 = synced[d]
      BY <1>2, <2>2
    <3>2. Holds(cache, queue, synced[d], d, "taskType")
      BY <1>1, <1>4, <2>2 DEF TaskHolds
    <3>3. Holds(cache, queue', synced'[d], d, "taskType")
      BY <1>1, <1>2, <2>2, <3>1, <3>2, HoldsTail
    <3> QED
      BY <1>1, <2>2, <3>3, HoldsLocal
  <2> QED
    BY <2>1, <2>2
<1> QED
  BY <1>3, <1>4 DEF TaskHolds

LEMMA StoreHoldsStep ==
    ASSUME HInv, StoreStep
    PROVE  StoreHolds'
<1> SUFFICES ASSUME NEW d \in DocId PROVE TaskHolds(d)'
  BY DEF StoreHolds
<1>1. IInv /\ TaskHolds(d) /\ QueueUsesKeys
  BY HeldParts DEF StoreHolds
<1>2. /\ queue \in Seq(Mutation) /\ sent \in 0..Len(queue) /\ synced[d] \in 0..sent
      /\ synced[d] \in 0..Len(queue) /\ server \in [DocId -> Document]
      /\ Len(queue) \in Nat
  BY <1>1, StoreParts
<1>3. ASSUME NEW m \in TaskMutation, Write(m) PROVE TaskHolds(d)'
  <2>1. /\ queue' = Append(queue, m) /\ UNCHANGED <<server, cache, sent, synced>> /\ m \in Mutation
    BY <1>3, MutationKinds DEF Write
  <2>2. \A f : Holds(server, queue, sent, d, f) => Holds(server, queue', sent, d, f)
    BY <1>2, <2>1, HoldsAppend
  <2>3. Holds(cache, queue, synced[d], d, "taskType") => Holds(cache, queue', synced[d], d, "taskType")
    BY <1>2, <2>1, HoldsAppend
  <2> QED
    BY <1>1, <2>1, <2>2, <2>3 DEF TaskHolds
<1>4. CASE UNCHANGED storeVars
  BY <1>1, <1>4 DEF storeVars, TaskHolds
<1>5. ASSUME NEW e \in DocId, Write(Creation(e)) PROVE TaskHolds(d)'
  BY <1>3, <1>5, AppMutations
<1>6. ASSUME NEW e \in DocId, NEW c \in BOOLEAN, Write(StatusMutation(e, c)) PROVE TaskHolds(d)'
  BY <1>3, <1>6, AppMutations
<1>7. ASSUME NEW i \in 1..Len(tasks), Write(Deletion(tasks[i].taskID)) PROVE TaskHolds(d)'
  <2>1. tasks[i] \in ListedTask
    BY <1>1, ScreenParts DEF IInv
  <2>2. tasks[i].taskID \in DocId
    BY <2>1 DEF ListedTask
  <2> QED
    BY <1>3, <1>7, <2>2, AppMutations
<1>8. CASE Reject
  <2>1. /\ queue # <<>> /\ queue' = Tail(queue) /\ sent' = 0 /\ synced'[d] = 0
        /\ Tail(queue) \in Seq(Mutation)
    BY <1>2, <1>8 DEF Reject
  <2> QED
    BY <2>1, HoldsNone DEF TaskHolds
<1>9. CASE Reconnect
  <2>1. UNCHANGED <<server, cache, queue>> /\ sent' = 0 /\ synced'[d] = 0
    BY <1>9 DEF Reconnect
  <2> QED
    BY <1>2, <2>1, HoldsNone DEF TaskHolds
<1>10. CASE Synchronise
  <2>1. /\ cache' = server /\ UNCHANGED <<server, queue, sent>>
        /\ synced'[d] = sent \/ server[d] = NoDoc
    BY <1>10 DEF Synchronise
  <2> QED
    BY <1>1, <2>1, NoDocType DEF TaskHolds
<1>11. ASSUME NEW e \in DocId, NEW doc, RemoteSet(e, doc), e \notin used \/ doc = NoDoc
       PROVE  TaskHolds(d)'
  <2>1. UNCHANGED <<cache, queue, sent, synced>> /\ server' = [server EXCEPT ![e] = doc]
    BY <1>11 DEF RemoteSet
  <2>2. CASE d # e
    <3>1. server'[d] = server[d]
      BY <1>2, <2>1, <2>2
    <3> QED
      BY <1>1, <2>1, <3>1, HoldsLocal DEF TaskHolds
  <2>3. CASE d = e /\ doc = NoDoc
    <3>1. ~Listed(server'[d])
      BY <1>2, <2>1, <2>3, NoDocType
    <3> QED
      BY <1>1, <2>1, <3>1 DEF TaskHolds
  <2>4. CASE d \notin used
    <3>1. \A i \in 1..Len(queue) : queue[i].doc # d
      BY <1>1, <2>4 DEF QueueUsesKeys
    <3>2. \A docs, k, f : Holds(docs, queue, k, d, f)
      BY <3>1 DEF Holds, LastOfFirst, Writes
    <3> QED
      BY <2>1, <3>2 DEF TaskHolds
  <2> QED
    BY <1>11, <2>2, <2>3, <2>4
<1> QED
  BY <1>1, <1>4, <1>5, <1>6, <1>7, <1>8, <1>9, <1>10, <1>11, DeliverHolds, AcknowledgeHolds
  DEF StoreStep, QuietStep, storeVars

LEMMA HeldInitially == Init => HInv
<1> SUFFICES ASSUME Init PROVE HInv
  OBVIOUS
<1>1. DInv /\ queue = <<>>
  BY DeletionInitially DEF Init
<1>2. \A docs, k, d, f : Holds(docs, <<>>, k, d, f)
  BY DEF Holds
<1> QED
  BY <1>1, <1>2 DEF HInv, QueueUsesKeys, StoreHolds, TaskHolds

LEMMA HeldInductive == HInv /\ [Next]_vars => HInv'
<1> SUFFICES ASSUME HInv, [Next]_vars PROVE HInv'
  OBVIOUS
<1>1. DInv' /\ StoreStep
  BY HeldParts, DeletionInductive, StoreSteps DEF DInv
<1> QED
  BY <1>1, QueueKeysStep, StoreHoldsStep DEF HInv

-----------------------------------------------------------------------------
(***************************************************************************)
(* Creations that the user hears of.                                       *)
(***************************************************************************)

\* What the server has of d, the cache has too.
Follows(d) == Listed(server[d]) => Listed(cache[d])

\* The cached document is as new as the delivered creation of d.
SyncedCreation(d) == \E i \in 1..Len(queue) : i <= synced[d] /\ queue[i] = Creation(d)

\* The news that d is created is on its way.
Told(d) == \E k \in DOMAIN mainq : mainq[k].kind = "created" /\ mainq[k].ok /\ mainq[k].doc = d

CreationFollowed(d) ==
    /\ CreatedOnce(queue, d)
    /\ SyncedCreation(d) => Follows(d)
    /\ Told(d) => Follows(d) /\ ~Awaits(queue, 0, d) /\ d \in used

CInv == HInv /\ \A d \in DocId : CreationFollowed(d)

\* The news of a creation is put on its way by an acknowledgement of it.
LEMMA ToldStep ==
    ASSUME IInv, [Next]_vars, NEW d \in DocId, Told(d)'
    PROVE  \/ Told(d)
           \/ WriteAcknowledged /\ Head(queue) = Creation(d)
<1>1. mainq \in Seq(ListCallback)
  BY ScreenParts DEF IInv
<1>2. ASSUME NEW c, mainq' = Append(mainq, c)
      PROVE  Told(d) \/ (c.kind = "created" /\ c.ok /\ c.doc = d)
  <2>1. PICK k \in DOMAIN mainq' : mainq'[k].kind = "created" /\ mainq'[k].ok /\ mainq'[k].doc = d
    BY DEF Told
  <2>2. /\ DOMAIN mainq' = 1..(Len(mainq) + 1) /\ DOMAIN mainq = 1..Len(mainq) /\ Len(mainq) \in Nat
        /\ mainq'[Len(mainq) + 1] = c /\ \A i \in 1..Len(mainq) : mainq'[i] = mainq[i]
    BY <1>1, <1>2
  <2>3. CASE k = Len(mainq) + 1
    BY <2>1, <2>2, <2>3
  <2>4. CASE k # Len(mainq) + 1
    <3>1. k \in DOMAIN mainq
      BY <2>1, <2>2, <2>4
    <3> QED
      BY <2>1, <2>2, <3>1 DEF Told
  <2> QED
    BY <2>3, <2>4
<1>3. ASSUME mainq # <<>>, mainq' = Tail(mainq) PROVE Told(d)
  <2>1. PICK k \in DOMAIN mainq' : mainq'[k].kind = "created" /\ mainq'[k].ok /\ mainq'[k].doc = d
    BY DEF Told
  <2>2. \A i \in DOMAIN Tail(mainq) : i + 1 \in DOMAIN mainq /\ Tail(mainq)[i] = mainq[i + 1]
    BY <1>1, <1>3
  <2> QED
    BY <1>3, <2>1, <2>2 DEF Told
<1>4. ASSUME UNCHANGED mainq PROVE Told(d)
  BY <1>4 DEF Told
<1>5. mainq' # <<>>
  BY DEF Told
<1>6. CASE Back \/ Restart
  BY <1>5, <1>6 DEF Back, Restart, ReleaseScreen
<1>7. CASE QueryServer \/ QueryCache \/ QueryFails
  <2>1. ASSUME NEW view, AnswerQuery(view) PROVE Told(d)
    <3>1. PICK docs : mainq' = Append(mainq, [kind |-> "snapshot", docs |-> docs])
      BY <2>1 DEF AnswerQuery, Answer
    <3> QED
      BY <1>2, <3>1
  <2>2. CASE QueryFails
    <3>1. mainq' = Append(mainq, [kind |-> "loadError"])
      BY <2>2 DEF QueryFails, Answer
    <3> QED
      BY <1>2, <3>1
  <2> QED
    BY <1>7, <2>1, <2>2 DEF QueryServer, QueryCache
<1>8. ASSUME NEW ok \in BOOLEAN, NotifyUser(ok), queue # <<>>
      PROVE  Told(d) \/ (ok /\ Head(queue) = Creation(d))
  <2>1. Head(queue) \in TaskMutation
    <3>1. queue \in Seq(TaskMutation)
      BY StoreParts
    <3> QED
      BY <1>8, <3>1
  <2>2. CASE UNCHANGED mainq
    BY <1>4, <2>2
  <2>3. CASE mainq' # mainq
    <3> DEFINE c == [kind |-> "created", doc |-> Head(queue).doc, ok |-> ok]
    <3>1. Head(queue).write.projectID \in Project /\ mainq' = Append(mainq, c)
      BY <1>8, <2>3 DEF NotifyUser, Answer
    <3>2. Head(queue) = Creation(Head(queue).doc)
      <4>1. PICK m \in TaskMutation : m = Head(queue)
        BY <2>1
      <4>2. IsCreation(m)
        BY <3>1, <4>1, ProjectWriter
      <4>3. m.write.projectID = project
        BY <4>2 DEF IsCreation, NewTask
      <4> QED
        BY <4>1, <4>3, Lister
    <3>3. Told(d) \/ (c.ok /\ c.doc = d)
      BY <1>2, <3>1
    <3> QED
      BY <3>2, <3>3
  <2> QED
    BY <2>2, <2>3
<1>9. CASE WriteAcknowledged
  <2>1. Acknowledge /\ NotifyUser(TRUE)
    BY <1>9 DEF WriteAcknowledged
  <2>2. queue # <<>>
    BY <2>1, AcknowledgedTask
  <2> QED
    BY <1>8, <1>9, <2>1, <2>2
<1>10. CASE WriteRejected
  BY <1>8, <1>10 DEF WriteRejected, Reject
<1>11. CASE MainQueueRuns
  <2>1. mainq # <<>> /\ (mainq' = Tail(mainq) \/ mainq' = mainq)
    BY <1>11, Zenon DEF MainQueueRuns, SnapshotArrives, LoadErrorArrives, CreateAnswered, Trap
  <2> QED
    BY <1>3, <1>4, <2>1
<1>12. CASE Open \/ Refresh \/ AddTaskButtonTapped \/ SwipeSheetAway \/ DismissAfterSuccess
            \/ (\E e \in DocId : CreateTaskButtonTapped(e)) \/ WriteDelivered \/ StreamBroken
  BY <1>4, <1>12
  DEF Open, Refresh, AddTaskButtonTapped, SwipeSheetAway, DismissAfterSuccess, CloseSheet,
      CreateTaskButtonTapped, WriteDelivered, StreamBroken, uiVars
<1>13. CASE RowTouched
  BY <1>4, <1>13
  DEF RowTouched, CellForRow, ResolvedButtonTapped, DeleteRow, ShowMoreTask, Trap
<1>14. CASE PortalActs \/ UNCHANGED vars
  BY <1>4, <1>14 DEF PortalActs, PortalInserts, PortalDeletes, uiVars, vars
<1> QED
  BY <1>6, <1>7, <1>9, <1>10, <1>11, <1>12, <1>13, <1>14 DEF Next, UserActs, ClientActs

\* A step keeps the cache level with the server on d when no creation of d is
\* to come, neither to the server nor, before it is dropped, to the cache.
LEMMA FollowsKept ==
    ASSUME HInv, StoreStep, NEW d \in DocId, d \in used, Follows(d),
           ~Awaits(queue, sent, d), synced[d] # 0 \/ ~Awaits(queue, 0, d)
    PROVE  Follows(d)'
<1>1. /\ IInv /\ server \in [DocId -> Document] /\ queue \in Seq(Mutation)
      /\ Len(queue) \in Nat /\ sent \in 0..Len(queue) /\ TaskHolds(d)
  BY HeldParts, StoreParts DEF StoreHolds
<1>2. CASE UNCHANGED <<server, cache>>
  BY <1>2 DEF Follows
<1>3. CASE Deliver
  <2>1. /\ sent + 1 \in 1..Len(queue) /\ cache' = cache
        /\ server' = Apply(server, queue[sent + 1])
    BY <1>1, <1>3 DEF Deliver
  <2>2. queue[sent + 1] \in TaskMutation /\ queue[sent + 1] \in Mutation
    BY <1>1, <2>1, StoreParts, MutationKinds
  <2>3. server'[d].projectID =
          IF queue[sent + 1].doc = d /\ queue[sent + 1].write.projectID # Keep
          THEN queue[sent + 1].write.projectID ELSE server[d].projectID
    BY <1>1, <2>1, <2>2, ApplyField, TaskFields
  <2>4. queue[sent + 1] # Creation(d)
    BY <1>1, <2>1 DEF Awaits
  <2>5. Listed(server'[d]) => Listed(server[d])
    BY <2>2, <2>3, <2>4, Lister DEF Listed
  <2> QED
    BY <2>1, <2>5 DEF Follows
<1>4. CASE Acknowledge
  <2>1. /\ server' = server /\ sent \in 1..Len(queue) /\ 1 \in 1..Len(queue)
        /\ queue[1] \in TaskMutation
        /\ synced[d] # 0 \/ queue[1].doc # d => cache'[d] = cache[d]
        /\ synced[d] = 0 /\ queue[1].doc = d => cache'[d] = Merge(cache[d], queue[1].write)
    BY <1>1, <1>4, AcknowledgedTask
  <2>2. CASE cache'[d] = cache[d]
    BY <2>1, <2>2 DEF Follows
  <2>3. CASE cache'[d] # cache[d]
    <3>1. /\ cache'[d] = Merge(cache[d], queue[1].write) /\ queue[1].doc = d
          /\ ~Awaits(queue, 0, d)
      BY <2>1, <2>3
    <3>2. CASE queue[1].write.projectID = Keep
      <4>1. cache'[d].projectID = cache[d].projectID
        BY <3>1, <3>2, TaskFields DEF Merge
      <4> QED
        BY <2>1, <4>1 DEF Follows, Listed
    \* A deletion has reached the server before it reaches the cache.
    <3>3. CASE queue[1].write.projectID # Keep
      <4>1. PICK i \in 1..sent : LastOfFirst(queue, sent, i, d, "projectID")
        <5>1. Writes(queue, 1, d, "projectID") /\ sent \in Nat /\ 1 \in 1..sent
          BY <1>1, <2>1, <3>1, <3>3 DEF Writes
        <5>2. \E i \in 1..sent : /\ Writes(queue, i, d, "projectID")
                                 /\ \A j \in 1..sent : j > i => ~Writes(queue, j, d, "projectID")
          <6> DEFINE P == {i \in 1..sent : Writes(queue, i, d, "projectID")}
          <6>1. sent \in Nat /\ P \subseteq 1..sent /\ P # {}
            BY <5>1
          <6> HIDE DEF P
          <6>2. PICK i \in P : \A j \in P : j <= i
            BY <6>1, GreatestPosition
          <6> QED
            BY <6>1, <6>2 DEF P
        <5> QED
          BY <1>1, <5>2 DEF LastOfFirst
      <4>2. i \in 1..Len(queue) /\ queue[i] \in TaskMutation /\ queue[i].doc = d
        BY <1>1, <2>1, <4>1, StoreParts DEF LastOfFirst, Writes
      <4>3. queue[i] # Creation(d)
        BY <1>1, <3>1, <4>2 DEF Awaits
      <4>4. queue[i].write.projectID # project
        BY <4>2, <4>3, Lister
      <4>5. ~Listed(server[d])
        BY <1>1, <4>1, <4>2, <4>4 DEF TaskHolds, Holds, Listed
      <4> QED
        BY <2>1, <4>5 DEF Follows
    <3> QED
      BY <3>2, <3>3
  <2> QED
    BY <2>2, <2>3
<1>5. CASE Synchronise
  BY <1>5 DEF Synchronise, Follows
<1>6. ASSUME NEW e \in DocId, NEW doc, RemoteSet(e, doc), e \notin used \/ doc = NoDoc
      PROVE  Follows(d)'
  <2>1. cache' = cache /\ (server'[d] = server[d] \/ server'[d] = NoDoc)
    BY <1>1, <1>6 DEF RemoteSet
  <2> QED
    BY <2>1, NoDocType DEF Follows
<1> QED
  BY <1>2, <1>3, <1>4, <1>5, <1>6
  DEF StoreStep, QuietStep, storeVars, Write, Reject, Reconnect

\* Creations stay unique, and none comes back of a key that is drawn.
LEMMA CreatedOnceStep ==
    ASSUME HInv, StoreStep, NEW d \in DocId, CreatedOnce(queue, d)
    PROVE  /\ CreatedOnce(queue', d)
           /\ d \in used /\ ~Awaits(queue, 0, d) => ~Awaits(queue', 0, d)
<1>1. /\ queue \in Seq(Mutation) /\ Len(queue) \in Nat
      /\ Awaits(queue, 0, d) => d \in used
  BY HeldParts, StoreParts, AwaitedIsUsed
<1>2. ASSUME NEW m \in TaskMutation, Write(m), m = Creation(d) => d \notin used
      PROVE  /\ CreatedOnce(queue', d)
             /\ d \in used /\ ~Awaits(queue, 0, d) => ~Awaits(queue', 0, d)
  <2>1. queue' = Append(queue, m) /\ m \in Mutation /\ 0 \in 0..Len(queue)
    BY <1>1, <1>2, MutationKinds DEF Write
  <2>2. Awaits(Append(queue, m), 0, d) <=> Awaits(queue, 0, d) \/ m = Creation(d)
    BY <1>1, <2>1, AwaitsAppend
  <2>3. Awaits(queue, 0, d) => m # Creation(d)
    BY <1>1, <1>2
  <2>4. CreatedOnce(Append(queue, m), d)
    BY <1>1, <2>1, <2>3, AwaitsAppend
  <2> QED
    BY <1>2, <2>1, <2>2, <2>4
<1>3. ASSUME queue # <<>>, queue' = Tail(queue)
      PROVE  /\ CreatedOnce(queue', d)
             /\ ~Awaits(queue, 0, d) => ~Awaits(queue', 0, d)
  <2>1. Awaits(Tail(queue), 0, d) => Awaits(queue, 0 + 1, d)
    BY <1>1, <1>3, AwaitsTail
  <2>2. Awaits(queue, 0 + 1, d) => Awaits(queue, 0, d)
    BY <1>1 DEF Awaits
  <2> QED
    BY <1>1, <1>3, <2>1, <2>2, AwaitsTail
<1>4. ASSUME NEW e \in DocId, e \notin used, Write(Creation(e))
      PROVE  /\ CreatedOnce(queue', d)
             /\ d \in used /\ ~Awaits(queue, 0, d) => ~Awaits(queue', 0, d)
  <2>1. Creation(e) = Creation(d) => e = d
    BY DEF Creation
  <2> QED
    BY <1>2, <1>4, <2>1, AppMutations
<1>5. ASSUME NEW e \in DocId, NEW c \in BOOLEAN, Write(StatusMutation(e, c))
      PROVE  /\ CreatedOnce(queue', d)
             /\ d \in used /\ ~Awaits(queue, 0, d) => ~Awaits(queue', 0, d)
  <2>1. StatusMutation(e, c) # Creation(d)
    BY FieldNames DEF Creation, NewTask, StatusMutation, StatusWrite
  <2> QED
    BY <1>2, <1>5, <2>1, AppMutations
<1>6. ASSUME NEW i \in 1..Len(tasks), Write(Deletion(tasks[i].taskID))
      PROVE  /\ CreatedOnce(queue', d)
             /\ d \in used /\ ~Awaits(queue, 0, d) => ~Awaits(queue', 0, d)
  <2>1. tasks[i].taskID \in DocId
    <3>1. tasks[i] \in ListedTask
      BY HeldParts, ScreenParts DEF IInv
    <3> QED
      BY <3>1 DEF ListedTask
  <2>2. Deletion(tasks[i].taskID) # Creation(d)
    BY FieldNames DEF Creation, NewTask, Deletion, NoDoc
  <2> QED
    BY <1>2, <1>6, <2>1, <2>2, AppMutations
<1>7. CASE Acknowledge \/ Reject
  <2>1. queue # <<>> /\ queue' = Tail(queue)
    BY <1>7, HeldParts, AcknowledgedTask DEF Reject
  <2> QED
    BY <1>3, <2>1
<1>8. CASE UNCHANGED queue
  BY <1>8
<1> QED
  BY <1>4, <1>5, <1>6, <1>7, <1>8
  DEF StoreStep, QuietStep, storeVars, Deliver, Reconnect, Synchronise, RemoteSet

\* A cached document that becomes as new as the creation of d does so in a
\* query that brings the whole cache up to date.
LEMMA SyncedCreationStep ==
    ASSUME HInv, StoreStep, NEW d \in DocId, SyncedCreation(d)'
    PROVE  SyncedCreation(d) \/ Follows(d)'
<1>1. /\ IInv /\ queue \in Seq(Mutation) /\ Len(queue) \in Nat
      /\ synced[d] \in 0..Len(queue) /\ synced[d] \in 0..sent
  BY HeldParts, StoreParts
<1>2. PICK i \in 1..Len(queue') : i <= synced'[d] /\ queue'[i] = Creation(d)
  BY DEF SyncedCreation
<1>3. CASE UNCHANGED <<queue, synced>>
  BY <1>3 DEF SyncedCreation
<1>4. ASSUME NEW m, Write(m) PROVE SyncedCreation(d)
  <2>1. /\ synced' = synced /\ queue' = Append(queue, m)
        /\ \A k \in 1..Len(queue) : queue'[k] = queue[k]
    BY <1>1, <1>4 DEF Write
  <2>2. i \in 1..Len(queue)
    BY <1>1, <1>2, <2>1
  <2> QED
    BY <1>2, <2>1, <2>2 DEF SyncedCreation
<1>5. CASE Acknowledge
  <2>1. /\ queue # <<>> /\ queue' = Tail(queue)
        /\ synced'[d] = IF synced[d] = 0 THEN 0 ELSE synced[d] - 1
    BY <1>1, <1>5, AcknowledgedTask
  <2>2. i + 1 \in 1..Len(queue) /\ queue[i + 1] = Creation(d)
    BY <1>1, <1>2, <2>1, TailOf
  <2>3. i + 1 <= synced[d]
    BY <1>1, <1>2, <2>1
  <2> QED
    BY <2>2, <2>3 DEF SyncedCreation
<1>6. CASE Reject \/ Reconnect
  <2>1. synced'[d] = 0
    BY <1>1, <1>6 DEF Reject, Reconnect
  <2> QED
    BY <1>2, <2>1
<1>7. CASE Synchronise
  BY <1>7 DEF Synchronise, Follows
<1> QED
  BY <1>3, <1>4, <1>5, <1>6, <1>7
  DEF StoreStep, QuietStep, storeVars, Deliver, RemoteSet

\* The acknowledgement of a creation leaves the cache level with the server.
LEMMA AcknowledgedCreation ==
    ASSUME HInv, Acknowledge, NEW d \in DocId, CreationFollowed(d), Head(queue) = Creation(d)
    PROVE  Follows(d)' /\ ~Awaits(queue', 0, d) /\ d \in used
<1>1. /\ IInv /\ queue # <<>> /\ queue' = Tail(queue) /\ server' = server
      /\ 1 \in 1..Len(queue) /\ queue[1] = Creation(d) /\ queue[1].doc = d
      /\ synced[d] # 0 => cache'[d] = cache[d]
      /\ synced[d] = 0 => cache'[d] = Merge(cache[d], queue[1].write)
      /\ queue \in Seq(Mutation) /\ synced[d] \in 0..Len(queue) /\ Len(queue) \in Nat
  <2>1. IInv /\ Head(queue) = queue[1] /\ queue[1].doc = d
    BY HeldParts, AcknowledgedTask DEF Creation
  <2> QED
    BY <2>1, AcknowledgedTask, StoreParts
<1>2. ASSUME synced[d] = 0 PROVE Follows(d)'
  <2>1. cache'[d].projectID = project
    BY <1>1, <1>2, FieldNames DEF Merge, Creation, NewTask
  <2> QED
    BY <2>1 DEF Follows, Listed
<1>3. ASSUME synced[d] # 0 PROVE Follows(d)'
  <2>1. SyncedCreation(d)
    BY <1>1, <1>3 DEF SyncedCreation
  <2>2. Follows(d)
    BY <2>1 DEF CreationFollowed
  <2> QED
    BY <1>1, <1>3, <2>2 DEF Follows
<1>4. ~Awaits(queue', 0, d)
  <2>1. ~Awaits(queue, 0 + 1, d)
    <3> SUFFICES ASSUME Awaits(queue, 0 + 1, d) PROVE FALSE
      OBVIOUS
    <3>1. PICK i \in 1..Len(queue) : i > 0 + 1 /\ queue[i] = Creation(d)
      BY DEF Awaits
    <3>2. i = 1
      BY <1>1, <3>1 DEF CreationFollowed, CreatedOnce
    <3> QED
      BY <3>1, <3>2
  <2>2. Awaits(Tail(queue), 0, d) <=> Awaits(queue, 0 + 1, d)
    BY <1>1, AwaitsTail
  <2> QED
    BY <1>1, <2>1, <2>2
<1>5. d \in used
  BY <1>1, HeldParts DEF QueueUsesKeys
<1> QED
  BY <1>2, <1>3, <1>4, <1>5

LEMMA CreationFollowedStep ==
    ASSUME HInv, [Next]_vars, NEW d \in DocId, CreationFollowed(d)
    PROVE  CreationFollowed(d)'
<1>1. /\ IInv /\ StoreStep /\ used \subseteq used'
      /\ queue \in Seq(Mutation) /\ Len(queue) \in Nat /\ sent \in 0..Len(queue)
      /\ synced[d] \in 0..Len(queue) /\ synced[d] \in 0..sent
  BY HeldParts, StoreParts, StoreSteps, UsedGrows DEF DInv
<1>2. CreatedOnce(queue, d)
  BY DEF CreationFollowed
<1>3. CreatedOnce(queue', d) /\ (d \in used /\ ~Awaits(queue, 0, d) => ~Awaits(queue', 0, d))
  BY <1>1, <1>2, CreatedOnceStep
<1>4. ASSUME SyncedCreation(d) PROVE Follows(d)'
  <2>1. PICK i \in 1..Len(queue) : i <= synced[d] /\ queue[i] = Creation(d)
    BY <1>4 DEF SyncedCreation
  <2>2. queue[i].doc = d
    BY <2>1 DEF Creation
  <2>3. d \in used
    BY <2>2, HeldParts DEF QueueUsesKeys
  <2>4. ~Awaits(queue, sent, d)
    BY <1>1, <1>2, <2>1 DEF Awaits, CreatedOnce
  <2>5. Follows(d) /\ synced[d] # 0
    BY <1>1, <1>4, <2>1 DEF CreationFollowed
  <2> QED
    BY <1>1, <2>3, <2>4, <2>5, FollowsKept
<1>5. SyncedCreation(d)' => Follows(d)'
  BY <1>1, <1>4, SyncedCreationStep
<1>6. ASSUME Told(d) PROVE Follows(d)' /\ ~Awaits(queue', 0, d) /\ d \in used'
  <2>1. Follows(d) /\ ~Awaits(queue, 0, d) /\ d \in used
    BY <1>6 DEF CreationFollowed
  <2>2. ~Awaits(queue, sent, d)
    BY <1>1, <2>1 DEF Awaits
  <2> QED
    BY <1>1, <1>3, <2>1, <2>2, FollowsKept
<1>7. ASSUME WriteAcknowledged, Head(queue) = Creation(d)
      PROVE  Follows(d)' /\ ~Awaits(queue', 0, d) /\ d \in used'
  BY <1>1, <1>7, AcknowledgedCreation DEF WriteAcknowledged
<1>8. ASSUME Told(d)' PROVE Follows(d)' /\ ~Awaits(queue', 0, d) /\ d \in used'
  <2>1. Told(d) \/ (WriteAcknowledged /\ Head(queue) = Creation(d))
    BY <1>1, <1>8, ToldStep
  <2> QED
    BY <1>6, <1>7, <2>1
<1>9. Awaits(queue', 0, d) <=> Awaits(queue, 0, d)'
  BY DEF Awaits
<1>10. CreatedOnce(queue', d) <=> CreatedOnce(queue, d)'
  BY DEF CreatedOnce
<1> QED
  BY <1>3, <1>5, <1>8, <1>9, <1>10 DEF CreationFollowed

LEMMA CreationsInitially == Init => CInv
<1> SUFFICES ASSUME Init PROVE CInv
  OBVIOUS
<1>1. HInv /\ queue = <<>> /\ mainq = <<>>
  BY HeldInitially DEF Init
<1> QED
  BY <1>1 DEF CInv, CreationFollowed, CreatedOnce, SyncedCreation, Told

LEMMA CreationsInductive == CInv /\ [Next]_vars => CInv'
<1> SUFFICES ASSUME CInv, [Next]_vars PROVE CInv'
  OBVIOUS
<1>1. HInv /\ HInv'
  BY HeldInductive DEF CInv
<1> QED
  BY <1>1, CreationFollowedStep DEF CInv

\* When the handler of a create learns of its success, the reload it starts
\* finds the task even in the cache, unless someone has deleted the task:
\* acknowledgements, resent writes and queries answered meanwhile leave no
\* moment in which the cache is behind the server on it.
THEOREM CreatedIsFound == Spec => []ConfirmedTaskIsFound
<1>1. CInv => ConfirmedTaskIsFound
  <2> SUFFICES ASSUME CInv, NEW k \in DOMAIN mainq, mainq[k].kind = "created", mainq[k].ok,
                      Listed(LocalView[mainq[k].doc])
               PROVE  Listed(CachedView[mainq[k].doc])
    BY DEF ConfirmedTaskIsFound
  <2>1. HInv /\ IInv
    BY HeldParts DEF CInv
  <2>2. PICK d \in DocId : d = mainq[k].doc
    <3>1. mainq[k] \in ListCallback
      BY <2>1, ScreenParts DEF IInv
    <3> QED
      BY <3>1 DEF ListCallback
  <2>3. Follows(d)
    BY <2>2 DEF CInv, CreationFollowed, Told
  <2>4. CASE \E i \in 1..Len(queue) : Writes(queue, i, d, "projectID")
    <3>1. PICK i \in 1..Len(queue) : LastWriter(queue, i, d, "projectID")
      BY <2>1, <2>4, StoreParts, TaskFields, LastWriterExists
    <3>2. LocalView[d].projectID = CachedView[d].projectID
      BY <2>1, <3>1, StoreParts, TaskFields, OverlayWritten DEF LocalView, CachedView
    <3> QED
      BY <2>2, <3>2 DEF Listed
  <2>5. CASE ~\E i \in 1..Len(queue) : Writes(queue, i, d, "projectID")
    <3>1. /\ LocalView[d].projectID = server[d].projectID
          /\ CachedView[d].projectID = cache[d].projectID
      BY <2>1, <2>5, StoreParts, TaskFields, OverlayUnwritten DEF LocalView, CachedView
    <3> QED
      BY <2>2, <2>3, <3>1 DEF Follows, Listed
  <2> QED
    BY <2>4, <2>5
<1> QED
  BY <1>1, CreationsInitially, CreationsInductive, PTL DEF Spec

-----------------------------------------------------------------------------
(***************************************************************************)
(* Fifth part: while loads do not overlap, each task has one row.          *)
(***************************************************************************)

(***************************************************************************)
(* The steps, as the screen sees them.                                     *)
(***************************************************************************)

\* The user changes or removes the row of a listed task.
RowChanges(i) ==
    /\ \/ \E completed \in BOOLEAN : Tapped(i, completed)
       \/ tasks' = RemoveRow(tasks, i)
    /\ rows = tasks /\ rows' = tasks'
    /\ UNCHANGED <<fetching, mainq, overlap>>

Reloaded ==
    /\ ReloadTaskList
    /\ UNCHANGED rows
    /\ \/ UNCHANGED mainq
       \/ mainq # <<>> /\ Head(mainq).kind = "created" /\ mainq' = Tail(mainq)

QueryAnswered(c) ==
    /\ fetching > 0 /\ fetching' = fetching - 1
    /\ mainq' = Append(mainq, c)
    /\ UNCHANGED <<tasks, rows, overlap>>

SnapshotOf(view) == {[kind |-> "snapshot", docs |-> docs] : docs \in Listings(view)}

UserTold(d, ok) ==
    /\ creator[d] # "none"
    /\ mainq' = Append(mainq, [kind |-> "created", doc |-> d, ok |-> ok])
    /\ UNCHANGED <<tasks, rows, fetching, overlap>>

ListFilled ==
    /\ mainq # <<>> /\ Head(mainq).kind = "snapshot" /\ mainq' = Tail(mainq)
    /\ tasks' = tasks \o [i \in 1..Len(Head(mainq).docs) |-> TaskOf(Head(mainq).docs[i])]
    /\ rows' = tasks'
    /\ UNCHANGED <<fetching, overlap>>

NewsPassed ==
    /\ mainq # <<>> /\ Head(mainq).kind # "snapshot" /\ mainq' = Tail(mainq)
    /\ UNCHANGED <<tasks, rows, fetching, overlap>>

ScreenStep ==
    \/ ReleaseScreen
    \/ screen = "away" /\ fetching' = 1 /\ UNCHANGED <<tasks, rows, mainq, overlap>>
    \/ Reloaded
    \/ \E i \in 1..Len(tasks) : RowChanges(i)
    \/ \E c \in SnapshotOf(LocalView) \cup SnapshotOf(CachedView) : QueryAnswered(c)
    \/ QueryAnswered([kind |-> "loadError"])
    \/ \E d \in DocId, ok \in BOOLEAN : UserTold(d, ok)
    \/ ListFilled
    \/ NewsPassed
    \/ UNCHANGED <<tasks, rows, fetching, mainq, overlap>>

\* A touch of a row changes it, removes it, or kills the process.
LEMMA TouchScreen ==
    ASSUME IInv, NEW i \in DOMAIN rows,
           CellForRow(i) \/ ResolvedButtonTapped(i) \/ DeleteRow(i) \/ ShowMoreTask(i)
    PROVE  \/ i \in 1..Len(tasks) /\ RowChanges(i)
           \/ UNCHANGED <<tasks, rows, fetching, mainq, overlap>>
<1>1. i \in DOMAIN tasks => rows = tasks /\ i \in 1..Len(tasks)
  BY TouchedRow
<1>2. CASE CellForRow(i)
  <2>1. i \in DOMAIN tasks => rows' = rows
    <3>1. i \in DOMAIN tasks => rows' = [rows EXCEPT ![i] = rows[i]]
      BY <1>1, <1>2 DEF CellForRow
    <3>2. rows \in Seq(Task)
      BY DEF IInv, ScreenOK
    <3> QED
      BY <3>1, <3>2
  <2> QED
    BY <1>2, <2>1 DEF CellForRow, Trap
<1>3. CASE ResolvedButtonTapped(i)
  <2>1. CASE i \in DOMAIN tasks
    <3> DEFINE c == rows[i].taskStatus # "completed"
    <3>1. /\ tasks' = [tasks EXCEPT ![i] = Toggled(tasks[i], c)] /\ c \in BOOLEAN
          /\ rows' = [rows EXCEPT ![i] = tasks'[i]]
          /\ Tapped(i, c)
      BY <1>3, <2>1 DEF ResolvedButtonTapped, StatusMutation, Tapped
    <3> HIDE DEF c
    <3>2. rows' = tasks'
      <4>1. tasks \in Seq(ListedTask) /\ DOMAIN tasks = 1..Len(tasks)
        BY ScreenParts DEF IInv
      <4>2. tasks'[i] = Toggled(tasks[i], c)
        BY <2>1, <3>1
      <4> QED
        BY <1>1, <2>1, <3>1, <4>2
    <3> QED
      BY <1>1, <2>1, <3>1, <3>2 DEF RowChanges, Tapped
  <2>2. CASE i \notin DOMAIN tasks
    BY <1>3, <2>2 DEF ResolvedButtonTapped, Trap
  <2> QED
    BY <2>1, <2>2
<1>4. CASE DeleteRow(i)
  <2>1. CASE i \in DOMAIN tasks
    BY <1>1, <1>4, <2>1 DEF DeleteRow, RowChanges
  <2>2. CASE i \notin DOMAIN tasks
    BY <1>4, <2>2 DEF DeleteRow, Trap
  <2> QED
    BY <2>1, <2>2
<1>5. CASE ShowMoreTask(i)
  BY <1>5 DEF ShowMoreTask, Trap
<1> QED
  BY <1>2, <1>3, <1>4, <1>5

LEMMA HandlerScreen ==
    ASSUME IInv, MainQueueRuns
    PROVE  Reloaded \/ ListFilled \/ NewsPassed
<1>1. mainq # <<>> /\ Head(mainq) \in ListCallback
  <2>1. mainq \in Seq(ListCallback) /\ mainq # <<>>
    BY ScreenParts DEF IInv, MainQueueRuns
  <2> QED
    BY <2>1
<1>2. CASE SnapshotArrives
  <2>1. PICK docs \in Seq(ListedDocument) : docs = Head(mainq).docs
    BY <1>1, <1>2 DEF SnapshotArrives, ListCallback
  <2>2. ~\E i \in DOMAIN docs : docs[i].taskDueDate = Nil
    <3> SUFFICES ASSUME NEW i \in DOMAIN docs PROVE docs[i].taskDueDate # Nil
      OBVIOUS
    <3>1. docs[i] \in ListedDocument
      BY <2>1
    <3> QED
      BY <3>1, FieldNames DEF ListedDocument, Listed, Complete
  <2>3. /\ tasks' = tasks \o [i \in DOMAIN docs |-> TaskOf(docs[i])] /\ rows' = tasks'
        /\ mainq' = Tail(mainq) /\ UNCHANGED <<fetching, overlap>> /\ Head(mainq).kind = "snapshot"
    BY <1>2, <2>1, <2>2 DEF SnapshotArrives, Display
  <2>4. DOMAIN docs = 1..Len(docs)
    BY <2>1
  <2> QED
    BY <1>1, <2>1, <2>3, <2>4 DEF ListFilled
<1>3. CASE LoadErrorArrives
  BY <1>1, <1>3 DEF LoadErrorArrives, NewsPassed
<1>4. CASE CreateAnswered
  <2>1. Head(mainq).kind = "created" /\ mainq' = Tail(mainq) /\ rows' = rows
    BY <1>4, Zenon DEF CreateAnswered
  <2>2. CASE Head(mainq).ok
    <3>1. ReloadTaskList
      BY <1>4, <2>2, Zenon DEF CreateAnswered
    <3> QED
      BY <1>1, <2>1, <3>1, Zenon DEF Reloaded
  <2>3. CASE ~Head(mainq).ok
    <3>1. UNCHANGED <<tasks, fetching, overlap>>
      BY <1>4, <2>3, Zenon DEF CreateAnswered
    <3> QED
      BY <1>1, <2>1, <3>1 DEF NewsPassed
  <2> QED
    BY <2>2, <2>3
<1> QED
  BY <1>2, <1>3, <1>4 DEF MainQueueRuns

LEMMA ScreenSteps ==
    ASSUME IInv, [Next]_vars
    PROVE  ScreenStep
<1>1. ASSUME NEW ok \in BOOLEAN, NotifyUser(ok), queue # <<>>,
             UNCHANGED <<tasks, rows, fetching, overlap>>
      PROVE  ScreenStep
  <2>1. Head(queue).doc \in DocId
    <3>1. queue \in Seq(Mutation)
      BY StoreParts
    <3>2. Head(queue) \in Mutation
      BY <1>1, <3>1
    <3> QED
      BY <3>2 DEF Mutation
  <2>2. UNCHANGED mainq \/ UserTold(Head(queue).doc, ok)
    BY <1>1 DEF NotifyUser, Answer, UserTold
  <2> QED
    BY <1>1, <2>1, <2>2 DEF ScreenStep
<1>2. ASSUME NEW view \in {LocalView, CachedView}, AnswerQuery(view) PROVE ScreenStep
  <2>1. PICK docs \in Listings(view) : mainq' = Append(mainq, [kind |-> "snapshot", docs |-> docs])
    BY <1>2 DEF AnswerQuery, Answer
  <2>2. /\ [kind |-> "snapshot", docs |-> docs] \in SnapshotOf(LocalView) \cup SnapshotOf(CachedView)
        /\ QueryAnswered([kind |-> "snapshot", docs |-> docs])
    BY <1>2, <2>1 DEF SnapshotOf, AnswerQuery, QueryAnswered
  <2> QED
    BY <2>2 DEF ScreenStep
<1>3. CASE Back \/ Restart
  BY <1>3 DEF Back, Restart, ScreenStep
<1>4. CASE Refresh
  <2>1. ReloadTaskList /\ UNCHANGED <<rows, mainq>>
    BY <1>4, Zenon DEF Refresh
  <2> QED
    BY <2>1, Zenon DEF Reloaded, ScreenStep
<1>5. CASE Open
  BY <1>5 DEF Open, ScreenStep
<1>6. CASE RowTouched
  BY <1>6, TouchScreen DEF RowTouched, ScreenStep
<1>7. CASE AddTaskButtonTapped \/ SwipeSheetAway \/ DismissAfterSuccess
           \/ (\E d \in DocId : CreateTaskButtonTapped(d)) \/ WriteDelivered \/ StreamBroken
  BY <1>7
  DEF AddTaskButtonTapped, SwipeSheetAway, DismissAfterSuccess, CloseSheet,
      CreateTaskButtonTapped, WriteDelivered, StreamBroken, uiVars, ScreenStep
<1>8. CASE QueryServer \/ QueryCache
  BY <1>2, <1>8 DEF QueryServer, QueryCache
<1>9. CASE QueryFails
  <2>1. QueryAnswered([kind |-> "loadError"])
    BY <1>9 DEF QueryFails, Answer, QueryAnswered
  <2> QED
    BY <2>1 DEF ScreenStep
<1>10. CASE WriteAcknowledged
  <2>1. Acknowledge /\ NotifyUser(TRUE) /\ UNCHANGED <<tasks, rows, fetching, overlap>>
    BY <1>10 DEF WriteAcknowledged
  <2>2. queue # <<>>
    <3>1. sent \in 0..Len(queue) /\ queue \in Seq(Mutation)
      BY StoreParts
    <3>2. sent > 0
      BY <2>1 DEF Acknowledge
    <3> QED
      BY <3>1, <3>2
  <2> QED
    BY <1>1, <2>1, <2>2
<1>11. CASE WriteRejected
  BY <1>1, <1>11 DEF WriteRejected, Reject
<1>12. CASE MainQueueRuns
  BY <1>12, HandlerScreen DEF ScreenStep
<1>13. CASE PortalActs \/ UNCHANGED vars
  BY <1>13 DEF PortalActs, PortalInserts, PortalDeletes, uiVars, vars, ScreenStep
<1> QED
  BY <1>3, <1>4, <1>5, <1>6, <1>7, <1>8, <1>9, <1>10, <1>11, <1>12, <1>13
  DEF Next, UserActs, ClientActs

-----------------------------------------------------------------------------
(***************************************************************************)
(* One load at a time.                                                     *)
(***************************************************************************)

\* The project screen keeps nothing of the list.
AwayIsEmpty ==
    screen = "away" => /\ fetching = 0 /\ mainq = <<>> /\ tasks = <<>>
                       /\ \A d \in DocId : creator[d] = "none"

NoSnapshot(q) == \A k \in 1..Len(q) : q[k].kind # "snapshot"

OneSnapshot(q) ==
    \A j, k \in 1..Len(q) : q[j].kind = "snapshot" /\ q[k].kind = "snapshot" => j = k

\* While loads do not overlap, a load that is under way has the list to itself.
OneLoad ==
    ~overlap => /\ fetching \in {0, 1}
                /\ fetching = 1 => tasks = <<>> /\ NoSnapshot(mainq)
                /\ ~NoSnapshot(mainq) => tasks = <<>>
                /\ OneSnapshot(mainq)

ListsOnce(q) == \A k \in 1..Len(q) : q[k].kind = "snapshot" => NoTaskListedTwice(q[k].docs)

SInv == IInv /\ AwayIsEmpty /\ OneLoad /\ ListsOnce(mainq) /\ SingleLoadsListOnce

LEMMA AwayStep ==
    ASSUME IInv, AwayIsEmpty, [Next]_vars
    PROVE  AwayIsEmpty'
<1>1. ASSUME screen' = "away" => screen = "away", UNCHANGED <<tasks, fetching, mainq, creator>>
      PROVE  AwayIsEmpty'
  BY <1>1 DEF AwayIsEmpty
<1>2. ASSUME screen' # "away" PROVE AwayIsEmpty'
  BY <1>2 DEF AwayIsEmpty
<1>3. CASE ReleaseScreen
  BY <1>3 DEF ReleaseScreen, AwayIsEmpty
<1>4. CASE RowTouched
  BY <1>2, <1>4 DEF RowTouched, CellForRow, ResolvedButtonTapped, DeleteRow, ShowMoreTask, Trap
<1>5. CASE UserActs /\ ~RowTouched
  BY <1>2, <1>3, <1>5
  DEF UserActs, Open, Back, Refresh, AddTaskButtonTapped, SwipeSheetAway, CloseSheet,
      CreateTaskButtonTapped
<1>6. ASSUME fetching > 0, UNCHANGED screen PROVE AwayIsEmpty'
  BY <1>6 DEF AwayIsEmpty
<1>7. CASE QueryServer \/ QueryCache \/ QueryFails
  BY <1>6, <1>7 DEF QueryServer, QueryCache, QueryFails, AnswerQuery
<1>8. CASE WriteDelivered \/ StreamBroken
  BY <1>1, <1>8 DEF WriteDelivered, StreamBroken, uiVars
<1>9. ASSUME NEW ok \in BOOLEAN, NotifyUser(ok), queue # <<>>,
             UNCHANGED <<tasks, fetching, screen, creator>>
      PROVE  AwayIsEmpty'
  <2>1. Head(queue).doc \in DocId
    <3>1. queue \in Seq(Mutation)
      BY StoreParts
    <3>2. Head(queue) \in Mutation
      BY <1>9, <3>1
    <3> QED
      BY <3>2 DEF Mutation
  <2>2. UNCHANGED mainq \/ creator[Head(queue).doc] # "none"
    BY <1>9 DEF NotifyUser
  <2> QED
    BY <1>9, <2>1, <2>2 DEF AwayIsEmpty
<1>10. CASE WriteAcknowledged
  <2>1. Acknowledge /\ NotifyUser(TRUE) /\ UNCHANGED <<tasks, fetching, screen, creator>>
    BY <1>10 DEF WriteAcknowledged
  <2>2. queue # <<>>
    <3>1. sent \in 0..Len(queue) /\ queue \in Seq(Mutation)
      BY StoreParts
    <3>2. sent > 0
      BY <2>1 DEF Acknowledge
    <3> QED
      BY <3>1, <3>2
  <2> QED
    BY <1>9, <2>1, <2>2
<1>11. CASE WriteRejected
  BY <1>9, <1>11 DEF WriteRejected, Reject
<1>12. CASE MainQueueRuns
  <2>1. mainq # <<>> /\ UNCHANGED screen
    BY <1>12, Zenon
    DEF MainQueueRuns, SnapshotArrives, LoadErrorArrives, CreateAnswered, Trap
  <2> QED
    BY <2>1 DEF AwayIsEmpty
<1>13. CASE DismissAfterSuccess
  BY <1>2, <1>13 DEF DismissAfterSuccess, CloseSheet
<1>14. CASE PortalActs \/ UNCHANGED vars
  BY <1>1, <1>14 DEF PortalActs, PortalInserts, PortalDeletes, uiVars, vars
<1> QED
  BY <1>3, <1>4, <1>5, <1>7, <1>8, <1>10, <1>11, <1>12, <1>13, <1>14
  DEF Next, ClientActs, Restart

\* What joins and leaves the main queue.
LEMMA QueueAppend ==
    ASSUME NEW q \in Seq(ListCallback), NEW c \in ListCallback
    PROVE  /\ c.kind # "snapshot" /\ NoSnapshot(q) => NoSnapshot(Append(q, c))
           /\ c.kind # "snapshot" /\ OneSnapshot(q) => OneSnapshot(Append(q, c))
           /\ NoSnapshot(q) => OneSnapshot(Append(q, c))
           /\ ListsOnce(q) /\ (c.kind = "snapshot" => NoTaskListedTwice(c.docs))
                => ListsOnce(Append(q, c))
<1>1. /\ \A k \in 1..Len(Append(q, c)) :
           \/ k \in 1..Len(q) /\ Append(q, c)[k] = q[k]
           \/ k = Len(q) + 1 /\ Append(q, c)[k] = c
  OBVIOUS
<1> QED
  BY <1>1 DEF NoSnapshot, OneSnapshot, ListsOnce

LEMMA QueueTail ==
    ASSUME NEW q \in Seq(ListCallback), q # <<>>
    PROVE  /\ NoSnapshot(q) => NoSnapshot(Tail(q))
           /\ OneSnapshot(q) => OneSnapshot(Tail(q))
           /\ NoSnapshot(q) => Head(q).kind # "snapshot"
           /\ OneSnapshot(q) /\ Head(q).kind = "snapshot" => NoSnapshot(Tail(q))
           /\ ListsOnce(q) => ListsOnce(Tail(q))
           /\ ListsOnce(q) /\ Head(q).kind = "snapshot" => NoTaskListedTwice(Head(q).docs)
<1>1. /\ \A k \in 1..Len(Tail(q)) : k \in Nat /\ k + 1 \in 1..Len(q) /\ Tail(q)[k] = q[k + 1]
      /\ Head(q) = q[1] /\ 1 \in 1..Len(q)
  OBVIOUS
<1>2. \A k \in 1..Len(Tail(q)) : k + 1 # 1
  BY <1>1
<1>3. \A j, k \in 1..Len(Tail(q)) : j + 1 = k + 1 => j = k
  BY <1>1
<1>4. (OneSnapshot(q) => OneSnapshot(Tail(q)))
  BY <1>1, <1>3 DEF OneSnapshot
<1> QED
  BY <1>1, <1>2, <1>4 DEF NoSnapshot, OneSnapshot, ListsOnce

LEMMA LoadingMeans ==
    ASSUME IInv
    PROVE  Loading <=> fetching > 0 \/ ~NoSnapshot(mainq)
<1>1. DOMAIN mainq = 1..Len(mainq)
  BY ScreenParts DEF IInv
<1> QED
  BY <1>1 DEF Loading, NoSnapshot

-----------------------------------------------------------------------------
(***************************************************************************)
(* Lists without duplicates.                                               *)
(***************************************************************************)

\* A query lists each document once, and so each task.
LEMMA ListingOnce ==
    ASSUME NEW view \in [DocId -> Document], \A d \in DocId : Complete(d, view[d]),
           NEW docs \in Listings(view)
    PROVE  NoTaskListedTwice(docs)
<1> DEFINE found == {d \in DocId : Listed(view[d])}
<1>1. PICK keys \in {s \in SeqOf(found, Cardinality(found)) :
                       /\ ToSet(s) = found
                       /\ \A i, j \in DOMAIN s : i < j => KeyOrder[s[i]] < KeyOrder[s[j]]} :
             docs = [i \in DOMAIN keys |-> view[keys[i]]]
  BY DEF Listings
<1>2. \A i, j \in DOMAIN keys : i < j => KeyOrder[keys[i]] < KeyOrder[keys[j]]
  BY <1>1
<1>3. PICK m \in Nat : keys \in [1..m -> found]
  <2>1. Cardinality(found) \in Nat
    BY TaskAssumption, FS_Subset, FS_CardinalityType
  <2>2. PICK m \in 0..Cardinality(found) : keys \in [1..m -> found]
    BY <1>1 DEF SeqOf
  <2> QED
    BY <2>1, <2>2
<1>4. DOMAIN docs = 1..m /\ DOMAIN keys = 1..m
  BY <1>1, <1>3
<1>5. ASSUME NEW i \in 1..m PROVE docs[i].taskID = keys[i] /\ keys[i] \in DocId
  <2>1. docs[i] = view[keys[i]] /\ keys[i] \in found
    BY <1>1, <1>3, <1>5
  <2> QED
    BY <2>1, FieldNames DEF Listed, Complete
<1> HIDE DEF found
<1>6. ASSUME NEW i \in 1..m, NEW j \in 1..m, i < j PROVE keys[i] # keys[j]
  <2>1. KeyOrder[keys[i]] < KeyOrder[keys[j]] /\ KeyOrder[keys[i]] \in Nat
    BY <1>2, <1>4, <1>5, <1>6, TaskAssumption
  <2> QED
    BY <2>1
<1>7. ASSUME NEW i \in 1..m, NEW j \in 1..m, docs[i].taskID = docs[j].taskID PROVE i = j
  <2>1. keys[i] = keys[j]
    BY <1>5, <1>7
  <2> QED
    BY <1>6, <2>1
<1> QED
  BY <1>4, <1>7 DEF NoTaskListedTwice

\* What RemoveRow leaves.
LEMMA RowsLeft ==
    ASSUME NEW S, NEW list \in Seq(S), NEW i \in 1..Len(list)
    PROVE  /\ Len(RemoveRow(list, i)) = Len(list) - 1
           /\ \A j \in 1..Len(RemoveRow(list, i)) :
                 /\ RemoveRow(list, i)[j] = list[IF j < i THEN j ELSE j + 1]
                 /\ (IF j < i THEN j ELSE j + 1) \in 1..Len(list)
<1> DEFINE a == SubSeq(list, 1, i - 1)
           b == SubSeq(list, i + 1, Len(list))
<1>1. /\ a \in Seq(S) /\ Len(a) = i - 1 /\ \A j \in 1..Len(a) : a[j] = list[j]
      /\ b \in Seq(S) /\ Len(b) = Len(list) - i /\ \A j \in 1..Len(b) : b[j] = list[i + j]
  <2>1. i \in Nat /\ i >= 1 /\ i <= Len(list) /\ Len(list) \in Nat
    OBVIOUS
  <2>2. a \in Seq(S) /\ Len(a) = i - 1 /\ \A j \in 1..Len(a) : a[j] = list[j]
    BY <2>1
  <2>3. b \in Seq(S) /\ Len(b) = Len(list) - i
    BY <2>1
  <2>4. \A j \in 1..Len(b) : b[j] = list[i + j]
    BY <2>1, <2>3
  <2> QED
    BY <2>2, <2>3, <2>4
<1> HIDE DEF a, b
<1>2. RemoveRow(list, i) = a \o b
  BY DEF RemoveRow, RemoveAt, a, b
<1>3. Len(a \o b) = Len(list) - 1
  BY <1>1
<1>4. ASSUME NEW j \in 1..(Len(list) - 1)
      PROVE  /\ (a \o b)[j] = list[IF j < i THEN j ELSE j + 1]
             /\ (IF j < i THEN j ELSE j + 1) \in 1..Len(list)
  <2>1. (a \o b)[j] = IF j <= Len(a) THEN a[j] ELSE b[j - Len(a)]
    BY <1>1, <1>3
  <2>2. CASE j < i
    BY <1>1, <2>1, <2>2
  <2>3. CASE ~(j < i)
    <3>1. j - (i - 1) \in 1..Len(b) /\ i + (j - (i - 1)) = j + 1 /\ ~(j <= Len(a))
      BY <1>1, <2>3
    <3>2. b[j - (i - 1)] = list[i + (j - (i - 1))]
      BY <1>1, <3>1
    <3> QED
      BY <1>1, <2>1, <2>3, <3>1, <3>2
  <2> QED
    BY <2>2, <2>3
<1> QED
  BY <1>2, <1>3, <1>4

\* A row that is changed or removed leaves a list without duplicates.
LEMMA RowChangesOnce ==
    ASSUME IInv, NEW i \in 1..Len(tasks), RowChanges(i), NoTaskListedTwice(rows)
    PROVE  NoTaskListedTwice(rows')
<1>1. tasks \in Seq(ListedTask) /\ DOMAIN tasks = 1..Len(tasks)
  BY ScreenParts DEF IInv
<1>2. rows = tasks /\ rows' = tasks'
  BY DEF RowChanges
<1>3. ASSUME NEW c \in BOOLEAN, tasks' = [tasks EXCEPT ![i] = Toggled(tasks[i], c)]
      PROVE  NoTaskListedTwice(tasks')
  <2>1. Toggled(tasks[i], c).taskID = tasks[i].taskID
    BY <1>1, ToggledType
  <2>2. DOMAIN tasks' = DOMAIN tasks /\ \A j \in DOMAIN tasks : tasks'[j].taskID = tasks[j].taskID
    BY <1>1, <1>3, <2>1
  <2> QED
    BY <1>2, <2>2 DEF NoTaskListedTwice
<1>4. ASSUME tasks' = RemoveRow(tasks, i) PROVE NoTaskListedTwice(tasks')
  <2> DEFINE from(j) == IF j < i THEN j ELSE j + 1
  <2>1. /\ \A j \in 1..Len(tasks') : tasks'[j] = tasks[from(j)] /\ from(j) \in 1..Len(tasks)
    BY <1>1, <1>4, RowsLeft
  <2>2. DOMAIN tasks' = 1..Len(tasks')
    BY <1>1, <1>4, RemoveRowType
  <2>3. \A j, k \in 1..Len(tasks') : from(j) = from(k) => j = k
    OBVIOUS
  <2> HIDE DEF from
  <2> QED
    BY <1>1, <1>2, <2>1, <2>2, <2>3 DEF NoTaskListedTwice
<1> QED
  BY <1>2, <1>3, <1>4 DEF RowChanges, Tapped

\* A load fills an empty list without duplicates.
LEMMA ListFilledOnce ==
    ASSUME IInv, ListFilled, tasks = <<>>, NoTaskListedTwice(Head(mainq).docs)
    PROVE  NoTaskListedTwice(rows')
<1> DEFINE docs == Head(mainq).docs
<1>1. docs \in Seq(ListedDocument)
  <2>1. Head(mainq) \in ListCallback /\ Head(mainq).kind = "snapshot"
    <3>1. mainq \in Seq(ListCallback) /\ mainq # <<>>
      BY ScreenParts DEF IInv, ListFilled
    <3> QED
      BY <3>1 DEF ListFilled
  <2> QED
    BY <2>1 DEF ListCallback
<1>2. rows' = [k \in 1..Len(docs) |-> TaskOf(docs[k])]
  <2> DEFINE new == [k \in 1..Len(docs) |-> TaskOf(docs[k])]
  <2>1. rows' = <<>> \o new
    BY DEF ListFilled
  <2>2. new \in Seq(ListedTask)
    <3>1. \A k \in 1..Len(docs) : TaskOf(docs[k]) \in ListedTask
      BY <1>1, TaskOfType
    <3>2. Len(docs) \in Nat
      BY <1>1
    <3> QED
      BY <3>1, <3>2
  <2> QED
    BY <2>1, <2>2
<1>3. DOMAIN docs = 1..Len(docs)
  BY <1>1
<1> QED
  BY <1>2, <1>3 DEF NoTaskListedTwice, TaskOf

-----------------------------------------------------------------------------
(***************************************************************************)
(* Each step keeps one load at a time, and each task in one row.           *)
(***************************************************************************)

LEMMA SnapshotCallback ==
    ASSUME IInv, NEW c \in SnapshotOf(LocalView) \cup SnapshotOf(CachedView)
    PROVE  c \in ListCallback /\ c.kind = "snapshot" /\ NoTaskListedTwice(c.docs)
<1>1. PICK view \in {LocalView, CachedView} : c \in SnapshotOf(view)
  OBVIOUS
<1>2. PICK docs \in Listings(view) : c = [kind |-> "snapshot", docs |-> docs]
  BY <1>1 DEF SnapshotOf
<1>3. view \in [DocId -> Document] /\ \A d \in DocId : Complete(d, view[d])
  BY LocalViewOK DEF IInv
<1>4. docs \in Seq(ListedDocument) /\ NoTaskListedTwice(docs)
  BY <1>2, <1>3, ListingType, ListingOnce
<1> QED
  BY <1>2, <1>4 DEF ListCallback

\* One load, the list and the main queue.
LEMMA OneRowStep ==
    ASSUME SInv, ScreenStep
    PROVE  OneLoad' /\ ListsOnce(mainq)' /\ SingleLoadsListOnce'
<1>1. IInv /\ AwayIsEmpty /\ OneLoad /\ ListsOnce(mainq) /\ SingleLoadsListOnce
  BY DEF SInv
<1>2. mainq \in Seq(ListCallback) /\ fetching \in Nat /\ tasks \in Seq(ListedTask)
  BY <1>1, ScreenParts DEF IInv
<1>3. NoSnapshot(<<>>) /\ OneSnapshot(<<>>) /\ ListsOnce(<<>>) /\ NoTaskListedTwice(<<>>)
  BY DEF NoSnapshot, OneSnapshot, ListsOnce, NoTaskListedTwice
<1>4. CASE ReleaseScreen
  BY <1>3, <1>4 DEF ReleaseScreen, OneLoad, SingleLoadsListOnce
<1>5. CASE screen = "away" /\ fetching' = 1 /\ UNCHANGED <<tasks, rows, mainq, overlap>>
  BY <1>1, <1>3, <1>5 DEF OneLoad, AwayIsEmpty, SingleLoadsListOnce
<1>6. CASE Reloaded
  <2>1. /\ tasks' = <<>> /\ fetching' = fetching + 1 /\ overlap' = (overlap \/ Loading)
        /\ UNCHANGED rows
    BY <1>6, Zenon DEF Reloaded, ReloadTaskList
  <2>2. (UNCHANGED mainq) \/ (mainq # <<>> /\ mainq' = Tail(mainq))
    BY <1>6 DEF Reloaded
  <2>3. ListsOnce(mainq') /\ (OneSnapshot(mainq) => OneSnapshot(mainq'))
        /\ (NoSnapshot(mainq) => NoSnapshot(mainq'))
    BY <1>1, <1>2, <2>2, QueueTail
  <2>4. ASSUME ~overlap' PROVE ~overlap /\ fetching = 0 /\ NoSnapshot(mainq)
    <3>1. ~overlap /\ ~Loading
      BY <2>1, <2>4
    <3>2. ~(fetching > 0 \/ ~NoSnapshot(mainq))
      BY <1>1, <3>1, LoadingMeans
    <3> QED
      BY <1>2, <3>1, <3>2
  <2> QED
    BY <1>1, <2>1, <2>3, <2>4 DEF OneLoad, SingleLoadsListOnce
<1>7. ASSUME NEW i \in 1..Len(tasks), RowChanges(i)
      PROVE  OneLoad' /\ ListsOnce(mainq)' /\ SingleLoadsListOnce'
  <2>1. UNCHANGED <<fetching, mainq, overlap>> /\ tasks # <<>>
    <3>1. Len(tasks) # 0
      BY <1>2
    <3>2. tasks = <<>> => Len(tasks) = 0
      OBVIOUS
    <3> QED
      BY <1>7, <3>1, <3>2 DEF RowChanges
  <2>2. NoTaskListedTwice(rows) => NoTaskListedTwice(rows')
    BY <1>1, <1>7, RowChangesOnce
  <2> QED
    BY <1>1, <2>1, <2>2 DEF OneLoad, SingleLoadsListOnce
<1>8. ASSUME NEW c \in SnapshotOf(LocalView) \cup SnapshotOf(CachedView), QueryAnswered(c)
      PROVE  OneLoad' /\ ListsOnce(mainq)' /\ SingleLoadsListOnce'
  <2>1. c \in ListCallback /\ c.kind = "snapshot" /\ NoTaskListedTwice(c.docs)
    BY <1>1, <1>8, SnapshotCallback
  <2>2. ListsOnce(mainq') /\ (NoSnapshot(mainq) => OneSnapshot(mainq'))
    BY <1>1, <1>2, <1>8, <2>1, QueueAppend DEF QueryAnswered
  <2> QED
    BY <1>1, <1>2, <1>8, <2>2 DEF OneLoad, SingleLoadsListOnce, QueryAnswered
<1>9. CASE QueryAnswered([kind |-> "loadError"])
  <2>1. [kind |-> "loadError"] \in ListCallback
    BY DEF ListCallback
  <2>2. ListsOnce(mainq') /\ (NoSnapshot(mainq) => NoSnapshot(mainq') /\ OneSnapshot(mainq'))
    BY <1>1, <1>2, <1>9, <2>1, QueueAppend DEF QueryAnswered
  <2> QED
    BY <1>1, <1>2, <1>9, <2>2 DEF OneLoad, SingleLoadsListOnce, QueryAnswered
<1>10. ASSUME NEW d \in DocId, NEW ok \in BOOLEAN, UserTold(d, ok)
       PROVE  OneLoad' /\ ListsOnce(mainq)' /\ SingleLoadsListOnce'
  <2> DEFINE c == [kind |-> "created", doc |-> d, ok |-> ok]
  <2>1. c \in ListCallback /\ c.kind # "snapshot"
    BY DEF ListCallback
  <2>2. /\ ListsOnce(mainq') /\ (NoSnapshot(mainq) => NoSnapshot(mainq'))
        /\ OneSnapshot(mainq) => OneSnapshot(mainq')
    BY <1>1, <1>2, <1>10, <2>1, QueueAppend DEF UserTold
  <2> QED
    BY <1>1, <1>10, <2>2 DEF OneLoad, SingleLoadsListOnce, UserTold
<1>11. CASE ListFilled
  <2>1. /\ mainq # <<>> /\ Head(mainq).kind = "snapshot" /\ mainq' = Tail(mainq)
        /\ UNCHANGED <<fetching, overlap>>
    BY <1>11 DEF ListFilled
  <2>2. /\ ListsOnce(mainq') /\ NoTaskListedTwice(Head(mainq).docs) /\ ~NoSnapshot(mainq)
        /\ OneSnapshot(mainq) => OneSnapshot(mainq') /\ NoSnapshot(mainq')
    BY <1>1, <1>2, <2>1, QueueTail
  <2>3. tasks = <<>> => NoTaskListedTwice(rows')
    BY <1>1, <1>11, <2>2, ListFilledOnce
  <2> QED
    BY <1>1, <2>1, <2>2, <2>3 DEF OneLoad, SingleLoadsListOnce
<1>12. CASE NewsPassed
  <2>1. /\ mainq # <<>> /\ mainq' = Tail(mainq) /\ UNCHANGED <<tasks, rows, fetching, overlap>>
    BY <1>12 DEF NewsPassed
  <2>2. /\ ListsOnce(mainq') /\ (OneSnapshot(mainq) => OneSnapshot(mainq'))
        /\ NoSnapshot(mainq) => NoSnapshot(mainq')
    BY <1>1, <1>2, <2>1, QueueTail
  <2> QED
    BY <1>1, <2>1, <2>2 DEF OneLoad, SingleLoadsListOnce
<1>13. CASE UNCHANGED <<tasks, rows, fetching, mainq, overlap>>
  BY <1>1, <1>13 DEF OneLoad, SingleLoadsListOnce
<1> QED
  BY <1>4, <1>5, <1>6, <1>7, <1>8, <1>9, <1>10, <1>11, <1>12, <1>13 DEF ScreenStep

LEMMA RowsInitially == Init => SInv
<1> SUFFICES ASSUME Init PROVE SInv
  OBVIOUS
<1>1. IInv
  BY Initially
<1> QED
  BY <1>1
  DEF Init, SInv, AwayIsEmpty, OneLoad, ListsOnce, NoSnapshot, OneSnapshot,
      SingleLoadsListOnce, NoTaskListedTwice

LEMMA RowsInductive == SInv /\ [Next]_vars => SInv'
<1> SUFFICES ASSUME SInv, [Next]_vars PROVE SInv'
  OBVIOUS
<1>1. IInv /\ AwayIsEmpty
  BY DEF SInv
<1>2. IInv' /\ AwayIsEmpty' /\ ScreenStep
  BY <1>1, Inductive, AwayStep, ScreenSteps
<1> QED
  BY <1>2, OneRowStep DEF SInv

\* As long as no load starts before the last one has been shown, no task has
\* two rows, whatever is created, tapped, deleted and reloaded meanwhile.
THEOREM EachTaskHasOneRow == Spec => []SingleLoadsListOnce
<1>1. SInv => SingleLoadsListOnce
  BY DEF SInv
<1> QED
  BY <1>1, RowsInitially, RowsInductive, PTL DEF Spec

-----------------------------------------------------------------------------
(***************************************************************************)
(* Sixth part: while loads do not overlap and no write is refused, what    *)
(* the list shows of a task is what the server will hold.                  *)
(***************************************************************************)

(***************************************************************************)
(* The inductive invariant.                                                *)
(***************************************************************************)

\* The state that the server will hold of task d, if d exists then.
FinalStatus(d, s) == Listed(LocalView[d]) => LocalView[d].taskType = s

\* Where no queued write decides it, the cache and the server agree.
StatusesMeet ==
    \A d \in DocId :
        Listed(server[d]) /\ Listed(cache[d]) /\ Unwritten(queue, d, "taskType")
            => server[d].taskType = cache[d].taskType

AnswersFit ==
    ~overlap =>
        \A k \in 1..Len(mainq) : mainq[k].kind = "snapshot" =>
            \A i \in 1..Len(mainq[k].docs) :
                FinalStatus(mainq[k].docs[i].taskID, mainq[k].docs[i].taskType)

TasksFit ==
    ~overlap => \A i \in 1..Len(tasks) : FinalStatus(tasks[i].taskID, tasks[i].taskStatus)

MInv == HInv /\ SInv /\ StatusesMeet /\ AnswersFit /\ TasksFit

LEMMA FinalParts ==
    ASSUME MInv
    PROVE  /\ IInv /\ DInv /\ HInv /\ SInv /\ StatusesMeet /\ AnswersFit /\ TasksFit
           /\ QueueUsesKeys /\ StoreHolds /\ StoreUsesKeys /\ ScreenUsesKeys
           /\ used \subseteq DocId
BY HeldParts DEF MInv, DInv

-----------------------------------------------------------------------------
(***************************************************************************)
(* What the steps of the store do to the state of a task.                  *)
(***************************************************************************)

\* A field that the queue writes does not depend on what is under the queue.
LEMMA OverlayDecided ==
    ASSUME NEW q \in Seq(Mutation), NEW base, NEW other, NEW d \in DocId, NEW f \in Field,
           ~Unwritten(q, d, f)
    PROVE  Overlay(base, q)[d][f] = Overlay(other, q)[d][f]
<1>1. PICK k \in 1..Len(q) : Writes(q, k, d, f)
  BY DEF Unwritten
<1>2. PICK i \in 1..Len(q) : LastWriter(q, i, d, f)
  BY <1>1, LastWriterExists
<1> QED
  BY <1>2, OverlayWritten

\* Where the queue leaves the status of a task alone it leaves the task alone.
LEMMA UnwrittenTask ==
    ASSUME NEW q \in Seq(TaskMutation), NEW d \in DocId
    PROVE  /\ Unwritten(q, d, "taskType") => Unwritten(q, d, "projectID")
           /\ Unwritten(q, d, "taskType") <=> \A i \in 1..Len(q) : q[i].doc # d
<1>1. \A i \in 1..Len(q) : q[i] \in TaskMutation
  OBVIOUS
<1> QED
  BY <1>1, Lister DEF Unwritten, Writes

\* An acknowledgement changes neither what is listed nor its state.
LEMMA AcknowledgeKeepsTask ==
    ASSUME IInv, StoreHolds, Acknowledge, NEW d \in DocId, Listed(LocalView'[d])
    PROVE  Listed(LocalView[d]) /\ LocalView'[d].taskType = LocalView[d].taskType
<1>1. /\ queue # <<>> /\ queue' = Tail(queue) /\ server' = server
      /\ queue \in Seq(Mutation) /\ server \in [DocId -> Document] /\ StoreTypeOK
      /\ Tail(queue) \in Seq(TaskMutation) /\ Tail(queue) \in Seq(Mutation)
  <2>1. queue # <<>> /\ queue' = Tail(queue) /\ server' = server
    BY AcknowledgedTask
  <2>2. queue \in Seq(TaskMutation) /\ queue \in Seq(Mutation) /\ server \in [DocId -> Document]
    BY StoreParts
  <2>3. StoreTypeOK
    BY DEF IInv, StoreOK
  <2> QED
    BY <2>1, <2>2, <2>3
<1>2. ASSUME NEW f \in Field, ~Unwritten(queue', d, f)
      PROVE  LocalView'[d][f] = LocalView[d][f]
  <2>1. Overlay(Apply(server, Head(queue)), Tail(queue)) = LocalView
    BY <1>1, OverlayTail DEF LocalView
  <2>2. Overlay(server, Tail(queue))[d][f] = Overlay(Apply(server, Head(queue)), Tail(queue))[d][f]
    <3>1. ~Unwritten(Tail(queue), d, f)
      BY <1>1, <1>2
    <3> DEFINE base == Apply(server, Head(queue))
    <3> HIDE DEF base
    <3>2. Tail(queue) \in Seq(Mutation) /\ f \in Field
      BY <1>1, <1>2
    <3>3. Overlay(server, Tail(queue))[d][f] = Overlay(base, Tail(queue))[d][f]
      BY <3>1, <3>2, OverlayDecided, Zenon
    <3> QED
      BY <3>3 DEF base
  <2>3. LocalView' = Overlay(server, Tail(queue))
    BY <1>1 DEF LocalView
  <2> QED
    BY <2>1, <2>2, <2>3
<1>3. CASE ~Unwritten(queue', d, "projectID")
  <2>1. ~Unwritten(queue', d, "taskType")
    BY <1>1, <1>3, UnwrittenTask
  <2> QED
    BY <1>2, <1>3, <2>1, TaskFields DEF Listed
<1>4. CASE Unwritten(queue', d, "projectID")
  <2>1. LocalView'[d].projectID = server[d].projectID
    BY <1>1, <1>4, OverlayUnwritten, TaskFields DEF LocalView, Unwritten
  <2>2. Holds(server, queue, sent, d, "projectID") /\ Holds(server, queue, sent, d, "taskType")
    BY <2>1 DEF StoreHolds, TaskHolds, Listed
  <2>3. \A f \in {"projectID", "taskType"} : LocalView'[d][f] = LocalView[d][f]
    BY <1>1, <2>2, AcknowledgeKeepsField, TaskFields
  <2> QED
    BY <2>3 DEF Listed
<1> QED
  BY <1>3, <1>4

\* Nothing but a tap changes the state that the server will hold of a task.
LEMMA FinalKept ==
    ASSUME HInv, ~Rejects, QuietStep, NEW d \in used, NEW s, FinalStatus(d, s)
    PROVE  FinalStatus(d, s)'
<1>1. IInv /\ d \in DocId /\ StoreHolds /\ ScreenUsesKeys
  BY HeldParts DEF DInv
<1>2. /\ queue \in Seq(Mutation) /\ queue \in Seq(TaskMutation)
      /\ server \in [DocId -> Document] /\ sent \in 0..Len(queue)
  BY <1>1, StoreParts
<1>3. ASSUME Listed(LocalView'[d]) => /\ Listed(LocalView[d])
                                      /\ LocalView'[d].taskType = LocalView[d].taskType
      PROVE  FinalStatus(d, s)'
  BY <1>3 DEF FinalStatus
<1>4. ASSUME NEW m \in TaskMutation, Write(m), m.doc # d \/ m.write = NoDoc
      PROVE  FinalStatus(d, s)'
  <2>1. queue' = Append(queue, m) /\ server' = server /\ m \in Mutation
    BY <1>4, MutationKinds DEF Write
  <2>2. \A f \in Field : LocalView'[d][f] = IF m.doc = d /\ m.write[f] # Keep THEN m.write[f]
                                            ELSE LocalView[d][f]
    BY <1>1, <1>2, <2>1, OverlayAppend DEF LocalView
  <2>3. CASE m.doc # d
    BY <1>3, <2>2, <2>3, TaskFields DEF Listed
  <2>4. CASE m.write = NoDoc /\ m.doc = d
    <3>1. m.write.projectID = Nil
      BY <2>4, TaskFields DEF NoDoc
    <3>2. LocalView'[d].projectID = Nil
      BY <2>2, <2>4, <3>1, FieldNames
    <3> QED
      BY <3>2, FieldNames DEF FinalStatus, Listed
  <2> QED
    BY <1>4, <2>3, <2>4
<1>5. ASSUME UNCHANGED <<server, queue>> PROVE FinalStatus(d, s)'
  BY <1>5 DEF FinalStatus, LocalView
<1>6. ASSUME NEW e \in DocId, e \notin used, Write(Creation(e)) PROVE FinalStatus(d, s)'
  BY <1>4, <1>6, AppMutations DEF Creation
<1>7. ASSUME NEW i \in 1..Len(tasks), Write(Deletion(tasks[i].taskID)) PROVE FinalStatus(d, s)'
  <2>1. tasks[i] \in ListedTask
    BY <1>1, ScreenParts DEF IInv
  <2>2. tasks[i].taskID \in DocId
    BY <2>1 DEF ListedTask
  <2> QED
    BY <1>4, <1>7, <2>2, AppMutations DEF Deletion
<1>8. CASE Deliver
  <2>1. sent + 1 \in 1..Len(queue)
    BY <1>2, <1>8 DEF Deliver
  <2>2. LocalView' = LocalView
    BY <1>2, <1>8, <2>1, OverlayAbsorbs DEF Deliver, LocalView
  <2> QED
    BY <1>3, <2>2
<1>9. CASE Acknowledge
  BY <1>1, <1>3, <1>9, AcknowledgeKeepsTask
<1>10. ASSUME NEW e \in DocId, NEW doc, RemoteSet(e, doc), e # d PROVE FinalStatus(d, s)'
  <2>1. UNCHANGED queue /\ server'[d] = server[d]
    BY <1>1, <1>2, <1>10 DEF RemoteSet
  <2>2. LocalView'[d] = LocalView[d]
    BY <1>1, <2>1, OverlayLocal DEF LocalView
  <2> QED
    BY <1>3, <2>2
<1>11. CASE RemoteSet(d, NoDoc)
  <2>1. UNCHANGED queue /\ server'[d] = NoDoc
    BY <1>1, <1>2, <1>11 DEF RemoteSet
  <2>2. CASE Unwritten(queue, d, "projectID")
    <3>1. LocalView'[d].projectID = Nil
      <4>1. LocalView'[d].projectID = NoDoc.projectID
        BY <1>1, <1>2, <2>1, <2>2, OverlayUnwritten, TaskFields DEF LocalView, Unwritten
      <4> QED
        BY <4>1, TaskFields DEF NoDoc
    <3> QED
      BY <3>1, FieldNames DEF FinalStatus, Listed
  <2>3. CASE ~Unwritten(queue, d, "projectID")
    <3>1. ~Unwritten(queue, d, "taskType")
      BY <1>1, <1>2, <2>3, UnwrittenTask
    <3>2. \A f \in {"projectID", "taskType"} : LocalView'[d][f] = LocalView[d][f]
      BY <1>1, <1>2, <2>1, <2>3, <3>1, OverlayDecided, TaskFields DEF LocalView
    <3> QED
      BY <1>3, <3>2 DEF Listed
  <2> QED
    BY <2>2, <2>3
<1>12. ASSUME NEW e \in DocId, NEW doc, RemoteSet(e, doc), e \notin used \/ doc = NoDoc
       PROVE  FinalStatus(d, s)'
  <2>1. CASE e = d
    BY <1>11, <1>12, <2>1
  <2> QED
    BY <1>10, <1>12, <2>1
<1>13. CASE UNCHANGED storeVars \/ Reconnect \/ Synchronise
  BY <1>5, <1>13 DEF storeVars, Reconnect, Synchronise
<1> QED
  BY <1>6, <1>7, <1>8, <1>9, <1>12, <1>13 DEF QuietStep, Reject

\* What one step of the store leaves of the agreement about task d.
LEMMA StatusesMeetStep ==
    ASSUME MInv, StoreStep, ~Rejects
    PROVE  StatusesMeet'
<1> SUFFICES ASSUME NEW d \in DocId, Listed(server'[d]), Listed(cache'[d]),
                    Unwritten(queue', d, "taskType")
             PROVE  server'[d].taskType = cache'[d].taskType
  BY DEF StatusesMeet
<1>1. /\ IInv /\ StoreHolds /\ StoreUsesKeys
      /\ Listed(server[d]) /\ Listed(cache[d]) /\ Unwritten(queue, d, "taskType")
           => server[d].taskType = cache[d].taskType
  BY FinalParts DEF StatusesMeet
<1>2. /\ queue \in Seq(Mutation) /\ queue \in Seq(TaskMutation) /\ StoreTypeOK
      /\ server \in [DocId -> Document] /\ sent \in 0..Len(queue) /\ synced[d] \in 0..Len(queue)
      /\ Len(queue) \in Nat
  <2>1. StoreTypeOK
    BY <1>1 DEF IInv, StoreOK
  <2> QED
    BY <1>1, <2>1, StoreParts
<1>3. ASSUME UNCHANGED <<server, cache, queue>> PROVE server'[d].taskType = cache'[d].taskType
  BY <1>1, <1>3
<1>4. ASSUME NEW m \in TaskMutation, Write(m) PROVE server'[d].taskType = cache'[d].taskType
  <2>1. queue' = Append(queue, m) /\ UNCHANGED <<server, cache>> /\ m \in Mutation
    BY <1>4, MutationKinds DEF Write
  <2>2. \A i \in 1..Len(queue) : i \in 1..Len(queue') /\ queue'[i] = queue[i]
    BY <1>2, <2>1
  <2>3. Unwritten(queue, d, "taskType")
    BY <2>2 DEF Unwritten, Writes
  <2> QED
    BY <1>1, <2>1, <2>3
<1>5. ASSUME NEW e \in DocId, Write(Creation(e)) PROVE server'[d].taskType = cache'[d].taskType
  BY <1>4, <1>5, AppMutations
<1>6. ASSUME NEW e \in DocId, NEW c \in BOOLEAN, Write(StatusMutation(e, c))
      PROVE  server'[d].taskType = cache'[d].taskType
  BY <1>4, <1>6, AppMutations
<1>7. ASSUME NEW i \in 1..Len(tasks), Write(Deletion(tasks[i].taskID))
      PROVE  server'[d].taskType = cache'[d].taskType
  <2>1. tasks[i] \in ListedTask
    BY <1>1, ScreenParts DEF IInv
  <2>2. tasks[i].taskID \in DocId
    BY <2>1 DEF ListedTask
  <2> QED
    BY <1>4, <1>7, <2>2, AppMutations
<1>8. CASE Deliver
  <2>1. /\ sent + 1 \in 1..Len(queue) /\ UNCHANGED <<cache, queue>>
        /\ server' = Apply(server, queue[sent + 1])
    BY <1>2, <1>8 DEF Deliver
  <2>2. queue[sent + 1].doc # d /\ queue[sent + 1] \in Mutation
    BY <1>2, <2>1, UnwrittenTask
  <2>3. server'[d] = server[d]
    BY <1>2, <2>1, <2>2 DEF Apply, Mutation
  <2> QED
    BY <1>1, <2>1, <2>3
<1>9. CASE Acknowledge
  <2>1. /\ queue # <<>> /\ queue' = Tail(queue) /\ server' = server
        /\ sent \in 1..Len(queue) /\ queue[1] \in TaskMutation /\ 1 \in 1..Len(queue)
        /\ synced[d] # 0 \/ queue[1].doc # d => cache'[d] = cache[d]
        /\ synced[d] = 0 /\ queue[1].doc = d => cache'[d] = Merge(cache[d], queue[1].write)
    BY <1>1, <1>9, AcknowledgedTask
  <2>2. \A i \in 1..Len(queue) : i > 1 => ~Writes(queue, i, d, "taskType")
    BY <1>2, <2>1, UnwrittenTail
  <2>3. Holds(server, queue, sent, d, "taskType")
    BY <1>1, <2>1 DEF StoreHolds, TaskHolds
  <2>4. CASE queue[1].doc # d
    <3>1. \A i \in 1..Len(queue) : i > 1 \/ i = 1
      OBVIOUS
    <3>2. Unwritten(queue, d, "taskType")
      BY <2>2, <2>4, <3>1 DEF Unwritten, Writes
    <3> QED
      BY <1>1, <2>1, <2>4, <3>2
  <2>5. CASE queue[1].doc = d
    <3>1. queue[1].write.taskType # Keep
      BY <2>1, Lister
    <3>2. \A k \in 1..Len(queue) : LastOfFirst(queue, k, 1, d, "taskType")
      BY <2>2, <2>5, <3>1 DEF LastOfFirst, Writes
    <3>3. server[d].taskType = queue[1].write.taskType
      BY <2>1, <2>3, <3>2 DEF Holds
    <3>4. CASE synced[d] = 0
      BY <2>1, <2>5, <3>1, <3>3, <3>4, TaskFields DEF Merge
    <3>5. CASE synced[d] # 0
      <4>1. Holds(cache, queue, synced[d], d, "taskType")
        BY <1>1, <2>1, <3>5 DEF StoreHolds, TaskHolds
      <4>2. synced[d] \in 1..Len(queue)
        BY <1>2, <3>5
      <4>3. cache[d].taskType = queue[1].write.taskType
        BY <2>1, <3>2, <4>1, <4>2 DEF Holds
      <4> QED
        BY <2>1, <3>3, <3>5, <4>3
    <3> QED
      BY <3>4, <3>5
  <2> QED
    BY <2>4, <2>5
<1>10. CASE Synchronise
  BY <1>10 DEF Synchronise
<1>11. ASSUME NEW e \in DocId, NEW doc, RemoteSet(e, doc), e \notin used \/ doc = NoDoc
       PROVE  server'[d].taskType = cache'[d].taskType
  <2>1. UNCHANGED <<cache, queue>> /\ server' = [server EXCEPT ![e] = doc]
    BY <1>11 DEF RemoteSet
  <2>2. CASE d = e /\ doc = NoDoc
    <3>1. server'[d] = NoDoc
      BY <1>2, <2>1, <2>2
    <3> QED
      BY <3>1, NoDocType
  <2>3. CASE d = e /\ e \notin used
    BY <1>1, <2>1, <2>3, FieldNames DEF StoreUsesKeys, UsedIn, Listed
  <2>4. CASE d # e
    <3>1. server'[d] = server[d]
      BY <1>2, <2>1, <2>4
    <3> QED
      BY <1>1, <2>1, <3>1
  <2> QED
    BY <1>11, <2>2, <2>3, <2>4
<1>12. CASE UNCHANGED storeVars \/ Reconnect
  BY <1>3, <1>12 DEF storeVars, Reconnect
<1> QED
  BY <1>5, <1>6, <1>7, <1>8, <1>9, <1>10, <1>11, <1>12 DEF StoreStep, QuietStep, Reject

-----------------------------------------------------------------------------
(***************************************************************************)
(* What the screen holds of the state of a task.                           *)
(***************************************************************************)

\* A row, an answer that waits, and an answer given now, say s of task d.
Shown(d, s) == \E i \in 1..Len(tasks) : tasks[i].taskID = d /\ tasks[i].taskStatus = s

SaidBy(docs, d, s) == \E i \in 1..Len(docs) : docs[i].taskID = d /\ docs[i].taskType = s

Waiting(d, s) ==
    \E k \in 1..Len(mainq) : mainq[k].kind = "snapshot" /\ SaidBy(mainq[k].docs, d, s)

Offered(d, s) ==
    \E c \in SnapshotOf(LocalView) \cup SnapshotOf(CachedView) : SaidBy(c.docs, d, s)

\* What a query finds is what the server will hold, though the cache answers.
LEMMA OfferFits ==
    ASSUME MInv, NEW d, NEW s, Offered(d, s)
    PROVE  d \in used /\ FinalStatus(d, s)
<1>1. PICK view \in {LocalView, CachedView} : \E c \in SnapshotOf(view) : SaidBy(c.docs, d, s)
  BY DEF Offered
<1>2. PICK docs \in Listings(view) : SaidBy(docs, d, s)
  BY <1>1 DEF SnapshotOf
<1>3. PICK i \in 1..Len(docs) : docs[i].taskID = d /\ docs[i].taskType = s
  BY <1>2 DEF SaidBy
<1>4. /\ IInv /\ StatusesMeet /\ StoreUsesKeys /\ used \subseteq DocId
      /\ server \in [DocId -> Document] /\ cache \in [DocId -> Document]
      /\ queue \in Seq(UsedMutation(used)) /\ UsedIn(server, used) /\ UsedIn(cache, used)
      /\ queue \in Seq(TaskMutation) /\ queue \in Seq(Mutation)
  BY FinalParts, StoreParts DEF StoreUsesKeys
<1>5. /\ view \in [DocId -> Document] /\ \A e \in DocId : Complete(e, view[e])
      /\ UsedIn(view, used)
  <2>1. UsedIn(LocalView, used) /\ UsedIn(CachedView, used)
    BY <1>4, OverlayUsed DEF LocalView, CachedView
  <2> QED
    BY <1>4, <2>1, LocalViewOK DEF IInv
<1>6. d \in DocId /\ Listed(view[d]) /\ view[d].taskType = s
  <2> DEFINE found == {e \in DocId : Listed(view[e])}
  <2>1. PICK keys \in SeqOf(found, Cardinality(found)) : docs = [j \in DOMAIN keys |-> view[keys[j]]]
    BY <1>2 DEF Listings
  <2>2. docs \in Seq(ListedDocument)
    BY <1>2, <1>5, ListingType
  <2>3. i \in DOMAIN keys
    <3>1. DOMAIN docs = 1..Len(docs)
      BY <2>2
    <3> QED
      BY <2>1, <3>1
  <2>4. keys[i] \in found /\ docs[i] = view[keys[i]]
    BY <2>1, <2>3 DEF SeqOf
  <2> QED
    BY <1>3, <1>5, <2>4, FieldNames DEF Complete, Listed
<1>7. d \in used
  BY <1>5, <1>6, FieldNames DEF UsedIn, Listed
<1>8. ASSUME Listed(LocalView[d]), Listed(CachedView[d])
      PROVE  LocalView[d].taskType = CachedView[d].taskType
  <2>1. CASE ~Unwritten(queue, d, "taskType")
    <3>1. d \in DocId /\ queue \in Seq(Mutation) /\ "taskType" \in Field
      BY <1>4, <1>6, TaskFields
    <3>2. Overlay(server, queue)[d]["taskType"] = Overlay(cache, queue)[d]["taskType"]
      BY <2>1, <3>1, OverlayDecided, Zenon
    <3> QED
      BY <3>2 DEF LocalView, CachedView
  <2>2. CASE Unwritten(queue, d, "taskType")
    <3>1. \A f \in {"projectID", "taskType"} : Unwritten(queue, d, f)
      BY <1>4, <1>6, <2>2, UnwrittenTask
    <3>2. \A f \in {"projectID", "taskType"} :
             LocalView[d][f] = server[d][f] /\ CachedView[d][f] = cache[d][f]
      BY <1>4, <1>6, <3>1, OverlayUnwritten, TaskFields DEF LocalView, CachedView, Unwritten
    <3>3. Listed(server[d]) /\ Listed(cache[d])
      BY <1>8, <3>2 DEF Listed
    <3> QED
      BY <1>4, <1>6, <2>2, <3>2, <3>3 DEF StatusesMeet
  <2> QED
    BY <2>1, <2>2
<1> QED
  BY <1>1, <1>6, <1>7, <1>8 DEF FinalStatus

\* The rows of two lists, one after the other.
LEMMA AppendedRows ==
    ASSUME NEW S, NEW a \in Seq(S), NEW b \in Seq(S), NEW j \in 1..Len(a \o b)
    PROVE  \/ j \in 1..Len(a) /\ (a \o b)[j] = a[j]
           \/ \E k \in 1..Len(b) : (a \o b)[j] = b[k]
<1>1. Len(a) \in Nat /\ Len(b) \in Nat /\ Len(a \o b) = Len(a) + Len(b)
  OBVIOUS
<1>2. CASE j <= Len(a)
  BY <1>1, <1>2
<1>3. CASE ~(j <= Len(a))
  <2>1. j - Len(a) \in 1..Len(b) /\ (a \o b)[j] = b[j - Len(a)]
    BY <1>1, <1>3
  <2> QED
    BY <2>1
<1> QED
  BY <1>2, <1>3

LEMMA ShownIsUsed ==
    ASSUME MInv, NEW d, NEW s, Shown(d, s) \/ Waiting(d, s)
    PROVE  d \in used
<1>1. tasks \in Seq(UsedTask(used)) /\ mainq \in Seq(UsedCallback(used)) /\ IInv
  BY FinalParts DEF ScreenUsesKeys
<1>2. CASE Shown(d, s)
  <2>1. \A i \in 1..Len(tasks) : tasks[i] \in UsedTask(used)
    BY <1>1
  <2> QED
    BY <1>2, <2>1 DEF Shown, UsedTask
<1>3. CASE Waiting(d, s)
  <2>1. PICK k \in 1..Len(mainq) : mainq[k].kind = "snapshot" /\ SaidBy(mainq[k].docs, d, s)
    BY <1>3 DEF Waiting
  <2>2. mainq[k] \in UsedCallback(used)
    BY <1>1
  <2>3. /\ \A i \in DOMAIN mainq[k].docs : mainq[k].docs[i].taskID \in used
        /\ mainq[k] \in ListCallback
    BY <2>1, <2>2 DEF UsedCallback
  <2>4. mainq[k].docs \in Seq(ListedDocument)
    BY <2>1, <2>3 DEF ListCallback
  <2>5. DOMAIN mainq[k].docs = 1..Len(mainq[k].docs)
    BY <2>4
  <2> QED
    BY <2>1, <2>3, <2>5 DEF SaidBy
<1> QED
  BY <1>2, <1>3

\* While loads do not overlap, a quiet step shows and announces nothing but
\* what was shown or announced before, or is answered by this step.
LEMMA SayingStep ==
    ASSUME MInv, ScreenStep, ~\E i \in 1..Len(tasks), c \in BOOLEAN : Tapped(i, c),
           ~overlap', NEW d, NEW s, Shown(d, s)' \/ Waiting(d, s)'
    PROVE  ~overlap /\ (Shown(d, s) \/ Waiting(d, s) \/ Offered(d, s))
<1>1. /\ IInv /\ mainq \in Seq(ListCallback) /\ fetching \in Nat /\ tasks \in Seq(ListedTask)
  BY FinalParts, ScreenParts DEF IInv
<1>2. ASSUME mainq # <<>>, mainq' = Tail(mainq), Waiting(d, s)' PROVE Waiting(d, s)
  <2>1. \A k \in 1..Len(Tail(mainq)) : k + 1 \in 1..Len(mainq) /\ Tail(mainq)[k] = mainq[k + 1]
    BY <1>1, <1>2
  <2> QED
    BY <1>2, <2>1 DEF Waiting
<1>3. ASSUME NEW c \in ListCallback, mainq' = Append(mainq, c), Waiting(d, s)'
      PROVE  Waiting(d, s) \/ (c.kind = "snapshot" /\ SaidBy(c.docs, d, s))
  <2>1. \A k \in 1..Len(Append(mainq, c)) :
           \/ k \in 1..Len(mainq) /\ Append(mainq, c)[k] = mainq[k]
           \/ Append(mainq, c)[k] = c
    BY <1>1, <1>3
  <2> QED
    BY <1>3, <2>1 DEF Waiting
<1>4. ASSUME tasks' = <<>> PROVE ~Shown(d, s)'
  BY <1>4 DEF Shown
<1>5. ASSUME UNCHANGED tasks, Shown(d, s)' PROVE Shown(d, s)
  BY <1>5 DEF Shown
<1>6. ASSUME UNCHANGED mainq, Waiting(d, s)' PROVE Waiting(d, s)
  BY <1>6 DEF Waiting
<1>7. CASE ReleaseScreen
  BY <1>4, <1>7 DEF ReleaseScreen, Waiting
<1>8. CASE Reloaded
  <2>1. tasks' = <<>> /\ overlap' = (overlap \/ Loading)
    BY <1>8, Zenon DEF Reloaded, ReloadTaskList
  <2>2. (UNCHANGED mainq) \/ (mainq # <<>> /\ mainq' = Tail(mainq))
    BY <1>8 DEF Reloaded
  <2>3. ~overlap
    BY <2>1
  <2> QED
    BY <1>2, <1>4, <1>6, <2>1, <2>2, <2>3
<1>9. ASSUME NEW i \in 1..Len(tasks), RowChanges(i)
      PROVE  ~overlap /\ (Shown(d, s) \/ Waiting(d, s))
  <2>1. tasks' = RemoveRow(tasks, i) /\ UNCHANGED <<mainq, overlap>>
    BY <1>9 DEF RowChanges
  <2>2. \A j \in 1..Len(tasks') : \E k \in 1..Len(tasks) : tasks'[j] = tasks[k]
    BY <1>1, <2>1, RowsLeft
  <2>3. Shown(d, s)' => Shown(d, s)
    BY <2>2 DEF Shown
  <2> QED
    BY <1>6, <2>1, <2>3
<1>10. ASSUME NEW c \in SnapshotOf(LocalView) \cup SnapshotOf(CachedView), QueryAnswered(c)
       PROVE  ~overlap /\ (Shown(d, s) \/ Waiting(d, s) \/ Offered(d, s))
  <2>1. c \in ListCallback
    BY <1>1, <1>10, SnapshotCallback
  <2>2. Waiting(d, s)' => Waiting(d, s) \/ SaidBy(c.docs, d, s)
    BY <1>3, <1>10, <2>1 DEF QueryAnswered
  <2> QED
    BY <1>5, <1>10, <2>2 DEF QueryAnswered, Offered
<1>11. CASE QueryAnswered([kind |-> "loadError"])
  <2>1. [kind |-> "loadError"] \in ListCallback
    BY DEF ListCallback
  <2>2. Waiting(d, s)' => Waiting(d, s)
    BY <1>3, <1>11, <2>1 DEF QueryAnswered
  <2> QED
    BY <1>5, <1>11, <2>2 DEF QueryAnswered
<1>12. ASSUME NEW e \in DocId, NEW ok \in BOOLEAN, UserTold(e, ok)
       PROVE  ~overlap /\ (Shown(d, s) \/ Waiting(d, s))
  <2> DEFINE c == [kind |-> "created", doc |-> e, ok |-> ok]
  <2>1. c \in ListCallback /\ c.kind # "snapshot"
    BY DEF ListCallback
  <2>2. Waiting(d, s)' => Waiting(d, s)
    BY <1>3, <1>12, <2>1 DEF UserTold
  <2> QED
    BY <1>5, <1>12, <2>2 DEF UserTold
<1>13. CASE ListFilled
  <2> DEFINE docs == Head(mainq).docs
  <2>1. /\ mainq # <<>> /\ Head(mainq).kind = "snapshot" /\ mainq' = Tail(mainq)
        /\ UNCHANGED overlap /\ Head(mainq) = mainq[1] /\ 1 \in 1..Len(mainq)
        /\ tasks' = tasks \o [i \in 1..Len(docs) |-> TaskOf(docs[i])]
    BY <1>1, <1>13 DEF ListFilled
  <2>2. docs \in Seq(ListedDocument)
    <3>1. Head(mainq) \in ListCallback
      BY <1>1, <2>1
    <3> QED
      BY <2>1, <3>1 DEF ListCallback
  <2>3. Shown(d, s)' => Shown(d, s) \/ SaidBy(docs, d, s)
    <3> DEFINE new == [i \in 1..Len(docs) |-> TaskOf(docs[i])]
    <3>1. new \in Seq(ListedTask) /\ Len(new) = Len(docs)
      <4>1. \A k \in 1..Len(docs) : TaskOf(docs[k]) \in ListedTask
        BY <2>2, TaskOfType
      <4>2. Len(docs) \in Nat
        BY <2>2
      <4> QED
        BY <4>1, <4>2
    <3>2. \A k \in 1..Len(docs) : new[k].taskID = docs[k].taskID /\ new[k].taskStatus = docs[k].taskType
      BY DEF TaskOf
    <3> HIDE DEF new
    <3>3. \A j \in 1..Len(tasks \o new) :
             \/ j \in 1..Len(tasks) /\ (tasks \o new)[j] = tasks[j]
             \/ \E k \in 1..Len(new) : (tasks \o new)[j] = new[k]
      BY <1>1, <3>1, AppendedRows
    <3>4. tasks' = tasks \o new
      BY <2>1 DEF new
    <3>5. ASSUME NEW j \in 1..Len(tasks'), tasks'[j].taskID = d, tasks'[j].taskStatus = s
          PROVE  Shown(d, s) \/ SaidBy(docs, d, s)
      <4>1. CASE j \in 1..Len(tasks) /\ (tasks \o new)[j] = tasks[j]
        BY <3>4, <3>5, <4>1 DEF Shown
      <4>2. ASSUME NEW k \in 1..Len(new), (tasks \o new)[j] = new[k]
            PROVE  SaidBy(docs, d, s)
        <5>1. new[k].taskID = d /\ new[k].taskStatus = s /\ k \in 1..Len(docs)
          BY <3>1, <3>4, <3>5, <4>2
        <5> QED
          BY <3>2, <5>1 DEF SaidBy
      <4> QED
        BY <3>3, <3>4, <3>5, <4>1, <4>2
    <3> QED
      BY <3>5 DEF Shown
  <2>4. SaidBy(docs, d, s) => Waiting(d, s)
    BY <2>1 DEF Waiting
  <2> QED
    BY <1>2, <2>1, <2>3, <2>4
<1>14. CASE NewsPassed
  BY <1>2, <1>5, <1>14 DEF NewsPassed
<1>15. CASE UNCHANGED <<tasks, mainq, overlap>>
  BY <1>5, <1>6, <1>15
<1> QED
  BY <1>7, <1>8, <1>9, <1>10, <1>11, <1>12, <1>13, <1>14, <1>15 DEF ScreenStep

-----------------------------------------------------------------------------
(***************************************************************************)
(* Each step keeps the rows and the waiting answers right.                 *)
(***************************************************************************)

\* The two invariants, about one task.
LEMMA FitsMeans ==
    ASSUME MInv, ~overlap, NEW d, NEW s, Shown(d, s) \/ Waiting(d, s)
    PROVE  FinalStatus(d, s)
<1>1. AnswersFit /\ TasksFit
  BY FinalParts
<1> QED
  BY <1>1 DEF AnswersFit, TasksFit, Shown, Waiting, SaidBy

LEMMA FitsNext ==
    ASSUME \A d, s : ~overlap' /\ (Shown(d, s)' \/ Waiting(d, s)') => FinalStatus(d, s)'
    PROVE  AnswersFit' /\ TasksFit'
<1>1. ASSUME ~overlap', NEW i \in 1..Len(tasks')
      PROVE  FinalStatus(tasks[i].taskID, tasks[i].taskStatus)'
  <2>1. PICK d, s : d = tasks'[i].taskID /\ s = tasks'[i].taskStatus
    OBVIOUS
  <2>2. Shown(d, s)'
    BY <1>1, <2>1 DEF Shown
  <2> QED
    BY <1>1, <2>1, <2>2 DEF FinalStatus
<1>2. ASSUME ~overlap', NEW k \in 1..Len(mainq'), mainq'[k].kind = "snapshot",
             NEW i \in 1..Len(mainq'[k].docs)
      PROVE  FinalStatus(mainq[k].docs[i].taskID, mainq[k].docs[i].taskType)'
  <2>1. PICK d, s : d = mainq'[k].docs[i].taskID /\ s = mainq'[k].docs[i].taskType
    OBVIOUS
  <2>2. Waiting(d, s)'
    BY <1>2, <2>1 DEF Waiting, SaidBy
  <2> QED
    BY <1>2, <2>1, <2>2 DEF FinalStatus
<1> QED
  BY <1>1, <1>2 DEF AnswersFit, TasksFit

LEMMA QuietFits ==
    ASSUME MInv, ~Rejects, QuietStep, ScreenStep,
           ~\E i \in 1..Len(tasks), c \in BOOLEAN : Tapped(i, c)
    PROVE  AnswersFit' /\ TasksFit'
<1>1. ASSUME NEW d, NEW s, ~overlap', Shown(d, s)' \/ Waiting(d, s)' PROVE FinalStatus(d, s)'
  <2>1. ~overlap /\ (Shown(d, s) \/ Waiting(d, s) \/ Offered(d, s))
    BY <1>1, SayingStep
  <2>2. d \in used /\ FinalStatus(d, s)
    BY <2>1, FitsMeans, ShownIsUsed, OfferFits
  <2> QED
    BY <2>2, FinalParts, FinalKept
<1> QED
  BY <1>1, FitsNext

\* A tap on a row writes what the row then shows, and no other row shows the
\* same task.
LEMMA TapFits ==
    ASSUME MInv, NEW i \in 1..Len(tasks), NEW c \in BOOLEAN, Tapped(i, c)
    PROVE  AnswersFit' /\ TasksFit'
<1>1. /\ IInv /\ SInv /\ TasksFit /\ tasks \in Seq(ListedTask) /\ queue \in Seq(Mutation)
      /\ \A j \in 1..Len(tasks) : tasks[j] \in ListedTask
  BY FinalParts, ScreenParts, StoreParts DEF IInv
<1>2. /\ tasks' = [tasks EXCEPT ![i] = Toggled(tasks[i], c)] /\ UNCHANGED <<mainq, overlap>>
      /\ Len(tasks') = Len(tasks) /\ \A j \in 1..Len(tasks) : j # i => tasks'[j] = tasks[j]
      /\ tasks'[i] = Toggled(tasks[i], c)
  BY <1>1 DEF Tapped
<1> DEFINE m == StatusMutation(tasks[i].taskID, c)
<1>3. /\ queue' = Append(queue, m) /\ server' = server /\ m \in Mutation
      /\ m.doc = tasks[i].taskID /\ tasks[i].taskID \in DocId
      /\ m.write.projectID = Keep /\ m.write.taskType = Toggled(tasks[i], c).taskStatus
  <2>1. tasks[i].taskID \in DocId /\ tasks[i] \in Task
    BY <1>1 DEF ListedTask
  <2>2. m \in Mutation
    BY <2>1, AppMutations, MutationKinds
  <2>3. m.write.projectID = Keep /\ m.write.taskType = Toggled(tasks[i], c).taskStatus
    BY <2>1 DEF StatusMutation, StatusWrite, Toggled, Task
  <2> QED
    BY <2>1, <2>2, <2>3 DEF Tapped, Write, StatusMutation
<1> HIDE DEF m
<1>4. ASSUME NEW d \in DocId, NEW f \in Field
      PROVE  LocalView'[d][f] = IF m.doc = d /\ m.write[f] # Keep THEN m.write[f] ELSE LocalView[d][f]
  <2>1. Overlay(server, Append(queue, m))[d][f] =
          IF m.doc = d /\ m.write[f] # Keep THEN m.write[f] ELSE Overlay(server, queue)[d][f]
    BY <1>1, <1>3, OverlayAppend
  <2> QED
    BY <1>3, <2>1 DEF LocalView
<1>5. AnswersFit'
  <2>1. tasks # <<>>
    <3>1. tasks = <<>> => Len(tasks) = 0
      OBVIOUS
    <3> QED
      BY <1>1, <3>1
  <2>2. ~overlap => NoSnapshot(mainq)
    BY <1>1, <2>1 DEF SInv, OneLoad
  <2> QED
    BY <1>2, <2>2 DEF AnswersFit, NoSnapshot
<1>6. ASSUME ~overlap, NEW j \in 1..Len(tasks)
      PROVE  FinalStatus(tasks[j].taskID, tasks[j].taskStatus)'
  <2>1. CASE j = i
    <3>1. /\ LocalView'[tasks[i].taskID].taskType = m.write.taskType
          /\ tasks'[i].taskID = tasks[i].taskID
      <4>1. m.write.taskType # Keep
        <5>1. m.write.taskType \in {"ongoing", "completed"}
          BY <1>1, <1>3 DEF Toggled, ListedTask, Task
        <5> QED
          BY <5>1, FieldNames
      <4> QED
        BY <1>1, <1>2, <1>3, <1>4, <4>1, TaskFields, ToggledType
    <3> QED
      BY <1>2, <1>3, <2>1, <3>1 DEF FinalStatus
  <2>2. CASE j # i
    <3>1. tasks[j].taskID # tasks[i].taskID /\ tasks[j].taskID \in DocId
      <4>1. DOMAIN tasks = 1..Len(tasks) /\ tasks # <<>>
        <5>1. tasks = <<>> => Len(tasks) = 0
          OBVIOUS
        <5> QED
          BY <1>1, <5>1
      <4>2. NoTaskListedTwice(tasks)
        BY <1>1, <1>6, <4>1 DEF SInv, IInv, SingleLoadsListOnce, ShownMatchesModel
      <4> QED
        BY <1>1, <2>2, <4>1, <4>2 DEF NoTaskListedTwice, ListedTask
    <3>2. \A f \in Field : LocalView'[tasks[j].taskID][f] = LocalView[tasks[j].taskID][f]
      BY <1>3, <1>4, <3>1
    <3>3. FinalStatus(tasks[j].taskID, tasks[j].taskStatus)
      BY <1>1, <1>6 DEF TasksFit
    <3> QED
      BY <1>2, <2>2, <3>2, <3>3, TaskFields DEF FinalStatus, Listed
  <2> QED
    BY <2>1, <2>2
<1> QED
  BY <1>2, <1>5, <1>6 DEF TasksFit

LEMMA StatusesInitially == Init => MInv
<1> SUFFICES ASSUME Init PROVE MInv
  OBVIOUS
<1>1. HInv /\ SInv
  BY HeldInitially, RowsInitially
<1>2. StatusesMeet
  BY NoDocType DEF Init, StatusesMeet
<1>3. AnswersFit /\ TasksFit
  BY DEF Init, AnswersFit, TasksFit
<1> QED
  BY <1>1, <1>2, <1>3 DEF MInv

LEMMA StatusesInductive == ~Rejects /\ MInv /\ [Next]_vars => MInv'
<1> SUFFICES ASSUME ~Rejects, MInv, [Next]_vars PROVE MInv'
  OBVIOUS
<1>1. HInv /\ SInv /\ IInv /\ ScreenUsesKeys
  BY FinalParts
<1>2. HInv' /\ SInv'
  BY <1>1, HeldInductive, RowsInductive
<1>3. StatusesMeet'
  BY <1>1, StoreSteps, StatusesMeetStep
<1>4. AnswersFit' /\ TasksFit'
  BY <1>1, TapOrQuiet, ScreenSteps, TapFits, QuietFits
<1> QED
  BY <1>2, <1>3, <1>4 DEF MInv

\* As long as loads do not overlap and no write is refused, the checkbox of a
\* listed task shows the state the server will hold when the queue has
\* drained, whether the list was filled by the server or from the cache, and
\* whatever is resent, tapped, deleted and acknowledged meanwhile.
THEOREM CheckboxesAreFinal == Spec => []CheckboxTellsFinalState
<1>1. MInv => CheckboxTellsFinalState
  <2> SUFFICES ASSUME MInv PROVE CheckboxTellsFinalState
    OBVIOUS
  <2>1. TasksFit /\ DOMAIN tasks = 1..Len(tasks)
    BY FinalParts, ScreenParts DEF IInv
  <2> QED
    BY <2>1 DEF TasksFit, FinalStatus, CheckboxTellsFinalState
<1>2. Rejects => CheckboxTellsFinalState
  BY DEF CheckboxTellsFinalState
<1>3. CASE ~Rejects
  <2>1. MInv /\ [Next]_vars => MInv'
    BY <1>3, StatusesInductive
  <2> QED
    BY <1>1, <2>1, StatusesInitially, PTL DEF Spec
<1>4. CASE Rejects
  <2>1. CheckboxTellsFinalState
    BY <1>2, <1>4
  <2> QED
    BY <2>1, PTL
<1> QED
  BY <1>3, <1>4

-----------------------------------------------------------------------------
(***************************************************************************)
(* The list and the Firestore client.                                      *)
(***************************************************************************)

LEMMA ClientSteps ==
    ASSUME IInv, [Next]_vars
    PROVE  [StoreNext]_storeVars
<1>1. ASSUME NEW m \in TaskMutation, Len(queue) < MaxWrites, Write(m) PROVE StoreNext
  BY <1>1, MutationKinds DEF StoreNext
<1>2. ASSUME NEW d \in DocId, NEW doc \in Document, RemoteSet(d, doc) PROVE StoreNext
  BY <1>2 DEF StoreNext
<1>3. ASSUME NEW i \in DOMAIN rows,
             CellForRow(i) \/ ResolvedButtonTapped(i) \/ DeleteRow(i) \/ ShowMoreTask(i)
      PROVE  [StoreNext]_storeVars
  <2>1. \A j \in DOMAIN tasks : tasks[j].taskID \in DocId
    BY ScreenParts DEF IInv, ListedTask
  <2>2. \A d \in DocId, c \in BOOLEAN : StatusMutation(d, c) \in TaskMutation
    BY DEF TaskMutation
  <2>3. CASE CellForRow(i) \/ ShowMoreTask(i)
    BY <2>3 DEF CellForRow, ShowMoreTask
  <2>4. CASE ResolvedButtonTapped(i)
    <3>1. CASE i \in DOMAIN tasks
      <4>1. (rows[i].taskStatus # "completed") \in BOOLEAN
        OBVIOUS
      <4>2. /\ Len(queue) < MaxWrites
            /\ Write(StatusMutation(tasks[i].taskID, rows[i].taskStatus # "completed"))
        BY <2>4, <3>1 DEF ResolvedButtonTapped, StatusMutation
      <4>3. StatusMutation(tasks[i].taskID, rows[i].taskStatus # "completed") \in TaskMutation
        BY <2>1, <2>2, <3>1, <4>1
      <4> QED
        BY <1>1, <4>2, <4>3
    <3>2. CASE i \notin DOMAIN tasks
      BY <2>4, <3>2 DEF ResolvedButtonTapped
    <3> QED
      BY <3>1, <3>2
  <2>5. CASE DeleteRow(i)
    <3>1. CASE i \in DOMAIN tasks
      <4>1. Len(queue) < MaxWrites /\ Write(Deletion(tasks[i].taskID))
        BY <2>5, <3>1 DEF DeleteRow
      <4> QED
        BY <1>1, <2>1, <3>1, <4>1 DEF TaskMutation
    <3>2. CASE i \notin DOMAIN tasks
      BY <2>5, <3>2 DEF DeleteRow
    <3> QED
      BY <3>1, <3>2
  <2> QED
    BY <1>3, <2>3, <2>4, <2>5
<1>4. CASE UserActs
  <2>1. CASE Open \/ Back \/ Refresh \/ AddTaskButtonTapped \/ SwipeSheetAway
    BY <2>1 DEF Open, Back, Refresh, AddTaskButtonTapped, SwipeSheetAway, CloseSheet
  <2>2. ASSUME NEW d \in DocId, CreateTaskButtonTapped(d) PROVE StoreNext
    <3>1. Len(queue) < MaxWrites /\ Write(Creation(d))
      BY <2>2 DEF CreateTaskButtonTapped
    <3> QED
      BY <1>1, <3>1 DEF TaskMutation
  <2> QED
    BY <1>3, <1>4, <2>1, <2>2 DEF UserActs, RowTouched
<1>5. CASE ClientActs
  BY <1>5
  DEF ClientActs, QueryServer, QueryCache, QueryFails, AnswerQuery, WriteDelivered,
      WriteAcknowledged, WriteRejected, StreamBroken, MainQueueRuns, DismissAfterSuccess,
      CloseSheet, StoreNext
<1>6. CASE PortalActs
  BY <1>2, <1>6, NewTaskType, NoDocType DEF PortalActs, PortalInserts, PortalDeletes
<1>7. CASE Restart
  BY <1>7 DEF Restart, OnDisk
<1>8. CASE UNCHANGED vars
  BY <1>8 DEF vars, storeVars
<1> QED
  BY <1>4, <1>5, <1>6, <1>7, <1>8 DEF Next

\* Whatever the list, the sheet, the portal and a restart do, the queue, the
\* cache and the server take only the steps of FirestoreClient: every task is
\* stored, changed and deleted through the client's queue or by the portal.
THEOREM StepsAreTheClients == Spec => [][StoreNext]_storeVars
<1>1. IInv /\ [Next]_vars => [StoreNext]_storeVars
  BY ClientSteps
<1> QED
  BY <1>1, Invariant, PTL DEF Spec

\* However far the network has got with the taps and deletions of the list,
\* and however often it repeats them, no delivery changes what the list would
\* be told by a query that reaches the server.
THEOREM DeliveryUnderTheList == Spec => DeliveryIsInvisible
<1>1. StoreTypeOK => [Deliver => LocalView' = LocalView]_storeVars
  BY DeliveryUnseen
<1>2. TypeOK => StoreTypeOK
  BY DEF TypeOK
<1> QED
  BY <1>1, <1>2, TypeCorrect, PTL DEF DeliveryIsInvisible

\* No acknowledgement of a tap, a deletion or a new task changes what the list
\* would be told by a query that is answered from the cache, but for a task of
\* which a later load has brought something newer.
THEOREM AcknowledgementUnderTheList == Spec => AcknowledgementIsInvisible
<1>1. StoreTypeOK =>
        [Acknowledge => \A d \in DocId : synced[d] = 0 => CachedView'[d] = CachedView[d]]_storeVars
  BY AcknowledgementUnseen
<1>2. TypeOK => StoreTypeOK
  BY DEF TypeOK
<1> QED
  BY <1>1, <1>2, TypeCorrect, PTL DEF AcknowledgementIsInvisible
=============================================================================
