-------------------------- MODULE ContractorsProofs --------------------------
(***************************************************************************)
(* Theorems about Contractors, for any number of contractors, of loads and *)
(* of blank contractors, for queues of any length, and whether or not      *)
(* writes are resent or refused.                                           *)
(***************************************************************************)
EXTENDS Contractors, FirestoreClientProofs, SequenceTheorems, FiniteSetTheorems

-----------------------------------------------------------------------------
(***************************************************************************)
(* The inductive invariant.                                                *)
(***************************************************************************)

\* What the form queues for the collection.
Addition(d) == [doc |-> d, write |-> Contractor(d)]

\* A list on which no page has been built yet.
Fresh ==
    /\ contractorArray = <<>> /\ contractorNumber = 0
    /\ index = 0 /\ stack = <<>> /\ ~labelled

\* Loads that do not overlap come one at a time, and to a fresh list.
OneLoad ==
    ~overlap =>
        /\ fetching["list"] <= 1
        /\ \A i, j \in DOMAIN mainq : mainq[i].to = "list" /\ mainq[j].to = "list" => i = j
        /\ fetching["list"] = 1 => \A i \in DOMAIN mainq : mainq[i].to # "list"
        /\ Awaits("list") => Fresh

Additions(keys) == {Addition(d) : d \in keys}

\* Only contractors whose keys are drawn are queued and answered.
KeysUsed ==
    /\ queue \in Seq(Additions(used))
    /\ \A i \in DOMAIN mainq : mainq[i].kind = "written" => mainq[i].doc \in used

\* There is room for the next button where insertArrangedSubview puts it.
RoomForButton == index <= Len(stack)

Element == DocId \cup {Blank}
Subview == {Plus} \cup [kind : {"contractor"}, tag : Nat, contractor : Element]

ListOK ==
    /\ contractorArray \in Seq(Element) /\ contractorNumber \in Nat
    /\ index \in Nat /\ stack \in Seq(Subview) /\ labelled \in BOOLEAN

FormOK ==
    /\ used \subseteq DocId
    /\ screen \in {"away", "list", "form"}
    /\ currentContractor \in Element
    /\ errorShown \in BOOLEAN
    /\ trap \in {"none", "range", "constraint"}
    /\ overlap \in BOOLEAN
    /\ confirmed \subseteq used

ListShape == RoomForButton /\ OneLoad /\ StackMatchesArray

IInv == CallsTypeOK /\ KeysUsed /\ ListOK /\ FormOK /\ ListShape

-----------------------------------------------------------------------------
(***************************************************************************)
(* The invariant behind the contractors that the user was told about.      *)
(***************************************************************************)

\* The cache knows d, unless the server does not.
Served(d) == server[d] # NoDoc => cache[d] # NoDoc

\* The server has answered the addition of d, and the main queue has been told.
Told(d) ==
    \/ d \in confirmed
    \/ \E k \in DOMAIN mainq : mainq[k].kind = "written" /\ mainq[k].ok /\ mainq[k].doc = d

\* An addition that the cached document is as new as is in the cache.
QueueServed ==
    /\ \A i, j \in 1..Len(queue) : queue[i].doc = queue[j].doc => i = j
    /\ \A i \in 1..Len(queue) : i <= synced[queue[i].doc] => Served(queue[i].doc)

\* An addition that was answered is not queued any more, and is in the cache.
ToldServed ==
    \A d \in DocId : Told(d) => Served(d) /\ \A i \in 1..Len(queue) : queue[i].doc # d

Lists(c, d) == \E i \in DOMAIN c.docs : c.docs[i].documentID = d

\* An answer that comes after the news of d lists d.
AnswersList ==
    \A k \in DOMAIN mainq : mainq[k].kind = "snapshot" =>
        \A d \in DocId : server[d] # NoDoc =>
            /\ d \in confirmed => Lists(mainq[k], d)
            /\ \A j \in DOMAIN mainq :
                  j < k /\ mainq[j].kind = "written" /\ mainq[j].ok /\ mainq[j].doc = d
                    => Lists(mainq[k], d)

Shown(d) == \E i \in DOMAIN stack : stack[i] # Plus /\ stack[i].contractor = d

\* A list that is on its way to show d has no page that says there is none.
ListShows ==
    Alive /\ screen # "away" =>
        \A d \in confirmed : server[d] # NoDoc => ~labelled /\ (Awaits("list") \/ Shown(d))

ConfirmedInv == IInv /\ QueueServed /\ ToldServed /\ AnswersList /\ ListShows

-----------------------------------------------------------------------------
(***************************************************************************)
(* Documents, completions, buttons.                                        *)
(***************************************************************************)

LEMMA FieldNames ==
    /\ Field = {"contractor"} /\ Value = DocId
    /\ Nil \notin Value /\ Keep \notin Value /\ Nil # Keep
    /\ Requester = {"list"} /\ Waiter = {"form", "closed form"}
    /\ KeyOrder \in [DocId -> Nat] /\ IsFiniteSet(DocId)
BY ContractorsAssumption, StoreAssumption, CallsAssumption

LEMMA AdditionType ==
    ASSUME NEW d \in DocId
    PROVE  /\ Contractor(d) \in Document /\ Contractor(d) # NoDoc /\ NoDoc \in Document
           /\ Addition(d) \in Mutation /\ Addition(d).doc = d
           /\ \A doc \in Document : Merge(doc, Contractor(d)) = Contractor(d)
<1>1. Contractor(d) \in Document /\ NoDoc \in Document /\ Contractor(d).contractor = d
  <2>1. Contractor(d) = [f \in {"contractor"} |-> d]
    BY DEF Contractor
  <2>2. Contractor(d) = [f \in Field |-> d] /\ d \in Value
    BY <2>1, FieldNames
  <2>3. Contractor(d) \in Document /\ NoDoc \in Document
    BY <2>2 DEF Document, NoDoc
  <2> QED
    BY <2>3 DEF Contractor
<1>2. NoDoc.contractor = Nil /\ d # Nil /\ d # Keep
  BY FieldNames DEF NoDoc
<1>3. Addition(d) \in Mutation /\ Addition(d).doc = d
  BY <1>1 DEF Addition, Mutation, Document
<1>4. \A doc \in Document : Merge(doc, Contractor(d)) = Contractor(d)
  <2>1. \A f \in Field : Contractor(d)[f] = d
    BY <1>1, FieldNames
  <2>2. \A doc : Merge(doc, Contractor(d)) = [f \in Field |-> d]
    BY <1>2, <2>1 DEF Merge
  <2>3. Contractor(d) = [f \in Field |-> Contractor(d)[f]]
    BY <1>1 DEF Document
  <2> QED
    BY <2>1, <2>2, <2>3
<1> QED
  BY <1>1, <1>2, <1>3, <1>4

LEMMA AdditionsGrow ==
    ASSUME NEW keys, NEW more, keys \subseteq more
    PROVE  Seq(Additions(keys)) \subseteq Seq(Additions(more))
<1>1. Additions(keys) \subseteq Additions(more)
  BY DEF Additions
<1> QED
  BY <1>1, SeqMonotonic

\* The answers of the main queue.
LEMMA CompletionKinds ==
    ASSUME NEW c \in Completion
    PROVE  \/ c.kind = "snapshot" /\ c.to = "list" /\ c.docs \in Seq(Snapshot)
           \/ c.kind = "loadError" /\ c.to = "list"
           \/ /\ c.kind = "written" /\ c.to \in {"form", "closed form"}
              /\ c.doc \in DocId /\ c.ok \in BOOLEAN
BY FieldNames DEF Completion

\* The answers that a form waits for find it where it went.
Renamed(c, form) == IF c.to = form THEN [c EXCEPT !.to = "closed form"] ELSE c

LEMMA RenamedFacts ==
    ASSUME NEW c \in Completion, NEW form \in {"form", "closed form"}
    PROVE  /\ Renamed(c, form) \in Completion /\ Renamed(c, form).kind = c.kind
           /\ Renamed(c, form).to = "list" <=> c.to = "list"
           /\ c.kind = "written" => /\ Renamed(c, form).doc = c.doc
                                    /\ Renamed(c, form).ok = c.ok
           /\ c.kind # "written" => Renamed(c, form) = c
<1>1. CASE c.to # form
  BY <1>1, CompletionKinds DEF Renamed
<1>2. CASE c.to = form
  <2>1. c \in [kind : {"written"}, to : Waiter, doc : DocId, ok : BOOLEAN]
    BY <1>2, FieldNames DEF Completion
  <2>2. Renamed(c, form) = [c EXCEPT !.to = "closed form"]
    BY <1>2 DEF Renamed
  <2> QED
    BY <1>2, <2>1, <2>2, FieldNames DEF Completion
<1> QED
  BY <1>1, <1>2

LEMMA ButtonsFacts ==
    ASSUME NEW array \in Seq(Element), NEW first \in Nat
    PROVE  /\ Buttons(array, first) \in Seq(Subview)
           /\ Len(Buttons(array, first)) = Len(array)
           /\ \A i \in 1..Len(array) : /\ Buttons(array, first)[i] = Button(first + i - 1, array[i])
                                       /\ Buttons(array, first)[i] # Plus
                                       /\ Buttons(array, first)[i].contractor = array[i]
<1>1. \A i \in 1..Len(array) : /\ Button(first + i - 1, array[i]) \in Subview
                               /\ Button(first + i - 1, array[i]).kind = "contractor"
                               /\ Button(first + i - 1, array[i]).contractor = array[i]
  BY DEF Button, Subview
<1>2. Plus.kind = "plus" /\ Plus \in Subview
  BY DEF Plus, Subview
<1>3. /\ Buttons(array, first) \in [1..Len(array) -> Subview]
      /\ \A i \in 1..Len(array) : Buttons(array, first)[i] = Button(first + i - 1, array[i])
  BY <1>1 DEF Buttons
<1>4. Len(array) \in Nat
  OBVIOUS
<1>5. Buttons(array, first) \in Seq(Subview) /\ Len(Buttons(array, first)) = Len(array)
  BY <1>3, <1>4
<1> QED
  BY <1>1, <1>2, <1>3, <1>5

\* Where insertArrangedSubview leaves the subviews.
LEMMA InsertFacts ==
    ASSUME NEW S, NEW s \in Seq(S), NEW k \in 1..(Len(s) + 1), NEW e \in S
    PROVE  /\ InsertAt(s, k, e) \in Seq(S) /\ Len(InsertAt(s, k, e)) = Len(s) + 1
           /\ \A i \in 1..(Len(s) + 1) :
                 InsertAt(s, k, e)[i] = IF i < k THEN s[i] ELSE IF i = k THEN e ELSE s[i - 1]
<1>1. Len(s) \in Nat /\ k \in Nat /\ k - 1 \in 0..Len(s)
  OBVIOUS
<1> DEFINE a == SubSeq(s, 1, k - 1)
           b == SubSeq(s, k, Len(s))
           n == Len(s)
<1>2. /\ a \in Seq(S) /\ Len(a) = k - 1
      /\ \A i \in 1..(k - 1) : a[i] = s[i]
  BY <1>1
<1>3. /\ b \in Seq(S) /\ Len(b) = n - k + 1
      /\ \A i \in 1..(n - k + 1) : b[i] = s[i + k - 1]
  BY <1>1
<1>4. InsertAt(s, k, e) = (a \o <<e>>) \o b
  BY DEF InsertAt
<1> HIDE DEF a, b
<1>5. PICK c \in Seq(S) : /\ c = a \o <<e>> /\ Len(c) = k
                          /\ \A i \in 1..(k - 1) : c[i] = s[i]
                          /\ c[k] = e
  <2>1. <<e>> \in Seq(S) /\ Len(<<e>>) = 1 /\ <<e>>[1] = e
    OBVIOUS
  <2>2. /\ a \o <<e>> \in Seq(S) /\ Len(a \o <<e>>) = (k - 1) + 1
        /\ \A i \in 1..((k - 1) + 1) :
              (a \o <<e>>)[i] = IF i <= k - 1 THEN a[i] ELSE <<e>>[i - (k - 1)]
    BY <1>1, <1>2, <2>1, ConcatProperties
  <2>3. \A i \in 1..(k - 1) : (a \o <<e>>)[i] = s[i]
    BY <1>1, <1>2, <2>2
  <2>4. (a \o <<e>>)[k] = e
    BY <1>1, <2>1, <2>2
  <2>5. Len(a \o <<e>>) = k
    BY <1>1, <2>2
  <2> QED
    BY <2>2, <2>3, <2>4, <2>5
<1>6. /\ c \o b \in Seq(S) /\ Len(c \o b) = n + 1
      /\ \A i \in 1..(n + 1) : (c \o b)[i] = IF i <= k THEN c[i] ELSE b[i - k]
  <2>1. /\ c \o b \in Seq(S) /\ Len(c \o b) = Len(c) + Len(b)
        /\ \A i \in 1..(Len(c) + Len(b)) :
              (c \o b)[i] = IF i <= Len(c) THEN c[i] ELSE b[i - Len(c)]
    BY <1>3, ConcatProperties
  <2>2. Len(c) = k
    BY <1>5
  <2>3. Len(b) = n - k + 1
    BY <1>3
  <2>4. n \in Nat /\ k \in Nat
    BY <1>1
  <2>5. Len(c) + Len(b) = n + 1
    <3> HIDE DEF n
    <3> QED
      BY ONLY <2>2, <2>3, <2>4
  <2> QED
    BY <2>1, <2>2, <2>5
<1>7. \A i \in 1..(n + 1) :
        (c \o b)[i] = IF i < k THEN s[i] ELSE IF i = k THEN e ELSE s[i - 1]
  <2> TAKE i \in 1..(n + 1)
  <2>1. CASE i < k
    BY <1>1, <1>5, <1>6, <2>1
  <2>2. CASE i = k
    BY <1>1, <1>5, <1>6, <2>2
  <2>3. CASE i > k
    <3>1. i - k \in 1..(n - k + 1) /\ (i - k) + k - 1 = i - 1
      BY <1>1, <2>3
    <3> QED
      BY <1>1, <1>3, <1>6, <2>3, <3>1
  <2>4. i < k \/ i = k \/ i > k
    BY <1>1
  <2> QED
    BY <2>1, <2>2, <2>3, <2>4
<1> QED
  BY <1>4, <1>5, <1>6, <1>7

-----------------------------------------------------------------------------
(***************************************************************************)
(* The steps keep the invariant.                                           *)
(***************************************************************************)

LEMMA Parts ==
    ASSUME IInv
    PROVE  /\ StoreTypeOK /\ queue \in Seq(Mutation) /\ Len(queue) \in Nat
           /\ server \in [DocId -> Document] /\ cache \in [DocId -> Document]
           /\ sent \in 0..Len(queue) /\ synced \in [DocId -> 0..sent]
           /\ queue \in Seq(Additions(used))
           /\ fetching \in [{"list"} -> Nat] /\ fetching["list"] \in Nat
           /\ handlers \in Seq(Waiter \cup {Nobody}) /\ Len(handlers) = Len(queue)
           /\ mainq \in Seq(Completion) /\ Len(mainq) \in Nat /\ DOMAIN mainq = 1..Len(mainq)
           /\ contractorArray \in Seq(Element) /\ contractorNumber \in Nat
           /\ index \in Nat /\ stack \in Seq(Subview) /\ labelled \in BOOLEAN
           /\ used \subseteq DocId /\ confirmed \subseteq used /\ overlap \in BOOLEAN
<1>1. Requester = {"list"}
  BY FieldNames
<1>2. handlers \in Seq(Waiter \cup {Nobody})
  BY DEF IInv, CallsTypeOK
<1>3. /\ fetching \in [{"list"} -> Nat] /\ Len(handlers) = Len(queue)
      /\ mainq \in Seq(Completion) /\ StoreTypeOK
  BY <1>1 DEF IInv, CallsTypeOK
<1>4. /\ queue \in Seq(Mutation) /\ Len(queue) \in Nat
      /\ server \in [DocId -> Document] /\ cache \in [DocId -> Document]
      /\ sent \in 0..Len(queue) /\ synced \in [DocId -> 0..sent]
  BY <1>3 DEF StoreTypeOK
<1>5. Len(mainq) \in Nat /\ DOMAIN mainq = 1..Len(mainq) /\ fetching["list"] \in Nat
  BY <1>3
<1> QED
  BY <1>2, <1>3, <1>4, <1>5 DEF IInv, ListOK, FormOK, KeysUsed

LEMMA StoreStep ==
    ASSUME IInv, used \subseteq used',
           \/ \E d \in DocId : d \in used' /\ Write(Addition(d))
           \/ Deliver \/ Acknowledge \/ Reject \/ Reconnect \/ Synchronise
           \/ \E d \in DocId : RemoteSet(d, Contractor(d)) \/ RemoteSet(d, NoDoc)
           \/ UNCHANGED storeVars
    PROVE  StoreTypeOK' /\ queue' \in Seq(Additions(used'))
<1>1. StoreTypeOK'
  <2>1. ASSUME NEW d \in DocId, Write(Addition(d)) PROVE StoreTypeOK'
    BY <2>1, Parts, AdditionType, WriteType
  <2>2. ASSUME NEW d \in DocId, RemoteSet(d, Contractor(d)) \/ RemoteSet(d, NoDoc)
        PROVE  StoreTypeOK'
    BY <2>2, Parts, AdditionType, RemoteSetType
  <2>3. CASE UNCHANGED storeVars
    BY <2>3, Parts DEF storeVars, StoreTypeOK
  <2> QED
    BY <2>1, <2>2, <2>3, Parts, DeliverType, AcknowledgeType, RejectType, ReconnectType,
       SynchroniseType
<1>2. queue \in Seq(Additions(used'))
  BY Parts, AdditionsGrow
<1>3. ASSUME NEW d \in used', Write(Addition(d)) PROVE queue' \in Seq(Additions(used'))
  <2>1. Addition(d) \in Additions(used')
    BY DEF Additions
  <2> QED
    BY <1>2, <1>3, <2>1, AppendProperties DEF Write
<1>4. CASE Acknowledge \/ Reject
  <2>1. queue' = Tail(queue) /\ (queue # <<>> \/ sent > 0)
    BY <1>4 DEF Acknowledge, Reject
  <2>2. queue # <<>>
    <3>1. sent \in 0..Len(queue)
      BY Parts
    <3> QED
      BY <2>1, <3>1
  <2> QED
    BY <1>1, <1>2, <2>1, <2>2
<1>5. UNCHANGED queue => queue' \in Seq(Additions(used'))
  BY <1>2
<1> QED
  BY <1>1, <1>3, <1>4, <1>5
  DEF Deliver, Reconnect, Synchronise, RemoteSet, storeVars

\* The answers of mainq' that come to the list were in mainq, if further back.
OldAnswers(shift) ==
    \A i \in DOMAIN mainq' : mainq'[i].to = "list" =>
        i + shift \in DOMAIN mainq /\ mainq[i + shift].to = "list"

\* The documents of the answers that wait are added ones.
AnswersUsed(answers, keys) ==
    \A i \in DOMAIN answers : answers[i].kind = "written" => answers[i].doc \in keys

\* A step that leaves the list as it is.
LEMMA QuietStep ==
    ASSUME IInv, StoreTypeOK', queue' \in Seq(Additions(used')), FormOK',
           handlers' \in Seq(Waiter \cup {Nobody}), Len(handlers') = Len(queue'),
           mainq' \in Seq(Completion), AnswersUsed(mainq', used'),
           UNCHANGED <<listVars, fetching, overlap>>,
           NEW shift \in {0, 1}, OldAnswers(shift)
    PROVE  IInv'
<1>1. CallsTypeOK'
  BY DEF IInv, CallsTypeOK
<1>2. ListOK' /\ RoomForButton' /\ StackMatchesArray'
  BY DEF IInv, ListOK, ListShape, RoomForButton, StackMatchesArray, listVars
<1>3. OneLoad'
  <2>1. \A i, j \in DOMAIN mainq' : i + shift = j + shift => i = j
    <3>1. Len(mainq') \in Nat /\ DOMAIN mainq' = 1..Len(mainq')
      OBVIOUS
    <3>2. \A i, j \in 1..Len(mainq') : i + shift = j + shift => i = j
      BY <3>1
    <3> QED
      BY <3>1, <3>2
  <2>2. Awaits("list")' => Awaits("list")
    BY DEF Awaits, OldAnswers
  <2>3. Fresh' <=> Fresh
    BY DEF Fresh, listVars
  <2> QED
    BY <2>1, <2>2, <2>3 DEF IInv, ListShape, OneLoad, OldAnswers
<1> QED
  BY <1>1, <1>2, <1>3 DEF IInv, ListShape, KeysUsed, AnswersUsed

\* reload() leaves a fresh list.
LEMMA ReloadStep ==
    ASSUME IInv, StoreTypeOK', queue' \in Seq(Additions(used')), FormOK',
           handlers' \in Seq(Waiter \cup {Nobody}), Len(handlers') = Len(queue'),
           mainq' \in Seq(Completion), AnswersUsed(mainq', used'),
           Reload, NEW shift \in {0, 1}, OldAnswers(shift)
    PROVE  IInv'
<1>1. fetching' \in [{"list"} -> Nat] /\ fetching'["list"] = fetching["list"] + 1
  <2>1. fetching' = [fetching EXCEPT !["list"] = @ + 1]
    BY DEF Reload, GetDocuments
  <2> QED
    BY <2>1, Parts
<1>2. CallsTypeOK'
  <2>1. Requester = {"list"}
    BY FieldNames
  <2> QED
    BY <1>1, <2>1 DEF CallsTypeOK
<1>3. Fresh'
  BY DEF Reload, Clear, Fresh
<1>4. ListOK' /\ RoomForButton' /\ StackMatchesArray'
  <2>1. <<>> \in Seq(Element) /\ <<>> \in Seq(Subview)
    OBVIOUS
  <2>2. /\ contractorArray' = <<>> /\ contractorNumber' = 0
        /\ index' = 0 /\ stack' = <<>> /\ labelled' = FALSE
    BY DEF Reload, Clear
  <2>3. ListOK' /\ StackMatchesArray'
    BY <2>1, <2>2 DEF ListOK, StackMatchesArray
  <2>4. Len(<<>>) = 0 /\ 0 <= 0
    OBVIOUS
  <2> QED
    BY <2>2, <2>3, <2>4 DEF RoomForButton
<1>5. OneLoad'
  <2>1. overlap' = Awaits("list")
    BY DEF Reload
  <2>2. ASSUME ~Awaits("list") PROVE ~(fetching["list"] > 0)
    BY <2>2 DEF Awaits
  <2>3. ASSUME ~Awaits("list") PROVE \A i \in DOMAIN mainq' : mainq'[i].to # "list"
    BY <2>3 DEF Awaits, OldAnswers
  <2>4. ASSUME ~Awaits("list") PROVE fetching'["list"] = 1
    BY <1>1, <2>2, <2>4, Parts
  <2> QED
    BY <1>3, <2>1, <2>3, <2>4 DEF OneLoad
<1> QED
  BY <1>2, <1>4, <1>5 DEF IInv, ListShape, KeysUsed, AnswersUsed

\* The form and the process, unfolded.
LEMMA FormParts ==
    ASSUME IInv
    PROVE  /\ FormOK /\ AnswersUsed(mainq, used)
           /\ mainq' = mainq => OldAnswers(0)
<1>1. \A i \in 1..Len(mainq) : i + 0 = i
  BY Parts
<1>2. DOMAIN mainq = 1..Len(mainq)
  BY Parts
<1> QED
  BY <1>1, <1>2 DEF IInv, KeysUsed, AnswersUsed, OldAnswers

LEMMA OpenBackStep ==
    ASSUME IInv, Open \/ Back
    PROVE  IInv'
<1>1. UNCHANGED <<storeVars, handlers, mainq, used, currentContractor, errorShown, trap, confirmed>>
  BY DEF Open, Back, callVars
<1>2. StoreTypeOK' /\ queue' \in Seq(Additions(used'))
  BY <1>1, StoreStep
<1>3. /\ handlers' \in Seq(Waiter \cup {Nobody}) /\ Len(handlers') = Len(queue')
      /\ mainq' \in Seq(Completion) /\ AnswersUsed(mainq', used') /\ OldAnswers(0)
  BY <1>1, Parts, FormParts DEF storeVars, AnswersUsed
<1>4. FormOK'
  BY <1>1, FormParts DEF Open, Back, FormOK, Reload, Awaits
<1>5. CASE Open
  BY <1>2, <1>3, <1>4, <1>5, ReloadStep DEF Open
<1>6. CASE Back
  BY <1>2, <1>3, <1>4, <1>6, QuietStep DEF Back, callVars
<1> QED
  BY <1>5, <1>6

LEMMA ContractorButtonStep ==
    ASSUME IInv, NEW i \in DOMAIN stack, ContractorButtonAction(i)
    PROVE  IInv'
<1>1. UNCHANGED <<storeVars, callVars, used, listVars, overlap, confirmed>>
  BY DEF ContractorButtonAction
<1>2. StoreTypeOK' /\ queue' \in Seq(Additions(used'))
  BY <1>1, StoreStep
<1>3. /\ handlers' \in Seq(Waiter \cup {Nobody}) /\ Len(handlers') = Len(queue')
      /\ mainq' \in Seq(Completion) /\ AnswersUsed(mainq', used') /\ OldAnswers(0)
  BY <1>1, Parts, FormParts DEF storeVars, callVars, AnswersUsed
<1>4. FormOK'
  <2>1. \A k \in DOMAIN contractorArray : contractorArray[k] \in Element
    BY Parts
  <2> QED
    BY <1>1, <2>1, FormParts DEF ContractorButtonAction, FormOK
<1> QED
  BY <1>1, <1>2, <1>3, <1>4, QuietStep DEF callVars

\* The handlers and the answers that a form leaves behind.
LEMMA HandlersRenamed ==
    ASSUME IInv, NEW w, NEW v \in Waiter
    PROVE  LET renamed == [i \in DOMAIN handlers |-> IF handlers[i] = w THEN v ELSE handlers[i]]
           IN  renamed \in Seq(Waiter \cup {Nobody}) /\ Len(renamed) = Len(handlers)
<1>1. handlers \in Seq(Waiter \cup {Nobody}) /\ Len(handlers) \in Nat
  BY Parts
<1>2. \A i \in 1..Len(handlers) : handlers[i] \in Waiter \cup {Nobody}
  BY <1>1
<1>3. DOMAIN handlers = 1..Len(handlers)
  BY <1>1
<1> QED
  BY <1>1, <1>2, <1>3

RenamedAll(answers, form) == [i \in DOMAIN answers |-> Renamed(answers[i], form)]

LEMMA AnswersRenamed ==
    ASSUME NEW answers \in Seq(Completion), NEW form \in Waiter
    PROVE  /\ RenamedAll(answers, form) \in Seq(Completion)
           /\ Len(RenamedAll(answers, form)) = Len(answers) /\ Len(answers) \in Nat
           /\ \A i \in 1..Len(answers) : /\ answers[i] \in Completion
                                         /\ RenamedAll(answers, form)[i] = Renamed(answers[i], form)
           /\ \A keys : AnswersUsed(answers, keys) => AnswersUsed(RenamedAll(answers, form), keys)
<1>1. Len(answers) \in Nat /\ DOMAIN answers = 1..Len(answers)
  OBVIOUS
<1>2. \A i \in 1..Len(answers) : answers[i] \in Completion
  OBVIOUS
<1>3. form \in {"form", "closed form"}
  BY FieldNames
<1>4. \A i \in 1..Len(answers) :
        /\ Renamed(answers[i], form) \in Completion
        /\ Renamed(answers[i], form).kind = answers[i].kind
        /\ answers[i].kind = "written" => Renamed(answers[i], form).doc = answers[i].doc
  BY <1>2, <1>3, RenamedFacts
<1> HIDE <1>3
<1>5. RenamedAll(answers, form) \in [1..Len(answers) -> Completion]
  BY <1>1, <1>4 DEF RenamedAll
<1>6. /\ \A i \in 1..Len(answers) : RenamedAll(answers, form)[i] = Renamed(answers[i], form)
      /\ DOMAIN RenamedAll(answers, form) = DOMAIN answers
  BY <1>1 DEF RenamedAll
<1>7. \A keys : AnswersUsed(answers, keys) => AnswersUsed(RenamedAll(answers, form), keys)
  BY <1>1, <1>4, <1>6 DEF AnswersUsed
<1> QED
  BY <1>1, <1>2, <1>5, <1>6, <1>7

\* The answers of mainq' were in mainq, if further back, but for whom they are.
SameAnswers(shift) ==
    \A k \in DOMAIN mainq' :
        /\ k + shift \in DOMAIN mainq
        /\ mainq'[k].kind = mainq[k + shift].kind
        /\ mainq'[k].to = "list" <=> mainq[k + shift].to = "list"
        /\ mainq[k + shift].kind = "written" => /\ mainq'[k].doc = mainq[k + shift].doc
                                                /\ mainq'[k].ok = mainq[k + shift].ok
        /\ mainq[k + shift].kind # "written" => mainq'[k] = mainq[k + shift]

LEMMA LeaveFacts ==
    ASSUME IInv, LeaveForm
    PROVE  /\ handlers' \in Seq(Waiter \cup {Nobody}) /\ Len(handlers') = Len(handlers)
           /\ mainq' \in Seq(Completion) /\ AnswersUsed(mainq', used')
           /\ SameAnswers(0) /\ (Awaits("list") => Awaits("list")')
<1>1. UNCHANGED <<fetching, used>>
  BY DEF LeaveForm
<1>2. "form" \in Waiter /\ "closed form" \in Waiter
  BY FieldNames
<1>3. handlers' \in Seq(Waiter \cup {Nobody}) /\ Len(handlers') = Len(handlers)
  BY <1>2, HandlersRenamed DEF LeaveForm, HandOver
<1>4. mainq' = RenamedAll(mainq, "form")
  BY DEF LeaveForm, HandOver, RenamedAll, Renamed
<1>5. "form" \in Waiter
  BY <1>2
<1>6. /\ mainq' \in Seq(Completion) /\ AnswersUsed(mainq', used')
      /\ Len(mainq') = Len(mainq) /\ Len(mainq) \in Nat
      /\ \A i \in 1..Len(mainq) : mainq[i] \in Completion /\ mainq'[i] = Renamed(mainq[i], "form")
  BY <1>1, <1>4, <1>5, AnswersRenamed, FormParts, Parts
<1>7. DOMAIN mainq = 1..Len(mainq) /\ DOMAIN mainq' = 1..Len(mainq)
  BY <1>6, Parts
<1>8. \A i \in 1..Len(mainq) : i + 0 = i
  BY <1>6
<1>9. \A i \in 1..Len(mainq) :
        /\ mainq'[i].kind = mainq[i].kind
        /\ mainq'[i].to = "list" <=> mainq[i].to = "list"
        /\ mainq[i].kind = "written" => mainq'[i].doc = mainq[i].doc /\ mainq'[i].ok = mainq[i].ok
        /\ mainq[i].kind # "written" => mainq'[i] = mainq[i]
  <2> TAKE i \in 1..Len(mainq)
  <2>1. mainq[i] \in Completion /\ mainq'[i] = Renamed(mainq[i], "form")
    BY <1>6
  <2>2. "form" \in {"form", "closed form"}
    OBVIOUS
  <2>3. /\ Renamed(mainq[i], "form").kind = mainq[i].kind
        /\ Renamed(mainq[i], "form").to = "list" <=> mainq[i].to = "list"
        /\ mainq[i].kind = "written" => /\ Renamed(mainq[i], "form").doc = mainq[i].doc
                                        /\ Renamed(mainq[i], "form").ok = mainq[i].ok
        /\ mainq[i].kind # "written" => Renamed(mainq[i], "form") = mainq[i]
    BY <2>1, <2>2, RenamedFacts
  <2> QED
    BY <2>1, <2>3
<1>10. SameAnswers(0)
  BY <1>7, <1>8, <1>9 DEF SameAnswers
<1>11. Awaits("list") => Awaits("list")'
  BY <1>1, <1>7, <1>9 DEF Awaits
<1> QED
  BY <1>3, <1>6, <1>10, <1>11

LEMMA LeaveStep ==
    ASSUME IInv, LeaveForm
    PROVE  IInv'
<1>1. /\ UNCHANGED <<storeVars, fetching, used, listVars, currentContractor, errorShown, trap,
                     overlap, confirmed>>
      /\ screen' = "list"
  BY DEF LeaveForm
<1>2. StoreTypeOK' /\ queue' \in Seq(Additions(used'))
  BY <1>1, StoreStep
<1>3. OldAnswers(0)
  BY LeaveFacts DEF SameAnswers, OldAnswers
<1>4. FormOK' /\ Len(handlers') = Len(queue')
  BY <1>1, LeaveFacts, FormParts, Parts DEF FormOK, storeVars
<1> QED
  BY <1>1, <1>2, <1>3, <1>4, LeaveFacts, QuietStep

LEMMA AddStep ==
    ASSUME IInv, NEW d \in DocId, AddContractorTapped(d)
    PROVE  IInv'
<1>1. /\ used' = used \cup {d} /\ Write(Addition(d)) /\ handlers' = Append(handlers, "form")
      /\ UNCHANGED <<fetching, mainq, listVars, screen, currentContractor, errorShown, trap,
                     overlap, confirmed>>
  BY DEF AddContractorTapped, SetData, Addition
<1>2. StoreTypeOK' /\ queue' \in Seq(Additions(used'))
  BY <1>1, StoreStep
<1>3. "form" \in Waiter
  BY FieldNames
<1>4. handlers' \in Seq(Waiter \cup {Nobody}) /\ Len(handlers') = Len(handlers) + 1
  BY <1>1, <1>3, Parts
<1>5. Len(queue') = Len(queue) + 1
  BY <1>1, Parts DEF Write
<1>6. mainq' \in Seq(Completion) /\ AnswersUsed(mainq', used') /\ OldAnswers(0)
  BY <1>1, Parts, FormParts DEF AnswersUsed
<1>7. FormOK'
  BY <1>1, FormParts DEF FormOK
<1> QED
  BY <1>1, <1>2, <1>4, <1>5, <1>6, <1>7, Parts, QuietStep

-----------------------------------------------------------------------------
(***************************************************************************)
(* The buttons of a page.                                                  *)
(***************************************************************************)

Page(array) == Buttons(array, 0) \o <<Plus>>

LEMMA PageFacts ==
    ASSUME NEW array \in Seq(Element)
    PROVE  /\ Page(array) \in Seq(Subview) /\ Len(Page(array)) = Len(array) + 1
           /\ Len(array) \in Nat
           /\ \A i \in 1..Len(array) : /\ Page(array)[i] = Button(i - 1, array[i])
                                       /\ Page(array)[i] # Plus
                                       /\ Page(array)[i].contractor = array[i]
           /\ Page(array)[Len(array) + 1] = Plus
<1> DEFINE b == Buttons(array, 0)
           n == Len(array)
<1>1. /\ n \in Nat /\ b \in Seq(Subview) /\ Len(b) = n
      /\ \A i \in 1..n : /\ b[i] = Button(0 + i - 1, array[i])
                         /\ b[i] # Plus /\ b[i].contractor = array[i]
  BY ButtonsFacts
<1>2. <<Plus>> \in Seq(Subview) /\ Len(<<Plus>>) = 1 /\ <<Plus>>[1] = Plus
  BY DEF Subview
<1> HIDE DEF b, n
<1>3. /\ b \o <<Plus>> \in Seq(Subview) /\ Len(b \o <<Plus>>) = n + 1
      /\ \A i \in 1..(n + 1) : (b \o <<Plus>>)[i] = IF i <= n THEN b[i] ELSE <<Plus>>[i - n]
  BY <1>1, <1>2, ConcatProperties
<1>4. \A i \in 1..n : (b \o <<Plus>>)[i] = b[i] /\ 0 + i - 1 = i - 1
  BY <1>1, <1>3
<1>5. (b \o <<Plus>>)[n + 1] = Plus
  BY <1>1, <1>2, <1>3
<1>6. Page(array) = b \o <<Plus>>
  BY DEF Page, b
<1> QED
  BY <1>1, <1>3, <1>4, <1>5, <1>6 DEF n

\* A blank button goes in just before the "+" of a page.
LEMMA PageInsert ==
    ASSUME NEW array \in Seq(Element)
    PROVE  InsertAt(Page(array), Len(array) + 1, Button(Len(array), Blank))
             = Page(Append(array, Blank))
<1> DEFINE n == Len(array)
           s == Page(array)
           longer == Append(array, Blank)
           e == Button(n, Blank)
           t == InsertAt(s, n + 1, e)
<1>1. /\ longer \in Seq(Element) /\ Len(longer) = n + 1 /\ n \in Nat
      /\ \A i \in 1..n : longer[i] = array[i]
      /\ longer[n + 1] = Blank
  <2>1. Blank \in Element
    BY DEF Element
  <2> QED
    BY <2>1
<1>2. e \in Subview
  BY <1>1 DEF Button, Subview, Element
<1>3. /\ s \in Seq(Subview) /\ Len(s) = n + 1
      /\ \A i \in 1..n : s[i] = Button(i - 1, array[i])
      /\ s[n + 1] = Plus
  BY PageFacts
<1>4. /\ Page(longer) \in Seq(Subview) /\ Len(Page(longer)) = Len(longer) + 1
      /\ \A i \in 1..Len(longer) : Page(longer)[i] = Button(i - 1, longer[i])
      /\ Page(longer)[Len(longer) + 1] = Plus
  BY <1>1, PageFacts
<1> HIDE DEF n, s, e, longer
<1>5. n + 1 \in 1..(Len(s) + 1)
  BY <1>1, <1>3
<1>6. /\ t \in Seq(Subview) /\ Len(t) = Len(s) + 1
      /\ \A i \in 1..(Len(s) + 1) :
            t[i] = IF i < n + 1 THEN s[i] ELSE IF i = n + 1 THEN e ELSE s[i - 1]
  <2>1. PICK k \in 1..(Len(s) + 1) : k = n + 1
    BY <1>5
  <2>2. s \in Seq(Subview)
    BY <1>3
  <2>3. /\ InsertAt(s, k, e) \in Seq(Subview) /\ Len(InsertAt(s, k, e)) = Len(s) + 1
        /\ \A i \in 1..(Len(s) + 1) :
              InsertAt(s, k, e)[i] = IF i < k THEN s[i] ELSE IF i = k THEN e ELSE s[i - 1]
    BY <1>2, <2>1, <2>2, InsertFacts
  <2> QED
    BY <2>1, <2>3
<1> HIDE DEF t
<1>7. Len(t) = n + 2 /\ Len(Page(longer)) = n + 2
  BY <1>1, <1>3, <1>4, <1>6
<1>8. ASSUME NEW i \in 1..(n + 2) PROVE t[i] = Page(longer)[i]
  <2>1. CASE i \in 1..n
    BY <1>1, <1>3, <1>4, <1>6, <2>1
  <2>2. CASE i = n + 1
    <3>1. t[i] = e
      BY <1>1, <1>3, <1>6, <2>2
    <3>2. i \in 1..Len(longer) /\ i - 1 = n /\ longer[i] = Blank
      BY <1>1, <2>2
    <3> QED
      BY <1>4, <3>1, <3>2 DEF e
  <2>3. CASE i = n + 2
    <3>1. t[i] = s[i - 1]
      BY <1>1, <1>3, <1>6, <2>3
    <3>2. i - 1 = n + 1 /\ i = Len(longer) + 1
      BY <1>1, <2>3
    <3> QED
      BY <1>3, <1>4, <3>1, <3>2
  <2>4. i \in 1..n \/ i = n + 1 \/ i = n + 2
    BY <1>1
  <2> QED
    BY <2>1, <2>2, <2>3, <2>4
<1>9. t = Page(longer)
  BY <1>4, <1>6, <1>7, <1>8, SeqEqual
<1> QED
  BY <1>9 DEF t, s, e, longer, n

LEMMA InsertionStep ==
    ASSUME IInv, NEW i \in DOMAIN stack, InsertionButtonAction(i)
    PROVE  IInv'
<1>1. /\ UNCHANGED <<storeVars, callVars, used, contractorNumber, labelled, screen,
                     currentContractor, errorShown, trap, overlap, confirmed>>
      /\ contractorArray' = Append(contractorArray, Blank)
      /\ stack' = InsertAt(stack, index + 1, Button(index, Blank))
      /\ index' = index + 1
  BY DEF InsertionButtonAction, InsertButton
<1>2. CallsTypeOK' /\ KeysUsed' /\ FormOK'
  BY <1>1 DEF IInv, CallsTypeOK, StoreTypeOK, KeysUsed, FormOK, storeVars, callVars
<1>3. contractorArray' \in Seq(Element)
  <2>1. Blank \in Element
    BY DEF Element
  <2> QED
    BY <1>1, <2>1, Parts
<1>4. PICK k \in 1..(Len(stack) + 1) : k = index + 1
  <2>1. index + 1 \in 1..(Len(stack) + 1)
    BY Parts DEF IInv, ListShape, RoomForButton
  <2> QED
    BY <2>1
<1>5. Button(index, Blank) \in Subview
  BY Parts DEF Button, Subview, Element
<1>6. InsertAt(stack, k, Button(index, Blank)) \in Seq(Subview)
      /\ Len(InsertAt(stack, k, Button(index, Blank))) = Len(stack) + 1
  BY <1>5, Parts, InsertFacts
<1>7. stack' \in Seq(Subview) /\ Len(stack') = Len(stack) + 1
  BY <1>1, <1>4, <1>6
<1>8. ListOK'
  BY <1>1, <1>3, <1>7, Parts DEF ListOK
<1>9. RoomForButton'
  BY <1>1, <1>7, Parts DEF IInv, ListShape, RoomForButton
<1>10. stack # <<>>
  BY Parts
<1>11. OneLoad'
  <2>1. ~overlap => ~Awaits("list")
    BY <1>10 DEF IInv, ListShape, OneLoad, Fresh
  <2>2. Awaits("list")' <=> Awaits("list")
    BY <1>1 DEF Awaits, callVars
  <2> QED
    BY <1>1, <2>1, <2>2 DEF IInv, ListShape, OneLoad, callVars
<1>12. StackMatchesArray'
  <2>1. ASSUME ~overlap'
        PROVE  index' = Len(contractorArray') /\ stack' = Page(contractorArray')
    <3>1. index = Len(contractorArray) /\ stack = Page(contractorArray)
      BY <1>1, <1>10, <2>1 DEF IInv, ListShape, StackMatchesArray, Page
    <3>2. stack' = Page(contractorArray')
      BY <1>1, <3>1, Parts, PageInsert
    <3>3. Len(contractorArray') = Len(contractorArray) + 1
      BY <1>1, Parts
    <3> QED
      BY <1>1, <3>1, <3>2, <3>3
  <2> QED
    BY <2>1 DEF StackMatchesArray, Page
<1> QED
  BY <1>2, <1>8, <1>9, <1>11, <1>12 DEF IInv, ListShape

\* buildPage, on any list and on a fresh one.
LEMMA BuildPageFacts ==
    ASSUME IInv, NEW array \in Seq(Element), NEW number \in Nat, BuildPage(array, number)
    PROVE  /\ stack' \in Seq(Subview) /\ index' \in Nat /\ labelled' \in BOOLEAN
           /\ RoomForButton'
           /\ Fresh /\ stack' # <<>> => index' = Len(array) /\ stack' = Page(array)
<1>1. labelled' \in BOOLEAN
  BY Parts DEF BuildPage
<1>2. CASE number = 0
  <2>1. stack' = stack /\ index' = index
    BY <1>2 DEF BuildPage
  <2> QED
    BY <1>1, <2>1, Parts DEF IInv, ListShape, RoomForButton, Fresh
<1>3. CASE number # 0
  <2>1. stack' = stack \o Buttons(array, index) \o <<Plus>> /\ index' = index + Len(array)
    BY <1>3 DEF BuildPage
  <2>2. PICK b \in Seq(Subview) : b = Buttons(array, index) /\ Len(b) = Len(array)
    BY Parts, ButtonsFacts
  <2>3. Plus \in Subview
    BY DEF Subview
  <2>4. /\ stack \o b \in Seq(Subview) /\ Len(stack \o b) = Len(stack) + Len(b)
        /\ stack = <<>> => stack \o b = b
    BY Parts, ConcatProperties, ConcatEmptySeq
  <2>5. PICK c \in Seq(Subview) : c = stack \o b
    BY <2>4
  <2>6. c \o <<Plus>> \in Seq(Subview) /\ Len(c \o <<Plus>>) = Len(c) + 1
    BY <2>3
  <2>7. stack' = c \o <<Plus>>
    BY <2>1, <2>2, <2>5
  <2>8. index' \in Nat /\ index' <= Len(stack')
    <3>1. Len(stack') = Len(stack) + Len(array) + 1
      BY <2>2, <2>4, <2>5, <2>6, <2>7
    <3>2. Len(stack) \in Nat /\ Len(array) \in Nat /\ index \in Nat /\ index <= Len(stack)
      BY Parts DEF IInv, ListShape, RoomForButton
    <3> QED
      BY <2>1, <3>1, <3>2
  <2>9. ASSUME Fresh PROVE index' = Len(array) /\ stack' = Page(array)
    <3>1. stack = <<>> /\ index = 0
      BY <2>9 DEF Fresh
    <3>2. stack' = b \o <<Plus>> /\ b = Buttons(array, 0)
      BY <2>2, <2>4, <2>5, <2>7, <3>1
    <3>3. index' = 0 + Len(array) /\ Len(array) \in Nat
      BY <2>1, <3>1
    <3> QED
      BY <3>2, <3>3 DEF Page
  <2> QED
    BY <1>1, <2>6, <2>7, <2>8, <2>9 DEF RoomForButton
<1> QED
  BY <1>2, <1>3

-----------------------------------------------------------------------------
(***************************************************************************)
(* The main queue.                                                         *)
(***************************************************************************)

\* The first answer of the main queue, and what it leaves.
LEMMA HeadAnswer ==
    ASSUME IInv, mainq # <<>>
    PROVE  /\ Head(mainq) \in Completion /\ Head(mainq) = mainq[1] /\ 1 \in DOMAIN mainq
           /\ Tail(mainq) \in Seq(Completion) /\ Len(Tail(mainq)) = Len(mainq) - 1
           /\ Len(mainq) \in Nat \ {0} /\ DOMAIN Tail(mainq) = 1..Len(Tail(mainq))
           /\ \A k \in 1..Len(Tail(mainq)) :
                 k + 1 \in DOMAIN mainq /\ Tail(mainq)[k] = mainq[k + 1] /\ k + 1 # 1
           /\ AnswersUsed(Tail(mainq), used)
<1>1. /\ Head(mainq) \in Completion /\ Head(mainq) = mainq[1] /\ 1 \in 1..Len(mainq)
      /\ Tail(mainq) \in Seq(Completion) /\ Len(Tail(mainq)) = Len(mainq) - 1
      /\ Len(mainq) \in Nat \ {0} /\ DOMAIN mainq = 1..Len(mainq)
      /\ \A k \in 1..Len(Tail(mainq)) :
            k + 1 \in 1..Len(mainq) /\ Tail(mainq)[k] = mainq[k + 1] /\ k + 1 # 1
  BY Parts
<1>2. DOMAIN Tail(mainq) = 1..Len(Tail(mainq))
  BY <1>1
<1>3. AnswersUsed(mainq, used)
  BY FormParts
<1>4. AnswersUsed(Tail(mainq), used)
  BY <1>1, <1>2, <1>3 DEF AnswersUsed
<1> QED
  BY <1>1, <1>2, <1>4

\* A list that is told something by its only load is fresh, and awaits nothing
\* more.
LEMMA ListTold ==
    ASSUME IInv, mainq # <<>>, mainq' = Tail(mainq), UNCHANGED <<fetching, overlap>>
    PROVE  /\ OldAnswers(1)
           /\ Head(mainq).to = "list" /\ ~overlap => Fresh /\ OneLoad' /\ ~Awaits("list")'
<1>1. OldAnswers(1)
  BY HeadAnswer DEF OldAnswers
<1>2. ASSUME Head(mainq).to = "list", ~overlap
      PROVE  Fresh /\ OneLoad' /\ ~Awaits("list")'
  <2>1. mainq[1].to = "list" /\ 1 \in DOMAIN mainq
    BY <1>2, HeadAnswer
  <2>2. Awaits("list") /\ Fresh
    BY <1>2, <2>1 DEF IInv, ListShape, OneLoad, Awaits
  <2>3. fetching["list"] <= 1 /\ fetching["list"] # 1
    BY <1>2, <2>1 DEF IInv, ListShape, OneLoad
  <2>4. fetching["list"] = 0
    BY <2>3, Parts
  <2>5. \A i, j \in DOMAIN mainq : mainq[i].to = "list" /\ mainq[j].to = "list" => i = j
    BY <1>2 DEF IInv, ListShape, OneLoad
  <2>6. \A k \in DOMAIN mainq' : mainq'[k].to # "list"
    BY <2>1, <2>5, HeadAnswer
  <2>7. ~Awaits("list")'
    BY <2>4, <2>6 DEF Awaits
  <2>8. OneLoad'
    BY <2>4, <2>6, <2>7 DEF OneLoad
  <2> QED
    BY <2>2, <2>7, <2>8
<1> QED
  BY <1>1, <1>2

\* The contractors that a snapshot brings join the array.
LEMMA SnapshotFacts ==
    ASSUME IInv, mainq # <<>>, SnapshotArrives
    PROVE  \E docs \in Seq(Snapshot), new \in Seq(Element) :
              /\ docs = Head(mainq).docs /\ Len(new) = Len(docs) /\ Head(mainq).to = "list"
              /\ \A i \in 1..Len(docs) : new[i] = docs[i].documentID
              /\ contractorArray' = contractorArray \o new
              /\ contractorArray = <<>> => contractorArray' = new
              /\ contractorArray' \in Seq(Element)
              /\ contractorNumber' = contractorNumber + Len(new)
              /\ contractorNumber' \in Nat
<1>1. Head(mainq).kind = "snapshot"
  BY DEF SnapshotArrives
<1>2. Head(mainq).to = "list" /\ Head(mainq).docs \in Seq(Snapshot)
  BY <1>1, HeadAnswer, CompletionKinds
<1>3. PICK docs \in Seq(Snapshot) : docs = Head(mainq).docs
  BY <1>2
<1> DEFINE new == [i \in DOMAIN docs |-> docs[i].documentID]
<1>4. new \in Seq(Element) /\ Len(new) = Len(docs) /\ Len(docs) \in Nat
      /\ \A i \in 1..Len(docs) : new[i] = docs[i].documentID
  <2>1. \A i \in 1..Len(docs) : docs[i] \in Snapshot
    OBVIOUS
  <2>2. \A s \in Snapshot : s.documentID \in Element
    BY DEF Snapshot, Element
  <2> QED
    BY <2>1, <2>2
<1>5. contractorArray' = contractorArray \o new /\ contractorNumber' = contractorNumber + Len(new)
  BY <1>3 DEF SnapshotArrives
<1> HIDE DEF new
<1>6. contractorArray \o new \in Seq(Element) /\ (contractorArray = <<>> => contractorArray \o new = new)
  BY <1>4, Parts, ConcatProperties, ConcatEmptySeq
<1>7. contractorNumber' = contractorNumber + Len(new) /\ contractorNumber' \in Nat
  BY <1>4, <1>5, Parts
<1> QED
  BY <1>2, <1>3, <1>4, <1>5, <1>6, <1>7

LEMMA ListAnswerStep ==
    ASSUME IInv, mainq # <<>>, SnapshotArrives \/ LoadErrorArrives,
           UNCHANGED <<storeVars, used, currentContractor>>
    PROVE  IInv'
<1>1. /\ mainq' = Tail(mainq) /\ Head(mainq).kind \in {"snapshot", "loadError"}
      /\ UNCHANGED <<fetching, handlers, screen, errorShown, overlap, confirmed>>
      /\ trap' \in {trap, "constraint"}
  BY DEF SnapshotArrives, LoadErrorArrives
<1>2. Head(mainq).to = "list"
  BY <1>1, HeadAnswer, CompletionKinds
<1>3. CallsTypeOK'
  BY <1>1, HeadAnswer, Parts DEF IInv, CallsTypeOK, StoreTypeOK, storeVars
<1>4. KeysUsed' /\ FormOK'
  <2>1. KeysUsed'
    BY <1>1, HeadAnswer, Parts DEF KeysUsed, AnswersUsed, storeVars
  <2>2. FormOK'
    BY <1>1, FormParts DEF FormOK
  <2> QED
    BY <2>1, <2>2
<1>5. OldAnswers(1) /\ (~overlap => Fresh /\ OneLoad')
  BY <1>1, <1>2, ListTold
<1>6. OneLoad'
  BY <1>1, <1>5 DEF OneLoad
<1>7. CASE SnapshotArrives
  <2>1. /\ contractorArray' \in Seq(Element) /\ contractorNumber' \in Nat
        /\ BuildPage(contractorArray', contractorNumber')
    BY <1>7, SnapshotFacts DEF SnapshotArrives
  <2>2. /\ stack' \in Seq(Subview) /\ index' \in Nat /\ labelled' \in BOOLEAN /\ RoomForButton'
        /\ Fresh /\ stack' # <<>> => index' = Len(contractorArray') /\ stack' = Page(contractorArray')
    BY <2>1, BuildPageFacts
  <2>3. StackMatchesArray'
    BY <1>1, <1>5, <2>2 DEF StackMatchesArray, Page
  <2> QED
    BY <1>3, <1>4, <1>6, <2>1, <2>2, <2>3 DEF IInv, ListOK, ListShape
<1>8. CASE LoadErrorArrives
  <2>1. UNCHANGED <<contractorArray, contractorNumber>>
    BY <1>8 DEF LoadErrorArrives
  <2>2. CASE labelled
    <3>1. BuildPage(contractorArray, contractorNumber)
      BY <1>8, <2>2 DEF LoadErrorArrives
    <3>2. stack' \in Seq(Subview) /\ index' \in Nat /\ labelled' \in BOOLEAN /\ RoomForButton'
      BY <3>1, Parts, BuildPageFacts
    <3>3. overlap'
      BY <1>1, <1>5, <2>2, Parts DEF Fresh
    <3> QED
      BY <1>3, <1>4, <1>6, <2>1, <3>2, <3>3, Parts
      DEF IInv, ListOK, ListShape, StackMatchesArray
  <2>3. CASE ~labelled
    <3>1. UNCHANGED <<stack, index, labelled>>
      BY <1>8, <2>3 DEF LoadErrorArrives
    <3> QED
      BY <1>1, <1>3, <1>4, <1>6, <2>1, <3>1
      DEF IInv, ListOK, ListShape, RoomForButton, StackMatchesArray
  <2> QED
    BY <2>2, <2>3
<1> QED
  BY <1>7, <1>8

\* The answer to a save, on a list that reloads and on one that does not.
LEMMA SaveAnswerFacts ==
    ASSUME IInv, mainq # <<>>, SaveAnswered
    PROVE  /\ Head(mainq).kind = "written" /\ Head(mainq).doc \in used
           /\ Head(mainq).to \in Waiter /\ UNCHANGED trap
           /\ handlers' \in Seq(Waiter \cup {Nobody}) /\ Len(handlers') = Len(handlers)
           /\ mainq' \in Seq(Completion) /\ Len(mainq') = Len(Tail(mainq))
           /\ AnswersUsed(mainq', used)
           /\ \A k \in 1..Len(mainq') : /\ mainq'[k].kind = mainq[k + 1].kind
                                        /\ mainq'[k].to = "list" <=> mainq[k + 1].to = "list"
                                        /\ mainq[k + 1].kind = "written" =>
                                              /\ mainq'[k].doc = mainq[k + 1].doc
                                              /\ mainq'[k].ok = mainq[k + 1].ok
                                        /\ mainq[k + 1].kind # "written" => mainq'[k] = mainq[k + 1]
           /\ OldAnswers(1)
           /\ IF Head(mainq).ok
              THEN /\ Reload /\ confirmed' = confirmed \cup {Head(mainq).doc}
                   /\ screen' \in {screen, "list"} /\ UNCHANGED errorShown
                   /\ screen # "away" => screen' # "away"
              ELSE /\ UNCHANGED <<listVars, fetching, screen, overlap, confirmed>>
                   /\ errorShown' \in BOOLEAN
<1> DEFINE form == Head(mainq).to
<1>1. Head(mainq).kind = "written" /\ UNCHANGED trap
  BY DEF SaveAnswered
<1>2. form \in {"form", "closed form"}
  BY <1>1, HeadAnswer, CompletionKinds
<1>3. form \in Waiter /\ "closed form" \in Waiter
  BY <1>2, FieldNames
<1>4. Head(mainq).doc \in used
  BY <1>1, HeadAnswer, FormParts DEF AnswersUsed
<1>5. \/ ~Head(mainq).ok /\ mainq' = Tail(mainq) /\ UNCHANGED handlers
      \/ /\ Head(mainq).ok /\ mainq' = RenamedAll(Tail(mainq), form)
         /\ handlers' = [i \in DOMAIN handlers |->
                            IF handlers[i] = form THEN "closed form" ELSE handlers[i]]
  BY DEF SaveAnswered, RenamedAll, Renamed
<1>6. handlers' \in Seq(Waiter \cup {Nobody}) /\ Len(handlers') = Len(handlers)
  <2>1. CASE UNCHANGED handlers
    BY <2>1, Parts
  <2>2. CASE handlers' = [i \in DOMAIN handlers |->
                            IF handlers[i] = form THEN "closed form" ELSE handlers[i]]
    BY <1>3, <2>2, HandlersRenamed
  <2> QED
    BY <1>5, <2>1, <2>2
<1>7. mainq' = Tail(mainq) \/ mainq' = RenamedAll(Tail(mainq), form)
  BY <1>5
<1>8. form \in Waiter
  BY <1>3
<1>9. \A k \in 1..Len(Tail(mainq)) :
        /\ Tail(mainq)[k] = mainq[k + 1] /\ k + 1 \in DOMAIN mainq
        /\ Renamed(mainq[k + 1], form).kind = mainq[k + 1].kind
        /\ Renamed(mainq[k + 1], form).to = "list" <=> mainq[k + 1].to = "list"
        /\ mainq[k + 1].kind = "written" =>
              /\ Renamed(mainq[k + 1], form).doc = mainq[k + 1].doc
              /\ Renamed(mainq[k + 1], form).ok = mainq[k + 1].ok
        /\ mainq[k + 1].kind # "written" => Renamed(mainq[k + 1], form) = mainq[k + 1]
  <2> TAKE k \in 1..Len(Tail(mainq))
  <2>1. Tail(mainq)[k] = mainq[k + 1] /\ k + 1 \in DOMAIN mainq /\ mainq[k + 1] \in Completion
    BY HeadAnswer, Parts
  <2> QED
    BY <1>2, <2>1, RenamedFacts
<1>10. /\ mainq' \in Seq(Completion) /\ Len(mainq') = Len(Tail(mainq)) /\ AnswersUsed(mainq', used)
       /\ \A k \in 1..Len(mainq') : \/ mainq'[k] = Tail(mainq)[k]
                                    \/ mainq'[k] = Renamed(Tail(mainq)[k], form)
  <2>1. CASE mainq' = Tail(mainq)
    BY <2>1, HeadAnswer
  <2>2. CASE mainq' = RenamedAll(Tail(mainq), form)
    <3>1. Tail(mainq) \in Seq(Completion) /\ AnswersUsed(Tail(mainq), used)
      BY HeadAnswer
    <3> QED
      BY <1>8, <2>2, <3>1, AnswersRenamed
  <2> QED
    BY <1>7, <2>1, <2>2
<1>11. \A k \in 1..Len(mainq') : /\ mainq'[k].kind = mainq[k + 1].kind
                                 /\ mainq'[k].to = "list" <=> mainq[k + 1].to = "list"
                                 /\ mainq[k + 1].kind = "written" =>
                                       /\ mainq'[k].doc = mainq[k + 1].doc
                                       /\ mainq'[k].ok = mainq[k + 1].ok
                                 /\ mainq[k + 1].kind # "written" => mainq'[k] = mainq[k + 1]
  BY <1>9, <1>10
<1>12. OldAnswers(1)
  <2>1. DOMAIN mainq' = 1..Len(mainq') /\ Len(mainq') = Len(Tail(mainq))
    BY <1>10
  <2>2. \A k \in 1..Len(mainq') : k + 1 \in DOMAIN mainq
    BY <1>9, <2>1
  <2> QED
    BY <1>11, <2>1, <2>2 DEF OldAnswers
<1>13. IF Head(mainq).ok
       THEN /\ Reload /\ confirmed' = confirmed \cup {Head(mainq).doc}
            /\ screen' \in {screen, "list"} /\ UNCHANGED errorShown
            /\ screen # "away" => screen' # "away"
       ELSE /\ UNCHANGED <<listVars, fetching, screen, overlap, confirmed>>
            /\ errorShown' \in BOOLEAN
  <2>1. CASE Head(mainq).ok
    <3>1. /\ ConfirmAndReload /\ UNCHANGED errorShown
          /\ screen' = IF form = "form" THEN "list" ELSE screen
      BY <2>1 DEF SaveAnswered
    <3> QED
      BY <2>1, <3>1 DEF ConfirmAndReload
  <2>2. CASE ~Head(mainq).ok
    <3>1. /\ errorShown' = (errorShown \/ form = "form")
          /\ UNCHANGED <<listVars, fetching, screen, overlap, confirmed>>
      BY <2>2 DEF SaveAnswered
    <3>2. errorShown \in BOOLEAN
      BY FormParts DEF FormOK
    <3>3. errorShown' \in BOOLEAN
      BY <3>1, <3>2
    <3> QED
      BY <2>2, <3>1, <3>3
  <2> QED
    BY <2>1, <2>2
<1> QED
  BY <1>1, <1>4, <1>6, <1>8, <1>10, <1>11, <1>12, <1>13

LEMMA SaveAnswerStep ==
    ASSUME IInv, mainq # <<>>, SaveAnswered, UNCHANGED <<storeVars, used, currentContractor>>
    PROVE  IInv'
<1>1. StoreTypeOK' /\ queue' \in Seq(Additions(used'))
  BY StoreStep
<1>2. /\ handlers' \in Seq(Waiter \cup {Nobody}) /\ Len(handlers') = Len(queue')
      /\ mainq' \in Seq(Completion) /\ AnswersUsed(mainq', used') /\ OldAnswers(1)
  BY SaveAnswerFacts, Parts DEF storeVars
<1>3. CASE Head(mainq).ok
  <2>1. /\ Reload /\ confirmed' = confirmed \cup {Head(mainq).doc} /\ Head(mainq).doc \in used
        /\ screen' \in {screen, "list"} /\ UNCHANGED <<errorShown, trap>>
    BY <1>3, SaveAnswerFacts
  <2>2. overlap' \in BOOLEAN
    BY <2>1 DEF Reload, Awaits
  <2>3. FormOK'
    BY <2>1, <2>2, FormParts DEF FormOK
  <2> QED
    BY <1>1, <1>2, <2>1, <2>3, ReloadStep
<1>4. CASE ~Head(mainq).ok
  <2>1. /\ UNCHANGED <<listVars, fetching, screen, overlap, confirmed, trap>>
        /\ errorShown' \in BOOLEAN
    BY <1>4, SaveAnswerFacts
  <2>2. FormOK'
    BY <2>1, FormParts DEF FormOK
  <2> QED
    BY <1>1, <1>2, <2>1, <2>2, QuietStep
<1> QED
  BY <1>3, <1>4

-----------------------------------------------------------------------------
(***************************************************************************)
(* The client, the process, the portal.                                    *)
(***************************************************************************)

\* What a query answers: the documents of the view, each once.
LEMMA ResultsType ==
    ASSUME NEW view \in [DocId -> Document], NEW docs \in Results(view, Mine)
    PROVE  docs \in Seq(Snapshot)
<1> DEFINE found == {d \in DocId : view[d] \in Mine}
<1>1. PICK keys \in [1..Cardinality(found) -> found] :
        docs = [i \in DOMAIN keys |-> [documentID |-> keys[i], data |-> view[keys[i]]]]
  BY DEF Results
<1>2. PICK n \in Nat : n = Cardinality(found)
  BY FieldNames, FS_Subset, FS_CardinalityType
<1>3. \A k \in found : k \in DocId /\ view[k] \in Document
  OBVIOUS
<1> HIDE DEF found
<1>4. docs \in [1..n -> Snapshot]
  BY <1>1, <1>2, <1>3 DEF Snapshot
<1> QED
  BY <1>4

\* What the client tells the list.
LEMMA LoadFacts ==
    ASSUME IInv, LoadAnswered
    PROVE  /\ UNCHANGED <<queue, handlers>> /\ UNCHANGED programVars
           /\ StoreTypeOK' /\ queue' \in Seq(Additions(used'))
           /\ fetching["list"] > 0 /\ fetching' = [fetching EXCEPT !["list"] = @ - 1]
           /\ \E c \in Completion : mainq' = Append(mainq, c) /\ c.to = "list" /\ c.kind # "written"
<1>1. LocalView \in [DocId -> Document] /\ CachedView \in [DocId -> Document]
  BY Parts, OverlayType DEF LocalView, CachedView
<1>2. UNCHANGED programVars
  BY DEF LoadAnswered
<1>3. UNCHANGED used
  BY <1>2 DEF programVars
<1>4. ASSUME NEW view \in [DocId -> Document], AnswerQuery("list", view, Mine)
      PROVE  /\ fetching["list"] > 0 /\ fetching' = [fetching EXCEPT !["list"] = @ - 1]
             /\ UNCHANGED handlers
             /\ \E c \in Completion : mainq' = Append(mainq, c) /\ c.to = "list" /\ c.kind # "written"
  <2>1. PICK docs \in Results(view, Mine) :
          mainq' = Append(mainq, [kind |-> "snapshot", to |-> "list", docs |-> docs])
    BY <1>4 DEF AnswerQuery
  <2>2. docs \in Seq(Snapshot) /\ "list" \in Requester
    BY ResultsType, FieldNames
  <2>3. [kind |-> "snapshot", to |-> "list", docs |-> docs] \in Completion
    BY <2>2 DEF Completion
  <2> QED
    BY <1>4, <2>1, <2>3 DEF AnswerQuery
<1>5. CASE QueryServer("list", Mine)
  <2>1. AnswerQuery("list", LocalView, Mine) /\ Synchronise
    BY <1>5 DEF QueryServer
  <2>2. StoreTypeOK' /\ queue' \in Seq(Additions(used'))
    BY <1>3, <2>1, StoreStep
  <2> QED
    BY <1>1, <1>2, <1>4, <2>1, <2>2 DEF Synchronise
<1>6. CASE QueryCache("list", Mine)
  <2>1. AnswerQuery("list", CachedView, Mine) /\ UNCHANGED storeVars
    BY <1>6 DEF QueryCache
  <2>2. StoreTypeOK' /\ queue' \in Seq(Additions(used'))
    BY <1>3, <2>1, StoreStep
  <2> QED
    BY <1>1, <1>2, <1>4, <2>1, <2>2 DEF storeVars
<1>7. CASE QueryFails("list")
  <2>1. [kind |-> "loadError", to |-> "list"] \in Completion
    BY FieldNames DEF Completion
  <2>2. StoreTypeOK' /\ queue' \in Seq(Additions(used'))
    BY <1>3, <1>7, StoreStep DEF QueryFails
  <2> QED
    BY <1>2, <1>7, <2>1, <2>2 DEF QueryFails, storeVars
<1> QED
  BY <1>5, <1>6, <1>7 DEF LoadAnswered

LEMMA LoadStep ==
    ASSUME IInv, LoadAnswered
    PROVE  IInv'
<1>1. PICK c \in Completion : mainq' = Append(mainq, c) /\ c.to = "list" /\ c.kind # "written"
  BY LoadFacts
<1>2. /\ UNCHANGED <<queue, handlers, used, listVars, screen, currentContractor, errorShown, trap,
                     overlap, confirmed>>
      /\ StoreTypeOK' /\ queue' \in Seq(Additions(used'))
      /\ fetching["list"] > 0 /\ fetching' = [fetching EXCEPT !["list"] = @ - 1]
  BY LoadFacts DEF programVars
<1>3. fetching' \in [{"list"} -> Nat] /\ fetching'["list"] = fetching["list"] - 1
  BY <1>2, Parts
<1>4. /\ mainq' \in Seq(Completion) /\ Len(mainq') = Len(mainq) + 1 /\ Len(mainq) \in Nat
      /\ \A k \in 1..Len(mainq) : mainq'[k] = mainq[k]
      /\ mainq'[Len(mainq) + 1] = c
      /\ DOMAIN mainq' = 1..(Len(mainq) + 1) /\ DOMAIN mainq = 1..Len(mainq)
  BY <1>1, Parts
<1>5. CallsTypeOK'
  <2>1. Requester = {"list"}
    BY FieldNames
  <2> QED
    BY <1>2, <1>3, <1>4, <2>1, Parts DEF CallsTypeOK
<1>6. KeysUsed'
  <2>1. \A k \in 1..Len(mainq) : mainq[k].kind = "written" => mainq[k].doc \in used
    BY <1>4, FormParts DEF AnswersUsed
  <2>2. \A k \in 1..(Len(mainq) + 1) : k \in 1..Len(mainq) \/ k = Len(mainq) + 1
    BY <1>4
  <2>3. AnswersUsed(mainq', used')
    BY <1>1, <1>2, <1>4, <2>1, <2>2 DEF AnswersUsed
  <2> QED
    BY <1>2, <2>3 DEF KeysUsed, AnswersUsed
<1>7. ListOK' /\ FormOK' /\ RoomForButton' /\ StackMatchesArray'
  BY <1>2 DEF IInv, ListOK, FormOK, ListShape, RoomForButton, StackMatchesArray, listVars
<1>8. OneLoad'
  <2>1. ASSUME ~overlap'
        PROVE  /\ fetching'["list"] = 0 /\ Fresh'
               /\ \A k \in 1..Len(mainq) : mainq[k].to # "list"
    <3>1. fetching["list"] = 1
      BY <1>2, <2>1, Parts DEF IInv, ListShape, OneLoad
    <3>2. Fresh
      BY <1>2, <2>1 DEF IInv, ListShape, OneLoad, Awaits
    <3>3. \A k \in DOMAIN mainq : mainq[k].to # "list"
      BY <1>2, <2>1, <3>1 DEF IInv, ListShape, OneLoad
    <3> QED
      BY <1>2, <1>3, <1>4, <3>1, <3>2, <3>3 DEF Fresh, listVars
  <2>2. ASSUME ~overlap', NEW k \in DOMAIN mainq', mainq'[k].to = "list"
        PROVE  k = Len(mainq) + 1
    BY <1>4, <2>1, <2>2
  <2> QED
    BY <2>1, <2>2 DEF OneLoad
<1> QED
  BY <1>5, <1>6, <1>7, <1>8 DEF IInv, ListShape

\* What the server's answer to the oldest addition brings.
LEMMA SaveConfirmedFacts ==
    ASSUME IInv, SaveConfirmed
    PROVE  /\ UNCHANGED <<programVars, fetching>>
           /\ queue # <<>> /\ queue' = Tail(queue) /\ Head(queue) = Addition(Head(queue).doc)
           /\ Head(queue).doc \in used
           /\ handlers' \in Seq(Waiter \cup {Nobody}) /\ Len(handlers') = Len(queue')
           /\ \/ mainq' = mainq
              \/ \E c \in Completion :
                    /\ mainq' = Append(mainq, c) /\ c.kind = "written" /\ c.to # "list"
                    /\ c.doc = Head(queue).doc /\ (c.ok => Acknowledge)
<1>1. PICK ok \in BOOLEAN : NotifyUser(ok) /\ (Acknowledge \/ Reject) /\ (ok => Acknowledge)
  BY DEF SaveConfirmed, WriteAnswered
<1>2. UNCHANGED <<programVars, fetching>>
  BY DEF SaveConfirmed, WriteAnswered
<1>3. queue # <<>> /\ queue' = Tail(queue)
  <2>1. queue' = Tail(queue) /\ (queue # <<>> \/ sent > 0)
    BY <1>1 DEF Acknowledge, Reject
  <2>2. sent > 0 => queue # <<>>
    BY Parts
  <2> QED
    BY <2>1, <2>2
<1>4. Head(queue) \in Additions(used) /\ Len(queue') = Len(queue) - 1 /\ Len(queue) # 0
  BY <1>3, Parts
<1>5. PICK d \in used : Head(queue) = Addition(d)
  BY <1>4 DEF Additions
<1>6. d \in DocId /\ Head(queue).doc = d
  BY <1>5, Parts, AdditionType
<1>7. /\ handlers # <<>> /\ handlers' = Tail(handlers)
      /\ mainq' = IF Head(handlers) = Nobody THEN mainq
                  ELSE Append(mainq, [kind |-> "written", to |-> Head(handlers),
                                      doc |-> Head(queue).doc, ok |-> ok])
  <2>1. handlers # <<>>
    BY <1>4, Parts
  <2> QED
    BY <1>1, <2>1 DEF NotifyUser
<1>8. /\ handlers' \in Seq(Waiter \cup {Nobody}) /\ Len(handlers') = Len(handlers) - 1
      /\ Head(handlers) \in Waiter \cup {Nobody}
  BY <1>7, Parts
<1>9. ASSUME Head(handlers) # Nobody
      PROVE  /\ [kind |-> "written", to |-> Head(handlers), doc |-> Head(queue).doc, ok |-> ok]
                   \in Completion
             /\ Head(handlers) # "list"
  <2>1. Head(handlers) \in Waiter
    BY <1>8, <1>9
  <2>2. "list" \notin Waiter
    BY FieldNames
  <2> QED
    BY <1>6, <2>1, <2>2 DEF Completion
<1>10. \/ mainq' = mainq
       \/ \E c \in Completion :
             /\ mainq' = Append(mainq, c) /\ c.kind = "written" /\ c.to # "list"
             /\ c.doc = Head(queue).doc /\ (c.ok => Acknowledge)
  BY <1>1, <1>7, <1>9
<1> QED
  BY <1>2, <1>3, <1>4, <1>5, <1>6, <1>8, <1>10, Parts

LEMMA SaveConfirmedStep ==
    ASSUME IInv, SaveConfirmed
    PROVE  IInv'
<1>1. /\ UNCHANGED <<used, listVars, screen, currentContractor, errorShown, trap, overlap,
                     confirmed, fetching>>
      /\ Head(queue).doc \in used
      /\ handlers' \in Seq(Waiter \cup {Nobody}) /\ Len(handlers') = Len(queue')
      /\ \/ mainq' = mainq
         \/ \E c \in Completion : /\ mainq' = Append(mainq, c) /\ c.kind = "written" /\ c.to # "list"
                                  /\ c.doc = Head(queue).doc
  BY SaveConfirmedFacts DEF programVars
<1>2. StoreTypeOK' /\ queue' \in Seq(Additions(used'))
  BY <1>1, StoreStep DEF SaveConfirmed, WriteAnswered
<1>3. mainq' \in Seq(Completion) /\ AnswersUsed(mainq', used') /\ OldAnswers(0)
  <2>1. CASE mainq' = mainq
    BY <1>1, <2>1, Parts, FormParts
  <2>2. ASSUME NEW c \in Completion, mainq' = Append(mainq, c), c.kind = "written", c.to # "list",
               c.doc = Head(queue).doc
        PROVE  mainq' \in Seq(Completion) /\ AnswersUsed(mainq', used') /\ OldAnswers(0)
    <3>1. /\ mainq' \in Seq(Completion) /\ Len(mainq') = Len(mainq) + 1 /\ Len(mainq) \in Nat
          /\ \A k \in 1..Len(mainq) : mainq'[k] = mainq[k] /\ k + 0 = k
          /\ mainq'[Len(mainq) + 1] = c
          /\ DOMAIN mainq' = 1..(Len(mainq) + 1) /\ DOMAIN mainq = 1..Len(mainq)
      BY <2>2, Parts
    <3>2. \A k \in 1..Len(mainq) : mainq[k].kind = "written" => mainq[k].doc \in used
      BY <3>1, FormParts DEF AnswersUsed
    <3>3. \A k \in 1..(Len(mainq) + 1) : k \in 1..Len(mainq) \/ k = Len(mainq) + 1
      BY <3>1
    <3>4. AnswersUsed(mainq', used')
      BY <1>1, <2>2, <3>1, <3>2, <3>3 DEF AnswersUsed
    <3>5. OldAnswers(0)
      BY <2>2, <3>1, <3>3 DEF OldAnswers
    <3> QED
      BY <3>1, <3>4, <3>5
  <2> QED
    BY <1>1, <2>1, <2>2
<1>4. FormOK'
  BY <1>1, FormParts DEF FormOK
<1> QED
  BY <1>1, <1>2, <1>3, <1>4, QuietStep

LEMMA OtherStep ==
    ASSUME IInv,
           \/ StreamWorks \/ Restart \/ UNCHANGED vars
           \/ \E d \in DocId : PortalActs(d)
    PROVE  IInv'
<1>1. CASE StreamWorks \/ UNCHANGED vars
  <2>1. /\ UNCHANGED <<callVars, programVars>>
        /\ (Deliver \/ Reconnect \/ UNCHANGED storeVars) /\ UNCHANGED queue
    BY <1>1 DEF StreamWorks, WriteStream, Deliver, Reconnect, vars, programVars, storeVars
  <2>2. UNCHANGED <<fetching, handlers, mainq, used, listVars, screen, currentContractor, errorShown,
                    trap, overlap, confirmed>>
    BY <2>1 DEF callVars, programVars
  <2>3. StoreTypeOK' /\ queue' \in Seq(Additions(used'))
    BY <2>1, <2>2, StoreStep
  <2>4. /\ handlers' \in Seq(Waiter \cup {Nobody}) /\ Len(handlers') = Len(queue')
        /\ mainq' \in Seq(Completion) /\ AnswersUsed(mainq', used') /\ OldAnswers(0) /\ FormOK'
    BY <2>1, <2>2, Parts, FormParts DEF AnswersUsed, FormOK
  <2> QED
    BY <2>2, <2>3, <2>4, QuietStep
<1>2. CASE Restart
  <2>1. /\ UNCHANGED <<storeVars, used, currentContractor, confirmed>>
        /\ fetching' = [r \in Requester |-> 0]
        /\ handlers' = [i \in DOMAIN handlers |-> Nobody] /\ mainq' = <<>>
        /\ screen' = "away" /\ errorShown' = FALSE /\ trap' = "none" /\ overlap' = FALSE
        /\ contractorArray' = <<>> /\ contractorNumber' = 0
        /\ index' = 0 /\ stack' = <<>> /\ labelled' = FALSE
    BY <1>2 DEF Restart, ProcessEnds, Clear
  <2>2. StoreTypeOK' /\ queue' \in Seq(Additions(used'))
    BY <2>1, StoreStep
  <2>3. handlers' \in Seq(Waiter \cup {Nobody}) /\ Len(handlers') = Len(queue')
    <3>1. Len(handlers) \in Nat /\ DOMAIN handlers = 1..Len(handlers)
      BY Parts
    <3>2. handlers' \in [1..Len(handlers) -> {Nobody}]
      BY <2>1, <3>1
    <3>3. handlers' \in Seq({Nobody}) /\ Len(handlers') = Len(handlers)
      BY <3>1, <3>2
    <3> QED
      BY <2>1, <3>3, Parts, SeqMonotonic, {Nobody} \subseteq Waiter \cup {Nobody} DEF storeVars
  <2>4. <<>> \in Seq(Completion) /\ <<>> \in Seq(Element) /\ <<>> \in Seq(Subview) /\ Len(<<>>) = 0
    <3>1. <<>> \in Seq(Completion)
      OBVIOUS
    <3>2. <<>> \in Seq(Element)
      OBVIOUS
    <3>3. <<>> \in Seq(Subview)
      OBVIOUS
    <3>4. Len(<<>>) = 0
      OBVIOUS
    <3> QED
      BY <3>1, <3>2, <3>3, <3>4
  <2>5. fetching' \in [Requester -> Nat] /\ fetching'["list"] = 0 /\ DOMAIN mainq' = {}
    <3>1. "list" \in Requester
      BY FieldNames
    <3>2. DOMAIN mainq' = {}
      BY <2>1
    <3> QED
      BY <2>1, <3>1, <3>2
  <2>6. CallsTypeOK' /\ KeysUsed'
    BY <2>1, <2>2, <2>3, <2>4, <2>5 DEF CallsTypeOK, KeysUsed
  <2>7. ListOK' /\ FormOK' /\ StackMatchesArray'
    BY <2>1, <2>4, FormParts DEF ListOK, FormOK, StackMatchesArray
  <2>8. RoomForButton'
    BY <2>1, <2>4 DEF RoomForButton
  <2>9. OneLoad'
    BY <2>1, <2>5 DEF OneLoad, Awaits
  <2> QED
    BY <2>6, <2>7, <2>8, <2>9 DEF IInv, ListShape
<1>3. ASSUME NEW d \in DocId, PortalActs(d) PROVE IInv'
  <2>1. /\ UNCHANGED <<fetching, handlers, mainq, listVars, screen, currentContractor, errorShown,
                       trap, overlap, confirmed, queue>>
        /\ RemoteSet(d, Contractor(d)) \/ RemoteSet(d, NoDoc)
        /\ used' = used \cup {d} \/ used' = used
    BY <1>3 DEF PortalActs, callVars, RemoteSet
  <2>2. used \subseteq used' /\ used' \subseteq DocId
    BY <2>1, Parts
  <2>3. StoreTypeOK' /\ queue' \in Seq(Additions(used'))
    BY <2>1, <2>2, StoreStep
  <2>4. /\ handlers' \in Seq(Waiter \cup {Nobody}) /\ Len(handlers') = Len(queue')
        /\ mainq' \in Seq(Completion) /\ AnswersUsed(mainq', used') /\ OldAnswers(0)
    BY <2>1, <2>2, Parts, FormParts DEF AnswersUsed
  <2>5. FormOK'
    BY <2>1, <2>2, FormParts DEF FormOK
  <2> QED
    BY <2>1, <2>3, <2>4, <2>5, QuietStep
<1> QED
  BY <1>1, <1>2, <1>3

LEMMA InitStep ==
    ASSUME Init
    PROVE  IInv
<1>1. Existing \subseteq DocId /\ \A d \in DocId : Contractor(d) \in Document /\ NoDoc \in Document
  BY ContractorsAssumption, AdditionType
<1>2. StoreTypeOK
  <2>1. <<>> \in Seq(Mutation) /\ Len(<<>>) = 0
    OBVIOUS
  <2>2. server \in [DocId -> Document] /\ cache \in [DocId -> Document]
    BY <1>1 DEF Init
  <2>3. sent = 0 /\ queue = <<>> /\ synced = [d \in DocId |-> 0] /\ 0 \in 0..0
    BY DEF Init
  <2>4. synced \in [DocId -> 0..sent]
    BY <2>3
  <2> QED
    BY <2>1, <2>2, <2>3, <2>4 DEF StoreTypeOK
<1>3. /\ <<>> \in Seq(Completion) /\ <<>> \in Seq(Element) /\ <<>> \in Seq(Subview)
      /\ <<>> \in Seq(Waiter \cup {Nobody}) /\ <<>> \in Seq(Additions(used)) /\ Len(<<>>) = 0
  <2>1. <<>> \in Seq(Completion) /\ Len(<<>>) = 0
    OBVIOUS
  <2>2. <<>> \in Seq(Element)
    OBVIOUS
  <2>3. <<>> \in Seq(Subview)
    OBVIOUS
  <2>4. <<>> \in Seq(Waiter \cup {Nobody})
    OBVIOUS
  <2>5. <<>> \in Seq(Additions(used))
    OBVIOUS
  <2> QED
    BY <2>1, <2>2, <2>3, <2>4, <2>5
<1>4. CallsTypeOK /\ KeysUsed
  <2>1. fetching \in [Requester -> Nat] /\ handlers = <<>> /\ mainq = <<>> /\ queue = <<>>
    BY DEF Init, CallsInit
  <2> QED
    BY <1>2, <1>3, <2>1 DEF CallsTypeOK, KeysUsed
<1>5. ListOK /\ FormOK /\ StackMatchesArray
  BY <1>1, <1>3 DEF Init, ListOK, FormOK, Element, StackMatchesArray
<1>6. RoomForButton
  BY <1>3 DEF Init, RoomForButton
<1>7. OneLoad
  <2>1. fetching["list"] = 0 /\ mainq = <<>>
    BY FieldNames DEF Init, CallsInit
  <2> QED
    BY <2>1 DEF OneLoad, Awaits
<1> QED
  BY <1>4, <1>5, <1>6, <1>7 DEF IInv, ListShape

LEMMA NextStep ==
    ASSUME IInv, [Next]_vars
    PROVE  IInv'
<1>1. CASE UserActs
  BY <1>1, OpenBackStep, LeaveStep, ContractorButtonStep, InsertionStep, AddStep DEF UserActs
<1>2. CASE ClientActs
  <2>1. MainQueueRuns => IInv'
    BY ListAnswerStep, SaveAnswerStep DEF MainQueueRuns
  <2> QED
    BY <1>2, <2>1, LoadStep, SaveConfirmedStep, OtherStep DEF ClientActs
<1> QED
  BY <1>1, <1>2, OtherStep DEF Next

LEMMA Invariant == Spec => []IInv
BY InitStep, NextStep, PTL DEF Spec

-----------------------------------------------------------------------------
(***************************************************************************)
(* Theorems.                                                               *)
(***************************************************************************)

\* TypeOK holds in every reachable state.
THEOREM TypeCorrect == Spec => []TypeOK
<1>1. IInv => TypeOK
  BY DEF IInv, ListOK, FormOK, Element, Subview, TypeOK
<1> QED
  BY <1>1, Invariant, PTL

\* Unless two loads have filled one array, the i-th button of the stack is
\* titled with, and opens, the i-th contractor of the array, and "+" is last.
THEOREM ButtonsOpenWhatTheyShow == Spec => []StackMatchesArray
<1>1. IInv => StackMatchesArray
  BY DEF IInv, ListShape
<1> QED
  BY <1>1, Invariant, PTL

-----------------------------------------------------------------------------
(***************************************************************************)
(* The contractors that the user was told about.                           *)
(***************************************************************************)

\* A step brings no news of a contractor, or none but of d.
OldNews    == \A d \in DocId : Told(d)' => Told(d)
NewsOf(e)  == \A d \in DocId : Told(d)' => Told(d) \/ d = e

\* No contractor that is told of is stored by it.
NothingAppears == \A d \in DocId : Told(d) /\ server'[d] # NoDoc => server[d] # NoDoc

LEMMA QueueFacts ==
    ASSUME IInv
    PROVE  \A i \in 1..Len(queue) : /\ queue[i].doc \in used /\ queue[i].doc \in DocId
                                    /\ queue[i] = Addition(queue[i].doc) /\ queue[i] \in Mutation
<1> TAKE i \in 1..Len(queue)
<1>1. queue[i] \in Additions(used) /\ queue[i] \in Mutation
  BY Parts
<1>2. PICK d \in used : queue[i] = Addition(d)
  BY <1>1 DEF Additions
<1>3. d \in DocId /\ Addition(d).doc = d
  BY Parts, AdditionType
<1> QED
  BY <1>1, <1>2, <1>3

LEMMA ToldUsed ==
    ASSUME IInv, NEW d, Told(d)
    PROVE  d \in used
BY FormParts DEF Told, FormOK, AnswersUsed

LEMMA WriteServed ==
    ASSUME ConfirmedInv, OldNews, NEW d \in DocId \ used, Write(Addition(d))
    PROVE  QueueServed' /\ ToldServed' /\ NothingAppears
<1>1. IInv /\ QueueServed /\ ToldServed
  BY DEF ConfirmedInv
<1>2. PICK n \in Nat : n = Len(queue)
  BY <1>1, Parts
<1>3. /\ Len(queue') = n + 1 /\ UNCHANGED <<server, cache, sent, synced>>
      /\ \A i \in 1..n : queue'[i] = queue[i]
      /\ queue'[n + 1].doc = d
  <2>1. /\ queue' = Append(queue, Addition(d)) /\ queue \in Seq(Mutation)
        /\ UNCHANGED <<server, cache, sent, synced>>
    BY <1>1, Parts DEF Write
  <2>2. Addition(d) \in Mutation /\ Addition(d).doc = d
    BY AdditionType
  <2> QED
    BY <1>2, <2>1, <2>2
<1>4. \A i \in 1..n : queue[i].doc # d /\ queue[i].doc \in DocId
  BY <1>1, <1>2, QueueFacts
<1>5. synced[d] \in Nat /\ synced[d] <= n
  <2>1. sent \in 0..n /\ synced[d] \in 0..sent
    BY <1>1, <1>2, Parts
  <2> QED
    BY <2>1
<1>6. \A i \in 1..(n + 1) : i \in 1..n \/ i = n + 1
  OBVIOUS
<1>7. ASSUME NEW i \in 1..(n + 1), NEW j \in 1..(n + 1), queue'[i].doc = queue'[j].doc
      PROVE  i = j
  BY <1>1, <1>2, <1>3, <1>4, <1>6, <1>7 DEF QueueServed
<1>8. ASSUME NEW i \in 1..(n + 1), i <= synced[queue'[i].doc]
      PROVE  server[queue'[i].doc] # NoDoc => cache[queue'[i].doc] # NoDoc
  <2>1. i # n + 1
    BY <1>3, <1>5, <1>8
  <2> QED
    BY <1>1, <1>2, <1>3, <1>6, <1>8, <2>1 DEF QueueServed, Served
<1>9. QueueServed'
  BY <1>3, <1>7, <1>8 DEF QueueServed, Served
<1>10. ASSUME NEW e \in DocId, Told(e)'
       PROVE  (server[e] # NoDoc => cache[e] # NoDoc) /\ \A i \in 1..(n + 1) : queue'[i].doc # e
  <2>1. Told(e)
    BY <1>10 DEF OldNews
  <2>2. e # d
    BY <1>1, <2>1, ToldUsed
  <2> QED
    BY <1>1, <1>2, <1>3, <1>6, <2>1, <2>2 DEF ToldServed, Served
<1>11. ToldServed'
  BY <1>3, <1>10 DEF ToldServed, Served
<1> QED
  BY <1>3, <1>9, <1>11 DEF NothingAppears

\* Someone stores a contractor that nobody was told of, and no addition that
\* the cache has seen is about.
LEMMA StoredServed ==
    ASSUME ConfirmedInv, OldNews, UNCHANGED <<cache, queue, synced>>, NEW e \in DocId, ~Told(e),
           \A d \in DocId \ {e} : server'[d] = server[d],
           \A i \in 1..Len(queue) : queue[i].doc = e => i > synced[e]
    PROVE  QueueServed' /\ ToldServed' /\ NothingAppears
<1>1. IInv /\ QueueServed /\ ToldServed
  BY DEF ConfirmedInv
<1>2. ASSUME NEW i \in 1..Len(queue), i <= synced[queue[i].doc]
      PROVE  server'[queue[i].doc] # NoDoc => cache[queue[i].doc] # NoDoc
  <2>1. queue[i].doc \in DocId /\ i \in Nat /\ synced[e] \in Nat
    BY <1>1, QueueFacts, Parts
  <2>2. queue[i].doc # e
    BY <1>2, <2>1
  <2> QED
    BY <1>1, <1>2, <2>1, <2>2 DEF QueueServed, Served
<1>3. QueueServed'
  BY <1>1, <1>2 DEF QueueServed, Served
<1>4. ToldServed'
  BY <1>1 DEF ToldServed, Served, OldNews
<1>5. NothingAppears
  BY DEF NothingAppears
<1> QED
  BY <1>3, <1>4, <1>5

LEMMA StoreServed ==
    ASSUME ConfirmedInv, OldNews,
           \/ Deliver \/ Reject \/ Reconnect \/ Synchronise \/ UNCHANGED storeVars
           \/ \E d \in DocId : RemoteSet(d, NoDoc) \/ (d \notin used /\ RemoteSet(d, Contractor(d)))
    PROVE  QueueServed' /\ ToldServed' /\ NothingAppears
<1>1. IInv /\ QueueServed /\ ToldServed
  BY DEF ConfirmedInv
<1>2. CASE Deliver
  <2>1. sent \in Nat /\ sent + 1 \in 1..Len(queue)
    BY <1>1, <1>2, Parts DEF Deliver
  <2>2. PICK e \in DocId : e = queue[sent + 1].doc
    BY <1>1, <2>1, QueueFacts
  <2>3. ~Told(e)
    BY <1>1, <2>1, <2>2 DEF ToldServed
  <2>4. \A d \in DocId \ {e} : server'[d] = server[d]
    BY <1>1, <1>2, <2>2, Parts DEF Deliver, Apply
  <2>5. \A i \in 1..Len(queue) : queue[i].doc = e => i > synced[e]
    <3>1. synced[e] \in 0..sent
      BY <1>1, Parts
    <3>2. \A i \in 1..Len(queue) : queue[i].doc = e => i = sent + 1
      BY <1>1, <2>1, <2>2 DEF QueueServed
    <3> QED
      BY <2>1, <3>1, <3>2
  <2> QED
    BY <1>2, <2>3, <2>4, <2>5, StoredServed DEF Deliver
<1>3. CASE Reject
  <2>1. /\ queue # <<>> /\ sent = 0 /\ queue' = Tail(queue)
        /\ UNCHANGED <<server, cache, sent, synced>>
    BY <1>3 DEF Reject
  <2>2. PICK r \in Seq(Mutation) :
          /\ r = Tail(queue) /\ Len(r) = Len(queue) - 1 /\ Len(queue) \in Nat \ {0}
          /\ \A i \in 1..Len(r) : i + 1 \in 1..Len(queue) /\ r[i] = queue[i + 1]
    BY <1>1, <2>1, Parts, TailOf
  <2>3. \A i \in 1..Len(r) : r[i].doc \in DocId /\ synced[r[i].doc] = 0
    BY <1>1, <2>1, <2>2, QueueFacts, Parts
  <2>4. \A i, j \in 1..Len(r) : r[i].doc = r[j].doc => i = j
    <3> SUFFICES ASSUME NEW i \in 1..Len(r), NEW j \in 1..Len(r), r[i].doc = r[j].doc PROVE i = j
      OBVIOUS
    <3>1. i + 1 = j + 1
      BY <1>1, <2>2 DEF QueueServed
    <3> QED
      BY <3>1
  <2>5. \A i \in 1..Len(r) : ~(i <= synced[r[i].doc])
    BY <2>2, <2>3
  <2>6. QueueServed'
    BY <2>1, <2>2, <2>4, <2>5 DEF QueueServed
  <2>7. ToldServed'
    BY <1>1, <2>1, <2>2 DEF ToldServed, Served, OldNews
  <2> QED
    BY <2>1, <2>6, <2>7 DEF NothingAppears
<1>4. CASE Reconnect
  <2>1. UNCHANGED <<server, cache, queue>> /\ \A d \in DocId : synced'[d] = 0
    BY <1>4 DEF Reconnect
  <2>2. \A i \in 1..Len(queue) : ~(i <= synced'[queue[i].doc])
    BY <1>1, <2>1, QueueFacts, Parts
  <2>3. QueueServed' /\ ToldServed'
    BY <1>1, <2>1, <2>2 DEF QueueServed, ToldServed, Served, OldNews
  <2> QED
    BY <2>1, <2>3 DEF NothingAppears
<1>5. CASE Synchronise
  BY <1>1, <1>5 DEF Synchronise, QueueServed, ToldServed, Served, OldNews, NothingAppears
<1>6. CASE UNCHANGED storeVars
  BY <1>1, <1>6 DEF storeVars, QueueServed, ToldServed, Served, OldNews, NothingAppears
<1>7. ASSUME NEW d \in DocId, RemoteSet(d, NoDoc)
      PROVE  QueueServed' /\ ToldServed' /\ NothingAppears
  <2>1. /\ UNCHANGED <<cache, queue, sent, synced>>
        /\ \A e \in DocId : server'[e] # NoDoc => server'[e] = server[e]
    BY <1>1, <1>7, Parts DEF RemoteSet
  <2>2. \A i \in 1..Len(queue) : queue[i].doc \in DocId
    BY <1>1, QueueFacts
  <2> QED
    BY <1>1, <2>1, <2>2 DEF QueueServed, ToldServed, Served, OldNews, NothingAppears
<1>8. ASSUME NEW d \in DocId, d \notin used, RemoteSet(d, Contractor(d))
      PROVE  QueueServed' /\ ToldServed' /\ NothingAppears
  <2>1. /\ UNCHANGED <<cache, queue, sent, synced>>
        /\ \A e \in DocId \ {d} : server'[e] = server[e]
    BY <1>1, <1>8, Parts DEF RemoteSet
  <2>2. ~Told(d) /\ \A i \in 1..Len(queue) : queue[i].doc # d
    BY <1>1, <1>8, ToldUsed, QueueFacts
  <2> QED
    BY <2>1, <2>2, StoredServed
<1> QED
  BY <1>2, <1>3, <1>4, <1>5, <1>6, <1>7, <1>8

\* The answer to an addition takes it from the queue to the cache.
LEMMA AcknowledgeServed ==
    ASSUME ConfirmedInv, Acknowledge, NewsOf(Head(queue).doc)
    PROVE  QueueServed' /\ ToldServed' /\ NothingAppears
<1>1. IInv /\ QueueServed /\ ToldServed
  BY DEF ConfirmedInv
<1>2. /\ queue # <<>> /\ queue' = Tail(queue) /\ UNCHANGED server /\ synced' = OneLessSynced
      /\ cache' = IF synced[Head(queue).doc] = 0 THEN Apply(cache, Head(queue)) ELSE cache
  <2>1. sent > 0 /\ sent \in 0..Len(queue) /\ Len(queue) \in Nat
    BY <1>1, Parts DEF Acknowledge
  <2>2. queue # <<>>
    BY <2>1
  <2> QED
    BY <2>2 DEF Acknowledge, AcknowledgeCache
<1>3. PICK r \in Seq(Mutation) :
        /\ r = Tail(queue) /\ Len(r) = Len(queue) - 1 /\ Len(queue) \in Nat \ {0}
        /\ \A i \in 1..Len(r) : i + 1 \in 1..Len(queue) /\ r[i] = queue[i + 1]
        /\ Head(queue) = queue[1] /\ 1 \in 1..Len(queue)
  <2>1. 1 \in 1..Len(queue)
    BY <1>1, <1>2, Parts, TailOf
  <2> QED
    BY <1>1, <1>2, <2>1, Parts, TailOf
<1>4. PICK e \in DocId : e = queue[1].doc /\ queue[1] = Addition(e)
  BY <1>1, <1>3, QueueFacts
<1>5. \A i \in 1..Len(r) : r[i].doc # e /\ r[i].doc \in DocId
  <2> TAKE i \in 1..Len(r)
  <2>1. i + 1 \in 1..Len(queue) /\ r[i] = queue[i + 1] /\ i + 1 # 1
    BY <1>3
  <2> QED
    BY <1>1, <1>3, <1>4, <2>1, QueueFacts DEF QueueServed
<1>6. \A d \in DocId \ {e} : cache'[d] = cache[d]
  BY <1>1, <1>2, <1>3, <1>4, Parts DEF Apply
<1>7. server'[e] # NoDoc => cache'[e] # NoDoc
  <2>1. CASE synced[e] = 0
    <3>1. Apply(cache, Addition(e))[e] = Merge(cache[e], Contractor(e))
      BY <1>1, AdditionType, Parts DEF Apply, Addition
    <3>2. Merge(cache[e], Contractor(e)) = Contractor(e) /\ Contractor(e) # NoDoc
      BY <1>1, AdditionType, Parts
    <3>3. cache' = Apply(cache, Addition(e))
      BY <1>2, <1>3, <1>4, <2>1
    <3> QED
      BY <3>1, <3>2, <3>3
  <2>2. CASE synced[e] # 0
    <3>1. 1 <= synced[e]
      BY <1>1, <2>2, Parts
    <3>2. Served(e) /\ cache' = cache
      BY <1>1, <1>2, <1>3, <1>4, <2>2, <3>1 DEF QueueServed
    <3> QED
      BY <1>2, <3>2 DEF Served
  <2> QED
    BY <2>1, <2>2
<1>8. \A i, j \in 1..Len(r) : r[i].doc = r[j].doc => i = j
  <2> SUFFICES ASSUME NEW i \in 1..Len(r), NEW j \in 1..Len(r), r[i].doc = r[j].doc PROVE i = j
    OBVIOUS
  <2>1. i + 1 = j + 1
    BY <1>1, <1>3 DEF QueueServed
  <2> QED
    BY <2>1
<1>9. ASSUME NEW i \in 1..Len(r), i <= synced'[r[i].doc]
      PROVE  server'[r[i].doc] # NoDoc => cache'[r[i].doc] # NoDoc
  <2>1. i + 1 \in 1..Len(queue) /\ r[i] = queue[i + 1] /\ r[i].doc \in DocId \ {e}
    BY <1>3, <1>5
  <2>2. synced'[r[i].doc] = IF synced[r[i].doc] = 0 THEN 0 ELSE synced[r[i].doc] - 1
    BY <1>2, <2>1 DEF OneLessSynced
  <2>3. synced[r[i].doc] \in Nat
    BY <1>1, <2>1, Parts
  <2>4. i + 1 <= synced[queue[i + 1].doc]
    BY <1>9, <2>1, <2>2, <2>3
  <2>5. Served(r[i].doc)
    BY <1>1, <2>1, <2>4 DEF QueueServed
  <2> QED
    BY <1>2, <1>6, <2>1, <2>5 DEF Served
<1>10. QueueServed'
  BY <1>2, <1>3, <1>8, <1>9 DEF QueueServed, Served
<1>11. ASSUME NEW d \in DocId, Told(d)'
       PROVE  /\ server'[d] # NoDoc => cache'[d] # NoDoc
              /\ \A i \in 1..Len(r) : r[i].doc # d
  <2>1. CASE d = e
    BY <1>5, <1>7, <2>1
  <2>2. CASE d # e
    <3>1. Told(d)
      BY <1>3, <1>4, <1>11, <2>2 DEF NewsOf
    <3> QED
      BY <1>1, <1>2, <1>3, <1>6, <2>2, <3>1 DEF ToldServed, Served
  <2> QED
    BY <2>1, <2>2
<1>12. ToldServed'
  BY <1>2, <1>3, <1>11 DEF ToldServed, Served
<1> QED
  BY <1>2, <1>10, <1>12 DEF NothingAppears

\* An answer lists every contractor that the view has.
LEMMA ResultsComplete ==
    ASSUME NEW view \in [DocId -> Document], NEW docs \in Results(view, Mine),
           NEW d \in DocId, view[d] # NoDoc
    PROVE  \E i \in DOMAIN docs : docs[i].documentID = d
<1> DEFINE found == {e \in DocId : view[e] \in Mine}
<1>1. PICK keys \in [1..Cardinality(found) -> found] :
        /\ \A i, j \in DOMAIN keys : i < j => KeyOrder[keys[i]] < KeyOrder[keys[j]]
        /\ docs = [i \in DOMAIN keys |-> [documentID |-> keys[i], data |-> view[keys[i]]]]
  BY DEF Results
<1>2. IsFiniteSet(found)
  BY FieldNames, FS_Subset
<1>3. PICK n \in Nat : n = Cardinality(found)
  BY <1>2, FS_CardinalityType
<1>4. d \in found /\ \A k \in found : KeyOrder[k] \in Nat
  BY FieldNames DEF Mine
<1> HIDE DEF found
<1>5. keys \in [1..n -> found] /\ DOMAIN keys = 1..n
  BY <1>1, <1>3
<1>6. \A i, j \in 1..n : keys[i] = keys[j] => i = j
  <2> SUFFICES ASSUME NEW i \in 1..n, NEW j \in 1..n, i < j PROVE keys[i] # keys[j]
    OBVIOUS
  <2>1. KeyOrder[keys[i]] < KeyOrder[keys[j]] /\ KeyOrder[keys[i]] \in Nat
    BY <1>1, <1>4, <1>5
  <2> QED
    BY <2>1
<1>7. keys \in Injection(1..n, found)
  BY <1>5, <1>6 DEF Injection, IsInjective
<1>8. Cardinality(1..n) = n
  <2>1. Cardinality(1..n) = IF 1 > n THEN 0 ELSE n - 1 + 1
    BY FS_Interval
  <2> QED
    BY <2>1
<1>9. keys \in Surjection(1..n, found)
  BY <1>2, <1>3, <1>7, <1>8, FS_Injection
<1>10. PICK i \in 1..n : keys[i] = d
  BY <1>4, <1>9 DEF Surjection
<1> QED
  BY <1>1, <1>5, <1>10

\* A contractor that is not queued is what the server, or the cache, says.
LEMMA UnqueuedView ==
    ASSUME IInv, NEW d \in DocId, \A i \in 1..Len(queue) : queue[i].doc # d
    PROVE  LocalView[d] = server[d] /\ CachedView[d] = cache[d]
<1>1. ASSUME NEW base \in [DocId -> Document] PROVE Overlay(base, queue)[d] = base[d]
  <2>1. \A f \in Field, i \in 1..Len(queue) : ~Writes(queue, i, d, f)
    BY DEF Writes
  <2>2. \A f \in Field : Overlay(base, queue)[d][f] = base[d][f]
    BY <2>1, Parts, OverlayUnwritten
  <2>3. Overlay(base, queue)[d] = [f \in Field |-> Overlay(base, queue)[d][f]]
    BY OverlayShape
  <2>4. base[d] = [f \in Field |-> base[d][f]]
    BY DEF Document
  <2> QED
    BY <2>2, <2>3, <2>4
<1> QED
  BY <1>1, Parts DEF LocalView, CachedView

-----------------------------------------------------------------------------
(***************************************************************************)
(* News on the main queue.                                                 *)
(***************************************************************************)

\* The handler of the first answer tells the user about its contractor.
NewlyConfirmed ==
    /\ 1 \in DOMAIN mainq /\ mainq[1].kind = "written" /\ mainq[1].ok
    /\ confirmed' = confirmed \cup {mainq[1].doc}

LEMMA KeptNews ==
    ASSUME ConfirmedInv, mainq' \in Seq(Completion), NEW shift \in {0, 1}, SameAnswers(shift),
           confirmed' = confirmed \/ (shift = 1 /\ NewlyConfirmed)
    PROVE  OldNews /\ (NothingAppears => AnswersList')
<1>1. OldNews
  <2> SUFFICES ASSUME NEW d \in DocId, Told(d)' PROVE Told(d)
    BY DEF OldNews
  <2>1. CASE d \in confirmed'
    BY <2>1 DEF Told, NewlyConfirmed
  <2>2. ASSUME NEW k \in DOMAIN mainq', mainq'[k].kind = "written", mainq'[k].ok, mainq'[k].doc = d
        PROVE  Told(d)
    BY <2>2 DEF Told, SameAnswers
  <2> QED
    BY <2>1, <2>2 DEF Told
<1>2. ASSUME NothingAppears, NEW k \in DOMAIN mainq', mainq'[k].kind = "snapshot",
             NEW d \in DocId, server'[d] # NoDoc
      PROVE  /\ d \in confirmed' => Lists(mainq'[k], d)
             /\ \A j \in DOMAIN mainq' :
                   j < k /\ mainq'[j].kind = "written" /\ mainq'[j].ok /\ mainq'[j].doc = d
                     => Lists(mainq'[k], d)
  <2>1. /\ k + shift \in DOMAIN mainq /\ mainq[k + shift].kind = "snapshot"
        /\ mainq'[k] = mainq[k + shift]
    BY <1>2 DEF SameAnswers
  <2>2. Told(d) => server[d] # NoDoc
    BY <1>2 DEF NothingAppears
  <2>3. k \in Nat \ {0}
    <3>1. DOMAIN mainq' = 1..Len(mainq') /\ Len(mainq') \in Nat
      OBVIOUS
    <3> QED
      BY <3>1
  <2>4. ASSUME d \in confirmed' PROVE Lists(mainq[k + shift], d)
    <3>1. CASE d \in confirmed
      BY <2>1, <2>2, <3>1 DEF Told, ConfirmedInv, AnswersList
    <3>2. CASE d \notin confirmed
      <4>1. /\ shift = 1 /\ 1 \in DOMAIN mainq /\ mainq[1].kind = "written" /\ mainq[1].ok
            /\ mainq[1].doc = d
        BY <2>4, <3>2 DEF NewlyConfirmed
      <4>2. Told(d) /\ 1 < k + shift
        BY <2>3, <4>1 DEF Told
      <4> QED
        BY <2>1, <2>2, <4>1, <4>2 DEF ConfirmedInv, AnswersList
    <3> QED
      BY <3>1, <3>2
  <2>5. ASSUME NEW j \in DOMAIN mainq', j < k, mainq'[j].kind = "written", mainq'[j].ok,
               mainq'[j].doc = d
        PROVE  Lists(mainq[k + shift], d)
    <3>1. j \in Nat
      <4>1. DOMAIN mainq' = 1..Len(mainq') /\ Len(mainq') \in Nat
        OBVIOUS
      <4> QED
        BY <4>1
    <3>2. j + shift < k + shift
      BY <2>3, <2>5, <3>1
    <3>3. /\ j + shift \in DOMAIN mainq /\ mainq[j + shift].kind = "written"
          /\ mainq[j + shift].ok /\ mainq[j + shift].doc = d
      BY <2>5 DEF SameAnswers
    <3>4. Told(d)
      BY <3>3 DEF Told
    <3> QED
      BY <2>1, <2>2, <3>2, <3>3, <3>4 DEF ConfirmedInv, AnswersList
  <2> QED
    BY <2>1, <2>4, <2>5
<1>3. NothingAppears => AnswersList'
  BY <1>2 DEF AnswersList
<1> QED
  BY <1>1, <1>3

LEMMA AddedNews ==
    ASSUME ConfirmedInv, NEW c \in Completion, mainq' = Append(mainq, c), UNCHANGED confirmed
    PROVE  /\ ~(c.kind = "written" /\ c.ok) => OldNews
           /\ c.kind = "written" => NewsOf(c.doc)
           /\ /\ NothingAppears
              /\ c.kind = "snapshot" =>
                    \A d \in DocId : Told(d) /\ server'[d] # NoDoc => Lists(c, d)
              => AnswersList'
<1>1. /\ Len(mainq) \in Nat /\ DOMAIN mainq = 1..Len(mainq) /\ DOMAIN mainq' = 1..(Len(mainq) + 1)
      /\ \A k \in 1..Len(mainq) : mainq'[k] = mainq[k]
      /\ mainq'[Len(mainq) + 1] = c
  BY Parts DEF ConfirmedInv
<1>2. \A k \in 1..(Len(mainq) + 1) : k \in 1..Len(mainq) \/ k = Len(mainq) + 1
  BY <1>1
<1>3. ~(c.kind = "written" /\ c.ok) => OldNews
  BY <1>1, <1>2 DEF OldNews, Told
<1>4. c.kind = "written" => NewsOf(c.doc)
  BY <1>1, <1>2 DEF NewsOf, Told
<1>5. ASSUME NothingAppears,
             c.kind = "snapshot" => \A d \in DocId : Told(d) /\ server'[d] # NoDoc => Lists(c, d),
             NEW k \in 1..(Len(mainq) + 1), mainq'[k].kind = "snapshot",
             NEW d \in DocId, server'[d] # NoDoc
      PROVE  /\ d \in confirmed => Lists(mainq'[k], d)
             /\ \A j \in 1..(Len(mainq) + 1) :
                   j < k /\ mainq'[j].kind = "written" /\ mainq'[j].ok /\ mainq'[j].doc = d
                     => Lists(mainq'[k], d)
  <2>1. Told(d) => server[d] # NoDoc
    BY <1>5 DEF NothingAppears
  <2>2. \A j \in 1..(Len(mainq) + 1) : j < k => j \in 1..Len(mainq)
    BY <1>1
  <2>3. d \in confirmed => Told(d)
    BY DEF Told
  <2>4. \A j \in 1..Len(mainq) :
          mainq[j].kind = "written" /\ mainq[j].ok /\ mainq[j].doc = d => Told(d)
    BY <1>1 DEF Told
  <2>5. CASE k = Len(mainq) + 1
    BY <1>1, <1>5, <2>2, <2>3, <2>4, <2>5
  <2>6. CASE k \in 1..Len(mainq)
    BY <1>1, <1>5, <2>1, <2>2, <2>3, <2>4, <2>6 DEF ConfirmedInv, AnswersList
  <2> QED
    BY <1>2, <2>5, <2>6
<1>6. /\ NothingAppears
      /\ c.kind = "snapshot" => \A d \in DocId : Told(d) /\ server'[d] # NoDoc => Lists(c, d)
      => AnswersList'
  BY <1>1, <1>5 DEF AnswersList
<1> QED
  BY <1>3, <1>4, <1>6

\* A list that is left as it is, and one that starts over.
LEMMA ShowsKept ==
    ASSUME ConfirmedInv, NothingAppears, UNCHANGED <<confirmed, stack, labelled>>,
           Alive' /\ screen' # "away" => Alive /\ screen # "away",
           Awaits("list") => Awaits("list")'
    PROVE  ListShows'
<1>1. \A d \in confirmed : Told(d) /\ d \in DocId
  BY Parts DEF Told, ConfirmedInv
<1> QED
  BY <1>1 DEF ConfirmedInv, ListShows, NothingAppears, Shown

LEMMA ShowsReload ==
    ASSUME IInv, Reload
    PROVE  ListShows'
<1>1. fetching' = [fetching EXCEPT !["list"] = @ + 1] /\ labelled' = FALSE
  BY DEF Reload, GetDocuments, Clear
<1>2. fetching'["list"] > 0
  BY <1>1, Parts
<1> QED
  BY <1>1, <1>2 DEF ListShows, Awaits

LEMMA Unmoved ==
    ASSUME IInv
    PROVE  /\ mainq' = mainq => SameAnswers(0)
           /\ mainq # <<>> /\ mainq' = Tail(mainq) => SameAnswers(1)
<1>1. Len(mainq) \in Nat /\ DOMAIN mainq = 1..Len(mainq)
  BY Parts
<1>2. \A k \in 1..Len(mainq) : k + 0 = k
  BY <1>1
<1>3. mainq' = mainq => SameAnswers(0)
  BY <1>1, <1>2 DEF SameAnswers
<1>4. mainq # <<>> /\ mainq' = Tail(mainq) => SameAnswers(1)
  BY HeadAnswer DEF SameAnswers
<1> QED
  BY <1>3, <1>4

\* A step that leaves the store, the queue of answers and the news as they are.
LEMMA StillConfirmed ==
    ASSUME ConfirmedInv, IInv', UNCHANGED <<storeVars, confirmed>>,
           NEW shift \in {0, 1}, SameAnswers(shift), ListShows'
    PROVE  ConfirmedInv'
<1>1. mainq' \in Seq(Completion)
  BY DEF IInv, CallsTypeOK
<1>2. OldNews /\ (NothingAppears => AnswersList')
  BY <1>1, KeptNews
<1>3. QueueServed' /\ ToldServed' /\ NothingAppears
  BY <1>2, StoreServed
<1> QED
  BY <1>2, <1>3 DEF ConfirmedInv

LEMMA UserConfirmed ==
    ASSUME ConfirmedInv, IInv', UserActs
    PROVE  ConfirmedInv'
<1>1. IInv /\ (UNCHANGED server => NothingAppears)
  BY DEF ConfirmedInv, NothingAppears
<1>2. CASE Open
  <2>1. UNCHANGED <<storeVars, confirmed, mainq>> /\ Reload
    BY <1>2 DEF Open
  <2> QED
    BY <1>1, <2>1, Unmoved, ShowsReload, StillConfirmed
<1>3. CASE Back
  <2>1. UNCHANGED <<storeVars, confirmed, mainq>> /\ screen' = "away"
    BY <1>3 DEF Back, callVars
  <2>2. ListShows'
    BY <2>1 DEF ListShows
  <2> QED
    BY <1>1, <2>1, <2>2, Unmoved, StillConfirmed
<1>4. CASE LeaveForm
  <2>1. /\ UNCHANGED <<storeVars, confirmed, stack, labelled, trap>> /\ screen = "form"
        /\ UNCHANGED server
    BY <1>4 DEF LeaveForm, listVars, storeVars
  <2>2. SameAnswers(0) /\ (Awaits("list") => Awaits("list")')
    BY <1>1, <1>4, LeaveFacts
  <2>3. ListShows'
    BY <1>1, <2>1, <2>2, ShowsKept DEF Alive
  <2> QED
    BY <2>1, <2>2, <2>3, StillConfirmed
<1>5. ASSUME NEW i \in DOMAIN stack, ContractorButtonAction(i) PROVE ConfirmedInv'
  <2>1. /\ UNCHANGED <<storeVars, confirmed, stack, labelled, mainq, fetching, server>>
        /\ Alive /\ screen = "list"
    BY <1>5 DEF ContractorButtonAction, listVars, callVars, storeVars
  <2>2. Awaits("list")' <=> Awaits("list")
    BY <2>1 DEF Awaits
  <2>3. ListShows'
    BY <1>1, <2>1, <2>2, ShowsKept
  <2> QED
    BY <1>1, <2>1, <2>3, Unmoved, StillConfirmed
<1>6. ASSUME NEW i \in DOMAIN stack, InsertionButtonAction(i) PROVE ConfirmedInv'
  <2>1. /\ UNCHANGED <<storeVars, confirmed, labelled, mainq, fetching, server, screen, trap>>
        /\ stack' = InsertAt(stack, index + 1, Button(index, Blank))
    BY <1>6 DEF InsertionButtonAction, InsertButton, callVars, storeVars
  <2>2. Awaits("list")' <=> Awaits("list")
    BY <2>1 DEF Awaits
  <2>3. PICK k \in 1..(Len(stack) + 1) : k = index + 1
    <3>1. index + 1 \in 1..(Len(stack) + 1)
      BY <1>1, Parts DEF IInv, ListShape, RoomForButton
    <3> QED
      BY <3>1
  <2>4. Button(index, Blank) \in Subview /\ stack \in Seq(Subview)
    BY <1>1, Parts DEF Button, Subview, Element
  <2>5. /\ stack' \in Seq(Subview) /\ Len(stack') = Len(stack) + 1
        /\ \A j \in 1..(Len(stack) + 1) :
              stack'[j] = IF j < k THEN stack[j] ELSE IF j = k THEN Button(index, Blank) ELSE stack[j - 1]
    BY <2>1, <2>3, <2>4, InsertFacts
  <2>6. \A j \in 1..Len(stack) : \E m \in 1..(Len(stack) + 1) : stack'[m] = stack[j]
    <3> TAKE j \in 1..Len(stack)
    <3>1. CASE j < k
      BY <2>4, <2>5, <3>1
    <3>2. CASE ~(j < k)
      <4>1. j + 1 \in 1..(Len(stack) + 1) /\ ~(j + 1 < k) /\ j + 1 # k /\ (j + 1) - 1 = j
        BY <2>3, <2>4, <3>2
      <4> QED
        BY <2>5, <4>1
    <3> QED
      BY <3>1, <3>2
  <2>7. \A d : Shown(d) => Shown(d)'
    <3>1. DOMAIN stack = 1..Len(stack) /\ DOMAIN stack' = 1..(Len(stack) + 1)
      BY <2>4, <2>5
    <3> QED
      BY <2>6, <3>1 DEF Shown
  <2>8. ListShows'
    BY <2>1, <2>2, <2>7 DEF ConfirmedInv, ListShows, Alive
  <2> QED
    BY <1>1, <2>1, <2>8, Unmoved, StillConfirmed
<1>7. ASSUME NEW d \in DocId, AddContractorTapped(d) PROVE ConfirmedInv'
  <2>1. /\ d \notin used /\ Write(Addition(d)) /\ UNCHANGED server
        /\ UNCHANGED <<fetching, mainq, stack, labelled, screen, trap, confirmed>>
    BY <1>7 DEF AddContractorTapped, SetData, Addition, Write, listVars
  <2>2. mainq' \in Seq(Completion) /\ SameAnswers(0)
    BY <1>1, <2>1, Unmoved, Parts
  <2>3. OldNews /\ (NothingAppears => AnswersList')
    BY <2>1, <2>2, KeptNews
  <2>4. QueueServed' /\ ToldServed' /\ NothingAppears
    BY <2>1, <2>3, WriteServed
  <2>5. Awaits("list")' <=> Awaits("list")
    BY <2>1 DEF Awaits
  <2>6. ListShows'
    BY <2>1, <2>4, <2>5, ShowsKept DEF Alive
  <2> QED
    BY <2>3, <2>4, <2>6 DEF ConfirmedInv
<1> QED
  BY <1>2, <1>3, <1>4, <1>5, <1>6, <1>7 DEF UserActs

\* A page that lists a contractor shows it.
LEMMA SnapshotShows ==
    ASSUME ConfirmedInv, mainq # <<>>, SnapshotArrives, UNCHANGED storeVars
    PROVE  ListShows'
<1>1. IInv /\ UNCHANGED <<screen, trap, confirmed, server>>
  BY DEF ConfirmedInv, SnapshotArrives, storeVars
<1>2. PICK docs \in Seq(Snapshot), new \in Seq(Element) :
        /\ docs = Head(mainq).docs /\ Len(new) = Len(docs)
        /\ \A i \in 1..Len(docs) : new[i] = docs[i].documentID
        /\ contractorArray' = contractorArray \o new /\ contractorArray' \in Seq(Element)
        /\ contractorNumber' = contractorNumber + Len(new) /\ contractorNumber' \in Nat
  BY <1>1, SnapshotFacts
<1>3. BuildPage(contractorArray', contractorNumber')
  BY DEF SnapshotArrives
<1>4. Head(mainq).kind = "snapshot" /\ Head(mainq) = mainq[1] /\ 1 \in DOMAIN mainq
  BY <1>1, HeadAnswer DEF SnapshotArrives
<1>5. ASSUME Alive', screen' # "away", NEW d \in confirmed', server'[d] # NoDoc
      PROVE  ~labelled' /\ Shown(d)'
  <2>1. ~labelled /\ d \in confirmed /\ d \in DocId
    BY <1>1, <1>5, Parts DEF ConfirmedInv, ListShows, Alive
  <2>2. Lists(mainq[1], d)
    BY <1>1, <1>4, <1>5, <2>1 DEF ConfirmedInv, AnswersList
  <2>3. PICK i \in 1..Len(docs) : docs[i].documentID = d
    <3>1. DOMAIN docs = 1..Len(docs) /\ mainq[1].docs = docs
      BY <1>2, <1>4
    <3> QED
      BY <2>2, <3>1 DEF Lists
  <2>4. Len(new) \in Nat \ {0} /\ i \in 1..Len(new) /\ new[i] = d /\ Len(contractorArray) \in Nat
    <3>1. Len(docs) \in Nat /\ Len(new) = Len(docs) /\ new[i] = d
      BY <1>2, <2>3
    <3>2. contractorArray \in Seq(Element)
      BY <1>1, Parts
    <3> QED
      BY <2>3, <3>1, <3>2
  <2>5. contractorNumber' # 0
    BY <1>1, <1>2, <2>4, Parts
  <2>6. /\ ~labelled'
        /\ stack' = stack \o Buttons(contractorArray', index) \o <<Plus>>
    BY <1>3, <2>1, <2>5 DEF BuildPage
  <2>7. PICK j \in 1..Len(contractorArray') : contractorArray'[j] = d
    <3>1. /\ Len(contractorArray') = Len(contractorArray) + Len(new)
          /\ \A m \in 1..(Len(contractorArray) + Len(new)) :
                contractorArray'[m] = IF m <= Len(contractorArray) THEN contractorArray[m]
                                      ELSE new[m - Len(contractorArray)]
      <4>1. contractorArray \in Seq(Element) /\ new \in Seq(Element)
        BY <1>1, <1>2, Parts
      <4>2. /\ Len(contractorArray \o new) = Len(contractorArray) + Len(new)
            /\ \A m \in 1..(Len(contractorArray) + Len(new)) :
                  (contractorArray \o new)[m] = IF m <= Len(contractorArray) THEN contractorArray[m]
                                                ELSE new[m - Len(contractorArray)]
        BY <4>1, ConcatProperties
      <4> QED
        BY <1>2, <4>2
    <3>2. /\ Len(contractorArray) + i \in 1..(Len(contractorArray) + Len(new))
          /\ ~(Len(contractorArray) + i <= Len(contractorArray))
          /\ (Len(contractorArray) + i) - Len(contractorArray) = i
      BY <2>4
    <3>3. contractorArray'[Len(contractorArray) + i] = d
      BY <2>4, <3>1, <3>2
    <3> QED
      BY <3>1, <3>2, <3>3
  <2>8. PICK b \in Seq(Subview) :
          /\ b = Buttons(contractorArray', index) /\ Len(b) = Len(contractorArray')
          /\ b[j] # Plus /\ b[j].contractor = d
    <3>1. PICK array \in Seq(Element) : array = contractorArray'
      BY <1>2
    <3>2. /\ Buttons(array, index) \in Seq(Subview) /\ Len(Buttons(array, index)) = Len(array)
          /\ Buttons(array, index)[j] # Plus /\ Buttons(array, index)[j].contractor = array[j]
      BY <1>1, <2>7, <3>1, Parts, ButtonsFacts
    <3> QED
      BY <2>7, <3>1, <3>2
  <2>9. PICK c \in Seq(Subview) :
          /\ c = stack \o b /\ Len(c) = Len(stack) + Len(b)
          /\ Len(stack) + j \in 1..Len(c) /\ c[Len(stack) + j] = b[j]
    <3>1. stack \in Seq(Subview) /\ Len(stack) \in Nat /\ Len(b) \in Nat /\ j \in 1..Len(b)
      BY <1>1, <2>7, <2>8, Parts
    <3>2. /\ stack \o b \in Seq(Subview) /\ Len(stack \o b) = Len(stack) + Len(b)
          /\ \A m \in 1..(Len(stack) + Len(b)) :
                (stack \o b)[m] = IF m <= Len(stack) THEN stack[m] ELSE b[m - Len(stack)]
      BY <3>1, ConcatProperties
    <3>3. /\ Len(stack) + j \in 1..(Len(stack) + Len(b)) /\ ~(Len(stack) + j <= Len(stack))
          /\ (Len(stack) + j) - Len(stack) = j
      BY <3>1
    <3>4. (stack \o b)[Len(stack) + j] = b[j]
      BY <3>2, <3>3
    <3> QED
      BY <3>2, <3>3, <3>4
  <2>10. stack' = c \o <<Plus>>
    BY <2>6, <2>8, <2>9
  <2>11. /\ DOMAIN stack' = 1..(Len(c) + 1)
         /\ \A m \in 1..Len(c) : m \in 1..(Len(c) + 1) /\ stack'[m] = c[m]
    <3>1. Plus \in Subview
      BY DEF Subview
    <3> QED
      BY <2>10, <3>1
  <2>12. Shown(d)'
    BY <2>8, <2>9, <2>11 DEF Shown
  <2> QED
    BY <2>6, <2>12
<1> QED
  BY <1>5 DEF ListShows

LEMMA MainQueueConfirmed ==
    ASSUME ConfirmedInv, IInv', MainQueueRuns
    PROVE  ConfirmedInv'
<1>1. /\ IInv /\ mainq # <<>> /\ UNCHANGED <<storeVars, used, currentContractor>>
      /\ UNCHANGED server
  BY DEF ConfirmedInv, MainQueueRuns, storeVars
<1>2. CASE SnapshotArrives
  <2>1. mainq' = Tail(mainq) /\ UNCHANGED confirmed
    BY <1>2 DEF SnapshotArrives
  <2> QED
    BY <1>1, <1>2, <2>1, Unmoved, SnapshotShows, StillConfirmed
<1>3. CASE LoadErrorArrives
  <2>1. mainq' = Tail(mainq) /\ UNCHANGED <<confirmed, screen>>
    BY <1>3 DEF LoadErrorArrives
  <2>2. ListShows'
    <3>1. CASE labelled
      <4>1. UNCHANGED trap
        BY <1>3, <3>1 DEF LoadErrorArrives
      <4> QED
        BY <1>1, <2>1, <3>1, <4>1 DEF ConfirmedInv, ListShows, Alive
    <3>2. CASE ~labelled
      BY <1>3, <3>2 DEF LoadErrorArrives, ListShows, Alive
    <3> QED
      BY <3>1, <3>2
  <2> QED
    BY <1>1, <2>1, <2>2, Unmoved, StillConfirmed
<1>4. CASE SaveAnswered
  <2>1. /\ Head(mainq).kind = "written" /\ Head(mainq).to \in Waiter /\ UNCHANGED trap
        /\ mainq' \in Seq(Completion) /\ Len(mainq') = Len(Tail(mainq))
        /\ \A k \in 1..Len(mainq') : /\ mainq'[k].kind = mainq[k + 1].kind
                                     /\ mainq'[k].to = "list" <=> mainq[k + 1].to = "list"
                                     /\ mainq[k + 1].kind = "written" =>
                                           /\ mainq'[k].doc = mainq[k + 1].doc
                                           /\ mainq'[k].ok = mainq[k + 1].ok
                                     /\ mainq[k + 1].kind # "written" => mainq'[k] = mainq[k + 1]
    BY <1>1, <1>4, SaveAnswerFacts
  <2>2. DOMAIN mainq' = 1..Len(mainq')
    BY <2>1
  <2>3. SameAnswers(1)
    BY <1>1, <2>1, <2>2, HeadAnswer DEF SameAnswers
  <2>4. CASE Head(mainq).ok
    <3>1. Reload /\ confirmed' = confirmed \cup {Head(mainq).doc}
      BY <1>1, <1>4, <2>4, SaveAnswerFacts
    <3>2. NewlyConfirmed
      BY <1>1, <2>1, <2>4, <3>1, HeadAnswer DEF NewlyConfirmed
    <3>3. OldNews /\ (NothingAppears => AnswersList')
      BY <2>1, <2>3, <3>2, KeptNews
    <3>4. QueueServed' /\ ToldServed' /\ NothingAppears
      BY <1>1, <3>3, StoreServed
    <3> QED
      BY <1>1, <3>1, <3>3, <3>4, ShowsReload DEF ConfirmedInv
  <2>5. CASE ~Head(mainq).ok
    <3>1. UNCHANGED <<stack, labelled, fetching, screen, confirmed>>
      BY <1>1, <1>4, <2>5, SaveAnswerFacts DEF listVars
    <3>2. Head(mainq).to # "list"
      BY <2>1, FieldNames
    <3>3. Awaits("list") => Awaits("list")'
      <4> SUFFICES ASSUME NEW i \in DOMAIN mainq, mainq[i].to = "list"
                   PROVE  \E k \in DOMAIN mainq' : mainq'[k].to = "list"
        BY <3>1 DEF Awaits
      <4>1. i # 1 /\ i \in 1..Len(mainq) /\ Len(mainq) \in Nat /\ Len(mainq') = Len(mainq) - 1
        BY <1>1, <2>1, <3>2, HeadAnswer, Parts
      <4>2. i - 1 \in 1..Len(mainq') /\ (i - 1) + 1 = i
        BY <4>1
      <4> QED
        BY <2>1, <2>2, <4>2
    <3>4. NothingAppears
      BY <1>1 DEF NothingAppears
    <3>5. ListShows'
      BY <2>1, <3>1, <3>3, <3>4, ShowsKept DEF Alive
    <3> QED
      BY <1>1, <2>3, <3>1, <3>5, StillConfirmed
  <2> QED
    BY <2>4, <2>5
<1> QED
  BY <1>2, <1>3, <1>4 DEF MainQueueRuns

LEMMA LoadConfirmed ==
    ASSUME ConfirmedInv, IInv', LoadAnswered
    PROVE  ConfirmedInv'
<1>1. /\ IInv /\ UNCHANGED <<confirmed, stack, labelled, screen, trap>>
      /\ Synchronise \/ UNCHANGED storeVars
      /\ NothingAppears
  <2>1. UNCHANGED programVars /\ (Synchronise \/ UNCHANGED storeVars)
    BY DEF LoadAnswered, QueryServer, QueryCache, QueryFails
  <2>2. UNCHANGED server
    BY <2>1 DEF Synchronise, storeVars
  <2> QED
    BY <2>1, <2>2 DEF ConfirmedInv, programVars, listVars, NothingAppears
<1>2. /\ LocalView \in [DocId -> Document] /\ CachedView \in [DocId -> Document]
      /\ \A d \in DocId : Told(d) /\ server[d] # NoDoc =>
            LocalView[d] # NoDoc /\ CachedView[d] # NoDoc
  <2>1. LocalView \in [DocId -> Document] /\ CachedView \in [DocId -> Document]
    BY <1>1, Parts, OverlayType DEF LocalView, CachedView
  <2>2. ASSUME NEW d \in DocId, Told(d), server[d] # NoDoc
        PROVE  LocalView[d] # NoDoc /\ CachedView[d] # NoDoc
    <3>1. Served(d) /\ \A i \in 1..Len(queue) : queue[i].doc # d
      BY <2>2 DEF ConfirmedInv, ToldServed
    <3> QED
      BY <1>1, <2>2, <3>1, UnqueuedView DEF Served
  <2> QED
    BY <2>1, <2>2
<1>3. ASSUME NEW view \in {LocalView, CachedView}, AnswerQuery("list", view, Mine)
      PROVE  \E c \in Completion :
                /\ mainq' = Append(mainq, c) /\ c.to = "list" /\ c.kind # "written"
                /\ \A d \in DocId : Told(d) /\ server[d] # NoDoc => Lists(c, d)
  <2>1. PICK docs \in Results(view, Mine) :
          mainq' = Append(mainq, [kind |-> "snapshot", to |-> "list", docs |-> docs])
    BY <1>3 DEF AnswerQuery
  <2>2. docs \in Seq(Snapshot) /\ "list" \in Requester
    BY <1>2, ResultsType, FieldNames
  <2>3. [kind |-> "snapshot", to |-> "list", docs |-> docs] \in Completion
    BY <2>2 DEF Completion
  <2>4. \A d \in DocId : Told(d) /\ server[d] # NoDoc =>
          \E i \in DOMAIN docs : docs[i].documentID = d
    BY <1>2, ResultsComplete
  <2> QED
    BY <2>1, <2>3, <2>4 DEF Lists
<1>4. \E c \in Completion :
        /\ mainq' = Append(mainq, c) /\ c.to = "list" /\ c.kind # "written"
        /\ c.kind = "snapshot" => \A d \in DocId : Told(d) /\ server[d] # NoDoc => Lists(c, d)
  <2>1. CASE QueryFails("list")
    <3>1. [kind |-> "loadError", to |-> "list"] \in Completion
      BY FieldNames DEF Completion
    <3> QED
      BY <2>1, <3>1 DEF QueryFails
  <2> QED
    BY <1>3, <2>1 DEF LoadAnswered, QueryServer, QueryCache
<1>5. PICK c \in Completion :
        /\ mainq' = Append(mainq, c) /\ c.to = "list" /\ c.kind # "written"
        /\ c.kind = "snapshot" => \A d \in DocId : Told(d) /\ server[d] # NoDoc => Lists(c, d)
  BY <1>4
<1>6. OldNews /\ AnswersList'
  BY <1>1, <1>5, AddedNews DEF NothingAppears
<1>7. QueueServed' /\ ToldServed'
  BY <1>1, <1>6, StoreServed
<1>8. Awaits("list")'
  <2>1. /\ Len(mainq) + 1 \in DOMAIN mainq' /\ mainq'[Len(mainq) + 1] = c
    BY <1>1, <1>5, Parts
  <2> QED
    BY <1>5, <2>1 DEF Awaits
<1>9. ListShows'
  BY <1>1, <1>8, ShowsKept DEF Alive
<1> QED
  BY <1>6, <1>7, <1>9 DEF ConfirmedInv

LEMMA SaveAnswerConfirmed ==
    ASSUME ConfirmedInv, IInv', SaveConfirmed
    PROVE  ConfirmedInv'
<1>1. /\ IInv /\ UNCHANGED <<confirmed, stack, labelled, screen, trap, fetching, server>>
      /\ NothingAppears
  <2>1. IInv /\ UNCHANGED <<programVars, fetching>>
    BY SaveConfirmedFacts DEF ConfirmedInv
  <2>2. UNCHANGED server
    BY DEF SaveConfirmed, WriteAnswered, Acknowledge, Reject
  <2> QED
    BY <2>1, <2>2 DEF programVars, listVars, NothingAppears
<1>2. Acknowledge \/ Reject
  BY DEF SaveConfirmed, WriteAnswered
<1>3. /\ OldNews \/ (Acknowledge /\ NewsOf(Head(queue).doc))
      /\ AnswersList' /\ (Awaits("list") => Awaits("list")')
  <2>1. CASE mainq' = mainq
    <3>1. mainq' \in Seq(Completion) /\ SameAnswers(0)
      BY <1>1, <2>1, Unmoved, Parts
    <3>2. OldNews /\ AnswersList'
      BY <1>1, <3>1, KeptNews
    <3> QED
      BY <1>1, <2>1, <3>2 DEF Awaits
  <2>2. ASSUME NEW c \in Completion, mainq' = Append(mainq, c), c.kind = "written",
               c.doc = Head(queue).doc, c.ok => Acknowledge
        PROVE  /\ OldNews \/ (Acknowledge /\ NewsOf(Head(queue).doc))
               /\ AnswersList' /\ (Awaits("list") => Awaits("list")')
    <3>1. /\ ~c.ok => OldNews
          /\ NewsOf(Head(queue).doc) /\ AnswersList'
      BY <1>1, <2>2, AddedNews
    <3>2. \A i \in DOMAIN mainq : i \in DOMAIN mainq' /\ mainq'[i] = mainq[i]
      BY <1>1, <2>2, Parts
    <3>3. Awaits("list") => Awaits("list")'
      BY <1>1, <3>2 DEF Awaits
    <3> QED
      BY <2>2, <3>1, <3>3
  <2> QED
    BY <1>1, <2>1, <2>2, SaveConfirmedFacts
<1>4. QueueServed' /\ ToldServed'
  <2>1. CASE Acknowledge
    <3>1. NewsOf(Head(queue).doc)
      BY <1>3 DEF OldNews, NewsOf
    <3> QED
      BY <2>1, <3>1, AcknowledgeServed
  <2>2. CASE Reject
    <3>1. ~Acknowledge
      BY <1>1, <2>2, Parts DEF Acknowledge, Reject
    <3> QED
      BY <1>3, <2>2, <3>1, StoreServed
  <2> QED
    BY <1>2, <2>1, <2>2
<1>5. ListShows'
  BY <1>1, <1>3, ShowsKept DEF Alive
<1> QED
  BY <1>3, <1>4, <1>5 DEF ConfirmedInv

LEMMA OtherConfirmed ==
    ASSUME ConfirmedInv, IInv',
           \/ StreamWorks \/ Restart \/ UNCHANGED vars
           \/ \E d \in DocId : PortalActs(d)
    PROVE  ConfirmedInv'
<1>1. IInv
  BY DEF ConfirmedInv
<1>2. ASSUME UNCHANGED <<mainq, fetching, confirmed, stack, labelled, screen, trap>>,
             \/ Deliver \/ Reconnect \/ UNCHANGED storeVars
             \/ \E d \in DocId : RemoteSet(d, NoDoc) \/ (d \notin used /\ RemoteSet(d, Contractor(d)))
      PROVE  ConfirmedInv'
  <2>1. mainq' \in Seq(Completion) /\ SameAnswers(0)
    BY <1>1, <1>2, Unmoved, Parts
  <2>2. OldNews /\ (NothingAppears => AnswersList')
    BY <1>2, <2>1, KeptNews
  <2>3. QueueServed' /\ ToldServed' /\ NothingAppears
    BY <1>2, <2>2, StoreServed
  <2>4. Awaits("list")' <=> Awaits("list")
    BY <1>2 DEF Awaits
  <2>5. ListShows'
    BY <1>2, <2>3, <2>4, ShowsKept DEF Alive
  <2> QED
    BY <2>2, <2>3, <2>5 DEF ConfirmedInv
<1>3. CASE StreamWorks
  BY <1>2, <1>3 DEF StreamWorks, WriteStream, callVars, programVars, listVars
<1>4. CASE UNCHANGED vars
  BY <1>2, <1>4 DEF vars, callVars, listVars
<1>5. ASSUME NEW d \in DocId, PortalActs(d) PROVE ConfirmedInv'
  BY <1>2, <1>5 DEF PortalActs, callVars, listVars
<1>6. CASE Restart
  <2>1. /\ UNCHANGED <<storeVars, confirmed>> /\ mainq' = <<>> /\ screen' = "away"
    BY <1>6 DEF Restart, ProcessEnds
  <2>2. SameAnswers(0)
    <3>1. DOMAIN mainq' = {}
      BY <2>1
    <3> QED
      BY <3>1 DEF SameAnswers
  <2>3. ListShows'
    BY <2>1 DEF ListShows
  <2> QED
    BY <2>1, <2>2, <2>3, StillConfirmed
<1> QED
  BY <1>3, <1>4, <1>5, <1>6

LEMMA ConfirmedInvariant == Spec => []ConfirmedInv
<1>1. Init => ConfirmedInv
  <2> SUFFICES ASSUME Init PROVE ConfirmedInv
    OBVIOUS
  <2>1. IInv /\ queue = <<>> /\ mainq = <<>> /\ confirmed = {} /\ screen = "away"
    BY InitStep DEF Init, CallsInit
  <2>2. QueueServed /\ ToldServed
    BY <2>1 DEF QueueServed, ToldServed, Told
  <2> QED
    BY <2>1, <2>2 DEF ConfirmedInv, AnswersList, ListShows
<1>2. ConfirmedInv /\ [Next]_vars => ConfirmedInv'
  <2> SUFFICES ASSUME ConfirmedInv, [Next]_vars PROVE ConfirmedInv'
    OBVIOUS
  <2>1. IInv'
    BY NextStep DEF ConfirmedInv
  <2>2. CASE UserActs
    BY <2>1, <2>2, UserConfirmed
  <2>3. CASE ClientActs
    BY <2>1, <2>3, LoadConfirmed, SaveAnswerConfirmed, OtherConfirmed, MainQueueConfirmed
    DEF ClientActs
  <2> QED
    BY <2>1, <2>2, <2>3, OtherConfirmed DEF Next
<1> QED
  BY <1>1, <1>2, PTL DEF Spec

\* When the user was told that a contractor has been added, the list that is
\* shown once the calls are answered has it, also when it was loaded from the
\* cache, unless someone else has removed the contractor.
THEOREM ConfirmedIsListed == Spec => []ConfirmedContractorIsListed
<1>1. ConfirmedInv => ConfirmedContractorIsListed
  BY DEF ConfirmedInv, ListShows, Shown, ConfirmedContractorIsListed
<1> QED
  BY <1>1, ConfirmedInvariant, PTL

-----------------------------------------------------------------------------
(***************************************************************************)
(* The contractors and the Firestore client.                               *)
(***************************************************************************)

LEMMA ClientSteps ==
    ASSUME [Next]_vars
    PROVE  [StoreNext]_storeVars
<1>1. CASE UserActs
  <2>1. ASSUME NEW d \in DocId, AddContractorTapped(d) PROVE StoreNext
    <3>1. Len(queue) < MaxWrites /\ Write(Addition(d))
      BY <2>1 DEF AddContractorTapped, SetData, Addition
    <3> QED
      BY <3>1, AdditionType DEF StoreNext
  <2> QED
    BY <1>1, <2>1
    DEF UserActs, Open, Back, LeaveForm, ContractorButtonAction, InsertionButtonAction
<1>2. CASE LoadAnswered
  BY <1>2 DEF LoadAnswered, QueryServer, QueryCache, QueryFails, StoreNext
<1>3. CASE SaveConfirmed \/ StreamWorks
  BY <1>3 DEF SaveConfirmed, WriteAnswered, StreamWorks, WriteStream, StoreNext
<1>4. CASE MainQueueRuns \/ Restart
  BY <1>4 DEF MainQueueRuns, Restart, ProcessEnds
<1>5. ASSUME NEW d \in DocId, PortalActs(d) PROVE StoreNext
  BY <1>5, AdditionType DEF PortalActs, StoreNext
<1>6. CASE UNCHANGED vars
  BY <1>6 DEF vars, storeVars
<1> QED
  BY <1>1, <1>2, <1>3, <1>4, <1>5, <1>6 DEF Next, ClientActs

\* Whatever the page, the form, the portal and a restart do, the queue, the
\* cache and the server take only the steps of FirestoreClient: a contractor
\* is added through the client's queue or by the portal.
THEOREM StepsAreTheClients == Spec => [][StoreNext]_storeVars
<1>1. [Next]_vars => [StoreNext]_storeVars
  BY ClientSteps
<1> QED
  BY <1>1, PTL DEF Spec

\* What a load would bring does not depend on how far the network has got with
\* the additions of the form.
THEOREM WritesStayInSight == Spec => DeliveryIsInvisible /\ AcknowledgementIsInvisible
<1>1. StoreTypeOK => [Deliver => LocalView' = LocalView]_storeVars
  BY DeliveryUnseen
<1>2. StoreTypeOK =>
        [Acknowledge => \A d \in DocId : synced[d] = 0 => CachedView'[d] = CachedView[d]]_storeVars
  BY AcknowledgementUnseen
<1>3. TypeOK => StoreTypeOK
  BY DEF TypeOK, CallsTypeOK
<1> QED
  BY <1>1, <1>2, <1>3, TypeCorrect, PTL DEF DeliveryIsInvisible, AcknowledgementIsInvisible
=============================================================================
