----------------------------- MODULE AccountProofs -----------------------------
(***************************************************************************)
(* Theorems about Account, for any profiles, calls and queues, whether or  *)
(* not writes are resent or refused, and however often the customer logs   *)
(* out, leaves the form or loses the process.                              *)
(***************************************************************************)
EXTENDS Account, FirestoreClientProofs, SequenceTheorems, FiniteSetTheorems

-----------------------------------------------------------------------------
(***************************************************************************)
(* The answers that wait for one of the screens.                           *)
(***************************************************************************)

NoneIn(q, w) == \A i \in DOMAIN q : q[i].to # w

OnceIn(q, w) == \A i, j \in DOMAIN q : q[i].to = w /\ q[j].to = w => i = j

\* Answer i is the last of those in q that are for w.
LatestIn(q, i, w) ==
    /\ i \in DOMAIN q /\ q[i].to = w
    /\ \A j \in DOMAIN q : q[j].to = w => j <= i

\* Where q was, r now holds the same answers for w in the same order.
SameFor(q, r, w) ==
    /\ \A i : LatestIn(r, i, w) => \E j : LatestIn(q, j, w) /\ q[j] = r[i]
    /\ NoneIn(r, w) <=> NoneIn(q, w)
    /\ OnceIn(q, w) => OnceIn(r, w)

-----------------------------------------------------------------------------
(***************************************************************************)
(* The inductive invariant.                                                *)
(***************************************************************************)

UpdateOf(p) == [doc |-> me, write |-> [profile |-> p]]
Updates == {UpdateOf(p) : p \in Profile}

\* What the server will hold when the queue has drained.
Final == LocalView[me].profile

\* Server and cache hold what the updates that have reached them wrote last;
\* with nothing queued and nothing refused, the cache knows no other profile
\* than the server.
StoreInv ==
    /\ queue \in Seq(Updates)
    /\ server[me].profile \in Profile
    /\ Holds(server, queue, sent, me, "profile")
    /\ Holds(cache, queue, synced[me], me, "profile")
    /\ ~refused /\ queue = <<>> => cache[me].profile \in {Nil, server[me].profile}

\* The form loads once, and before it knows its document.
FormLoadsOnce ==
    /\ fetching["form"] <= 1
    /\ OnceIn(mainq, "form")
    /\ fetching["form"] = 1 => NoneIn(mainq, "form")
    /\ userID \/ screen # "form" => fetching["form"] = 0 /\ NoneIn(mainq, "form")

Queued(w) == \E i \in DOMAIN handlers : handlers[i] = w

\* Nobody but the form that is on screen writes behind its updates.
UpdatesLast ==
    /\ screen # "form" => NoneIn(mainq, "update") /\ ~Queued("update")
    /\ \A i, j \in DOMAIN handlers : i < j /\ handlers[i] = "update" => handlers[j] = "update"

\* The last update that is queued says what the user had entered.
EnteredIsQueued ==
    screen = "form" /\ ~early =>
        /\ typed # Nil => userID /\ text = typed
        /\ \A i \in DOMAIN handlers :
              i = Len(handlers) /\ handlers[i] = "update" => queue[i].write.profile = asked

EnteredIsStored == queue = <<>> /\ server[me].profile = asked

\* Once no update is queued, good news of the last one is true, in the main
\* queue and on the screen.
NewsIsTrue ==
    screen = "form" /\ ~early /\ ~Queued("update") =>
        /\ \A i : LatestIn(mainq, i, "update") /\ mainq[i].ok => EnteredIsStored
        /\ NoneIn(mainq, "update") /\ message = "saved" => EnteredIsStored

FormInv == FormLoadsOnce /\ UpdatesLast /\ EnteredIsQueued /\ NewsIsTrue

\* Those whose handler finds the page and reloads it.
Telling == {"update", "left form"}

\* The page loads, or a handler that is to come makes it load.
Reloads ==
    \/ fetching["page"] > 0
    \/ \E i \in DOMAIN handlers : handlers[i] \in Telling
    \/ \E i \in DOMAIN mainq : mainq[i].to \in Telling

\* An answer with the profile that stays, or with none.
Right(c) == c.kind = "loadError" \/ c.docs = <<>> \/ Last(c.docs).data.profile = Final

\* The last that the page has heard, or is about to hear, is right.
PageHears ==
    /\ \A i : LatestIn(mainq, i, "page") => Right(mainq[i])
    /\ NoneIn(mainq, "page") => unheard \/ labels = Final

GoodNews == ~refused => \A i \in DOMAIN mainq : mainq[i].kind = "written" => mainq[i].ok

PageInv ==
    /\ Alive /\ screen # "home" => signedIn
    /\ GoodNews
    /\ Alive /\ screen # "home" /\ ~refused => Reloads \/ PageHears

IInv == TypeOK /\ StoreInv /\ FormInv /\ PageInv

-----------------------------------------------------------------------------
(***************************************************************************)
(* Lemmas about answers.                                                   *)
(***************************************************************************)

LEMMA Names ==
    /\ DocId = {me} /\ me \in DocId /\ Field = {"profile"} /\ "profile" \in Field
    /\ Value = Profile /\ stored \in Profile
    /\ Requester = {"page", "form"} /\ Waiter = {"update", "left form", "left page"}
    /\ Nobody \notin Waiter
    /\ Nil \notin Profile /\ Keep \notin Profile /\ Nil # Keep
    /\ MaxCalls \in Nat
BY AccountAssumption, StoreAssumption, CallsAssumption

\* Answers that keep their order and their places are the same answers.
LEMMA SameMapped ==
    ASSUME NEW q \in Seq(Completion), NEW r \in Seq(Completion), NEW w, NEW m,
           \A k \in DOMAIN r : r[k].to = w => m[k] \in DOMAIN q /\ q[m[k]] = r[k],
           \A i \in DOMAIN q : q[i].to = w => \E k \in DOMAIN r : r[k].to = w /\ m[k] = i,
           \A k, l \in DOMAIN r : r[k].to = w /\ r[l].to = w /\ k < l => m[k] < m[l]
    PROVE  SameFor(q, r, w)
<1>1. /\ DOMAIN q = 1..Len(q) /\ Len(q) \in Nat
      /\ DOMAIN r = 1..Len(r) /\ Len(r) \in Nat
  OBVIOUS
<1>2. ASSUME NEW i, LatestIn(r, i, w) PROVE \E j : LatestIn(q, j, w) /\ q[j] = r[i]
  <2>1. i \in DOMAIN r /\ r[i].to = w /\ m[i] \in DOMAIN q /\ q[m[i]] = r[i]
    BY <1>2 DEF LatestIn
  <2>2. ASSUME NEW j \in DOMAIN q, q[j].to = w PROVE j <= m[i]
    <3>1. PICK k \in DOMAIN r : r[k].to = w /\ m[k] = j
      BY <2>2
    <3>2. k <= i
      BY <1>2, <3>1 DEF LatestIn
    <3>3. k = i \/ k < i
      BY <1>1, <2>1, <3>2
    <3> QED
      BY <1>1, <2>1, <2>2, <3>1, <3>3
  <2>3. LatestIn(q, m[i], w)
    BY <2>1, <2>2 DEF LatestIn
  <2> QED
    BY <2>1, <2>3
<1>3. NoneIn(r, w) <=> NoneIn(q, w)
  BY DEF NoneIn
<1>4. ASSUME OnceIn(q, w), NEW k \in DOMAIN r, NEW l \in DOMAIN r, r[k].to = w, r[l].to = w
      PROVE  k = l
  <2>1. m[k] = m[l] /\ m[k] \in DOMAIN q
    BY <1>4 DEF OnceIn
  <2>2. ~(k < l) /\ ~(l < k)
    BY <1>1, <1>4, <2>1
  <2> QED
    BY <1>1, <2>2
<1> QED
  BY <1>2, <1>3, <1>4 DEF SameFor, OnceIn

LEMMA SameItself == ASSUME NEW q, NEW w PROVE SameFor(q, q, w)
BY DEF SameFor

LEMMA SameAppend ==
    ASSUME NEW q \in Seq(Completion), NEW c \in Completion, NEW w, c.to # w
    PROVE  SameFor(q, Append(q, c), w)
<1> DEFINE r == Append(q, c)
           m == [k \in DOMAIN r |-> k]
<1>1. /\ r \in Seq(Completion) /\ Len(q) \in Nat /\ DOMAIN q = 1..Len(q)
      /\ DOMAIN r = 1..(Len(q) + 1)
      /\ \A k \in 1..Len(q) : r[k] = q[k]
      /\ r[Len(q) + 1] = c
  OBVIOUS
<1> HIDE DEF r
<1>2. \A k \in DOMAIN r : r[k].to = w => k \in DOMAIN q /\ q[k] = r[k]
  BY <1>1
<1>3. \A k \in DOMAIN r : r[k].to = w => m[k] \in DOMAIN q /\ q[m[k]] = r[k]
  BY <1>2
<1>4. \A i \in DOMAIN q : q[i].to = w => \E k \in DOMAIN r : r[k].to = w /\ m[k] = i
  BY <1>1
<1>5. \A k, l \in DOMAIN r : r[k].to = w /\ r[l].to = w /\ k < l => m[k] < m[l]
  OBVIOUS
<1> HIDE DEF m
<1>6. SameFor(q, r, w)
  BY <1>1, <1>3, <1>4, <1>5, SameMapped
<1> QED
  BY <1>6 DEF r

\* What the first answer leaves behind.
LEMMA TailFacts ==
    ASSUME NEW q \in Seq(Completion), q # <<>>
    PROVE  /\ Head(q) \in Completion /\ Head(q) = q[1] /\ 1 \in DOMAIN q
           /\ DOMAIN q = 1..Len(q) /\ Len(q) \in Nat
           /\ Tail(q) \in Seq(Completion) /\ DOMAIN Tail(q) = 1..(Len(q) - 1)
           /\ \A k \in 1..(Len(q) - 1) : k + 1 \in DOMAIN q /\ Tail(q)[k] = q[k + 1]
           /\ \A i \in DOMAIN q : i = 1 \/ (i - 1 \in 1..(Len(q) - 1) /\ Tail(q)[i - 1] = q[i])
<1>1. /\ Head(q) \in Completion /\ Head(q) = q[1] /\ DOMAIN q = 1..Len(q) /\ Len(q) \in Nat \ {0}
      /\ Tail(q) \in Seq(Completion) /\ Len(Tail(q)) = Len(q) - 1
      /\ \A k \in 1..Len(Tail(q)) : Tail(q)[k] = q[k + 1]
  OBVIOUS
<1>2. DOMAIN Tail(q) = 1..Len(Tail(q))
  BY <1>1
<1>3. \A i \in 1..Len(q) : i = 1 \/ (i - 1 \in 1..(Len(q) - 1) /\ (i - 1) + 1 = i)
  BY <1>1
<1>4. \A k \in 1..(Len(q) - 1) : k + 1 \in 1..Len(q)
  BY <1>1
<1> QED
  BY <1>1, <1>2, <1>3, <1>4

LEMMA SameTail ==
    ASSUME NEW q \in Seq(Completion), q # <<>>, NEW w, Head(q).to # w
    PROVE  SameFor(q, Tail(q), w)
<1> DEFINE r == Tail(q)
           m == [k \in DOMAIN r |-> k + 1]
<1>1. /\ r \in Seq(Completion) /\ DOMAIN r = 1..(Len(q) - 1) /\ Len(q) \in Nat
      /\ DOMAIN q = 1..Len(q) /\ q[1].to # w
      /\ \A k \in 1..(Len(q) - 1) : k + 1 \in DOMAIN q /\ r[k] = q[k + 1]
      /\ \A i \in DOMAIN q : i = 1 \/ (i - 1 \in 1..(Len(q) - 1) /\ r[i - 1] = q[i])
  BY TailFacts
<1> HIDE DEF r
<1>2. \A k \in DOMAIN r : r[k].to = w => m[k] \in DOMAIN q /\ q[m[k]] = r[k]
  BY <1>1
<1>3. \A i \in DOMAIN q : q[i].to = w => \E k \in DOMAIN r : r[k].to = w /\ m[k] = i
  <2> TAKE i \in DOMAIN q
  <2> HAVE q[i].to = w
  <2>1. i - 1 \in DOMAIN r /\ r[i - 1] = q[i] /\ (i - 1) + 1 = i
    BY <1>1
  <2> QED
    BY <2>1
<1>4. \A k, l \in DOMAIN r : r[k].to = w /\ r[l].to = w /\ k < l => m[k] < m[l]
  BY <1>1
<1> HIDE DEF m
<1>5. SameFor(q, r, w)
  BY <1>1, <1>2, <1>3, <1>4, SameMapped
<1> QED
  BY <1>5 DEF r

\* If the first answer is for w, what is left is the same but for that.
LEMMA HeardTail ==
    ASSUME NEW q \in Seq(Completion), q # <<>>, NEW w
    PROVE  /\ \A i : LatestIn(Tail(q), i, w) => LatestIn(q, i + 1, w) /\ q[i + 1] = Tail(q)[i]
           /\ NoneIn(Tail(q), w) => NoneIn(q, w) \/ LatestIn(q, 1, w)
           /\ OnceIn(q, w) => OnceIn(Tail(q), w) /\ (Head(q).to = w => NoneIn(Tail(q), w))
<1> DEFINE r == Tail(q)
<1>1. /\ r \in Seq(Completion) /\ DOMAIN r = 1..(Len(q) - 1) /\ Len(q) \in Nat
      /\ DOMAIN q = 1..Len(q) /\ Head(q) = q[1] /\ 1 \in DOMAIN q
      /\ \A k \in 1..(Len(q) - 1) : k + 1 \in DOMAIN q /\ r[k] = q[k + 1]
      /\ \A i \in DOMAIN q : i = 1 \/ (i - 1 \in 1..(Len(q) - 1) /\ r[i - 1] = q[i])
  BY TailFacts
<1> HIDE DEF r
<1>2. ASSUME NEW i, LatestIn(r, i, w) PROVE LatestIn(q, i + 1, w) /\ q[i + 1] = r[i]
  <2>1. i \in DOMAIN r /\ i + 1 \in DOMAIN q /\ q[i + 1] = r[i] /\ r[i].to = w /\ i >= 1
    BY <1>1, <1>2 DEF LatestIn
  <2>2. ASSUME NEW j \in DOMAIN q, q[j].to = w PROVE j <= i + 1
    <3>1. CASE j = 1
      BY <1>1, <2>1, <3>1
    <3>2. CASE j # 1
      <4>1. j - 1 \in DOMAIN r /\ r[j - 1].to = w
        BY <1>1, <2>2, <3>2
      <4>2. j - 1 <= i
        BY <1>2, <4>1 DEF LatestIn
      <4> QED
        BY <1>1, <2>1, <4>2
    <3> QED
      BY <3>1, <3>2
  <2> QED
    BY <2>1, <2>2 DEF LatestIn
<1>3. ASSUME NoneIn(r, w) PROVE NoneIn(q, w) \/ LatestIn(q, 1, w)
  <2>1. \A j \in DOMAIN q : q[j].to = w => j = 1
    BY <1>1, <1>3 DEF NoneIn
  <2> QED
    BY <1>1, <2>1 DEF NoneIn, LatestIn
<1>4. ASSUME OnceIn(q, w) PROVE OnceIn(r, w) /\ (Head(q).to = w => NoneIn(r, w))
  <2>1. ASSUME NEW k \in DOMAIN r, r[k].to = w PROVE k + 1 \in DOMAIN q /\ q[k + 1].to = w
    BY <1>1, <2>1
  <2>2. \A k, l \in DOMAIN r : k + 1 = l + 1 => k = l
    BY <1>1
  <2>3. \A k \in DOMAIN r : k + 1 # 1
    BY <1>1
  <2> QED
    BY <1>1, <1>4, <2>1, <2>2, <2>3 DEF OnceIn, NoneIn
<1> QED
  BY <1>2, <1>3, <1>4 DEF r

\* An answer that joins the others is the last one for its screen.
LEMMA LatestAppend ==
    ASSUME NEW q \in Seq(Completion), NEW c \in Completion
    PROVE  /\ \A i : LatestIn(Append(q, c), i, c.to) => Append(q, c)[i] = c
           /\ ~NoneIn(Append(q, c), c.to)
           /\ NoneIn(q, c.to) => OnceIn(Append(q, c), c.to)
<1> DEFINE r == Append(q, c)
           n == Len(q) + 1
<1>1. /\ Len(q) \in Nat /\ DOMAIN q = 1..Len(q) /\ DOMAIN r = 1..n /\ n \in DOMAIN r
      /\ r[n] = c
      /\ \A k \in 1..Len(q) : r[k] = q[k]
  OBVIOUS
<1> HIDE DEF r
<1>2. \A i : LatestIn(r, i, c.to) => i = n
  BY <1>1 DEF LatestIn
<1>3. ~NoneIn(r, c.to)
  BY <1>1 DEF NoneIn
<1>4. NoneIn(q, c.to) => \A k \in DOMAIN r : r[k].to = c.to => k = n
  BY <1>1 DEF NoneIn
<1> QED
  BY <1>1, <1>2, <1>3, <1>4 DEF OnceIn, r

\* What an answer is, for each of the screens.
LEMMA CompletionKinds ==
    ASSUME NEW c \in Completion
    PROVE  \/ c.kind = "snapshot" /\ c.to \in Requester /\ c.docs \in Seq(Snapshot)
           \/ c.kind = "loadError" /\ c.to \in Requester
           \/ c.kind = "written" /\ c.to \in Waiter /\ c.ok \in BOOLEAN
BY DEF Completion

\* An answer as it is after its form or its page has gone.
Renamed(c, became) == IF c.to \in DOMAIN became THEN [c EXCEPT !.to = became[@]] ELSE c

Renaming(became) ==
    DOMAIN became \subseteq Waiter /\ \A w \in DOMAIN became : became[w] \in Waiter

LEMMA RenamedFacts ==
    ASSUME NEW c \in Completion, NEW became, Renaming(became)
    PROVE  /\ Renamed(c, became) \in Completion /\ Renamed(c, became).kind = c.kind
           /\ c.kind = "written" => Renamed(c, became).ok = c.ok
           /\ c.to \in DOMAIN became => Renamed(c, became).to = became[c.to]
           /\ c.to \notin DOMAIN became => Renamed(c, became) = c
<1>1. CASE c.to \notin DOMAIN became
  BY <1>1 DEF Renamed
<1>2. CASE c.to \in DOMAIN became
  <2>1. c.to \in Waiter /\ became[c.to] \in Waiter
    BY <1>2 DEF Renaming
  <2>2. c \in [kind : {"written"}, to : Waiter, doc : DocId, ok : BOOLEAN]
    BY <2>1, Names DEF Completion
  <2>3. Renamed(c, became) = [c EXCEPT !.to = became[c.to]]
    BY <1>2 DEF Renamed
  <2>4. [c EXCEPT !.to = became[c.to]] \in [kind : {"written"}, to : Waiter, doc : DocId, ok : BOOLEAN]
    BY <2>1, <2>2
  <2> QED
    BY <1>2, <2>2, <2>3, <2>4 DEF Completion
<1> QED
  BY <1>1, <1>2

\* What Forget leaves of the answers: those for the screens that are still
\* there, in their order, the answers to updates under their new names.
LEMMA ForgetAnswers ==
    ASSUME mainq \in Seq(Completion), NEW gone, NEW became, Renaming(became),
           Forget(gone, became)
    PROVE  /\ mainq' \in Seq(Completion)
           /\ \A k \in DOMAIN mainq' : \E i \in DOMAIN mainq :
                 mainq[i].to \notin gone /\ mainq'[k] = Renamed(mainq[i], became)
           /\ \A i \in DOMAIN mainq : mainq[i].to \notin gone =>
                 \E k \in DOMAIN mainq' : mainq'[k] = Renamed(mainq[i], became)
           /\ \A w \in Requester : w \notin gone => SameFor(mainq, mainq', w)
<1> DEFINE places == {i \in DOMAIN mainq : mainq[i].to \notin gone}
<1>1. PICK kept \in [1..Cardinality(places) -> places] :
        /\ \A i, j \in DOMAIN kept : i < j => kept[i] < kept[j]
        /\ \A i \in places : \E j \in DOMAIN kept : kept[j] = i
        /\ mainq' = [i \in DOMAIN kept |-> Renamed(mainq[kept[i]], became)]
  BY DEF Forget, Kept, Renamed
<1>2. DOMAIN mainq = 1..Len(mainq) /\ Len(mainq) \in Nat
  OBVIOUS
<1>3. PICK n \in Nat : n = Cardinality(places)
  <2>1. IsFiniteSet(1..Len(mainq)) /\ places \subseteq 1..Len(mainq)
    BY <1>2, FS_Interval
  <2> QED
    BY <2>1, FS_Subset, FS_CardinalityType
<1>4. \A i \in places : /\ i \in DOMAIN mainq /\ mainq[i].to \notin gone
                        /\ mainq[i] \in Completion /\ Renamed(mainq[i], became) \in Completion
  BY <1>2, RenamedFacts
<1>5. \A i \in DOMAIN mainq : mainq[i].to \notin gone => i \in places
  OBVIOUS
<1> HIDE DEF places
<1>6. /\ DOMAIN kept = 1..n /\ DOMAIN mainq' = 1..n
      /\ \A k \in 1..n : kept[k] \in places /\ mainq'[k] = Renamed(mainq[kept[k]], became)
  BY <1>1, <1>3
<1>7. mainq' \in Seq(Completion)
  <2>1. mainq' \in [1..n -> Completion]
    BY <1>1, <1>4, <1>6
  <2> QED
    BY <2>1
<1>8. ASSUME NEW w \in Requester, w \notin gone PROVE SameFor(mainq, mainq', w)
  <2>1. w \notin DOMAIN became /\ w \notin Waiter
    BY Names DEF Renaming
  <2>2. ASSUME NEW i \in places
        PROVE  /\ Renamed(mainq[i], became).to = w <=> mainq[i].to = w
               /\ mainq[i].to = w => Renamed(mainq[i], became) = mainq[i]
    <3>1. CASE mainq[i].to \in DOMAIN became
      <4>1. Renamed(mainq[i], became).to = became[mainq[i].to] /\ became[mainq[i].to] \in Waiter
        BY <1>4, <2>2, <3>1, RenamedFacts DEF Renaming
      <4> QED
        BY <2>1, <3>1, <4>1
    <3>2. CASE mainq[i].to \notin DOMAIN became
      BY <3>2 DEF Renamed
    <3> QED
      BY <3>1, <3>2
  <2>3. \A k \in DOMAIN mainq' : mainq'[k].to = w =>
          kept[k] \in DOMAIN mainq /\ mainq[kept[k]] = mainq'[k]
    BY <1>4, <1>6, <2>2
  <2>4. \A i \in DOMAIN mainq : mainq[i].to = w =>
          \E k \in DOMAIN mainq' : mainq'[k].to = w /\ kept[k] = i
    <3> TAKE i \in DOMAIN mainq
    <3> HAVE mainq[i].to = w
    <3>1. i \in places
      BY <1>5, <1>8
    <3>2. PICK k \in 1..n : kept[k] = i
      BY <1>1, <1>6, <3>1
    <3> QED
      BY <1>6, <2>2, <3>1, <3>2
  <2>5. \A k, l \in DOMAIN mainq' : mainq'[k].to = w /\ mainq'[l].to = w /\ k < l => kept[k] < kept[l]
    BY <1>1, <1>6
  <2> QED
    BY <1>7, <2>3, <2>4, <2>5, SameMapped
<1>9. \A k \in DOMAIN mainq' : \E i \in DOMAIN mainq :
         mainq[i].to \notin gone /\ mainq'[k] = Renamed(mainq[i], became)
  BY <1>4, <1>6
<1>10. \A i \in DOMAIN mainq : mainq[i].to \notin gone =>
          \E k \in DOMAIN mainq' : mainq'[k] = Renamed(mainq[i], became)
  BY <1>1, <1>5, <1>6
<1> QED
  BY <1>7, <1>8, <1>9, <1>10

\* What Forget leaves of the calls and the handlers.
LEMMA ForgetCalls ==
    ASSUME handlers \in Seq(Waiter \cup {Nobody}), fetching \in [Requester -> Nat],
           NEW gone, NEW became, Renaming(became), Forget(gone, became)
    PROVE  /\ fetching' \in [Requester -> Nat]
           /\ \A r \in Requester : fetching'[r] = IF r \in gone THEN 0 ELSE fetching[r]
           /\ handlers' \in Seq(Waiter \cup {Nobody}) /\ Len(handlers') = Len(handlers)
           /\ DOMAIN handlers' = DOMAIN handlers
           /\ \A i \in DOMAIN handlers :
                 handlers'[i] = IF handlers[i] \in DOMAIN became THEN became[handlers[i]]
                                ELSE handlers[i]
<1>1. DOMAIN handlers = 1..Len(handlers) /\ Len(handlers) \in Nat
  OBVIOUS
<1>2. \A i \in 1..Len(handlers) :
        (IF handlers[i] \in DOMAIN became THEN became[handlers[i]] ELSE handlers[i])
            \in Waiter \cup {Nobody}
  BY DEF Renaming
<1>3. handlers' \in [1..Len(handlers) -> Waiter \cup {Nobody}]
  BY <1>1, <1>2 DEF Forget
<1> QED
  BY <1>1, <1>3 DEF Forget

-----------------------------------------------------------------------------
(***************************************************************************)
(* The store: what the two views hold, and that only an update changes     *)
(* what will be stored in the end.                                         *)
(***************************************************************************)

LEMMA UpdateType ==
    ASSUME NEW p \in Profile
    PROVE  UpdateOf(p) \in Mutation /\ UpdateOf(p) \in Updates /\ UpdateOf(p).doc = me
           /\ UpdateOf(p).write.profile = p
<1>1. [profile |-> p] \in [Field -> Value \cup {Nil, Keep}]
  <2>1. [profile |-> p] \in [{"profile"} -> Profile]
    OBVIOUS
  <2> QED
    BY <2>1, Names
<1> QED
  BY <1>1, Names DEF UpdateOf, Updates, Mutation

LEMMA QueuedUpdates ==
    ASSUME NEW q \in Seq(Updates)
    PROVE  /\ q \in Seq(Mutation) /\ Len(q) \in Nat
           /\ \A i \in 1..Len(q) : /\ q[i].doc = me /\ q[i].write.profile \in Profile
                                   /\ Writes(q, i, me, "profile")
           /\ Unwritten(q, me, "profile") => q = <<>>
<1>1. Updates \subseteq Mutation
  BY UpdateType DEF Updates
<1>2. q \in Seq(Mutation) /\ Len(q) \in Nat
  BY <1>1, SeqMonotonic
<1>3. ASSUME NEW i \in 1..Len(q)
      PROVE  q[i].doc = me /\ q[i].write.profile \in Profile /\ Writes(q, i, me, "profile")
  <2>1. q[i] \in Updates
    OBVIOUS
  <2>2. PICK p \in Profile : q[i] = UpdateOf(p)
    BY <2>1 DEF Updates
  <2> QED
    BY <2>2, UpdateType, Names DEF Writes
<1>4. ASSUME q # <<>> PROVE ~Unwritten(q, me, "profile")
  <2>1. 1 \in 1..Len(q)
    BY <1>4
  <2> QED
    BY <1>3, <2>1 DEF Unwritten
<1> QED
  BY <1>2, <1>3, <1>4

LEMMA Parts ==
    ASSUME IInv
    PROVE  /\ StoreTypeOK /\ StoreInv
           /\ queue \in Seq(Updates) /\ queue \in Seq(Mutation) /\ Len(queue) \in Nat
           /\ server \in [DocId -> Document] /\ cache \in [DocId -> Document]
           /\ sent \in 0..Len(queue) /\ synced \in [DocId -> 0..sent]
           /\ synced[me] \in 0..sent /\ synced[me] \in 0..Len(queue)
           /\ fetching \in [Requester -> Nat]
           /\ fetching["form"] \in Nat /\ fetching["page"] \in Nat
           /\ handlers \in Seq(Waiter \cup {Nobody}) /\ Len(handlers) = Len(queue)
           /\ DOMAIN handlers = 1..Len(queue)
           /\ mainq \in Seq(Completion) /\ Len(mainq) \in Nat /\ DOMAIN mainq = 1..Len(mainq)
<1>1. /\ StoreTypeOK /\ StoreInv
      /\ fetching \in [Requester -> Nat]
      /\ handlers \in Seq(Waiter \cup {Nobody}) /\ Len(handlers) = Len(queue)
      /\ mainq \in Seq(Completion)
  BY DEF IInv, TypeOK, CallsTypeOK
<1>2. fetching["form"] \in Nat /\ fetching["page"] \in Nat
  BY <1>1, Names
<1>3. /\ queue \in Seq(Updates)
      /\ server \in [DocId -> Document] /\ cache \in [DocId -> Document]
      /\ sent \in 0..Len(queue) /\ synced \in [DocId -> 0..sent]
  BY <1>1 DEF StoreInv, StoreTypeOK
<1>4. queue \in Seq(Mutation) /\ Len(queue) \in Nat
  BY <1>3, QueuedUpdates
<1>5. DOMAIN handlers = 1..Len(queue)
  BY <1>1
<1>6. Len(mainq) \in Nat /\ DOMAIN mainq = 1..Len(mainq)
  BY <1>1
<1>7. synced[me] \in 0..sent /\ synced[me] \in 0..Len(queue)
  <2>1. me \in DocId
    BY Names
  <2>2. synced[me] \in 0..sent
    BY <1>3, <2>1
  <2> QED
    BY <1>3, <1>4, <2>2
<1> QED
  BY <1>1, <1>2, <1>3, <1>4, <1>5, <1>6, <1>7

\* Both views say what the last queued update says, or what they are based on.
LEMMA OverlayLast ==
    ASSUME NEW base, NEW q \in Seq(Updates)
    PROVE  Overlay(base, q)[me].profile =
             IF q = <<>> THEN base[me].profile ELSE q[Len(q)].write.profile
<1>1. q \in Seq(Mutation) /\ me \in DocId /\ "profile" \in Field
  BY QueuedUpdates, Names
<1>2. CASE q = <<>>
  <2>1. \A i \in 1..Len(q) : ~Writes(q, i, me, "profile")
    BY <1>2
  <2> QED
    BY <1>1, <1>2, <2>1, OverlayUnwritten
<1>3. CASE q # <<>>
  <2>1. Len(q) \in 1..Len(q)
    BY <1>3
  <2>2. LastWriter(q, Len(q), me, "profile")
    <3>1. Len(q) \in Nat /\ Writes(q, Len(q), me, "profile")
      BY <2>1, QueuedUpdates
    <3> QED
      BY <2>1, <3>1 DEF LastWriter
  <2> QED
    BY <1>1, <1>3, <2>1, <2>2, OverlayWritten
<1> QED
  BY <1>2, <1>3

LEMMA Views ==
    ASSUME IInv
    PROVE  /\ Final = IF queue = <<>> THEN server[me].profile ELSE queue[Len(queue)].write.profile
           /\ Final \in Profile
           /\ ~refused => CachedView[me].profile \in {Nil, Final}
           /\ LocalView \in [DocId -> Document] /\ CachedView \in [DocId -> Document]
<1>1. /\ Final = IF queue = <<>> THEN server[me].profile ELSE queue[Len(queue)].write.profile
      /\ CachedView[me].profile =
            IF queue = <<>> THEN cache[me].profile ELSE queue[Len(queue)].write.profile
  BY Parts, OverlayLast DEF Final, LocalView, CachedView
<1>2. queue # <<>> => queue[Len(queue)].write.profile \in Profile
  <2>1. queue # <<>> => Len(queue) \in 1..Len(queue)
    BY Parts
  <2> QED
    BY <2>1, Parts, QueuedUpdates
<1>3. server[me].profile \in Profile
  BY DEF IInv, StoreInv
<1>4. ~refused /\ queue = <<>> => cache[me].profile \in {Nil, server[me].profile}
  BY DEF IInv, StoreInv
<1>5. LocalView \in [DocId -> Document] /\ CachedView \in [DocId -> Document]
  BY Parts, OverlayType DEF LocalView, CachedView
<1> QED
  BY <1>1, <1>2, <1>3, <1>4, <1>5

\* The stream starts over with the queue.
StartsOver ==
    /\ sent' = 0 /\ synced' = [d \in DocId |-> 0]
    /\ UNCHANGED <<server, cache, queue>>

LEMMA DeliverStep ==
    ASSUME IInv, refused => refused', Deliver
    PROVE  StoreTypeOK' /\ StoreInv' /\ Final' = Final
<1>1. /\ server' = Apply(server, queue[sent + 1]) /\ sent' = sent + 1
      /\ UNCHANGED <<cache, queue, synced>> /\ sent + 1 \in 1..Len(queue)
      /\ sent \in 0..(Len(queue) - 1)
  BY Parts DEF Deliver
<1>2. /\ queue[sent + 1] \in Mutation /\ Writes(queue, sent + 1, me, "profile")
      /\ queue[sent + 1].write.profile \in Profile /\ queue # <<>>
  BY <1>1, Parts, QueuedUpdates
<1>3. server'[me].profile = queue[sent + 1].write.profile
  BY <1>1, <1>2, Parts, Names, ApplyField DEF Writes
<1>4. Holds(server', queue, sent + 1, me, "profile")
  BY <1>1, <1>2, Parts, Names, HoldsApply
<1>5. LocalView' = LocalView
  BY <1>1, Parts, OverlayAbsorbs DEF LocalView
<1>6. StoreInv'
  BY <1>1, <1>2, <1>3, <1>4 DEF IInv, StoreInv
<1> QED
  BY <1>5, <1>6, Parts, DeliverType DEF Final

LEMMA AcknowledgeStep ==
    ASSUME IInv, refused => refused', Acknowledge
    PROVE  StoreTypeOK' /\ StoreInv' /\ Final' = Final
<1>1. /\ queue # <<>> /\ queue' = Tail(queue) /\ server' = server
      /\ sent' = sent - 1 /\ sent \in Nat \ {0}
      /\ synced' = OneLessSynced /\ synced[me] \in 0..sent
  BY Parts DEF Acknowledge, AcknowledgeCache
<1>2. queue' \in Seq(Updates)
  BY <1>1, Parts
<1>3. /\ Holds(server, queue, sent, me, "profile")
      /\ Holds(cache, queue, synced[me], me, "profile")
  BY DEF IInv, StoreInv
<1>4. Holds(server', queue', sent', me, "profile")
  <2>1. sent - 1 \in Nat /\ (sent - 1) + 1 = sent
    BY <1>1
  <2>2. Holds(server, Tail(queue), sent - 1, me, "profile")
    BY <1>1, <1>3, <2>1, Parts, HoldsTail
  <2> QED
    BY <1>1, <2>2
<1>5. Holds(cache', queue', synced'[me], me, "profile")
  <2>1. CASE synced[me] = 0
    <3>1. synced'[me] = 0 /\ queue' \in Seq(Mutation)
      BY <1>1, <1>2, <2>1, Names, QueuedUpdates DEF OneLessSynced
    <3> QED
      BY <3>1, HoldsNone
  <2>2. CASE synced[me] # 0
    <3>1. Head(queue).doc = me
      BY <1>1, Parts, TailOf, QueuedUpdates
    <3>2. /\ synced'[me] = synced[me] - 1 /\ synced[me] - 1 \in Nat
          /\ (synced[me] - 1) + 1 = synced[me] /\ cache' = cache
      <4>1. me \in DocId
        BY Names
      <4>2. synced'[me] = synced[me] - 1 /\ cache' = cache
        BY <1>1, <2>2, <3>1, <4>1 DEF OneLessSynced, Acknowledge, AcknowledgeCache
      <4> QED
        BY <1>1, <2>2, <4>2
    <3>3. Holds(cache, Tail(queue), synced[me] - 1, me, "profile")
      BY <1>1, <1>3, <3>2, Parts, HoldsTail
    <3> QED
      BY <1>1, <3>2, <3>3
  <2> QED
    BY <2>1, <2>2
<1>6. queue' = <<>> => server'[me].profile = cache'[me].profile
  <2> SUFFICES ASSUME queue' = <<>> PROVE server'[me]["profile"] = cache'[me]["profile"]
    OBVIOUS
  <2>1. Unwritten(queue', me, "profile") /\ ~Unwritten(queue, me, "profile")
    BY <1>1, Parts, QueuedUpdates DEF Unwritten
  <2> QED
    BY <1>3, <2>1, Parts, Names, AcknowledgeMeets
<1>7. LocalView'[me]["profile"] = LocalView[me]["profile"]
  BY <1>3, Parts, Names, AcknowledgeKeepsField
<1>8. StoreInv'
  BY <1>1, <1>2, <1>4, <1>5, <1>6 DEF IInv, StoreInv
<1> QED
  BY <1>7, <1>8, Parts, AcknowledgeType DEF Final

LEMMA RejectStep ==
    ASSUME IInv, refused', Reject
    PROVE  StoreTypeOK' /\ StoreInv'
<1>1. /\ queue # <<>> /\ queue' = Tail(queue) /\ UNCHANGED <<server, cache, sent, synced>>
      /\ sent = 0
  BY DEF Reject
<1>2. queue' \in Seq(Updates) /\ queue' \in Seq(Mutation)
  BY <1>1, Parts, QueuedUpdates
<1>3. synced[me] = 0
  BY <1>1, Parts
<1>4. /\ Holds(server', queue', sent', me, "profile")
      /\ Holds(cache', queue', synced'[me], me, "profile")
  BY <1>1, <1>2, <1>3, HoldsNone
<1> QED
  BY <1>1, <1>2, <1>4, Parts, RejectType DEF IInv, StoreInv

LEMMA StartsOverStep ==
    ASSUME IInv, refused => refused', StartsOver
    PROVE  StoreTypeOK' /\ StoreInv' /\ Final' = Final
<1>1. StoreTypeOK'
  BY Parts DEF StartsOver, StoreTypeOK
<1>2. sent' = 0 /\ synced'[me] = 0 /\ UNCHANGED <<server, cache, queue>>
  BY Names DEF StartsOver
<1>3. /\ Holds(server', queue', sent', me, "profile")
      /\ Holds(cache', queue', synced'[me], me, "profile")
  BY <1>2, Parts, HoldsNone
<1>4. Final' = Final
  BY <1>2 DEF Final, LocalView
<1> QED
  BY <1>1, <1>2, <1>3, <1>4 DEF IInv, StoreInv

LEMMA SynchroniseStep ==
    ASSUME IInv, refused => refused', Synchronise
    PROVE  StoreTypeOK' /\ StoreInv' /\ Final' = Final
<1>1. server[me].profile \in Profile /\ Holds(server, queue, sent, me, "profile")
  BY DEF IInv, StoreInv
<1>2. server[me] # NoDoc
  <2>1. NoDoc.profile = Nil
    BY Names DEF NoDoc
  <2> QED
    BY <1>1, <2>1, Names
<1>3. cache' = server /\ synced'[me] = sent /\ UNCHANGED <<server, queue, sent>>
  BY <1>2, Names DEF Synchronise
<1>4. StoreInv'
  BY <1>1, <1>3 DEF IInv, StoreInv
<1> QED
  BY <1>3, <1>4, Parts, SynchroniseType DEF Final, LocalView

LEMMA WriteStep ==
    ASSUME IInv, refused => refused', NEW p \in Profile, Write(UpdateOf(p))
    PROVE  StoreTypeOK' /\ StoreInv'
<1>1. UpdateOf(p) \in Mutation /\ UpdateOf(p) \in Updates
  BY UpdateType
<1>2. queue' = Append(queue, UpdateOf(p)) /\ UNCHANGED <<server, cache, sent, synced>>
  BY DEF Write
<1>3. queue' \in Seq(Updates) /\ queue' # <<>>
  BY <1>1, <1>2, Parts
<1>4. synced[me] \in 0..Len(queue)
  BY Parts
<1>5. /\ Holds(server, queue, sent, me, "profile")
      /\ Holds(cache, queue, synced[me], me, "profile")
  BY DEF IInv, StoreInv
<1>6. /\ Holds(server, queue', sent, me, "profile")
      /\ Holds(cache, queue', synced[me], me, "profile")
  BY <1>1, <1>2, <1>4, <1>5, Parts, HoldsAppend
<1> QED
  BY <1>1, <1>2, <1>3, <1>6, Parts, WriteType DEF IInv, StoreInv

LEMMA StoreKept ==
    ASSUME IInv, refused => refused', UNCHANGED storeVars
    PROVE  StoreTypeOK' /\ StoreInv' /\ Final' = Final
BY Parts DEF storeVars, StoreTypeOK, IInv, StoreInv, Final, LocalView

-----------------------------------------------------------------------------
(***************************************************************************)
(* What keeps each part of the invariant.                                  *)
(***************************************************************************)

\* TypeOK without the client.
ScreensOK ==
    /\ signedIn \in BOOLEAN /\ active \in BOOLEAN
    /\ screen \in {"home", "page", "form"}
    /\ labels \in Profile \cup {Nil}
    /\ text \in Profile \cup {Nil}
    /\ userID \in BOOLEAN
    /\ message \in {"", "saved", "not saved", "not loaded"}
    /\ trap \in BOOLEAN
    /\ asked \in Profile \cup {Nil} /\ typed \in Profile \cup {Nil}
    /\ early \in BOOLEAN /\ unheard \in BOOLEAN /\ refused \in BOOLEAN

LEMMA ScreensTyped == IInv => ScreensOK
BY DEF IInv, TypeOK, ScreensOK

LEMMA Typed ==
    ASSUME ScreensOK', StoreTypeOK', fetching' \in [Requester -> Nat],
           handlers' \in Seq(Waiter \cup {Nobody}), Len(handlers') = Len(queue'),
           mainq' \in Seq(Completion)
    PROVE  TypeOK'
BY DEF TypeOK, CallsTypeOK, ScreensOK

\* A step that no update of the form notices.
LEMMA UpdatesQuiet ==
    ASSUME IInv, UNCHANGED <<formVars, handlers, queue>>,
           screen' = screen \/ (screen # "form" /\ screen' # "form"),
           server'[me].profile = server[me].profile \/ queue # <<>>,
           SameFor(mainq, mainq', "update")
    PROVE  UpdatesLast' /\ EnteredIsQueued' /\ NewsIsTrue'
<1>1. UNCHANGED <<text, userID, message, asked, typed, early>>
  BY DEF formVars
<1>2. (screen' = "form") <=> (screen = "form")
  OBVIOUS
<1>3. UpdatesLast' /\ EnteredIsQueued'
  BY <1>1, <1>2 DEF IInv, FormInv, UpdatesLast, EnteredIsQueued, Queued, SameFor
<1>4. NewsIsTrue'
  <2> SUFFICES ASSUME screen' = "form", ~early', ~Queued("update")'
               PROVE  /\ \A i : LatestIn(mainq', i, "update") /\ mainq'[i].ok => EnteredIsStored'
                      /\ NoneIn(mainq', "update") /\ message' = "saved" => EnteredIsStored'
    BY DEF NewsIsTrue
  <2>1. EnteredIsStored => EnteredIsStored'
    BY <1>1 DEF EnteredIsStored
  <2>2. /\ \A i : LatestIn(mainq, i, "update") /\ mainq[i].ok => EnteredIsStored
        /\ NoneIn(mainq, "update") /\ message = "saved" => EnteredIsStored
    BY <1>1, <1>2 DEF IInv, FormInv, NewsIsTrue, Queued
  <2> QED
    BY <1>1, <2>1, <2>2 DEF SameFor
<1> QED
  BY <1>3, <1>4

\* A step that the form does not notice.
LEMMA FormQuiet ==
    ASSUME IInv, UNCHANGED <<formVars, handlers, queue>>,
           fetching'["form"] = fetching["form"],
           screen' = screen \/ (screen # "form" /\ screen' # "form"),
           server'[me].profile = server[me].profile \/ queue # <<>>,
           SameFor(mainq, mainq', "form"), SameFor(mainq, mainq', "update")
    PROVE  FormInv'
<1>1. userID' = userID /\ ((screen' = "form") <=> (screen = "form"))
  BY DEF formVars
<1>2. FormLoadsOnce'
  BY <1>1 DEF IInv, FormInv, FormLoadsOnce, SameFor
<1> QED
  BY <1>2, UpdatesQuiet DEF FormInv

\* A step after which there is no form, nor anything that is meant for it.
LEMMA FormAway ==
    ASSUME screen' # "form", fetching'["form"] = 0,
           NoneIn(mainq', "form"), NoneIn(mainq', "update"), ~Queued("update")'
    PROVE  FormInv'
<1>1. FormLoadsOnce'
  BY DEF FormLoadsOnce, NoneIn, OnceIn
<1>2. UpdatesLast' /\ EnteredIsQueued' /\ NewsIsTrue'
  BY DEF UpdatesLast, EnteredIsQueued, NewsIsTrue, Queued
<1> QED
  BY <1>1, <1>2 DEF FormInv

\* A step after which the page is still to be told what it was to be told.
LEMMA PageKept ==
    ASSUME IInv, signedIn' = signedIn, refused => refused', GoodNews',
           Alive' /\ screen' # "home" => Alive /\ screen # "home",
           ~refused' => Final' = Final,
           Reloads => Reloads', SameFor(mainq, mainq', "page"), UNCHANGED pageVars
    PROVE  PageInv'
<1>1. ASSUME Alive', screen' # "home", ~refused', ~Reloads' PROVE PageHears'
  <2>1. PageHears
    BY <1>1 DEF IInv, PageInv
  <2>2. UNCHANGED <<labels, unheard>> /\ Final' = Final
    BY <1>1 DEF pageVars
  <2>3. ASSUME NEW i, LatestIn(mainq', i, "page") PROVE Right(mainq[i])'
    <3>1. PICK j : LatestIn(mainq, j, "page") /\ mainq[j] = mainq'[i]
      BY <2>3 DEF SameFor
    <3>2. Right(mainq[j])
      BY <2>1, <3>1 DEF PageHears
    <3> QED
      BY <2>2, <3>1, <3>2 DEF Right
  <2>4. NoneIn(mainq', "page") => unheard' \/ labels' = Final'
    BY <2>1, <2>2 DEF PageHears, SameFor
  <2> QED
    BY <2>3, <2>4 DEF PageHears
<1>2. Alive' /\ screen' # "home" => signedIn'
  BY DEF IInv, PageInv
<1> QED
  BY <1>1, <1>2 DEF PageInv

\* The answers that a queue still holds after one has joined or left it.
LEMMA AnswersAppend ==
    ASSUME IInv, NEW c \in Completion, mainq' = Append(mainq, c), refused => refused',
           c.kind = "written" /\ ~refused' => c.ok
    PROVE  /\ mainq' \in Seq(Completion) /\ GoodNews'
           /\ \A i \in DOMAIN mainq : i \in DOMAIN mainq' /\ mainq'[i] = mainq[i]
           /\ \E i \in DOMAIN mainq' : mainq'[i] = c
           /\ \A w : c.to # w => SameFor(mainq, mainq', w)
<1>1. /\ mainq' \in Seq(Completion) /\ DOMAIN mainq' = 1..(Len(mainq) + 1)
      /\ \A i \in DOMAIN mainq : i \in DOMAIN mainq' /\ mainq'[i] = mainq[i]
      /\ Len(mainq) + 1 \in DOMAIN mainq' /\ mainq'[Len(mainq) + 1] = c
      /\ \A i \in DOMAIN mainq' : i \in DOMAIN mainq \/ i = Len(mainq) + 1
  BY Parts
<1>2. GoodNews'
  BY <1>1 DEF IInv, PageInv, GoodNews
<1>3. \A w : c.to # w => SameFor(mainq, mainq', w)
  BY Parts, SameAppend
<1> QED
  BY <1>1, <1>2, <1>3

LEMMA AnswersTail ==
    ASSUME IInv, mainq # <<>>, mainq' = Tail(mainq), UNCHANGED refused
    PROVE  /\ mainq' \in Seq(Completion) /\ GoodNews'
           /\ Head(mainq) \in Completion /\ Head(mainq) = mainq[1] /\ 1 \in DOMAIN mainq
           /\ \A i \in DOMAIN mainq : i = 1 \/ (i - 1 \in DOMAIN mainq' /\ mainq'[i - 1] = mainq[i])
           /\ \A w : Head(mainq).to # w => SameFor(mainq, mainq', w)
<1>1. /\ mainq' \in Seq(Completion) /\ Head(mainq) \in Completion
      /\ Head(mainq) = mainq[1] /\ 1 \in DOMAIN mainq
      /\ DOMAIN mainq' = 1..(Len(mainq) - 1)
      /\ \A k \in DOMAIN mainq' : k + 1 \in DOMAIN mainq /\ mainq'[k] = mainq[k + 1]
      /\ \A i \in DOMAIN mainq : i = 1 \/ (i - 1 \in DOMAIN mainq' /\ mainq'[i - 1] = mainq[i])
  BY Parts, TailFacts
<1>2. GoodNews'
  BY <1>1 DEF IInv, PageInv, GoodNews
<1>3. \A w : Head(mainq).to # w => SameFor(mainq, mainq', w)
  BY Parts, SameTail
<1> QED
  BY <1>1, <1>2, <1>3

-----------------------------------------------------------------------------
(***************************************************************************)
(* What the user does.                                                     *)
(***************************************************************************)

LEMMA SameAnswers ==
    ASSUME IInv, UNCHANGED mainq, refused => refused'
    PROVE  GoodNews' /\ \A w : SameFor(mainq, mainq', w)
BY SameItself DEF IInv, PageInv, GoodNews

\* One more call of getDocuments.
LEMMA OneMoreCall ==
    ASSUME IInv, NEW r \in Requester, GetDocuments(r)
    PROVE  /\ fetching' \in [Requester -> Nat] /\ fetching'[r] = fetching[r] + 1
           /\ \A s \in Requester : s # r => fetching'[s] = fetching[s]
BY Parts DEF GetDocuments

LEMMA OpenPageStep == ASSUME IInv, OpenPage PROVE IInv'
<1>1. /\ UNCHANGED <<storeVars, handlers, mainq, signedIn, active, formVars, trap, refused>>
      /\ screen = "home" /\ screen' = "page" /\ signedIn /\ labels' = Nil /\ unheard' = FALSE
      /\ GetDocuments("page")
  BY DEF OpenPage
<1>2. StoreTypeOK' /\ StoreInv' /\ UNCHANGED queue
  BY <1>1, StoreKept DEF storeVars
<1>3. /\ fetching' \in [Requester -> Nat] /\ fetching'["page"] = fetching["page"] + 1
      /\ fetching'["form"] = fetching["form"]
  BY <1>1, OneMoreCall, Names
<1>4. TypeOK'
  <2>1. ScreensOK'
    BY <1>1, ScreensTyped DEF ScreensOK, formVars
  <2> QED
    BY <1>1, <1>2, <1>3, <2>1, Parts, Typed
<1>5. GoodNews' /\ \A w : SameFor(mainq, mainq', w)
  BY <1>1, SameAnswers
<1>6. FormInv'
  <2>1. UNCHANGED server
    BY <1>1 DEF storeVars
  <2> QED
    BY <1>1, <1>2, <1>3, <1>5, <2>1, FormQuiet
<1>7. PageInv'
  <2>1. Reloads'
    BY <1>3, Parts DEF Reloads
  <2> QED
    BY <1>1, <1>5, <2>1 DEF PageInv
<1> QED
  BY <1>2, <1>4, <1>6, <1>7 DEF IInv

\* What remains of the answers when some are forgotten is as good as before.
LEMMA ForgetNews ==
    ASSUME IInv, NEW gone, NEW became, Renaming(became), Forget(gone, became), UNCHANGED refused
    PROVE  GoodNews'
<1>1. \A k \in DOMAIN mainq' : \E i \in DOMAIN mainq :
         mainq[i] \in Completion /\ mainq'[k] = Renamed(mainq[i], became)
  BY Parts, ForgetAnswers
<1>2. \A k \in DOMAIN mainq' : \E i \in DOMAIN mainq :
         /\ mainq'[k].kind = mainq[i].kind
         /\ mainq[i].kind = "written" => mainq'[k].ok = mainq[i].ok
  BY <1>1, RenamedFacts
<1> QED
  BY <1>2 DEF IInv, PageInv, GoodNews

LEMMA LogOutStep == ASSUME IInv, LogOut PROVE IInv'
<1> DEFINE became == [w \in Waiter |-> "left page"]
<1>1. /\ UNCHANGED <<storeVars, active, formVars, trap, refused>>
      /\ screen' = "home" /\ signedIn' = FALSE /\ labels' = Nil /\ unheard' = FALSE
      /\ Forget(Requester, became)
  BY DEF LogOut
<1>2. Renaming(became) /\ DOMAIN became = Waiter /\ \A w \in Waiter : became[w] = "left page"
  BY Names DEF Renaming
<1> HIDE DEF became
<1>3. StoreTypeOK' /\ StoreInv' /\ UNCHANGED queue
  BY <1>1, StoreKept DEF storeVars
<1>4. /\ mainq' \in Seq(Completion)
      /\ \A k \in DOMAIN mainq' : \E i \in DOMAIN mainq :
            mainq[i].to \notin Requester /\ mainq'[k] = Renamed(mainq[i], became)
  <2>1. mainq \in Seq(Completion)
    BY Parts
  <2>2. /\ mainq' \in Seq(Completion)
        /\ \A k \in DOMAIN mainq' : \E i \in DOMAIN mainq :
              mainq[i].to \notin Requester /\ mainq'[k] = Renamed(mainq[i], became)
        /\ \A i \in DOMAIN mainq : mainq[i].to \notin Requester =>
              \E k \in DOMAIN mainq' : mainq'[k] = Renamed(mainq[i], became)
        /\ \A w \in Requester : w \notin Requester => SameFor(mainq, mainq', w)
    BY <1>1, <1>2, <2>1, ForgetAnswers
  <2> QED
    BY <2>2
<1>5. /\ fetching' \in [Requester -> Nat] /\ \A r \in Requester : fetching'[r] = 0
      /\ handlers' \in Seq(Waiter \cup {Nobody}) /\ Len(handlers') = Len(handlers)
      /\ DOMAIN handlers' = DOMAIN handlers
      /\ \A i \in DOMAIN handlers :
            handlers'[i] = IF handlers[i] \in Waiter THEN "left page" ELSE handlers[i]
  BY <1>1, <1>2, Parts, ForgetCalls
<1>6. TypeOK'
  <2>1. ScreensOK'
    BY <1>1, ScreensTyped DEF ScreensOK, formVars
  <2> QED
    BY <1>3, <1>4, <1>5, <2>1, Parts, Typed
<1>7. FormInv'
  <2>1. \A k \in DOMAIN mainq' : mainq'[k].to = "left page"
    <3> TAKE k \in DOMAIN mainq'
    <3>1. PICK i \in DOMAIN mainq :
            mainq[i].to \notin Requester /\ mainq'[k] = Renamed(mainq[i], became)
      BY <1>4
    <3>2. mainq[i] \in Completion
      BY Parts
    <3>3. mainq[i].to \in Waiter
      BY <3>1, <3>2, CompletionKinds
    <3>4. Renamed(mainq[i], became).to = became[mainq[i].to]
      BY <1>2, <3>2, <3>3, RenamedFacts
    <3> QED
      BY <1>2, <3>1, <3>3, <3>4
  <2>2. ~Queued("update")'
    <3>1. "update" # Nobody /\ "update" \in Waiter
      BY Names
    <3> QED
      BY <1>5, <3>1 DEF Queued
  <2>3. fetching'["form"] = 0
    BY <1>5, Names
  <2> QED
    BY <1>1, <2>1, <2>2, <2>3, FormAway DEF NoneIn
<1>8. PageInv'
  BY <1>1, <1>2, ForgetNews DEF PageInv
<1> QED
  BY <1>3, <1>6, <1>7, <1>8 DEF IInv

LEMMA SignInStep == ASSUME IInv, SignIn PROVE IInv'
<1>1. /\ UNCHANGED <<storeVars, fetching, handlers, mainq, screen, pageVars, formVars, trap, refused>>
      /\ signedIn' = TRUE /\ active' = TRUE /\ Alive /\ ~signedIn
  BY DEF SignIn, callVars
<1>2. StoreTypeOK' /\ StoreInv' /\ UNCHANGED <<queue, server>>
  BY <1>1, StoreKept DEF storeVars
<1>3. TypeOK'
  <2>1. signedIn' \in BOOLEAN /\ active' \in BOOLEAN
    BY <1>1
  <2>2. ScreensOK'
    BY <1>1, <2>1, ScreensTyped DEF ScreensOK, formVars, pageVars
  <2> QED
    BY <1>1, <1>2, <2>2, Parts, Typed
<1>4. GoodNews' /\ \A w : SameFor(mainq, mainq', w)
  BY <1>1, SameAnswers
<1>5. FormInv'
  BY <1>1, <1>2, <1>4, FormQuiet
<1>6. PageInv'
  <2>1. screen = "home"
    BY <1>1 DEF IInv, PageInv
  <2> QED
    BY <1>1, <1>4, <2>1 DEF PageInv
<1> QED
  BY <1>2, <1>3, <1>5, <1>6 DEF IInv

LEMMA CredentialsStep == ASSUME IInv, CredentialsChange PROVE IInv'
<1>1. /\ UNCHANGED <<fetching, handlers, mainq, signedIn, screen, pageVars, formVars, trap, refused>>
      /\ active' = signedIn /\ StartsOver
  BY DEF CredentialsChange, callVars, StartsOver
<1>2. StoreTypeOK' /\ StoreInv' /\ Final' = Final /\ UNCHANGED <<queue, server>>
  BY <1>1, StartsOverStep DEF StartsOver
<1>3. TypeOK'
  <2>1. active' \in BOOLEAN
    BY <1>1, ScreensTyped DEF ScreensOK
  <2>2. ScreensOK'
    <3>1. UNCHANGED <<signedIn, screen, pageVars, formVars, trap, refused>>
      BY <1>1
    <3>2. /\ signedIn' \in BOOLEAN /\ userID' \in BOOLEAN /\ trap' \in BOOLEAN
          /\ early' \in BOOLEAN /\ unheard' \in BOOLEAN /\ refused' \in BOOLEAN
      <4>1. /\ signedIn \in BOOLEAN /\ userID \in BOOLEAN /\ trap \in BOOLEAN
            /\ early \in BOOLEAN /\ unheard \in BOOLEAN /\ refused \in BOOLEAN
        BY ScreensTyped DEF ScreensOK
      <4> QED
        BY <3>1, <4>1 DEF formVars, pageVars
    <3>3. /\ screen' \in {"home", "page", "form"}
          /\ labels' \in Profile \cup {Nil} /\ text' \in Profile \cup {Nil}
          /\ message' \in {"", "saved", "not saved", "not loaded"}
          /\ asked' \in Profile \cup {Nil} /\ typed' \in Profile \cup {Nil}
      BY <3>1, ScreensTyped DEF ScreensOK, formVars, pageVars
    <3> QED
      BY <2>1, <3>2, <3>3 DEF ScreensOK
  <2> QED
    BY <1>1, <1>2, <2>2, Parts, Typed
<1>4. GoodNews' /\ \A w : SameFor(mainq, mainq', w)
  BY <1>1, SameAnswers
<1>5. FormInv'
  BY <1>1, <1>2, <1>4, FormQuiet
<1>6. PageInv'
  <2>1. Reloads => Reloads'
    BY <1>1 DEF Reloads
  <2> QED
    BY <1>1, <1>2, <1>4, <2>1, PageKept DEF Alive
<1> QED
  BY <1>2, <1>3, <1>5, <1>6 DEF IInv

LEMMA OpenFormStep == ASSUME IInv, OpenForm PROVE IInv'
<1>1. /\ UNCHANGED <<storeVars, handlers, mainq, signedIn, active, pageVars, trap, refused>>
      /\ screen = "page" /\ screen' = "form" /\ Alive
      /\ text' = Nil /\ userID' = FALSE /\ message' = ""
      /\ asked' = Nil /\ typed' = Nil /\ early' = FALSE
      /\ GetDocuments("form")
  BY DEF OpenForm, NewForm
<1>2. StoreTypeOK' /\ StoreInv' /\ Final' = Final /\ UNCHANGED queue
  BY <1>1, StoreKept DEF storeVars
<1>3. /\ fetching' \in [Requester -> Nat] /\ fetching'["form"] = fetching["form"] + 1
      /\ fetching'["page"] = fetching["page"]
  BY <1>1, OneMoreCall, Names
<1>4. TypeOK'
  <2>1. ScreensOK'
    BY <1>1, ScreensTyped DEF ScreensOK, pageVars
  <2> QED
    BY <1>1, <1>2, <1>3, <2>1, Parts, Typed
<1>5. GoodNews' /\ \A w : SameFor(mainq, mainq', w)
  BY <1>1, SameAnswers
<1>6. FormInv'
  <2>1. /\ fetching["form"] = 0 /\ NoneIn(mainq, "form") /\ NoneIn(mainq, "update")
        /\ ~Queued("update")
    BY <1>1 DEF IInv, FormInv, FormLoadsOnce, UpdatesLast
  <2>2. FormLoadsOnce'
    <3>1. fetching'["form"] = 1
      BY <1>3, <2>1
    <3>2. userID' = FALSE /\ screen' = "form"
      BY <1>1
    <3>3. NoneIn(mainq', "form") /\ OnceIn(mainq', "form")
      BY <1>1, <2>1 DEF NoneIn, OnceIn
    <3> QED
      BY <3>1, <3>2, <3>3 DEF FormLoadsOnce
  <2>3. UpdatesLast' /\ EnteredIsQueued'
    BY <1>1, <2>1 DEF UpdatesLast, EnteredIsQueued, Queued
  <2>4. NewsIsTrue'
    BY <1>1, <2>1 DEF NewsIsTrue, NoneIn, LatestIn
  <2> QED
    BY <2>2, <2>3, <2>4 DEF FormInv
<1>7. PageInv'
  <2>1. Reloads => Reloads'
    BY <1>1, <1>3 DEF Reloads
  <2> QED
    BY <1>1, <1>2, <1>5, <2>1, PageKept DEF Alive
<1> QED
  BY <1>2, <1>4, <1>6, <1>7 DEF IInv

LEMMA LeaveFormStep == ASSUME IInv, LeaveForm PROVE IInv'
<1> DEFINE became == [w \in {"update"} |-> "left form"]
<1>1. /\ UNCHANGED <<storeVars, signedIn, active, pageVars, trap, refused>>
      /\ screen = "form" /\ screen' = "page" /\ Alive
      /\ text' = Nil /\ userID' = FALSE /\ message' = ""
      /\ asked' = Nil /\ typed' = Nil /\ early' = FALSE
      /\ Forget({"form"}, became)
  BY DEF LeaveForm, NewForm
<1>2. Renaming(became) /\ DOMAIN became = {"update"} /\ became["update"] = "left form"
  BY Names DEF Renaming
<1> HIDE DEF became
<1>3. StoreTypeOK' /\ StoreInv' /\ Final' = Final /\ UNCHANGED queue
  BY <1>1, StoreKept DEF storeVars
<1>4. /\ mainq' \in Seq(Completion)
      /\ \A k \in DOMAIN mainq' : \E i \in DOMAIN mainq :
            mainq[i].to \notin {"form"} /\ mainq'[k] = Renamed(mainq[i], became)
      /\ \A i \in DOMAIN mainq : mainq[i].to \notin {"form"} =>
            \E k \in DOMAIN mainq' : mainq'[k] = Renamed(mainq[i], became)
      /\ SameFor(mainq, mainq', "page")
  <2>1. mainq \in Seq(Completion)
    BY Parts
  <2>2. "page" \in Requester /\ "page" \notin {"form"}
    BY Names
  <2>3. /\ mainq' \in Seq(Completion)
        /\ \A k \in DOMAIN mainq' : \E i \in DOMAIN mainq :
              mainq[i].to \notin {"form"} /\ mainq'[k] = Renamed(mainq[i], became)
        /\ \A i \in DOMAIN mainq : mainq[i].to \notin {"form"} =>
              \E k \in DOMAIN mainq' : mainq'[k] = Renamed(mainq[i], became)
        /\ \A w \in Requester : w \notin {"form"} => SameFor(mainq, mainq', w)
    BY <1>1, <1>2, <2>1, ForgetAnswers
  <2> QED
    BY <2>2, <2>3
<1>5. /\ fetching' \in [Requester -> Nat]
      /\ fetching'["form"] = 0 /\ fetching'["page"] = fetching["page"]
      /\ handlers' \in Seq(Waiter \cup {Nobody}) /\ Len(handlers') = Len(handlers)
      /\ DOMAIN handlers' = DOMAIN handlers
      /\ \A i \in DOMAIN handlers :
            handlers'[i] = IF handlers[i] = "update" THEN "left form" ELSE handlers[i]
  <2>1. handlers \in Seq(Waiter \cup {Nobody}) /\ fetching \in [Requester -> Nat]
    BY Parts
  <2>2. /\ fetching' \in [Requester -> Nat]
        /\ \A r \in Requester : fetching'[r] = IF r \in {"form"} THEN 0 ELSE fetching[r]
        /\ handlers' \in Seq(Waiter \cup {Nobody}) /\ Len(handlers') = Len(handlers)
        /\ DOMAIN handlers' = DOMAIN handlers
        /\ \A i \in DOMAIN handlers :
              handlers'[i] = IF handlers[i] \in DOMAIN became THEN became[handlers[i]]
                             ELSE handlers[i]
    BY <1>1, <1>2, <2>1, ForgetCalls
  <2>3. "page" \in Requester /\ "form" \in Requester /\ "page" \notin {"form"}
    BY Names
  <2>4. fetching'["form"] = 0 /\ fetching'["page"] = fetching["page"]
    BY <2>2, <2>3
  <2> QED
    BY <1>2, <2>2, <2>4
<1>6. TypeOK'
  <2>1. ScreensOK'
    BY <1>1, ScreensTyped DEF ScreensOK, pageVars
  <2> QED
    BY <1>1, <1>3, <1>4, <1>5, <2>1, Parts, Typed
<1>7. \A i \in DOMAIN mainq :
        Renamed(mainq[i], became).to = IF mainq[i].to = "update" THEN "left form" ELSE mainq[i].to
  <2> TAKE i \in DOMAIN mainq
  <2>1. mainq[i] \in Completion
    BY Parts
  <2>2. CASE mainq[i].to = "update"
    BY <1>2, <2>1, <2>2, RenamedFacts
  <2>3. CASE mainq[i].to # "update"
    BY <1>2, <2>1, <2>3, RenamedFacts
  <2> QED
    BY <2>2, <2>3
<1>8. FormInv'
  <2>1. NoneIn(mainq', "form") /\ NoneIn(mainq', "update")
    BY <1>4, <1>7 DEF NoneIn
  <2>2. ~Queued("update")'
    BY <1>5 DEF Queued
  <2> QED
    BY <1>1, <1>5, <2>1, <2>2, FormAway
<1>9. PageInv'
  <2>1. Reloads => Reloads'
    BY <1>4, <1>5, <1>7 DEF Reloads, Telling
  <2> QED
    BY <1>1, <1>2, <1>3, <1>4, <2>1, PageKept, ForgetNews DEF Alive
<1> QED
  BY <1>3, <1>6, <1>8, <1>9 DEF IInv

LEMMA TypeStep == ASSUME IInv, NEW p \in Profile, Type(p) PROVE IInv'
<1>1. /\ UNCHANGED <<storeVars, fetching, handlers, mainq, signedIn, active, screen, pageVars, userID,
                     message, asked, trap, refused>>
      /\ text' = p /\ typed' = p /\ early' = (early \/ ~userID) /\ screen = "form"
  BY DEF Type, callVars
<1>2. StoreTypeOK' /\ StoreInv' /\ Final' = Final /\ UNCHANGED <<queue, server>>
  BY <1>1, StoreKept DEF storeVars
<1>3. TypeOK'
  <2>1. early' \in BOOLEAN
    BY <1>1
  <2>2. ScreensOK'
    BY <1>1, <2>1, ScreensTyped DEF ScreensOK, pageVars
  <2> QED
    BY <1>1, <1>2, <2>2, Parts, Typed
<1>4. GoodNews' /\ \A w : SameFor(mainq, mainq', w)
  BY <1>1, SameAnswers
<1>5. FormInv'
  <2>1. FormLoadsOnce' /\ UpdatesLast'
    BY <1>1 DEF IInv, FormInv, FormLoadsOnce, UpdatesLast, Queued
  <2>2. early' \/ (~early /\ userID)
    BY <1>1
  <2>3. EnteredIsQueued'
    BY <1>1, <1>2, <2>2 DEF IInv, FormInv, EnteredIsQueued
  <2>4. NewsIsTrue'
    BY <1>1, <1>2, <2>2 DEF IInv, FormInv, NewsIsTrue, Queued, EnteredIsStored
  <2> QED
    BY <2>1, <2>3, <2>4 DEF FormInv
<1>6. PageInv'
  <2>1. Reloads => Reloads'
    BY <1>1 DEF Reloads
  <2> QED
    BY <1>1, <1>2, <1>4, <2>1, PageKept DEF Alive
<1> QED
  BY <1>2, <1>3, <1>5, <1>6 DEF IInv

\* An update is queued behind all the others, with what the user had entered.
LEMMA UpdateQueuedStep == ASSUME IInv, UpdateTapped, userID PROVE IInv'
<1>1. /\ UNCHANGED <<fetching, mainq, signedIn, active, screen, pageVars, text, userID,
                     typed, trap, refused, message>>
      /\ asked' = (IF typed = Nil THEN text ELSE typed) /\ early' = (early \/ ~userID)
      /\ screen = "form" /\ text # Nil /\ Alive
      /\ Write(Update) /\ handlers' = Append(handlers, "update")
  BY DEF UpdateTapped, SetData
<1>2. text \in Profile /\ Update = UpdateOf(text)
  BY <1>1, ScreensTyped DEF ScreensOK, Update, UpdateOf
<1>3. StoreTypeOK' /\ StoreInv'
  BY <1>1, <1>2, WriteStep
<1>4. /\ queue' = Append(queue, UpdateOf(text)) /\ UNCHANGED server
      /\ Len(queue') = Len(queue) + 1 /\ queue'[Len(queue) + 1].write.profile = text
      /\ \A i \in 1..Len(queue) : queue'[i] = queue[i]
  <2>1. queue' = Append(queue, UpdateOf(text)) /\ UNCHANGED server
    BY <1>1, <1>2 DEF Write
  <2> QED
    BY <1>2, <2>1, Parts, UpdateType
<1>5. /\ handlers' \in Seq(Waiter \cup {Nobody}) /\ Len(handlers') = Len(handlers) + 1
      /\ DOMAIN handlers' = 1..(Len(queue) + 1) /\ handlers'[Len(queue) + 1] = "update"
      /\ \A i \in 1..Len(queue) : handlers'[i] = handlers[i]
  <2>1. "update" \in Waiter \cup {Nobody}
    BY Names
  <2> DEFINE S == Waiter \cup {Nobody}
  <2>2. handlers \in Seq(S) /\ "update" \in S /\ Len(handlers) = Len(queue) /\ Len(queue) \in Nat
    BY <2>1, Parts
  <2> HIDE DEF S
  <2>3. /\ handlers' \in Seq(S) /\ Len(handlers') = Len(handlers) + 1
        /\ DOMAIN handlers' = 1..(Len(queue) + 1) /\ handlers'[Len(queue) + 1] = "update"
        /\ \A i \in 1..Len(queue) : handlers'[i] = handlers[i]
    BY <1>1, <2>2
  <2> QED
    BY <2>3 DEF S
<1>6. TypeOK'
  <2>1. early' \in BOOLEAN
    BY <1>1
  <2>2. ScreensOK'
    BY <1>1, <2>1, ScreensTyped DEF ScreensOK, pageVars
  <2> QED
    BY <1>1, <1>3, <1>4, <1>5, <2>2, Parts, Typed
<1>7. FormInv'
  <2>1. FormLoadsOnce'
    BY <1>1 DEF IInv, FormInv, FormLoadsOnce
  <2>2. UpdatesLast'
    <3>1. \A i, j \in 1..Len(queue) : i < j /\ handlers[i] = "update" => handlers[j] = "update"
      BY Parts DEF IInv, FormInv, UpdatesLast
    <3>2. \A i, j \in DOMAIN handlers' :
            i < j /\ handlers'[i] = "update" => handlers'[j] = "update"
      <4> SUFFICES ASSUME NEW i \in DOMAIN handlers', NEW j \in DOMAIN handlers',
                          i < j, handlers'[i] = "update"
                   PROVE  handlers'[j] = "update"
        OBVIOUS
      <4>1. j = Len(queue) + 1 \/ (i \in 1..Len(queue) /\ j \in 1..Len(queue))
        BY <1>5, Parts
      <4> QED
        BY <1>5, <3>1, <4>1
    <3> QED
      BY <1>1, <3>2 DEF UpdatesLast
  <2>3. EnteredIsQueued'
    <3> SUFFICES ASSUME ~early'
                 PROVE  /\ typed' # Nil => userID' /\ text' = typed'
                        /\ \A i \in DOMAIN handlers' :
                              i = Len(handlers') /\ handlers'[i] = "update"
                                 => queue'[i].write.profile = asked'
      BY DEF EnteredIsQueued
    <3>1. typed # Nil => userID /\ text = typed
      BY <1>1 DEF IInv, FormInv, EnteredIsQueued
    <3>2. asked' = text
      BY <1>1, <3>1
    <3> QED
      BY <1>1, <1>4, <1>5, <3>1, <3>2, Parts
  <2>4. Queued("update")'
    BY <1>5, Parts DEF Queued
  <2> QED
    BY <2>1, <2>2, <2>3, <2>4 DEF FormInv, NewsIsTrue
<1>8. PageInv'
  <2>1. Len(queue) + 1 \in DOMAIN handlers' /\ handlers'[Len(queue) + 1] \in Telling
    BY <1>5, Parts DEF Telling
  <2>2. Reloads'
    BY <2>1 DEF Reloads
  <2> QED
    BY <1>1, <2>2 DEF IInv, PageInv, GoodNews, Alive
<1> QED
  BY <1>3, <1>6, <1>7, <1>8 DEF IInv

LEMMA UpdateTappedStep == ASSUME IInv, UpdateTapped PROVE IInv'
<1>1. CASE userID
  BY <1>1, UpdateQueuedStep
<1>2. CASE ~userID
  <2>1. /\ UNCHANGED <<storeVars, fetching, handlers, mainq, signedIn, active, screen, pageVars,
                       text, userID, typed, trap, refused>>
        /\ message' = "saved" /\ early' = TRUE
        /\ asked' = (IF typed = Nil THEN text ELSE typed)
    BY <1>2 DEF UpdateTapped
  <2>2. StoreTypeOK' /\ StoreInv' /\ Final' = Final /\ UNCHANGED <<queue, server>>
    BY <2>1, StoreKept DEF storeVars
  <2>3. TypeOK'
    <3>1. ScreensOK'
      BY <2>1, ScreensTyped DEF ScreensOK, pageVars
    <3> QED
      BY <2>1, <2>2, <3>1, Parts, Typed
  <2>4. GoodNews' /\ \A w : SameFor(mainq, mainq', w)
    BY <2>1, SameAnswers
  <2>5. FormInv'
    BY <2>1 DEF IInv, FormInv, FormLoadsOnce, UpdatesLast, Queued, EnteredIsQueued, NewsIsTrue
  <2>6. PageInv'
    <3>1. Reloads => Reloads'
      BY <2>1 DEF Reloads
    <3> QED
      BY <2>1, <2>2, <2>4, <3>1, PageKept DEF Alive
  <2> QED
    BY <2>2, <2>3, <2>5, <2>6 DEF IInv
<1> QED
  BY <1>1, <1>2

-----------------------------------------------------------------------------
(***************************************************************************)
(* What the client does.                                                   *)
(***************************************************************************)

\* What a query answers: nothing, or the customer's document.
LEMMA ResultsFacts ==
    ASSUME NEW view \in [DocId -> Document], NEW docs \in Results(view, Mine)
    PROVE  /\ docs \in Seq(Snapshot)
           /\ docs = <<>> \/ (view[me].profile # Nil /\ Last(docs).data.profile = view[me].profile)
<1> DEFINE found == {d \in DocId : view[d] \in Mine}
<1>1. PICK keys \in [1..Cardinality(found) -> found] :
        docs = [i \in DOMAIN keys |-> [documentID |-> keys[i], data |-> view[keys[i]]]]
  BY DEF Results
<1>2. PICK n \in Nat : n = Cardinality(found)
  <2>1. IsFiniteSet(DocId) /\ found \subseteq DocId
    BY CallsAssumption
  <2> QED
    BY <2>1, FS_Subset, FS_CardinalityType
<1>3. \A k \in found : k = me /\ k \in DocId /\ view[k] \in Document /\ view[k] \in Mine
  BY Names
<1> HIDE DEF found
<1>4. docs \in [1..n -> Snapshot]
  BY <1>1, <1>2, <1>3 DEF Snapshot
<1>5. docs \in Seq(Snapshot)
  BY <1>4
<1>6. ASSUME docs # <<>>
      PROVE  view[me].profile # Nil /\ Last(docs).data.profile = view[me].profile
  <2>1. Len(docs) \in 1..n /\ Last(docs) = docs[Len(docs)]
    BY <1>4, <1>6 DEF Last
  <2>2. docs[Len(docs)].data = view[me] /\ view[me] \in Mine
    BY <1>1, <1>2, <1>3, <2>1
  <2>3. view[me].profile # Nil
    <3> SUFFICES ASSUME view[me].profile = Nil PROVE FALSE
      OBVIOUS
    <3>1. view[me] \in [{"profile"} -> Profile \cup {Nil}] /\ view[me] # [f \in {"profile"} |-> Nil]
      BY <2>2, Names DEF Mine, Document, NoDoc
    <3> QED
      BY <3>1
  <2> QED
    BY <2>1, <2>2, <2>3
<1> QED
  BY <1>5, <1>6

\* What the client tells a screen.
LEMMA LoadFacts ==
    ASSUME IInv, NEW r \in Requester, LoadAnswered(r)
    PROVE  /\ UNCHANGED <<queue, server, handlers>> /\ UNCHANGED programVars /\ UNCHANGED refused
           /\ StoreTypeOK' /\ StoreInv' /\ Final' = Final
           /\ fetching[r] > 0 /\ fetching' = [fetching EXCEPT ![r] = @ - 1]
           /\ \E c \in Completion : /\ mainq' = Append(mainq, c) /\ c.to = r /\ c.kind # "written"
                                    /\ ~refused => Right(c)
<1>1. /\ UNCHANGED programVars /\ UNCHANGED refused
      /\ LocalView \in [DocId -> Document] /\ CachedView \in [DocId -> Document]
      /\ LocalView[me].profile = Final
      /\ ~refused => CachedView[me].profile \in {Nil, Final}
  BY Views DEF LoadAnswered, Final
<1>2. ASSUME NEW view \in [DocId -> Document], AnswerQuery(r, view, Mine),
             ~refused => view[me].profile \in {Nil, Final}
      PROVE  /\ fetching[r] > 0 /\ fetching' = [fetching EXCEPT ![r] = @ - 1]
             /\ UNCHANGED handlers
             /\ \E c \in Completion : /\ mainq' = Append(mainq, c) /\ c.to = r /\ c.kind # "written"
                                      /\ ~refused => Right(c)
  <2>1. PICK docs \in Results(view, Mine) :
          mainq' = Append(mainq, [kind |-> "snapshot", to |-> r, docs |-> docs])
    BY <1>2 DEF AnswerQuery
  <2> DEFINE c == [kind |-> "snapshot", to |-> r, docs |-> docs]
  <2>2. /\ docs \in Seq(Snapshot)
        /\ docs = <<>> \/ (view[me].profile # Nil /\ Last(docs).data.profile = view[me].profile)
    BY ResultsFacts
  <2>3. c \in Completion
    BY <2>2 DEF Completion
  <2>4. ~refused => Right(c)
    BY <1>2, <2>2 DEF Right
  <2> QED
    BY <1>2, <2>1, <2>3, <2>4 DEF AnswerQuery
<1>3. CASE QueryServer(r, Mine)
  <2>1. AnswerQuery(r, LocalView, Mine) /\ Synchronise
    BY <1>3 DEF QueryServer
  <2>2. StoreTypeOK' /\ StoreInv' /\ Final' = Final
    BY <1>1, <2>1, SynchroniseStep
  <2>3. UNCHANGED <<queue, server>>
    BY <2>1 DEF Synchronise
  <2> QED
    BY <1>1, <1>2, <2>1, <2>2, <2>3
<1>4. CASE QueryCache(r, Mine)
  <2>1. AnswerQuery(r, CachedView, Mine) /\ UNCHANGED storeVars
    BY <1>4 DEF QueryCache
  <2>2. StoreTypeOK' /\ StoreInv' /\ Final' = Final
    BY <1>1, <2>1, StoreKept
  <2>3. UNCHANGED <<queue, server>>
    BY <2>1 DEF storeVars
  <2> QED
    BY <1>1, <1>2, <2>1, <2>2, <2>3
<1>5. CASE QueryFails(r)
  <2> DEFINE c == [kind |-> "loadError", to |-> r]
  <2>1. /\ UNCHANGED storeVars /\ UNCHANGED handlers /\ mainq' = Append(mainq, c)
        /\ fetching[r] > 0 /\ fetching' = [fetching EXCEPT ![r] = @ - 1]
    BY <1>5 DEF QueryFails
  <2>2. StoreTypeOK' /\ StoreInv' /\ Final' = Final
    BY <1>1, <2>1, StoreKept
  <2>3. UNCHANGED <<queue, server>>
    BY <2>1 DEF storeVars
  <2>4. c \in Completion /\ Right(c)
    BY DEF Completion, Right
  <2> QED
    BY <1>1, <2>1, <2>2, <2>3, <2>4
<1> QED
  BY <1>3, <1>4, <1>5 DEF LoadAnswered

LEMMA LoadStep == ASSUME IInv, NEW r \in Requester, LoadAnswered(r) PROVE IInv'
<1>1. /\ UNCHANGED <<queue, server, handlers>> /\ UNCHANGED refused
      /\ UNCHANGED <<signedIn, active, screen, pageVars, formVars, trap>>
      /\ StoreTypeOK' /\ StoreInv' /\ Final' = Final
      /\ fetching[r] > 0 /\ fetching' = [fetching EXCEPT ![r] = @ - 1]
  BY LoadFacts DEF programVars
<1>2. PICK c \in Completion : /\ mainq' = Append(mainq, c) /\ c.to = r /\ c.kind # "written"
                              /\ ~refused => Right(c)
  BY LoadFacts
<1>3. /\ fetching' \in [Requester -> Nat] /\ fetching'[r] = fetching[r] - 1
      /\ \A s \in Requester : s # r => fetching'[s] = fetching[s]
  BY <1>1, Parts
<1>4. /\ mainq' \in Seq(Completion) /\ GoodNews'
      /\ \A i \in DOMAIN mainq : i \in DOMAIN mainq' /\ mainq'[i] = mainq[i]
      /\ \E i \in DOMAIN mainq' : mainq'[i] = c
      /\ \A w : c.to # w => SameFor(mainq, mainq', w)
  BY <1>1, <1>2, AnswersAppend
<1>5. TypeOK'
  <2>1. ScreensOK
    BY ScreensTyped
  <2>2. UNCHANGED <<signedIn, active, screen, labels, unheard, text, userID, message, asked,
                    typed, early, trap, refused>>
    BY <1>1 DEF formVars, pageVars
  <2>3. /\ signedIn' \in BOOLEAN /\ active' \in BOOLEAN /\ userID' \in BOOLEAN /\ trap' \in BOOLEAN
        /\ early' \in BOOLEAN /\ unheard' \in BOOLEAN /\ refused' \in BOOLEAN
    BY <2>1, <2>2, Zenon DEF ScreensOK
  <2>4. ScreensOK'
    BY <2>1, <2>2, <2>3 DEF ScreensOK
  <2> QED
    BY <1>1, <1>3, <1>4, <2>4, Parts, Typed
<1>6. /\ \A i : LatestIn(mainq', i, r) => mainq'[i] = c
      /\ ~NoneIn(mainq', r) /\ (NoneIn(mainq, r) => OnceIn(mainq', r))
  BY <1>2, Parts, LatestAppend
<1>7. r # "update" /\ (r = "page" \/ r = "form")
  BY Names
<1>8. UpdatesLast' /\ EnteredIsQueued' /\ NewsIsTrue'
  BY <1>1, <1>2, <1>4, <1>7, UpdatesQuiet
<1>9. CASE r = "page"
  <2>1. FormLoadsOnce'
    <3>1. fetching'["form"] = fetching["form"] /\ SameFor(mainq, mainq', "form")
      BY <1>2, <1>3, <1>4, <1>9, Names
    <3>2. UNCHANGED <<userID, screen>>
      BY <1>1 DEF formVars
    <3> QED
      BY <3>1, <3>2 DEF IInv, FormInv, FormLoadsOnce, SameFor
  <2>2. ~refused => PageHears'
    <3> SUFFICES ASSUME ~refused PROVE PageHears'
      OBVIOUS
    <3>1. \A i : LatestIn(mainq', i, "page") => Right(mainq[i])'
      BY <1>1, <1>2, <1>6, <1>9 DEF Right
    <3> QED
      BY <1>6, <1>9, <3>1 DEF PageHears
  <2>3. PageInv'
    BY <1>1, <1>4, <2>2 DEF IInv, PageInv, Alive
  <2> QED
    BY <1>1, <1>5, <1>8, <2>1, <2>3 DEF IInv, FormInv
<1>10. CASE r = "form"
  <2>1. fetching["form"] = 1
    BY <1>1, <1>10, Parts DEF IInv, FormInv, FormLoadsOnce
  <2>2. FormLoadsOnce'
    <3>1. /\ fetching'["form"] = 0 /\ UNCHANGED <<userID, screen>>
          /\ OnceIn(mainq', "form") /\ ~(userID \/ screen # "form")
      BY <1>1, <1>3, <1>6, <1>10, <2>1 DEF IInv, FormInv, FormLoadsOnce, formVars
    <3> QED
      BY <3>1 DEF FormLoadsOnce
  <2>3. PageInv'
    <3>1. fetching'["page"] = fetching["page"] /\ SameFor(mainq, mainq', "page")
      BY <1>2, <1>3, <1>4, <1>10, Names
    <3>2. Reloads => Reloads'
      BY <1>1, <1>4, <3>1 DEF Reloads
    <3> QED
      BY <1>1, <1>4, <3>1, <3>2, PageKept DEF Alive
  <2> QED
    BY <1>1, <1>5, <1>8, <2>2, <2>3 DEF IInv, FormInv
<1> QED
  BY <1>7, <1>9, <1>10

\* The answer to the oldest mutation is handed to its handler, if it has one.
LEMMA NotifyFacts ==
    ASSUME IInv, queue # <<>>, NEW ok \in BOOLEAN, NotifyUser(ok)
    PROVE  /\ handlers' \in Seq(Waiter \cup {Nobody}) /\ Len(handlers') = Len(queue) - 1
           /\ DOMAIN handlers' = 1..(Len(queue) - 1)
           /\ \A i \in DOMAIN handlers' : i + 1 \in DOMAIN handlers /\ handlers'[i] = handlers[i + 1]
           /\ \A i \in DOMAIN handlers : i = 1 \/ (i - 1 \in DOMAIN handlers' /\ handlers'[i - 1] = handlers[i])
           /\ 1 \in DOMAIN handlers /\ handlers[1] \in Waiter \cup {Nobody}
           /\ \/ handlers[1] = Nobody /\ UNCHANGED mainq
              \/ \E c \in Completion : /\ mainq' = Append(mainq, c) /\ c.kind = "written"
                                       /\ c.to = handlers[1] /\ c.ok = ok
<1>1. /\ handlers \in Seq(Waiter \cup {Nobody}) /\ Len(handlers) = Len(queue)
      /\ Len(queue) \in Nat \ {0} /\ handlers' = Tail(handlers)
  BY Parts DEF NotifyUser
<1> DEFINE S == Waiter \cup {Nobody}
<1>2. handlers \in Seq(S) /\ handlers # <<>>
  BY <1>1
<1> HIDE DEF S
<1>3. /\ handlers' \in Seq(S) /\ Len(handlers') = Len(queue) - 1
      /\ DOMAIN handlers' = 1..(Len(queue) - 1) /\ DOMAIN handlers = 1..Len(queue)
      /\ \A i \in 1..(Len(queue) - 1) : i + 1 \in 1..Len(queue) /\ handlers'[i] = handlers[i + 1]
      /\ Head(handlers) = handlers[1] /\ 1 \in DOMAIN handlers /\ handlers[1] \in S
  BY <1>1, <1>2
<1>4. \A i \in 1..Len(queue) : i = 1 \/ (i - 1 \in 1..(Len(queue) - 1) /\ (i - 1) + 1 = i)
  BY <1>1
<1>5. ASSUME handlers[1] # Nobody
      PROVE  \E c \in Completion : /\ mainq' = Append(mainq, c) /\ c.kind = "written"
                                   /\ c.to = handlers[1] /\ c.ok = ok
  <2> DEFINE c == [kind |-> "written", to |-> Head(handlers), doc |-> Head(queue).doc, ok |-> ok]
  <2>1. Head(queue).doc \in DocId
    <3>1. queue \in Seq(Mutation) /\ queue # <<>>
      BY Parts
    <3>2. Head(queue) \in Mutation
      BY <3>1
    <3> QED
      BY <3>2 DEF Mutation
  <2>2. handlers[1] \in Waiter
    BY <1>3, <1>5 DEF S
  <2>3. c \in [kind : {"written"}, to : Waiter, doc : DocId, ok : BOOLEAN]
    BY <1>3, <2>1, <2>2
  <2>4. c \in Completion /\ mainq' = Append(mainq, c)
    BY <1>3, <1>5, <2>3 DEF NotifyUser, Completion
  <2> QED
    BY <1>3, <2>4
<1>6. handlers[1] = Nobody => UNCHANGED mainq
  BY <1>3 DEF NotifyUser
<1> QED
  BY <1>3, <1>4, <1>5, <1>6 DEF S

\* Good news of the only mutation that is left is news of what is stored.
LEMMA LastIsStored ==
    ASSUME IInv, sent > 0, Len(queue) = 1
    PROVE  server[me].profile = queue[1].write.profile
<1>1. queue \in Seq(Updates) /\ sent = 1 /\ Holds(server, queue, sent, me, "profile")
  BY Parts DEF IInv, StoreInv
<1>2. LastOfFirst(queue, 1, 1, me, "profile")
  <2>1. \A i \in 1..Len(queue) : Writes(queue, i, me, "profile")
    BY <1>1, QueuedUpdates
  <2>2. 1 \in 1..Len(queue)
    OBVIOUS
  <2> QED
    BY <2>1, <2>2 DEF LastOfFirst
<1> QED
  BY <1>1, <1>2 DEF Holds

LEMMA AnsweredStep ==
    ASSUME IInv, queue # <<>>, NEW ok \in BOOLEAN, NotifyUser(ok), ok => sent > 0,
           queue' = Tail(queue), UNCHANGED server, UNCHANGED fetching, UNCHANGED programVars,
           refused' \in BOOLEAN, refused => refused', ~refused' => ok /\ Final' = Final,
           StoreTypeOK', StoreInv'
    PROVE  IInv'
<1>1. UNCHANGED <<signedIn, active, screen, labels, unheard, text, userID, message, asked, typed,
                  early, trap>>
  BY DEF programVars, pageVars, formVars
<1>2. /\ handlers' \in Seq(Waiter \cup {Nobody}) /\ Len(handlers') = Len(queue) - 1
      /\ DOMAIN handlers' = 1..(Len(queue) - 1)
      /\ \A i \in DOMAIN handlers' : i + 1 \in DOMAIN handlers /\ handlers'[i] = handlers[i + 1]
      /\ \A i \in DOMAIN handlers : i = 1 \/ (i - 1 \in DOMAIN handlers' /\ handlers'[i - 1] = handlers[i])
      /\ 1 \in DOMAIN handlers /\ handlers[1] \in Waiter \cup {Nobody}
      /\ \/ handlers[1] = Nobody /\ UNCHANGED mainq
         \/ \E c \in Completion : /\ mainq' = Append(mainq, c) /\ c.kind = "written"
                                  /\ c.to = handlers[1] /\ c.ok = ok
  BY NotifyFacts
<1>3. /\ Len(queue') = Len(queue) - 1 /\ Len(queue) \in Nat \ {0}
      /\ \A i \in 1..(Len(queue) - 1) : queue'[i] = queue[i + 1]
  BY Parts, TailOf
<1>4. /\ mainq' \in Seq(Completion) /\ GoodNews'
      /\ \A i \in DOMAIN mainq : i \in DOMAIN mainq' /\ mainq'[i] = mainq[i]
      /\ \A w : w # handlers[1] => SameFor(mainq, mainq', w)
      /\ handlers[1] # Nobody => \E i \in DOMAIN mainq' : mainq'[i].to = handlers[1]
      /\ handlers[1] # Nobody =>
            /\ ~NoneIn(mainq', handlers[1])
            /\ \A i : LatestIn(mainq', i, handlers[1]) => mainq'[i].ok = ok
  <2>1. CASE handlers[1] = Nobody /\ UNCHANGED mainq
    BY <2>1, Parts, SameAnswers
  <2>2. CASE \E c \in Completion : /\ mainq' = Append(mainq, c) /\ c.kind = "written"
                                   /\ c.to = handlers[1] /\ c.ok = ok
    <3>1. PICK c \in Completion : /\ mainq' = Append(mainq, c) /\ c.kind = "written"
                                  /\ c.to = handlers[1] /\ c.ok = ok
      BY <2>2
    <3>2. /\ mainq' \in Seq(Completion) /\ GoodNews'
          /\ \A i \in DOMAIN mainq : i \in DOMAIN mainq' /\ mainq'[i] = mainq[i]
          /\ \E i \in DOMAIN mainq' : mainq'[i] = c
          /\ \A w : c.to # w => SameFor(mainq, mainq', w)
      BY <3>1, AnswersAppend
    <3>3. /\ \A i : LatestIn(mainq', i, c.to) => mainq'[i] = c
          /\ ~NoneIn(mainq', c.to)
      BY <3>1, Parts, LatestAppend
    <3> QED
      BY <3>1, <3>2, <3>3
  <2> QED
    BY <1>2, <2>1, <2>2
<1>5. TypeOK'
  <2>1. ScreensOK
    BY ScreensTyped
  <2>2. /\ signedIn' \in BOOLEAN /\ active' \in BOOLEAN /\ userID' \in BOOLEAN /\ trap' \in BOOLEAN
        /\ early' \in BOOLEAN /\ unheard' \in BOOLEAN
    BY <1>1, <2>1, Zenon DEF ScreensOK
  <2>3. ScreensOK'
    BY <1>1, <2>1, <2>2 DEF ScreensOK
  <2>4. fetching' \in [Requester -> Nat]
    BY Parts
  <2> QED
    BY <1>2, <1>3, <1>4, <2>3, <2>4, Typed
<1>6. FormLoadsOnce'
  <2>1. SameFor(mainq, mainq', "form")
    BY <1>2, <1>4, Names DEF Nobody
  <2> QED
    BY <1>1, <2>1 DEF IInv, FormInv, FormLoadsOnce, SameFor
<1>7. UpdatesLast'
  <2>1. screen # "form" => NoneIn(mainq', "update") /\ ~Queued("update")'
    <3> SUFFICES ASSUME screen # "form" PROVE NoneIn(mainq', "update") /\ ~Queued("update")'
      OBVIOUS
    <3>1. NoneIn(mainq, "update") /\ ~Queued("update")
      BY DEF IInv, FormInv, UpdatesLast
    <3>2. SameFor(mainq, mainq', "update")
      BY <1>2, <1>4, <3>1 DEF Queued
    <3> QED
      BY <1>2, <3>1, <3>2 DEF SameFor, Queued
  <2>2. \A i, j \in DOMAIN handlers' : i < j /\ handlers'[i] = "update" => handlers'[j] = "update"
    <3> SUFFICES ASSUME NEW i \in DOMAIN handlers', NEW j \in DOMAIN handlers',
                        i < j, handlers'[i] = "update"
                 PROVE  handlers'[j] = "update"
      OBVIOUS
    <3>1. i + 1 < j + 1
      BY <1>2, <1>3
    <3> QED
      BY <1>2, <3>1 DEF IInv, FormInv, UpdatesLast
  <2> QED
    BY <1>1, <2>1, <2>2 DEF UpdatesLast
<1>8. EnteredIsQueued'
  <2> SUFFICES ASSUME screen = "form", ~early
               PROVE  /\ typed # Nil => userID /\ text = typed
                      /\ \A i \in DOMAIN handlers' :
                            i = Len(handlers') /\ handlers'[i] = "update" => queue'[i].write.profile = asked
    BY <1>1 DEF EnteredIsQueued
  <2>1. /\ typed # Nil => userID /\ text = typed
        /\ \A i \in DOMAIN handlers :
              i = Len(handlers) /\ handlers[i] = "update" => queue[i].write.profile = asked
    BY DEF IInv, FormInv, EnteredIsQueued
  <2>2. ASSUME NEW i \in DOMAIN handlers', i = Len(handlers'), handlers'[i] = "update"
        PROVE  queue'[i].write.profile = asked
    <3>1. i + 1 = Len(handlers) /\ queue'[i] = queue[i + 1]
      BY <1>2, <1>3, <2>2, Parts
    <3> QED
      BY <1>2, <2>1, <2>2, <3>1
  <2> QED
    BY <2>1, <2>2
<1>9. NewsIsTrue'
  <2> SUFFICES ASSUME screen = "form", ~early, ~Queued("update")'
               PROVE  /\ \A i : LatestIn(mainq', i, "update") /\ mainq'[i].ok => EnteredIsStored'
                      /\ NoneIn(mainq', "update") /\ message' = "saved" => EnteredIsStored'
    BY <1>1 DEF NewsIsTrue
  <2>1. CASE handlers[1] = "update"
    <3>1. Len(queue) = 1
      <4> SUFFICES ASSUME Len(queue) # 1 PROVE FALSE
        OBVIOUS
      <4>1. 1 \in DOMAIN handlers' /\ 1 < 1 + 1
        BY <1>2, <1>3
      <4>2. 1 + 1 \in DOMAIN handlers /\ handlers'[1] = handlers[1 + 1]
        BY <1>2, <4>1
      <4>3. handlers'[1] = "update"
        BY <1>2, <2>1, <4>1, <4>2 DEF IInv, FormInv, UpdatesLast
      <4> QED
        BY <4>1, <4>3 DEF Queued
    <3>2. queue' = <<>>
      BY <3>1, Parts
    <3>3. queue[1].write.profile = asked
      BY <1>2, <2>1, <3>1, Parts DEF IInv, FormInv, EnteredIsQueued
    <3>4. ok => EnteredIsStored'
      BY <1>1, <3>1, <3>2, <3>3, LastIsStored DEF EnteredIsStored
    <3>5. "update" # Nobody
      BY DEF Nobody
    <3> QED
      BY <1>4, <2>1, <3>4, <3>5
  <2>2. CASE handlers[1] # "update"
    <3>1. ~Queued("update")
      BY <1>2, <2>2 DEF Queued
    <3>2. /\ \A i : ~(LatestIn(mainq, i, "update") /\ mainq[i].ok)
          /\ ~(NoneIn(mainq, "update") /\ message = "saved")
      BY <3>1 DEF IInv, FormInv, NewsIsTrue, EnteredIsStored
    <3>3. SameFor(mainq, mainq', "update")
      BY <1>4, <2>2
    <3> QED
      BY <1>1, <3>2, <3>3 DEF SameFor
  <2> QED
    BY <2>1, <2>2
<1>10. PageInv'
  <2>1. Reloads => Reloads'
    <3>1. ASSUME NEW i \in DOMAIN handlers, handlers[i] \in Telling PROVE Reloads'
      <4>1. CASE i = 1
        <5>1. handlers[1] # Nobody
          BY <3>1, <4>1 DEF Telling, Nobody
        <5> QED
          BY <1>4, <3>1, <4>1, <5>1 DEF Reloads
      <4>2. CASE i # 1
        BY <1>2, <3>1, <4>2 DEF Reloads
      <4> QED
        BY <4>1, <4>2
    <3> QED
      BY <1>4, <3>1 DEF Reloads
  <2>2. SameFor(mainq, mainq', "page")
    BY <1>2, <1>4, Names DEF Nobody
  <2> QED
    BY <1>1, <1>4, <2>1, <2>2, PageKept DEF Alive, pageVars
<1> QED
  BY <1>5, <1>6, <1>7, <1>8, <1>9, <1>10 DEF IInv, FormInv

LEMMA UpdateConfirmedStep == ASSUME IInv, UpdateConfirmed PROVE IInv'
<1>1. /\ UNCHANGED fetching /\ UNCHANGED programVars
      /\ refused' = (refused \/ sent = 0) /\ WriteAnswered
  BY DEF UpdateConfirmed, WriteAnswered
<1>2. refused' \in BOOLEAN /\ (refused => refused')
  BY <1>1
<1>3. CASE Acknowledge /\ NotifyUser(TRUE)
  <2>1. StoreTypeOK' /\ StoreInv' /\ Final' = Final
    BY <1>2, <1>3, AcknowledgeStep
  <2>2. queue # <<>> /\ queue' = Tail(queue) /\ UNCHANGED server /\ sent > 0
    BY <1>3, Parts DEF Acknowledge
  <2> QED
    BY <1>1, <1>2, <1>3, <2>1, <2>2, AnsweredStep
<1>4. CASE Reject /\ NotifyUser(FALSE)
  <2>1. queue # <<>> /\ queue' = Tail(queue) /\ UNCHANGED server /\ refused'
    BY <1>1, <1>4 DEF Reject
  <2>2. StoreTypeOK' /\ StoreInv'
    BY <1>4, <2>1, RejectStep
  <2> QED
    BY <1>1, <1>2, <1>4, <2>1, <2>2, AnsweredStep
<1> QED
  BY <1>1, <1>3, <1>4 DEF WriteAnswered

LEMMA StreamStep == ASSUME IInv, StreamWorks PROVE IInv'
<1>1. /\ UNCHANGED <<fetching, handlers, mainq>> /\ UNCHANGED refused
      /\ UNCHANGED <<signedIn, active, screen, labels, unheard, text, userID, message, asked,
                     typed, early, trap>>
      /\ Deliver \/ Reconnect
  BY DEF StreamWorks, WriteStream, callVars, programVars, pageVars, formVars
<1>2. /\ StoreTypeOK' /\ StoreInv' /\ Final' = Final /\ UNCHANGED queue
      /\ server' = server \/ queue # <<>>
  <2>1. CASE Deliver
    BY <1>1, <2>1, Parts, DeliverStep DEF Deliver
  <2>2. CASE Reconnect
    <3>1. StartsOver
      BY <2>2 DEF Reconnect, StartsOver
    <3> QED
      BY <1>1, <3>1, StartsOverStep DEF StartsOver
  <2> QED
    BY <1>1, <2>1, <2>2
<1>3. TypeOK'
  <2>1. ScreensOK
    BY ScreensTyped
  <2>2. /\ signedIn' \in BOOLEAN /\ active' \in BOOLEAN /\ userID' \in BOOLEAN /\ trap' \in BOOLEAN
        /\ early' \in BOOLEAN /\ unheard' \in BOOLEAN /\ refused' \in BOOLEAN
    BY <1>1, <2>1, Zenon DEF ScreensOK
  <2>3. ScreensOK'
    BY <1>1, <2>1, <2>2 DEF ScreensOK
  <2> QED
    BY <1>1, <1>2, <2>3, Parts, Typed
<1>4. GoodNews' /\ \A w : SameFor(mainq, mainq', w)
  BY <1>1, SameAnswers
<1>5. FormInv'
  <2>1. UNCHANGED formVars /\ fetching'["form"] = fetching["form"]
    BY <1>1 DEF formVars
  <2> QED
    BY <1>1, <1>2, <1>4, <2>1, FormQuiet
<1>6. PageInv'
  <2>1. Reloads => Reloads'
    BY <1>1 DEF Reloads
  <2> QED
    BY <1>1, <1>2, <1>4, <2>1, PageKept DEF Alive, pageVars
<1> QED
  BY <1>2, <1>3, <1>5, <1>6 DEF IInv

-----------------------------------------------------------------------------
(***************************************************************************)
(* What the main queue does, and the process.                              *)
(***************************************************************************)

LEMMA AfterHandler ==
    ASSUME IInv, MainQueueRuns, mainq' = Tail(mainq)
    PROVE  /\ StoreTypeOK' /\ StoreInv' /\ Final' = Final /\ UNCHANGED <<queue, server>>
           /\ UNCHANGED <<signedIn, active, refused>> /\ Alive
           /\ mainq' \in Seq(Completion) /\ GoodNews'
           /\ Head(mainq) \in Completion /\ Head(mainq) = mainq[1] /\ 1 \in DOMAIN mainq
           /\ \A i \in DOMAIN mainq : i = 1 \/ (i - 1 \in DOMAIN mainq' /\ mainq'[i - 1] = mainq[i])
           /\ \A w : Head(mainq).to # w => SameFor(mainq, mainq', w)
<1>1. UNCHANGED storeVars /\ UNCHANGED <<signedIn, active, refused>> /\ Alive /\ mainq # <<>>
  BY DEF MainQueueRuns
<1>2. /\ StoreTypeOK' /\ StoreInv' /\ Final' = Final
  BY <1>1, StoreKept
<1>3. UNCHANGED <<queue, server>>
  BY <1>1 DEF storeVars
<1>4. /\ mainq' \in Seq(Completion) /\ GoodNews'
      /\ Head(mainq) \in Completion /\ Head(mainq) = mainq[1] /\ 1 \in DOMAIN mainq
      /\ \A i \in DOMAIN mainq : i = 1 \/ (i - 1 \in DOMAIN mainq' /\ mainq'[i - 1] = mainq[i])
      /\ \A w : Head(mainq).to # w => SameFor(mainq, mainq', w)
  BY <1>1, AnswersTail
<1> QED
  BY <1>1, <1>2, <1>3, <1>4

\* The profile that a snapshot brings.
LEMMA LastProfile ==
    ASSUME NEW c \in Completion, c.kind = "snapshot", c.docs # <<>>
    PROVE  Last(c.docs).data.profile \in Profile \cup {Nil}
<1>1. c.docs \in Seq(Snapshot)
  BY CompletionKinds
<1>2. Last(c.docs) \in Snapshot
  <2>1. Len(c.docs) \in 1..Len(c.docs)
    BY <1>1
  <2> QED
    BY <1>1, <2>1 DEF Last
<1> QED
  BY <1>2, Names DEF Snapshot, Document

LEMMA PageLoadedStep == ASSUME IInv, MainQueueRuns, PageLoaded PROVE IInv'
<1>1. /\ UNCHANGED <<fetching, handlers, screen, formVars, trap>> /\ mainq' = Tail(mainq)
      /\ Head(mainq).to = "page"
  BY DEF PageLoaded
<1>2. /\ StoreTypeOK' /\ StoreInv' /\ Final' = Final /\ UNCHANGED <<queue, server>>
      /\ UNCHANGED <<signedIn, active, refused>> /\ Alive
      /\ mainq' \in Seq(Completion) /\ GoodNews'
      /\ Head(mainq) \in Completion /\ Head(mainq) = mainq[1] /\ 1 \in DOMAIN mainq
      /\ \A i \in DOMAIN mainq : i = 1 \/ (i - 1 \in DOMAIN mainq' /\ mainq'[i - 1] = mainq[i])
      /\ \A w : Head(mainq).to # w => SameFor(mainq, mainq', w)
  BY <1>1, AfterHandler
<1>3. \/ /\ Head(mainq).kind = "snapshot" /\ Head(mainq).docs # <<>>
         /\ labels' = Last(Head(mainq).docs).data.profile /\ UNCHANGED unheard
      \/ /\ ~(Head(mainq).kind = "snapshot" /\ Head(mainq).docs # <<>>)
         /\ unheard' = TRUE /\ UNCHANGED labels
  BY DEF PageLoaded
<1>4. TypeOK'
  <2>1. ScreensOK
    BY ScreensTyped
  <2>2. UNCHANGED <<text, userID, message, asked, typed, early>>
    BY <1>1 DEF formVars
  <2>3. /\ signedIn' \in BOOLEAN /\ active' \in BOOLEAN /\ userID' \in BOOLEAN /\ trap' \in BOOLEAN
        /\ early' \in BOOLEAN /\ refused' \in BOOLEAN
    BY <1>1, <1>2, <2>1, <2>2, Zenon DEF ScreensOK
  <2>4. unheard' \in BOOLEAN
    BY <1>3, <2>1 DEF ScreensOK
  <2>5. labels' \in Profile \cup {Nil}
    BY <1>2, <1>3, <2>1, LastProfile DEF ScreensOK
  <2>6. ScreensOK'
    BY <1>1, <2>1, <2>2, <2>3, <2>4, <2>5 DEF ScreensOK
  <2> QED
    BY <1>1, <1>2, <2>6, Parts, Typed
<1>5. FormInv'
  BY <1>1, <1>2, FormQuiet
<1>6. PageInv'
  <2>1. Alive' /\ screen' # "home" => signedIn'
    BY <1>1, <1>2 DEF IInv, PageInv
  <2>2. ASSUME Alive', screen' # "home", ~refused' PROVE Reloads' \/ PageHears'
    <3>1. Reloads \/ PageHears
      BY <1>1, <1>2, <2>2 DEF IInv, PageInv
    <3>2. CASE Reloads
      <4>1. \A i \in DOMAIN mainq : mainq[i].to \in Telling => i # 1
        BY <1>1, <1>2 DEF Telling
      <4> QED
        BY <1>1, <1>2, <3>2, <4>1 DEF Reloads
    <3>3. CASE PageHears
      <4>1. /\ \A i : LatestIn(mainq', i, "page")
                       => LatestIn(mainq, i + 1, "page") /\ mainq[i + 1] = mainq'[i]
            /\ NoneIn(mainq', "page") => NoneIn(mainq, "page") \/ LatestIn(mainq, 1, "page")
        <5>1. mainq \in Seq(Completion) /\ mainq # <<>>
          BY Parts DEF MainQueueRuns
        <5> QED
          BY <1>1, <5>1, HeardTail
      <4>2. \A i : LatestIn(mainq', i, "page") => Right(mainq[i])'
        BY <1>2, <3>3, <4>1 DEF PageHears, Right
      <4>3. ~NoneIn(mainq, "page")
        BY <1>1, <1>2 DEF NoneIn
      <4>4. NoneIn(mainq', "page") => Right(Head(mainq))
        BY <1>2, <3>3, <4>1, <4>3 DEF PageHears
      <4>5. NoneIn(mainq', "page") => unheard' \/ labels' = Final'
        BY <1>2, <1>3, <4>4 DEF Right
      <4> QED
        BY <4>2, <4>5 DEF PageHears
    <3> QED
      BY <3>1, <3>2, <3>3
  <2> QED
    BY <1>2, <2>1, <2>2 DEF PageInv
<1> QED
  BY <1>2, <1>4, <1>5, <1>6 DEF IInv

LEMMA FormLoadedStep == ASSUME IInv, MainQueueRuns, FormLoaded PROVE IInv'
<1>1. /\ UNCHANGED <<fetching, handlers, screen, pageVars, asked, typed, early, trap>>
      /\ mainq' = Tail(mainq) /\ Head(mainq).to = "form"
  BY DEF FormLoaded
<1>2. /\ StoreTypeOK' /\ StoreInv' /\ Final' = Final /\ UNCHANGED <<queue, server>>
      /\ UNCHANGED <<signedIn, active, refused>> /\ Alive
      /\ mainq' \in Seq(Completion) /\ GoodNews'
      /\ Head(mainq) \in Completion /\ Head(mainq) = mainq[1] /\ 1 \in DOMAIN mainq
      /\ \A i \in DOMAIN mainq : i = 1 \/ (i - 1 \in DOMAIN mainq' /\ mainq'[i - 1] = mainq[i])
      /\ \A w : Head(mainq).to # w => SameFor(mainq, mainq', w)
  BY <1>1, AfterHandler
<1>3. \/ /\ Head(mainq).kind = "snapshot"
         /\ userID' = (userID \/ Head(mainq).docs # <<>>)
         /\ text' = (IF Head(mainq).docs = <<>> THEN text ELSE Last(Head(mainq).docs).data.profile)
         /\ UNCHANGED message
      \/ message' = "not loaded" /\ UNCHANGED <<text, userID>>
  BY DEF FormLoaded
<1>4. TypeOK'
  <2>1. ScreensOK
    BY ScreensTyped
  <2>2. UNCHANGED <<labels, unheard>>
    BY <1>1 DEF pageVars
  <2>3. /\ signedIn' \in BOOLEAN /\ active' \in BOOLEAN /\ trap' \in BOOLEAN
        /\ early' \in BOOLEAN /\ refused' \in BOOLEAN /\ unheard' \in BOOLEAN
    BY <1>1, <1>2, <2>1, <2>2, Zenon DEF ScreensOK
  <2>4. userID' \in BOOLEAN
    BY <1>3, <2>1 DEF ScreensOK
  <2>5. text' \in Profile \cup {Nil} /\ message' \in {"", "saved", "not saved", "not loaded"}
    BY <1>2, <1>3, <2>1, LastProfile DEF ScreensOK
  <2>6. ScreensOK'
    BY <1>1, <2>1, <2>2, <2>3, <2>4, <2>5 DEF ScreensOK
  <2> QED
    BY <1>1, <1>2, <2>6, Parts, Typed
<1>5. FormInv'
  <2>1. ~NoneIn(mainq, "form")
    BY <1>1, <1>2 DEF NoneIn
  <2>2. fetching["form"] = 0 /\ ~userID /\ screen = "form" /\ OnceIn(mainq, "form")
    <3>1. fetching["form"] <= 1 /\ fetching["form"] # 1 /\ fetching["form"] \in Nat
      BY <2>1, Parts DEF IInv, FormInv, FormLoadsOnce
    <3> QED
      BY <2>1, <3>1 DEF IInv, FormInv, FormLoadsOnce
  <2>3. OnceIn(mainq', "form") /\ NoneIn(mainq', "form")
    <3>1. mainq \in Seq(Completion) /\ mainq # <<>>
      BY Parts DEF MainQueueRuns
    <3> QED
      BY <1>1, <2>2, <3>1, HeardTail
  <2>4. FormLoadsOnce'
    BY <1>1, <2>2, <2>3 DEF FormLoadsOnce
  <2>5. SameFor(mainq, mainq', "update")
    BY <1>1, <1>2
  <2>6. UpdatesLast'
    BY <1>1, <2>5 DEF IInv, FormInv, UpdatesLast, Queued, SameFor
  <2>7. EnteredIsQueued'
    BY <1>1, <1>2, <2>2 DEF IInv, FormInv, EnteredIsQueued
  <2>8. NewsIsTrue'
    <3> SUFFICES ASSUME screen = "form", ~early, ~Queued("update")
                 PROVE  /\ \A i : LatestIn(mainq', i, "update") /\ mainq'[i].ok => EnteredIsStored'
                        /\ NoneIn(mainq', "update") /\ message' = "saved" => EnteredIsStored'
      BY <1>1 DEF NewsIsTrue, Queued
    <3>1. /\ \A i : LatestIn(mainq, i, "update") /\ mainq[i].ok => EnteredIsStored
          /\ NoneIn(mainq, "update") /\ message = "saved" => EnteredIsStored
      BY DEF IInv, FormInv, NewsIsTrue
    <3>2. EnteredIsStored => EnteredIsStored'
      BY <1>1, <1>2 DEF EnteredIsStored
    <3>3. message' = "saved" => message = "saved"
      BY <1>3
    <3> QED
      BY <2>5, <3>1, <3>2, <3>3 DEF SameFor
  <2> QED
    BY <2>4, <2>6, <2>7, <2>8 DEF FormInv
<1>6. PageInv'
  <2>1. Reloads => Reloads'
    <3>1. \A i \in DOMAIN mainq : mainq[i].to \in Telling => i # 1
      BY <1>1, <1>2 DEF Telling
    <3> QED
      BY <1>1, <1>2, <3>1 DEF Reloads
  <2>2. SameFor(mainq, mainq', "page")
    BY <1>1, <1>2
  <2> QED
    BY <1>1, <1>2, <2>1, <2>2, PageKept DEF Alive
<1> QED
  BY <1>2, <1>4, <1>5, <1>6 DEF IInv

LEMMA UpdateAnsweredStep == ASSUME IInv, MainQueueRuns, UpdateAnswered PROVE IInv'
<1> DEFINE c == Head(mainq)
<1>1. /\ UNCHANGED <<handlers, screen, pageVars, text, userID, asked, typed, early>>
      /\ mainq' = Tail(mainq) /\ c.kind = "written"
      /\ message' = (IF c.to # "update" THEN message
                     ELSE IF c.ok THEN "saved" ELSE "not saved")
      /\ c.ok => trap' = ~signedIn
      /\ c.ok /\ signedIn /\ c.to # "left page" => GetDocuments("page")
      /\ ~c.ok => UNCHANGED trap
      /\ ~(c.ok /\ signedIn /\ c.to # "left page") => UNCHANGED fetching
  BY DEF UpdateAnswered, TellPage
<1>2. /\ StoreTypeOK' /\ StoreInv' /\ Final' = Final /\ UNCHANGED <<queue, server>>
      /\ UNCHANGED <<signedIn, active, refused>> /\ Alive
      /\ mainq' \in Seq(Completion) /\ GoodNews'
      /\ c \in Completion /\ c = mainq[1] /\ 1 \in DOMAIN mainq
      /\ \A i \in DOMAIN mainq : i = 1 \/ (i - 1 \in DOMAIN mainq' /\ mainq'[i - 1] = mainq[i])
      /\ \A w : c.to # w => SameFor(mainq, mainq', w)
  BY <1>1, AfterHandler
<1> HIDE DEF c
<1>3. c.to \in Waiter /\ c.ok \in BOOLEAN /\ c.to # "page" /\ c.to # "form"
  BY <1>1, <1>2, CompletionKinds, Names
<1>4. /\ fetching' \in [Requester -> Nat] /\ fetching'["form"] = fetching["form"]
      /\ fetching'["page"] >= fetching["page"]
      /\ c.ok /\ signedIn /\ c.to # "left page" => fetching'["page"] > 0
  <2>1. "page" \in Requester /\ "form" \in Requester /\ fetching \in [Requester -> Nat]
    BY Parts, Names
  <2>2. CASE c.ok /\ signedIn /\ c.to # "left page"
    <3>1. /\ fetching' \in [Requester -> Nat] /\ fetching'["page"] = fetching["page"] + 1
          /\ fetching'["form"] = fetching["form"]
      BY <1>1, <2>1, <2>2, OneMoreCall
    <3>2. fetching["page"] \in Nat
      BY <2>1
    <3>3. fetching'["page"] >= fetching["page"] /\ fetching'["page"] > 0
      BY <3>1, <3>2
    <3> QED
      BY <3>1, <3>3, Zenon
  <2>3. CASE ~(c.ok /\ signedIn /\ c.to # "left page")
    <3>1. fetching' = fetching
      BY <1>1, <2>3
    <3>2. fetching["page"] \in Nat
      BY <2>1
    <3>3. fetching'["page"] >= fetching["page"]
      BY <3>1, <3>2
    <3> QED
      BY <2>1, <2>3, <3>1, <3>3, Zenon
  <2> QED
    BY <2>2, <2>3
<1>5. TypeOK'
  <2>1. ScreensOK
    BY ScreensTyped
  <2>2. UNCHANGED <<labels, unheard>>
    BY <1>1 DEF pageVars
  <2>3. /\ signedIn' \in BOOLEAN /\ active' \in BOOLEAN /\ userID' \in BOOLEAN
        /\ early' \in BOOLEAN /\ refused' \in BOOLEAN /\ unheard' \in BOOLEAN
    BY <1>1, <1>2, <2>1, <2>2, Zenon DEF ScreensOK
  <2>4. trap' \in BOOLEAN
    BY <1>1, <2>1 DEF ScreensOK
  <2>5. message' \in {"", "saved", "not saved", "not loaded"}
    BY <1>1, <2>1 DEF ScreensOK
  <2>6. ScreensOK'
    BY <1>1, <2>1, <2>2, <2>3, <2>4, <2>5 DEF ScreensOK
  <2> QED
    BY <1>1, <1>2, <1>4, <2>6, Parts, Typed
<1>6. FormInv'
  <2>1. FormLoadsOnce'
    <3>1. SameFor(mainq, mainq', "form")
      BY <1>2, <1>3
    <3> QED
      BY <1>1, <1>4, <3>1 DEF IInv, FormInv, FormLoadsOnce, SameFor
  <2>2. UpdatesLast'
    <3>1. screen # "form" => c.to # "update"
      BY <1>2 DEF IInv, FormInv, UpdatesLast, NoneIn
    <3>2. screen # "form" => NoneIn(mainq', "update")
      BY <1>2, <3>1 DEF IInv, FormInv, UpdatesLast, SameFor
    <3> QED
      BY <1>1, <3>2 DEF IInv, FormInv, UpdatesLast, Queued
  <2>3. EnteredIsQueued'
    BY <1>1, <1>2 DEF IInv, FormInv, EnteredIsQueued
  <2>4. NewsIsTrue'
    <3> SUFFICES ASSUME screen = "form", ~early, ~Queued("update")
                 PROVE  /\ \A i : LatestIn(mainq', i, "update") /\ mainq'[i].ok => EnteredIsStored'
                        /\ NoneIn(mainq', "update") /\ message' = "saved" => EnteredIsStored'
      BY <1>1 DEF NewsIsTrue, Queued
    <3>1. /\ \A i : LatestIn(mainq, i, "update") /\ mainq[i].ok => EnteredIsStored
          /\ NoneIn(mainq, "update") /\ message = "saved" => EnteredIsStored
      BY DEF IInv, FormInv, NewsIsTrue
    <3>2. EnteredIsStored => EnteredIsStored'
      BY <1>1, <1>2 DEF EnteredIsStored
    <3>3. CASE c.to = "update"
      <4>1. mainq \in Seq(Completion) /\ mainq # <<>>
        BY Parts DEF MainQueueRuns
      <4>2. /\ \A i : LatestIn(mainq', i, "update")
                       => LatestIn(mainq, i + 1, "update") /\ mainq[i + 1] = mainq'[i]
            /\ NoneIn(mainq', "update") => NoneIn(mainq, "update") \/ LatestIn(mainq, 1, "update")
        BY <1>1, <4>1, HeardTail
      <4>3. ~NoneIn(mainq, "update")
        BY <1>2, <3>3 DEF NoneIn
      <4>4. message' = "saved" => mainq[1].ok
        BY <1>1, <1>2, <3>3
      <4> QED
        BY <3>1, <3>2, <4>2, <4>3, <4>4
    <3>4. CASE c.to # "update"
      BY <1>1, <1>2, <3>1, <3>2, <3>4 DEF SameFor
    <3> QED
      BY <3>3, <3>4
  <2> QED
    BY <2>1, <2>2, <2>3, <2>4 DEF FormInv
<1>7. PageInv'
  <2>1. Alive' /\ screen' # "home" => signedIn'
    BY <1>1, <1>2 DEF IInv, PageInv
  <2>2. CASE refused
    BY <1>2, <2>1, <2>2 DEF PageInv
  <2>3. CASE screen = "home"
    BY <1>1, <1>2, <2>1, <2>3 DEF PageInv
  <2>4. CASE ~refused /\ screen # "home"
    <3>1. c.ok /\ signedIn
      BY <1>1, <1>2, <2>4 DEF IInv, PageInv, GoodNews
    <3>2. CASE c.to = "left page"
      <4>1. Reloads => Reloads'
        <5>1. \A i \in DOMAIN mainq : mainq[i].to \in Telling => i # 1
          BY <1>2, <3>2 DEF Telling
        <5>2. fetching["page"] > 0 => fetching'["page"] > 0
          <6>1. fetching["page"] \in Nat /\ fetching'["page"] \in Nat
            BY <1>4, Parts, Names
          <6>2. fetching'["page"] >= fetching["page"]
            BY <1>4
          <6> QED
            BY <6>1, <6>2
        <5> QED
          BY <1>1, <1>2, <5>1, <5>2 DEF Reloads
      <4>2. SameFor(mainq, mainq', "page")
        BY <1>2, <1>3
      <4> QED
        BY <1>1, <1>2, <2>4, <4>1, <4>2, PageKept
    <3>3. CASE c.to # "left page"
      <4>1. Reloads'
        BY <1>4, <3>1, <3>3 DEF Reloads
      <4> QED
        BY <1>2, <2>1, <4>1 DEF PageInv
    <3> QED
      BY <3>2, <3>3
  <2> QED
    BY <2>2, <2>3, <2>4
<1> QED
  BY <1>2, <1>5, <1>6, <1>7 DEF IInv

LEMMA MainQueueStep == ASSUME IInv, MainQueueRuns PROVE IInv'
BY PageLoadedStep, FormLoadedStep, UpdateAnsweredStep DEF MainQueueRuns

LEMMA RestartStep == ASSUME IInv, Restart PROVE IInv'
<1>1. /\ UNCHANGED storeVars /\ fetching' = [r \in Requester |-> 0]
      /\ handlers' = [i \in DOMAIN handlers |-> Nobody] /\ mainq' = <<>>
      /\ active' = signedIn /\ screen' = "home" /\ trap' = FALSE
      /\ labels' = Nil /\ unheard' = FALSE
      /\ text' = Nil /\ userID' = FALSE /\ message' = ""
      /\ asked' = Nil /\ typed' = Nil /\ early' = FALSE
      /\ UNCHANGED <<signedIn, refused>>
  BY DEF Restart, ProcessEnds, NewForm
<1>2. mainq' \in Seq(Completion) /\ DOMAIN mainq' = {}
  <2>1. mainq' = <<>>
    BY DEF Restart, ProcessEnds
  <2> QED
    BY <2>1
<1>3. StoreTypeOK' /\ StoreInv' /\ UNCHANGED queue
  BY <1>1, StoreKept DEF storeVars
<1>4. /\ handlers' \in Seq(Waiter \cup {Nobody}) /\ Len(handlers') = Len(queue)
      /\ \A i \in DOMAIN handlers' : handlers'[i] = Nobody
  <2> DEFINE S == Waiter \cup {Nobody}
  <2>1. /\ handlers' \in [1..Len(queue) -> S] /\ Len(queue) \in Nat
        /\ \A i \in DOMAIN handlers' : handlers'[i] = Nobody
    BY <1>1, Parts
  <2> HIDE DEF S
  <2>2. handlers' \in Seq(S) /\ Len(handlers') = Len(queue)
    BY <2>1
  <2> QED
    BY <2>1, <2>2 DEF S
<1>5. TypeOK'
  <2>1. ScreensOK
    BY ScreensTyped
  <2>2. signedIn' \in BOOLEAN /\ active' \in BOOLEAN /\ refused' \in BOOLEAN
    BY <1>1, <2>1, Zenon DEF ScreensOK
  <2>3. ScreensOK'
    BY <1>1, <2>2 DEF ScreensOK
  <2>4. fetching' \in [Requester -> Nat]
    BY <1>1
  <2> QED
    BY <1>3, <1>4, <1>2, <2>3, <2>4, Typed
<1>6. FormInv'
  <2>1. fetching'["form"] = 0
    BY <1>1, Names
  <2>2. ~Queued("update")'
    BY <1>4 DEF Queued, Nobody
  <2>3. screen' # "form" /\ NoneIn(mainq', "form") /\ NoneIn(mainq', "update")
    BY <1>1, <1>2 DEF NoneIn
  <2> QED
    BY <2>1, <2>2, <2>3, FormAway
<1>7. PageInv'
  BY <1>1, <1>2 DEF PageInv, GoodNews
<1> QED
  BY <1>3, <1>5, <1>6, <1>7 DEF IInv

-----------------------------------------------------------------------------
(***************************************************************************)
(* The theorems.                                                           *)
(***************************************************************************)

LEMMA InitStep == Init => IInv
<1> SUFFICES ASSUME Init PROVE IInv
  OBVIOUS
<1>1. /\ server = [d \in DocId |-> [profile |-> stored]]
      /\ cache = [d \in DocId |-> NoDoc]
      /\ queue = <<>> /\ sent = 0 /\ synced = [d \in DocId |-> 0]
      /\ fetching = [r \in Requester |-> 0] /\ handlers = <<>>
      /\ signedIn = TRUE /\ active = TRUE /\ screen = "home"
      /\ labels = Nil /\ unheard = FALSE
      /\ text = Nil /\ userID = FALSE /\ message = ""
      /\ asked = Nil /\ typed = Nil /\ early = FALSE
      /\ trap = FALSE /\ refused = FALSE
  BY DEF Init, CallsInit
<1>2. mainq \in Seq(Completion) /\ DOMAIN mainq = {}
  <2>1. mainq = <<>>
    BY DEF Init, CallsInit
  <2> QED
    BY <2>1
<1>3. /\ server \in [DocId -> Document] /\ server[me].profile = stored
      /\ cache \in [DocId -> Document] /\ cache[me].profile = Nil
  <2>1. [profile |-> stored] \in Document /\ [profile |-> stored].profile = stored
    <3>1. stored \in Profile
      BY Names
    <3>2. [profile |-> stored] \in [{"profile"} -> Profile]
      BY <3>1
    <3> QED
      BY <3>2, Names DEF Document
  <2>2. NoDoc \in Document /\ NoDoc.profile = Nil
    BY Names DEF NoDoc, Document
  <2> QED
    BY <1>1, <2>1, <2>2, Names
<1>4. /\ queue = <<>> /\ queue \in Seq(Mutation) /\ queue \in Seq(Updates) /\ Len(queue) = 0
      /\ handlers \in Seq(Waiter \cup {Nobody}) /\ Len(handlers) = 0 /\ DOMAIN handlers = {}
  <2>1. queue = <<>> /\ handlers = <<>>
    BY DEF Init, CallsInit
  <2> QED
    BY <2>1
<1>5. StoreTypeOK
  <2>1. sent = 0 /\ synced = [d \in DocId |-> 0]
    BY <1>1
  <2>2. sent \in 0..Len(queue) /\ synced \in [DocId -> 0..sent]
    BY <1>4, <2>1
  <2> QED
    BY <1>3, <1>4, <2>2 DEF StoreTypeOK
<1>6. StoreInv
  <2>1. /\ Holds(server, queue, sent, me, "profile")
        /\ Holds(cache, queue, synced[me], me, "profile")
    <3>1. sent = 0 /\ synced[me] = 0
      BY <1>1, Names
    <3> QED
      BY <1>4, <3>1, HoldsNone
  <2> QED
    BY <1>3, <1>4, <2>1, Names DEF StoreInv
<1>7. TypeOK
  <2>1. fetching \in [Requester -> Nat]
    BY <1>1
  <2>2. CallsTypeOK
    BY <1>2, <1>4, <1>5, <2>1 DEF CallsTypeOK
  <2> QED
    BY <1>1, <2>2 DEF TypeOK
<1>8. FormInv
  <2>1. fetching["form"] = 0 /\ screen = "home" /\ ~userID
    BY <1>1, Names
  <2> QED
    BY <1>2, <1>4, <2>1
       DEF FormInv, FormLoadsOnce, UpdatesLast, EnteredIsQueued, NewsIsTrue, NoneIn, OnceIn, Queued
<1>9. PageInv
  BY <1>1, <1>2 DEF PageInv, GoodNews
<1> QED
  BY <1>6, <1>7, <1>8, <1>9 DEF IInv

LEMMA StutterStep == ASSUME IInv, UNCHANGED vars PROVE IInv'
<1>1. /\ UNCHANGED storeVars /\ UNCHANGED <<fetching, handlers, mainq>> /\ UNCHANGED refused
      /\ UNCHANGED <<signedIn, active, screen, labels, unheard, text, userID, message, asked,
                     typed, early, trap>>
  BY DEF vars, callVars, pageVars, formVars
<1>2. StoreTypeOK' /\ StoreInv' /\ Final' = Final /\ UNCHANGED <<queue, server>>
  BY <1>1, StoreKept DEF storeVars
<1>3. TypeOK'
  <2>1. ScreensOK
    BY ScreensTyped
  <2>2. /\ signedIn' \in BOOLEAN /\ active' \in BOOLEAN /\ userID' \in BOOLEAN /\ trap' \in BOOLEAN
        /\ early' \in BOOLEAN /\ unheard' \in BOOLEAN /\ refused' \in BOOLEAN
    BY <1>1, <2>1, Zenon DEF ScreensOK
  <2>3. ScreensOK'
    BY <1>1, <2>1, <2>2 DEF ScreensOK
  <2> QED
    BY <1>1, <1>2, <2>3, Parts, Typed
<1>4. GoodNews' /\ \A w : SameFor(mainq, mainq', w)
  BY <1>1, SameAnswers
<1>5. FormInv'
  BY <1>1, <1>2, <1>4, FormQuiet DEF formVars
<1>6. PageInv'
  <2>1. Reloads => Reloads'
    BY <1>1 DEF Reloads
  <2> QED
    BY <1>1, <1>2, <1>4, <2>1, PageKept DEF Alive, pageVars
<1> QED
  BY <1>2, <1>3, <1>5, <1>6 DEF IInv

LEMMA NextStep == IInv /\ [Next]_vars => IInv'
<1> SUFFICES ASSUME IInv, [Next]_vars PROVE IInv'
  OBVIOUS
<1>1. CASE UserActs
  BY <1>1, OpenPageStep, LogOutStep, SignInStep, OpenFormStep, LeaveFormStep, UpdateTappedStep,
     TypeStep DEF UserActs
<1>2. CASE ClientActs
  BY <1>2, LoadStep, UpdateConfirmedStep, StreamStep, CredentialsStep, MainQueueStep
     DEF ClientActs
<1> QED
  BY <1>1, <1>2, RestartStep, StutterStep DEF Next

LEMMA Invariant == Spec => []IInv
BY InitStep, NextStep, PTL DEF Spec

(***************************************************************************)
(* The page, the form, the account's documents and the calls between them  *)
(* have their types, whatever becomes of the calls while the customer logs *)
(* out or the form goes away.                                              *)
(***************************************************************************)
THEOREM TypeCorrect == Spec => []TypeOK
<1>1. IInv => TypeOK
  BY DEF IInv
<1> QED
  BY <1>1, Invariant, PTL

(***************************************************************************)
(* EditAccountViewController.updateButtonTapped: when the form says that   *)
(* all the changes have been saved, the server holds what the user had     *)
(* entered, however many updates, broken streams, refusals and earlier     *)
(* forms came before.                                                      *)
(***************************************************************************)
THEOREM SavedIsTrue == Spec => []SavedIsStored
<1>1. IInv => SavedIsStored
  <2> SUFFICES ASSUME IInv, message = "saved", screen = "form", ~early, ~Pending("update")
               PROVE  server[me].profile = asked
    BY DEF SavedIsStored
  <2>1. ~Queued("update") /\ NoneIn(mainq, "update")
    BY DEF Pending, Queued, NoneIn
  <2> QED
    BY <2>1 DEF IInv, FormInv, NewsIsTrue, EnteredIsStored
<1> QED
  BY <1>1, Invariant, PTL

(***************************************************************************)
(* AccountViewController.reloadAccountInfo: when nothing is under way any  *)
(* more, the page shows the profile that the server holds, because an      *)
(* update by a form that is on screen or was left makes the page load      *)
(* again after it.                                                         *)
(***************************************************************************)
THEOREM PageIsUpToDate == Spec => []PageShowsProfile
<1>1. IInv => PageShowsProfile
  <2> SUFFICES ASSUME IInv, Alive, screen = "page", ~unheard, ~refused,
                      queue = <<>>, mainq = <<>>, fetching["page"] = 0
               PROVE  labels = server[me].profile
    BY DEF PageShowsProfile
  <2>1. DOMAIN handlers = {} /\ DOMAIN mainq = {}
    BY Parts
  <2>2. ~Reloads
    BY <2>1 DEF Reloads
  <2>3. PageHears /\ NoneIn(mainq, "page")
    BY <2>1, <2>2 DEF IInv, PageInv, NoneIn
  <2>4. Final = server[me].profile
    BY Views
  <2> QED
    BY <2>3, <2>4 DEF PageHears
<1> QED
  BY <1>1, Invariant, PTL

(***************************************************************************)
(* EditAccountViewController.updateButtonTapped: what a query would bring  *)
(* of the customer's profile does not depend on how far the stream has got *)
(* with the updates, also when the customer logs out and the stream starts *)
(* again in between.                                                       *)
(***************************************************************************)
THEOREM WritesStayInSight == Spec => DeliveryIsInvisible /\ AcknowledgementIsInvisible
<1>1. StoreTypeOK => [Deliver => LocalView' = LocalView]_storeVars
  BY DeliveryUnseen
<1>2. StoreTypeOK =>
        [Acknowledge => \A d \in DocId : synced[d] = 0 => CachedView'[d] = CachedView[d]]_storeVars
  BY AcknowledgementUnseen
<1>3. TypeOK => StoreTypeOK
  BY DEF TypeOK, CallsTypeOK
<1> QED
  BY <1>1, <1>2, <1>3, TypeCorrect, PTL DEF DeliveryIsInvisible, AcknowledgementIsInvisible
=============================================================================
