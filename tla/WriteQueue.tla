----------------------------- MODULE WriteQueue -----------------------------
(***************************************************************************)
(* What the Firestore client promises of the writes of its users, without  *)
(* a network: every user has a queue on disk, only the queue of the user   *)
(* who is signed in moves, its oldest write is answered first, and every   *)
(* write is reported once at most to the process that made it.             *)
(***************************************************************************)
EXTENDS Naturals

CONSTANTS
    User,      \* the users of the device; nobody signed in is one of them
    MaxWrites  \* BOUND: writes made

ASSUME QueueAssumption == MaxWrites \in Nat

VARIABLES
    user,   \* the user who is signed in
    queue,  \* queue[u]: the writes of u that the server has not answered
    told    \* told[b]: what the program knows of write b

queueVars == <<user, queue, told>>

Batch == 1..MaxWrites
Knowledge == {"unused", "pending", "ok", "failed", "forgotten"}

QueueTypeOK ==
    /\ user \in User
    /\ queue \in [User -> SUBSET Batch]
    /\ told \in [Batch -> Knowledge]

QueueInit ==
    /\ user \in User
    /\ queue = [u \in User |-> {}]
    /\ told = [b \in Batch |-> "unused"]

\* Batch ids are handed out in the order of the writes.
IsNext(b) == told[b] = "unused" /\ \A x \in 1..(b - 1) : told[x] # "unused"

Enqueue(b) ==
    /\ IsNext(b)
    /\ queue' = [queue EXCEPT ![user] = @ \cup {b}]
    /\ told' = [told EXCEPT ![b] = "pending"]
    /\ UNCHANGED user

\* Writes that were made by an earlier process have nobody to be told.
Settle(b, answer) ==
    /\ queue' = [queue EXCEPT ![user] = @ \ {b}]
    /\ told' = [told EXCEPT ![b] = IF @ = "pending" THEN answer ELSE @]
    /\ UNCHANGED user

IsOldest(b) == b \in queue[user] /\ \A x \in queue[user] : b <= x

Answer(b) == IsOldest(b) /\ \E answer \in {"ok", "failed"} : Settle(b, answer)

SignIn(u) == user' = u /\ UNCHANGED <<queue, told>>

\* The queues are on disk and the callbacks are not.
Forget ==
    /\ told' = [b \in Batch |-> IF told[b] = "pending" THEN "forgotten" ELSE told[b]]
    /\ UNCHANGED <<user, queue>>

QueueNext ==
    \/ \E b \in Batch : Enqueue(b) \/ Answer(b)
    \/ \E u \in User : SignIn(u)
    \/ Forget

QueueSpec == QueueInit /\ [][QueueNext]_queueVars
=============================================================================
