----------------------------- MODULE TaskLedger -----------------------------
(***************************************************************************)
(* What the app promises about the life of a task, whoever touches it and  *)
(* through however many overlapping requests: a task appears once, as      *)
(* "ongoing", is ticked and unticked any number of times, and once deleted *)
(* (or refused) never appears again.                                       *)
(***************************************************************************)
CONSTANT DocId

VARIABLE status     \* of every task identifier

Status == {"unborn", "ongoing", "completed", "gone"}

LedgerInit == status \in [DocId -> {"unborn", "ongoing"}]

\* Task d moves from one of the statuses of `from` to status `to`.
Move(d, from, to) ==
    /\ status[d] \in from
    /\ status' = [status EXCEPT ![d] = to]

Appear(d)   == Move(d, {"unborn"}, "ongoing")
Complete(d) == Move(d, {"ongoing"}, "completed")
Reopen(d)   == Move(d, {"completed"}, "ongoing")
Vanish(d)   == Move(d, Status \ {"gone"}, "gone")

LedgerNext ==
    \E d \in DocId : Appear(d) \/ Complete(d) \/ Reopen(d) \/ Vanish(d)

LedgerSpec == LedgerInit /\ [][LedgerNext]_status
=============================================================================
