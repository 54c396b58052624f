----------------------------- MODULE MCTaskList -----------------------------
(***************************************************************************)
(* Instances of TaskList for TLC.                                          *)
(***************************************************************************)
EXTENDS TaskList

CONSTANTS t1, p1, p2

OneKey    == {t1}
OneOrder  == (t1 :> 1)
AllValues == DocId \cup Project \cup {"ongoing", "completed", "date", "blank"}
=============================================================================
