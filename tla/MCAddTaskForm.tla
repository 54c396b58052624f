--------------------------- MODULE MCAddTaskForm ---------------------------
(* Descriptions of a few units and two days.                               *)
EXTENDS AddTaskForm

CONSTANTS today, tomorrow
=============================================================================
