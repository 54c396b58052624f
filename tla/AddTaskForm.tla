----------------------------- MODULE AddTaskForm -----------------------------
(***************************************************************************)
(* The input of the sheet that creates a task (AddTaskViewController):     *)
(* what its three fields accept, what they show, and what the task gets.   *)
(* A description is counted in three ways that differ: Swift counts        *)
(* characters, UIKit hands over ranges in UTF-16 units, of which a         *)
(* character may have any number, and blanks at the ends are trimmed       *)
(* before the task is stored.  What happens to the task after setData is   *)
(* the matter of TaskList.                                                 *)
(***************************************************************************)
EXTENDS Integers, FiniteSets, SequencesExt

CONSTANTS
    Limit,      \* the limit of the description (200 in the code)
    Date,       \* the days the picker offers
    Nil,        \* an empty text of the date field
    MaxInsert,  \* BOUND: units put in by one edit
    MaxText     \* BOUND: units of the description

ASSUME FormAssumption ==
    /\ Limit \in Nat /\ MaxInsert \in Nat /\ MaxText \in Nat
    /\ Nil \notin Date

VARIABLES
    name,           \* whether the name has a character that is not blank
    description,    \* the UTF-16 units of the text view
    countLabel,     \* the number that descriptionCharCountLabel shows
    picker,         \* datePicker.date
    dueDate,        \* the day that dueDateTextField shows
    errorLabel,     \* what errorLabel says
    stored,         \* the task that setData was last called with, if any
    turned          \* HISTORY: the wheel was turned after Done was last tapped

formVars == <<name, description, countLabel, picker, dueDate, errorLabel, stored,
              turned>>

\* A unit begins a character, a blank or another ("letter"), or is joined to
\* the one before it: the second half of a surrogate pair, an accent, the rest
\* of a flag or of a family.  (A line end of two units, which is blank as well,
\* is left out.)
Unit == {"letter", "blank", "joined"}

\* String.count
Count(t) == Cardinality({i \in DOMAIN t : i = 1 \/ t[i] # "joined"})

\* Trimmed, it is "".
IsBlank(t) == \A i \in DOMAIN t : t[i] = "blank"

\* The ranges, in units, that can be selected in a text: whole characters.
NSRange(t) ==
    LET Cut(i) == i \in {0, Len(t)} \/ t[i + 1] # "joined"
    IN  {r \in [location : 0..Len(t), length : 0..Len(t)] :
            /\ r.location + r.length <= Len(t)
            /\ Cut(r.location) /\ Cut(r.location + r.length)}

\* t with put in place of the range.
Replaced(t, range, put) ==
    SubSeq(t, 1, range.location) \o put \o SubSeq(t, range.location + range.length + 1, Len(t))

NewTask == [taskDueDate : Date, shown : Date, turned : BOOLEAN]

FormTypeOK ==
    /\ name \in BOOLEAN
    /\ description \in Seq(Unit)
    /\ countLabel = Count(description)
    /\ picker \in Date
    /\ dueDate \in Date \cup {Nil}
    /\ errorLabel \in {"", "fill in all the fields"}
    /\ stored \subseteq NewTask
    /\ turned \in BOOLEAN

-----------------------------------------------------------------------------
\* viewDidLoad: the picker stands on the present day, the fields are empty.
FormInit ==
    /\ name = FALSE
    /\ description = <<>>
    /\ countLabel = 0
    /\ picker \in Date
    /\ dueDate = Nil
    /\ errorLabel = ""
    /\ stored = {}
    /\ turned = FALSE

NameEdited ==
    /\ name' \in BOOLEAN
    /\ UNCHANGED <<description, countLabel, picker, dueDate, errorLabel, stored, turned>>

\* The text view asks whether it may put a text in place of a range.
ShouldChangeTextIn(t, range, put) == Count(t) + (Count(put) - range.length) <= Limit

TextViewDidChange(t) == countLabel' = Count(t)

\* One keystroke, deletion, paste or dictation.
DescriptionEdited ==
    \E range \in NSRange(description), put \in BoundedSeq(Unit, MaxInsert) :
        LET new == Replaced(description, range, put)
        IN  /\ ShouldChangeTextIn(description, range, put)
            /\ Len(new) <= MaxText
            /\ description' = new
            /\ TextViewDidChange(new)
            /\ UNCHANGED <<name, picker, dueDate, errorLabel, stored, turned>>

\* The wheel of the picker is turned; nothing listens to it.
PickerTurned ==
    /\ picker' \in Date
    /\ turned' = TRUE
    /\ UNCHANGED <<name, description, countLabel, dueDate, errorLabel, stored>>

ShowDate_Once == dueDate' = IF dueDate = Nil THEN picker ELSE dueDate

ShowDate == dueDate' = picker

\* The Done button over the picker.
Doneac ==
    /\ ShowDate
    /\ turned' = FALSE
    /\ UNCHANGED <<name, description, countLabel, picker, errorLabel, stored>>

ShowError == errorLabel' = "fill in all the fields"

NothingMissing == name /\ dueDate # Nil /\ ~IsBlank(description)

\* The label keeps an error while the new task is on its way.
CreateTaskButtonTapped ==
    /\ \/ ~NothingMissing /\ ShowError /\ UNCHANGED stored
       \/ /\ NothingMissing
          /\ stored' =
                {[taskDueDate |-> picker, shown |-> dueDate, turned |-> turned]}
          /\ UNCHANGED errorLabel
    /\ UNCHANGED <<name, description, countLabel, picker, dueDate, turned>>

FormNext ==
    \/ NameEdited \/ DescriptionEdited \/ PickerTurned \/ Doneac
    \/ CreateTaskButtonTapped

FormSpec == FormInit /\ [][FormNext]_formVars

-----------------------------------------------------------------------------
(***************************************************************************)
(* Properties.                                                             *)
(***************************************************************************)

\* "Get the user's inputs": the day of a new task is the one that the field
\* showed when the button was tapped, unless the wheel was turned after Done.
StoredDateIsShown ==
    \A task \in stored : task.turned \/ task.taskDueDate = task.shown

-----------------------------------------------------------------------------
(***************************************************************************)
(* What a comment of the controller says, and the code does not do.        *)
(***************************************************************************)

\* "Check if the characters exceed the limitation. If it is, disable
\* editing.": no sequence of edits takes the description over the limit that
\* the label shows next to its count.
DescriptionWithinLimit == Count(description) <= Limit
=============================================================================
