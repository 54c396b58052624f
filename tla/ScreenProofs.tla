---------------------------- MODULE ScreenProofs ----------------------------
(***************************************************************************)
(* The two screens that ask the store for nothing: that the tabs and the   *)
(* name on the home page belong to the customer who is signed in (Session) *)
(* and that the sheet stores the day it shows (AddTaskForm), for any       *)
(* customers, sign-ins, limits, days and edits.                            *)
(***************************************************************************)
EXTENDS Session, AddTaskForm, FiniteSetTheorems, TLAPS

Handler == [page : {"open", "gone"}, ok : BOOLEAN]

(***************************************************************************)
(* The inductive invariant.  TabsNeedCustomer carries itself; the name on  *)
(* the page does not, it needs the same of the name that is on its way.    *)
(***************************************************************************)
NoSuccessWaits == \A i \in DOMAIN mainq : ~mainq[i].ok

NamingIsForCustomer ==
    ~ended /\ ~late /\ NoSuccessWaits /\ naming # Nobody => naming = currentUser

IInv == TypeOK /\ TabsNeedCustomer /\ NamingIsForCustomer /\ WelcomeIsForCustomer

-----------------------------------------------------------------------------

LEMMA SomeoneIsNotNobody == \A c \in Customer : c # Nobody
BY SessionAssumption

\* A page that goes away leaves its requests in place and in order.
LEMMA OrphanLogins == ASSUME NEW s \in Seq(Login) PROVE Orphans(s) \in Seq(Login)
<1>1. \A r \in Login : [r EXCEPT !.page = "gone"] \in Login
  BY DEF Login
<1>2. DOMAIN s = 1..Len(s) /\ Len(s) \in Nat /\ \A i \in 1..Len(s) : s[i] \in Login
  OBVIOUS
<1>3. Orphans(s) \in [1..Len(s) -> Login]
  BY <1>1, <1>2 DEF Orphans
<1> QED BY <1>2, <1>3

LEMMA OrphanHandlers ==
    ASSUME NEW s \in Seq(Handler)
    PROVE  /\ Orphans(s) \in Seq(Handler) /\ DOMAIN Orphans(s) = DOMAIN s
           /\ \A i \in DOMAIN s : Orphans(s)[i].ok = s[i].ok
<1>1. \A r \in Handler : /\ [r EXCEPT !.page = "gone"] \in Handler
                         /\ [r EXCEPT !.page = "gone"].ok = r.ok
  BY DEF Handler
<1>2. DOMAIN s = 1..Len(s) /\ Len(s) \in Nat /\ \A i \in 1..Len(s) : s[i] \in Handler
  OBVIOUS
<1>3. /\ Orphans(s) \in [1..Len(s) -> Handler]
      /\ \A i \in 1..Len(s) : Orphans(s)[i] = [s[i] EXCEPT !.page = "gone"]
  BY <1>1, <1>2 DEF Orphans
<1>4. \A i \in 1..Len(s) : Orphans(s)[i].ok = s[i].ok
  BY <1>1, <1>2, <1>3
<1>5. Orphans(s) \in Seq(Handler) /\ DOMAIN Orphans(s) = DOMAIN s
  BY <1>2, <1>3
<1> QED BY <1>2, <1>4, <1>5

\* A new tab bar is made for whoever is signed in, so it starts with pages,
\* tabs and a name that agree.
LEMMA NewTabBarFits ==
    ASSUME currentUser' \in Anyone, NewTabBar(currentUser'), ~trap'
    PROVE  /\ TabsNeedCustomer' /\ NamingIsForCustomer' /\ WelcomeIsForCustomer'
           /\ enabled' \in BOOLEAN /\ loaded' \subseteq Tab /\ selected' \in Tab \cup {"home"}
           /\ pushed' \in {"nothing", "login", "pop-up"}
           /\ welcome' \in Anyone /\ naming' \in Anyone
           /\ late' \in BOOLEAN /\ ended' \in BOOLEAN
BY DEF NewTabBar, TabsNeedCustomer, NamingIsForCustomer, WelcomeIsForCustomer, Anyone

LEMMA InitFits == Init => IInv
<1> SUFFICES ASSUME Init PROVE IInv
  OBVIOUS
<1>1. <<>> \in Seq(Login) /\ <<>> \in Seq([page : {"open", "gone"}, ok : BOOLEAN])
  OBVIOUS
<1>2. enabled \in BOOLEAN
  BY DEF Init
<1>3. TypeOK
  BY <1>1, <1>2 DEF Init, TypeOK, Anyone
<1> QED BY <1>3 DEF Init, IInv, TabsNeedCustomer, NamingIsForCustomer, WelcomeIsForCustomer

-----------------------------------------------------------------------------
(***************************************************************************)
(* The steps.                                                              *)
(***************************************************************************)

\* Pages are loaded only while someone is signed in, or the session has ended.
LEMMA ShowFits ==
    ASSUME IInv, NEW tab \in Tab, Alive, Show(tab), ended \/ currentUser # Nobody,
           UNCHANGED <<currentUser, logins, mainq, enabled, pushed, welcome, naming, late, ended>>
    PROVE  IInv'
<1>1. TypeOK'
  BY DEF IInv, TypeOK, Show
<1>2. TabsNeedCustomer'
  BY DEF IInv, TabsNeedCustomer, Show, Alive
<1>3. NamingIsForCustomer' /\ WelcomeIsForCustomer'
  BY DEF IInv, NamingIsForCustomer, WelcomeIsForCustomer, NoSuccessWaits
<1> QED BY <1>1, <1>2, <1>3 DEF IInv

LEMMA SignInButtonFits == ASSUME IInv, SignInButtonTapped PROVE IInv'
<1>1. CASE currentUser # Nobody
  BY <1>1, ShowFits DEF SignInButtonTapped, OnHome, Tab
<1>2. CASE currentUser = Nobody
  BY <1>2 DEF SignInButtonTapped, IInv, TypeOK, TabsNeedCustomer, NamingIsForCustomer,
              WelcomeIsForCustomer, NoSuccessWaits
<1> QED BY <1>1, <1>2

LEMMA SelectTabFits ==
    ASSUME IInv, NEW tab \in Tab \cup {"home"}, SelectTab(tab)
    PROVE  IInv'
<1>1. CASE tab = "home"
  BY <1>1 DEF SelectTab, IInv, TypeOK, TabsNeedCustomer, NamingIsForCustomer,
              WelcomeIsForCustomer, NoSuccessWaits
<1>2. CASE tab # "home"
  <2>1. ended \/ currentUser # Nobody
    BY <1>2 DEF SelectTab, IInv, TabsNeedCustomer
  <2> QED BY <1>2, <2>1, ShowFits DEF SelectTab
<1> QED BY <1>1, <1>2

LEMMA PagesFit ==
    ASSUME IInv, OpenPopup \/ SwipePopupAway \/ \E c \in Customer : LoginButtonTapped(c)
    PROVE  IInv'
<1>1. logins' \in Seq(Login)
  <2>1. logins \in Seq(Login) /\ \A c \in Customer : [customer |-> c, page |-> "open"] \in Login
    BY DEF IInv, TypeOK, Login
  <2>2. \A r \in Login : Append(logins, r) \in Seq(Login)
    BY <2>1
  <2>3. logins' = logins \/ \E c \in Customer : logins' = Append(logins, [customer |-> c, page |-> "open"])
    BY DEF OpenPopup, SwipePopupAway, LoginButtonTapped
  <2> QED BY <2>1, <2>2, <2>3
<1>2. /\ UNCHANGED <<currentUser, mainq, enabled, loaded, selected, welcome, naming, trap, late, ended>>
      /\ pushed' \in {"nothing", "login", "pop-up"}
  BY DEF OpenPopup, SwipePopupAway, LoginButtonTapped, IInv, TypeOK
<1> QED BY <1>1, <1>2 DEF IInv, TypeOK, TabsNeedCustomer, NamingIsForCustomer,
                          WelcomeIsForCustomer, NoSuccessWaits

LEMMA BackFromLoginFits == ASSUME IInv, BackFromLogin PROVE IInv'
<1>1. logins \in Seq(Login) /\ mainq \in Seq(Handler)
  BY DEF IInv, TypeOK, Handler
<1>2. /\ logins' \in Seq(Login) /\ mainq' \in Seq(Handler)
      /\ NoSuccessWaits' => NoSuccessWaits
  BY <1>1, OrphanLogins, OrphanHandlers DEF BackFromLogin, NoSuccessWaits
<1> QED BY <1>2 DEF BackFromLogin, IInv, TypeOK, TabsNeedCustomer, NamingIsForCustomer,
                    WelcomeIsForCustomer, NoSuccessWaits, Handler

LEMMA ClosePopupFits == ASSUME IInv, ClosePopup PROVE IInv'
BY NewTabBarFits DEF ClosePopup, IInv, TypeOK, Alive

LEMMA LogOutFits == ASSUME IInv, LogOut PROVE IInv'
<1>1. logins \in Seq(Login) /\ mainq \in Seq(Handler)
  BY DEF IInv, TypeOK, Handler
<1>2. logins' \in Seq(Login) /\ mainq' \in Seq(Handler) /\ currentUser' \in Anyone
  BY <1>1, OrphanLogins, OrphanHandlers DEF LogOut, Anyone
<1> QED BY <1>2, NewTabBarFits DEF LogOut, IInv, TypeOK, Alive, Handler

\* The customer changes: a success waits for its handler until the page and
\* the customer have been brought together again.
LEMMA SignInAnsweredFits ==
    ASSUME IInv, NEW i \in DOMAIN logins, SignInAnswered(i)
    PROVE  IInv'
<1>1. logins \in Seq(Login) /\ mainq \in Seq(Handler) /\ i \in 1..Len(logins)
  BY DEF IInv, TypeOK, Handler
<1>2. logins' \in Seq(Login)
  <2>1. /\ Len(logins) - 1 \in Nat
        /\ \A j \in 1..(Len(logins) - 1) : logins[IF j < i THEN j ELSE j + 1] \in Login
    BY <1>1
  <2>2. logins' \in [1..(Len(logins) - 1) -> Login]
    BY <2>1 DEF SignInAnswered
  <2> QED BY <2>1, <2>2
<1>3. PICK ok \in BOOLEAN :
        /\ currentUser' = IF ok THEN logins[i].customer ELSE currentUser
        /\ mainq' = Append(mainq, [page |-> logins[i].page, ok |-> ok])
  BY DEF SignInAnswered
<1>4. mainq' \in Seq(Handler) /\ currentUser' \in Anyone
  <2>1. logins[i] \in Login
    BY <1>1
  <2>2. [page |-> logins[i].page, ok |-> ok] \in Handler /\ logins[i].customer \in Anyone
    BY <2>1 DEF Login, Handler, Anyone
  <2> QED BY <1>1, <1>3, <2>2 DEF IInv, TypeOK
<1>5. currentUser # Nobody => currentUser' # Nobody
  <2>1. logins[i].customer \in Customer
    <3>1. logins[i] \in Login
      BY <1>1
    <3> QED BY <3>1 DEF Login
  <2> QED BY <1>3, <2>1, SomeoneIsNotNobody
<1>6. NoSuccessWaits' => NoSuccessWaits /\ currentUser' = currentUser
  <2> SUFFICES ASSUME NoSuccessWaits' PROVE NoSuccessWaits /\ currentUser' = currentUser
    OBVIOUS
  <2>1. /\ DOMAIN mainq' = 1..(Len(mainq) + 1) /\ mainq'[Len(mainq) + 1].ok = ok
        /\ \A j \in 1..Len(mainq) : mainq'[j] = mainq[j]
    BY <1>1, <1>3
  <2>2. ~ok
    BY <1>1, <2>1 DEF NoSuccessWaits
  <2>3. NoSuccessWaits
    BY <1>1, <2>1 DEF NoSuccessWaits
  <2> QED BY <1>3, <2>2, <2>3
<1>7. UNCHANGED <<enabled, loaded, selected, pushed, welcome, naming, trap, late, ended>>
  BY DEF SignInAnswered
<1> QED BY <1>2, <1>4, <1>5, <1>6, <1>7
        DEF IInv, TypeOK, TabsNeedCustomer, NamingIsForCustomer, WelcomeIsForCustomer,
            NoSuccessWaits, Handler

LEMMA SessionEndsFits == ASSUME IInv, SessionEnds PROVE IInv'
BY DEF SessionEnds, IInv, TypeOK, TabsNeedCustomer, NamingIsForCustomer,
       WelcomeIsForCustomer, Anyone

\* A handler either makes a new tab bar, or tells nothing of a success that
\* then counts as late.
LEMMA LoginHandlerFits == ASSUME IInv, LoginHandlerRuns PROVE IInv'
<1>1. logins \in Seq(Login) /\ mainq \in Seq(Handler) /\ mainq # <<>>
  BY DEF IInv, TypeOK, Handler, LoginHandlerRuns
<1>2. Tail(mainq) \in Seq(Handler)
  BY <1>1
<1>3. CASE Head(mainq).ok /\ Head(mainq).page = "open" /\ selected = "home"
  <2>1. logins' \in Seq(Login) /\ mainq' \in Seq(Handler)
    BY <1>1, <1>2, <1>3, OrphanLogins, OrphanHandlers DEF LoginHandlerRuns
  <2> QED BY <1>3, <2>1, NewTabBarFits DEF LoginHandlerRuns, IInv, TypeOK, Alive, Handler
<1>4. CASE ~(Head(mainq).ok /\ Head(mainq).page = "open" /\ selected = "home")
  <2>1. /\ mainq' = Tail(mainq) /\ late' = (late \/ Head(mainq).ok)
        /\ UNCHANGED <<currentUser, logins, enabled, loaded, selected, pushed, welcome, naming,
                       trap, ended>>
    BY <1>4 DEF LoginHandlerRuns
  <2>2. Head(mainq).ok \in BOOLEAN
    <3>1. Head(mainq) \in Handler
      BY <1>1
    <3> QED BY <3>1 DEF Handler
  <2>3. NoSuccessWaits' /\ ~late' => NoSuccessWaits /\ ~late
    <3> SUFFICES ASSUME NoSuccessWaits', ~late', NEW j \in DOMAIN mainq
                 PROVE  ~mainq[j].ok
      BY <2>1, <2>2 DEF NoSuccessWaits, IInv, TypeOK
    <3>1. CASE j = 1
      BY <1>1, <2>1, <2>2, <3>1
    <3>2. CASE j # 1
      <4>1. j - 1 \in DOMAIN Tail(mainq) /\ Tail(mainq)[j - 1] = mainq[j]
        BY <1>1, <3>2
      <4> QED BY <2>1, <4>1 DEF NoSuccessWaits
    <3> QED BY <3>1, <3>2
  <2> QED BY <1>2, <2>1, <2>2, <2>3
          DEF IInv, TypeOK, TabsNeedCustomer, NamingIsForCustomer, WelcomeIsForCustomer,
              NoSuccessWaits, Handler
<1> QED BY <1>3, <1>4

LEMMA NameArrivesFits == ASSUME IInv, NameArrives PROVE IInv'
<1>1. welcome' \in Anyone /\ naming' \in Anyone
  BY DEF NameArrives, IInv, TypeOK, Anyone
<1> QED BY <1>1 DEF NameArrives, IInv, TypeOK, TabsNeedCustomer, NamingIsForCustomer,
                    WelcomeIsForCustomer, NoSuccessWaits

LEMMA RestartFits == ASSUME IInv, Restart PROVE IInv'
<1>1. logins' \in Seq(Login) /\ mainq' \in Seq(Handler)
  BY DEF Restart
<1> QED BY <1>1, NewTabBarFits DEF Restart, IInv, TypeOK, Handler

LEMMA Inductive == IInv /\ [Next]_vars => IInv'
<1> SUFFICES ASSUME IInv, [Next]_vars PROVE IInv'
  OBVIOUS
<1>1. CASE UserActs
  BY <1>1, SignInButtonFits, BackFromLoginFits, PagesFit, ClosePopupFits, LogOutFits, SelectTabFits
     DEF UserActs
<1>2. CASE SystemActs
  BY <1>2, SignInAnsweredFits, SessionEndsFits, LoginHandlerFits, NameArrivesFits DEF SystemActs
<1>3. CASE Restart
  BY <1>3, RestartFits
<1>4. CASE UNCHANGED vars
  BY <1>4 DEF vars, IInv, TypeOK, TabsNeedCustomer, NamingIsForCustomer, WelcomeIsForCustomer,
              NoSuccessWaits
<1> QED BY <1>1, <1>2, <1>3, <1>4 DEF Next

LEMMA Invariance == Spec => []IInv
BY InitFits, Inductive, PTL DEF Spec

-----------------------------------------------------------------------------
(***************************************************************************)
(* The theorems.                                                           *)
(***************************************************************************)

\* Type correctness of the session: every sign-in keeps its page and customer.
THEOREM SessionTypeCorrect == Spec => []TypeOK
<1>1. IInv => TypeOK
  BY DEF IInv
<1> QED BY <1>1, Invariance, PTL

\* HomeViewController's and AccountViewController's forced unwraps of the
\* current user never trap, and the tabs are enabled for a customer only,
\* unless the server ends the session behind the app's back.
THEOREM TabsAreForCustomers == Spec => []TabsNeedCustomer
<1>1. IInv => TabsNeedCustomer
  BY DEF IInv
<1> QED BY <1>1, Invariance, PTL

\* signInName never welcomes somebody other than the customer who is signed
\* in, once the handlers that wait have run.
THEOREM WelcomeIsCorrect == Spec => []WelcomeIsForCustomer
<1>1. IInv => WelcomeIsForCustomer
  BY DEF IInv
<1> QED BY <1>1, Invariance, PTL

-----------------------------------------------------------------------------
(***************************************************************************)
(* The sheet.  The stored day does not carry itself: until the wheel is    *)
(* turned again, what the field shows is the picker's day.                 *)
(***************************************************************************)
ShownIsPicked == turned \/ dueDate = Nil \/ dueDate = picker

FormInv == FormTypeOK /\ ShownIsPicked /\ StoredDateIsShown

\* A text with a range replaced is a text again.
LEMMA ReplacedType ==
    ASSUME NEW t \in Seq(Unit), NEW range \in NSRange(t), NEW put \in Seq(Unit)
    PROVE  Replaced(t, range, put) \in Seq(Unit)
<1>1. /\ range.location \in 0..Len(t) /\ range.length \in 0..Len(t)
      /\ range.location + range.length <= Len(t)
  BY DEF NSRange
<1>2. /\ SubSeq(t, 1, range.location) \in Seq(Unit)
      /\ SubSeq(t, range.location + range.length + 1, Len(t)) \in Seq(Unit)
  BY <1>1
<1> QED
  BY <1>2 DEF Replaced

LEMMA FormInitFits == FormInit => FormInv
<1> SUFFICES ASSUME FormInit PROVE FormInv
  OBVIOUS
<1>1. Count(<<>>) = 0
  <2>1. {i \in DOMAIN <<>> : i = 1 \/ <<>>[i] # "joined"} = {}
    OBVIOUS
  <2> QED
    BY <2>1, FS_EmptySet DEF Count
<1>2. <<>> \in Seq(Unit)
  OBVIOUS
<1> QED
  BY <1>1, <1>2 DEF FormInit, FormInv, FormTypeOK, ShownIsPicked, StoredDateIsShown

LEMMA DescriptionEditedFits == ASSUME FormInv, DescriptionEdited PROVE FormInv'
<1>1. PICK range \in NSRange(description), put \in BoundedSeq(Unit, MaxInsert) :
        /\ description' = Replaced(description, range, put)
        /\ countLabel' = Count(Replaced(description, range, put))
  BY DEF DescriptionEdited, TextViewDidChange
<1>2. UNCHANGED <<name, picker, dueDate, errorLabel, stored, turned>>
  BY DEF DescriptionEdited
<1>3. put \in Seq(Unit)
  BY FormAssumption DEF BoundedSeq, SeqOf
<1>4. description' \in Seq(Unit)
  BY <1>1, <1>3, ReplacedType DEF FormInv, FormTypeOK
<1>5. countLabel' = Count(description)'
  BY <1>1 DEF Count
<1> QED
  BY <1>2, <1>4, <1>5 DEF FormInv, FormTypeOK, ShownIsPicked, StoredDateIsShown

LEMMA CreateTaskFits == ASSUME FormInv, CreateTaskButtonTapped PROVE FormInv'
<1>1. UNCHANGED <<name, description, countLabel, picker, dueDate, turned>>
  BY DEF CreateTaskButtonTapped
<1>2. CASE UNCHANGED stored /\ ShowError
  BY <1>1, <1>2 DEF ShowError, FormInv, FormTypeOK, ShownIsPicked,
                    StoredDateIsShown
<1>3. CASE /\ NothingMissing /\ UNCHANGED errorLabel
           /\ stored' = {[taskDueDate |-> picker, shown |-> dueDate, turned |-> turned]}
  <2>1. dueDate \in Date /\ picker \in Date /\ turned \in BOOLEAN
    BY <1>3 DEF NothingMissing, FormInv, FormTypeOK
  <2>2. turned \/ dueDate = picker
    BY <1>3 DEF NothingMissing, FormInv, ShownIsPicked
  <2>3. stored' \subseteq NewTask /\ StoredDateIsShown'
    BY <1>3, <2>1, <2>2 DEF NewTask, StoredDateIsShown
  <2> QED
    BY <1>1, <1>3, <2>3 DEF FormInv, FormTypeOK, ShownIsPicked
<1> QED
  BY <1>2, <1>3 DEF CreateTaskButtonTapped

LEMMA FormInductive == FormInv /\ [FormNext]_formVars => FormInv'
<1> SUFFICES ASSUME FormInv, [FormNext]_formVars PROVE FormInv'
  OBVIOUS
<1> USE DEF FormInv, FormTypeOK, ShownIsPicked, StoredDateIsShown
<1>1. CASE NameEdited
  BY <1>1 DEF NameEdited
<1>2. CASE PickerTurned
  BY <1>2 DEF PickerTurned
<1>3. CASE Doneac
  BY <1>3 DEF Doneac, ShowDate
<1>4. CASE UNCHANGED formVars
  BY <1>4 DEF formVars
<1> QED
  BY <1>1, <1>2, <1>3, <1>4, DescriptionEditedFits, CreateTaskFits DEF FormNext

LEMMA FormInvariance == FormSpec => []FormInv
BY FormInitFits, FormInductive, PTL DEF FormSpec

\* Type correctness of the sheet, the label with the count among it.
THEOREM FormTypeCorrect == FormSpec => []FormTypeOK
<1>1. FormInv => FormTypeOK
  BY DEF FormInv
<1> QED
  BY <1>1, FormInvariance, PTL

\* createTaskButtonTapped stores the day that the field shows, unless the
\* wheel has been turned after Done.
THEOREM StoredDayIsShown == FormSpec => []StoredDateIsShown
<1>1. FormInv => StoredDateIsShown
  BY DEF FormInv
<1> QED
  BY <1>1, FormInvariance, PTL
=============================================================================
