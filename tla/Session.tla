------------------------------- MODULE Session -------------------------------
(***************************************************************************)
(* Who is signed in, and what the tab bar makes of it: the home page       *)
(* (HomeViewController), the login page it pushes (LoginViewController),   *)
(* the pop-ups over it, and the tabs that only a customer may open.        *)
(*                                                                         *)
(* FirebaseAuth changes the current user on a work queue of its own and    *)
(* then queues the program's handler on the main queue; the pages look at  *)
(* the current user when a new tab bar is made and never again.            *)
(***************************************************************************)
EXTENDS Naturals, Sequences, FiniteSets

CONSTANTS
    Customer,   \* who may sign in
    Nobody,     \* ... or nobody
    MaxLogins   \* BOUND on the sign-ins that are under way

ASSUME SessionAssumption ==
    /\ Nobody \notin Customer
    /\ MaxLogins \in Nat

Tab == {"projects", "account"}

VARIABLES
    currentUser,    \* Auth.auth().currentUser
    logins,         \* sign-ins under way, each with the page that waits for it
    mainq,          \* handlers of sign-ins that wait for the main queue
    enabled,        \* the tabs of this tab bar are enabled
    loaded,         \* the tabs whose page this tab bar has loaded
    selected,       \* the tab that is on screen, "home" or a Tab
    pushed,         \* what is on top of the home page: "nothing", "login", "pop-up"
    welcome,        \* the customer named on the home page, or Nobody
    naming,         \* signInName's query is under way for this customer, or Nobody
    trap,           \* the process was killed by a forced unwrap of nil
    late,           \* HISTORY: since this tab bar was made, a sign-in has
                    \* succeeded whose login page was gone or not on screen
    ended           \* HISTORY: since then, the server has ended a session

vars == <<currentUser, logins, mainq, enabled, loaded, selected, pushed, welcome,
          naming, trap, late, ended>>

Anyone == Customer \cup {Nobody}
Login  == [customer : Customer, page : {"open", "gone"}]

TypeOK ==
    /\ currentUser \in Anyone
    /\ logins \in Seq(Login)
    /\ mainq \in Seq([page : {"open", "gone"}, ok : BOOLEAN])
    /\ enabled \in BOOLEAN
    /\ loaded \subseteq Tab
    /\ selected \in Tab \cup {"home"}
    /\ pushed \in {"nothing", "login", "pop-up"}
    /\ welcome \in Anyone /\ naming \in Anyone
    /\ trap \in BOOLEAN /\ late \in BOOLEAN /\ ended \in BOOLEAN

Alive == ~trap

Orphans(requests) == [i \in DOMAIN requests |-> [requests[i] EXCEPT !.page = "gone"]]

NewTabBar_LoginStays(user) ==
    /\ enabled' = (user # Nobody)
    /\ naming' = user
    /\ welcome' = Nobody
    /\ loaded' = {} /\ selected' = "home" /\ pushed' = pushed
    /\ late' = FALSE /\ ended' = FALSE

NewTabBar_NameKept(user) ==
    /\ enabled' = (user # Nobody)
    /\ naming' = user
    /\ welcome' = welcome
    /\ loaded' = {} /\ selected' = "home" /\ pushed' = "nothing"
    /\ late' = FALSE /\ ended' = FALSE

\* transitionToHome and the viewDidLoad of the new home page: the tabs are
\* enabled, and the name is asked for, if `user` is signed in at this moment.
NewTabBar(user) ==
    /\ enabled' = (user # Nobody)
    /\ naming' = user
    /\ welcome' = Nobody
    /\ loaded' = {} /\ selected' = "home" /\ pushed' = "nothing"
    /\ late' = FALSE /\ ended' = FALSE

-----------------------------------------------------------------------------
(***************************************************************************)
(* The user.                                                               *)
(***************************************************************************)

OnHome == Alive /\ selected = "home" /\ pushed = "nothing"

\* A page that is loaded for the first time unwraps the current user.
Show(tab) ==
    /\ selected' = tab
    /\ loaded' = loaded \cup {tab}
    /\ trap' = (tab \notin loaded /\ currentUser = Nobody)

SignInButtonTapped ==
    /\ OnHome
    /\ IF currentUser # Nobody
       THEN Show("account") /\ UNCHANGED pushed
       ELSE pushed' = "login" /\ UNCHANGED <<selected, loaded, trap>>
    /\ UNCHANGED <<currentUser, logins, mainq, enabled, welcome, naming, late, ended>>

\* Nothing disables the button while a sign-in is under way.
LoginButtonTapped(c) ==
    /\ Alive /\ selected = "home" /\ pushed = "login"
    /\ Len(logins) + Len(mainq) < MaxLogins
    /\ logins' = Append(logins, [customer |-> c, page |-> "open"])
    /\ UNCHANGED <<currentUser, mainq, enabled, loaded, selected, pushed, welcome,
                   naming, trap, late, ended>>

BackFromLogin ==
    /\ Alive /\ selected = "home" /\ pushed = "login"
    /\ pushed' = "nothing"
    /\ logins' = Orphans(logins) /\ mainq' = Orphans(mainq)
    /\ UNCHANGED <<currentUser, enabled, loaded, selected, welcome, naming, trap, late, ended>>

\* The list of services or the request form over the home page ...
OpenPopup ==
    /\ OnHome
    /\ pushed' = "pop-up"
    /\ UNCHANGED <<currentUser, logins, mainq, enabled, loaded, selected, welcome,
                   naming, trap, late, ended>>

\* ... is swiped away ...
SwipePopupAway ==
    /\ Alive /\ selected = "home" /\ pushed = "pop-up"
    /\ pushed' = "nothing"
    /\ UNCHANGED <<currentUser, logins, mainq, enabled, loaded, selected, welcome,
                   naming, trap, late, ended>>

\* ... or closed with its buttons, which make a new tab bar.
ClosePopup ==
    /\ Alive /\ selected = "home" /\ pushed = "pop-up"
    /\ NewTabBar(currentUser)
    /\ UNCHANGED <<currentUser, logins, mainq, trap>>

SelectTab_Always(tab) ==
    /\ Alive /\ selected # tab /\ pushed # "pop-up"
    /\ IF tab = "home"
       THEN selected' = "home" /\ UNCHANGED <<loaded, trap>>
       ELSE Show(tab)
    /\ UNCHANGED <<currentUser, logins, mainq, enabled, pushed, welcome, naming, late, ended>>

\* The tab bar: the home tab, and the others where they are enabled.
SelectTab(tab) ==
    /\ Alive /\ selected # tab /\ pushed # "pop-up"
    /\ IF tab = "home"
       THEN selected' = "home" /\ UNCHANGED <<loaded, trap>>
       ELSE enabled /\ Show(tab)
    /\ UNCHANGED <<currentUser, logins, mainq, enabled, pushed, welcome, naming, late, ended>>

\* The account page's alert: "Yes".
LogOut ==
    /\ Alive /\ selected = "account"
    /\ currentUser' = Nobody
    /\ NewTabBar(Nobody)
    /\ logins' = Orphans(logins) /\ mainq' = Orphans(mainq)
    /\ UNCHANGED trap

-----------------------------------------------------------------------------
(***************************************************************************)
(* FirebaseAuth and Firestore.                                             *)
(***************************************************************************)

\* The server's answer to a sign-in, on the work queue: the current user is
\* replaced there and then, and the handler is queued.
SignInAnswered(i) ==
    /\ Alive
    /\ logins' = [j \in 1..(Len(logins) - 1) |-> logins[IF j < i THEN j ELSE j + 1]]
    /\ \E ok \in BOOLEAN :
          /\ currentUser' = IF ok THEN logins[i].customer ELSE currentUser
          /\ mainq' = Append(mainq, [page |-> logins[i].page, ok |-> ok])
    /\ UNCHANGED <<enabled, loaded, selected, pushed, welcome, naming, trap, late, ended>>

\* The server has ended the session: the next refresh of the token finds out.
SessionEnds ==
    /\ Alive /\ currentUser # Nobody
    /\ currentUser' = Nobody
    /\ ended' = TRUE
    /\ UNCHANGED <<logins, mainq, enabled, loaded, selected, pushed, welcome, naming,
                   trap, late>>

\* The handler of a sign-in.  transitionToHome replaces the tab bar of the
\* window the login page is in: a page that was left is in none, and neither
\* is one behind another tab.
LoginHandlerRuns ==
    /\ Alive /\ mainq # <<>>
    /\ IF Head(mainq).ok /\ Head(mainq).page = "open" /\ selected = "home"
       THEN /\ NewTabBar(currentUser)
            /\ logins' = Orphans(logins)
            /\ mainq' = Orphans(Tail(mainq))
       ELSE /\ mainq' = Tail(mainq)
            /\ late' = (late \/ Head(mainq).ok)
            /\ UNCHANGED <<logins, enabled, loaded, selected, pushed, welcome, naming,
                         ended>>
    /\ UNCHANGED <<currentUser, trap>>

\* The answer to signInName's query; a failure is printed on the console.
NameArrives ==
    /\ Alive /\ naming # Nobody
    /\ welcome' \in {naming, welcome}
    /\ naming' = Nobody
    /\ UNCHANGED <<currentUser, logins, mainq, enabled, loaded, selected, pushed, trap,
                   late, ended>>

\* The process ends and starts again; the current user is in the keychain.
Restart ==
    /\ NewTabBar(currentUser)
    /\ logins' = <<>> /\ mainq' = <<>>
    /\ trap' = FALSE
    /\ UNCHANGED currentUser

Init ==
    /\ currentUser \in Anyone
    /\ logins = <<>> /\ mainq = <<>>
    /\ enabled = (currentUser # Nobody)
    /\ loaded = {} /\ selected = "home" /\ pushed = "nothing"
    /\ welcome = Nobody /\ naming = currentUser
    /\ trap = FALSE /\ late = FALSE /\ ended = FALSE

UserActs ==
    \/ SignInButtonTapped \/ BackFromLogin \/ OpenPopup \/ SwipePopupAway \/ ClosePopup \/ LogOut
    \/ \E c \in Customer : LoginButtonTapped(c)
    \/ \E tab \in Tab \cup {"home"} : SelectTab(tab)

SystemActs ==
    \/ \E i \in DOMAIN logins : SignInAnswered(i)
    \/ SessionEnds \/ LoginHandlerRuns \/ NameArrives

Next == UserActs \/ SystemActs \/ Restart

Spec == Init /\ [][Next]_vars

\* Sign-ins and queries are answered in the end, and the main queue runs.
Fairness ==
    /\ WF_vars(\E i \in DOMAIN logins : SignInAnswered(i))
    /\ WF_vars(LoginHandlerRuns)
    /\ WF_vars(NameArrives)

FairSpec == Spec /\ Fairness

-----------------------------------------------------------------------------
(***************************************************************************)
(* Properties.                                                             *)
(***************************************************************************)

\* Unless the server has ended the session under them, the tabs that need a customer are
\* enabled only while one is signed in, so no page that unwraps the current
\* user is ever loaded without one: the tabs are set when a tab bar is made,
\* and whoever signs out makes one.
TabsNeedCustomer ==
    ~ended => (enabled \/ selected # "home" => currentUser # Nobody) /\ ~trap

\* The home page welcomes the customer whose projects the tabs show, unless
\* a late answer has replaced that customer, or one is about to, or the
\* server has ended the session.
WelcomeIsForCustomer ==
    ~ended /\ ~late /\ (\A i \in DOMAIN mainq : ~mainq[i].ok) /\ welcome # Nobody
        => welcome = currentUser

\* Once the server has signed the customer in, the login page that asked for
\* it goes, whatever other sign-ins the user has started on it.
LoginOpensTabs ==
    pushed = "login" /\ (\E i \in DOMAIN mainq : mainq[i].ok /\ mainq[i].page = "open")
        ~> pushed # "login" \/ selected # "home"

=============================================================================
