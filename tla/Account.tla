------------------------------- MODULE Account -------------------------------
(***************************************************************************)
(* The account page (AccountViewController), the form that edits a         *)
(* customer's profile (EditAccountViewController) and signing out under    *)
(* them.  The customer has one document; its name, address and telephone   *)
(* number are always read and written together and are one field here.     *)
(*                                                                         *)
(* Signing out replaces the page at once; the Firestore client learns of   *)
(* it from a notification that is posted on the main queue, and from then  *)
(* on leaves the customer's mutations alone until the same customer is     *)
(* back.  Handlers are kept through all of that.                           *)
(***************************************************************************)
EXTENDS FirestoreCalls

CONSTANTS
    me,         \* the key of the customer's document
    Profile,    \* what a profile may say
    stored,     \* what it says when the app starts
    MaxCalls    \* BOUND on the unanswered calls when the user makes one more

ASSUME AccountAssumption ==
    /\ DocId = {me}
    /\ Field = {"profile"}
    /\ Value = Profile
    /\ stored \in Profile
    /\ Requester = {"page", "form"}
    /\ Waiter = {"update", "left form", "left page"}
    /\ MaxCalls \in Nat

VARIABLES
    signedIn,   \* Auth.auth().currentUser is this customer
    active,     \* the Firestore client works for this customer
    screen,     \* "home" (or any other tab), "page" or "form"
    labels,     \* the profile on the page, or Nil: the storyboard's texts
    text,       \* the profile in the form's fields, or Nil: empty
    userID,     \* the form knows the customer's document
    message,    \* what errorLabel says
    trap,       \* the process was killed by a forced unwrap of nil
    asked,      \* HISTORY: what the user had entered when last tapping Update
    typed,      \* HISTORY: what the user last entered in this form, or Nil
    early,      \* HISTORY: ... or tapped before the form knew the document
    unheard,    \* HISTORY: a load of the page has failed or found nothing
    refused     \* HISTORY: an update has been refused

pageVars == <<labels, unheard>>
formVars == <<text, userID, message, asked, typed, early>>
vars == <<storeVars, callVars, signedIn, active, screen, pageVars, formVars, trap,
          refused>>

TypeOK ==
    /\ CallsTypeOK
    /\ signedIn \in BOOLEAN /\ active \in BOOLEAN
    /\ screen \in {"home", "page", "form"}
    /\ labels \in Profile \cup {Nil}
    /\ text \in Profile \cup {Nil}
    /\ userID \in BOOLEAN
    /\ message \in {"", "saved", "not saved", "not loaded"}
    /\ trap \in BOOLEAN
    /\ {asked, typed} \subseteq Profile \cup {Nil}
    /\ {early, unheard, refused} \subseteq BOOLEAN

Alive == ~trap

Mine == Document \ {NoDoc}

\* One more call of the user's is allowed.
MayCall == Len(mainq) + fetching["page"] + fetching["form"] < MaxCalls

\* The places in the main queue of the answers that are not for `gone`, in
\* their order.
Kept(gone) ==
    LET places == {i \in DOMAIN mainq : mainq[i].to \notin gone}
    IN  {s \in [1..Cardinality(places) -> places] :
            /\ \A i, j \in DOMAIN s : i < j => s[i] < s[j]
            /\ \A i \in places : \E j \in DOMAIN s : s[j] = i}

\* The screens that made the requests of `gone` are no longer there; the
\* handlers of an update still find what `became` of its form.
Forget(gone, became) ==
    /\ fetching' = [r \in Requester |-> IF r \in gone THEN 0 ELSE fetching[r]]
    /\ handlers' = [i \in DOMAIN handlers |->
                        IF handlers[i] \in DOMAIN became THEN became[handlers[i]] ELSE handlers[i]]
    /\ \E kept \in Kept(gone) :
          mainq' = [i \in DOMAIN kept |->
                      IF mainq[kept[i]].to \in DOMAIN became
                      THEN [mainq[kept[i]] EXCEPT !.to = became[@]] ELSE mainq[kept[i]]]

NewForm ==
    /\ text' = Nil /\ userID' = FALSE /\ message' = ""
    /\ asked' = Nil /\ typed' = Nil /\ early' = FALSE

-----------------------------------------------------------------------------
(***************************************************************************)
(* The page.                                                               *)
(***************************************************************************)

\* The tab is chosen for the first time: viewDidLoad, loadData.
OpenPage ==
    /\ Alive /\ signedIn /\ screen = "home"
    /\ screen' = "page"
    /\ labels' = Nil /\ unheard' = FALSE
    /\ GetDocuments("page")
    /\ UNCHANGED <<storeVars, handlers, mainq, signedIn, active, formVars, trap, refused>>

\* The handler of the page's loadData; a failure is printed on the console.
PageLoaded ==
    /\ Head(mainq).to = "page"
    /\ IF Head(mainq).kind = "snapshot" /\ Head(mainq).docs # <<>>
       THEN labels' = Last(Head(mainq).docs).data.profile /\ UNCHANGED unheard
       ELSE unheard' = TRUE /\ UNCHANGED labels
    /\ mainq' = Tail(mainq)
    /\ UNCHANGED <<fetching, handlers, screen, formVars, trap>>

\* The button of the alert: signOut() and a new tab bar in place of this one.
LogOut ==
    /\ Alive /\ signedIn /\ screen = "page"
    /\ signedIn' = FALSE
    /\ screen' = "home"
    /\ labels' = Nil /\ unheard' = FALSE
    /\ Forget(Requester, [w \in Waiter |-> "left page"])
    /\ UNCHANGED <<storeVars, active, formVars, trap, refused>>

\* The notification reaches the Firestore client: the write stream restarts
\* without the customer's mutations.
CredentialsChange ==
    /\ Alive /\ active # signedIn
    /\ active' = signedIn
    /\ sent' = 0 /\ synced' = [d \in DocId |-> 0]
    /\ UNCHANGED <<server, cache, queue, callVars, signedIn, screen, pageVars, formVars, trap,
                   refused>>

\* The notification of a sign-in is posted before its handler is queued.
SignIn ==
    /\ Alive /\ ~signedIn /\ ~active
    /\ signedIn' = TRUE /\ active' = TRUE
    /\ UNCHANGED <<storeVars, callVars, screen, pageVars, formVars, trap, refused>>

-----------------------------------------------------------------------------
(***************************************************************************)
(* The form.                                                               *)
(***************************************************************************)

\* The segue to the form: a new controller, whose viewDidLoad loads.
OpenForm ==
    /\ Alive /\ screen = "page"
    /\ MayCall
    /\ screen' = "form"
    /\ NewForm
    /\ GetDocuments("form")
    /\ UNCHANGED <<storeVars, handlers, mainq, signedIn, active, pageVars, trap, refused>>

LeaveForm ==
    /\ Alive /\ screen = "form"
    /\ screen' = "page"
    /\ Forget({"form"}, [w \in {"update"} |-> "left form"])
    /\ NewForm
    /\ UNCHANGED <<storeVars, signedIn, active, pageVars, trap, refused>>

Type(p) ==
    /\ Alive /\ screen = "form"
    /\ text' = p /\ typed' = p
    /\ early' = (early \/ ~userID)
    /\ UNCHANGED <<storeVars, callVars, signedIn, active, screen, pageVars, userID,
                   message, asked, trap, refused>>

Update_OldText == [doc |-> me, write |-> [profile |-> labels]]

Update == [doc |-> me, write |-> [profile |-> text]]

\* Update: a form that does not know the document says so all the same.
UpdateTapped ==
    /\ Alive /\ screen = "form" /\ text # Nil /\ MayCall
    /\ IF userID
       THEN SetData("update", Update) /\ UNCHANGED message
       ELSE message' = "saved" /\ UNCHANGED <<storeVars, handlers>>
    /\ asked' = IF typed = Nil THEN text ELSE typed
    /\ early' = (early \/ ~userID)
    /\ UNCHANGED <<fetching, mainq, signedIn, active, screen, pageVars, text, userID,
                   typed, trap, refused>>

\* The handler of the form's loadData: it fills the fields in.
FormLoaded ==
    /\ Head(mainq).to = "form"
    /\ IF Head(mainq).kind = "snapshot"
       THEN /\ userID' = (userID \/ Head(mainq).docs # <<>>)
            /\ text' = IF Head(mainq).docs = <<>> THEN text
                       ELSE Last(Head(mainq).docs).data.profile
            /\ UNCHANGED message
       ELSE message' = "not loaded" /\ UNCHANGED <<text, userID>>
    /\ mainq' = Tail(mainq)
    /\ UNCHANGED <<fetching, handlers, screen, pageVars, asked, typed, early, trap>>

TellPage_Never(from) == UNCHANGED <<fetching, trap>>

\* The delegate's reloadAccountInfo: a load that unwraps the current user.
TellPage(from) ==
    /\ trap' = ~signedIn
    /\ IF signedIn /\ from # "left page" THEN GetDocuments("page") ELSE UNCHANGED fetching

\* The answer to an update; the handlers of a form that was left, or whose
\* page has been replaced, still run.
UpdateAnswered ==
    /\ Head(mainq).kind = "written"
    /\ message' = IF Head(mainq).to # "update" THEN message
                  ELSE IF Head(mainq).ok THEN "saved" ELSE "not saved"
    /\ IF Head(mainq).ok
       THEN TellPage(Head(mainq).to)
       ELSE UNCHANGED <<fetching, trap>>
    /\ mainq' = Tail(mainq)
    /\ UNCHANGED <<handlers, screen, pageVars, text, userID, asked, typed, early>>

-----------------------------------------------------------------------------
(***************************************************************************)
(* The client, the main queue, the process.                                *)
(***************************************************************************)

programVars == <<signedIn, active, screen, pageVars, formVars, trap>>

LoadAnswered(r) ==
    /\ Alive
    /\ QueryServer(r, Mine) \/ QueryCache(r, Mine) \/ QueryFails(r)
    /\ UNCHANGED <<programVars, refused>>

UpdateConfirmed ==
    /\ Alive /\ active
    /\ WriteAnswered
    /\ refused' = (refused \/ sent = 0)
    /\ UNCHANGED programVars

StreamWorks == Alive /\ active /\ WriteStream /\ UNCHANGED <<programVars, refused>>

MainQueueRuns ==
    /\ Alive /\ mainq # <<>>
    /\ PageLoaded \/ FormLoaded \/ UpdateAnswered
    /\ UNCHANGED <<storeVars, signedIn, active, refused>>

\* The process ends and is started again; the user is still signed in, or
\* still is not.
Restart ==
    /\ ProcessEnds
    /\ active' = signedIn
    /\ screen' = "home"
    /\ trap' = FALSE
    /\ labels' = Nil /\ unheard' = FALSE
    /\ NewForm
    /\ UNCHANGED <<signedIn, refused>>

Init ==
    /\ server = [d \in DocId |-> [profile |-> stored]]
    /\ cache = [d \in DocId |-> NoDoc]
    /\ queue = <<>> /\ sent = 0 /\ synced = [d \in DocId |-> 0]
    /\ CallsInit
    /\ signedIn = TRUE /\ active = TRUE
    /\ screen = "home"
    /\ labels = Nil /\ unheard = FALSE
    /\ text = Nil /\ userID = FALSE /\ message = ""
    /\ asked = Nil /\ typed = Nil /\ early = FALSE
    /\ trap = FALSE /\ refused = FALSE

UserActs ==
    \/ OpenPage \/ LogOut \/ SignIn \/ OpenForm \/ LeaveForm \/ UpdateTapped
    \/ \E p \in Profile : Type(p)

ClientActs ==
    \/ \E r \in Requester : LoadAnswered(r)
    \/ UpdateConfirmed \/ StreamWorks \/ CredentialsChange \/ MainQueueRuns

Next == UserActs \/ ClientActs \/ Restart

Spec == Init /\ [][Next]_vars

-----------------------------------------------------------------------------
(***************************************************************************)
(* Properties.                                                             *)
(***************************************************************************)

\* When the form says that all the changes have been saved and no update of
\* it is under way, what the user had entered is what the server holds, if
\* the user touched the form only after its load had answered.
SavedIsStored ==
    message = "saved" /\ screen = "form" /\ ~early /\ ~Pending("update")
        => server[me].profile = asked

\* Once everything is answered, the page shows the stored profile: an update
\* by a form that was left long ago, or under another page, included.  Of a
\* refused update the page may go on showing what it has loaded.
PageShowsProfile ==
    Alive /\ screen = "page" /\ ~unheard /\ ~refused
    /\ queue = <<>> /\ mainq = <<>> /\ fetching["page"] = 0
        => labels = server[me].profile

=============================================================================
