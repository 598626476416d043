------------------------- MODULE SessionProperties -------------------------
(***************************************************************************)
(* What the sign-in and registration flows of Session promise.             *)
(***************************************************************************)
EXTENDS Session

(* Every variable has its type: uids where the code keeps a user, screens  *)
(* and alerts the app presents, blocks and calls in the SDK's queues.      *)
TypeOK ==
  /\ AuthTypeOK /\ StudentsTypeOK
  /\ mainQ \in Seq(Block)
  /\ alive \in BOOLEAN /\ launches \in Nat
  /\ currentUser \in MaybeUser /\ savedPassword \in MaybeUser
  /\ stack \in Seq(Screen) /\ modal \in Modal /\ flow \in Flow

(* The main screen is never presented without a profile: MoreController    *)
(* unwraps currentUser when its view loads, and btnXong when it is tapped. *)
MainHasProfile == (\E i \in DOMAIN stack : stack[i] = "Main") => currentUser # None

(* While the main screen is in the user's hands the profile shown is the   *)
(* one of the session, although a registration changes the session twice   *)
(* and every splash screen ever shown sets the profile from observers of   *)
(* its own; the only other session is one without a record, left by a      *)
(* registration that failed half-way.                                      *)
ProfileMatchesSession ==
  alive /\ flow.pc = "idle" /\ Top = "Main" =>
    currentUser = authUser \/ authUser \notin students

(* Signing the registering user back in uses that user's own password,     *)
(* whatever logouts, logins and registrations came before in this process. *)
RestoreUsesOwnPassword == flow.pc = "restoring" => savedPassword = flow.email

(* "Created" is announced only when the device is back with the user who   *)
(* registered the student: session, stored session, profile and saved      *)
(* password all agree, also after crashes and whichever sign-ins raced.    *)
SuccessMeansRestored ==
  modal = "created" => authUser # None /\ authUser = currentUser
                       /\ authUser = keychain /\ authUser = savedPassword

(* The record of a new student is written while the device is signed in    *)
(* as that student, so that it gets the student's own key.                 *)
CommitsAsNewStudent ==
  flow.pc = "committing" => authUser = flow.new /\ keychain = flow.new

(* A registration signs out for a moment, and every splash screen's        *)
(* listener then goes to the login form; the form stays on the screen,     *)
(* under its spinner, all the same.                                        *)
Registering == flow.pc \notin {"idle", "signingIn", "signedIn"}

RegistrationCovered ==
  Registering => alive /\ Top = "Main" /\ modal \in {"confirm", "processing"}

(* The inductive form of the last two: an alert covers every flow, a new   *)
(* account has a uid, and from its creation to the write of its record the *)
(* session, on disk and in memory, is the new account's or nobody's.       *)
Creating == {"creating", "registered", "signedUp", "uploading", "fetchingUrl", "committing"}

FlowInv ==
  /\ modal = "none" => flow.pc = "idle"
  /\ flow.pc \in Creating => flow.new \in Account
  /\ flow.pc \in Creating \ {"creating", "registered"} =>
       loaded /\ keychain = authUser /\ authUser \in {flow.new, None}
  /\ flow.pc = "committing" => authUser # None
  /\ RegistrationCovered

(* When the main queue is empty every listener has been told of the        *)
(* current user, also of the one that was loaded from the keychain after   *)
(* the listener's first call.                                              *)
ListenersUpToDate ==
  alive /\ loaded /\ mainQ = <<>> =>
    \A i \in DOMAIN listeners : listeners[i].prev = authUser

(* The login form is shown to a signed-in user in one case only: straight  *)
(* after launch, when the first listener was called before the keychain    *)
(* had been read.                                                          *)
LoginShownWhenSignedOut ==
  alive /\ mainQ = <<>> /\ Top = "Login" /\ authUser # None => Len(stack) = 2

(* The spinner goes away, or the device is left signed out behind it (the  *)
(* sign-in of the registering user was refused, or the new account had no  *)
(* user).                                                                  *)
SpinnerEndsOrSignedOut == (modal = "processing") ~> (modal # "processing" \/ authUser = None)

(* The splash screen is left, for the main screen or the login form,       *)
(* unless the session is of an account without a record.                   *)
SplashLeft ==
  (alive /\ Top = "Loading") ~>
    (~alive \/ Top # "Loading" \/ authUser \in Account \ students)

-----------------------------------------------------------------------------
(* What a registration is (Registration), read off the state: the step its *)
(* chain of callbacks has reached, whose session the device stores, and    *)
(* the records that are at the server or on their way there.               *)
stage ==
  IF modal = "created" THEN "announced"
  ELSE IF flow.pc \in {"creating", "registered"} THEN "asked"
  ELSE IF flow.pc \in Creating THEN "student"
  ELSE IF flow.pc = "restoring" THEN "written"
  ELSE IF flow.pc \in {"restored", "reloading"} THEN "back"
  ELSE "none"

owner == IF stage \in {"none", "announced"} THEN None ELSE flow.email

student == IF stage = "none" THEN None ELSE flow.new

records == students \cup pending \cup {dbQ[i].uid : i \in {j \in DOMAIN dbQ : dbQ[j].op = "set"}}

Abstract == INSTANCE Registration WITH device <- keychain

(* Logins, logouts, crashes, launches and the reactions of every listener  *)
(* and observer of the app's past amount to registrations: the session     *)
(* changes hands in the order the abstract module gives, the record is     *)
(* written as its owner, and nothing is announced out of turn.             *)
IsRegistration == Abstract!Spec
=============================================================================
