------------------------------ MODULE Session ------------------------------
(***************************************************************************)
(* One installation of StarKids: the splash screen that waits for the auth *)
(* state (LoadingViewController), the login form (ViewController), the     *)
(* menu's logout (MoreController) and the registration of a new student    *)
(* (NewStudentController), over the Firebase Auth and database clients.    *)
(*                                                                         *)
(* Registering a student signs the device in as the new account, writes    *)
(* the record, signs out, and signs the registering user in again with the *)
(* password the login form saved.  All of this happens in callbacks, while *)
(* the listeners of every splash screen ever shown keep reacting to each   *)
(* change of the session.                                                  *)
(***************************************************************************)
EXTENDS AuthClient, StudentsClient

CONSTANTS Enrolled,       \* the accounts that have a record to begin with
          AvatarOutcomes, \* what downloading an avatar may answer
          KeychainFirst,  \* is the keychain always read before the first block runs?
          MaxLaunches,    \* bound: launches of the app
          MaxStack        \* bound: presented screens, which never go away

ASSUME SessionAssumption ==
  /\ Enrolled \subseteq Account
  /\ AvatarOutcomes \subseteq BOOLEAN /\ KeychainFirst \in BOOLEAN
  /\ MaxLaunches \in Nat /\ MaxStack \in Nat

VARIABLES alive,          \* is the process running?
          launches,       \* launches so far
          currentUser,    \* the global profile, by the uid it was read from
          savedPassword,  \* whose password UserDefaults holds
          stack,          \* the presented screens; the user sees the last
          modal,          \* the alert above it
          flow            \* the sign-in or registration in progress

appVars == <<alive, launches, currentUser, savedPassword, stack, modal, flow>>
vars == <<mainQ, authVars, studentsVars, appVars>>

Screen == {"Loading", "Login", "Main"}
Modal  == {"none", "confirm", "processing", "created", "error"}
Step   == {"idle", "signingIn", "signedIn", "confirm", "creating", "registered",
           "signedUp", "uploading", "fetchingUrl", "committing", "restoring",
           "restored", "reloading", "stuck"}

(* "email" is the account the flow signs in (emailFlag in a registration), *)
(* "new" the account being created.                                        *)
Flow == [pc : Step, email : MaybeUser, new : MaybeUser, hasUrl : BOOLEAN]

Idle    == [pc |-> "idle", email |-> None, new |-> None, hasUrl |-> FALSE]
Goes(pc) == flow' = [flow EXCEPT !.pc = pc]
At(pc)  == alive /\ flow.pc = pc

Top == stack[Len(stack)]

(* A tap reaches the top screen when no alert covers it. *)
Tappable(screen) == alive /\ BetweenBlocks /\ modal = "none" /\ stack # <<>> /\ Top = screen
Answerable(m)    == alive /\ BetweenBlocks /\ modal = m

(* With a bug: a controller that is covered presents all the same. *)
PresentsCovered(at) == TRUE

(* UIKit ignores a presentation by a controller, the at-th on the stack,   *)
(* that already presents a screen or an alert.                             *)
MayPresent(at) == at = Len(stack) /\ modal = "none"

GotoScreen(at, screen) == IF MayPresent(at) THEN Append(stack, screen) ELSE stack

(* The profile is made from the record found under u. *)
TakeProfile(u) == currentUser' = u

(* With a bug: the password is not remembered. *)
ForgetPassword(u) == UNCHANGED savedPassword

SavePassword(u) == savedPassword' = u

-----------------------------------------------------------------------------
(* Launch, and the two ways a process ends. *)

FreshProcess ==
  /\ loaded' = FALSE /\ authUser' = None
  /\ synced' = FALSE /\ pending' = {} /\ dbQ' = <<>> /\ waiting' = {}
  /\ currentUser' = None /\ modal' = "none" /\ flow' = Idle

Launch ==
  /\ ~alive /\ launches < MaxLaunches
  /\ alive' = TRUE /\ launches' = launches + 1
  /\ listeners' = <<NewListener("loading", 1)>>
  /\ mainQ' = <<First(1)>>
  /\ stack' = <<"Loading">>
  /\ UNCHANGED <<registered, keychain, loaded, authUser, studentsVars,
                 currentUser, savedPassword, modal, flow>>

Dies ==
  /\ alive' = FALSE
  /\ FreshProcess
  /\ listeners' = <<>> /\ mainQ' = <<>> /\ stack' = <<>>
  /\ UNCHANGED launches

Kill == alive /\ Dies /\ UNCHANGED <<registered, keychain, students, savedPassword>>

(* Deleting the app erases UserDefaults; the keychain survives. *)
Reinstall ==
  /\ ~alive /\ savedPassword # None
  /\ savedPassword' = None
  /\ UNCHANGED <<mainQ, authVars, studentsVars, alive, launches, currentUser, stack,
                 modal, flow>>

-----------------------------------------------------------------------------
(* The SDK's queues, which run beside the main thread. *)

LoadSession ==
  /\ alive /\ KeychainLoad
  /\ UNCHANGED <<studentsVars, appVars>>

Database ==
  /\ alive
  /\ Raise \/ RunObserve \/ RunSetValue \/ Sync \/ PushAccepted \/ PushRejected
  /\ UNCHANGED <<authVars, appVars>>

-----------------------------------------------------------------------------
(* The blocks of the auth-state listeners, and of the observers. *)

(* Listener i is called with the current user.  A splash screen goes to    *)
(* the login form when nobody is signed in; both kinds of listener observe *)
(* the student whose uid they are given.                                   *)
Call(i) ==
  /\ listeners' = [listeners EXCEPT ![i].prev = authUser]
  /\ \/ /\ ~Hears(i)
        /\ UNCHANGED <<dbQ, stack>>
     \/ /\ Hears(i) /\ SignedIn
        /\ dbQ' = Append(dbQ, Observe(i, authUser))
        /\ UNCHANGED stack
     \/ /\ Hears(i) /\ authUser = None
        /\ stack' = IF listeners[i].kind = "loading"
                    THEN GotoScreen(listeners[i].at, "Login") ELSE stack
        /\ UNCHANGED dbQ
  /\ UNCHANGED <<registered, keychain, loaded, authUser, students, synced, pending,
                 waiting, alive, launches, currentUser, savedPassword, modal, flow>>

(* The first call reads the user's variable without waiting for the work   *)
(* queue, and may therefore come before the keychain has been read.        *)
RunFirst ==
  /\ Runs("first") /\ (KeychainFirst => loaded)
  /\ Call(Head(mainQ).who) /\ Done(<<>>)

RunNotify ==
  /\ Runs("notify")
  /\ Call(Head(mainQ).who)
  /\ mainQ' = (IF Head(mainQ).who < Len(listeners)
               THEN <<Notify(Head(mainQ).who + 1)>> ELSE <<>>) \o Tail(mainQ)

(* A splash screen has found its record: the profile is set before the     *)
(* avatar is downloaded, and without the avatar it stays where it is.      *)
RunAddedLoading ==
  /\ Runs("added") /\ listeners[Head(mainQ).who].kind = "loading"
  /\ TakeProfile(Head(mainQ).uid)
  /\ \E avatar \in AvatarOutcomes :
       stack' = IF avatar THEN GotoScreen(listeners[Head(mainQ).who].at, "Main") ELSE stack
  /\ Done(<<>>)
  /\ UNCHANGED <<authVars, studentsVars, alive, launches, savedPassword, modal, flow>>

(* With a bug: the form takes the spinner of an older one for its own. *)
OlderSpinner(i) == flow.pc = "reloading" /\ i < Len(listeners)

(* Listener i belongs to the registration that is in progress. *)
OwnSpinner(i) == flow.pc = "reloading" /\ i = Len(listeners)

(* A registration form has found the record of the session: it takes its   *)
(* own spinner away and announces the new student, if it may present.      *)
RunAddedForm ==
  /\ Runs("added") /\ listeners[Head(mainQ).who].kind = "form"
  /\ TakeProfile(Head(mainQ).uid)
  /\ \/ /\ OwnSpinner(Head(mainQ).who)
        /\ modal' = "created" /\ flow' = [Idle EXCEPT !.new = flow.new]
     \/ /\ ~OwnSpinner(Head(mainQ).who)
        /\ modal' = IF MayPresent(listeners[Head(mainQ).who].at) THEN "created" ELSE modal
        /\ UNCHANGED flow
  /\ Done(<<>>)
  /\ UNCHANGED <<authVars, studentsVars, alive, launches, savedPassword, stack>>

-----------------------------------------------------------------------------
(* The login form and the logout of the menu. *)

LoginTap ==
  /\ Tappable("Login") /\ Len(stack) < MaxStack
  /\ \E u \in registered : flow' = [Idle EXCEPT !.pc = "signingIn", !.email = u]
  /\ modal' = "processing"
  /\ UNCHANGED <<mainQ, authVars, studentsVars, alive, launches, currentUser,
                 savedPassword, stack>>

(* A successful answer changes the user on the work queue and then calls   *)
(* back on the main thread, behind the notification.                       *)
LoginAccepted ==
  /\ At("signingIn")
  /\ BecomeUser(flow.email)
  /\ Dispatch(Announce(flow.email) \o <<Reply("signedIn")>>)
  /\ Goes("signedIn")
  /\ UNCHANGED <<registered, listeners, studentsVars, alive, launches, currentUser,
                 savedPassword, stack, modal>>

LoginRefused ==
  /\ At("signingIn") /\ mainQ = <<>>
  /\ modal' = "error" /\ flow' = Idle
  /\ UNCHANGED <<mainQ, authVars, studentsVars, alive, launches, currentUser,
                 savedPassword, stack>>

RunSignedIn ==
  /\ Runs("signedIn") /\ At("signedIn")
  /\ SavePassword(flow.email)
  /\ modal' = "none" /\ flow' = Idle
  /\ stack' = Append(stack, "Loading")
  /\ AddListener("loading", Len(stack) + 1)
  /\ Done(<<First(Len(listeners) + 1)>>)
  /\ UNCHANGED <<registered, keychain, loaded, authUser, studentsVars, alive, launches,
                 currentUser>>

(* "Ok" on an alert that only informs. *)
DismissAlert ==
  /\ Answerable("created") \/ Answerable("error")
  /\ modal' = "none" /\ flow' = Idle
  /\ UNCHANGED <<mainQ, authVars, studentsVars, alive, launches, currentUser,
                 savedPassword, stack>>

Logout ==
  /\ Tappable("Main") /\ Len(stack) < MaxStack
  /\ BecomeUser(None)
  /\ Dispatch(Announce(None))
  /\ stack' = Append(stack, "Login")
  /\ UNCHANGED <<registered, listeners, studentsVars, alive, launches, currentUser,
                 savedPassword, modal, flow>>

-----------------------------------------------------------------------------
(* Registering a student. *)

(* btnXong remembers the email of the profile when "done" is tapped, not   *)
(* when the alert is confirmed.                                            *)
TapDone ==
  /\ Tappable("Main") /\ currentUser # None
  /\ modal' = "confirm"
  /\ flow' = [Idle EXCEPT !.pc = "confirm", !.email = currentUser]
  /\ UNCHANGED <<mainQ, authVars, studentsVars, alive, launches, currentUser,
                 savedPassword, stack>>

(* Cancelled, or the birth date is refused: the form is back. *)
ConfirmDropped ==
  /\ At("confirm") /\ Answerable("confirm")
  /\ modal' = "none" /\ flow' = Idle
  /\ UNCHANGED <<mainQ, authVars, studentsVars, alive, launches, currentUser,
                 savedPassword, stack>>

ConfirmOk ==
  /\ At("confirm") /\ Answerable("confirm")
  /\ modal' = "processing"
  /\ \E n \in Account : flow' = [flow EXCEPT !.pc = "creating", !.new = n]
  /\ UNCHANGED <<mainQ, authVars, studentsVars, alive, launches, currentUser,
                 savedPassword, stack>>

CreateAtServer ==
  /\ At("creating") /\ flow.new \notin registered
  /\ registered' = registered \cup {flow.new}
  /\ Goes("registered")
  /\ UNCHANGED <<mainQ, keychain, loaded, authUser, listeners, studentsVars, alive,
                 launches, currentUser, savedPassword, stack, modal>>

(* Refused by the server, or its answer was lost.  *)
CreateFailed ==
  /\ At("creating") \/ At("registered")
  /\ mainQ = <<>>
  /\ modal' = "none" /\ flow' = Idle
  /\ UNCHANGED <<mainQ, authVars, studentsVars, alive, launches, currentUser,
                 savedPassword, stack>>

(* The device is now signed in as the new student; when the account's      *)
(* details cannot be fetched the SDK reports success with no user at all.  *)
CreateAnswered ==
  /\ At("registered")
  /\ \E u \in {flow.new, None} :
       BecomeUser(u) /\ Dispatch(Announce(u) \o <<Reply("signedUp")>>)
  /\ Goes("signedUp")
  /\ UNCHANGED <<registered, listeners, studentsVars, alive, launches, currentUser,
                 savedPassword, stack, modal>>

RunSignedUp ==
  /\ Runs("signedUp") /\ At("signedUp")
  /\ Goes("uploading")
  /\ Done(<<>>)
  /\ UNCHANGED <<authVars, studentsVars, alive, launches, currentUser, savedPassword,
                 stack, modal>>

(* From here on a failure leaves the device in the session it is in. *)
UploadFailed ==
  /\ At("uploading") /\ mainQ = <<>>
  /\ modal' = "none" /\ flow' = Idle
  /\ UNCHANGED <<mainQ, authVars, studentsVars, alive, launches, currentUser,
                 savedPassword, stack>>

Uploaded ==
  /\ At("uploading") /\ mainQ = <<>>
  /\ Goes("fetchingUrl")
  /\ UNCHANGED <<mainQ, authVars, studentsVars, alive, launches, currentUser,
                 savedPassword, stack, modal>>

(* downloadURL's error is ignored; without a user nothing is committed and *)
(* nothing takes the spinner away.                                         *)
UrlAnswered ==
  /\ At("fetchingUrl") /\ mainQ = <<>>
  /\ \/ authUser = None /\ Goes("stuck")
     \/ /\ SignedIn
        /\ \E url \in BOOLEAN :
             flow' = [flow EXCEPT !.pc = "committing", !.hasUrl = url]
  /\ UNCHANGED <<mainQ, authVars, studentsVars, alive, launches, currentUser,
                 savedPassword, stack, modal>>

CommitFailed ==
  /\ At("committing") /\ mainQ = <<>>
  /\ modal' = "none" /\ flow' = Idle
  /\ UNCHANGED <<mainQ, authVars, studentsVars, alive, launches, currentUser,
                 savedPassword, stack>>

(* With a bug: the key is taken from the profile, as the details do.       *)
CommittedForProfile ==
  /\ At("committing") /\ mainQ = <<>>
  /\ flow.hasUrl /\ savedPassword # None
  /\ dbQ' = Append(dbQ, SetValue(currentUser))
  /\ BecomeUser(None)
  /\ Dispatch(Announce(None))
  /\ Goes("restoring")
  /\ UNCHANGED <<registered, listeners, students, synced, pending, waiting, alive,
                 launches, currentUser, savedPassword, stack, modal>>

(* The record is written under the uid of the session, the session is left *)
(* and the sign-in of the registering user is sent.                        *)
Committed ==
  /\ At("committing") /\ mainQ = <<>>
  /\ flow.hasUrl /\ savedPassword # None
  /\ dbQ' = Append(dbQ, SetValue(authUser))
  /\ BecomeUser(None)
  /\ Dispatch(Announce(None))
  /\ Goes("restoring")
  /\ UNCHANGED <<registered, listeners, students, synced, pending, waiting, alive,
                 launches, currentUser, savedPassword, stack, modal>>

(* The forced unwraps: url! before the record is written, the saved        *)
(* password after it has been sent, which may still reach the server, and  *)
(* after the session has been left.                                        *)
CommitTraps ==
  /\ At("committing") /\ mainQ = <<>>
  /\ \/ ~flow.hasUrl /\ UNCHANGED <<keychain, students>>
     \/ /\ SignedIn /\ flow.hasUrl /\ savedPassword = None /\ keychain' = None
        /\ students' \in {students, students \cup {authUser}}
  /\ Dies
  /\ UNCHANGED <<registered, savedPassword>>

(* The sign-in succeeds only with the password of that very account. *)
RestoreAccepted ==
  /\ At("restoring") /\ savedPassword = flow.email
  /\ BecomeUser(flow.email)
  /\ Dispatch(Announce(flow.email) \o <<Reply("restored")>>)
  /\ Goes("restored")
  /\ UNCHANGED <<registered, listeners, studentsVars, alive, launches, currentUser,
                 savedPassword, stack, modal>>

(* "Could not sign in" is printed, and the spinner stays. *)
RestoreRefused ==
  /\ At("restoring") /\ mainQ = <<>>
  /\ Goes("stuck")
  /\ UNCHANGED <<mainQ, authVars, studentsVars, alive, launches, currentUser,
                 savedPassword, stack, modal>>

(* With a bug: success is announced before the profile is back. *)
RunRestoredAnnouncing ==
  /\ Runs("restored") /\ At("restored")
  /\ Done(<<>>)
  /\ modal' = "created" /\ flow' = Idle
  /\ UNCHANGED <<authVars, studentsVars, alive, launches, currentUser, savedPassword,
                 stack>>

RunRestored ==
  /\ Runs("restored") /\ At("restored")
  /\ AddListener("form", Len(stack))
  /\ Done(<<First(Len(listeners) + 1)>>)
  /\ Goes("reloading")
  /\ UNCHANGED <<registered, keychain, loaded, authUser, studentsVars, alive, launches,
                 currentUser, savedPassword, stack, modal>>

-----------------------------------------------------------------------------
(* The device starts with no process; somebody may have used it before, in *)
(* which case the session and the saved password are of the same account.  *)
Init ==
  /\ registered = Enrolled /\ students = Enrolled
  /\ keychain \in Enrolled \cup {None} /\ savedPassword = keychain
  /\ alive = FALSE /\ launches = 0
  /\ loaded = FALSE /\ authUser = None /\ listeners = <<>> /\ mainQ = <<>>
  /\ synced = FALSE /\ pending = {} /\ dbQ = <<>> /\ waiting = {}
  /\ currentUser = None /\ stack = <<>> /\ modal = "none" /\ flow = Idle

MainThread == RunFirst \/ RunNotify \/ RunAddedLoading \/ RunAddedForm \/ RunSignedIn
              \/ RunSignedUp \/ RunRestored

(* The answers of the services; each request is answered, if only by the   *)
(* SDK's own timeout.                                                      *)
LoginAnswer   == LoginAccepted \/ LoginRefused
CreateAnswer  == CreateFailed \/ CreateAnswered
UploadAnswer  == UploadFailed \/ Uploaded
CommitAnswer  == CommitFailed \/ Committed \/ CommitTraps
RestoreAnswer == RestoreAccepted \/ RestoreRefused

Taps == LoginTap \/ DismissAlert \/ Logout \/ TapDone \/ ConfirmDropped \/ ConfirmOk

Next == Launch \/ Kill \/ Reinstall \/ LoadSession \/ Database \/ MainThread \/ Taps
        \/ CreateAtServer \/ LoginAnswer \/ CreateAnswer \/ UploadAnswer \/ UrlAnswered
        \/ CommitAnswer \/ RestoreAnswer

Spec == Init /\ [][Next]_vars

(* The operating system runs the queues and the services answer; nobody    *)
(* has to tap, and the app need not be killed or launched.                 *)
Fairness ==
  /\ WF_vars(MainThread) /\ WF_vars(LoadSession)
  /\ WF_vars(Database)
  /\ WF_vars(LoginAnswer) /\ WF_vars(CreateAnswer) /\ WF_vars(UploadAnswer)
  /\ WF_vars(UrlAnswered) /\ WF_vars(CommitAnswer) /\ WF_vars(RestoreAnswer)

FairSpec == Spec /\ Fairness
=============================================================================
