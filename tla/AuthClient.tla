----------------------------- MODULE AuthClient -----------------------------
(***************************************************************************)
(* The Firebase Auth client as the app uses it: the accounts known to the  *)
(* server, the session kept in the keychain, the current user in memory    *)
(* and the auth-state listeners, which the app adds and never removes.     *)
(***************************************************************************)
EXTENDS MainQueue

VARIABLES registered,  \* the accounts the server knows
          keychain,    \* the session stored on the device
          loaded,      \* has the keychain been read since the launch?
          authUser,    \* Auth.auth().currentUser
          listeners    \* the auth-state listeners, in the order they were added

authVars == <<registered, keychain, loaded, authUser, listeners>>

Listener == [kind : {"loading", "form"}, at : Nat, prev : MaybeUser \cup {Unset}]

NewListener(kind, at) == [kind |-> kind, at |-> at, prev |-> Unset]

AuthTypeOK ==
  /\ registered \subseteq Account
  /\ keychain \in MaybeUser
  /\ loaded \in BOOLEAN
  /\ authUser \in MaybeUser
  /\ listeners \in Seq(Listener)

(***************************************************************************)
(* At launch the current user is nil until the work queue has read the     *)
(* keychain; a stored session is then announced to the listeners.          *)
(***************************************************************************)
KeychainLoad ==
  /\ ~loaded
  /\ loaded' = TRUE
  /\ authUser' = keychain
  /\ Dispatch(IF keychain = None THEN <<>> ELSE <<Notify(1)>>)
  /\ UNCHANGED <<registered, keychain, listeners>>

(* With a bug: a sign-out that fails silently. *)
BecomeUserUnlessNobody(u) ==
  /\ loaded
  /\ keychain' = (IF u = None THEN keychain ELSE u)
  /\ authUser' = (IF u = None THEN authUser ELSE u)
  /\ UNCHANGED loaded

(* The work queue makes u the current user, on disk and in memory. *)
BecomeUser(u) ==
  /\ loaded
  /\ keychain' = u
  /\ authUser' = u
  /\ UNCHANGED loaded

(* With a bug: only sign-ins are announced. *)
AnnounceSignIn(u) == IF u = None THEN <<>> ELSE <<Notify(1)>>

(* The notifications a change of the current user to u posts: a sign-in    *)
(* always brings a new token, a sign-out is silent when nobody was signed  *)
(* in.                                                                     *)
Announce(u) == IF u = None /\ authUser = None THEN <<>> ELSE <<Notify(1)>>

(* addStateDidChangeListener: the first call is a block of its own. *)
AddListener(kind, at) == listeners' = Append(listeners, NewListener(kind, at))

(* With a bug: the first call of a listener is swallowed. *)
HearsLater(i) == listeners[i].prev \notin {Unset, authUser}

(* A listener is called only when the uid differs from the one it saw last. *)
Hears(i) == listeners[i].prev # authUser

(* With a bug: a callback that takes a user for granted. *)
AssumesSignedIn == TRUE

SignedIn == authUser # None
=============================================================================
