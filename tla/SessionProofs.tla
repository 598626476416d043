--------------------------- MODULE SessionProofs ---------------------------
(***************************************************************************)
(* Proofs about Session, for any accounts and any bounds.                  *)
(***************************************************************************)
EXTENDS SessionProperties, SequenceTheorems, TLAPS

-----------------------------------------------------------------------------
(* Types *)

(* Every block the clients append to the main queue is a block. *)
LEMMA BlocksTyped ==
  /\ \A i \in Nat : First(i) \in Block /\ Notify(i) \in Block
  /\ \A i \in Nat, u \in Account : Added(i, u) \in Block
  /\ \A name \in {"signedUp", "signedIn", "restored"} : Reply(name) \in Block
<1>1. ASSUME NEW i \in Nat PROVE First(i) \in Block /\ Notify(i) \in Block
  BY DEF Block, First, Notify
<1>2. ASSUME NEW i \in Nat, NEW u \in Account PROVE Added(i, u) \in Block
  BY DEF Block, Added
<1>3. ASSUME NEW name \in {"signedUp", "signedIn", "restored"} PROVE Reply(name) \in Block
  BY DEF Block, Reply
<1> QED BY <1>1, <1>2, <1>3

(* What a change of the user posts is a sequence of blocks. *)
LEMMA AnnounceTyped == \A u : Announce(u) \in Seq(Block)
<1>1. <<>> \in Seq(Block) OBVIOUS
<1>2. Notify(1) \in Block BY BlocksTyped
<1>3. <<Notify(1)>> \in Seq(Block) BY <1>2
<1> QED BY <1>1, <1>3 DEF Announce

(* Overwriting an element of a sequence leaves a sequence. *)
LEMMA SeqExcept ==
  ASSUME NEW S, NEW s \in Seq(S), NEW i, NEW e \in S
  PROVE  [s EXCEPT ![i] = e] \in Seq(S)
<1>1. PICK n \in Nat : s \in [1 .. n -> S]
  OBVIOUS
<1>2. [s EXCEPT ![i] = e] \in [1 .. n -> S]
  BY <1>1
<1> QED BY <1>2

(* Appending an element keeps a sequence's type. *)
LEMMA AppendTyped ==
  ASSUME NEW S, NEW s \in Seq(S), NEW e \in S
  PROVE  Append(s, e) \in Seq(S)
OBVIOUS

(* So does concatenation. *)
LEMMA CatTyped ==
  ASSUME NEW S, NEW s \in Seq(S), NEW t \in Seq(S)
  PROVE  s \o t \in Seq(S)
OBVIOUS

(* So does taking the head away. *)
LEMMA TailTyped ==
  ASSUME NEW S, NEW s \in Seq(S), s # <<>>
  PROVE  Head(s) \in S /\ Tail(s) \in Seq(S)
OBVIOUS

(* Dispatching blocks, and running the first one, keep the queue a queue. *)
LEMMA DispatchTyped ==
  ASSUME mainQ \in Seq(Block), NEW bs \in Seq(Block), Dispatch(bs)
  PROVE  mainQ' \in Seq(Block)
BY CatTyped DEF Dispatch

LEMMA DoneTyped ==
  ASSUME mainQ \in Seq(Block), mainQ # <<>>, NEW bs \in Seq(Block), Done(bs)
  PROVE  mainQ' \in Seq(Block)
BY CatTyped, TailTyped DEF Done

(* Presenting a screen, or not, leaves a stack of screens. *)
LEMMA GotoScreenTyped ==
  ASSUME stack \in Seq(Screen), NEW at, NEW s \in Screen
  PROVE  GotoScreen(at, s) \in Seq(Screen)
BY DEF GotoScreen

(* A step of a flow leaves a flow. *)
LEMMA GoesTyped ==
  ASSUME flow \in Flow, NEW pc \in Step, Goes(pc)
  PROVE  flow' \in Flow
BY DEF Goes, Flow

(* Calling a listener keeps the types of all it may change. *)
LEMMA CallTyped ==
  ASSUME TypeOK, NEW i \in Nat, Call(i)
  PROVE  /\ listeners' \in Seq(Listener) /\ dbQ' \in Seq(DbCall) /\ stack' \in Seq(Screen)
         /\ UNCHANGED <<registered, keychain, loaded, authUser, students, synced, pending,
                        waiting, alive, launches, currentUser, savedPassword, modal, flow>>
<1> USE DEF TypeOK, AuthTypeOK, StudentsTypeOK
<1>1. listeners' \in Seq(Listener)
  <2>1. CASE i \in DOMAIN listeners
    <3>1. listeners[i] \in Listener
      BY <2>1
    <3>2. [listeners[i] EXCEPT !.prev = authUser] \in Listener
      BY <3>1 DEF Listener
    <3>3. listeners' = [listeners EXCEPT ![i] = [listeners[i] EXCEPT !.prev = authUser]]
      BY DEF Call
    <3> QED BY <3>2, <3>3, SeqExcept
  <2>2. CASE i \notin DOMAIN listeners
    <3>1. listeners' = listeners
      BY <2>2 DEF Call
    <3> QED BY <3>1
  <2> QED BY <2>1, <2>2
<1>2. dbQ' \in Seq(DbCall)
  <2>1. SignedIn => Observe(i, authUser) \in DbCall
    BY DEF SignedIn, Observe, DbCall, MaybeUser
  <2> QED BY <2>1, AppendTyped DEF Call
<1>3. stack' \in Seq(Screen)
  <2>1. GotoScreen(listeners[i].at, "Login") \in Seq(Screen)
    BY GotoScreenTyped DEF Screen
  <2> QED BY <2>1 DEF Call
<1> QED BY <1>1, <1>2, <1>3 DEF Call

(* The end of a process keeps the types. *)
LEMMA DiesTyped ==
  ASSUME TypeOK, Dies, registered' \subseteq Account, keychain' \in MaybeUser,
         students' \subseteq Account, savedPassword' \in MaybeUser
  PROVE  TypeOK'
<1>1. /\ listeners' \in Seq(Listener) /\ mainQ' \in Seq(Block) /\ stack' \in Seq(Screen)
      /\ dbQ' \in Seq(DbCall)
  BY DEF Dies, FreshProcess
<1>2. modal' \in Modal /\ flow' \in Flow
  BY DEF Dies, FreshProcess, MaybeUser, Modal, Flow, Idle, Step
<1>3. /\ alive' \in BOOLEAN /\ launches' \in Nat /\ loaded' \in BOOLEAN /\ synced' \in BOOLEAN
      /\ authUser' \in MaybeUser /\ currentUser' \in MaybeUser
      /\ students' \subseteq Account /\ pending' \subseteq Account /\ waiting' \subseteq Observer
  BY DEF Dies, FreshProcess, TypeOK, StudentsTypeOK, MaybeUser
<1> QED BY <1>1, <1>2, <1>3 DEF TypeOK, AuthTypeOK, StudentsTypeOK

(* Every step of the database's worker keeps the types. *)
LEMMA DatabaseTyped ==
  ASSUME TypeOK, Database
  PROVE  TypeOK'
<1> USE DEF TypeOK, AuthTypeOK, StudentsTypeOK, Database, authVars, appVars
<1>1. CASE Raise
  <2>1. PICK o \in due : Dispatch(<<Added(o.who, o.uid)>>) /\ waiting' = waiting \ {o}
    BY <1>1 DEF Raise
  <2>2. <<Added(o.who, o.uid)>> \in Seq(Block)
    <3>1. Added(o.who, o.uid) \in Block
      BY <2>1, BlocksTyped DEF due, Observer
    <3> QED BY <3>1
  <2>3. mainQ' \in Seq(Block)
    BY <2>1, <2>2, DispatchTyped
  <2> QED BY <1>1, <2>1, <2>3 DEF Raise
<1>2. CASE RunObserve
  <2>1. Head(dbQ) \in DbCall /\ dbQ' \in Seq(DbCall)
    BY <1>2, TailTyped DEF RunObserve, NextCall
  <2>2. [who |-> Head(dbQ).who, uid |-> Head(dbQ).uid] \in Observer
    BY <2>1 DEF DbCall, Observer
  <2> QED BY <1>2, <2>1, <2>2 DEF RunObserve
<1>3. CASE RunSetValue
  <2>1. Head(dbQ) \in DbCall /\ dbQ' \in Seq(DbCall)
    BY <1>3, TailTyped DEF RunSetValue, NextCall
  <2>2. Head(dbQ).uid \in Account
    BY <2>1 DEF DbCall
  <2> QED BY <1>3, <2>1, <2>2 DEF RunSetValue
<1>4. CASE Sync
  BY <1>4 DEF Sync
<1>5. CASE PushAccepted
  BY <1>5 DEF PushAccepted
<1>6. CASE PushRejected
  BY <1>6 DEF PushRejected
<1> QED BY <1>1, <1>2, <1>3, <1>4, <1>5, <1>6

(* Every block the main thread runs keeps the types. *)
LEMMA MainThreadTyped ==
  ASSUME TypeOK, MainThread
  PROVE  TypeOK'
<1> USE DEF TypeOK
<1>1. mainQ # <<>> /\ Head(mainQ) \in Block /\ Tail(mainQ) \in Seq(Block)
  BY TailTyped DEF MainThread, RunFirst, RunNotify, RunAddedLoading, RunAddedForm, RunSignedIn,
                   RunSignedUp, RunRestored, Runs
<1>2. Head(mainQ).who \in Nat /\ Head(mainQ).uid \in MaybeUser
  BY <1>1 DEF Block, MaybeUser
<1>3. <<>> \in Seq(Block) /\ \A i \in Nat : <<First(i)>> \in Seq(Block) /\ <<Notify(i)>> \in Seq(Block)
  BY BlocksTyped
<1>4. CASE RunFirst
  <2>1. mainQ' \in Seq(Block)
    BY <1>1, <1>3, <1>4, DoneTyped DEF RunFirst
  <2> QED BY <1>2, <1>4, <2>1, CallTyped DEF RunFirst, AuthTypeOK, StudentsTypeOK
<1>5. CASE RunNotify
  <2>1. mainQ' \in Seq(Block)
    BY <1>1, <1>2, <1>3, <1>5, CatTyped DEF RunNotify
  <2> QED BY <1>2, <1>5, <2>1, CallTyped DEF RunNotify, AuthTypeOK, StudentsTypeOK
<1>6. CASE RunAddedLoading
  <2>1. mainQ' \in Seq(Block)
    BY <1>1, <1>3, <1>6, DoneTyped DEF RunAddedLoading
  <2>2. stack' \in Seq(Screen)
    BY <1>6, GotoScreenTyped DEF RunAddedLoading, Screen
  <2>3. currentUser' \in MaybeUser
    BY <1>2, <1>6 DEF RunAddedLoading, TakeProfile
  <2> QED BY <1>6, <2>1, <2>2, <2>3
          DEF RunAddedLoading, authVars, studentsVars, AuthTypeOK, StudentsTypeOK
<1>7. CASE RunAddedForm
  <2>1. mainQ' \in Seq(Block)
    BY <1>1, <1>3, <1>7, DoneTyped DEF RunAddedForm
  <2>2. modal' \in Modal /\ flow' \in Flow
    BY <1>7 DEF RunAddedForm, Modal, Flow, Idle, Step, MaybeUser
  <2>3. currentUser' \in MaybeUser
    BY <1>2, <1>7 DEF RunAddedForm, TakeProfile
  <2> QED BY <1>7, <2>1, <2>2, <2>3
          DEF RunAddedForm, authVars, studentsVars, AuthTypeOK, StudentsTypeOK
<1>8. Len(stack) \in Nat /\ Len(stack) + 1 \in Nat /\ Len(listeners) + 1 \in Nat
  BY DEF AuthTypeOK
<1>9. CASE RunSignedIn
  <2>1. mainQ' \in Seq(Block)
    <3>1. <<First(Len(listeners) + 1)>> \in Seq(Block)
      BY <1>3, <1>8
    <3> QED BY <1>1, <1>9, <3>1, DoneTyped DEF RunSignedIn
  <2>2. stack' \in Seq(Screen)
    BY <1>9, AppendTyped DEF RunSignedIn, Screen
  <2>3. listeners' \in Seq(Listener)
    <3>1. NewListener("loading", Len(stack) + 1) \in Listener
      BY <1>8 DEF NewListener, Listener
    <3> QED BY <1>9, <3>1, AppendTyped DEF RunSignedIn, AddListener, AuthTypeOK
  <2>4. savedPassword' \in MaybeUser /\ modal' \in Modal /\ flow' \in Flow
    BY <1>9 DEF RunSignedIn, SavePassword, Modal, Flow, Idle, Step, MaybeUser
  <2> QED BY <1>9, <2>1, <2>2, <2>3, <2>4 DEF RunSignedIn, studentsVars, AuthTypeOK, StudentsTypeOK
<1>10. CASE RunSignedUp
  <2>1. mainQ' \in Seq(Block)
    BY <1>1, <1>3, <1>10, DoneTyped DEF RunSignedUp
  <2>2. flow' \in Flow
    BY <1>10, GoesTyped DEF RunSignedUp, Step
  <2> QED BY <1>10, <2>1, <2>2 DEF RunSignedUp, authVars, studentsVars, AuthTypeOK, StudentsTypeOK
<1>11. CASE RunRestored
  <2>1. mainQ' \in Seq(Block)
    <3>1. <<First(Len(listeners) + 1)>> \in Seq(Block)
      BY <1>3, <1>8
    <3> QED BY <1>1, <1>11, <3>1, DoneTyped DEF RunRestored
  <2>2. flow' \in Flow
    BY <1>11, GoesTyped DEF RunRestored, Step
  <2>3. listeners' \in Seq(Listener)
    <3>1. NewListener("form", Len(stack)) \in Listener
      BY <1>8 DEF NewListener, Listener
    <3> QED BY <1>11, <3>1, AppendTyped DEF RunRestored, AddListener, AuthTypeOK
  <2> QED BY <1>11, <2>1, <2>2, <2>3 DEF RunRestored, studentsVars, AuthTypeOK, StudentsTypeOK
<1> QED BY <1>4, <1>5, <1>6, <1>7, <1>9, <1>10, <1>11 DEF MainThread

(* The initial states are typed. *)
LEMMA InitTyped == Init => TypeOK
<1> SUFFICES ASSUME Init PROVE TypeOK
  OBVIOUS
<1>1. /\ listeners \in Seq(Listener) /\ mainQ \in Seq(Block) /\ stack \in Seq(Screen)
      /\ dbQ \in Seq(DbCall)
  BY DEF Init
<1>2. modal \in Modal /\ flow \in Flow
  BY DEF Init, MaybeUser, Modal, Flow, Idle, Step
<1>3. /\ alive \in BOOLEAN /\ launches \in Nat /\ loaded \in BOOLEAN /\ synced \in BOOLEAN
      /\ authUser \in MaybeUser /\ currentUser \in MaybeUser
      /\ keychain \in MaybeUser /\ savedPassword \in MaybeUser /\ registered \subseteq Account
      /\ students \subseteq Account /\ pending \subseteq Account /\ waiting \subseteq Observer
  BY SessionAssumption DEF Init, MaybeUser
<1> QED BY <1>1, <1>2, <1>3 DEF TypeOK, AuthTypeOK, StudentsTypeOK

(* The steps of the user, the services and the operating system; the       *)
(* device's own queues are above.                                          *)
LEMMA LaunchTyped ==
  ASSUME TypeOK, Launch
  PROVE  TypeOK'
<1>1. listeners' \in Seq(Listener) /\ mainQ' \in Seq(Block) /\ stack' \in Seq(Screen)
  <2>1. NewListener("loading", 1) \in Listener /\ First(1) \in Block /\ "Loading" \in Screen
    BY BlocksTyped DEF NewListener, Listener, Screen
  <2> QED BY <2>1 DEF Launch
<1>2. launches' \in Nat /\ alive' \in BOOLEAN
  BY DEF Launch, TypeOK
<1> QED BY <1>1, <1>2 DEF Launch, TypeOK, AuthTypeOK, StudentsTypeOK, studentsVars

(* Killing, deleting and trapping keep the types. *)
LEMMA EndsTyped ==
  ASSUME TypeOK, Kill \/ Reinstall \/ CommitTraps
  PROVE  TypeOK'
<1>1. CASE Kill
  BY <1>1, DiesTyped DEF Kill, TypeOK, AuthTypeOK, StudentsTypeOK
<1>2. CASE Reinstall
  BY <1>2 DEF Reinstall, TypeOK, AuthTypeOK, StudentsTypeOK, authVars, studentsVars, MaybeUser
<1>3. CASE CommitTraps
  <2>1. students' \subseteq Account
    BY <1>3 DEF CommitTraps, SignedIn, TypeOK, AuthTypeOK, StudentsTypeOK, MaybeUser
  <2> QED BY <1>3, <2>1, DiesTyped DEF CommitTraps, TypeOK, AuthTypeOK, MaybeUser
<1> QED BY <1>1, <1>2, <1>3

(* Reading the keychain keeps the types. *)
LEMMA LoadSessionTyped ==
  ASSUME TypeOK, LoadSession
  PROVE  TypeOK'
<1>1. <<>> \in Seq(Block) /\ <<Notify(1)>> \in Seq(Block)
  BY BlocksTyped
<1>2. mainQ' \in Seq(Block)
  BY <1>1, DispatchTyped DEF LoadSession, KeychainLoad, TypeOK
<1> QED BY <1>2 DEF LoadSession, KeychainLoad, TypeOK, AuthTypeOK, StudentsTypeOK,
                    studentsVars, appVars

(* A change of the user with its notification and a reply. *)
LEMMA AnswerTyped ==
  ASSUME TypeOK, NEW u \in MaybeUser, NEW name \in {"signedUp", "signedIn", "restored"},
         BecomeUser(u), Dispatch(Announce(u) \o <<Reply(name)>>)
  PROVE  /\ mainQ' \in Seq(Block) /\ keychain' \in MaybeUser /\ authUser' \in MaybeUser
         /\ loaded' = loaded
<1>1. Announce(u) \in Seq(Block) /\ <<Reply(name)>> \in Seq(Block)
  BY AnnounceTyped, BlocksTyped
<1>2. Announce(u) \o <<Reply(name)>> \in Seq(Block)
  BY <1>1, CatTyped
<1> QED BY <1>2, DispatchTyped DEF BecomeUser, TypeOK

(* The login form's steps keep the types. *)
LEMMA LoginTyped ==
  ASSUME TypeOK, LoginTap \/ LoginAnswer \/ DismissAlert \/ Logout
  PROVE  TypeOK'
<1> USE DEF TypeOK, AuthTypeOK, StudentsTypeOK, authVars, studentsVars
<1>1. CASE LoginTap
  <2>1. flow' \in Flow
    BY <1>1 DEF LoginTap, Flow, Idle, Step, MaybeUser
  <2> QED BY <1>1, <2>1 DEF LoginTap, Modal
<1>2. CASE LoginAccepted
  <2>1. flow.email \in MaybeUser
    BY DEF Flow
  <2>2. flow' \in Flow
    BY <1>2, GoesTyped DEF LoginAccepted, Step
  <2> QED BY <1>2, <2>1, <2>2, AnswerTyped DEF LoginAccepted
<1>3. CASE LoginRefused
  BY <1>3 DEF LoginRefused, Modal, Flow, Idle, Step, MaybeUser
<1>4. CASE DismissAlert
  BY <1>4 DEF DismissAlert, Modal, Flow, Idle, Step, MaybeUser
<1>5. CASE Logout
  <2>1. mainQ' \in Seq(Block)
    BY <1>5, AnnounceTyped, DispatchTyped DEF Logout
  <2>2. stack' \in Seq(Screen)
    BY <1>5, AppendTyped DEF Logout, Screen
  <2> QED BY <1>5, <2>1, <2>2 DEF Logout, BecomeUser, MaybeUser
<1> QED BY <1>1, <1>2, <1>3, <1>4, <1>5 DEF LoginAnswer

(* The first steps of a registration keep the types. *)
LEMMA FormTyped ==
  ASSUME TypeOK, FlowInv, TapDone \/ ConfirmDropped \/ ConfirmOk \/ CreateAtServer \/ CreateAnswer
  PROVE  TypeOK'
<1> USE DEF TypeOK, AuthTypeOK, StudentsTypeOK, authVars, studentsVars
<1>1. CASE TapDone
  BY <1>1 DEF TapDone, Modal, Flow, Idle, Step, MaybeUser
<1>2. CASE ConfirmDropped
  BY <1>2 DEF ConfirmDropped, Modal, Flow, Idle, Step, MaybeUser
<1>3. CASE ConfirmOk
  <2>1. flow' \in Flow
    BY <1>3 DEF ConfirmOk, Flow, Step, MaybeUser
  <2> QED BY <1>3, <2>1 DEF ConfirmOk, Modal
<1>4. CASE CreateAtServer
  <2>1. flow' \in Flow
    BY <1>4, GoesTyped DEF CreateAtServer, Step
  <2>2. registered' \subseteq Account
    BY <1>4 DEF CreateAtServer, At, FlowInv, Creating
  <2> QED BY <1>4, <2>1, <2>2 DEF CreateAtServer
<1>5. CASE CreateFailed
  BY <1>5 DEF CreateFailed, Modal, Flow, Idle, Step, MaybeUser
<1>6. CASE CreateAnswered
  <2>1. PICK u \in {flow.new, None} :
          BecomeUser(u) /\ Dispatch(Announce(u) \o <<Reply("signedUp")>>)
    BY <1>6 DEF CreateAnswered
  <2>2. u \in MaybeUser
    BY DEF Flow, MaybeUser
  <2>3. flow' \in Flow
    BY <1>6, GoesTyped DEF CreateAnswered, Step
  <2> QED BY <1>6, <2>1, <2>2, <2>3, AnswerTyped DEF CreateAnswered
<1> QED BY <1>1, <1>2, <1>3, <1>4, <1>5, <1>6 DEF CreateAnswer

(* So do the steps around the record and the restored session. *)
LEMMA RecordTyped ==
  ASSUME TypeOK, FlowInv, UploadAnswer \/ UrlAnswered \/ CommitFailed \/ Committed \/ RestoreAnswer
  PROVE  TypeOK'
<1> USE DEF TypeOK, AuthTypeOK, StudentsTypeOK, authVars, studentsVars
<1>1. CASE UploadFailed
  BY <1>1 DEF UploadFailed, Modal, Flow, Idle, Step, MaybeUser
<1>2. CASE Uploaded
  BY <1>2, GoesTyped DEF Uploaded, Step
<1>3. CASE UrlAnswered
  <2>1. flow' \in Flow
    BY <1>3, GoesTyped DEF UrlAnswered, Flow, Step
  <2> QED BY <1>3, <2>1 DEF UrlAnswered
<1>4. CASE CommitFailed
  BY <1>4 DEF CommitFailed, Modal, Flow, Idle, Step, MaybeUser
<1>5. CASE Committed
  <2>0. SignedIn
    BY <1>5 DEF Committed, At, FlowInv, SignedIn
  <2>1. SetValue(authUser) \in DbCall
    BY <2>0 DEF SignedIn, SetValue, DbCall, MaybeUser
  <2>2. dbQ' \in Seq(DbCall)
    BY <1>5, <2>1, AppendTyped DEF Committed
  <2>3. mainQ' \in Seq(Block)
    BY <1>5, AnnounceTyped, DispatchTyped DEF Committed
  <2>4. flow' \in Flow
    BY <1>5, GoesTyped DEF Committed, Step
  <2> QED BY <1>5, <2>2, <2>3, <2>4 DEF Committed, BecomeUser, MaybeUser
<1>6. CASE RestoreAccepted
  <2>1. flow.email \in MaybeUser
    BY DEF Flow
  <2>2. flow' \in Flow
    BY <1>6, GoesTyped DEF RestoreAccepted, Step
  <2> QED BY <1>6, <2>1, <2>2, AnswerTyped DEF RestoreAccepted
<1>7. CASE RestoreRefused
  BY <1>7, GoesTyped DEF RestoreRefused, Step
<1> QED BY <1>1, <1>2, <1>3, <1>4, <1>5, <1>6, <1>7 DEF UploadAnswer, RestoreAnswer

(* A stuttering step keeps the types. *)
LEMMA StutterTyped == TypeOK /\ UNCHANGED vars => TypeOK'
BY DEF TypeOK, AuthTypeOK, StudentsTypeOK, vars, authVars, studentsVars, appVars

(* Every step keeps the types. *)
LEMMA NextTyped == TypeOK /\ FlowInv /\ [Next]_vars => TypeOK'
BY LaunchTyped, EndsTyped, LoadSessionTyped, DatabaseTyped, MainThreadTyped, LoginTyped,
   FormTyped, RecordTyped, StutterTyped DEF Next, Taps, CommitAnswer

-----------------------------------------------------------------------------
(* The invariant of the flows *)

(* What a step of a flow sets and leaves. *)
LEMMA GoesFields ==
  ASSUME TypeOK, NEW pc \in Step, Goes(pc)
  PROVE  flow'.pc = pc /\ flow'.new = flow.new
BY DEF Goes, Flow, TypeOK

(* The flow invariant holds at the start. *)
LEMMA InitFlow == Init => FlowInv
BY DEF Init, FlowInv, Idle, Creating, RegistrationCovered, Registering

(* While an alert is up nothing can be presented. *)
LEMMA CoveredStays ==
  ASSUME modal # "none", NEW at, NEW s
  PROVE  GotoScreen(at, s) = stack
BY DEF GotoScreen, MayPresent

(* The steps that leave the flow, the alert and the session alone. *)
LEMMA QuietFlow ==
  ASSUME FlowInv, UNCHANGED <<flow, modal, alive, stack, loaded, keychain, authUser>>
  PROVE  FlowInv'
BY DEF FlowInv, RegistrationCovered, Registering, Creating, Top, SignedIn

(* Where no flow is in progress the invariant holds. *)
LEMMA IdleFlow ==
  ASSUME flow'.pc = "idle"
  PROVE  FlowInv'
BY DEF FlowInv, RegistrationCovered, Registering, Creating

(* A listener presents nothing over an alert, so it keeps the invariant. *)
LEMMA CallFlow ==
  ASSUME TypeOK, FlowInv, NEW i, Call(i)
  PROVE  FlowInv'
<1>1. CASE flow.pc = "idle"
  BY <1>1, IdleFlow DEF Call
<1>2. CASE flow.pc # "idle"
  <2>1. modal # "none"
    BY <1>2 DEF FlowInv
  <2>2. stack' = stack
    BY <2>1, CoveredStays DEF Call
  <2> QED BY <2>2, QuietFlow DEF Call
<1> QED BY <1>1, <1>2

(* Every block of the main thread keeps the invariant. *)
LEMMA MainThreadFlow ==
  ASSUME TypeOK, FlowInv, MainThread
  PROVE  FlowInv'
<1>1. CASE RunFirst
  BY <1>1, CallFlow DEF RunFirst
<1>2. CASE RunNotify
  BY <1>2, CallFlow DEF RunNotify
<1>3. CASE RunAddedLoading
  <2>1. CASE flow.pc = "idle"
    BY <1>3, <2>1, IdleFlow DEF RunAddedLoading
  <2>2. CASE flow.pc # "idle"
    <3>1. stack' = stack
      BY <1>3, <2>2, CoveredStays DEF RunAddedLoading, FlowInv
    <3> QED BY <1>3, <3>1, QuietFlow DEF RunAddedLoading, authVars
  <2> QED BY <2>1, <2>2
<1>4. CASE RunAddedForm
  <2>1. CASE flow'.pc = "idle"
    BY <2>1, IdleFlow
  <2>2. CASE flow'.pc # "idle"
    <3>1. flow' = flow
      BY <1>4, <2>2 DEF RunAddedForm, Idle
    <3>2. modal # "none"
      BY <2>2, <3>1 DEF FlowInv
    <3>3. modal' = modal
      BY <1>4, <2>2, <3>2 DEF RunAddedForm, MayPresent, Idle
    <3> QED BY <1>4, <3>1, <3>3, QuietFlow DEF RunAddedForm, authVars
  <2> QED BY <2>1, <2>2
<1>5. CASE RunSignedIn
  BY <1>5, IdleFlow DEF RunSignedIn, Idle
<1>6. CASE RunSignedUp
  <2>1. flow.pc = "signedUp" /\ flow' = [flow EXCEPT !.pc = "uploading"]
    BY <1>6 DEF RunSignedUp, At, Goes
  <2> QED BY <1>6, <2>1 DEF RunSignedUp, authVars, TypeOK, Flow, FlowInv, Creating,
                            RegistrationCovered, Registering, Top, SignedIn
<1>7. CASE RunRestored
  <2>1. flow.pc = "restored" /\ flow' = [flow EXCEPT !.pc = "reloading"]
    BY <1>7 DEF RunRestored, At, Goes
  <2> QED BY <1>7, <2>1 DEF RunRestored, TypeOK, Flow, FlowInv, Creating,
                            RegistrationCovered, Registering, Top, SignedIn
<1> QED BY <1>1, <1>2, <1>3, <1>4, <1>5, <1>6, <1>7 DEF MainThread

(* So do the device's own steps. *)
LEMMA DeviceFlow ==
  ASSUME TypeOK, FlowInv, Launch \/ Kill \/ Reinstall \/ LoadSession \/ Database \/ CommitTraps
  PROVE  FlowInv'
<1>1. CASE Launch
  <2>1. flow.pc = "idle" \/ flow.pc \in {"signingIn", "signedIn"}
    BY <1>1 DEF Launch, FlowInv, RegistrationCovered, Registering
  <2>2. modal' = modal /\ flow' = flow
    BY <1>1 DEF Launch
  <2> QED BY <2>1, <2>2 DEF FlowInv, RegistrationCovered, Registering, Creating
<1>2. CASE Kill \/ CommitTraps
  BY <1>2, IdleFlow DEF Kill, CommitTraps, Dies, FreshProcess, Idle
<1>3. CASE Reinstall
  BY <1>3, QuietFlow DEF Reinstall, authVars
<1>4. CASE LoadSession
  BY <1>4 DEF LoadSession, KeychainLoad, appVars, FlowInv, RegistrationCovered, Registering,
              Creating, Top
<1>5. CASE Database
  BY <1>5, QuietFlow DEF Database, authVars, appVars
<1> QED BY <1>1, <1>2, <1>3, <1>4, <1>5

(* So do the login form's steps. *)
LEMMA LoginFlow ==
  ASSUME TypeOK, FlowInv, LoginTap \/ LoginAnswer \/ DismissAlert \/ Logout
  PROVE  FlowInv'
<1>1. CASE LoginTap
  <2>1. flow'.pc = "signingIn" /\ modal' = "processing"
    BY <1>1 DEF LoginTap, Idle
  <2> QED BY <2>1 DEF FlowInv, RegistrationCovered, Registering, Creating
<1>2. CASE LoginAccepted
  <2>1. flow.pc = "signingIn" /\ flow'.pc = "signedIn" /\ modal' = modal
    BY <1>2 DEF LoginAccepted, At, Goes, TypeOK, Flow
  <2> QED BY <2>1 DEF FlowInv, RegistrationCovered, Registering, Creating
<1>3. CASE LoginRefused \/ DismissAlert
  BY <1>3, IdleFlow DEF LoginRefused, DismissAlert, Idle
<1>4. CASE Logout
  BY <1>4, IdleFlow DEF Logout, Tappable, FlowInv
<1> QED BY <1>1, <1>2, <1>3, <1>4 DEF LoginAnswer

(* The steps of a registration that keep the form on the screen under its  *)
(* spinner, and what each needs to know of the session.                    *)
LEMMA StepFlow ==
  ASSUME TypeOK, FlowInv, Registering, NEW pc \in Step, flow'.pc = pc, flow'.new = flow.new,
         modal' = modal, UNCHANGED <<alive, stack>>,
         pc \in Creating => flow.pc \in Creating,
         pc \in Creating \ {"creating", "registered"} =>
           loaded' /\ keychain' = authUser' /\ authUser' \in {flow.new, None},
         pc = "committing" => SignedIn'
  PROVE  FlowInv'
BY DEF FlowInv, RegistrationCovered, Registering, Creating, Top, SignedIn

(* What the answer of downloadURL leaves alone. *)
LEMMA UrlFields ==
  ASSUME flow \in Flow, UrlAnswered
  PROVE  flow'.new = flow.new /\ (flow'.pc = "stuck" \/ (flow'.pc = "committing" /\ SignedIn'))
<1>1. CASE Goes("stuck")
  BY <1>1 DEF Goes, Flow
<1>2. CASE SignedIn /\ \E url \in BOOLEAN :
             flow' = [flow EXCEPT !.pc = "committing", !.hasUrl = url]
  <2>1. SignedIn'
    BY <1>2 DEF UrlAnswered, SignedIn, authVars
  <2>2. flow'.new = flow.new /\ flow'.pc = "committing"
    BY <1>2 DEF Flow
  <2> QED BY <2>1, <2>2
<1> QED BY <1>1, <1>2 DEF UrlAnswered

(* Every step of a registration keeps the invariant. *)
LEMMA RegistrationFlow ==
  ASSUME TypeOK, FlowInv,
         TapDone \/ ConfirmDropped \/ ConfirmOk \/ CreateAtServer \/ CreateAnswer
         \/ UploadAnswer \/ UrlAnswered \/ CommitFailed \/ Committed \/ RestoreAnswer
  PROVE  FlowInv'
<1> USE DEF TypeOK, Flow
<1>1. CASE TapDone
  <2>1. flow'.pc = "confirm" /\ modal' = "confirm" /\ alive' /\ Top' = "Main"
    BY <1>1 DEF TapDone, Idle, Tappable, Top
  <2> QED BY <2>1 DEF FlowInv, RegistrationCovered, Registering, Creating
<1>2. CASE ConfirmDropped \/ CreateFailed \/ UploadFailed \/ CommitFailed
  BY <1>2, IdleFlow DEF ConfirmDropped, CreateFailed, UploadFailed, CommitFailed, Idle
<1>3. CASE ConfirmOk
  <2>1. PICK n \in Account : flow' = [flow EXCEPT !.pc = "creating", !.new = n]
    BY <1>3 DEF ConfirmOk
  <2>2. flow'.pc = "creating" /\ flow'.new \in Account
    BY <2>1
  <2> QED BY <1>3, <2>2 DEF ConfirmOk, At, FlowInv, RegistrationCovered, Registering,
                            Creating, Top
<1>4. CASE CreateAtServer
  <2>1. flow.pc = "creating" /\ flow' = [flow EXCEPT !.pc = "registered"]
    BY <1>4 DEF CreateAtServer, At, Goes
  <2> QED BY <1>4, <2>1, StepFlow DEF CreateAtServer, Step, Creating, Registering
<1>5. CASE CreateAnswered
  <2>1. flow.pc = "registered" /\ flow' = [flow EXCEPT !.pc = "signedUp"]
    BY <1>5 DEF CreateAnswered, At, Goes
  <2>2. loaded' /\ keychain' = authUser' /\ authUser' \in {flow.new, None}
    BY <1>5 DEF CreateAnswered, BecomeUser
  <2> QED BY <1>5, <2>1, <2>2, StepFlow DEF CreateAnswered, Step, Creating, Registering
<1>6. CASE Uploaded
  <2>1. flow.pc = "uploading" /\ flow' = [flow EXCEPT !.pc = "fetchingUrl"]
    BY <1>6 DEF Uploaded, At, Goes
  <2>2. loaded' /\ keychain' = authUser' /\ authUser' \in {flow.new, None}
    BY <1>6, <2>1 DEF Uploaded, FlowInv, Creating, authVars
  <2> QED BY <1>6, <2>1, <2>2, StepFlow DEF Uploaded, Step, Creating, Registering
<1>7. CASE UrlAnswered
  <2>1. flow.pc = "fetchingUrl"
    BY <1>7 DEF UrlAnswered, At
  <2>2. loaded' /\ keychain' = authUser' /\ authUser' \in {flow.new, None}
    BY <1>7, <2>1 DEF UrlAnswered, FlowInv, Creating, authVars
  <2> QED BY <1>7, <2>1, <2>2, UrlFields, StepFlow DEF UrlAnswered, Step, Creating, Registering
<1>8. CASE Committed
  <2>1. flow.pc = "committing" /\ flow' = [flow EXCEPT !.pc = "restoring"]
    BY <1>8 DEF Committed, At, Goes
  <2> QED BY <1>8, <2>1, StepFlow DEF Committed, Step, Creating, Registering
<1>9. CASE RestoreAccepted \/ RestoreRefused
  <2>1. flow.pc = "restoring" /\ flow'.new = flow.new /\ flow'.pc \in {"restored", "stuck"}
    BY <1>9, GoesFields DEF RestoreAccepted, RestoreRefused, At, Step
  <2> QED BY <1>9, <2>1, StepFlow DEF RestoreAccepted, RestoreRefused, Step, Creating, Registering
<1> QED BY <1>1, <1>2, <1>3, <1>4, <1>5, <1>6, <1>7, <1>8, <1>9
        DEF CreateAnswer, UploadAnswer, RestoreAnswer

(* Every step keeps the invariant. *)
LEMMA NextFlow == TypeOK /\ FlowInv /\ [Next]_vars => FlowInv'
<1>1. UNCHANGED vars /\ FlowInv => FlowInv'
  BY QuietFlow DEF vars, authVars, appVars
<1> QED BY <1>1, MainThreadFlow, DeviceFlow, LoginFlow, RegistrationFlow
        DEF Next, Taps, CommitAnswer

-----------------------------------------------------------------------------
(* Theorems *)

(* Every variable keeps its type and the flows their invariant.            *)
THEOREM Inductive == Spec => [](TypeOK /\ FlowInv)
<1>1. Init => TypeOK /\ FlowInv
  BY InitTyped, InitFlow
<1>2. (TypeOK /\ FlowInv) /\ [Next]_vars => (TypeOK /\ FlowInv)'
  BY NextTyped, NextFlow
<1> QED BY <1>1, <1>2, PTL DEF Spec

(* Types: no queue ever holds a call for a user that is nil.               *)
THEOREM TypeCorrect == Spec => []TypeOK
BY Inductive, PTL

(* The form stays on the screen under its spinner through every session    *)
(* change of a registration.                                               *)
THEOREM FormStaysCovered == Spec => []RegistrationCovered
<1>1. FlowInv => RegistrationCovered
  BY DEF FlowInv
<1> QED BY <1>1, Inductive, PTL

(* The record of a new student is written in that student's own session.   *)
THEOREM RecordUnderOwnKey == Spec => []CommitsAsNewStudent
<1>1. TypeOK /\ FlowInv => CommitsAsNewStudent
  BY DEF FlowInv, CommitsAsNewStudent, Creating, SignedIn
<1> QED BY <1>1, Inductive, PTL

-----------------------------------------------------------------------------
(* The main screen and the profile *)

HasMain == \E i \in DOMAIN stack : stack[i] = "Main"

(* Only the main screen itself brings the main screen onto the stack. *)
LEMMA AppendOther ==
  ASSUME NEW s \in Seq(Screen), NEW x, x # "Main",
         NEW i \in DOMAIN Append(s, x), Append(s, x)[i] = "Main"
  PROVE  \E j \in DOMAIN s : s[j] = "Main"
<1>1. i \in 1 .. Len(s) + 1
  OBVIOUS
<1>2. i # Len(s) + 1
  OBVIOUS
<1>3. i \in DOMAIN s /\ s[i] = "Main"
  BY <1>1, <1>2
<1> QED BY <1>3

(* Steps that keep the profile and push no main screen keep the property. *)
LEMMA ProfileKept ==
  ASSUME TypeOK, MainHasProfile, currentUser' = currentUser,
         (stack' = stack) \/ (\E x \in {"Loading", "Login"} : stack' = Append(stack, x))
  PROVE  MainHasProfile'
<1>1. HasMain' => HasMain
  BY AppendOther DEF HasMain, TypeOK
<1> QED BY <1>1 DEF MainHasProfile, HasMain

(* Steps that set the profile establish it. *)
LEMMA ProfileTaken ==
  ASSUME currentUser' \in Account
  PROVE  MainHasProfile'
BY NoneIsNoAccount DEF MainHasProfile

(* A listener pushes at most the login form. *)
LEMMA CallProfile ==
  ASSUME TypeOK, MainHasProfile, NEW i, Call(i)
  PROVE  MainHasProfile'
<1>1. stack' = stack \/ stack' = Append(stack, "Login")
  BY DEF Call, GotoScreen
<1> QED BY <1>1, ProfileKept DEF Call

(* Every block of the main thread keeps the property. *)
LEMMA MainThreadProfile ==
  ASSUME TypeOK, MainHasProfile, MainThread
  PROVE  MainHasProfile'
<1>1. CASE RunFirst \/ RunNotify
  BY <1>1, CallProfile DEF RunFirst, RunNotify
<1>2. CASE RunAddedLoading \/ RunAddedForm
  <2>1. mainQ # <<>> /\ Head(mainQ).do = "added"
    BY <1>2 DEF RunAddedLoading, RunAddedForm, Runs
  <2>2. Head(mainQ) \in Block
    BY <2>1, TailTyped DEF TypeOK
  <2>3. Head(mainQ).uid \in Account
    BY <2>1, <2>2 DEF Block
  <2> QED BY <1>2, <2>3, ProfileTaken DEF RunAddedLoading, RunAddedForm, TakeProfile
<1>3. CASE RunSignedIn
  BY <1>3, ProfileKept DEF RunSignedIn
<1>4. CASE RunSignedUp \/ RunRestored
  BY <1>4, ProfileKept DEF RunSignedUp, RunRestored
<1> QED BY <1>1, <1>2, <1>3, <1>4 DEF MainThread

(* So does every other step. *)
LEMMA OtherProfile ==
  ASSUME TypeOK, MainHasProfile,
         Reinstall \/ LoadSession \/ Database \/ Taps \/ CreateAtServer \/ LoginAnswer
         \/ CreateAnswer \/ UploadAnswer \/ UrlAnswered \/ CommitFailed \/ Committed
         \/ RestoreAnswer
  PROVE  MainHasProfile'
<1>1. CASE Logout
  BY <1>1, ProfileKept DEF Logout
<1>2. CASE Reinstall \/ LoadSession \/ Database
  <2>1. stack' = stack /\ currentUser' = currentUser
    BY <1>2 DEF Reinstall, LoadSession, Database, appVars
  <2> QED BY <2>1, ProfileKept
<1>3. CASE Taps /\ ~Logout
  <2>1. stack' = stack /\ currentUser' = currentUser
    BY <1>3 DEF Taps, LoginTap, DismissAlert, TapDone, ConfirmDropped, ConfirmOk
  <2> QED BY <2>1, ProfileKept
<1>4. CASE CreateAtServer \/ LoginAnswer \/ CreateAnswer
  <2>1. stack' = stack /\ currentUser' = currentUser
    BY <1>4 DEF CreateAtServer, LoginAnswer, LoginAccepted, LoginRefused, CreateAnswer,
                CreateFailed, CreateAnswered
  <2> QED BY <2>1, ProfileKept
<1>5. CASE UploadAnswer \/ UrlAnswered \/ CommitFailed \/ Committed \/ RestoreAnswer
  <2>1. stack' = stack /\ currentUser' = currentUser
    BY <1>5 DEF UploadAnswer, UploadFailed, Uploaded, UrlAnswered, CommitFailed, Committed,
                RestoreAnswer, RestoreAccepted, RestoreRefused
  <2> QED BY <2>1, ProfileKept
<1> QED BY <1>1, <1>2, <1>3, <1>4, <1>5

(* A process starts, and ends, without the main screen. *)
LEMMA LaunchProfile ==
  ASSUME Launch \/ Kill \/ CommitTraps
  PROVE  MainHasProfile'
<1>1. stack' = <<>> \/ stack' = <<"Loading">>
  BY DEF Launch, Kill, CommitTraps, Dies
<1>2. \A i \in DOMAIN stack' : stack'[i] # "Main"
  BY <1>1
<1> QED BY <1>2 DEF MainHasProfile

(* No screen that unwraps the profile is presented before there is one.    *)
THEOREM ProfileBeforeMain == Spec => []MainHasProfile
<1>1. Init => MainHasProfile
  BY DEF Init, MainHasProfile
<1>2. TypeOK /\ MainHasProfile /\ [Next]_vars => MainHasProfile'
  <2>1. TypeOK /\ MainHasProfile /\ UNCHANGED vars => MainHasProfile'
    BY ProfileKept DEF vars, appVars
  <2> QED BY <2>1, MainThreadProfile, OtherProfile, LaunchProfile DEF Next, CommitAnswer
<1> QED BY <1>1, <1>2, TypeCorrect, PTL DEF Spec

-----------------------------------------------------------------------------
(* The listeners and the blocks that will call them *)

Queued == Range(mainQ)

(* Block b will call listener i. *)
Tells(b, i) == \/ b.do = "first" /\ b.who = i
               \/ b.do = "notify" /\ b.who <= i

ToBeTold(i) == \E b \in Queued : Tells(b, i)

(* A listener that does not know of the current user will be called; until *)
(* the keychain has been read there is none.                               *)
ToldInv ==
  /\ \A i \in DOMAIN listeners : listeners[i].prev = authUser \/ ToBeTold(i)
  /\ ~loaded => authUser = None

(* What the queue holds after blocks were added to it. *)
LEMMA QueuedOnDispatch ==
  ASSUME mainQ \in Seq(Block), NEW bs \in Seq(Block), Dispatch(bs)
  PROVE  Queued' = Queued \cup Range(bs)
BY RangeConcatenation DEF Dispatch, Queued

(* The elements of a sequence are its head and those of its tail. *)
LEMMA RangeHeadTail ==
  ASSUME NEW S, NEW s \in Seq(S), s # <<>>
  PROVE  Range(s) = {Head(s)} \cup Range(Tail(s))
<1>1. s = <<Head(s)>> \o Tail(s) /\ <<Head(s)>> \in Seq(S) /\ Tail(s) \in Seq(S)
  OBVIOUS
<1>2. Range(s) = Range(<<Head(s)>>) \cup Range(Tail(s))
  BY ZenonT(30), <1>1, RangeConcatenation
<1>3. Range(<<Head(s)>>) = {Head(s)}
  BY DEF Range
<1> QED BY <1>2, <1>3

(* What the queue holds after its first block has run. *)
LEMMA QueuedOnDone ==
  ASSUME mainQ \in Seq(Block), mainQ # <<>>, NEW bs \in Seq(Block), Done(bs)
  PROVE  /\ Queued = {Head(mainQ)} \cup Range(Tail(mainQ))
         /\ Queued' = Range(Tail(mainQ)) \cup Range(bs)
<1>1. Tail(mainQ) \in Seq(Block)
  BY TailTyped
<1>2. Range(Tail(mainQ) \o bs) = Range(Tail(mainQ)) \cup Range(bs)
  BY ZenonT(30), <1>1, RangeConcatenation
<1>3. Range(mainQ) = {Head(mainQ)} \cup Range(Tail(mainQ))
  BY RangeHeadTail
<1> QED BY <1>2, <1>3 DEF Done, Queued

(* Two sequences of blocks, one after the other. *)
LEMMA BlocksJoined ==
  \A s \in Seq(Block), t \in Seq(Block) :
    s \o t \in Seq(Block) /\ Range(s \o t) = Range(s) \cup Range(t)
BY CatTyped, RangeConcatenation

(* The elements of the short sequences the clients append. *)
LEMMA ShortRanges ==
  /\ Range(<<>>) = {}
  /\ \A b : Range(<<b>>) = {b}
BY DEF Range

(* Nothing is lost by steps that keep the user, the listeners and the      *)
(* blocks that call them.                                                  *)
LEMMA ToldKept ==
  ASSUME ToldInv, listeners' = listeners, authUser' = authUser, loaded' = loaded,
         \A b \in Queued : b.do \in {"first", "notify"} => b \in Queued'
  PROVE  ToldInv'
<1>1. \A i : ToBeTold(i) => ToBeTold(i)'
  BY DEF ToBeTold, Tells
<1> QED BY <1>1 DEF ToldInv

(* A change of the user is announced to every listener. *)
LEMMA ToldAnew ==
  ASSUME TypeOK, listeners' = listeners, loaded', Notify(1) \in Queued'
  PROVE  ToldInv'
<1>1. \A i \in DOMAIN listeners : 1 <= i
  BY DEF TypeOK, AuthTypeOK
<1>2. \A i \in DOMAIN listeners : Tells(Notify(1), i)
  BY <1>1 DEF Tells, Notify
<1> QED BY <1>2 DEF ToldInv, ToBeTold

(* So it is when the change comes with a reply. *)
LEMMA ToldOfChange ==
  ASSUME TypeOK, ToldInv, NEW u \in MaybeUser, BecomeUser(u), listeners' = listeners,
         NEW bs \in Seq(Block), Dispatch(Announce(u) \o bs)
  PROVE  ToldInv'
<1>1. Announce(u) \in Seq(Block)
  BY AnnounceTyped
<1>2. Queued' = Queued \cup (Range(Announce(u)) \cup Range(bs))
  <2>1. Announce(u) \o bs \in Seq(Block)
    BY <1>1, CatTyped
  <2>2. Queued' = Queued \cup Range(Announce(u) \o bs)
    BY <2>1, QueuedOnDispatch DEF TypeOK
  <2> QED BY <1>1, <2>2, RangeConcatenation
<1>3. loaded'
  BY DEF BecomeUser
<1>4. CASE u = None /\ authUser = None
  BY <1>2, <1>4, ToldKept DEF BecomeUser
<1>5. CASE ~(u = None /\ authUser = None)
  <2>1. Announce(u) = <<Notify(1)>>
    BY <1>5 DEF Announce
  <2>2. Notify(1) \in Queued'
    BY <1>2, <2>1, ShortRanges
  <2> QED BY <1>3, <2>2, ToldAnew
<1> QED BY <1>4, <1>5

(* A call tells listener i, and leaves the others as they are. *)
LEMMA CallTells ==
  ASSUME TypeOK, NEW i, Call(i)
  PROVE  /\ DOMAIN listeners' = DOMAIN listeners
         /\ \A j \in DOMAIN listeners :
              listeners'[j].prev = IF j = i THEN authUser ELSE listeners[j].prev
         /\ authUser' = authUser /\ loaded' = loaded
<1>1. listeners' = [listeners EXCEPT ![i] = [listeners[i] EXCEPT !.prev = authUser]]
  BY DEF Call
<1>2. \A j \in DOMAIN listeners : listeners[j] \in Listener
  BY DEF TypeOK, AuthTypeOK
<1> QED BY <1>1, <1>2 DEF Call, Listener

(* The block of a first call, and one of a notification, tell whom they    *)
(* were to tell or leave it to the next.                                   *)
LEMMA BlockTells ==
  ASSUME TypeOK, ToldInv, RunFirst \/ RunNotify
  PROVE  ToldInv'
<1> DEFINE b == Head(mainQ)
<1>1. mainQ # <<>> /\ mainQ \in Seq(Block) /\ b \in Block /\ b.who \in Nat
  <2>1. mainQ # <<>> /\ mainQ \in Seq(Block)
    BY DEF RunFirst, RunNotify, Runs, TypeOK
  <2>2. b \in Block
    BY <2>1
  <2> QED BY <2>1, <2>2 DEF Block
<1>2. /\ DOMAIN listeners' = DOMAIN listeners
      /\ \A j \in DOMAIN listeners :
           listeners'[j].prev = IF j = b.who THEN authUser ELSE listeners[j].prev
      /\ authUser' = authUser /\ loaded' = loaded
  BY CallTells DEF RunFirst, RunNotify
<1>3. DOMAIN listeners = 1 .. Len(listeners) /\ Len(listeners) \in Nat
  BY DEF TypeOK, AuthTypeOK
<1>4. Queued = {b} \cup Range(Tail(mainQ)) /\ Tail(mainQ) \in Seq(Block)
  BY <1>1, RangeHeadTail, TailTyped DEF Queued
<1>5. CASE RunFirst
  <2>0. Done(<<>>) /\ <<>> \in Seq(Block)
    BY <1>5 DEF RunFirst
  <2>1. Queued' = Range(Tail(mainQ)) \cup {}
    BY <1>1, <2>0, QueuedOnDone, ShortRanges
  <2>2. \A j \in DOMAIN listeners : j # b.who /\ ToBeTold(j) => ToBeTold(j)'
    BY <1>4, <1>5, <2>1 DEF ToBeTold, Tells, RunFirst, Runs
  <2> QED BY <1>2, <2>2 DEF ToldInv
<1>6. CASE RunNotify
  <2>1. CASE b.who < Len(listeners)
    <3>1. mainQ' = <<Notify(b.who + 1)>> \o Tail(mainQ)
      BY <1>6, <2>1 DEF RunNotify
    <3>2. <<Notify(b.who + 1)>> \in Seq(Block)
      <4>1. b.who + 1 \in Nat
        BY <1>1
      <4>2. Notify(b.who + 1) \in Block
        BY <4>1, BlocksTyped
      <4> QED BY <4>2
    <3>3. Queued' = {Notify(b.who + 1)} \cup Range(Tail(mainQ))
      <4>1. PICK n \in Seq(Block), t \in Seq(Block) : n = <<Notify(b.who + 1)>> /\ t = Tail(mainQ)
        BY <1>4, <3>2
      <4>2. Range(n \o t) = Range(n) \cup Range(t)
        BY RangeConcatenation
      <4>3. mainQ' = n \o t
        BY <3>1, <4>1
      <4> QED BY <4>1, <4>2, <4>3, ShortRanges DEF Queued
    <3>4. ASSUME NEW j \in DOMAIN listeners, j # b.who, ToBeTold(j) PROVE ToBeTold(j)'
      <4>1. PICK c \in Queued : Tells(c, j)
        BY <3>4 DEF ToBeTold
      <4>2. CASE c = b
        <5>1. b.who <= j
          BY <1>6, <4>1, <4>2 DEF Tells, RunNotify, Runs
        <5>2. b.who + 1 <= j
          BY <1>1, <1>3, <3>4, <5>1
        <5>3. Tells(Notify(b.who + 1), j)
          BY <5>2 DEF Tells, Notify
        <5> QED BY <3>3, <5>3 DEF ToBeTold, Tells
      <4>3. CASE c # b
        BY <1>4, <3>3, <4>1, <4>3 DEF ToBeTold, Tells
      <4> QED BY <4>2, <4>3
    <3> QED BY <1>2, <3>4 DEF ToldInv
  <2>2. CASE ~(b.who < Len(listeners))
    <3>1. mainQ' = <<>> \o Tail(mainQ)
      BY <1>6, <2>2 DEF RunNotify
    <3>2. Queued' = Range(Tail(mainQ))
      BY <1>4, <3>1 DEF Queued
    <3>3. ASSUME NEW j \in DOMAIN listeners, j # b.who, ToBeTold(j) PROVE ToBeTold(j)'
      <4>1. PICK c \in Queued : Tells(c, j)
        BY <3>3 DEF ToBeTold
      <4>2. c # b
        BY <1>1, <1>3, <1>6, <2>2, <3>3, <4>1 DEF Tells, RunNotify, Runs
      <4> QED BY <1>4, <3>2, <4>1, <4>2 DEF ToBeTold, Tells
    <3> QED BY <1>2, <3>3 DEF ToldInv
  <2> QED BY <2>1, <2>2
<1> QED BY <1>5, <1>6

(* A new listener has its first call to come. *)
LEMMA NewListenerToBeTold ==
  ASSUME TypeOK, ToldInv, NEW kind \in {"loading", "form"}, NEW at \in Nat,
         AddListener(kind, at), mainQ # <<>>, Head(mainQ).do \notin {"first", "notify"},
         Done(<<First(Len(listeners) + 1)>>), authUser' = authUser, loaded' = loaded
  PROVE  ToldInv'
<1>0. PICK n : n = Len(listeners) + 1
  OBVIOUS
<1>1. n \in Nat /\ DOMAIN listeners = 1 .. Len(listeners)
  BY <1>0 DEF TypeOK, AuthTypeOK
<1>2. <<First(n)>> \in Seq(Block)
  BY <1>1, BlocksTyped
<1>3. Queued = {Head(mainQ)} \cup Range(Tail(mainQ)) /\ Queued' = Range(Tail(mainQ)) \cup {First(n)}
  BY <1>0, <1>2, QueuedOnDone, ShortRanges DEF TypeOK
<1>4. DOMAIN listeners' = 1 .. n /\ \A i \in DOMAIN listeners : listeners'[i] = listeners[i]
  BY <1>0, <1>1 DEF AddListener, TypeOK, AuthTypeOK
<1>5. ToBeTold(n)'
  <2>1. Tells(First(n), n) /\ First(n) \in Queued'
    BY <1>3 DEF Tells, First
  <2> QED BY <2>1 DEF ToBeTold, Tells
<1>6. \A i \in DOMAIN listeners : ToBeTold(i) => ToBeTold(i)'
  BY <1>3 DEF ToBeTold, Tells
<1> QED BY <1>0, <1>1, <1>4, <1>5, <1>6 DEF ToldInv

(* Every block of the main thread keeps the listeners informed. *)
LEMMA MainThreadTold ==
  ASSUME TypeOK, ToldInv, MainThread
  PROVE  ToldInv'
<1> USE DEF TypeOK
<1>1. CASE RunFirst \/ RunNotify
  BY <1>1, BlockTells
<1>2. CASE RunAddedLoading \/ RunAddedForm \/ RunSignedUp
  <2>1. /\ mainQ # <<>> /\ Head(mainQ).do \notin {"first", "notify"} /\ Done(<<>>)
        /\ UNCHANGED <<listeners, authUser, loaded>>
    BY <1>2 DEF RunAddedLoading, RunAddedForm, RunSignedUp, Runs, authVars
  <2>2. Queued = {Head(mainQ)} \cup Range(Tail(mainQ)) /\ Queued' = Range(Tail(mainQ)) \cup {}
    <3>1. <<>> \in Seq(Block)
      OBVIOUS
    <3> QED BY <2>1, <3>1, QueuedOnDone, ShortRanges
  <2>3. \A b \in Queued : b.do \in {"first", "notify"} => b \in Queued'
    BY <2>1, <2>2
  <2> QED BY <2>1, <2>3, ToldKept
<1>3. Len(stack) \in Nat /\ Len(stack) + 1 \in Nat
  OBVIOUS
<1>4. CASE RunSignedIn
  <2>1. AddListener("loading", Len(stack) + 1) /\ Done(<<First(Len(listeners) + 1)>>)
    BY <1>4 DEF RunSignedIn
  <2> QED BY <1>3, <1>4, <2>1, NewListenerToBeTold DEF RunSignedIn, Runs
<1>5. CASE RunRestored
  <2>1. AddListener("form", Len(stack)) /\ Done(<<First(Len(listeners) + 1)>>)
    BY <1>5 DEF RunRestored
  <2> QED BY <1>3, <1>5, <2>1, NewListenerToBeTold DEF RunRestored, Runs
<1> QED BY <1>1, <1>2, <1>4, <1>5 DEF MainThread

(* A process starts with one listener to be called, and ends with none. *)
LEMMA ProcessTold ==
  ASSUME TypeOK, ToldInv, Launch \/ Kill \/ CommitTraps
  PROVE  ToldInv'
<1>1. CASE Launch
  <2>1. DOMAIN listeners' = {1} /\ First(1) \in Queued'
    BY <1>1, ShortRanges DEF Launch, Queued
  <2>2. ToBeTold(1)'
    BY <2>1 DEF ToBeTold, Tells, First
  <2> QED BY <1>1, <2>1, <2>2 DEF Launch, ToldInv
<1>2. CASE Kill \/ CommitTraps
  BY <1>2 DEF Kill, CommitTraps, Dies, FreshProcess, ToldInv
<1> QED BY <1>1, <1>2

(* Reading the keychain announces the session it holds. *)
LEMMA LoadTold ==
  ASSUME TypeOK, ToldInv, LoadSession
  PROVE  ToldInv'
<1>1. ~loaded /\ loaded' /\ authUser' = keychain /\ listeners' = listeners
  BY DEF LoadSession, KeychainLoad
<1>2. CASE keychain = None
  <2>1. authUser' = authUser
    BY <1>1, <1>2 DEF ToldInv
  <2>2. Dispatch(<<>>) /\ <<>> \in Seq(Block)
    BY <1>2 DEF LoadSession, KeychainLoad
  <2>3. \A i \in DOMAIN listeners : ToBeTold(i) => ToBeTold(i)'
    BY <2>2, QueuedOnDispatch DEF ToBeTold, Tells, TypeOK
  <2> QED BY <1>1, <2>1, <2>3 DEF ToldInv
<1>3. CASE keychain # None
  <2>1. Dispatch(<<Notify(1)>>) /\ <<Notify(1)>> \in Seq(Block)
    BY <1>3, BlocksTyped DEF LoadSession, KeychainLoad
  <2>2. Notify(1) \in Queued'
    BY <2>1, QueuedOnDispatch, ShortRanges DEF TypeOK
  <2> QED BY <1>1, <2>2, ToldAnew
<1> QED BY <1>2, <1>3

(* The steps that change the user announce it. *)
LEMMA ChangeTold ==
  ASSUME TypeOK, ToldInv,
         LoginAccepted \/ Logout \/ CreateAnswered \/ Committed \/ RestoreAccepted
  PROVE  ToldInv'
<1>1. \A name \in {"signedUp", "signedIn", "restored"} : <<Reply(name)>> \in Seq(Block)
  BY BlocksTyped
<1>2. flow.email \in MaybeUser /\ flow.new \in MaybeUser /\ None \in MaybeUser
  BY DEF TypeOK, Flow, MaybeUser
<1>3. CASE Logout \/ Committed
  <2>1. Announce(None) \o <<>> = Announce(None) /\ <<>> \in Seq(Block)
    BY AnnounceTyped
  <2>2. Dispatch(Announce(None) \o <<>>) /\ BecomeUser(None) /\ listeners' = listeners
    BY <1>3, <2>1 DEF Logout, Committed
  <2> QED BY <1>2, <2>1, <2>2, ToldOfChange
<1>4. CASE LoginAccepted
  BY <1>1, <1>2, <1>4, ToldOfChange DEF LoginAccepted
<1>5. CASE RestoreAccepted
  BY <1>1, <1>2, <1>5, ToldOfChange DEF RestoreAccepted
<1>6. CASE CreateAnswered
  <2>1. PICK u \in {flow.new, None} :
          BecomeUser(u) /\ Dispatch(Announce(u) \o <<Reply("signedUp")>>)
    BY <1>6 DEF CreateAnswered
  <2> QED BY <1>1, <1>2, <1>6, <2>1, ToldOfChange DEF CreateAnswered
<1> QED BY <1>3, <1>4, <1>5, <1>6

(* All other steps change neither, and take no block away. *)
LEMMA OtherTold ==
  ASSUME TypeOK, ToldInv,
         \/ Reinstall \/ Database \/ LoginTap \/ DismissAlert \/ TapDone \/ ConfirmDropped
         \/ ConfirmOk \/ CreateAtServer \/ LoginRefused \/ CreateFailed \/ UploadAnswer
         \/ UrlAnswered \/ CommitFailed \/ RestoreRefused \/ UNCHANGED vars
  PROVE  ToldInv'
<1>1. UNCHANGED <<listeners, authUser, loaded>>
  BY DEF Reinstall, Database, LoginTap, DismissAlert, TapDone, ConfirmDropped, ConfirmOk,
         CreateAtServer, LoginRefused, CreateFailed, UploadAnswer, UploadFailed, Uploaded,
         UrlAnswered, CommitFailed, RestoreRefused, vars, authVars
<1>2. Queued \subseteq Queued'
  <2>1. CASE Database /\ Raise
    <3>1. PICK o \in due : Dispatch(<<Added(o.who, o.uid)>>)
      BY <2>1 DEF Raise
    <3>2. <<Added(o.who, o.uid)>> \in Seq(Block)
      BY <3>1, BlocksTyped DEF TypeOK, StudentsTypeOK, due, Observer
    <3> QED BY <3>1, <3>2, QueuedOnDispatch DEF TypeOK
  <2>2. CASE ~(Database /\ Raise)
    <3>1. mainQ' = mainQ
      BY <2>2 DEF Reinstall, Database, RunObserve, RunSetValue, Sync, PushAccepted,
         PushRejected, LoginTap, DismissAlert, TapDone, ConfirmDropped, ConfirmOk,
         CreateAtServer, LoginRefused, CreateFailed, UploadAnswer, UploadFailed, Uploaded,
         UrlAnswered, CommitFailed, RestoreRefused, vars
    <3> QED BY <3>1 DEF Queued
  <2> QED BY <2>1, <2>2
<1> QED BY <1>1, <1>2, ToldKept

(* Every step keeps the listeners informed. *)
LEMMA NextTold == TypeOK /\ ToldInv /\ [Next]_vars => ToldInv'
BY MainThreadTold, ProcessTold, LoadTold, ChangeTold, OtherTold
   DEF Next, Taps, LoginAnswer, CreateAnswer, CommitAnswer, RestoreAnswer

(* No listener is forgotten: with the main queue empty each has heard of   *)
(* the current user, whatever changes of the session overlapped.           *)
THEOREM ToldAll == Spec => []ListenersUpToDate
<1>1. Init => ToldInv
  BY DEF Init, ToldInv
<1>3. Spec => []ToldInv
  BY <1>1, NextTold, TypeCorrect, PTL DEF Spec
<1>4. ToldInv => ListenersUpToDate
  BY ShortRanges DEF ToldInv, ListenersUpToDate, ToBeTold, Queued
<1> QED BY <1>3, <1>4, PTL

-----------------------------------------------------------------------------
(* The login form *)

(* The steps of the next-state relation, by what they may change: those of *)
(* a flow alone, and those that change the user.                           *)
FlowStep ==
  \/ LoginTap \/ LoginRefused \/ DismissAlert \/ TapDone \/ ConfirmDropped \/ ConfirmOk
  \/ CreateAtServer \/ CreateFailed \/ UploadFailed \/ Uploaded \/ UrlAnswered \/ CommitFailed
  \/ RestoreRefused

UserStep == LoginAccepted \/ Logout \/ CreateAnswered \/ Committed \/ RestoreAccepted

(* There are no others. *)
LEMMA NextSteps ==
  [Next]_vars =>
    \/ FlowStep \/ UserStep \/ MainThread \/ Launch \/ Kill \/ CommitTraps \/ Reinstall
    \/ LoadSession \/ Database \/ UNCHANGED vars
BY DEF Next, Taps, LoginAnswer, CreateAnswer, UploadAnswer, CommitAnswer, RestoreAnswer,
       FlowStep, UserStep

(* The first kind leaves the queues, the session and the screens alone. *)
LEMMA FlowStepFrame ==
  ASSUME FlowStep
  PROVE  UNCHANGED <<mainQ, keychain, loaded, authUser, listeners, studentsVars, alive,
                     currentUser, savedPassword, stack>>
BY DEF FlowStep, LoginTap, LoginRefused, DismissAlert, TapDone, ConfirmDropped, ConfirmOk,
       CreateAtServer, CreateFailed, UploadFailed, Uploaded, UrlAnswered, CommitFailed,
       RestoreRefused, authVars, studentsVars

(* The second kind needs a session that has been read; on the screens only *)
(* a logout changes anything.                                              *)
LEMMA UserStepFrame ==
  ASSUME UserStep
  PROVE  /\ UNCHANGED <<registered, listeners, alive, currentUser, savedPassword, modal>>
         /\ loaded /\ loaded' /\ keychain' = authUser'
         /\ Logout \/ stack' = stack
BY DEF UserStep, LoginAccepted, Logout, CreateAnswered, Committed, RestoreAccepted, BecomeUser

(* Without a process there is nothing in memory. *)
DeadInv ==
  ~alive =>
    /\ ~loaded /\ authUser = None /\ currentUser = None
    /\ ~synced /\ pending = {} /\ dbQ = <<>> /\ waiting = {}
    /\ listeners = <<>> /\ mainQ = <<>> /\ stack = <<>>
    /\ modal = "none" /\ flow = Idle

(* A flow runs behind an alert that nobody can dismiss; a sign-in runs on  *)
(* the login form, and its answer is on the way.                           *)
SigningInv ==
  /\ flow.pc # "idle" => modal \in {"confirm", "processing"}
  /\ flow.pc \in {"signingIn", "signedIn"} => alive /\ Top = "Login"
  /\ flow.pc = "signedIn" => Reply("signedIn") \in Queued

(* Before the keychain has been read there is the first listener and, over *)
(* its splash screen, at most the login form.                              *)
UnreadInv ==
  alive /\ ~loaded =>
    /\ Queued \subseteq {First(1)}
    /\ DOMAIN listeners = {1} /\ listeners[1].at = 1
    /\ Len(stack) \in {1, 2} /\ stack[1] = "Loading" /\ (Len(stack) = 2 => stack[2] = "Login")
    /\ flow.pc \in {"idle", "signingIn"}
    /\ dbQ = <<>> /\ waiting = {}

LoginShown ==
  alive /\ Top = "Login" /\ authUser # None => Len(stack) = 2 \/ flow.pc = "signedIn"

LoginInv == DeadInv /\ SigningInv /\ UnreadInv /\ LoginShown

(* The blocks that remain when a block that tells nothing has run. *)
LEMMA OthersStay ==
  ASSUME TypeOK, mainQ # <<>>, NEW bs \in Seq(Block), Done(bs)
  PROVE  \A b \in Queued : b # Head(mainQ) => b \in Queued'
BY QueuedOnDone DEF TypeOK

(* Every block of the main thread leaves the other blocks in the queue. *)
LEMMA MainThreadTakesOne ==
  ASSUME TypeOK, MainThread
  PROVE  /\ mainQ # <<>> /\ Head(mainQ) \in Queued
         /\ \A b \in Queued : b # Head(mainQ) => b \in Queued'
<1>1. mainQ # <<>> /\ mainQ \in Seq(Block) /\ Head(mainQ) \in Block
  BY TailTyped DEF MainThread, RunFirst, RunNotify, RunAddedLoading, RunAddedForm,
         RunSignedIn, RunSignedUp, RunRestored, Runs, TypeOK
<1>2. Queued = {Head(mainQ)} \cup Range(Tail(mainQ)) /\ Tail(mainQ) \in Seq(Block)
  BY <1>1, RangeHeadTail, TailTyped DEF Queued
<1>3. \A i \in Nat : <<First(i)>> \in Seq(Block) /\ <<Notify(i)>> \in Seq(Block)
  BY BlocksTyped
<1>4. <<>> \in Seq(Block) /\ Len(listeners) + 1 \in Nat /\ Head(mainQ).who + 1 \in Nat
  BY <1>1 DEF Block, TypeOK, AuthTypeOK
<1>5. CASE RunNotify
  <2>1. PICK bs \in Seq(Block) : mainQ' = bs \o Tail(mainQ)
    BY <1>3, <1>4, <1>5 DEF RunNotify
  <2>2. Queued' = Range(bs) \cup Range(Tail(mainQ))
    <3>1. Range(bs \o Tail(mainQ)) = Range(bs) \cup Range(Tail(mainQ))
      BY ZenonT(30), <1>2, <2>1, RangeConcatenation
    <3> QED BY <2>1, <3>1 DEF Queued
  <2> QED BY <1>1, <1>2, <2>2
<1>6. CASE ~RunNotify
  <2>1. PICK bs \in Seq(Block) : Done(bs)
    BY <1>3, <1>4, <1>6 DEF MainThread, RunFirst, RunAddedLoading, RunAddedForm, RunSignedIn,
                       RunSignedUp, RunRestored
  <2> QED BY <1>1, <1>2, <2>1, OthersStay
<1> QED BY <1>5, <1>6

(* Dispatching takes nothing away. *)
LEMMA DispatchKeeps ==
  ASSUME TypeOK, UserStep \/ LoadSession \/ Database
  PROVE  Queued \subseteq Queued'
<1>1. \A name \in {"signedUp", "signedIn", "restored"} : <<Reply(name)>> \in Seq(Block)
  BY BlocksTyped
<1>2. \A u : Announce(u) \in Seq(Block)
  BY AnnounceTyped
<1>3. \A u : \A name \in {"signedUp", "signedIn", "restored"} :
        Announce(u) \o <<Reply(name)>> \in Seq(Block)
  BY <1>1, <1>2, CatTyped
<1>4. CASE mainQ' = mainQ
  BY <1>4 DEF Queued
<1>5. CASE \E bs \in Seq(Block) : Dispatch(bs)
  BY <1>5, QueuedOnDispatch DEF TypeOK
<1>6. CASE UserStep
  BY <1>2, <1>3, <1>5, <1>6
     DEF UserStep, LoginAccepted, Logout, CreateAnswered, Committed, RestoreAccepted
<1>7. CASE LoadSession
  <2>1. <<>> \in Seq(Block) /\ <<Notify(1)>> \in Seq(Block)
    BY BlocksTyped
  <2> QED BY <1>5, <1>7, <2>1 DEF LoadSession, KeychainLoad
<1>8. CASE Database /\ Raise
  <2>1. PICK o \in due : Dispatch(<<Added(o.who, o.uid)>>)
    BY <1>8 DEF Raise
  <2>2. <<Added(o.who, o.uid)>> \in Seq(Block)
    BY <2>1, BlocksTyped DEF TypeOK, StudentsTypeOK, due, Observer
  <2> QED BY <1>5, <2>1, <2>2
<1>9. CASE Database /\ ~Raise
  BY <1>4, <1>9 DEF Database, RunObserve, RunSetValue, Sync, PushAccepted, PushRejected
<1> QED BY <1>6, <1>7, <1>8, <1>9

(* What a flow step does to the flow, as far as the login form sees it. *)
LEMMA FlowStepPath ==
  ASSUME TypeOK, FlowStep
  PROVE  /\ flow'.pc # "idle" => modal' \in {"confirm", "processing"} \/ modal' = modal
         /\ flow'.pc # "idle" /\ modal' = modal => flow.pc # "idle"
         /\ flow'.pc # "signedIn"
         /\ flow'.pc = "signingIn" => LoginTap
<1> USE DEF TypeOK, Flow, Idle, Goes, At
<1>1. CASE LoginTap
  BY <1>1 DEF LoginTap, Tappable
<1>2. CASE LoginRefused \/ DismissAlert \/ ConfirmDropped \/ CreateFailed \/ UploadFailed \/ CommitFailed
  BY <1>2 DEF LoginRefused, DismissAlert, ConfirmDropped, CreateFailed, UploadFailed, CommitFailed
<1>3. CASE TapDone \/ ConfirmOk
  BY <1>3 DEF TapDone, ConfirmOk, Tappable
<1>4. CASE CreateAtServer \/ Uploaded \/ UrlAnswered \/ RestoreRefused
  BY <1>4 DEF CreateAtServer, Uploaded, UrlAnswered, RestoreRefused
<1> QED BY <1>1, <1>2, <1>3, <1>4 DEF FlowStep

(* A sign-in is left only with its answer, or with the process. *)
LEMMA SignedInStays ==
  ASSUME TypeOK, FlowInv, SigningInv, FlowStep, flow.pc = "signedIn"
  PROVE  FALSE
BY DEF FlowStep, LoginTap, LoginRefused, DismissAlert, TapDone, ConfirmDropped, ConfirmOk,
       CreateAtServer, CreateFailed, UploadFailed, Uploaded, UrlAnswered, CommitFailed,
       RestoreRefused, At, Tappable, Answerable, FlowInv, SigningInv

(* What a change of the user does to the flow. *)
LEMMA UserStepPath ==
  ASSUME TypeOK, FlowInv, UserStep
  PROVE  \/ LoginAccepted /\ flow.pc = "signingIn" /\ flow'.pc = "signedIn"
            /\ Reply("signedIn") \in Queued'
         \/ Logout /\ flow.pc = "idle" /\ flow' = flow /\ modal = "none" /\ authUser' = None
            /\ Top = "Main" /\ Top' = "Login"
         \/ Registering /\ Registering' /\ Top = "Main" /\ alive
<1> USE DEF TypeOK, Flow, Goes, At
<1>1. CASE LoginAccepted
  <2>1. Announce(flow.email) \in Seq(Block) /\ <<Reply("signedIn")>> \in Seq(Block)
    BY AnnounceTyped, BlocksTyped
  <2>2. Queued' = Queued \cup (Range(Announce(flow.email)) \cup Range(<<Reply("signedIn")>>))
    <3>1. Announce(flow.email) \o <<Reply("signedIn")>> \in Seq(Block)
      BY <2>1, CatTyped
    <3>2. Queued' = Queued \cup Range(Announce(flow.email) \o <<Reply("signedIn")>>)
      BY <1>1, <3>1, QueuedOnDispatch DEF LoginAccepted
    <3>3. PICK bs \in Seq(Block), cs \in Seq(Block) :
            bs = Announce(flow.email) /\ cs = <<Reply("signedIn")>>
      BY <2>1
    <3>4. Range(bs \o cs) = Range(bs) \cup Range(cs)
      BY RangeConcatenation
    <3> QED BY <3>2, <3>3, <3>4
  <2>3. Reply("signedIn") \in Queued'
    BY <2>2, ShortRanges
  <2>4. flow.pc = "signingIn" /\ flow'.pc = "signedIn"
    BY <1>1 DEF LoginAccepted
  <2> QED BY <1>1, <2>3, <2>4
<1>2. CASE Logout
  <2>1. Top' = "Login"
    BY <1>2 DEF Logout, Top
  <2> QED BY <1>2, <2>1 DEF Logout, Tappable, FlowInv, BecomeUser
<1>3. CASE CreateAnswered \/ Committed \/ RestoreAccepted
  <2>1. Registering /\ Registering'
    BY <1>3 DEF CreateAnswered, Committed, RestoreAccepted, Registering
  <2> QED BY <2>1 DEF FlowInv, RegistrationCovered
<1> QED BY <1>1, <1>2, <1>3 DEF UserStep

(* The screens and the alert under a flow, when a block runs. *)
LEMMA MainThreadCovered ==
  ASSUME TypeOK, SigningInv, MainThread, flow.pc # "idle"
  PROVE  \/ flow'.pc = "idle"
         \/ /\ stack' = stack /\ modal' = modal /\ alive' = alive
            /\ flow'.pc \in {flow.pc, "uploading", "reloading"}
            /\ Head(mainQ).do = "signedIn" => flow'.pc # "signedIn"
<1> USE DEF TypeOK, Flow, Idle, Goes, At, Runs
<1>1. modal # "none" /\ ~MayPresent(listeners[Head(mainQ).who].at)
  BY DEF SigningInv, MayPresent
<1>2. CASE RunFirst
  <2>1. stack' = stack /\ flow' = flow /\ modal' = modal /\ alive' = alive
    BY <1>1, <1>2, CoveredStays DEF RunFirst, Call
  <2> QED BY <1>2, <2>1 DEF RunFirst
<1>3. CASE RunNotify
  <2>1. stack' = stack /\ flow' = flow /\ modal' = modal /\ alive' = alive
    BY <1>1, <1>3, CoveredStays DEF RunNotify, Call
  <2> QED BY <1>3, <2>1 DEF RunNotify
<1>4. CASE RunAddedLoading
  <2>1. stack' = stack /\ flow' = flow /\ modal' = modal /\ alive' = alive
    BY <1>1, <1>4, CoveredStays DEF RunAddedLoading
  <2> QED BY <1>4, <2>1 DEF RunAddedLoading
<1>5. CASE RunAddedForm
  BY <1>1, <1>5 DEF RunAddedForm
<1>6. CASE RunSignedIn
  BY <1>6 DEF RunSignedIn
<1>7. CASE RunSignedUp
  BY <1>7 DEF RunSignedUp
<1>8. CASE RunRestored
  BY <1>8 DEF RunRestored
<1> QED BY <1>2, <1>3, <1>4, <1>5, <1>6, <1>7, <1>8 DEF MainThread

(* Where no flow runs, none of its blocks does; a registration form may    *)
(* announce a student.                                                     *)
LEMMA MainThreadIdle ==
  ASSUME TypeOK, MainThread, flow.pc = "idle"
  PROVE  flow' = flow
BY DEF MainThread, RunFirst, RunNotify, Call, RunAddedLoading, RunAddedForm, OwnSpinner,
       RunSignedIn, RunSignedUp, RunRestored, At

(* Every step keeps the alert over its flow. *)
LEMMA NextSigning ==
  ASSUME TypeOK, FlowInv, SigningInv, [Next]_vars
  PROVE  SigningInv'
<1>1. CASE FlowStep
  <2>1. Top' = Top /\ Queued' = Queued /\ alive' = alive
    BY <1>1, FlowStepFrame DEF Top, Queued
  <2>2. LoginTap => Top = "Login" /\ alive
    BY DEF LoginTap, Tappable
  <2> QED BY <1>1, <2>1, <2>2, FlowStepPath DEF SigningInv
<1>2. CASE UserStep
  <2>1. modal' = modal /\ alive' = alive /\ (Logout \/ Top' = Top)
    BY <1>2, UserStepFrame DEF Top
  <2>2. CASE LoginAccepted /\ flow.pc = "signingIn" /\ flow'.pc = "signedIn"
             /\ Reply("signedIn") \in Queued'
    <3>1. Top' = Top
      BY <2>2 DEF LoginAccepted, Top
    <3> QED BY <2>1, <2>2, <3>1 DEF SigningInv
  <2>3. CASE flow.pc = "idle" /\ flow' = flow
    BY <2>3 DEF SigningInv
  <2>4. CASE Registering /\ Registering'
    BY <2>1, <2>4 DEF SigningInv, Registering
  <2> QED BY <1>2, <2>2, <2>3, <2>4, UserStepPath
<1>3. CASE MainThread
  <2>1. CASE flow.pc = "idle"
    BY <1>3, <2>1, MainThreadIdle DEF SigningInv
  <2>2. CASE flow.pc # "idle"
    <3>1. CASE flow'.pc = "idle"
      BY <3>1 DEF SigningInv
    <3>2. CASE flow'.pc # "idle"
      <4>1. /\ stack' = stack /\ modal' = modal /\ alive' = alive
            /\ flow'.pc \in {flow.pc, "uploading", "reloading"}
            /\ Head(mainQ).do = "signedIn" => flow'.pc # "signedIn"
        BY <1>3, <2>2, <3>2, MainThreadCovered
      <4>2. Reply("signedIn").do = "signedIn"
        BY DEF Reply
      <4>3. flow'.pc = "signedIn" => Reply("signedIn") \in Queued'
        BY <1>3, <4>1, <4>2, MainThreadTakesOne DEF SigningInv
      <4>4. Top' = Top
        BY <4>1 DEF Top
      <4> QED BY <2>2, <4>1, <4>3, <4>4 DEF SigningInv
    <3> QED BY <3>1, <3>2
  <2> QED BY <2>1, <2>2
<1>4. CASE Kill \/ CommitTraps
  BY <1>4 DEF Kill, CommitTraps, Dies, FreshProcess, Idle, SigningInv
<1>5. CASE Launch
  <2>1. flow' = flow /\ modal' = modal /\ ~alive
    BY <1>5 DEF Launch
  <2> QED BY <2>1 DEF SigningInv
<1>6. CASE LoadSession \/ Database
  <2>1. Top' = Top /\ UNCHANGED <<flow, modal, alive>> /\ Queued \subseteq Queued'
    BY <1>6, DispatchKeeps DEF LoadSession, Database, appVars, Top
  <2> QED BY <2>1 DEF SigningInv
<1>7. CASE Reinstall \/ UNCHANGED vars
  <2>1. Top' = Top /\ UNCHANGED <<flow, modal, alive>> /\ Queued = Queued'
    BY <1>7 DEF Reinstall, vars, appVars, Top, Queued
  <2> QED BY <2>1 DEF SigningInv
<1> QED BY <1>1, <1>2, <1>3, <1>4, <1>5, <1>6, <1>7, NextSteps

(* The block that runs before the keychain has been read is the first call *)
(* of the first listener: it goes to the login form, once.                 *)
LEMMA UnreadFirst ==
  ASSUME TypeOK, ToldInv, UnreadInv, alive, ~loaded, MainThread
  PROVE  UnreadInv'
<1>1. mainQ # <<>> /\ Head(mainQ) \in Queued
  BY MainThreadTakesOne
<1>2. Head(mainQ) = First(1)
  BY <1>1 DEF UnreadInv
<1>3. RunFirst /\ Head(mainQ).who = 1
  <2>1. Head(mainQ).do = "first" /\ Head(mainQ).who = 1
    BY <1>2 DEF First
  <2> QED BY <2>1 DEF MainThread, RunNotify, RunAddedLoading, RunAddedForm, RunSignedIn, RunSignedUp,
              RunRestored, Runs, First
<1>4. Call(1) /\ Done(<<>>) /\ <<>> \in Seq(Block)
  BY <1>3 DEF RunFirst
<1>5. Queued' \subseteq Queued
  BY <1>1, <1>4, QueuedOnDone, ShortRanges DEF TypeOK
<1>6. authUser = None
  BY DEF ToldInv
<1>7. dbQ' = dbQ /\ UNCHANGED <<alive, loaded, waiting, flow>>
  BY <1>4, <1>6 DEF Call, SignedIn
<1>8. DOMAIN listeners' = {1} /\ listeners'[1].at = 1
  <2>1. DOMAIN listeners = {1} /\ listeners[1].at = 1
    BY DEF UnreadInv
  <2>0. listeners[1] \in Listener
    <3>1. 1 \in DOMAIN listeners /\ listeners \in Seq(Listener)
      BY <2>1 DEF TypeOK, AuthTypeOK
    <3> QED BY <3>1
  <2>2. listeners' = [listeners EXCEPT ![1] = [listeners[1] EXCEPT !.prev = authUser]]
    BY <1>4 DEF Call
  <2>3. listeners'[1] = [listeners[1] EXCEPT !.prev = authUser]
    BY <2>1, <2>2
  <2> QED BY <2>0, <2>1, <2>2, <2>3 DEF Listener
<1>9. /\ Len(stack') \in {1, 2} /\ stack'[1] = "Loading"
      /\ Len(stack') = 2 => stack'[2] = "Login"
  <2>1. stack' = stack \/ (Len(stack) = 1 /\ stack' = Append(stack, "Login"))
    BY <1>4 DEF Call, UnreadInv, GotoScreen, MayPresent
  <2>2. /\ Len(stack) \in {1, 2} /\ stack[1] = "Loading"
        /\ Len(stack) = 2 => stack[2] = "Login"
    BY DEF UnreadInv
  <2>3. CASE stack' = stack
    BY <2>2, <2>3
  <2>4. CASE Len(stack) = 1 /\ stack' = Append(stack, "Login")
    <3>1. /\ Len(Append(stack, "Login")) = 2
          /\ Append(stack, "Login")[1] = stack[1] /\ Append(stack, "Login")[2] = "Login"
      <4>1. stack \in Seq(Screen) /\ "Login" \in Screen /\ 1 \in 1 .. Len(stack)
        BY <2>4 DEF TypeOK, Screen
      <4>2. /\ Len(Append(stack, "Login")) = Len(stack) + 1
            /\ \A i \in 1 .. Len(stack) : Append(stack, "Login")[i] = stack[i]
            /\ Append(stack, "Login")[Len(stack) + 1] = "Login"
        BY <4>1, AppendProperties
      <4>3. Len(stack) + 1 = 2
        BY <2>4
      <4> QED BY <4>1, <4>2, <4>3
    <3> QED BY <2>2, <2>4, <3>1
  <2> QED BY <2>1, <2>3, <2>4
<1> QED BY <1>5, <1>7, <1>8, <1>9 DEF UnreadInv

(* Without a process nothing but a launch, or the deletion of the app,     *)
(* happens.                                                                *)
LEMMA DeadStep ==
  ASSUME DeadInv, ~alive
  PROVE  ~FlowStep /\ ~UserStep /\ ~MainThread
<1>1. mainQ = <<>> /\ modal = "none"
  BY DEF DeadInv
<1> QED BY <1>1 DEF FlowStep, LoginTap, LoginRefused, DismissAlert, TapDone, ConfirmDropped,
     ConfirmOk, CreateAtServer, CreateFailed, UploadFailed, Uploaded, UrlAnswered, CommitFailed,
     RestoreRefused, UserStep, LoginAccepted, Logout, CreateAnswered, Committed,
     RestoreAccepted, At, Tappable, Answerable, MainThread, RunFirst, RunNotify,
     RunAddedLoading, RunAddedForm, RunSignedIn, RunSignedUp, RunRestored, Runs

(* Only the process changes it. *)
LEMMA NextDead ==
  ASSUME TypeOK, DeadInv, [Next]_vars
  PROVE  DeadInv'
<1>1. CASE alive /\ ~Kill /\ ~CommitTraps
  <2>1. alive'
    BY <1>1, NextSteps, FlowStepFrame, UserStepFrame
       DEF MainThread, RunFirst, RunNotify, Call, RunAddedLoading, RunAddedForm, RunSignedIn,
           RunSignedUp, RunRestored, Launch, Reinstall, LoadSession, Database, vars, appVars
  <2> QED BY <2>1 DEF DeadInv
<1>2. CASE Kill \/ CommitTraps
  BY <1>2 DEF Kill, CommitTraps, Dies, FreshProcess, DeadInv
<1>3. CASE ~alive
  <2>1. Launch \/ Reinstall \/ UNCHANGED vars
    BY <1>3, NextSteps, DeadStep DEF Kill, CommitTraps, At, LoadSession, Database
  <2> QED BY <2>1 DEF Launch, Reinstall, vars, authVars, studentsVars, appVars, DeadInv
<1> QED BY <1>1, <1>2, <1>3

(* Every step keeps what is known before the keychain is read. *)
LEMMA NextUnread ==
  ASSUME TypeOK, FlowInv, DeadInv, ToldInv, UnreadInv, [Next]_vars
  PROVE  UnreadInv'
<1>1. CASE FlowStep
  <2>1. /\ Queued' = Queued
        /\ UNCHANGED <<listeners, stack, dbQ, waiting, alive, loaded>>
    BY <1>1, FlowStepFrame DEF Queued, studentsVars
  <2>2. alive /\ ~loaded => flow'.pc \in {"idle", "signingIn"}
    <3>1. SUFFICES ASSUME alive, ~loaded PROVE flow'.pc \in {"idle", "signingIn"}
      OBVIOUS
    <3>2. Top # "Main" /\ flow.pc \in {"idle", "signingIn"}
      BY <3>1 DEF UnreadInv, Top
    <3>3. CASE LoginTap
      BY <3>3 DEF LoginTap
    <3>4. CASE LoginRefused \/ DismissAlert
      BY <3>4 DEF LoginRefused, DismissAlert, Idle
    <3>5. CASE ~LoginTap /\ ~LoginRefused /\ ~DismissAlert
      BY <1>1, <3>2, <3>5 DEF FlowStep, LoginTap, LoginRefused, DismissAlert, TapDone,
              ConfirmDropped, ConfirmOk, CreateAtServer, CreateFailed, UploadFailed, Uploaded,
              UrlAnswered, CommitFailed, RestoreRefused, At, Tappable
    <3> QED BY <3>3, <3>4, <3>5
  <2> QED BY <2>1, <2>2 DEF UnreadInv
<1>2. CASE UserStep
  BY <1>2, UserStepFrame DEF UnreadInv
<1>3. CASE MainThread
  <2>1. alive' = alive /\ loaded' = loaded
    BY <1>3 DEF MainThread, RunFirst, RunNotify, Call, RunAddedLoading, RunAddedForm,
                RunSignedIn, RunSignedUp, RunRestored, authVars
  <2> QED BY <1>3, <2>1, UnreadFirst DEF UnreadInv
<1>4. CASE Kill \/ CommitTraps
  BY <1>4 DEF Kill, CommitTraps, Dies, UnreadInv
<1>5. CASE LoadSession
  BY <1>5 DEF LoadSession, KeychainLoad, UnreadInv
<1>6. CASE Database
  <2>1. UNCHANGED <<listeners, stack, alive, loaded, flow>>
    BY <1>6 DEF Database, authVars, appVars
  <2>2. waiting = {} /\ dbQ = <<>> => waiting' = {} /\ dbQ' = <<>> /\ Queued' = Queued
    BY <1>6 DEF Database, Raise, RunObserve, RunSetValue, NextCall, Sync, PushAccepted,
                PushRejected, due, Queued
  <2> QED BY <2>1, <2>2 DEF UnreadInv
<1>7. CASE Reinstall \/ UNCHANGED vars
  BY <1>7 DEF Reinstall, vars, authVars, studentsVars, appVars, UnreadInv, Queued
<1>8. CASE Launch
  <2>1. listeners' = <<NewListener("loading", 1)>> /\ Queued' = {First(1)} /\ stack' = <<"Loading">>
    BY <1>8, ShortRanges DEF Launch, Queued
  <2>2. waiting' = {} /\ dbQ' = <<>> /\ flow'.pc = "idle"
    BY <1>8 DEF Launch, studentsVars, DeadInv, Idle
  <2> QED BY <2>1, <2>2 DEF UnreadInv, NewListener
<1> QED BY <1>1, <1>2, <1>3, <1>4, <1>5, <1>6, <1>7, <1>8, NextSteps

(* Who comes to the login form is signed out, or signs in there.           *)
LEMMA NextLoginShown ==
  ASSUME TypeOK, FlowInv, SigningInv, ToldInv, UnreadInv, LoginShown, [Next]_vars
  PROVE  LoginShown'
<1>1. CASE FlowStep
  <2>1. UNCHANGED <<Top, stack, alive, authUser>>
    BY <1>1, FlowStepFrame DEF Top
  <2> QED BY <1>1, <2>1, SignedInStays DEF LoginShown
<1>2. CASE UserStep
  <2>1. Top = "Main" /\ ~Logout => Top' # "Login"
    BY <1>2, UserStepFrame DEF Top
  <2>2. LoginAccepted => flow'.pc = "signedIn"
    BY DEF LoginAccepted, Goes, TypeOK, Flow
  <2>3. Logout => Top' = "Login" /\ authUser' = None
    BY DEF Logout, BecomeUser, Top, TypeOK
  <2> QED BY <1>2, <2>1, <2>2, <2>3, UserStepPath DEF LoginShown
<1>3. CASE MainThread
  <2>1. alive' = alive /\ authUser' = authUser
    BY <1>3 DEF MainThread, RunFirst, RunNotify, Call, RunAddedLoading, RunAddedForm,
                RunSignedIn, RunSignedUp, RunRestored, authVars
  <2>2. CASE RunFirst \/ RunNotify
    <3>1. flow' = flow /\ (authUser # None => stack' = stack)
      BY <2>2 DEF RunFirst, RunNotify, Call
    <3> QED BY <2>1, <3>1 DEF LoginShown, Top
  <2>3. CASE RunAddedLoading
    <3>1. flow' = flow /\ (stack' = stack \/ stack' = Append(stack, "Main"))
      BY <2>3 DEF RunAddedLoading, GotoScreen
    <3>2. Append(stack, "Main")[Len(Append(stack, "Main"))] = "Main"
      BY DEF TypeOK
    <3> QED BY <2>1, <3>1, <3>2 DEF LoginShown, Top
  <2>4. CASE RunAddedForm
    <3>1. stack' = stack /\ (flow.pc = "signedIn" => flow' = flow)
      BY <2>4 DEF RunAddedForm, OwnSpinner
    <3> QED BY <2>1, <3>1 DEF LoginShown, Top
  <2>5. CASE RunSignedIn
    <3>1. stack' = Append(stack, "Loading")
      BY <2>5 DEF RunSignedIn
    <3>2. Append(stack, "Loading")[Len(Append(stack, "Loading"))] = "Loading"
      BY DEF TypeOK
    <3> QED BY <3>1, <3>2 DEF LoginShown, Top
  <2>6. CASE RunSignedUp \/ RunRestored
    <3>1. stack' = stack /\ flow.pc # "signedIn"
      BY <2>6 DEF RunSignedUp, RunRestored, At
    <3> QED BY <2>1, <3>1 DEF LoginShown, Top
  <2> QED BY <1>3, <2>2, <2>3, <2>4, <2>5, <2>6 DEF MainThread
<1>4. CASE Kill \/ CommitTraps
  BY <1>4 DEF Kill, CommitTraps, Dies, LoginShown
<1>5. CASE Launch
  BY <1>5 DEF Launch, LoginShown, Top
<1>6. CASE LoadSession
  <2>1. alive /\ ~loaded /\ stack' = stack
    BY <1>6 DEF LoadSession, KeychainLoad, appVars
  <2>2. Len(stack) \in {1, 2} /\ stack[1] = "Loading"
    BY <2>1 DEF UnreadInv
  <2> QED BY <2>1, <2>2 DEF LoginShown, Top
<1>7. CASE Database \/ Reinstall \/ UNCHANGED vars
  <2>1. UNCHANGED <<stack, alive, authUser, flow>>
    BY <1>7 DEF Database, Reinstall, vars, authVars, appVars
  <2> QED BY <2>1 DEF LoginShown, Top
<1> QED BY <1>1, <1>2, <1>3, <1>4, <1>5, <1>6, <1>7, NextSteps

(* An invariant that is kept together with the earlier ones. *)
THEOREM LoginFormInductive == Spec => [](TypeOK /\ FlowInv /\ ToldInv /\ LoginInv)
<1>1. Init => ToldInv /\ LoginInv
  BY DEF Init, ToldInv, LoginInv, DeadInv, SigningInv, UnreadInv, LoginShown, Idle
<1>2. TypeOK /\ FlowInv /\ ToldInv /\ LoginInv /\ [Next]_vars => LoginInv'
  BY NextDead, NextSigning, NextUnread, NextLoginShown DEF LoginInv
<1>3. TypeOK /\ ToldInv /\ [Next]_vars => ToldInv'
  BY NextTold
<1> QED BY <1>1, <1>2, <1>3, Inductive, PTL DEF Spec

(* A signed-in user sees the login form only as the screen above the first *)
(* splash screen, when that one was called before the keychain was read.   *)
THEOREM LoginFormSignedOut == Spec => []LoginShownWhenSignedOut
<1>1. LoginInv => LoginShownWhenSignedOut
  BY ShortRanges DEF LoginInv, SigningInv, LoginShown, LoginShownWhenSignedOut, Queued
<1> QED BY <1>1, LoginFormInductive, PTL

-----------------------------------------------------------------------------
(* What a step may do to the queues, the listeners and the screens while   *)
(* the process lives                                                       *)

Calls == Range(dbQ)

(* The database's calls after one was appended. *)
LEMMA CallsOnAppend ==
  ASSUME TypeOK, NEW c \in DbCall, dbQ' = Append(dbQ, c)
  PROVE  Calls' = Calls \cup {c}
<1>1. dbQ \in Seq(DbCall) /\ <<c>> \in Seq(DbCall)
  BY DEF TypeOK, StudentsTypeOK
<1>2. dbQ' = dbQ \o <<c>>
  BY <1>1, AppendIsConcat
<1>3. Range(dbQ \o <<c>>) = Range(dbQ) \cup Range(<<c>>)
  BY ZenonT(30), <1>1, RangeConcatenation
<1> QED BY <1>2, <1>3, ShortRanges DEF Calls

(* The worker takes the first. *)
LEMMA CallsOnNext ==
  ASSUME TypeOK, NEW op, NextCall(op)
  PROVE  Calls = {Head(dbQ)} \cup Calls' /\ Head(dbQ).op = op
<1>1. dbQ \in Seq(DbCall) /\ dbQ # <<>> /\ dbQ' = Tail(dbQ)
  BY DEF TypeOK, StudentsTypeOK, NextCall
<1>2. Range(dbQ) = {Head(dbQ)} \cup Range(Tail(dbQ))
  BY <1>1, RangeHeadTail
<1> QED BY <1>1, <1>2 DEF Calls, NextCall

(* The calls a listener's block makes. *)
LEMMA CallsOnCall ==
  ASSUME TypeOK, NEW i \in Nat, Call(i)
  PROVE  \/ Calls' = Calls
         \/ Hears(i) /\ SignedIn /\ Calls' = Calls \cup {Observe(i, authUser)}
<1>1. SignedIn => Observe(i, authUser) \in DbCall
  BY DEF SignedIn, Observe, DbCall, TypeOK, AuthTypeOK, MaybeUser
<1>2. CASE dbQ' = dbQ
  BY <1>2 DEF Calls
<1>3. CASE Hears(i) /\ SignedIn /\ dbQ' = Append(dbQ, Observe(i, authUser))
  BY <1>1, <1>3, CallsOnAppend
<1> QED BY <1>2, <1>3 DEF Call

(* The listener that the first block is about. *)
LEMMA HeadTyped ==
  ASSUME TypeOK, MainThread
  PROVE  mainQ # <<>> /\ Head(mainQ) \in Block /\ Head(mainQ).who \in Nat
<1>1. mainQ # <<>> /\ mainQ \in Seq(Block)
  BY MainThreadTakesOne DEF TypeOK
<1>2. Head(mainQ) \in Block
  BY <1>1
<1> QED BY <1>1, <1>2 DEF Block

(* A call waits for the worker because it did before, because a listener   *)
(* observes the record of a user it had not heard of, or because it writes *)
(* the record of a new student.                                            *)
LEMMA NewCalls ==
  ASSUME TypeOK, [Next]_vars, alive' = alive
  PROVE  \/ Calls' \subseteq Calls
         \/ /\ RunFirst \/ RunNotify
            /\ Call(Head(mainQ).who) /\ Hears(Head(mainQ).who) /\ SignedIn
            /\ Calls' = Calls \cup {Observe(Head(mainQ).who, authUser)}
         \/ Committed /\ (FlowInv => Calls' = Calls \cup {SetValue(authUser)})
<1>1. CASE RunFirst \/ RunNotify
  <2>1. Call(Head(mainQ).who) /\ Head(mainQ).who \in Nat
    BY <1>1, HeadTyped DEF MainThread, RunFirst, RunNotify
  <2> QED BY <1>1, <2>1, CallsOnCall
<1>2. CASE Committed
  <2>1. FlowInv => SetValue(authUser) \in DbCall
    BY <1>2 DEF Committed, At, FlowInv, SetValue, DbCall, TypeOK, AuthTypeOK, MaybeUser
  <2> QED BY <1>2, <2>1, CallsOnAppend DEF Committed
<1>3. CASE Database
  <2>1. CASE RunObserve \/ RunSetValue
    BY <2>1, CallsOnNext DEF RunObserve, RunSetValue
  <2>2. CASE ~RunObserve /\ ~RunSetValue
    <3>1. dbQ' = dbQ
      BY <1>3, <2>2 DEF Database, Raise, Sync, PushAccepted, PushRejected
    <3> QED BY <3>1 DEF Calls
  <2> QED BY <2>1, <2>2
<1>4. CASE MainThread /\ ~RunFirst /\ ~RunNotify
  <2>1. dbQ' = dbQ
    BY <1>4 DEF MainThread, RunAddedLoading, RunAddedForm, RunSignedIn, RunSignedUp,
                RunRestored, studentsVars
  <2> QED BY <2>1 DEF Calls
<1>5. CASE FlowStep \/ (UserStep /\ ~Committed) \/ Reinstall \/ LoadSession \/ UNCHANGED vars
  <2>1. dbQ' = dbQ
    BY <1>5, FlowStepFrame DEF UserStep, LoginAccepted, Logout, CreateAnswered,
       RestoreAccepted, Reinstall, LoadSession, vars, studentsVars
  <2> QED BY <2>1 DEF Calls
<1>6. ~Kill /\ ~CommitTraps /\ ~Launch
  BY DEF Kill, CommitTraps, At, Dies, Launch
<1> QED BY <1>1, <1>2, <1>3, <1>4, <1>5, <1>6, NextSteps

(* An observer waits because it did before or because its call was taken;  *)
(* none is lost but by being raised.                                       *)
LEMMA NewWaiting ==
  ASSUME TypeOK, [Next]_vars, alive' = alive, NEW o \in waiting', o \notin waiting
  PROVE  RunObserve /\ \E c \in Calls : c.op = "observe" /\ o = [who |-> c.who, uid |-> c.uid]
<1>1. CASE RunObserve
  <2>1. Head(dbQ) \in Calls /\ Head(dbQ).op = "observe"
    BY <1>1, CallsOnNext DEF RunObserve
  <2> QED BY <1>1, <2>1 DEF RunObserve
<1>2. CASE Database /\ ~RunObserve
  BY <1>2 DEF Database, Raise, RunSetValue, Sync, PushAccepted, PushRejected
<1>3. CASE FlowStep \/ UserStep \/ Reinstall \/ LoadSession \/ UNCHANGED vars
  BY <1>3, FlowStepFrame DEF UserStep, LoginAccepted, Logout, CreateAnswered, Committed,
     RestoreAccepted, Reinstall, LoadSession, vars, studentsVars
<1>4. CASE MainThread
  BY <1>4 DEF MainThread, RunFirst, RunNotify, Call, RunAddedLoading, RunAddedForm, RunSignedIn,
     RunSignedUp, RunRestored, studentsVars
<1>5. ~Kill /\ ~CommitTraps /\ ~Launch
  BY DEF Kill, CommitTraps, At, Dies, Launch
<1> QED BY <1>1, <1>2, <1>3, <1>4, <1>5, NextSteps

(* The blocks a service's answer and its notifications append. *)
LEMMA NewReplies ==
  ASSUME TypeOK, UserStep, NEW b \in Queued', b \notin Queued
  PROVE  \/ b = Notify(1)
         \/ /\ \E name \in {"signedUp", "signedIn", "restored"} : b = Reply(name)
            /\ b = Reply("restored") => RestoreAccepted
<1>1. \A name \in {"signedUp", "signedIn", "restored"} : <<Reply(name)>> \in Seq(Block)
  BY BlocksTyped
<1>2. \A u : Announce(u) \in Seq(Block) /\ Range(Announce(u)) \subseteq {Notify(1)}
  BY AnnounceTyped, ShortRanges DEF Announce
<1>3. ASSUME NEW u, NEW name \in {"signedUp", "signedIn", "restored"},
             Dispatch(Announce(u) \o <<Reply(name)>>)
      PROVE  Queued' \subseteq Queued \cup {Notify(1), Reply(name)}
  <2>1. Announce(u) \o <<Reply(name)>> \in Seq(Block)
    BY <1>1, <1>2, CatTyped
  <2>2. Queued' = Queued \cup Range(Announce(u) \o <<Reply(name)>>)
    BY <1>3, <2>1, QueuedOnDispatch DEF TypeOK
  <2>3. Range(Announce(u) \o <<Reply(name)>>) = Range(Announce(u)) \cup Range(<<Reply(name)>>)
    BY <1>1, <1>2, BlocksJoined
  <2> QED BY <1>2, <2>2, <2>3, ShortRanges
<1>4. Reply("signedUp") # Reply("restored") /\ Reply("signedIn") # Reply("restored")
  BY DEF Reply
<1>5. CASE LoginAccepted
  <2>1. Queued' \subseteq Queued \cup {Notify(1), Reply("signedIn")}
    BY <1>3, <1>5 DEF LoginAccepted
  <2> QED BY <1>4, <2>1
<1>6. CASE CreateAnswered
  <2>1. Queued' \subseteq Queued \cup {Notify(1), Reply("signedUp")}
    BY <1>3, <1>6 DEF CreateAnswered
  <2> QED BY <1>4, <2>1
<1>7. CASE RestoreAccepted
  <2>1. Queued' \subseteq Queued \cup {Notify(1), Reply("restored")}
    BY <1>3, <1>7 DEF RestoreAccepted
  <2> QED BY <1>7, <2>1
<1>8. CASE Logout \/ Committed
  <2>1. Dispatch(Announce(None))
    BY <1>8 DEF Logout, Committed
  <2>2. Queued' = Queued \cup Range(Announce(None))
    BY <1>2, <2>1, QueuedOnDispatch DEF TypeOK
  <2> QED BY <1>2, <2>2
<1> QED BY <1>5, <1>6, <1>7, <1>8 DEF UserStep

(* A block is in the main queue because it was before, or for one of the   *)
(* reasons the clients have to append one.                                 *)
LEMMA NewBlocks ==
  ASSUME TypeOK, [Next]_vars, alive' = alive, NEW b \in Queued', b \notin Queued
  PROVE  \/ Raise /\ \E o \in due : b = Added(o.who, o.uid)
         \/ (RunSignedIn \/ RunRestored) /\ b = First(Len(listeners) + 1)
         \/ (UserStep \/ LoadSession) /\ alive /\ b = Notify(1)
         \/ /\ RunNotify /\ Head(mainQ).who < Len(listeners)
            /\ b = Notify(Head(mainQ).who + 1)
         \/ /\ UserStep /\ \E name \in {"signedUp", "signedIn", "restored"} : b = Reply(name)
            /\ b = Reply("restored") => RestoreAccepted
<1>0. Range(<<>>) = {} /\ \A c : Range(<<c>>) = {c}
  BY ShortRanges
<1>1. CASE UserStep
  <2>1. alive
    BY <1>1 DEF UserStep, LoginAccepted, Logout, CreateAnswered, Committed, RestoreAccepted,
                At, Tappable
  <2> QED BY <1>1, <2>1, NewReplies
<1>2. CASE LoadSession
  <2>1. <<>> \in Seq(Block) /\ <<Notify(1)>> \in Seq(Block)
    BY BlocksTyped
  <2>2. PICK bs \in Seq(Block) : Dispatch(bs) /\ bs \in {<<>>, <<Notify(1)>>}
    BY <1>2, <2>1 DEF LoadSession, KeychainLoad
  <2>3. Queued' = Queued \cup Range(bs)
    BY <2>2, QueuedOnDispatch DEF TypeOK
  <2> QED BY <1>0, <1>2, <2>2, <2>3 DEF LoadSession
<1>3. CASE Database
  <2>1. CASE Raise
    <3>1. PICK o \in due : Dispatch(<<Added(o.who, o.uid)>>)
      BY <2>1 DEF Raise
    <3>2. <<Added(o.who, o.uid)>> \in Seq(Block)
      BY <3>1, BlocksTyped DEF TypeOK, StudentsTypeOK, due, Observer
    <3>3. Queued' = Queued \cup Range(<<Added(o.who, o.uid)>>)
      BY <3>1, <3>2, QueuedOnDispatch DEF TypeOK
    <3> QED BY <1>0, <2>1, <3>1, <3>3
  <2>2. CASE ~Raise
    <3>1. mainQ' = mainQ
      BY <1>3, <2>2 DEF Database, RunObserve, RunSetValue, Sync, PushAccepted, PushRejected
    <3> QED BY <3>1 DEF Queued
  <2> QED BY <2>1, <2>2
<1>4. CASE RunNotify
  <2>1. mainQ # <<>> /\ Head(mainQ).who \in Nat /\ mainQ \in Seq(Block)
    BY <1>4, HeadTyped DEF MainThread, TypeOK
  <2>2. Tail(mainQ) \in Seq(Block) /\ Queued = {Head(mainQ)} \cup Range(Tail(mainQ))
    BY <2>1, TailTyped, RangeHeadTail DEF Queued
  <2>3. CASE Head(mainQ).who < Len(listeners)
    <3>1. Notify(Head(mainQ).who + 1) \in Block
      BY <2>1, BlocksTyped
    <3>2. <<Notify(Head(mainQ).who + 1)>> \in Seq(Block)
      BY <3>1
    <3>3. mainQ' = <<Notify(Head(mainQ).who + 1)>> \o Tail(mainQ)
      BY <1>4, <2>3 DEF RunNotify
    <3>4. Range(<<Notify(Head(mainQ).who + 1)>> \o Tail(mainQ))
            = Range(<<Notify(Head(mainQ).who + 1)>>) \cup Range(Tail(mainQ))
      BY <2>2, <3>2, BlocksJoined
    <3> QED BY <1>0, <1>4, <2>2, <2>3, <3>3, <3>4 DEF Queued
  <2>4. CASE ~(Head(mainQ).who < Len(listeners))
    <3>1. mainQ' = <<>> \o Tail(mainQ)
      BY <1>4, <2>4 DEF RunNotify
    <3> QED BY <2>2, <3>1 DEF Queued
  <2> QED BY <2>3, <2>4
<1>5. CASE MainThread /\ ~RunNotify
  <2>1. mainQ # <<>> /\ mainQ \in Seq(Block)
    BY <1>5, HeadTyped DEF TypeOK
  <2>2. CASE RunSignedIn \/ RunRestored
    <3>1. Len(listeners) + 1 \in Nat
      BY DEF TypeOK, AuthTypeOK
    <3>2. <<First(Len(listeners) + 1)>> \in Seq(Block) /\ Done(<<First(Len(listeners) + 1)>>)
      BY <2>2, <3>1, BlocksTyped DEF RunSignedIn, RunRestored
    <3>3. /\ Queued = {Head(mainQ)} \cup Range(Tail(mainQ))
          /\ Queued' = Range(Tail(mainQ)) \cup Range(<<First(Len(listeners) + 1)>>)
      BY <2>1, <3>2, QueuedOnDone
    <3> QED BY <1>0, <2>2, <3>3
  <2>3. CASE ~RunSignedIn /\ ~RunRestored
    <3>1. Done(<<>>) /\ <<>> \in Seq(Block)
      BY <1>5, <2>3 DEF MainThread, RunFirst, RunAddedLoading, RunAddedForm, RunSignedUp
    <3> QED BY <1>0, <2>1, <3>1, QueuedOnDone
  <2> QED BY <2>2, <2>3
<1>6. CASE FlowStep \/ Reinstall \/ UNCHANGED vars
  <2>1. mainQ' = mainQ
    BY <1>6, FlowStepFrame DEF Reinstall, vars
  <2> QED BY <2>1 DEF Queued
<1>7. ~Kill /\ ~CommitTraps /\ ~Launch
  BY DEF Kill, CommitTraps, At, Dies, Launch
<1> QED BY <1>1, <1>2, <1>3, <1>4, <1>5, <1>6, <1>7, NextSteps

(* Screens and listeners are only added; a listener stays the kind it is   *)
(* and where it is.                                                        *)
LEMMA StackGrows ==
  ASSUME TypeOK, [Next]_vars, alive' = alive
  PROVE  stack' = stack \/ \E x \in Screen : stack' = Append(stack, x)
<1>1. CASE FlowStep \/ (UserStep /\ ~Logout) \/ Reinstall \/ LoadSession \/ Database \/ UNCHANGED vars
  BY <1>1, FlowStepFrame, UserStepFrame DEF Reinstall, LoadSession, Database, vars, appVars
<1>2. CASE Logout
  BY <1>2 DEF Logout, Screen
<1>3. CASE MainThread
  BY <1>3 DEF MainThread, RunFirst, RunNotify, Call, RunAddedLoading, RunAddedForm, RunSignedIn,
     RunSignedUp, RunRestored, GotoScreen, Screen
<1>4. ~Kill /\ ~CommitTraps /\ ~Launch
  BY DEF Kill, CommitTraps, At, Dies, Launch
<1> QED BY <1>1, <1>2, <1>3, <1>4, NextSteps

(* The listeners change by a call, or by one more at the end. *)
LEMMA ListenersGrow ==
  ASSUME TypeOK, [Next]_vars, alive' = alive
  PROVE  \/ listeners' = listeners
         \/ /\ RunFirst \/ RunNotify
            /\ Call(Head(mainQ).who)
         \/ RunSignedIn /\ AddListener("loading", Len(stack) + 1)
         \/ RunRestored /\ AddListener("form", Len(stack))
<1>1. CASE FlowStep \/ UserStep \/ Reinstall \/ LoadSession \/ Database \/ UNCHANGED vars
  BY <1>1, FlowStepFrame, UserStepFrame
     DEF Reinstall, LoadSession, KeychainLoad, Database, vars, authVars
<1>2. CASE MainThread
  BY <1>2 DEF MainThread, RunFirst, RunNotify, RunAddedLoading, RunAddedForm, RunSignedIn,
     RunSignedUp, RunRestored, authVars
<1>3. ~Kill /\ ~CommitTraps /\ ~Launch
  BY DEF Kill, CommitTraps, At, Dies, Launch
<1> QED BY <1>1, <1>2, <1>3, NextSteps

(* A listener keeps its kind and its screen. *)
LEMMA ListenersStay ==
  ASSUME TypeOK, [Next]_vars, alive' = alive, NEW i \in DOMAIN listeners
  PROVE  /\ i \in DOMAIN listeners'
         /\ listeners'[i].kind = listeners[i].kind /\ listeners'[i].at = listeners[i].at
<1>1. listeners[i] \in Listener /\ listeners \in Seq(Listener)
  BY DEF TypeOK, AuthTypeOK
<1>2. ASSUME NEW k, Call(k)
      PROVE  /\ i \in DOMAIN listeners'
             /\ listeners'[i].kind = listeners[i].kind /\ listeners'[i].at = listeners[i].at
  <2>1. listeners' = [listeners EXCEPT ![k] = [listeners[k] EXCEPT !.prev = authUser]]
    BY <1>2 DEF Call
  <2>2. CASE i = k
    <3>1. listeners'[i] = [listeners[i] EXCEPT !.prev = authUser]
      BY <2>1, <2>2
    <3> QED BY <1>1, <2>1, <3>1 DEF Listener
  <2>3. CASE i # k
    BY <2>1, <2>3
  <2> QED BY <2>2, <2>3
<1>3. ASSUME NEW kind, NEW at, AddListener(kind, at)
      PROVE  i \in DOMAIN listeners' /\ listeners'[i] = listeners[i]
  BY <1>1, <1>3 DEF AddListener
<1> QED BY <1>2, <1>3, ListenersGrow

-----------------------------------------------------------------------------
(* The records, and where the listeners live *)

(* Every record is that of an account the server knows; the account being  *)
(* registered is known as soon as it has been created, and has no record   *)
(* before the one this registration writes.                                *)
RecordInv ==
  /\ records \subseteq registered
  /\ flow.pc \in Creating \ {"creating"} => flow.new \in registered \ records
  /\ Registering => flow.email \in Account

(* Whoever is called, observes or will be told of a record is a listener,  *)
(* and belongs to a screen; that of a form is the main screen.             *)
PlaceInv ==
  /\ alive => 1 \in DOMAIN listeners /\ stack # <<>>
  /\ \A c \in Calls : c.op = "observe" => c.who \in DOMAIN listeners
  /\ \A o \in waiting : o.who \in DOMAIN listeners
  /\ \A b \in Queued : b.do \in {"first", "notify", "added"} => b.who \in DOMAIN listeners
  /\ \A i \in DOMAIN listeners :
       /\ listeners[i].at \in DOMAIN stack
       /\ listeners[i].kind = "form" => stack[listeners[i].at] = "Main"

(* The records, by where they are. *)
LEMMA RecordPlaces ==
  \A u : u \in records <=>
    u \in students \/ u \in pending \/ \E c \in Calls : c.op = "set" /\ c.uid = u
BY DEF records, Calls, Range

LEMMA RecordPlacesNext ==
  \A u : u \in records' <=>
    u \in students' \/ u \in pending' \/ \E c \in Calls' : c.op = "set" /\ c.uid = u
BY DEF records, Calls, Range

(* Steps that neither write nor move a record. *)
LEMMA RecordsSame ==
  ASSUME students' = students, pending' = pending,
         \A c : c.op = "set" => (c \in Calls' <=> c \in Calls)
  PROVE  records' = records
BY RecordPlaces, RecordPlacesNext

(* The steps of a registration, of the main thread and of the worker, by   *)
(* what they do to the records.                                            *)
LEMMA RecordsWritten ==
  ASSUME TypeOK, FlowInv, Committed
  PROVE  records' = records \cup {authUser}
<1>1. SetValue(authUser) \in DbCall
  BY DEF Committed, At, FlowInv, SetValue, DbCall, TypeOK, AuthTypeOK, MaybeUser
<1>2. Calls' = Calls \cup {SetValue(authUser)} /\ students' = students /\ pending' = pending
  BY <1>1, CallsOnAppend DEF Committed
<1>3. SetValue(authUser).op = "set" /\ SetValue(authUser).uid = authUser
  BY DEF SetValue
<1>4. \A u : u \in records' <=> u \in records \/ u = authUser
  BY <1>2, <1>3, RecordPlaces, RecordPlacesNext
<1> QED BY <1>4

(* Blocks of the main thread write no record. *)
LEMMA RecordsInMain ==
  ASSUME TypeOK, MainThread
  PROVE  records' = records
<1>1. students' = students /\ pending' = pending
  BY DEF MainThread, RunFirst, RunNotify, Call, RunAddedLoading, RunAddedForm,
     RunSignedIn, RunSignedUp, RunRestored, studentsVars
<1>2. CASE RunFirst \/ RunNotify
  <2>1. PICK i \in Nat : Call(i)
    BY <1>2, HeadTyped DEF RunFirst, RunNotify
  <2>2. Observe(i, authUser).op = "observe"
    BY DEF Observe
  <2>3. Calls' = Calls \/ Calls' = Calls \cup {Observe(i, authUser)}
    BY <2>1, CallsOnCall
  <2> QED BY <1>1, <2>2, <2>3, RecordsSame
<1>3. CASE ~RunFirst /\ ~RunNotify
  <2>1. dbQ' = dbQ
    BY <1>3 DEF MainThread, RunAddedLoading, RunAddedForm, RunSignedIn, RunSignedUp,
       RunRestored, studentsVars
  <2> QED BY <1>1, <2>1 DEF records
<1> QED BY <1>2, <1>3

(* Nor does the worker, which loses one if the server rejects it. *)
LEMMA RecordsAtWorker ==
  ASSUME TypeOK, Database
  PROVE  records' = records \/ (Rejects /\ PushRejected /\ records' \subseteq records)
<1>1. CASE RunObserve
  <2>1. Calls = {Head(dbQ)} \cup Calls' /\ Head(dbQ).op = "observe"
    BY <1>1, CallsOnNext DEF RunObserve
  <2>2. students' = students /\ pending' = pending
    BY <1>1 DEF RunObserve
  <2> QED BY <2>1, <2>2, RecordsSame
<1>2. CASE RunSetValue
  <2>1. Calls = {Head(dbQ)} \cup Calls' /\ Head(dbQ).op = "set"
    BY <1>2, CallsOnNext DEF RunSetValue
  <2>2. students' = students /\ pending' = pending \cup {Head(dbQ).uid}
    BY <1>2 DEF RunSetValue
  <2>3. \A u : u \in records' <=> u \in records
    BY <2>1, <2>2, RecordPlaces, RecordPlacesNext
  <2> QED BY <2>3
<1>3. CASE PushAccepted
  <2>1. dbQ' = dbQ /\ \E k \in pending : students' = students \cup {k} /\ pending' = pending \ {k}
    BY <1>3 DEF PushAccepted
  <2> QED BY <2>1 DEF records
<1>4. CASE PushRejected
  <2>1. Rejects /\ dbQ' = dbQ /\ students' = students /\ pending' \subseteq pending
    BY <1>4 DEF PushRejected
  <2> QED BY <1>4, <2>1 DEF records
<1>5. CASE Raise \/ Sync
  <2>1. UNCHANGED <<students, pending, dbQ>>
    BY <1>5 DEF Raise, Sync
  <2> QED BY <2>1 DEF records
<1> QED BY <1>1, <1>2, <1>3, <1>4, <1>5 DEF Database

(* What becomes of the records in a step. *)
LEMMA RecordsMove ==
  ASSUME TypeOK, FlowInv, [Next]_vars
  PROVE  \/ Committed /\ records' = records \cup {authUser}
         \/ (Kill \/ CommitTraps \/ (Rejects /\ PushRejected)) /\ records' \subseteq records
         \/ CommitTraps /\ keychain' = None /\ records' \subseteq records \cup {authUser}
         \/ records' = records
<1>1. CASE FlowStep \/ (UserStep /\ ~Committed) \/ Launch \/ Reinstall \/ LoadSession \/ UNCHANGED vars
  <2>1. UNCHANGED <<students, pending, dbQ>>
    BY <1>1, FlowStepFrame DEF UserStep, LoginAccepted, Logout, CreateAnswered, RestoreAccepted,
       Launch, Reinstall, LoadSession, vars, studentsVars
  <2> QED BY <2>1 DEF records
<1>2. CASE Committed
  BY <1>2, RecordsWritten
<1>3. CASE Kill \/ CommitTraps
  <2>1. pending' = {} /\ Calls' = {}
    BY <1>3, ShortRanges DEF Kill, CommitTraps, Dies, FreshProcess, Calls
  <2>2. CASE students' = students
    <3>1. \A u : u \in records' => u \in records
      BY <2>1, <2>2, RecordPlaces, RecordPlacesNext
    <3> QED BY <1>3, <3>1
  <2>3. CASE students' # students
    <3>1. CommitTraps /\ keychain' = None /\ students' = students \cup {authUser}
      BY <1>3, <2>3 DEF Kill, CommitTraps
    <3>2. \A u : u \in records' => u \in records \cup {authUser}
      BY <2>1, <3>1, RecordPlaces, RecordPlacesNext
    <3> QED BY <3>1, <3>2
  <2> QED BY <2>2, <2>3
<1>4. CASE MainThread
  BY <1>4, RecordsInMain
<1>5. CASE Database
  BY <1>5, RecordsAtWorker
<1> QED BY <1>1, <1>2, <1>3, <1>4, <1>5, NextSteps

(* How a flow goes on: where its account and its owner come from. *)
LEMMA FlowGoesOn ==
  ASSUME TypeOK, FlowInv, DeadInv, [Next]_vars
  PROVE  /\ flow'.pc \in Creating \ {"creating"} =>
              CreateAtServer \/ (flow.pc \in Creating \ {"creating"} /\ flow'.new = flow.new)
         /\ flow'.pc \notin {"idle", "signingIn", "signedIn"} =>
              TapDone \/ (Registering /\ flow'.email = flow.email)
<1> USE DEF TypeOK, Flow, Idle, Goes, At, Creating, Registering
<1>1. CASE FlowStep
  <2>1. CASE LoginRefused \/ DismissAlert \/ ConfirmDropped \/ CreateFailed \/ UploadFailed
             \/ CommitFailed
    BY <2>1 DEF LoginRefused, DismissAlert, ConfirmDropped, CreateFailed, UploadFailed, CommitFailed
  <2>3. CASE LoginTap
    <3>1. flow'.pc = "signingIn"
      BY <2>3 DEF LoginTap
    <3> QED BY <3>1
  <2>4. CASE TapDone
    <3>1. flow'.pc = "confirm"
      BY <2>4 DEF TapDone
    <3> QED BY <2>4, <3>1
  <2>2. CASE ConfirmOk \/ CreateAtServer \/ Uploaded \/ UrlAnswered \/ RestoreRefused
    BY <2>2 DEF ConfirmOk, CreateAtServer, Uploaded, UrlAnswered, RestoreRefused
  <2> QED BY <1>1, <2>1, <2>2, <2>3, <2>4 DEF FlowStep
<1>2. CASE UserStep
  BY <1>2 DEF UserStep, LoginAccepted, Logout, CreateAnswered, Committed, RestoreAccepted
<1>3. CASE MainThread
  <2>1. CASE RunFirst \/ RunNotify \/ RunAddedLoading
    <3>1. flow' = flow
      BY <2>1 DEF RunFirst, RunNotify, Call, RunAddedLoading
    <3> QED BY <3>1
  <2>2. CASE RunAddedForm \/ RunSignedIn
    <3>1. flow' = flow \/ flow'.pc = "idle"
      BY <2>2 DEF RunAddedForm, RunSignedIn
    <3> QED BY <3>1
  <2>3. CASE RunSignedUp \/ RunRestored
    BY <2>3 DEF RunSignedUp, RunRestored
  <2> QED BY <1>3, <2>1, <2>2, <2>3 DEF MainThread
<1>4. CASE Kill \/ CommitTraps
  BY <1>4 DEF Kill, CommitTraps, Dies, FreshProcess
<1>5. CASE Launch \/ Reinstall \/ LoadSession \/ Database \/ UNCHANGED vars
  <2>1. flow' = flow
    BY <1>5 DEF Launch, Reinstall, LoadSession, Database, vars, appVars
  <2> QED BY <2>1
<1> QED BY <1>1, <1>2, <1>3, <1>4, <1>5, NextSteps

(* The server never forgets an account. *)
LEMMA RegisteredGrows ==
  ASSUME [Next]_vars
  PROVE  registered \subseteq registered' /\ (CreateAtServer => flow.new \in registered')
<1>1. CASE CreateAtServer
  BY <1>1 DEF CreateAtServer
<1>2. CASE ~CreateAtServer
  <2>1. registered' = registered
    BY <1>2, NextSteps, UserStepFrame
       DEF FlowStep, LoginTap, LoginRefused, DismissAlert, TapDone, ConfirmDropped, ConfirmOk,
           CreateFailed, UploadFailed, Uploaded, UrlAnswered, CommitFailed, RestoreRefused,
           MainThread, RunFirst, RunNotify, Call, RunAddedLoading, RunAddedForm, RunSignedIn,
           RunSignedUp, RunRestored, Launch, Kill, CommitTraps, Reinstall, LoadSession,
           KeychainLoad, Database, vars, authVars
  <2>2. ~CreateAtServer
    BY <1>2
  <2> QED BY <2>1, <2>2
<1> QED BY <1>1, <1>2

(* Every step keeps the records in order. *)
LEMMA NextRecord ==
  ASSUME TypeOK, FlowInv, DeadInv, RecordInv, [Next]_vars
  PROVE  RecordInv'
<1>1. registered \subseteq registered'
  BY RegisteredGrows
<1>2. records' \subseteq registered'
  <2>1. CASE Committed \/ CommitTraps
    <3>1. authUser = flow.new /\ flow.new \in registered
      BY <2>1 DEF Committed, CommitTraps, At, FlowInv, RecordInv, Creating
    <3> QED BY <1>1, <3>1, RecordsMove DEF RecordInv
  <2> QED BY <1>1, <2>1, RecordsMove DEF RecordInv
<1>3. flow'.pc \in Creating \ {"creating"} => flow'.new \in registered' \ records'
  <2>1. SUFFICES ASSUME flow'.pc \in Creating \ {"creating"}
                 PROVE  flow'.new \in registered' \ records'
    OBVIOUS
  <2>2. ~Committed /\ ~CommitTraps
    BY <2>1 DEF Committed, CommitTraps, Dies, FreshProcess, Idle, Goes, TypeOK, Flow, Creating
  <2>3. records' \subseteq records
    BY <2>2, RecordsMove
  <2>4. CASE CreateAtServer
    <3>1. flow'.new = flow.new /\ flow.new \notin registered
      BY <2>4 DEF CreateAtServer, Goes, TypeOK, Flow
    <3> QED BY <2>3, <2>4, <3>1, RegisteredGrows DEF RecordInv
  <2>5. CASE flow.pc \in Creating \ {"creating"} /\ flow'.new = flow.new
    BY <1>1, <2>3, <2>5 DEF RecordInv
  <2> QED BY <2>1, <2>4, <2>5, FlowGoesOn
<1>4. Registering' => flow'.email \in Account
  <2>1. CASE TapDone
    BY <2>1 DEF TapDone, Idle, TypeOK, MaybeUser
  <2> QED BY <2>1, FlowGoesOn DEF RecordInv, Registering
<1> QED BY <1>2, <1>3, <1>4 DEF RecordInv

(* A screen on the stack stays where it is. *)
LEMMA ScreensStay ==
  ASSUME TypeOK, [Next]_vars, alive' = alive, NEW k \in DOMAIN stack
  PROVE  k \in DOMAIN stack' /\ stack'[k] = stack[k]
<1>1. stack \in Seq(Screen) /\ k \in 1 .. Len(stack)
  BY DEF TypeOK
<1>2. CASE stack' = stack
  BY <1>2
<1>3. ASSUME NEW x \in Screen, stack' = Append(stack, x)
      PROVE  k \in DOMAIN stack' /\ stack'[k] = stack[k]
  BY <1>1, <1>3, AppendProperties
<1> QED BY <1>2, <1>3, StackGrows

(* What a new listener is. *)
LEMMA ListenerAdded ==
  ASSUME TypeOK, NEW kind \in {"loading", "form"}, NEW at \in Nat, AddListener(kind, at)
  PROVE  /\ Len(listeners) + 1 \in DOMAIN listeners'
         /\ \A i \in DOMAIN listeners' : i \in DOMAIN listeners \/ i = Len(listeners) + 1
         /\ listeners'[Len(listeners) + 1] = NewListener(kind, at)
         /\ \A i \in DOMAIN listeners : listeners'[i] = listeners[i]
<1>1. listeners \in Seq(Listener) /\ NewListener(kind, at) \in Listener
  BY DEF TypeOK, AuthTypeOK, NewListener, Listener
<1>2. listeners' = Append(listeners, NewListener(kind, at))
  BY DEF AddListener
<1>3. /\ Len(listeners') = Len(listeners) + 1
      /\ \A i \in 1 .. Len(listeners) : listeners'[i] = listeners[i]
      /\ listeners'[Len(listeners) + 1] = NewListener(kind, at)
  BY <1>1, <1>2, AppendProperties
<1>4. /\ DOMAIN listeners = 1 .. Len(listeners) /\ DOMAIN listeners' = 1 .. Len(listeners')
      /\ Len(listeners) \in Nat
  BY <1>1, <1>2
<1> QED BY <1>3, <1>4

(* Every step keeps every listener in its place. *)
LEMMA NextPlace ==
  ASSUME TypeOK, FlowInv, DeadInv, PlaceInv, [Next]_vars
  PROVE  PlaceInv'
<1>1. CASE alive' = alive
  <2>1. \A i \in DOMAIN listeners : i \in DOMAIN listeners'
    BY <1>1, ListenersStay
  <2>2. alive' => 1 \in DOMAIN listeners' /\ stack' # <<>>
    <3>1. stack # <<>> => stack' # <<>>
      BY <1>1, StackGrows, AppendProperties DEF TypeOK
    <3> QED BY <1>1, <2>1, <3>1 DEF PlaceInv
  <2>3. \A c \in Calls' : c.op = "observe" => c.who \in DOMAIN listeners'
    <3>1. CASE RunFirst \/ RunNotify
      <4>1. Head(mainQ) \in Queued /\ Head(mainQ).do \in {"first", "notify"}
        BY <3>1, MainThreadTakesOne DEF MainThread, RunFirst, RunNotify, Runs
      <4>2. Head(mainQ).who \in DOMAIN listeners
        BY <4>1 DEF PlaceInv
      <4>3. Observe(Head(mainQ).who, authUser).who = Head(mainQ).who
        BY DEF Observe
      <4>4. ~Committed
        BY <3>1, <4>1 DEF Committed, RunFirst, RunNotify, Runs
      <4> QED BY <1>1, <2>1, <4>2, <4>3, <4>4, NewCalls DEF PlaceInv
    <3>2. CASE ~RunFirst /\ ~RunNotify
      <4>1. SetValue(authUser).op = "set"
        BY DEF SetValue
      <4> QED BY <1>1, <2>1, <3>2, <4>1, NewCalls DEF PlaceInv
    <3> QED BY <3>1, <3>2
  <2>4. \A o \in waiting' : o.who \in DOMAIN listeners'
    <3>1. SUFFICES ASSUME NEW o \in waiting' PROVE o.who \in DOMAIN listeners'
      OBVIOUS
    <3>2. CASE o \in waiting
      BY <2>1, <3>2 DEF PlaceInv
    <3>3. CASE o \notin waiting
      <4>1. PICK c \in Calls : c.op = "observe" /\ o = [who |-> c.who, uid |-> c.uid]
        BY <1>1, <3>3, NewWaiting
      <4>2. o.who = c.who
        BY <4>1
      <4> QED BY <2>1, <4>1, <4>2 DEF PlaceInv
    <3> QED BY <3>2, <3>3
  <2>5. \A b \in Queued' : b.do \in {"first", "notify", "added"} => b.who \in DOMAIN listeners'
    <3>1. SUFFICES ASSUME NEW b \in Queued', b.do \in {"first", "notify", "added"}
                   PROVE  b.who \in DOMAIN listeners'
      OBVIOUS
    <3>2. CASE b \in Queued
      BY <2>1, <3>1, <3>2 DEF PlaceInv
    <3>3. CASE Raise /\ \E o \in due : b = Added(o.who, o.uid)
      <4>1. PICK o \in due : b = Added(o.who, o.uid)
        BY <3>3
      <4>2. b.who = o.who /\ o \in waiting
        BY <4>1 DEF Added, due
      <4> QED BY <2>1, <4>2 DEF PlaceInv
    <3>4. CASE (RunSignedIn \/ RunRestored) /\ b = First(Len(listeners) + 1)
      <4>1. b.who = Len(listeners) + 1
        BY <3>4 DEF First
      <4>2. Len(stack) \in Nat /\ Len(stack) + 1 \in Nat
        BY DEF TypeOK
      <4>3. CASE RunSignedIn
        <5>1. AddListener("loading", Len(stack) + 1)
          BY <4>3 DEF RunSignedIn
        <5> QED BY <4>1, <4>2, <5>1, ListenerAdded
      <4>4. CASE RunRestored
        <5>1. AddListener("form", Len(stack))
          BY <4>4 DEF RunRestored
        <5> QED BY <4>1, <4>2, <5>1, ListenerAdded
      <4> QED BY <3>4, <4>3, <4>4
    <3>5. CASE alive /\ b = Notify(1)
      BY <2>1, <3>5 DEF Notify, PlaceInv
    <3>6. CASE RunNotify /\ Head(mainQ).who < Len(listeners) /\ b = Notify(Head(mainQ).who + 1)
      <4>1. b.who = Head(mainQ).who + 1 /\ Head(mainQ).who \in Nat
        BY <3>6, HeadTyped DEF Notify, MainThread
      <4>2. b.who \in DOMAIN listeners
        BY <3>6, <4>1 DEF TypeOK, AuthTypeOK
      <4> QED BY <2>1, <4>2
    <3>7. ~\E name \in {"signedUp", "signedIn", "restored"} : b = Reply(name)
      BY <3>1 DEF Reply
    <3> QED BY <1>1, <3>2, <3>3, <3>4, <3>5, <3>6, <3>7, NewBlocks
  <2>6. \A i \in DOMAIN listeners' :
          /\ listeners'[i].at \in DOMAIN stack'
          /\ listeners'[i].kind = "form" => stack'[listeners'[i].at] = "Main"
    <3>1. ASSUME NEW i \in DOMAIN listeners
          PROVE  /\ listeners'[i].at \in DOMAIN stack'
                 /\ listeners'[i].kind = "form" => stack'[listeners'[i].at] = "Main"
      <4>1. listeners'[i].at = listeners[i].at /\ listeners'[i].kind = listeners[i].kind
        BY <1>1, ListenersStay
      <4>2. listeners[i].at \in DOMAIN stack
        BY DEF PlaceInv
      <4> QED BY <1>1, <4>1, <4>2, ScreensStay DEF PlaceInv
    <3>2. stack \in Seq(Screen) /\ Len(stack) \in Nat /\ Len(stack) + 1 \in Nat
      BY DEF TypeOK
    <3>3. CASE RunSignedIn
      <4>1. AddListener("loading", Len(stack) + 1) /\ stack' = Append(stack, "Loading")
        BY <3>3 DEF RunSignedIn
      <4>2. Len(stack) + 1 \in DOMAIN stack'
        BY <3>2, <4>1
      <4>3. /\ NewListener("loading", Len(stack) + 1).at = Len(stack) + 1
            /\ NewListener("loading", Len(stack) + 1).kind = "loading"
        BY DEF NewListener
      <4> QED BY <3>1, <3>2, <4>1, <4>2, <4>3, ListenerAdded
    <3>4. CASE RunRestored
      <4>1. AddListener("form", Len(stack)) /\ stack' = stack /\ alive /\ Registering
        BY <3>4 DEF RunRestored, At, Registering
      <4>2. Len(stack) \in DOMAIN stack' /\ stack'[Len(stack)] = "Main"
        BY <3>2, <4>1 DEF PlaceInv, FlowInv, RegistrationCovered, Top
      <4>3. /\ NewListener("form", Len(stack)).at = Len(stack)
            /\ NewListener("form", Len(stack)).kind = "form"
        BY DEF NewListener
      <4> QED BY <3>1, <3>2, <4>1, <4>2, <4>3, ListenerAdded
    <3>5. CASE ~RunSignedIn /\ ~RunRestored
      <4>1. DOMAIN listeners' = DOMAIN listeners
        BY <1>1, <3>5, ListenersGrow DEF Call
      <4> QED BY <3>1, <4>1
    <3> QED BY <3>3, <3>4, <3>5
  <2> QED BY <2>2, <2>3, <2>4, <2>5, <2>6 DEF PlaceInv
<1>2. CASE Kill \/ CommitTraps
  <2>1. ~alive' /\ listeners' = <<>> /\ Queued' = {} /\ Calls' = {} /\ waiting' = {}
    BY <1>2, ShortRanges DEF Kill, CommitTraps, Dies, FreshProcess, Queued, Calls
  <2> QED BY <2>1 DEF PlaceInv
<1>3. CASE Launch
  <2>1. /\ Queued' = {First(1)} /\ listeners' = <<NewListener("loading", 1)>>
        /\ stack' = <<"Loading">>
    BY <1>3, ShortRanges DEF Launch, Queued
  <2>2. Calls' = {} /\ waiting' = {}
    BY <1>3, ShortRanges DEF Launch, DeadInv, studentsVars, Calls
  <2> QED BY <2>1, <2>2 DEF PlaceInv, First, NewListener
<1>4. alive' # alive => Kill \/ CommitTraps \/ Launch
  BY NextSteps, FlowStepFrame, UserStepFrame
     DEF MainThread, RunFirst, RunNotify, Call, RunAddedLoading, RunAddedForm, RunSignedIn,
         RunSignedUp, RunRestored, Reinstall, LoadSession, Database, vars, appVars
<1> QED BY <1>1, <1>2, <1>3, <1>4

-----------------------------------------------------------------------------
(* The database's answer, and the session a registration gives back *)

(* Until the server's data has come no record has been raised, hence no    *)
(* splash screen has gone to the main screen, and nobody has registered.   *)
SyncedInv ==
  ~synced =>
    /\ pending = {} /\ ~HasMain
    /\ \A c \in Calls : c.op # "set"
    /\ \A b \in Queued : b.do # "added"

(* From the answered sign-in on, the device is the registering user's.     *)
BackInv ==
  flow.pc \in {"restored", "reloading"} =>
    /\ loaded /\ authUser = flow.email /\ keychain = flow.email
    /\ savedPassword = flow.email

(* Only a splash screen's record brings the main screen. *)
LEMMA MainFromSplash ==
  ASSUME TypeOK, [Next]_vars, alive' = alive, ~RunAddedLoading, HasMain'
  PROVE  HasMain
<1>1. CASE stack' = stack
  BY <1>1 DEF HasMain
<1>2. ASSUME NEW x, x # "Main", stack' = Append(stack, x)
      PROVE  HasMain
  BY <1>2, AppendOther DEF HasMain, TypeOK
<1>3. stack' = stack \/ stack' = Append(stack, "Login") \/ stack' = Append(stack, "Loading")
  <2>1. CASE FlowStep \/ (UserStep /\ ~Logout) \/ Reinstall \/ LoadSession \/ Database \/ UNCHANGED vars
    BY <2>1, FlowStepFrame, UserStepFrame DEF Reinstall, LoadSession, Database, vars, appVars
  <2>2. CASE Logout
    BY <2>2 DEF Logout
  <2>3. CASE MainThread
    BY <2>3 DEF MainThread, RunFirst, RunNotify, Call, RunAddedForm, RunSignedIn, RunSignedUp,
       RunRestored, GotoScreen
  <2>4. ~Kill /\ ~CommitTraps /\ ~Launch
    BY DEF Kill, CommitTraps, At, Dies, Launch
  <2> QED BY <2>1, <2>2, <2>3, <2>4, NextSteps
<1> QED BY <1>1, <1>2, <1>3

(* The process starts, ends or goes on. *)
LEMMA ProcessSteps ==
  ASSUME [Next]_vars
  PROVE  alive' = alive \/ Kill \/ CommitTraps \/ Launch
BY NextSteps, FlowStepFrame, UserStepFrame
   DEF MainThread, RunFirst, RunNotify, Call, RunAddedLoading, RunAddedForm, RunSignedIn,
       RunSignedUp, RunRestored, Reinstall, LoadSession, Database, vars, appVars

(* While it goes on, what the worker knows of the records changes only by  *)
(* the worker's own steps.                                                 *)
LEMMA WorkerAlone ==
  ASSUME [Next]_vars, alive' = alive, ~Database
  PROVE  UNCHANGED <<students, synced, pending, waiting>>
<1>1. CASE FlowStep \/ UserStep \/ Reinstall \/ LoadSession \/ UNCHANGED vars
  BY <1>1, FlowStepFrame DEF UserStep, LoginAccepted, Logout, CreateAnswered, Committed,
     RestoreAccepted, Reinstall, LoadSession, vars, studentsVars
<1>2. CASE MainThread
  BY <1>2 DEF MainThread, RunFirst, RunNotify, Call, RunAddedLoading, RunAddedForm, RunSignedIn,
     RunSignedUp, RunRestored, studentsVars
<1>3. ~Kill /\ ~CommitTraps /\ ~Launch
  BY DEF Kill, CommitTraps, At, Dies, Launch
<1> QED BY <1>1, <1>2, <1>3, NextSteps

(* Every step respects the order: data, record, main screen, registration. *)
LEMMA NextSynced ==
  ASSUME TypeOK, FlowInv, DeadInv, PlaceInv, SyncedInv, [Next]_vars
  PROVE  SyncedInv'
<1>1. CASE alive' = alive
  <2>1. SUFFICES ASSUME ~synced'
                 PROVE  /\ pending' = {} /\ ~HasMain'
                        /\ \A c \in Calls' : c.op # "set"
                        /\ \A b \in Queued' : b.do # "added"
    BY DEF SyncedInv
  <2>2. ~synced
    BY <1>1, <2>1, WorkerAlone
       DEF Database, Raise, RunObserve, RunSetValue, Sync, PushAccepted, PushRejected
  <2>3. /\ pending = {} /\ ~HasMain
        /\ \A c \in Calls : c.op # "set"
        /\ \A b \in Queued : b.do # "added"
    BY <2>2 DEF SyncedInv
  <2>4. due = {}
    BY <2>2, <2>3 DEF due, view
  <2>5. pending' = {}
    <3>1. ~RunSetValue
      <4>1. ASSUME RunSetValue PROVE Head(dbQ) \in Calls /\ Head(dbQ).op = "set"
        BY <4>1, CallsOnNext DEF RunSetValue
      <4> QED BY <2>3, <4>1
    <3> QED BY <1>1, <2>3, <3>1, WorkerAlone
            DEF Database, Raise, RunObserve, Sync, PushAccepted, PushRejected
  <2>6. ~HasMain'
    <3>1. ~RunAddedLoading
      <4>1. RunAddedLoading => Head(mainQ) \in Queued /\ Head(mainQ).do = "added"
        BY MainThreadTakesOne DEF MainThread, RunAddedLoading, Runs
      <4> QED BY <2>3, <4>1
    <3> QED BY <1>1, <2>3, <3>1, MainFromSplash
  <2>7. \A c \in Calls' : c.op # "set"
    <3>1. ~Committed
      <4>1. Committed => alive /\ Registering
        BY DEF Committed, At, Registering
      <4>2. Committed => Len(stack) \in DOMAIN stack /\ stack[Len(stack)] = "Main"
        BY <4>1 DEF FlowInv, RegistrationCovered, Top, PlaceInv, TypeOK
      <4> QED BY <2>3, <4>2 DEF HasMain
    <3>2. \A i : Observe(i, authUser).op = "observe"
      BY DEF Observe
    <3> QED BY <1>1, <2>3, <3>1, <3>2, NewCalls
  <2>8. \A b \in Queued' : b.do # "added"
    <3>1. SUFFICES ASSUME NEW b \in Queued', b.do = "added" PROVE FALSE
      OBVIOUS
    <3>2. b \notin Queued /\ ~Raise
      BY <2>3, <2>4, <3>1 DEF Raise
    <3> QED BY <1>1, <3>1, <3>2, NewBlocks DEF First, Notify, Reply
  <2> QED BY <2>5, <2>6, <2>7, <2>8
<1>2. CASE Kill \/ CommitTraps
  <2>1. pending' = {} /\ stack' = <<>> /\ Calls' = {} /\ Queued' = {}
    BY <1>2, ShortRanges DEF Kill, CommitTraps, Dies, FreshProcess, Calls, Queued
  <2> QED BY <2>1 DEF SyncedInv, HasMain
<1>3. CASE Launch
  <2>1. pending' = {} /\ stack' = <<"Loading">> /\ Calls' = {} /\ Queued' = {First(1)}
    BY <1>3, ShortRanges DEF Launch, DeadInv, studentsVars, Calls, Queued
  <2> QED BY <2>1 DEF SyncedInv, HasMain, First
<1> QED BY <1>1, <1>2, <1>3, ProcessSteps

(* Where a flow that is back came from. *)
LEMMA BackSteps ==
  ASSUME TypeOK, DeadInv, FlowInv, SigningInv, [Next]_vars,
         flow'.pc \in {"restored", "reloading"}
  PROVE  \/ RestoreAccepted
         \/ /\ flow.pc \in {"restored", "reloading"} /\ flow'.email = flow.email
            /\ flow' = flow \/ RunRestored
            /\ alive /\ alive' /\ stack' = stack /\ modal' = modal
            /\ MainThread \/ LoadSession \/ Database \/ UNCHANGED vars
<1> USE DEF TypeOK, Flow, Idle, Goes, At
<1>1. CASE FlowStep
  <2>1. CASE LoginRefused \/ DismissAlert \/ ConfirmDropped \/ CreateFailed \/ UploadFailed
             \/ CommitFailed
    BY <2>1 DEF LoginRefused, DismissAlert, ConfirmDropped, CreateFailed, UploadFailed, CommitFailed
  <2>4. CASE LoginTap
    <3>1. flow'.pc = "signingIn"
      BY <2>4 DEF LoginTap
    <3> QED BY <3>1
  <2>2. CASE TapDone
    <3>1. flow'.pc = "confirm"
      BY <2>2 DEF TapDone
    <3> QED BY <3>1
  <2>3. CASE ConfirmOk \/ CreateAtServer \/ Uploaded \/ UrlAnswered \/ RestoreRefused
    BY <2>3 DEF ConfirmOk, CreateAtServer, Uploaded, UrlAnswered, RestoreRefused
  <2> QED BY <1>1, <2>1, <2>2, <2>3, <2>4 DEF FlowStep
<1>2. CASE UserStep /\ ~RestoreAccepted
  <2>1. CASE Logout
    <3>1. flow' = flow /\ flow.pc = "idle"
      BY <2>1 DEF Logout, Tappable, FlowInv
    <3> QED BY <3>1
  <2>2. CASE LoginAccepted \/ CreateAnswered \/ Committed
    BY <2>2 DEF LoginAccepted, CreateAnswered, Committed
  <2> QED BY <1>2, <2>1, <2>2 DEF UserStep
<1>3. CASE MainThread
  <2>1. CASE RunFirst \/ RunNotify \/ RunAddedLoading
    <3>1. flow' = flow /\ alive' = alive /\ modal' = modal
      BY <2>1 DEF RunFirst, RunNotify, Call, RunAddedLoading
    <3>2. flow.pc # "idle"
      BY <3>1
    <3>3. stack' = stack /\ alive
      BY <1>3, <3>1, <3>2, MainThreadCovered DEF FlowInv, RegistrationCovered, Registering
    <3> QED BY <1>3, <3>1, <3>3
  <2>2. CASE RunAddedForm
    <3>1. flow' = flow /\ stack' = stack /\ alive' = alive
      BY <2>2 DEF RunAddedForm
    <3>2. modal # "none" /\ alive
      BY <3>1 DEF FlowInv, RegistrationCovered, Registering
    <3>3. modal' = modal
      BY <2>2, <3>1, <3>2 DEF RunAddedForm, MayPresent
    <3> QED BY <1>3, <3>1, <3>2, <3>3
  <2>3. CASE RunSignedIn \/ RunSignedUp
    BY <2>3 DEF RunSignedIn, RunSignedUp
  <2>4. CASE RunRestored
    <3>1. flow.pc = "restored" /\ flow'.email = flow.email
      BY <2>4 DEF RunRestored
    <3> QED BY <1>3, <2>4, <3>1 DEF RunRestored
  <2> QED BY <1>3, <2>1, <2>2, <2>3, <2>4 DEF MainThread
<1>4. CASE Kill \/ CommitTraps
  BY <1>4 DEF Kill, CommitTraps, Dies, FreshProcess
<1>5. CASE Launch \/ Reinstall
  <2>1. flow' = flow /\ ~alive
    BY <1>5 DEF Launch, Reinstall
  <2> QED BY <2>1 DEF DeadInv
<1>6. CASE LoadSession \/ Database \/ UNCHANGED vars
  <2>1. flow' = flow /\ stack' = stack /\ alive' = alive /\ modal' = modal
    BY <1>6 DEF LoadSession, Database, vars, appVars
  <2>2. alive
    BY <2>1 DEF FlowInv, RegistrationCovered, Registering
  <2> QED BY <1>6, <2>1, <2>2
<1> QED BY <1>1, <1>2, <1>3, <1>4, <1>5, <1>6, NextSteps

(* Every step leaves the device to the user it was given back to. *)
LEMMA NextBack ==
  ASSUME TypeOK, DeadInv, FlowInv, SigningInv, BackInv, [Next]_vars
  PROVE  BackInv'
<1>1. SUFFICES ASSUME flow'.pc \in {"restored", "reloading"}
               PROVE  /\ loaded' /\ authUser' = flow'.email /\ keychain' = flow'.email
                      /\ savedPassword' = flow'.email
  BY DEF BackInv
<1>2. CASE RestoreAccepted
  BY <1>2 DEF RestoreAccepted, BecomeUser, Goes, TypeOK, Flow
<1>3. CASE /\ flow.pc \in {"restored", "reloading"} /\ flow'.email = flow.email
           /\ MainThread \/ LoadSession \/ Database \/ UNCHANGED vars
  <2>1. loaded /\ authUser = flow.email /\ keychain = flow.email /\ savedPassword = flow.email
    BY <1>3 DEF BackInv
  <2>2. ~RunSignedIn /\ ~LoadSession
    BY <1>3, <2>1 DEF RunSignedIn, At, LoadSession, KeychainLoad
  <2>3. UNCHANGED <<loaded, authUser, keychain, savedPassword>>
    BY <1>3, <2>2 DEF MainThread, RunFirst, RunNotify, Call, RunAddedLoading, RunAddedForm,
       RunSignedUp, RunRestored, Database, vars, authVars, appVars
  <2> QED BY <1>3, <2>1, <2>3
<1> QED BY <1>1, <1>2, <1>3, BackSteps

-----------------------------------------------------------------------------
(* The order of the main queue *)

(* No block of Y stands behind one of X. *)
NoneBehind(X, Y) ==
  \A k \in DOMAIN mainQ : \A j \in DOMAIN mainQ :
    k < j /\ mainQ[k] \in X => mainQ[j] \notin Y

(* Blocks that are not of Y may be appended, and the first block may run.  *)
LEMMA AppendKeepsOrder ==
  ASSUME mainQ \in Seq(Block), NEW X, NEW Y, NoneBehind(X, Y),
         NEW bs \in Seq(Block), Range(bs) \cap Y = {}, Dispatch(bs)
  PROVE  NoneBehind(X, Y)'
<1>1. SUFFICES ASSUME NEW k \in DOMAIN mainQ', NEW j \in DOMAIN mainQ',
                      k < j, mainQ'[k] \in X, mainQ'[j] \in Y
               PROVE  FALSE
  BY DEF NoneBehind
<1>2. /\ mainQ' = mainQ \o bs /\ mainQ \o bs \in Seq(Block)
      /\ Len(mainQ \o bs) = Len(mainQ) + Len(bs)
      /\ \A i \in 1 .. Len(mainQ) + Len(bs) :
           (mainQ \o bs)[i] = IF i <= Len(mainQ) THEN mainQ[i] ELSE bs[i - Len(mainQ)]
  BY ConcatProperties DEF Dispatch
<1>3. /\ Len(mainQ) \in Nat /\ Len(bs) \in Nat
      /\ DOMAIN mainQ = 1 .. Len(mainQ) /\ DOMAIN bs = 1 .. Len(bs)
  OBVIOUS
<1>4. k \in 1 .. Len(mainQ) + Len(bs) /\ j \in 1 .. Len(mainQ) + Len(bs)
  BY <1>2, <1>3
<1>5. CASE j <= Len(mainQ)
  <2>1. mainQ'[k] = mainQ[k] /\ mainQ'[j] = mainQ[j] /\ k \in DOMAIN mainQ /\ j \in DOMAIN mainQ
    BY <1>1, <1>2, <1>3, <1>4, <1>5
  <2> QED BY <1>1, <2>1 DEF NoneBehind
<1>6. CASE j > Len(mainQ)
  <2>1. mainQ'[j] = bs[j - Len(mainQ)] /\ j - Len(mainQ) \in DOMAIN bs
    BY <1>2, <1>3, <1>4, <1>6
  <2>2. mainQ'[j] \in Range(bs)
    BY <2>1 DEF Range
  <2> QED BY <1>1, <2>2
<1> QED BY <1>3, <1>4, <1>5, <1>6

(* Taking the first block away keeps the order of the others. *)
LEMMA TailKeepsOrder ==
  ASSUME mainQ \in Seq(Block), mainQ # <<>>, NEW X, NEW Y, NoneBehind(X, Y), mainQ' = Tail(mainQ)
  PROVE  NoneBehind(X, Y)'
<1>1. SUFFICES ASSUME NEW k \in DOMAIN mainQ', NEW j \in DOMAIN mainQ',
                      k < j, mainQ'[k] \in X, mainQ'[j] \in Y
               PROVE  FALSE
  BY DEF NoneBehind
<1>2. /\ Tail(mainQ) \in Seq(Block) /\ Len(Tail(mainQ)) = Len(mainQ) - 1
      /\ \A i \in 1 .. Len(Tail(mainQ)) : Tail(mainQ)[i] = mainQ[i + 1]
  BY HeadTailProperties
<1>3. Len(mainQ) \in Nat /\ DOMAIN mainQ = 1 .. Len(mainQ) /\ DOMAIN Tail(mainQ) = 1 .. Len(mainQ) - 1
  BY <1>2
<1>4. k + 1 \in DOMAIN mainQ /\ j + 1 \in DOMAIN mainQ /\ k + 1 < j + 1
  BY <1>1, <1>3
<1>5. mainQ'[k] = mainQ[k + 1] /\ mainQ'[j] = mainQ[j + 1]
  BY <1>2, <1>3
<1> QED BY <1>1, <1>4, <1>5 DEF NoneBehind

(* So does a block that appends nothing that must not come later. *)
LEMMA DoneKeepsOrder ==
  ASSUME mainQ \in Seq(Block), mainQ # <<>>, NEW X, NEW Y, NoneBehind(X, Y), Done(<<>>)
  PROVE  NoneBehind(X, Y)'
<1>1. mainQ' = Tail(mainQ)
  BY TailTyped, ConcatEmptySeq DEF Done
<1> QED BY <1>1, TailKeepsOrder

(* A notification that goes on to the next listener stays in front. *)
LEMMA NotifyKeepsOrder ==
  ASSUME TypeOK, RunNotify, NEW X, NEW Y, NoneBehind(X, Y), \A b \in X : b.do # "notify"
  PROVE  NoneBehind(X, Y)'
<1>1. mainQ \in Seq(Block) /\ mainQ # <<>> /\ Head(mainQ).who \in Nat
  BY HeadTyped DEF MainThread, TypeOK
<1>2. /\ Tail(mainQ) \in Seq(Block) /\ Len(Tail(mainQ)) = Len(mainQ) - 1
      /\ \A i \in 1 .. Len(Tail(mainQ)) : Tail(mainQ)[i] = mainQ[i + 1]
  BY <1>1, HeadTailProperties
<1>3. CASE Head(mainQ).who < Len(listeners)
  <2>1. PICK b : b = Notify(Head(mainQ).who + 1)
    OBVIOUS
  <2>2. b \in Block /\ b.do = "notify"
    BY <1>1, <2>1, BlocksTyped DEF Notify
  <2>3. mainQ' = <<b>> \o Tail(mainQ)
    BY <1>3, <2>1 DEF RunNotify
  <2>4. <<b>> \in Seq(Block) /\ Len(<<b>>) = 1 /\ <<b>>[1] = b
    BY <2>2
  <2>5. /\ <<b>> \o Tail(mainQ) \in Seq(Block)
        /\ Len(<<b>> \o Tail(mainQ)) = Len(<<b>>) + Len(Tail(mainQ))
        /\ \A i \in 1 .. Len(<<b>>) + Len(Tail(mainQ)) :
             (<<b>> \o Tail(mainQ))[i] = IF i <= Len(<<b>>) THEN <<b>>[i] ELSE Tail(mainQ)[i - Len(<<b>>)]
    BY <1>2, <2>4, ConcatProperties
  <2>6. Len(mainQ) \in Nat /\ DOMAIN mainQ = 1 .. Len(mainQ) /\ DOMAIN mainQ' = 1 .. Len(mainQ)
    BY <1>1, <1>2, <2>3, <2>4, <2>5
  <2>7. \A i \in 1 .. Len(mainQ) : mainQ'[i] = IF i = 1 THEN b ELSE mainQ[i]
    <3>1. SUFFICES ASSUME NEW i \in 1 .. Len(mainQ) PROVE mainQ'[i] = IF i = 1 THEN b ELSE mainQ[i]
      OBVIOUS
    <3>2. i \in 1 .. Len(<<b>>) + Len(Tail(mainQ))
      BY <1>2, <2>4, <2>6
    <3>3. CASE i = 1
      BY <2>3, <2>4, <2>5, <3>2, <3>3
    <3>4. CASE i # 1
      <4>1. i - 1 \in 1 .. Len(Tail(mainQ)) /\ (i - 1) + 1 = i
        BY <1>2, <2>6, <3>4
      <4>2. mainQ'[i] = Tail(mainQ)[i - 1]
        BY <2>3, <2>4, <2>5, <3>2, <3>4, <4>1
      <4> QED BY <1>2, <3>4, <4>1, <4>2
    <3> QED BY <3>3, <3>4
  <2>8. SUFFICES ASSUME NEW k \in DOMAIN mainQ', NEW j \in DOMAIN mainQ',
                        k < j, mainQ'[k] \in X, mainQ'[j] \in Y
                 PROVE  FALSE
    BY DEF NoneBehind
  <2>9. k # 1 /\ j # 1
    BY <2>2, <2>6, <2>7, <2>8
  <2>10. mainQ'[k] = mainQ[k] /\ mainQ'[j] = mainQ[j] /\ k \in DOMAIN mainQ /\ j \in DOMAIN mainQ
    BY <2>6, <2>7, <2>9
  <2> QED BY <2>8, <2>10 DEF NoneBehind
<1>4. CASE ~(Head(mainQ).who < Len(listeners))
  <2>1. mainQ' = <<>> \o Tail(mainQ)
    BY <1>4 DEF RunNotify
  <2>2. mainQ' = Tail(mainQ)
    BY <1>2, <2>1, ConcatEmptySeq
  <2> QED BY <1>1, <2>2, TailKeepsOrder
<1> QED BY <1>3, <1>4

(* What stands first has nothing of Y behind it. *)
LEMMA FirstHasNone ==
  ASSUME mainQ \in Seq(Block), mainQ # <<>>, NEW X, NEW Y, NoneBehind(X, Y), Head(mainQ) \in X
  PROVE  Range(Tail(mainQ)) \cap Y = {}
<1>1. /\ Tail(mainQ) \in Seq(Block) /\ Len(Tail(mainQ)) = Len(mainQ) - 1
      /\ \A i \in 1 .. Len(Tail(mainQ)) : Tail(mainQ)[i] = mainQ[i + 1]
  BY HeadTailProperties
<1>2. Len(mainQ) \in Nat \ {0} /\ DOMAIN mainQ = 1 .. Len(mainQ) /\ Head(mainQ) = mainQ[1]
  BY EmptySeq
<1>3. SUFFICES ASSUME NEW i \in DOMAIN Tail(mainQ), Tail(mainQ)[i] \in Y PROVE FALSE
  BY DEF Range
<1>4. i \in 1 .. Len(mainQ) - 1 /\ Tail(mainQ)[i] = mainQ[i + 1]
  BY <1>1
<1>5. 1 \in DOMAIN mainQ /\ i + 1 \in DOMAIN mainQ /\ 1 < i + 1
  BY <1>2, <1>4
<1> QED BY <1>2, <1>3, <1>4, <1>5 DEF NoneBehind

(* Where there is none of X, anything may stand; so does one at the end.   *)
LEMMA LastHasNone ==
  ASSUME mainQ \in Seq(Block), NEW X, NEW Y, Queued \cap X = {},
         NEW bs \in Seq(Block), Dispatch(bs), \A i \in DOMAIN bs : i < Len(bs) => bs[i] \notin X
  PROVE  NoneBehind(X, Y)'
<1>1. SUFFICES ASSUME NEW k \in DOMAIN mainQ', NEW j \in DOMAIN mainQ', k < j, mainQ'[k] \in X
               PROVE  FALSE
  BY DEF NoneBehind
<1>2. /\ mainQ' = mainQ \o bs /\ mainQ \o bs \in Seq(Block)
      /\ Len(mainQ \o bs) = Len(mainQ) + Len(bs)
      /\ \A i \in 1 .. Len(mainQ) + Len(bs) :
           (mainQ \o bs)[i] = IF i <= Len(mainQ) THEN mainQ[i] ELSE bs[i - Len(mainQ)]
  BY ConcatProperties DEF Dispatch
<1>3. /\ Len(mainQ) \in Nat /\ Len(bs) \in Nat
      /\ DOMAIN mainQ = 1 .. Len(mainQ) /\ DOMAIN bs = 1 .. Len(bs)
  OBVIOUS
<1>4. k \in 1 .. Len(mainQ) + Len(bs) /\ j \in 1 .. Len(mainQ) + Len(bs)
  BY <1>2, <1>3
<1>5. CASE k <= Len(mainQ)
  <2>1. mainQ'[k] = mainQ[k] /\ k \in DOMAIN mainQ
    BY <1>2, <1>3, <1>4, <1>5
  <2>2. mainQ'[k] \in Queued
    BY <2>1 DEF Queued, Range
  <2> QED BY <1>1, <2>2
<1>6. CASE k > Len(mainQ)
  <2>1. mainQ'[k] = bs[k - Len(mainQ)] /\ k - Len(mainQ) \in DOMAIN bs /\ k - Len(mainQ) < Len(bs)
    BY <1>1, <1>2, <1>3, <1>4, <1>6
  <2> QED BY <1>1, <2>1
<1> QED BY <1>3, <1>4, <1>5, <1>6

-----------------------------------------------------------------------------
(* The answer of the restored sign-in *)

RestoredBlocks == {b \in Block : b.do = "restored"}
TellBlocks     == {b \in Block : b.do \in {"first", "notify", "restored"}}

(* The answer is in the queue only while the flow waits for it, once, and  *)
(* behind every block that tells a listener of the restored user.          *)
ReplyInv ==
  /\ \A b \in Queued : b.do = "restored" => flow.pc = "restored"
  /\ NoneBehind(RestoredBlocks, TellBlocks)

(* The steps taken while the device is back with its user. *)
LEMMA WhileBack ==
  ASSUME TypeOK, FlowInv, SigningInv, BackInv, [Next]_vars, alive' = alive,
         flow.pc \in {"restored", "reloading"}
  PROVE  \/ RunFirst \/ RunNotify \/ RunAddedLoading \/ RunAddedForm
         \/ RunRestored /\ flow.pc = "restored"
         \/ Database \/ UNCHANGED vars
<1>1. ~FlowStep
  BY DEF FlowStep, LoginTap, LoginRefused, DismissAlert, TapDone, ConfirmDropped, ConfirmOk,
         CreateAtServer, CreateFailed, UploadFailed, Uploaded, UrlAnswered, CommitFailed,
         RestoreRefused, At, Tappable, Answerable, FlowInv, SigningInv
<1>2. ~UserStep
  BY DEF UserStep, LoginAccepted, Logout, CreateAnswered, Committed, RestoreAccepted, At,
         Tappable, FlowInv
<1>3. alive /\ loaded
  BY DEF FlowInv, RegistrationCovered, Registering, BackInv
<1>4. ~Launch /\ ~Kill /\ ~CommitTraps /\ ~Reinstall /\ ~LoadSession
  BY <1>3 DEF Launch, Kill, CommitTraps, Dies, Reinstall, LoadSession, KeychainLoad
<1>5. ~RunSignedIn /\ ~RunSignedUp
  BY DEF RunSignedIn, RunSignedUp, At
<1> QED BY <1>1, <1>2, <1>4, <1>5, NextSteps DEF MainThread, RunRestored, At

(* Where none of X is, none of Y is behind it. *)
LEMMA NoneThere ==
  ASSUME NEW X, NEW Y, Queued' \cap X = {}
  PROVE  NoneBehind(X, Y)'
BY DEF NoneBehind, Queued, Range

(* When the answer runs it has every listener's block before it. *)
LEMMA AnswerComesLast ==
  ASSUME TypeOK, ReplyInv, RunRestored
  PROVE  /\ Queued \cap TellBlocks = {Head(mainQ)} /\ Head(mainQ).do = "restored"
         /\ \A b \in Queued' : b.do # "restored"
<1>1. /\ mainQ \in Seq(Block) /\ mainQ # <<>> /\ Head(mainQ) \in Block
      /\ Head(mainQ).do = "restored"
  BY HeadTyped DEF MainThread, TypeOK, RunRestored, Runs
<1>2. Head(mainQ) \in RestoredBlocks /\ Head(mainQ) \in TellBlocks
  BY <1>1 DEF RestoredBlocks, TellBlocks
<1>3. Range(Tail(mainQ)) \cap TellBlocks = {}
  BY <1>1, <1>2, FirstHasNone DEF ReplyInv
<1>4. Len(listeners) + 1 \in Nat
  BY DEF TypeOK, AuthTypeOK
<1>5. <<First(Len(listeners) + 1)>> \in Seq(Block) /\ Done(<<First(Len(listeners) + 1)>>)
  BY <1>4, BlocksTyped DEF RunRestored
<1>6. /\ Queued = {Head(mainQ)} \cup Range(Tail(mainQ))
      /\ Queued' = Range(Tail(mainQ)) \cup Range(<<First(Len(listeners) + 1)>>)
  BY <1>1, <1>5, QueuedOnDone
<1>7. Range(Tail(mainQ)) \subseteq Block
  BY <1>1, TailTyped, RangeOfSeq
<1>8. \A b \in Range(Tail(mainQ)) : b.do # "restored"
  BY <1>3, <1>7 DEF TellBlocks
<1>9. Range(<<First(Len(listeners) + 1)>>) = {First(Len(listeners) + 1)}
      /\ First(Len(listeners) + 1).do = "first"
  BY ShortRanges DEF First
<1> QED BY <1>1, <1>2, <1>3, <1>6, <1>8, <1>9

(* The answer is appended behind the notification. *)
LEMMA AnswerAppended ==
  ASSUME TypeOK, RestoreAccepted, Queued \cap RestoredBlocks = {}
  PROVE  NoneBehind(RestoredBlocks, TellBlocks)'
<1>1. PICK a : a = Announce(flow.email)
  OBVIOUS
<1>2. PICK r : r = <<Reply("restored")>>
  OBVIOUS
<1>3. a \in Seq(Block) /\ r \in Seq(Block) /\ Len(r) = 1
  BY <1>1, <1>2, AnnounceTyped, BlocksTyped
<1>4. Range(a) \subseteq {Notify(1)}
  BY <1>1, ShortRanges DEF Announce
<1>5. /\ a \o r \in Seq(Block) /\ Len(a \o r) = Len(a) + Len(r)
      /\ \A i \in 1 .. Len(a) + Len(r) :
           (a \o r)[i] = IF i <= Len(a) THEN a[i] ELSE r[i - Len(a)]
  BY <1>3, ConcatProperties
<1>6. \A i \in DOMAIN (a \o r) : i < Len(a \o r) => (a \o r)[i] \notin RestoredBlocks
  <2>1. SUFFICES ASSUME NEW i \in DOMAIN (a \o r), i < Len(a \o r)
                 PROVE  (a \o r)[i] \notin RestoredBlocks
    OBVIOUS
  <2>2. Len(a) \in Nat /\ DOMAIN a = 1 .. Len(a) /\ DOMAIN (a \o r) = 1 .. Len(a) + 1
    BY <1>3, <1>5
  <2>3. i \in DOMAIN a /\ (a \o r)[i] = a[i]
    BY <1>3, <1>5, <2>1, <2>2
  <2>4. a[i] \in Range(a)
    BY <2>3 DEF Range
  <2> QED BY <1>4, <2>3, <2>4 DEF RestoredBlocks, Notify
<1>7. Dispatch(a \o r)
  BY <1>1, <1>2 DEF RestoreAccepted
<1> QED BY <1>5, <1>6, <1>7, LastHasNone DEF TypeOK

(* What keeps the order of a queue whose answers stay in it. *)
LEMMA OrderKept ==
  ASSUME TypeOK, NEW X, NEW Y, NoneBehind(X, Y), \A b \in X : b.do # "notify",
         Raise => \A i \in Nat, u \in Account : Added(i, u) \notin Y,
         RunFirst \/ RunNotify \/ RunAddedLoading \/ RunAddedForm \/ Database \/ UNCHANGED vars
  PROVE  NoneBehind(X, Y)'
<1>1. mainQ \in Seq(Block)
  BY DEF TypeOK
<1>2. CASE mainQ' = mainQ
  BY <1>2 DEF NoneBehind
<1>3. CASE RunFirst \/ RunAddedLoading \/ RunAddedForm
  <2>1. mainQ # <<>> /\ Done(<<>>)
    BY <1>3 DEF RunFirst, RunAddedLoading, RunAddedForm, Runs
  <2> QED BY <1>1, <2>1, DoneKeepsOrder
<1>4. CASE RunNotify
  BY <1>4, NotifyKeepsOrder
<1>5. CASE Database /\ Raise
  <2>1. PICK o \in due : Dispatch(<<Added(o.who, o.uid)>>)
    BY <1>5 DEF Raise
  <2>2. o.who \in Nat /\ o.uid \in Account
    BY <2>1 DEF due, Observer, TypeOK, StudentsTypeOK
  <2>3. Added(o.who, o.uid) \in Block
    BY <2>2, BlocksTyped
  <2>4. <<Added(o.who, o.uid)>> \in Seq(Block) /\ Range(<<Added(o.who, o.uid)>>) = {Added(o.who, o.uid)}
    BY <2>3, ShortRanges
  <2>5. Range(<<Added(o.who, o.uid)>>) \cap Y = {}
    BY <1>5, <2>2, <2>4
  <2> QED BY <1>1, <2>1, <2>4, <2>5, AppendKeepsOrder
<1>6. CASE (Database /\ ~Raise) \/ UNCHANGED vars
  BY <1>2, <1>6 DEF Database, RunObserve, RunSetValue, Sync, PushAccepted, PushRejected, vars
<1> QED BY <1>3, <1>4, <1>5, <1>6

(* Every step keeps the answer where it is. *)
LEMMA NextReply ==
  ASSUME TypeOK, DeadInv, FlowInv, SigningInv, BackInv, ReplyInv, [Next]_vars
  PROVE  ReplyInv'
<1>0. Queued \subseteq Block /\ Queued' \subseteq Block
  <2>1. mainQ \in Seq(Block) /\ mainQ' \in Seq(Block)
    BY NextTyped DEF TypeOK
  <2> QED BY <2>1, RangeOfSeq DEF Queued
<1>1. CASE alive' = alive /\ RestoreAccepted
  <2>1. flow.pc = "restoring" /\ flow'.pc = "restored"
    BY <1>1 DEF RestoreAccepted, At, Goes, TypeOK, Flow
  <2>2. Queued \cap RestoredBlocks = {}
    BY <2>1 DEF ReplyInv, RestoredBlocks
  <2> QED BY <1>1, <2>1, <2>2, AnswerAppended DEF ReplyInv
<1>2. CASE alive' = alive /\ ~RestoreAccepted
  <2>1. \A b \in Queued' : b.do = "restored" => b \in Queued
    <3>1. SUFFICES ASSUME NEW b \in Queued', b.do = "restored", b \notin Queued PROVE FALSE
      OBVIOUS
    <3>2. \A name : b = Reply(name) => name = "restored"
      BY <3>1 DEF Reply
    <3> QED BY <1>2, <3>1, <3>2, NewBlocks DEF Added, First, Notify
  <2>2. CASE \A b \in Queued' : b.do # "restored"
    <3>1. Queued' \cap RestoredBlocks = {}
      BY <2>2 DEF RestoredBlocks
    <3> QED BY <2>2, <3>1, NoneThere DEF ReplyInv
  <2>3. CASE \E b \in Queued' : b.do = "restored"
    <3>1. flow.pc = "restored"
      BY <2>1, <2>3 DEF ReplyInv
    <3>2. ~RunRestored
      BY <2>3, AnswerComesLast
    <3>3. RunFirst \/ RunNotify \/ RunAddedLoading \/ RunAddedForm \/ Database \/ UNCHANGED vars
      BY <1>2, <3>1, <3>2, WhileBack
    <3>4. flow' = flow
      BY <3>1, <3>3 DEF RunFirst, RunNotify, Call, RunAddedLoading, RunAddedForm, OwnSpinner,
         Database, vars, appVars
    <3>5. \A i \in Nat, u \in Account : Added(i, u) \notin TellBlocks
      BY DEF Added, TellBlocks
    <3>6. \A b \in RestoredBlocks : b.do # "notify"
      BY DEF RestoredBlocks
    <3>7. NoneBehind(RestoredBlocks, TellBlocks)'
      BY <3>3, <3>5, <3>6, OrderKept DEF ReplyInv
    <3> QED BY <2>1, <3>1, <3>4, <3>7 DEF ReplyInv
  <2> QED BY <2>2, <2>3
<1>3. CASE Kill \/ CommitTraps \/ Launch
  <2>1. Queued' \subseteq {First(1)}
    BY <1>3, ShortRanges DEF Kill, CommitTraps, Dies, Launch, Queued
  <2>2. \A b \in Queued' : b.do # "restored"
    BY <2>1 DEF First
  <2>3. Queued' \cap RestoredBlocks = {}
    BY <2>2 DEF RestoredBlocks
  <2> QED BY <2>2, <2>3, NoneThere DEF ReplyInv
<1> QED BY <1>1, <1>2, <1>3, ProcessSteps

-----------------------------------------------------------------------------
(* The last listener of a registration, and the record it waits for *)

NoAdded(i)   == \A b \in Queued : b.do = "added" => b.who # i
NoWaiting(i) == \A o \in waiting : o.who # i
NoObserve(i) == \A c \in Calls : c.op = "observe" => c.who # i

AddedBlocks == {b \in Block : b.do = "added"}
AddedFor(i) == {b \in Block : b.do = "added" /\ b.who = i}

(* How far listener i has come: it has yet to be called; it has asked for  *)
(* the record of the user, as the last to ask for any; its observer is     *)
(* alone with something to raise; and the record is in the queue, behind   *)
(* every other.                                                            *)
Untold(i) ==
  listeners[i].prev = Unset /\ NoAdded(i) /\ NoWaiting(i) /\ NoObserve(i)

Asked(i) ==
  /\ listeners[i].prev = authUser /\ NoAdded(i) /\ NoWaiting(i)
  /\ dbQ # <<>> /\ dbQ[Len(dbQ)] = Observe(i, authUser)
  /\ \A k \in DOMAIN dbQ : k < Len(dbQ) /\ dbQ[k].op = "observe" => dbQ[k].who # i

Observing(i) ==
  /\ listeners[i].prev = authUser /\ NoAdded(i)
  /\ dbQ = <<>> /\ due \subseteq {[who |-> i, uid |-> authUser]}

Answered(i) ==
  /\ listeners[i].prev = authUser
  /\ \A b \in Queued : b.do = "added" /\ b.who = i => b.uid = authUser
  /\ NoneBehind(AddedFor(i), AddedBlocks)
  /\ dbQ = <<>> /\ due = {}

Reloads(i) ==
  /\ i \in DOMAIN listeners /\ i = Len(listeners)
  /\ listeners[i].kind = "form" /\ listeners[i].at = Len(stack)
  /\ \A j \in DOMAIN listeners : j # i => listeners[j].prev = authUser
  /\ Untold(i) \/ Asked(i) \/ Observing(i) \/ Answered(i)

ReloadInv == flow.pc = "reloading" => \E i \in Nat : Reloads(i)

(* No record comes to a listener that observes none. *)
LEMMA NoneAdded ==
  ASSUME TypeOK, [Next]_vars, alive' = alive, NEW i, NoAdded(i), Raise => NoWaiting(i)
  PROVE  NoAdded(i)'
<1>1. SUFFICES ASSUME NEW b \in Queued', b.do = "added", b.who = i PROVE FALSE
  BY DEF NoAdded
<1>2. b \notin Queued
  BY <1>1 DEF NoAdded
<1>3. CASE Raise /\ \E o \in due : b = Added(o.who, o.uid)
  BY <1>1, <1>3 DEF NoWaiting, Added, due
<1>4. b # First(Len(listeners) + 1) /\ b # Notify(1) /\ b # Notify(Head(mainQ).who + 1)
      /\ \A name \in {"signedUp", "signedIn", "restored"} : b # Reply(name)
  BY <1>1 DEF First, Notify, Reply
<1> QED BY <1>2, <1>3, <1>4, NewBlocks

(* A listener that has heard of the user is called without effect. *)
LEMMA HeardBefore ==
  ASSUME TypeOK, NEW k, Call(k), ~Hears(k)
  PROVE  /\ dbQ' = dbQ /\ stack' = stack /\ authUser' = authUser
         /\ UNCHANGED <<students, synced, pending, waiting>>
         /\ DOMAIN listeners' = DOMAIN listeners
         /\ \A j \in DOMAIN listeners : listeners'[j].prev = listeners[j].prev
<1>1. /\ DOMAIN listeners' = DOMAIN listeners
      /\ \A j \in DOMAIN listeners :
           listeners'[j].prev = IF j = k THEN authUser ELSE listeners[j].prev
  BY CallTells
<1> QED BY <1>1 DEF Call, Hears

(* The first call of the listener sends it to the database. *)
LEMMA FirstHeard ==
  ASSUME TypeOK, [Next]_vars, alive' = alive, NEW i \in DOMAIN listeners, Untold(i),
         RunFirst \/ RunNotify, Call(i), SignedIn
  PROVE  Asked(i)'
<1>1. /\ dbQ \in Seq(DbCall) /\ authUser \in Account /\ i \in Nat
      /\ Observe(i, authUser) \in DbCall
  BY DEF TypeOK, StudentsTypeOK, AuthTypeOK, SignedIn, MaybeUser, Observe, DbCall
<1>2. Hears(i)
  BY <1>1, NoneIsNoAccount DEF Untold, Hears
<1>3. dbQ' = Append(dbQ, Observe(i, authUser)) /\ authUser' = authUser /\ waiting' = waiting
  BY <1>2 DEF Call, SignedIn
<1>4. /\ Append(dbQ, Observe(i, authUser)) # <<>>
      /\ Len(Append(dbQ, Observe(i, authUser))) = Len(dbQ) + 1
      /\ \A k \in 1 .. Len(dbQ) : Append(dbQ, Observe(i, authUser))[k] = dbQ[k]
      /\ Append(dbQ, Observe(i, authUser))[Len(dbQ) + 1] = Observe(i, authUser)
  BY <1>1, AppendProperties
<1>5. /\ Len(dbQ) \in Nat /\ DOMAIN dbQ = 1 .. Len(dbQ)
      /\ DOMAIN dbQ' = 1 .. Len(dbQ) + 1
  BY <1>1, <1>3
<1>6. \A k \in DOMAIN dbQ' : k < Len(dbQ') /\ dbQ'[k].op = "observe" => dbQ'[k].who # i
  <2>1. SUFFICES ASSUME NEW k \in DOMAIN dbQ', k < Len(dbQ'), dbQ'[k].op = "observe"
                 PROVE  dbQ'[k].who # i
    OBVIOUS
  <2>2. k \in DOMAIN dbQ /\ dbQ'[k] = dbQ[k]
    BY <1>3, <1>4, <1>5, <2>1
  <2>3. dbQ[k] \in Calls
    BY <2>2 DEF Calls, Range
  <2> QED BY <2>1, <2>2, <2>3 DEF Untold, NoObserve
<1>7. NoAdded(i)'
  BY NoneAdded DEF Untold
<1>8. NoWaiting(i)'
  BY <1>3 DEF Untold, NoWaiting
<1>9. listeners'[i].prev = authUser
  BY CallTells
<1> QED BY <1>3, <1>4, <1>6, <1>7, <1>8, <1>9 DEF Asked

(* A stage that no call disturbs is kept by every block that runs. *)
LEMMA BlockKeepsStage ==
  ASSUME TypeOK, [Next]_vars, alive' = alive, NEW i \in Nat, listeners'[i].prev = listeners[i].prev,
         RunFirst \/ RunNotify \/ RunAddedLoading \/ RunAddedForm \/ UNCHANGED vars,
         UNCHANGED <<authUser, dbQ, students, synced, pending, waiting>>,
         Untold(i) \/ Asked(i) \/ Observing(i) \/ Answered(i)
  PROVE  (Untold(i) \/ Asked(i) \/ Observing(i) \/ Answered(i))'
<1>1. due' = due /\ Calls' = Calls /\ (NoWaiting(i)' <=> NoWaiting(i)) /\ (NoObserve(i)' <=> NoObserve(i))
  BY DEF due, view, Calls, NoWaiting, NoObserve
<1>2. CASE Untold(i) \/ Asked(i) \/ (Observing(i) /\ UNCHANGED vars)
  <2>1. NoAdded(i)'
    BY <1>2, NoneAdded DEF Untold, Asked, NoAdded, Observing, vars, Queued
  <2> QED BY <1>1, <1>2, <2>1 DEF Untold, Asked, Observing
<1>3. CASE Observing(i) /\ ~UNCHANGED vars
  <2>1. ~Raise
    BY <1>3 DEF Raise, RunFirst, RunNotify, RunAddedLoading, RunAddedForm, due
  <2>2. NoAdded(i)'
    BY <1>3, <2>1, NoneAdded DEF Observing
  <2> QED BY <1>1, <1>3, <2>2 DEF Observing
<1>4. CASE Answered(i)
  <2>1. ~Raise
    BY <1>4 DEF Answered, Raise
  <2>2. ASSUME NEW b \in Queued', b.do = "added" PROVE b \in Queued
    BY <2>1, <2>2, NewBlocks DEF First, Notify, Reply
  <2>3. \A b \in AddedFor(i) : b.do # "notify"
    BY DEF AddedFor
  <2>4. NoneBehind(AddedFor(i), AddedBlocks)'
    BY <1>4, <2>1, <2>3, OrderKept DEF Answered
  <2> QED BY <1>1, <1>4, <2>2, <2>4 DEF Answered
<1> QED BY <1>2, <1>3, <1>4

(* Once the server's data has come, no answer to a write makes a record    *)
(* due that was not.                                                       *)
LEMMA DueShrinks ==
  ASSUME synced, PushAccepted \/ PushRejected
  PROVE  due' \subseteq due
BY DEF PushAccepted, PushRejected, due, view

(* The worker takes the first of the calls that wait. *)
LEMMA CallTaken ==
  ASSUME TypeOK, NEW op, NextCall(op)
  PROVE  /\ due = {} /\ Len(dbQ) \in Nat \ {0} /\ dbQ[1].op = op /\ Head(dbQ) = dbQ[1]
         /\ DOMAIN dbQ = 1 .. Len(dbQ) /\ DOMAIN dbQ' = 1 .. Len(dbQ) - 1
         /\ Len(dbQ') = Len(dbQ) - 1
         /\ \A k \in DOMAIN dbQ' : dbQ'[k] = dbQ[k + 1]
         /\ dbQ' = <<>> <=> Len(dbQ) = 1
<1>1. dbQ \in Seq(DbCall) /\ dbQ # <<>> /\ dbQ' = Tail(dbQ)
  BY DEF TypeOK, StudentsTypeOK, NextCall
<1>2. /\ Tail(dbQ) \in Seq(DbCall) /\ Len(Tail(dbQ)) = Len(dbQ) - 1
      /\ \A k \in 1 .. Len(Tail(dbQ)) : Tail(dbQ)[k] = dbQ[k + 1]
  BY <1>1, HeadTailProperties
<1>3. Len(dbQ) \in Nat \ {0} /\ Head(dbQ) = dbQ[1] /\ DOMAIN dbQ = 1 .. Len(dbQ)
  BY <1>1, EmptySeq
<1>4. Tail(dbQ) = <<>> <=> Len(dbQ) = 1
  BY <1>2, <1>3, EmptySeq
<1> QED BY <1>1, <1>2, <1>3, <1>4 DEF NextCall

(* A listener that has asked waits for the calls before its own. *)
LEMMA AskedTaken ==
  ASSUME TypeOK, [Next]_vars, alive' = alive, NEW i \in Nat, Asked(i),
         RunObserve \/ RunSetValue, UNCHANGED <<listeners, authUser>>
  PROVE  Asked(i)' \/ Observing(i)'
<1>1. /\ due = {} /\ Len(dbQ) \in Nat \ {0} /\ Head(dbQ) = dbQ[1]
      /\ DOMAIN dbQ = 1 .. Len(dbQ) /\ DOMAIN dbQ' = 1 .. Len(dbQ) - 1
      /\ Len(dbQ') = Len(dbQ) - 1
      /\ \A k \in DOMAIN dbQ' : dbQ'[k] = dbQ[k + 1]
      /\ dbQ' = <<>> <=> Len(dbQ) = 1
  BY CallTaken DEF RunObserve, RunSetValue
<1>2. NoAdded(i)'
  BY NoneAdded DEF Asked
<1>3. Observe(i, authUser).op = "observe" /\ Observe(i, authUser).who = i
      /\ Observe(i, authUser).uid = authUser
  BY DEF Observe
<1>4. CASE Len(dbQ) = 1
  <2>1. RunObserve /\ Head(dbQ) = Observe(i, authUser) /\ dbQ' = <<>>
    <3>1. dbQ[1] = Observe(i, authUser)
      BY <1>4 DEF Asked
    <3>2. ~RunSetValue
      BY <1>1, <1>3, <3>1 DEF RunSetValue, NextCall
    <3> QED BY <1>1, <1>4, <3>1, <3>2
  <2>2. waiting' = waiting \cup {[who |-> i, uid |-> authUser]} /\ view' = view
    BY <1>3, <2>1 DEF RunObserve, view
  <2>3. due' \subseteq {[who |-> i, uid |-> authUser]}
    BY <1>1, <2>2 DEF due
  <2>4. authUser' = authUser /\ listeners'[i].prev = authUser
    BY DEF Asked
  <2> QED BY <1>2, <2>1, <2>3, <2>4 DEF Observing
<1>5. CASE Len(dbQ) # 1
  <2>1. dbQ' # <<>> /\ Len(dbQ') \in DOMAIN dbQ' /\ dbQ'[Len(dbQ')] = dbQ[Len(dbQ)]
    BY <1>1, <1>5
  <2>2. \A k \in DOMAIN dbQ' : k < Len(dbQ') /\ dbQ'[k].op = "observe" => dbQ'[k].who # i
    <3>1. SUFFICES ASSUME NEW k \in DOMAIN dbQ', k < Len(dbQ'), dbQ'[k].op = "observe"
                   PROVE  dbQ'[k].who # i
      OBVIOUS
    <3>2. k + 1 \in DOMAIN dbQ /\ k + 1 < Len(dbQ) /\ dbQ'[k] = dbQ[k + 1]
      BY <1>1, <3>1
    <3> QED BY <3>1, <3>2 DEF Asked
  <2>3. NoWaiting(i)'
    <3>1. CASE RunObserve
      <4>1. dbQ[1].op = "observe"
        BY <1>1, <3>1 DEF RunObserve, NextCall
      <4>2. dbQ[1].who # i
        BY <1>1, <1>5, <4>1 DEF Asked
      <4>3. waiting' = waiting \cup {[who |-> dbQ[1].who, uid |-> dbQ[1].uid]}
        BY <1>1, <3>1 DEF RunObserve
      <4> QED BY <4>2, <4>3 DEF NoWaiting, Asked
    <3>2. CASE RunSetValue
      BY <3>2 DEF RunSetValue, NoWaiting, Asked
    <3> QED BY <3>1, <3>2
  <2> QED BY <1>2, <2>1, <2>2, <2>3 DEF Asked
<1> QED BY <1>4, <1>5

(* The record it waited for is raised last of all. *)
LEMMA RecordRaised ==
  ASSUME TypeOK, NEW i \in Nat, Observing(i), Raise, UNCHANGED <<listeners, authUser>>
  PROVE  Answered(i)'
<1>1. PICK o \in due : waiting' = waiting \ {o} /\ Dispatch(<<Added(o.who, o.uid)>>)
  BY DEF Raise
<1>2. o = [who |-> i, uid |-> authUser] /\ o \in Observer
  BY <1>1 DEF Observing, due, TypeOK, StudentsTypeOK
<1>3. PICK a : a = Added(i, authUser)
  OBVIOUS
<1>4. a \in Block /\ a.do = "added" /\ a.who = i /\ a.uid = authUser
  BY <1>2, <1>3, BlocksTyped DEF Added, Observer
<1>5. Dispatch(<<a>>) /\ <<a>> \in Seq(Block) /\ Len(<<a>>) = 1 /\ DOMAIN <<a>> = {1}
  BY <1>1, <1>2, <1>3, <1>4
<1>6. Queued' = Queued \cup {a}
  <2>1. Queued' = Queued \cup Range(<<a>>)
    BY <1>5, QueuedOnDispatch DEF TypeOK
  <2> QED BY <2>1, ShortRanges
<1>7. Queued \cap AddedFor(i) = {}
  BY DEF Observing, NoAdded, AddedFor
<1>8. NoneBehind(AddedFor(i), AddedBlocks)'
  <2>1. \A k \in DOMAIN <<a>> : k < Len(<<a>>) => <<a>>[k] \notin AddedFor(i)
    BY <1>5
  <2> QED BY <1>5, <1>7, <2>1, LastHasNone DEF TypeOK
<1>9. due' = {}
  <2>1. view' = view
    BY DEF Raise, view
  <2> QED BY <1>1, <1>2, <2>1 DEF due, Observing
<1>10. dbQ' = <<>>
  BY DEF Raise, Observing
<1>11. \A b \in Queued' : b.do = "added" /\ b.who = i => b.uid = authUser
  BY <1>4, <1>6 DEF Observing, NoAdded
<1> QED BY <1>8, <1>9, <1>10, <1>11 DEF Answered, Observing

(* The worker has nothing for a listener that has yet to be called. *)
LEMMA UntoldAtWorker ==
  ASSUME TypeOK, [Next]_vars, alive' = alive, NEW i \in Nat, Database, Untold(i)
  PROVE  Untold(i)'
<1>1. UNCHANGED <<listeners, authUser>>
  BY DEF Database, authVars
<1>2. NoAdded(i)'
  BY NoneAdded DEF Untold
<1>3. NoWaiting(i)'
  <2>1. SUFFICES ASSUME NEW o \in waiting', o \notin waiting PROVE o.who # i
    BY DEF NoWaiting, Untold
  <2>2. PICK c \in Calls : c.op = "observe" /\ o = [who |-> c.who, uid |-> c.uid]
    BY <2>1, NewWaiting
  <2> QED BY <2>2 DEF Untold, NoObserve
<1>4. Calls' \subseteq Calls
  <2>1. CASE RunObserve \/ RunSetValue
    BY <2>1, CallsOnNext DEF RunObserve, RunSetValue
  <2>2. CASE ~RunObserve /\ ~RunSetValue
    <3>1. dbQ' = dbQ
      BY <2>2 DEF Database, Raise, Sync, PushAccepted, PushRejected
    <3> QED BY <3>1 DEF Calls
  <2> QED BY <2>1, <2>2
<1> QED BY <1>1, <1>2, <1>3, <1>4 DEF Untold, NoObserve

(* What the worker does brings the listener's record nearer. *)
LEMMA WorkerKeepsStage ==
  ASSUME TypeOK, [Next]_vars, alive' = alive, NEW i \in Nat, synced, Database,
         Untold(i) \/ Asked(i) \/ Observing(i) \/ Answered(i)
  PROVE  (Untold(i) \/ Asked(i) \/ Observing(i) \/ Answered(i))'
<1>1. UNCHANGED <<listeners, authUser>>
  BY DEF Database, authVars
<1>2. CASE Untold(i)
  BY <1>2, UntoldAtWorker
<1>3. CASE RunObserve \/ RunSetValue
  <2>1. dbQ # <<>>
    BY <1>3 DEF RunObserve, RunSetValue, NextCall
  <2>2. CASE Asked(i)
    BY <1>1, <1>3, <2>2, AskedTaken
  <2> QED BY <1>2, <2>1, <2>2 DEF Observing, Answered
<1>4. CASE Raise
  <2>1. dbQ' = dbQ /\ waiting' \subseteq waiting /\ due # {}
    BY <1>4 DEF Raise
  <2>2. CASE Asked(i)
    <3>1. NoAdded(i)'
      BY <2>2, NoneAdded DEF Asked
    <3> QED BY <1>1, <2>1, <2>2, <3>1 DEF Asked, NoWaiting
  <2>3. CASE Observing(i)
    BY <1>1, <1>4, <2>3, RecordRaised
  <2> QED BY <1>2, <2>1, <2>2, <2>3 DEF Answered
<1>5. CASE PushAccepted \/ PushRejected
  <2>1. UNCHANGED <<dbQ, waiting, mainQ>>
    BY <1>5 DEF PushAccepted, PushRejected
  <2>2. due' \subseteq due /\ Queued' = Queued
    BY <1>5, <2>1, DueShrinks DEF Queued
  <2>3. CASE Asked(i)
    BY <1>1, <2>1, <2>2, <2>3 DEF Asked, NoAdded, NoWaiting
  <2>4. CASE Observing(i)
    BY <1>1, <2>1, <2>2, <2>4 DEF Observing, NoAdded
  <2>5. CASE Answered(i)
    <3>1. NoneBehind(AddedFor(i), AddedBlocks)'
      BY <2>1, <2>5 DEF Answered, NoneBehind
    <3> QED BY <1>1, <2>1, <2>2, <2>5, <3>1 DEF Answered
  <2> QED BY <1>2, <2>3, <2>4, <2>5
<1>6. ~Sync
  BY DEF Sync
<1> QED BY <1>3, <1>4, <1>5, <1>6 DEF Database

(* When the answer of the restored sign-in runs, every listener has been   *)
(* told of the user, and nothing in any queue is for the listener it adds. *)
LEMMA ReloadBegins ==
  ASSUME TypeOK, ToldInv, PlaceInv, ReplyInv, [Next]_vars, alive' = alive, RunRestored
  PROVE  \E i \in Nat : Reloads(i)'
<1>1. PICK n : n = Len(listeners) + 1
  OBVIOUS
<1>2. n \in Nat /\ n \notin DOMAIN listeners /\ Len(stack) \in Nat
  BY <1>1 DEF TypeOK, AuthTypeOK
<1>3. AddListener("form", Len(stack)) /\ stack' = stack /\ authUser' = authUser
      /\ waiting' = waiting /\ dbQ' = dbQ
  BY DEF RunRestored, studentsVars
<1>4. /\ n \in DOMAIN listeners'
      /\ \A i \in DOMAIN listeners' : i \in DOMAIN listeners \/ i = n
      /\ listeners'[n] = NewListener("form", Len(stack))
      /\ \A i \in DOMAIN listeners : listeners'[i] = listeners[i]
  BY <1>1, <1>2, <1>3, ListenerAdded
<1>5. n = Len(listeners')
  BY <1>1, <1>3 DEF AddListener, TypeOK, AuthTypeOK
<1>6. /\ listeners'[n].kind = "form" /\ listeners'[n].at = Len(stack')
      /\ listeners'[n].prev = Unset
  BY <1>3, <1>4 DEF NewListener
<1>7. \A j \in DOMAIN listeners : listeners[j].prev = authUser
  <2>1. SUFFICES ASSUME NEW j \in DOMAIN listeners, ToBeTold(j) PROVE FALSE
    BY DEF ToldInv
  <2>2. PICK b \in Queued : b.do \in {"first", "notify"}
    BY <2>1 DEF ToBeTold, Tells
  <2>3. Queued \subseteq Block
    BY RangeOfSeq DEF Queued, TypeOK
  <2>4. b \in Queued \cap TellBlocks
    BY <2>2, <2>3 DEF TellBlocks
  <2> QED BY <2>2, <2>4, AnswerComesLast
<1>8. NoAdded(n)'
  <2>1. SUFFICES ASSUME NEW b \in Queued', b.do = "added", b.who = n PROVE FALSE
    BY DEF NoAdded
  <2>2. b \notin Queued
    BY <1>2, <2>1 DEF PlaceInv
  <2>3. ~Raise
    BY <1>3 DEF RunRestored, Raise, due
  <2> QED BY <2>1, <2>2, <2>3, NewBlocks DEF First, Notify, Reply
<1>9. NoWaiting(n)' /\ NoObserve(n)'
  BY <1>2, <1>3 DEF NoWaiting, NoObserve, PlaceInv, Calls
<1> QED BY <1>2, <1>3, <1>4, <1>5, <1>6, <1>7, <1>8, <1>9 DEF Reloads, Untold

(* Every step brings it nearer, until the record has come. *)
LEMMA NextReload ==
  ASSUME TypeOK, DeadInv, FlowInv, SigningInv, ToldInv, RecordInv, PlaceInv, SyncedInv, BackInv,
         ReplyInv, ReloadInv, [Next]_vars
  PROVE  ReloadInv'
<1>1. SUFFICES ASSUME flow'.pc = "reloading" PROVE (\E i \in Nat : Reloads(i))'
  BY DEF ReloadInv
<1>2. ~RestoreAccepted
  BY <1>1 DEF RestoreAccepted, Goes, TypeOK, Flow
<1>3. /\ flow.pc \in {"restored", "reloading"} /\ (flow' = flow \/ RunRestored)
      /\ alive /\ alive' = alive /\ stack' = stack
  BY <1>1, <1>2, BackSteps DEF TypeOK
<1>4. CASE RunRestored
  <2>1. \E i \in Nat : Reloads(i)'
    BY <1>3, <1>4, ReloadBegins
  <2> QED BY <2>1
<1>5. CASE ~RunRestored
  <2>1. flow.pc = "reloading"
    BY <1>1, <1>3, <1>5
  <2>2. RunFirst \/ RunNotify \/ RunAddedLoading \/ RunAddedForm \/ Database \/ UNCHANGED vars
    BY <1>3, <1>5, WhileBack
  <2>3. synced /\ SignedIn
    <3>1. Registering /\ Top = "Main"
      BY <2>1 DEF Registering, FlowInv, RegistrationCovered
    <3>2. HasMain
      BY <1>3, <3>1 DEF HasMain, Top, PlaceInv, TypeOK
    <3> QED BY <2>1, <3>1, <3>2, NoneIsNoAccount DEF SyncedInv, BackInv, RecordInv, SignedIn
  <2>4. PICK i \in Nat : Reloads(i)
    BY <2>1 DEF ReloadInv
  <2>5. i \in DOMAIN listeners /\ \A j \in DOMAIN listeners : j # i => listeners[j].prev = authUser
    BY <2>4 DEF Reloads
  <2>6. /\ authUser' = authUser /\ DOMAIN listeners' = DOMAIN listeners
        /\ \A j \in DOMAIN listeners : j # i => listeners'[j].prev = authUser
        /\ (Untold(i) \/ Asked(i) \/ Observing(i) \/ Answered(i))'
    <3>1. CASE RunFirst \/ RunNotify
      <4>1. PICK k : k = Head(mainQ).who
        OBVIOUS
      <4>2. Call(k)
        BY <3>1, <4>1 DEF RunFirst, RunNotify
      <4>3. k \in DOMAIN listeners
        <5>1. Head(mainQ) \in Queued /\ Head(mainQ).do \in {"first", "notify"}
          BY <3>1, MainThreadTakesOne DEF MainThread, RunFirst, RunNotify, Runs
        <5> QED BY <4>1, <5>1 DEF PlaceInv
      <4>4. /\ DOMAIN listeners' = DOMAIN listeners /\ authUser' = authUser
            /\ \A j \in DOMAIN listeners :
                 listeners'[j].prev = IF j = k THEN authUser ELSE listeners[j].prev
        BY <4>2, CallTells
      <4>5. CASE Hears(k)
        <5>1. k = i
          BY <2>5, <4>3, <4>5 DEF Hears
        <5>2. Untold(i)
          BY <2>4, <4>5, <5>1 DEF Reloads, Asked, Observing, Answered, Hears
        <5>3. Asked(i)'
          BY <1>3, <2>3, <2>5, <3>1, <4>2, <5>1, <5>2, FirstHeard
        <5> QED BY <2>5, <4>4, <5>3
      <4>6. CASE ~Hears(k)
        <5>1. /\ UNCHANGED <<authUser, dbQ, students, synced, pending, waiting>>
              /\ \A j \in DOMAIN listeners : listeners'[j].prev = listeners[j].prev
          BY <4>2, <4>6, HeardBefore
        <5>2. Untold(i) \/ Asked(i) \/ Observing(i) \/ Answered(i)
          BY <2>4 DEF Reloads
        <5>3. (Untold(i) \/ Asked(i) \/ Observing(i) \/ Answered(i))'
          BY <1>3, <2>5, <3>1, <5>1, <5>2, BlockKeepsStage
        <5> QED BY <2>5, <4>4, <5>1, <5>3
      <4> QED BY <4>5, <4>6
    <3>2. CASE RunAddedLoading \/ RunAddedForm \/ UNCHANGED vars
      <4>1. UNCHANGED <<listeners, authUser, dbQ, students, synced, pending, waiting>>
        BY <3>2 DEF RunAddedLoading, RunAddedForm, vars, authVars, studentsVars
      <4>2. Untold(i) \/ Asked(i) \/ Observing(i) \/ Answered(i)
        BY <2>4 DEF Reloads
      <4>3. (Untold(i) \/ Asked(i) \/ Observing(i) \/ Answered(i))'
        BY <1>3, <3>2, <4>1, <4>2, BlockKeepsStage
      <4> QED BY <2>5, <4>1, <4>3
    <3>3. CASE Database
      <4>1. UNCHANGED <<listeners, authUser>>
        BY <3>3 DEF Database, authVars
      <4>2. Untold(i) \/ Asked(i) \/ Observing(i) \/ Answered(i)
        BY <2>4 DEF Reloads
      <4>3. (Untold(i) \/ Asked(i) \/ Observing(i) \/ Answered(i))'
        BY <1>3, <2>3, <3>3, <4>2, WorkerKeepsStage
      <4> QED BY <2>5, <4>1, <4>3
    <3> QED BY <2>2, <3>1, <3>2, <3>3
  <2>7. i = Len(listeners')
    <3>1. listeners \in Seq(Listener) /\ listeners' \in Seq(Listener) /\ i = Len(listeners)
      BY <2>4, NextTyped DEF Reloads, TypeOK, AuthTypeOK
    <3>2. 1 .. Len(listeners') = 1 .. Len(listeners)
      BY <2>6, <3>1
    <3>3. Len(listeners') \in Nat /\ Len(listeners) \in Nat
      BY <3>1
    <3>4. Len(listeners') = Len(listeners)
      BY <3>2, <3>3
    <3> QED BY <3>1, <3>4
  <2>8. listeners'[i].kind = "form" /\ listeners'[i].at = Len(stack')
    BY <1>3, <2>4, <2>5, ListenersStay DEF Reloads
  <2>9. Reloads(i)'
    BY <2>5, <2>6, <2>7, <2>8 DEF Reloads
  <2> QED BY <2>9
<1> QED BY <1>4, <1>5

-----------------------------------------------------------------------------
(* What is announced *)

(* Every listener knows of the user, and no record is on its way. *)
Settled ==
  /\ \A j \in DOMAIN listeners : listeners[j].prev = authUser
  /\ synced /\ dbQ = <<>> /\ due = {}
  /\ \A b \in Queued : b.do # "added"

CreatedInv ==
  modal = "created" =>
    /\ flow.pc = "idle" /\ alive /\ loaded /\ authUser # None
    /\ authUser = currentUser /\ authUser = keychain /\ authUser = savedPassword
    /\ Settled

(* Listener i belongs to a registration form on the top screen. *)
TopForm(i) == listeners[i].kind = "form" /\ listeners[i].at = Len(stack)

(* No record is on its way to listener i. *)
NoSignal(i) ==
  /\ NoAdded(i)
  /\ \A o \in waiting : o.who = i => o.uid \notin records
  /\ \A c \in Calls : c.op = "observe" /\ c.who = i => c.uid \notin records

(* Between two registrations a form on the top screen is quiet: only the   *)
(* record that the next one writes can reach it.                           *)
QuietInv ==
  \A i \in DOMAIN listeners : TopForm(i) =>
    /\ flow.pc \notin {"restoring", "restored", "reloading", "stuck"} => NoSignal(i)
    /\ flow.pc \in {"idle", "confirm", "creating", "registered"} => listeners[i].prev = authUser

(* Only the record of a form's listener announces a student. *)
LEMMA OnlyForms ==
  ASSUME TypeOK, [Next]_vars, modal' = "created", modal # "created"
  PROVE  RunAddedForm
<1>1. ~FlowStep
  BY DEF FlowStep, LoginTap, LoginRefused, DismissAlert, TapDone, ConfirmDropped, ConfirmOk,
         CreateAtServer, CreateFailed, UploadFailed, Uploaded, UrlAnswered, CommitFailed,
         RestoreRefused
<1>2. ~UserStep
  BY UserStepFrame
<1>3. MainThread => RunAddedForm
  BY DEF MainThread, RunFirst, RunNotify, Call, RunAddedLoading, RunSignedIn, RunSignedUp,
         RunRestored
<1>4. ~Launch /\ ~Kill /\ ~CommitTraps /\ ~Reinstall /\ ~LoadSession /\ ~Database
      /\ ~UNCHANGED vars
  BY DEF Launch, Kill, CommitTraps, Dies, FreshProcess, Reinstall, LoadSession, Database, vars,
         appVars
<1> QED BY <1>1, <1>2, <1>3, <1>4, NextSteps

(* No other listener announces anything. *)
LEMMA OthersSilent ==
  ASSUME TypeOK, FlowInv, PlaceInv, QuietInv, RunAddedForm, ~OwnSpinner(Head(mainQ).who)
  PROVE  modal' = modal /\ flow' = flow
<1>1. /\ Head(mainQ) \in Queued /\ Head(mainQ).do = "added"
      /\ Head(mainQ).who \in DOMAIN listeners /\ listeners[Head(mainQ).who].kind = "form"
  BY MainThreadTakesOne DEF MainThread, RunAddedForm, Runs, PlaceInv
<1>2. SUFFICES ASSUME MayPresent(listeners[Head(mainQ).who].at) PROVE FALSE
  BY DEF RunAddedForm
<1>3. listeners[Head(mainQ).who].at = Len(stack) /\ flow.pc = "idle"
  BY <1>2 DEF MayPresent, FlowInv
<1>4. TopForm(Head(mainQ).who)
  BY <1>1, <1>3 DEF TopForm
<1>5. NoAdded(Head(mainQ).who)
  BY <1>1, <1>3, <1>4 DEF QuietInv, NoSignal
<1> QED BY <1>1, <1>5 DEF NoAdded

(* It is the record of the registering user, and the last. *)
LEMMA Announced ==
  ASSUME TypeOK, FlowInv, RecordInv, PlaceInv, SyncedInv, BackInv, ReloadInv, QuietInv,
         RunAddedForm, modal' = "created", modal # "created"
  PROVE  CreatedInv'
<1>1. /\ mainQ \in Seq(Block) /\ mainQ # <<>> /\ Head(mainQ) \in Queued /\ Head(mainQ) \in Block
      /\ Head(mainQ).do = "added" /\ Head(mainQ).who \in DOMAIN listeners
      /\ listeners[Head(mainQ).who].kind = "form"
  BY HeadTyped, MainThreadTakesOne DEF MainThread, RunAddedForm, Runs, PlaceInv, TypeOK
<1>2. CASE OwnSpinner(Head(mainQ).who)
  <2>1. flow.pc = "reloading" /\ flow'.pc = "idle" /\ Head(mainQ).who = Len(listeners)
    BY <1>2 DEF RunAddedForm, OwnSpinner, Idle
  <2>2. PICK i \in Nat : Reloads(i)
    BY <2>1 DEF ReloadInv
  <2>3. i = Head(mainQ).who
    BY <2>1, <2>2 DEF Reloads
  <2>4. Answered(i)
    BY <1>1, <2>2, <2>3 DEF Reloads, Untold, Asked, Observing, NoAdded
  <2>5. Head(mainQ).uid = authUser /\ Head(mainQ) \in AddedFor(i)
    BY <1>1, <2>3, <2>4 DEF Answered, AddedFor
  <2>6. Range(Tail(mainQ)) \cap AddedBlocks = {}
    BY <1>1, <2>4, <2>5, FirstHasNone DEF Answered
  <2>7. \A b \in Queued' : b.do # "added"
    <3>1. Done(<<>>) /\ <<>> \in Seq(Block)
      BY DEF RunAddedForm
    <3>2. Queued' = Range(Tail(mainQ)) \cup Range(<<>>)
      BY <1>1, <3>1, QueuedOnDone
    <3>3. Range(Tail(mainQ)) \subseteq Block
      BY <1>1, TailTyped, RangeOfSeq
    <3> QED BY <2>6, <3>2, <3>3, ShortRanges DEF AddedBlocks
  <2>8. Registering /\ alive /\ Top = "Main"
    BY <2>1 DEF Registering, FlowInv, RegistrationCovered
  <2>9. synced
    <3>1. HasMain
      BY <2>8 DEF HasMain, Top, PlaceInv, TypeOK
    <3> QED BY <3>1 DEF SyncedInv
  <2>10. loaded /\ authUser # None /\ authUser = keychain /\ authUser = savedPassword
    BY <2>1, <2>8, NoneIsNoAccount DEF BackInv, RecordInv
  <2>11. UNCHANGED <<alive, loaded, authUser, keychain, savedPassword, listeners, synced, dbQ,
                     students, pending, waiting>> /\ currentUser' = Head(mainQ).uid
    BY DEF RunAddedForm, authVars, studentsVars, TakeProfile
  <2>12. \A j \in DOMAIN listeners : listeners[j].prev = authUser
    BY <2>2, <2>4 DEF Reloads, Answered
  <2>13. due' = {} /\ dbQ' = <<>>
    BY <2>4, <2>11 DEF Answered, due, view
  <2> QED BY <2>1, <2>5, <2>7, <2>8, <2>9, <2>10, <2>11, <2>12, <2>13 DEF CreatedInv, Settled
<1>3. CASE ~OwnSpinner(Head(mainQ).who)
  BY <1>3, OthersSilent
<1> QED BY <1>2, <1>3

(* The alert stays until it is dismissed, and nothing happens meanwhile    *)
(* that would change the user or the profile.                              *)
LEMMA NextCreated ==
  ASSUME TypeOK, FlowInv, RecordInv, PlaceInv, SyncedInv, BackInv, ReloadInv, QuietInv, CreatedInv,
         [Next]_vars
  PROVE  CreatedInv'
<1>1. CASE modal' # "created"
  BY <1>1 DEF CreatedInv
<1>2. CASE modal' = "created" /\ modal # "created"
  BY <1>2, OnlyForms, Announced
<1>3. CASE modal' = "created" /\ modal = "created"
  <2>1. /\ flow.pc = "idle" /\ alive /\ loaded /\ authUser # None
        /\ authUser = currentUser /\ authUser = keychain /\ authUser = savedPassword
        /\ Settled
    BY <1>3 DEF CreatedInv
  <2>2. ~FlowStep
    BY <1>3, <2>1 DEF FlowStep, LoginTap, LoginRefused, DismissAlert, TapDone, ConfirmDropped,
       ConfirmOk, CreateAtServer, CreateFailed, UploadFailed, Uploaded, UrlAnswered, CommitFailed,
       RestoreRefused, At, Tappable, Answerable
  <2>3. ~UserStep
    BY <1>3, <2>1 DEF UserStep, LoginAccepted, Logout, CreateAnswered, Committed, RestoreAccepted,
       At, Tappable
  <2>4. ~RunAddedLoading /\ ~RunAddedForm /\ ~RunSignedIn /\ ~RunSignedUp /\ ~RunRestored
    <3>1. MainThread => Head(mainQ).do # "added"
      BY <2>1, MainThreadTakesOne DEF Settled
    <3> QED BY <2>1, <3>1 DEF MainThread, RunAddedLoading, RunAddedForm, RunSignedIn, RunSignedUp,
               RunRestored, At, Runs
  <2>5. ~Launch /\ ~Kill /\ ~CommitTraps /\ ~Reinstall /\ ~LoadSession
    BY <1>3, <2>1 DEF Launch, Kill, CommitTraps, Dies, FreshProcess, Reinstall, LoadSession,
       KeychainLoad
  <2>6. CASE RunFirst \/ RunNotify
    <3>1. alive' = alive
      BY <2>6 DEF RunFirst, RunNotify, Call
    <3>2. PICK k : k = Head(mainQ).who /\ Call(k)
      BY <2>6 DEF RunFirst, RunNotify
    <3>3. k \in DOMAIN listeners
      <4>1. Head(mainQ) \in Queued /\ Head(mainQ).do \in {"first", "notify"}
        BY <2>6, MainThreadTakesOne DEF MainThread, RunFirst, RunNotify, Runs
      <4> QED BY <3>2, <4>1 DEF PlaceInv
    <3>4. ~Hears(k)
      BY <2>1, <3>3 DEF Settled, Hears
    <3>5. /\ UNCHANGED <<dbQ, authUser, students, synced, pending, waiting>>
          /\ DOMAIN listeners' = DOMAIN listeners
          /\ \A j \in DOMAIN listeners : listeners'[j].prev = listeners[j].prev
      BY <3>2, <3>4, HeardBefore
    <3>6. due' = due
      BY <3>5 DEF due, view
    <3>7. \A b \in Queued' : b.do # "added"
      <4>1. SUFFICES ASSUME NEW b \in Queued', b.do = "added" PROVE FALSE
        OBVIOUS
      <4>2. b \notin Queued /\ ~Raise
        BY <2>1, <4>1 DEF Settled, Raise
      <4> QED BY <3>1, <4>1, <4>2, NewBlocks DEF First, Notify, Reply
    <3>8. Settled'
      BY <2>1, <3>5, <3>6, <3>7 DEF Settled
    <3>9. UNCHANGED <<flow, alive, loaded, keychain, currentUser, savedPassword>>
      BY <3>2 DEF Call
    <3> QED BY <2>1, <3>5, <3>8, <3>9 DEF CreatedInv
  <2>7. CASE Database
    <3>1. UNCHANGED <<flow, alive, loaded, authUser, listeners, keychain, currentUser, savedPassword>>
      BY <2>7 DEF Database, authVars, appVars
    <3>2. PushAccepted \/ PushRejected
      BY <2>1, <2>7 DEF Settled, Database, Raise, RunObserve, RunSetValue, NextCall, Sync
    <3>3. due' = {}
      BY <2>1, <3>2, DueShrinks DEF Settled
    <3>4. UNCHANGED <<dbQ, synced, mainQ>>
      BY <3>2 DEF PushAccepted, PushRejected
    <3>5. Settled'
      BY <2>1, <3>1, <3>3, <3>4 DEF Settled, Queued
    <3> QED BY <2>1, <3>1, <3>5 DEF CreatedInv
  <2>8. CASE UNCHANGED vars
    BY <2>1, <2>8 DEF vars, authVars, studentsVars, appVars, CreatedInv, Settled, due, view, Queued
  <2> QED BY <2>2, <2>3, <2>4, <2>5, <2>6, <2>7, <2>8, NextSteps DEF MainThread
<1> QED BY <1>1, <1>2, <1>3

(* A registration that gives the session back goes on, announces the       *)
(* student, or ends with the process.                                      *)
LEMMA GivingBackGoesOn ==
  ASSUME TypeOK, DeadInv, FlowInv, [Next]_vars, alive' = alive, modal' # "created",
         flow.pc \in {"restoring", "restored", "reloading", "stuck"}
  PROVE  flow'.pc \in {"restoring", "restored", "reloading", "stuck"}
<1> USE DEF TypeOK, Flow, Goes, At
<1>1. modal \in {"confirm", "processing"} /\ alive
  BY DEF FlowInv, RegistrationCovered, Registering
<1>2. CASE FlowStep
  <2>1. RestoreRefused
    BY <1>1, <1>2 DEF FlowStep, LoginTap, LoginRefused, DismissAlert, TapDone, ConfirmDropped,
       ConfirmOk, CreateAtServer, CreateFailed, UploadFailed, Uploaded, UrlAnswered, CommitFailed,
       Tappable, Answerable
  <2> QED BY <2>1 DEF RestoreRefused
<1>3. CASE UserStep
  <2>1. RestoreAccepted
    BY <1>1, <1>3 DEF UserStep, LoginAccepted, Logout, CreateAnswered, Committed, Tappable
  <2> QED BY <2>1 DEF RestoreAccepted
<1>4. CASE MainThread
  <2>1. CASE RunFirst \/ RunNotify \/ RunAddedLoading
    <3>1. flow' = flow
      BY <2>1 DEF RunFirst, RunNotify, Call, RunAddedLoading
    <3> QED BY <3>1
  <2>2. CASE RunAddedForm
    <3>1. flow' = flow
      BY <2>2 DEF RunAddedForm
    <3> QED BY <3>1
  <2>3. CASE RunSignedIn \/ RunSignedUp
    BY <2>3 DEF RunSignedIn, RunSignedUp
  <2>4. CASE RunRestored
    BY <2>4 DEF RunRestored
  <2> QED BY <1>4, <2>1, <2>2, <2>3, <2>4 DEF MainThread
<1>5. CASE Reinstall \/ LoadSession \/ Database \/ UNCHANGED vars
  <2>1. flow' = flow
    BY <1>5 DEF Reinstall, LoadSession, Database, vars, appVars
  <2> QED BY <2>1
<1>6. ~Launch /\ ~Kill /\ ~CommitTraps
  BY DEF Launch, Kill, CommitTraps, Dies
<1> QED BY <1>2, <1>3, <1>4, <1>5, <1>6, NextSteps

(* A new account's session is left without its record only by a failure,   *)
(* whose answer finds the main queue empty.                                *)
LEMMA FailedEmpty ==
  ASSUME TypeOK, DeadInv, FlowInv, [Next]_vars, alive' = alive,
         flow.pc \in {"signedUp", "uploading", "fetchingUrl", "committing"},
         flow'.pc \in {"idle", "confirm", "creating", "registered"}
  PROVE  mainQ = <<>> /\ UNCHANGED <<authUser, listeners>>
<1> USE DEF TypeOK, Flow, Goes, At
<1>1. modal \in {"confirm", "processing"} /\ alive
  BY DEF FlowInv, RegistrationCovered, Registering
<1>2. CASE FlowStep
  <2>1. CASE UploadFailed \/ CommitFailed
    BY <1>2, <2>1, FlowStepFrame DEF UploadFailed, CommitFailed
  <2>2. CASE Uploaded \/ UrlAnswered
    BY <2>2 DEF Uploaded, UrlAnswered
  <2> QED BY <1>1, <1>2, <2>1, <2>2 DEF FlowStep, LoginTap, LoginRefused, DismissAlert, TapDone,
       ConfirmDropped, ConfirmOk, CreateAtServer, CreateFailed, RestoreRefused, Tappable, Answerable
<1>3. CASE UserStep
  <2>1. Committed
    BY <1>1, <1>3 DEF UserStep, LoginAccepted, Logout, CreateAnswered, RestoreAccepted, Tappable
  <2> QED BY <2>1 DEF Committed
<1>4. CASE MainThread
  <2>1. CASE RunFirst \/ RunNotify \/ RunAddedLoading
    <3>1. flow' = flow
      BY <2>1 DEF RunFirst, RunNotify, Call, RunAddedLoading
    <3> QED BY <3>1
  <2>2. CASE RunAddedForm
    <3>1. flow' = flow
      BY <2>2 DEF RunAddedForm, OwnSpinner
    <3> QED BY <3>1
  <2>3. CASE RunSignedIn \/ RunRestored
    BY <2>3 DEF RunSignedIn, RunRestored
  <2>4. CASE RunSignedUp
    BY <2>4 DEF RunSignedUp
  <2> QED BY <1>4, <2>1, <2>2, <2>3, <2>4 DEF MainThread
<1>5. CASE Reinstall \/ LoadSession \/ Database \/ UNCHANGED vars
  <2>1. flow' = flow
    BY <1>5 DEF Reinstall, LoadSession, Database, vars, appVars
  <2> QED BY <2>1
<1>6. ~Launch /\ ~Kill /\ ~CommitTraps
  BY DEF Launch, Kill, CommitTraps, Dies
<1> QED BY <1>2, <1>3, <1>4, <1>5, <1>6, NextSteps

(* What has settled is quiet. *)
LEMMA SettledQuiet ==
  ASSUME Settled', NEW i \in DOMAIN listeners'
  PROVE  NoSignal(i)' /\ listeners'[i].prev = authUser'
<1>1. Calls' = {} /\ NoAdded(i)'
  BY ShortRanges DEF Settled, Calls, NoAdded
<1>2. \A o \in waiting' : o.uid \notin records'
  <2>1. \A o \in waiting' : o.uid \notin view'
    BY DEF Settled, due
  <2>2. \A u : u \in records' => u \in view'
    BY <1>1, RecordPlacesNext DEF view, Settled
  <2> QED BY <2>1, <2>2
<1> QED BY <1>1, <1>2 DEF NoSignal, Settled

(* A form on the top screen was there before, and the session is loaded.   *)
LEMMA TopFormWas ==
  ASSUME TypeOK, DeadInv, SigningInv, UnreadInv, PlaceInv, [Next]_vars, alive' = alive,
         NEW i \in DOMAIN listeners, TopForm(i)'
  PROVE  /\ TopForm(i) /\ stack' = stack /\ alive /\ loaded /\ Top = "Main"
         /\ flow.pc \notin {"signingIn", "signedIn"}
<1>1. listeners[i].kind = "form" /\ listeners[i].at = Len(stack')
  BY ListenersStay DEF TopForm
<1>2. Len(stack') \in 1 .. Len(stack) /\ stack[listeners[i].at] = "Main"
  BY <1>1 DEF PlaceInv, TypeOK
<1>3. stack' = stack
  <2>1. SUFFICES ASSUME NEW x \in Screen, stack' = Append(stack, x) PROVE FALSE
    BY StackGrows
  <2>2. Len(stack') = Len(stack) + 1 /\ Len(stack) \in Nat
    BY <2>1, AppendProperties DEF TypeOK
  <2> QED BY <1>2, <2>2
<1>4. TopForm(i) /\ Top = "Main"
  BY <1>1, <1>2, <1>3 DEF TopForm, Top
<1>5. alive
  BY DEF DeadInv
<1>6. loaded
  BY <1>1, <1>2, <1>5 DEF UnreadInv
<1> QED BY <1>3, <1>4, <1>5, <1>6 DEF SigningInv

(* Every step keeps quiet forms quiet. *)
LEMMA SignalFree ==
  ASSUME TypeOK, DeadInv, FlowInv, RecordInv, [Next]_vars, alive' = alive,
         NEW i \in DOMAIN listeners, NoSignal(i), flow'.pc # "restoring",
         flow.pc \notin {"signingIn", "signedIn", "restoring", "restored", "reloading", "stuck"},
         flow.pc \in {"idle", "confirm", "creating", "registered"} => listeners[i].prev = authUser
  PROVE  NoSignal(i)'
<1>0. i \in Nat
  BY DEF TypeOK, AuthTypeOK
<1>1. ~Committed /\ ~CommitTraps
  BY DEF Committed, CommitTraps, At, Dies, Goes, TypeOK, Flow
<1>2. records' \subseteq records
  BY <1>1, RecordsMove
<1>3. view \subseteq records
  BY RecordPlaces DEF view
<1>4. NoAdded(i)'
  <2>1. SUFFICES ASSUME NEW b \in Queued', b.do = "added", b.who = i PROVE FALSE
    BY DEF NoAdded
  <2>2. b \notin Queued
    BY <2>1 DEF NoAdded, NoSignal
  <2>3. CASE Raise /\ \E o \in due : b = Added(o.who, o.uid)
    <3>1. PICK o \in due : b = Added(o.who, o.uid)
      BY <2>3
    <3>2. o \in waiting /\ o.uid \in records /\ o.who = i
      BY <1>3, <2>1, <3>1 DEF due, Added
    <3> QED BY <3>2 DEF NoSignal
  <2>4. b # First(Len(listeners) + 1) /\ b # Notify(1) /\ b # Notify(Head(mainQ).who + 1)
        /\ \A name \in {"signedUp", "signedIn", "restored"} : b # Reply(name)
    BY <2>1 DEF First, Notify, Reply
  <2> QED BY <2>2, <2>3, <2>4, NewBlocks
<1>5. \A o \in waiting' : o.who = i => o.uid \notin records'
  <2>1. SUFFICES ASSUME NEW o \in waiting', o.who = i, o.uid \in records PROVE FALSE
    BY <1>2
  <2>2. o \notin waiting
    BY <2>1 DEF NoSignal
  <2>3. PICK c \in Calls : c.op = "observe" /\ o = [who |-> c.who, uid |-> c.uid]
    BY <2>2, NewWaiting
  <2> QED BY <2>1, <2>3 DEF NoSignal
<1>6. \A c \in Calls' : c.op = "observe" /\ c.who = i => c.uid \notin records'
  <2>1. SUFFICES ASSUME NEW c \in Calls', c.op = "observe", c.who = i, c.uid \in records'
                 PROVE  FALSE
    OBVIOUS
  <2>2. c \notin Calls
    BY <1>2, <2>1 DEF NoSignal
  <2>3. Hears(Head(mainQ).who) /\ SignedIn /\ c = Observe(Head(mainQ).who, authUser)
    BY <1>1, <2>2, NewCalls
  <2>4. Head(mainQ).who = i /\ c.uid = authUser
    BY <2>1, <2>3 DEF Observe
  <2>5. flow.pc \in {"signedUp", "uploading", "fetchingUrl", "committing"}
    BY <2>3, <2>4 DEF Hears, TypeOK, Flow, Step
  <2>6. authUser = flow.new /\ flow.new \notin records
    BY <2>3, <2>5 DEF FlowInv, RecordInv, Creating, SignedIn
  <2> QED BY <1>2, <2>1, <2>4, <2>6
<1> QED BY <1>4, <1>5, <1>6 DEF NoSignal

(* Every step keeps the forms on the top screen quiet. *)
LEMMA NextQuiet ==
  ASSUME TypeOK, DeadInv, FlowInv, SigningInv, ToldInv, UnreadInv, RecordInv, PlaceInv, QuietInv,
         CreatedInv', [Next]_vars
  PROVE  QuietInv'
<1>1. CASE alive' = alive
  <2>1. SUFFICES ASSUME NEW i \in DOMAIN listeners', TopForm(i)'
        PROVE  /\ flow'.pc \notin {"restoring", "restored", "reloading", "stuck"} => NoSignal(i)'
               /\ flow'.pc \in {"idle", "confirm", "creating", "registered"} =>
                    listeners'[i].prev = authUser'
    BY DEF QuietInv
  <2>2. i \in DOMAIN listeners \/ RunRestored
    <3>1. CASE RunSignedIn
      <4>1. PICK at \in Nat : AddListener("loading", at)
        BY <3>1 DEF RunSignedIn, TypeOK
      <4>2. i \in DOMAIN listeners \/ listeners'[i] = NewListener("loading", at)
        BY <4>1, ListenerAdded
      <4> QED BY <2>1, <4>2 DEF TopForm, NewListener
    <3>2. CASE ~RunSignedIn /\ ~RunRestored
      <4>1. DOMAIN listeners' = DOMAIN listeners
        BY <1>1, <3>2, ListenersGrow DEF Call
      <4> QED BY <4>1
    <3> QED BY <3>1, <3>2
  <2>3. CASE RunRestored
    BY <2>3 DEF RunRestored, Goes, TypeOK, Flow
  <2>4. CASE modal' = "created"
    <3>1. Settled'
      BY <2>4 DEF CreatedInv
    <3>2. NoSignal(i)' /\ listeners'[i].prev = authUser'
      BY <2>1, <3>1, SettledQuiet
    <3> QED BY <3>2
  <2>5. CASE i \in DOMAIN listeners /\ modal' # "created" /\ ~RunRestored
    <3>1. /\ TopForm(i) /\ stack' = stack /\ alive /\ loaded /\ Top = "Main"
          /\ flow.pc \notin {"signingIn", "signedIn"}
      BY <1>1, <2>1, <2>5, TopFormWas
    <3>2. flow.pc \in {"restoring", "restored", "reloading", "stuck"} =>
            flow'.pc \in {"restoring", "restored", "reloading", "stuck"}
      BY <1>1, <2>5, GivingBackGoesOn
    <3>3. flow.pc \notin {"restoring", "restored", "reloading", "stuck"} => NoSignal(i)
      BY <2>5, <3>1 DEF QuietInv
    <3>4. flow.pc \in {"idle", "confirm", "creating", "registered"} => listeners[i].prev = authUser
      BY <2>5, <3>1 DEF QuietInv
    <3>5. flow'.pc \notin {"restoring", "restored", "reloading", "stuck"} => NoSignal(i)'
      BY <1>1, <2>5, <3>1, <3>2, <3>3, <3>4, SignalFree
    <3>6. ASSUME flow'.pc \in {"idle", "confirm", "creating", "registered"}
          PROVE  listeners'[i].prev = authUser'
      <4>1. CASE flow.pc \in {"signedUp", "uploading", "fetchingUrl", "committing"}
        <5>1. mainQ = <<>> /\ UNCHANGED <<authUser, listeners>>
          BY <1>1, <3>6, <4>1, FailedEmpty
        <5>2. Queued = {}
          BY <5>1, ShortRanges DEF Queued
        <5> QED BY <2>5, <5>1, <5>2 DEF ToldInv, ToBeTold
      <4>2. CASE flow.pc \in {"idle", "confirm", "creating", "registered"}
        <5>1. ~UserStep
          <6>1. ~Logout
            <7>1. ASSUME Logout PROVE FALSE
              <8>1. stack' = Append(stack, "Login")
                BY <7>1 DEF Logout
              <8> QED BY <3>1, <8>1 DEF TypeOK
            <7> QED BY <7>1
          <6>2. ~LoginAccepted /\ ~Committed /\ ~RestoreAccepted
            BY <4>2 DEF LoginAccepted, Committed, RestoreAccepted, At
          <6>3. ~CreateAnswered
            BY <3>6 DEF CreateAnswered, Goes, TypeOK, Flow
          <6> QED BY <6>1, <6>2, <6>3 DEF UserStep
        <5>2. ~LoadSession
          BY <3>1 DEF LoadSession, KeychainLoad
        <5>3. listeners[i].prev = authUser
          BY <3>4, <4>2
        <5>4. CASE RunFirst \/ RunNotify
          <6>1. PICK k : Call(k)
            BY <5>4 DEF RunFirst, RunNotify
          <6> QED BY <2>5, <5>3, <6>1, CallTells
        <5>5. CASE RunSignedIn
          BY <4>2, <5>5 DEF RunSignedIn, At
        <5>6. CASE ~RunFirst /\ ~RunNotify /\ ~RunSignedIn
          <6>1. UNCHANGED <<listeners, authUser>>
            <7>1. ~Launch /\ ~Kill /\ ~CommitTraps
              BY <1>1 DEF Launch, Kill, CommitTraps, Dies
            <7> QED BY <2>5, <5>1, <5>2, <5>6, <7>1, NextSteps, FlowStepFrame
                    DEF MainThread, RunAddedLoading, RunAddedForm, RunSignedUp, Reinstall, Database,
                        vars, authVars
          <6> QED BY <5>3, <6>1
        <5> QED BY <5>4, <5>5, <5>6
      <4>3. flow.pc \in {"idle", "confirm", "creating", "registered", "signedUp", "uploading",
                         "fetchingUrl", "committing"}
        BY <3>1, <3>2, <3>6 DEF TypeOK, Flow, Step
      <4> QED BY <4>1, <4>2, <4>3
    <3> QED BY <3>5, <3>6
  <2> QED BY <2>2, <2>3, <2>4, <2>5
<1>2. CASE Kill \/ CommitTraps
  <2>1. listeners' = <<>>
    BY <1>2 DEF Kill, CommitTraps, Dies
  <2> QED BY <2>1 DEF QuietInv
<1>3. CASE Launch
  <2>1. listeners' = <<NewListener("loading", 1)>>
    BY <1>3 DEF Launch
  <2>2. \A i \in DOMAIN listeners' : listeners'[i].kind = "loading"
    BY <2>1 DEF NewListener
  <2> QED BY <2>2 DEF QuietInv, TopForm
<1> QED BY <1>1, <1>2, <1>3, ProcessSteps

(* The parts of the invariant that a registration rests on. *)
RestoreInv ==
  /\ RecordInv /\ PlaceInv /\ SyncedInv
  /\ BackInv /\ ReplyInv /\ ReloadInv /\ CreatedInv /\ QuietInv

(* It holds at first, ... *)
LEMMA InitRestore == Init => RestoreInv
<1>1. SUFFICES ASSUME Init PROVE RestoreInv
  OBVIOUS
<1>2. Queued = {} /\ Calls = {} /\ waiting = {} /\ listeners = <<>> /\ stack = <<>>
  BY <1>1, ShortRanges DEF Init, Queued, Calls
<1>3. RecordInv
  <2>1. \A u : u \in records <=> u \in students
    BY <1>1, <1>2, RecordPlaces DEF Init
  <2>2. flow.pc = "idle"
    BY <1>1 DEF Init, Idle
  <2> QED BY <1>1, <2>1, <2>2 DEF Init, RecordInv, Creating, Registering
<1>4. PlaceInv /\ SyncedInv /\ QuietInv
  BY <1>1, <1>2 DEF Init, PlaceInv, SyncedInv, HasMain, QuietInv
<1>5. BackInv /\ ReplyInv /\ ReloadInv /\ CreatedInv
  BY <1>1, <1>2 DEF Init, Idle, BackInv, ReplyInv, NoneBehind, ReloadInv, CreatedInv
<1> QED BY <1>3, <1>4, <1>5 DEF RestoreInv

(* ... and every step keeps it. *)
LEMMA NextRestore ==
  ASSUME TypeOK, FlowInv, ToldInv, LoginInv, RestoreInv, [Next]_vars
  PROVE  RestoreInv'
<1> USE DEF LoginInv, RestoreInv
<1>1. RecordInv' /\ PlaceInv' /\ SyncedInv' /\ BackInv' /\ ReplyInv'
  BY NextRecord, NextPlace, NextSynced, NextBack, NextReply
<1>2. ReloadInv' /\ CreatedInv'
  BY NextReload, NextCreated
<1>3. QuietInv'
  BY <1>2, NextQuiet
<1> QED BY <1>1, <1>2, <1>3

(* The invariant of the registrations holds in every reachable state. *)
THEOREM RestoreInductive == Spec => [](TypeOK /\ FlowInv /\ ToldInv /\ LoginInv /\ RestoreInv)
<1>1. TypeOK /\ FlowInv /\ ToldInv /\ LoginInv /\ RestoreInv /\ [Next]_vars => RestoreInv'
  BY NextRestore
<1> QED BY <1>1, InitRestore, LoginFormInductive, PTL DEF Spec

(* "Created" is announced only when session, stored session, profile and   *)
(* saved password are those of the user who registered the student.        *)
THEOREM AnnouncedAfterReturn == Spec => []SuccessMeansRestored
<1>1. RestoreInv => SuccessMeansRestored
  BY DEF RestoreInv, CreatedInv, SuccessMeansRestored
<1> QED BY <1>1, RestoreInductive, PTL

-----------------------------------------------------------------------------
(* The app registers students as Registration says. *)

absVars == <<stage, owner, student, keychain, records>>

(* The stage, owner and student, by the step the flow has reached. *)
LEMMA Stages ==
  ASSUME TypeOK
  PROVE  /\ modal = "created" => stage = "announced" /\ owner = None /\ student = flow.new
         /\ modal # "created" =>
              /\ flow.pc \in {"idle", "signingIn", "signedIn", "confirm", "stuck"} =>
                   stage = "none" /\ owner = None /\ student = None
              /\ flow.pc \in {"creating", "registered"} =>
                   stage = "asked" /\ owner = flow.email /\ student = flow.new
              /\ flow.pc \in {"signedUp", "uploading", "fetchingUrl", "committing"} =>
                   stage = "student" /\ owner = flow.email /\ student = flow.new
              /\ flow.pc = "restoring" =>
                   stage = "written" /\ owner = flow.email /\ student = flow.new
              /\ flow.pc \in {"restored", "reloading"} =>
                   stage = "back" /\ owner = flow.email /\ student = flow.new
BY DEF stage, owner, student, Creating

LEMMA StagesNext ==
  ASSUME TypeOK'
  PROVE  /\ modal' = "created" => stage' = "announced" /\ owner' = None /\ student' = flow'.new
         /\ modal' # "created" =>
              /\ flow'.pc \in {"idle", "signingIn", "signedIn", "confirm", "stuck"} =>
                   stage' = "none" /\ owner' = None /\ student' = None
              /\ flow'.pc \in {"creating", "registered"} =>
                   stage' = "asked" /\ owner' = flow'.email /\ student' = flow'.new
              /\ flow'.pc \in {"signedUp", "uploading", "fetchingUrl", "committing"} =>
                   stage' = "student" /\ owner' = flow'.email /\ student' = flow'.new
              /\ flow'.pc = "restoring" =>
                   stage' = "written" /\ owner' = flow'.email /\ student' = flow'.new
              /\ flow'.pc \in {"restored", "reloading"} =>
                   stage' = "back" /\ owner' = flow'.email /\ student' = flow'.new
BY DEF stage, owner, student, Creating

(* Only the flow and the alert make up the first three. *)
LEMMA SameStage ==
  ASSUME flow' = flow, modal' = modal
  PROVE  UNCHANGED <<stage, owner, student>>
BY DEF stage, owner, student

(* A flow step asks, abandons, or is not seen. *)
LEMMA FlowStepRegisters ==
  ASSUME TypeOK, TypeOK', FlowInv, SigningInv, RecordInv, CreatedInv, FlowStep, records' = records
  PROVE  Abstract!Next \/ UNCHANGED absVars
<1> USE DEF TypeOK, Flow, Goes, At, absVars
<1>1. keychain' = keychain
  BY FlowStepFrame
<1>2. flow.pc # "idle" => modal # "created" /\ modal # "error"
  BY DEF SigningInv
<1>3. CASE LoginTap
  <2>1. modal = "none" /\ flow.pc = "idle" /\ modal' = "processing" /\ flow'.pc = "signingIn"
    BY <1>3 DEF LoginTap, Tappable, FlowInv
  <2> QED BY <1>1, <2>1, Stages, StagesNext
<1>4. CASE LoginRefused \/ ConfirmDropped
  <2>1. flow.pc \in {"signingIn", "confirm"} /\ modal' \in {"error", "none"} /\ flow'.pc = "idle"
    BY <1>4 DEF LoginRefused, ConfirmDropped, Idle
  <2> QED BY <1>1, <1>2, <2>1, Stages, StagesNext
<1>5. CASE DismissAlert
  <2>1. modal \in {"created", "error"} /\ modal' = "none" /\ flow'.pc = "idle" /\ flow.pc = "idle"
    BY <1>2, <1>5 DEF DismissAlert, Answerable, Idle, CreatedInv
  <2>2. CASE modal = "created"
    <3>1. /\ stage = "announced" /\ stage' = "none" /\ student' = None /\ owner = None
          /\ owner' = None
      BY <2>1, <2>2, Stages, StagesNext
    <3>2. Abstract!Dismiss
      BY <1>1, <3>1 DEF Abstract!Dismiss
    <3> QED BY <3>2 DEF Abstract!Next
  <2>3. CASE modal = "error"
    BY <1>1, <2>1, <2>3, Stages, StagesNext
  <2> QED BY <2>1, <2>2, <2>3
<1>6. CASE TapDone
  <2>1. modal = "none" /\ flow.pc = "idle" /\ modal' = "confirm" /\ flow'.pc = "confirm"
    BY <1>6 DEF TapDone, Tappable, FlowInv
  <2> QED BY <1>1, <2>1, Stages, StagesNext
<1>7. CASE ConfirmOk
  <2>1. /\ flow.pc = "confirm" /\ flow'.pc = "creating" /\ modal' = "processing"
        /\ flow'.email = flow.email /\ flow'.new \in Account
    BY <1>7 DEF ConfirmOk
  <2>2. flow.email \in Account
    BY <2>1 DEF RecordInv, Registering
  <2>3. stage = "none" /\ stage' = "asked" /\ owner' = flow.email /\ student' = flow'.new
    BY <1>2, <2>1, Stages, StagesNext
  <2>4. Abstract!Ask
    BY <1>1, <2>1, <2>2, <2>3 DEF Abstract!Ask
  <2> QED BY <2>4 DEF Abstract!Next
<1>8. CASE CreateAtServer \/ Uploaded
  <2>1. /\ \/ flow.pc = "creating" /\ flow'.pc = "registered"
           \/ flow.pc = "uploading" /\ flow'.pc = "fetchingUrl"
        /\ flow'.email = flow.email /\ flow'.new = flow.new /\ modal' = modal
    BY <1>8 DEF CreateAtServer, Uploaded
  <2> QED BY <1>1, <1>2, <2>1, Stages, StagesNext
<1>9. ASSUME modal' # "created", flow'.pc \in {"idle", "stuck"}
      PROVE  Abstract!Next
  <2>1. stage' = "none" /\ owner' = None /\ student' = None
    BY <1>9, StagesNext
  <2>2. Abstract!Abandon
    BY <1>1, <2>1 DEF Abstract!Abandon
  <2> QED BY <2>2 DEF Abstract!Next
<1>10. CASE CreateFailed \/ UploadFailed \/ CommitFailed
  <2>1. modal' = "none" /\ flow'.pc = "idle"
    BY <1>10 DEF CreateFailed, UploadFailed, CommitFailed, Idle
  <2> QED BY <1>9, <2>1
<1>11. CASE RestoreRefused
  <2>1. modal' = modal /\ flow.pc = "restoring" /\ flow'.pc = "stuck"
    BY <1>11 DEF RestoreRefused
  <2> QED BY <1>2, <1>9, <2>1
<1>12. CASE UrlAnswered
  <2>1. /\ modal' = modal /\ flow.pc = "fetchingUrl" /\ flow'.pc \in {"stuck", "committing"}
        /\ flow'.email = flow.email /\ flow'.new = flow.new
    BY <1>12 DEF UrlAnswered
  <2>2. CASE flow'.pc = "stuck"
    BY <1>2, <1>9, <2>1, <2>2
  <2>3. CASE flow'.pc = "committing"
    BY <1>1, <1>2, <2>1, <2>3, Stages, StagesNext
  <2> QED BY <2>1, <2>2, <2>3
<1> QED BY <1>3, <1>4, <1>5, <1>6, <1>7, <1>8, <1>10, <1>11, <1>12 DEF FlowStep

(* A change of the user lends the session, writes the record, gives the    *)
(* session back, or is a sign-in or sign-out between two registrations.    *)
LEMMA UserStepRegisters ==
  ASSUME TypeOK, TypeOK', FlowInv, SigningInv, UserStep,
         IF Committed THEN records' = records \cup {authUser} ELSE records' = records
  PROVE  Abstract!Next
<1> USE DEF TypeOK, Flow, Goes, At
<1>1. modal' = modal /\ keychain' \in MaybeUser
  BY UserStepFrame DEF AuthTypeOK
<1>2. flow.pc # "idle" => modal # "created"
  BY DEF SigningInv
<1>3. CASE LoginAccepted
  <2>1. flow.pc = "signingIn" /\ flow'.pc = "signedIn" /\ records' = records
    BY <1>3 DEF LoginAccepted, Committed
  <2>2. stage = "none" /\ UNCHANGED <<stage, owner, student>>
    BY <1>1, <1>2, <2>1, Stages, StagesNext
  <2>3. Abstract!SignInOrOut
    BY <1>1, <2>1, <2>2 DEF Abstract!SignInOrOut, MaybeUser
  <2> QED BY <2>3 DEF Abstract!Next
<1>4. CASE Logout
  <2>1. modal = "none" /\ flow.pc = "idle" /\ flow' = flow /\ records' = records
    BY <1>4 DEF Logout, Tappable, FlowInv, Committed
  <2>2. stage = "none" /\ UNCHANGED <<stage, owner, student>>
    BY <1>1, <2>1, Stages, SameStage
  <2>3. Abstract!SignInOrOut
    BY <1>1, <2>1, <2>2 DEF Abstract!SignInOrOut, MaybeUser
  <2> QED BY <2>3 DEF Abstract!Next
<1>5. CASE CreateAnswered
  <2>1. /\ flow.pc = "registered" /\ flow'.pc = "signedUp" /\ records' = records
        /\ flow'.email = flow.email /\ flow'.new = flow.new
        /\ keychain' \in {flow.new, None}
    BY <1>5 DEF CreateAnswered, BecomeUser, Committed
  <2>2. /\ stage = "asked" /\ stage' = "student" /\ student = flow.new
        /\ UNCHANGED <<owner, student>>
    BY <1>1, <1>2, <2>1, Stages, StagesNext
  <2>3. Abstract!Lend
    BY <2>1, <2>2 DEF Abstract!Lend
  <2> QED BY <2>3 DEF Abstract!Next
<1>6. CASE Committed
  <2>1. /\ flow.pc = "committing" /\ flow'.pc = "restoring" /\ records' = records \cup {authUser}
        /\ flow'.email = flow.email /\ flow'.new = flow.new /\ keychain' = None
    BY <1>6 DEF Committed, BecomeUser
  <2>2. authUser = flow.new /\ keychain = flow.new
    BY <2>1 DEF FlowInv, Creating
  <2>3. /\ stage = "student" /\ stage' = "written" /\ student = flow.new
        /\ UNCHANGED <<owner, student>>
    BY <1>1, <1>2, <2>1, Stages, StagesNext
  <2>4. Abstract!Write
    BY <2>1, <2>2, <2>3 DEF Abstract!Write
  <2> QED BY <2>4 DEF Abstract!Next
<1>7. CASE RestoreAccepted
  <2>1. /\ flow.pc = "restoring" /\ flow'.pc = "restored" /\ records' = records
        /\ flow'.email = flow.email /\ flow'.new = flow.new /\ keychain' = flow.email
    BY <1>7 DEF RestoreAccepted, BecomeUser, Committed
  <2>2. /\ stage = "written" /\ stage' = "back" /\ owner = flow.email
        /\ UNCHANGED <<owner, student>>
    BY <1>1, <1>2, <2>1, Stages, StagesNext
  <2>3. Abstract!GiveBack
    BY <2>1, <2>2 DEF Abstract!GiveBack
  <2> QED BY <2>3 DEF Abstract!Next
<1> QED BY <1>3, <1>4, <1>5, <1>6, <1>7 DEF UserStep

(* A block announces the student, or is not seen. *)
LEMMA BlockRegisters ==
  ASSUME TypeOK, TypeOK', FlowInv, SigningInv, PlaceInv, BackInv, QuietInv, MainThread,
         records' = records
  PROVE  Abstract!Next \/ UNCHANGED absVars
<1> USE DEF TypeOK, Flow, Goes, At, absVars
<1>1. keychain' = keychain
  BY DEF MainThread, RunFirst, RunNotify, Call, RunAddedLoading, RunAddedForm, RunSignedIn,
     RunSignedUp, RunRestored, authVars
<1>2. flow.pc # "idle" => modal # "created"
  BY DEF SigningInv
<1>3. CASE RunFirst \/ RunNotify \/ RunAddedLoading
  <2>1. flow' = flow /\ modal' = modal
    BY <1>3 DEF RunFirst, RunNotify, Call, RunAddedLoading
  <2> QED BY <1>1, <2>1, SameStage
<1>4. CASE RunAddedForm /\ OwnSpinner(Head(mainQ).who)
  <2>1. /\ flow.pc = "reloading" /\ modal' = "created" /\ flow'.new = flow.new
        /\ flow'.pc = "idle"
    BY <1>4 DEF RunAddedForm, OwnSpinner, Idle
  <2>2. /\ stage = "back" /\ stage' = "announced" /\ owner = flow.email /\ owner' = None
        /\ student = flow.new /\ student' = flow.new
    BY <1>2, <2>1, Stages, StagesNext
  <2>3. keychain = flow.email
    BY <2>1 DEF BackInv
  <2>4. Abstract!Announce
    BY <1>1, <2>2, <2>3 DEF Abstract!Announce
  <2> QED BY <2>4 DEF Abstract!Next
<1>5. CASE RunAddedForm /\ ~OwnSpinner(Head(mainQ).who)
  <2>1. flow' = flow /\ modal' = modal
    BY <1>5, OthersSilent
  <2> QED BY <1>1, <2>1, SameStage
<1>6. CASE RunSignedIn
  <2>1. flow.pc = "signedIn" /\ flow'.pc = "idle" /\ modal' = "none"
    BY <1>6 DEF RunSignedIn, Idle
  <2> QED BY <1>1, <1>2, <2>1, Stages, StagesNext
<1>7. CASE RunSignedUp \/ RunRestored
  <2>1. /\ \/ flow.pc = "signedUp" /\ flow'.pc = "uploading"
           \/ flow.pc = "restored" /\ flow'.pc = "reloading"
        /\ flow'.email = flow.email /\ flow'.new = flow.new /\ modal' = modal
    BY <1>7 DEF RunSignedUp, RunRestored
  <2> QED BY <1>1, <1>2, <2>1, Stages, StagesNext
<1> QED BY <1>3, <1>4, <1>5, <1>6, <1>7 DEF MainThread

(* The end of the process when the record has just been sent. *)
LEMMA CutShortRegisters ==
  ASSUME TypeOK, TypeOK', FlowInv, CommitTraps, keychain' = None,
         records' \subseteq records \cup {authUser}
  PROVE  Abstract!Next
<1>1. alive /\ flow.pc = "committing" /\ modal' = "none" /\ flow'.pc = "idle"
  BY DEF CommitTraps, At, Dies, FreshProcess, Idle
<1>2. stage' = "none" /\ owner' = None /\ student' = None
  BY <1>1, StagesNext
<1>3. modal # "created"
  BY <1>1 DEF FlowInv, RegistrationCovered, Registering
<1>4. stage = "student" /\ student = flow.new
  BY <1>1, <1>3, Stages
<1>5. keychain = flow.new /\ authUser = flow.new
  BY <1>1 DEF CommitTraps, SignedIn, FlowInv, Creating
<1>6. Abstract!CutShort
  BY <1>2, <1>4, <1>5 DEF Abstract!CutShort
<1> QED BY <1>6 DEF Abstract!Next

(* The steps of the process, the clients and the database. *)
LEMMA DeviceRegisters ==
  ASSUME TypeOK, TypeOK',
         \/ (Kill \/ CommitTraps) /\ records' \subseteq records
         \/ Database /\ Rejects /\ records' \subseteq records
         \/ (Launch \/ Reinstall \/ LoadSession \/ Database \/ UNCHANGED vars) /\ records' = records
  PROVE  Abstract!Next \/ UNCHANGED absVars
<1>1. CASE (Kill \/ CommitTraps) /\ records' \subseteq records
  <2>1. modal' = "none" /\ flow'.pc = "idle" /\ keychain' \in {keychain, None}
    BY <1>1 DEF Kill, CommitTraps, Dies, FreshProcess, Idle
  <2>2. stage' = "none" /\ owner' = None /\ student' = None
    BY <2>1, StagesNext
  <2>3. Abstract!Abandon
    BY <1>1, <2>1, <2>2 DEF Abstract!Abandon
  <2> QED BY <2>3 DEF Abstract!Next
<1>2. CASE Database /\ Rejects /\ records' \subseteq records
  <2>1. flow' = flow /\ modal' = modal /\ keychain' = keychain
    BY <1>2 DEF Database, authVars, appVars
  <2>2. Abstract!Reject
    BY <1>2, <2>1, SameStage DEF Abstract!Reject
  <2> QED BY <2>2 DEF Abstract!Next
<1>3. CASE (Launch \/ Reinstall \/ LoadSession \/ Database \/ UNCHANGED vars) /\ records' = records
  <2>1. flow' = flow /\ modal' = modal /\ keychain' = keychain
    BY <1>3 DEF Launch, Reinstall, LoadSession, KeychainLoad, Database, vars, authVars, appVars
  <2> QED BY <1>3, <2>1, SameStage DEF absVars
<1> QED BY <1>1, <1>2, <1>3

(* Every step of the app is one of a registration, or is not seen. *)
LEMMA NextRegisters ==
  ASSUME TypeOK, FlowInv, LoginInv, RestoreInv, [Next]_vars
  PROVE  Abstract!Next \/ UNCHANGED absVars
<1> USE DEF LoginInv, RestoreInv
<1>0. TypeOK'
  BY NextTyped
<1>1. CASE FlowStep
  <2>1. records' = records
    BY <1>1, FlowStepFrame DEF records, studentsVars
  <2> QED BY <1>0, <1>1, <2>1, FlowStepRegisters
<1>2. CASE UserStep
  <2>1. IF Committed THEN records' = records \cup {authUser} ELSE records' = records
    <3>1. ~Committed => UNCHANGED <<students, pending, dbQ>>
      BY <1>2 DEF UserStep, LoginAccepted, Logout, CreateAnswered, RestoreAccepted, studentsVars
    <3>2. ~Committed => records' = records
      BY <3>1 DEF records
    <3>3. Committed => records' = records \cup {authUser}
      BY RecordsWritten
    <3> QED BY <3>2, <3>3
  <2> QED BY <1>0, <1>2, <2>1, UserStepRegisters
<1>3. CASE MainThread
  <2>1. records' = records
    BY <1>3, RecordsInMain
  <2> QED BY <1>0, <1>3, <2>1, BlockRegisters
<1>4. CASE Kill \/ CommitTraps
  <2>1. \/ records' \subseteq records
        \/ CommitTraps /\ keychain' = None /\ records' \subseteq records \cup {authUser}
    BY <1>4, RecordsMove DEF Kill, CommitTraps, Dies, Committed
  <2> QED BY <1>0, <1>4, <2>1, DeviceRegisters, CutShortRegisters
<1>5. CASE Launch \/ Reinstall \/ LoadSession \/ Database \/ UNCHANGED vars
  <2>1. CASE Database
    <3>1. records' = records \/ (Rejects /\ records' \subseteq records)
      BY <2>1, RecordsAtWorker
    <3> QED BY <1>0, <2>1, <3>1, DeviceRegisters
  <2>2. CASE Launch \/ Reinstall \/ LoadSession \/ UNCHANGED vars
    <3>1. UNCHANGED <<students, pending, dbQ>>
      BY <2>2 DEF Launch, Reinstall, LoadSession, vars, studentsVars
    <3>2. records' = records
      BY <3>1 DEF records
    <3> QED BY <1>0, <2>2, <3>2, DeviceRegisters
  <2> QED BY <1>5, <2>1, <2>2
<1> QED BY <1>1, <1>2, <1>3, <1>4, <1>5, NextSteps

(* The device starts where a registration may. *)
LEMMA InitRegisters == Init => Abstract!Init
<1>1. SUFFICES ASSUME Init PROVE Abstract!Init
  OBVIOUS
<1>2. stage = "none" /\ owner = None /\ student = None
  BY <1>1, InitTyped, Stages DEF Init, Idle
<1>3. records \subseteq Account /\ keychain \in Account \cup {None}
  <2>1. \A u : u \in records <=> u \in students
    BY <1>1, ShortRanges, RecordPlaces DEF Init, Calls
  <2> QED BY <1>1, <2>1, SessionAssumption DEF Init
<1> QED BY <1>2, <1>3 DEF Abstract!Init

(* The app registers students as Registration says: whatever the screens   *)
(* and listeners of the app's past do, the session changes hands in that   *)
(* order, the record is written as its owner, and nothing is announced out *)
(* of turn.                                                                *)
THEOREM RegistersStudents == Spec => IsRegistration
<1>1. TypeOK /\ FlowInv /\ LoginInv /\ RestoreInv /\ [Next]_vars => [Abstract!Next]_absVars
  BY NextRegisters
<1>2. absVars = Abstract!vars
  BY DEF absVars, Abstract!vars
<1> QED BY <1>1, <1>2, InitRegisters, RestoreInductive, PTL
    DEF Spec, IsRegistration, Abstract!Spec, absVars, Abstract!vars

-----------------------------------------------------------------------------
(* The screen in the user's hands: the profile and the saved password *)

(* The records on their way to a listener are those of u; of None: there   *)
(* is none.                                                                *)
OnlyFor(u) ==
  /\ \A b \in Queued : b.do = "added" => b.uid = u
  /\ \A o \in waiting : o.uid \in records => o.uid = u
  /\ \A c \in Calls : c.op = "observe" /\ c.uid \in records => c.uid = u

(* The client sees only records that are there or on their way. *)
LEMMA ViewRecorded == view \subseteq records
BY RecordPlaces DEF view

(* No record on its way is one of anybody's. *)
LEMMA NoneForAny ==
  ASSUME TypeOK, OnlyFor(None), NEW u
  PROVE  OnlyFor(u) /\ \A b \in Queued : b.do # "added"
<1>1. Queued \subseteq Block /\ Calls \subseteq DbCall /\ waiting \subseteq Observer
  BY RangeOfSeq DEF Queued, Calls, TypeOK, StudentsTypeOK
<1>2. \A b \in Queued : b.do # "added"
  BY <1>1, NoneIsNoAccount DEF OnlyFor, Block
<1>3. \A o \in waiting : o.uid \notin records
  BY <1>1, NoneIsNoAccount DEF OnlyFor, Observer
<1>4. \A c \in Calls : c.op = "observe" => c.uid \notin records
  BY <1>1, NoneIsNoAccount DEF OnlyFor, DbCall
<1> QED BY <1>2, <1>3, <1>4 DEF OnlyFor

(* No step but the writing of a record brings others, as long as no        *)
(* listener asks for another.                                              *)
LEMMA OnlyForKept ==
  ASSUME TypeOK, FlowInv, [Next]_vars, alive' = alive, NEW u, OnlyFor(u), ~Committed,
         Calls' \subseteq Calls \/ authUser = u \/ authUser \notin records
  PROVE  OnlyFor(u)'
<1>1. records' \subseteq records
  <2>1. ~CommitTraps
    BY DEF CommitTraps, At, Dies
  <2> QED BY <2>1, RecordsMove
<1>2. ASSUME NEW b \in Queued', b.do = "added" PROVE b.uid = u
  <2>1. CASE b \in Queued
    BY <1>2, <2>1 DEF OnlyFor
  <2>2. CASE b \notin Queued
    <3>1. PICK o \in due : b = Added(o.who, o.uid)
      BY <1>2, <2>2, NewBlocks DEF First, Notify, Reply
    <3>2. o \in waiting /\ o.uid \in records /\ b.uid = o.uid
      BY <3>1, ViewRecorded DEF due, Added
    <3> QED BY <3>2 DEF OnlyFor
  <2> QED BY <2>1, <2>2
<1>3. ASSUME NEW o \in waiting', o.uid \in records' PROVE o.uid = u
  <2>1. CASE o \in waiting
    BY <1>1, <1>3, <2>1 DEF OnlyFor
  <2>2. CASE o \notin waiting
    <3>1. PICK c \in Calls : c.op = "observe" /\ o = [who |-> c.who, uid |-> c.uid]
      BY <2>2, NewWaiting
    <3> QED BY <1>1, <1>3, <3>1 DEF OnlyFor
  <2> QED BY <2>1, <2>2
<1>4. ASSUME NEW c \in Calls', c.op = "observe", c.uid \in records' PROVE c.uid = u
  <2>1. CASE c \in Calls
    BY <1>1, <1>4, <2>1 DEF OnlyFor
  <2>2. CASE c \notin Calls
    <3>1. c = Observe(Head(mainQ).who, authUser)
      BY <2>2, NewCalls
    <3>2. c.uid = authUser
      BY <3>1 DEF Observe
    <3>3. ~ (Calls' \subseteq Calls)
      BY <2>2
    <3> QED BY <1>1, <1>4, <3>2, <3>3
  <2> QED BY <2>1, <2>2
<1> QED BY <1>2, <1>3, <1>4 DEF OnlyFor

(* A splash screen's listener is on a splash screen. *)
SplashPlace ==
  \A i \in DOMAIN listeners : listeners[i].kind = "loading" => stack[listeners[i].at] = "Loading"

(* Every step keeps a splash screen's listener on its screen. *)
LEMMA NextSplashPlace ==
  ASSUME TypeOK, FlowInv, DeadInv, PlaceInv, SplashPlace, [Next]_vars
  PROVE  SplashPlace'
<1>1. CASE alive' = alive
  <2>1. ASSUME NEW i \in DOMAIN listeners, listeners'[i].kind = "loading"
        PROVE  stack'[listeners'[i].at] = "Loading"
    <3>1. listeners'[i].kind = listeners[i].kind /\ listeners'[i].at = listeners[i].at
      BY <1>1, ListenersStay
    <3>2. listeners[i].at \in DOMAIN stack /\ stack[listeners[i].at] = "Loading"
      BY <2>1, <3>1 DEF PlaceInv, SplashPlace
    <3> QED BY <1>1, <3>1, <3>2, ScreensStay
  <2>2. CASE listeners' = listeners \/ Call(Head(mainQ).who)
    <3>1. DOMAIN listeners' = DOMAIN listeners
      BY <2>2, CallTells
    <3> QED BY <2>1, <3>1 DEF SplashPlace
  <2>3. CASE RunSignedIn /\ AddListener("loading", Len(stack) + 1)
    <3>1. Len(stack) + 1 \in Nat /\ stack' = Append(stack, "Loading") /\ stack \in Seq(Screen)
      BY <2>3 DEF RunSignedIn, TypeOK
    <3>2. stack'[Len(stack) + 1] = "Loading"
      BY <3>1, AppendProperties DEF Screen
    <3>3. /\ \A i \in DOMAIN listeners' : i \in DOMAIN listeners \/ i = Len(listeners) + 1
          /\ listeners'[Len(listeners) + 1] = NewListener("loading", Len(stack) + 1)
      BY <2>3, <3>1, ListenerAdded
    <3> QED BY <2>1, <3>2, <3>3 DEF SplashPlace, NewListener
  <2>4. CASE RunRestored /\ AddListener("form", Len(stack))
    <3>1. Len(stack) \in Nat
      BY DEF TypeOK
    <3>2. /\ \A i \in DOMAIN listeners' : i \in DOMAIN listeners \/ i = Len(listeners) + 1
          /\ listeners'[Len(listeners) + 1] = NewListener("form", Len(stack))
      BY <2>4, <3>1, ListenerAdded
    <3> QED BY <2>1, <3>2 DEF SplashPlace, NewListener
  <2> QED BY <1>1, <2>2, <2>3, <2>4, ListenersGrow
<1>2. CASE Kill \/ CommitTraps
  <2>1. DOMAIN listeners' = {}
    BY <1>2 DEF Kill, CommitTraps, Dies
  <2> QED BY <2>1 DEF SplashPlace
<1>3. CASE Launch
  <2>1. listeners' = <<NewListener("loading", 1)>> /\ stack' = <<"Loading">>
    BY <1>3 DEF Launch
  <2> QED BY <2>1 DEF SplashPlace, NewListener
<1> QED BY <1>1, <1>2, <1>3, ProcessSteps

(* The screens that a step may bring to the top. *)
LEMMA TopMoves ==
  ASSUME TypeOK, PlaceInv, SplashPlace, [Next]_vars, alive, alive' = alive
  PROVE  \/ stack' = stack /\ Top' = Top
         \/ /\ RunAddedLoading /\ Top = "Loading" /\ Top' = "Main"
            /\ listeners[Head(mainQ).who].at = Len(stack)
         \/ /\ RunFirst \/ RunNotify
            /\ Call(Head(mainQ).who) /\ authUser = None /\ Top = "Loading" /\ Top' = "Login"
         \/ RunSignedIn /\ stack' = Append(stack, "Loading") /\ Top' = "Loading"
         \/ Logout /\ Top = "Main" /\ Top' = "Login"
<1>1. stack \in Seq(Screen)
  BY DEF TypeOK
<1>2. ASSUME NEW x \in Screen, stack' = Append(stack, x) PROVE Top' = x
  <2>1. Len(stack') = Len(stack) + 1 /\ stack'[Len(stack) + 1] = x
    BY <1>1, <1>2, AppendProperties
  <2> QED BY <2>1 DEF Top
<1>3. CASE stack' = stack
  BY <1>3 DEF Top
<1>4. CASE RunFirst \/ RunNotify
  <2>1. PICK k : k = Head(mainQ).who
    OBVIOUS
  <2>2. Call(k)
    BY <1>4, <2>1 DEF RunFirst, RunNotify
  <2>3. k \in DOMAIN listeners
    <3>1. Head(mainQ) \in Queued /\ Head(mainQ).do \in {"first", "notify"}
      BY <1>4, MainThreadTakesOne DEF MainThread, RunFirst, RunNotify, Runs
    <3> QED BY <2>1, <3>1 DEF PlaceInv
  <2>4. CASE stack' # stack
    <3>1. /\ authUser = None /\ listeners[k].kind = "loading" /\ listeners[k].at = Len(stack)
          /\ stack' = Append(stack, "Login")
      BY <2>2, <2>4 DEF Call, GotoScreen, MayPresent
    <3>2. Top = "Loading"
      BY <2>3, <3>1 DEF SplashPlace, Top
    <3> QED BY <1>2, <1>4, <2>1, <2>2, <3>1, <3>2 DEF Screen
  <2> QED BY <1>3, <2>4
<1>5. CASE RunAddedLoading /\ stack' # stack
  <2>1. PICK k : k = Head(mainQ).who
    OBVIOUS
  <2>2. k \in DOMAIN listeners /\ listeners[k].kind = "loading"
    <3>1. Head(mainQ) \in Queued /\ Head(mainQ).do = "added"
      BY <1>5, MainThreadTakesOne DEF MainThread, RunAddedLoading, Runs
    <3> QED BY <1>5, <2>1, <3>1 DEF PlaceInv, RunAddedLoading
  <2>3. listeners[k].at = Len(stack) /\ stack' = Append(stack, "Main")
    BY <1>5, <2>1 DEF RunAddedLoading, GotoScreen, MayPresent
  <2>4. Top = "Loading"
    BY <2>2, <2>3 DEF SplashPlace, Top
  <2> QED BY <1>2, <1>5, <2>1, <2>3, <2>4 DEF Screen
<1>6. CASE RunSignedIn \/ Logout
  BY <1>2, <1>6 DEF RunSignedIn, Logout, Tappable, Screen
<1>7. CASE RunAddedForm \/ RunSignedUp \/ RunRestored
  BY <1>3, <1>7 DEF RunAddedForm, RunSignedUp, RunRestored
<1>8. CASE FlowStep \/ UserStep
  BY <1>3, <1>6, <1>8, FlowStepFrame, UserStepFrame
<1>9. CASE Reinstall \/ LoadSession \/ Database \/ UNCHANGED vars
  BY <1>3, <1>9 DEF Reinstall, LoadSession, Database, vars, appVars
<1>10. ~Launch /\ ~Kill /\ ~CommitTraps
  BY DEF Launch, Kill, CommitTraps, Dies
<1> QED BY <1>3, <1>4, <1>5, <1>6, <1>7, <1>8, <1>9, <1>10, NextSteps DEF MainThread

(* Until the keychain has been read the first screen waits. *)
FreshInv == alive /\ ~loaded => Len(stack) = 1 /\ listeners[1].prev = Unset

(* Where the keychain comes first the main thread waits for it. *)
LEMMA UnreadWaits ==
  ASSUME TypeOK, UnreadInv, KeychainFirst = TRUE, alive, ~loaded
  PROVE  ~MainThread
<1>1. SUFFICES ASSUME MainThread PROVE FALSE
  OBVIOUS
<1>2. Head(mainQ) = First(1)
  BY <1>1, MainThreadTakesOne DEF UnreadInv
<1>3. Head(mainQ).do = "first"
  BY <1>2 DEF First
<1>4. RunFirst
  BY <1>1, <1>3 DEF MainThread, RunNotify, RunAddedLoading, RunAddedForm, RunSignedIn, RunSignedUp,
     RunRestored, Runs
<1> QED BY <1>4 DEF RunFirst

(* Every step keeps the first screen waiting. *)
LEMMA NextFresh ==
  ASSUME TypeOK, DeadInv, UnreadInv, FreshInv, [Next]_vars, KeychainFirst = TRUE
  PROVE  FreshInv'
<1>1. CASE FlowStep
  BY <1>1, FlowStepFrame DEF FreshInv
<1>2. CASE UserStep
  BY <1>2, UserStepFrame DEF FreshInv
<1>3. CASE MainThread
  <2>1. alive /\ loaded
    BY <1>3, DeadStep, UnreadWaits
  <2>2. loaded' = loaded
    BY <1>3 DEF MainThread, RunFirst, RunNotify, Call, RunAddedLoading, RunAddedForm, RunSignedIn,
       RunSignedUp, RunRestored, authVars
  <2> QED BY <2>1, <2>2 DEF FreshInv
<1>4. CASE Launch
  <2>1. stack' = <<"Loading">> /\ listeners' = <<NewListener("loading", 1)>>
    BY <1>4 DEF Launch
  <2> QED BY <2>1 DEF FreshInv, NewListener
<1>5. CASE Kill \/ CommitTraps
  <2>1. ~alive'
    BY <1>5 DEF Kill, CommitTraps, Dies
  <2> QED BY <2>1 DEF FreshInv
<1>6. CASE Reinstall
  BY <1>6 DEF Reinstall, FreshInv
<1>7. CASE LoadSession
  BY <1>7 DEF LoadSession, KeychainLoad, FreshInv
<1>8. CASE Database \/ UNCHANGED vars
  BY <1>8 DEF Database, vars, authVars, appVars, FreshInv
<1> QED BY <1>1, <1>2, <1>3, <1>4, <1>5, <1>6, <1>7, <1>8, NextSteps

(* In a login, the answer runs behind every block that tells a listener of *)
(* the new user, as that of a restored sign-in does.                       *)
SignedInBlocks == {b \in Block : b.do = "signedIn"}
ToldBlocks     == {b \in Block : b.do \in {"first", "notify", "signedIn"}}

SignInInv ==
  /\ \A b \in Queued : b.do = "signedIn" => flow.pc = "signedIn"
  /\ NoneBehind(SignedInBlocks, ToldBlocks)

(* The steps taken while the answer of a login is on its way. *)
LEMMA WhileSignedIn ==
  ASSUME TypeOK, FlowInv, SigningInv, UnreadInv, [Next]_vars, alive' = alive,
         flow.pc = "signedIn"
  PROVE  /\ alive /\ loaded
         /\ \/ RunFirst \/ RunNotify \/ RunAddedLoading \/ RunAddedForm \/ RunSignedIn
            \/ Database \/ UNCHANGED vars
<1>1. ~FlowStep
  BY SignedInStays
<1>2. alive /\ Top = "Login" /\ loaded
  BY DEF SigningInv, UnreadInv
<1>3. ~UserStep
  BY <1>2, UserStepPath DEF Registering
<1>4. ~Launch /\ ~Kill /\ ~CommitTraps /\ ~Reinstall /\ ~LoadSession
  BY <1>2 DEF Launch, Kill, CommitTraps, Dies, Reinstall, LoadSession, KeychainLoad
<1>5. ~RunSignedUp /\ ~RunRestored
  BY DEF RunSignedUp, RunRestored, At
<1> QED BY <1>1, <1>2, <1>3, <1>4, <1>5, NextSteps DEF MainThread

(* When the answer of a login runs nobody is left to be told. *)
LEMMA SignInComesLast ==
  ASSUME TypeOK, SignInInv, RunSignedIn
  PROVE  /\ Queued \cap ToldBlocks = {Head(mainQ)} /\ Head(mainQ).do = "signedIn"
         /\ \A b \in Queued' : b.do # "signedIn"
<1>1. /\ mainQ \in Seq(Block) /\ mainQ # <<>> /\ Head(mainQ) \in Block
      /\ Head(mainQ).do = "signedIn"
  BY HeadTyped DEF MainThread, TypeOK, RunSignedIn, Runs
<1>2. Head(mainQ) \in SignedInBlocks /\ Head(mainQ) \in ToldBlocks
  BY <1>1 DEF SignedInBlocks, ToldBlocks
<1>3. Range(Tail(mainQ)) \cap ToldBlocks = {}
  BY <1>1, <1>2, FirstHasNone DEF SignInInv
<1>4. Len(listeners) + 1 \in Nat
  BY DEF TypeOK, AuthTypeOK
<1>5. <<First(Len(listeners) + 1)>> \in Seq(Block) /\ Done(<<First(Len(listeners) + 1)>>)
  BY <1>4, BlocksTyped DEF RunSignedIn
<1>6. /\ Queued = {Head(mainQ)} \cup Range(Tail(mainQ))
      /\ Queued' = Range(Tail(mainQ)) \cup Range(<<First(Len(listeners) + 1)>>)
  BY <1>1, <1>5, QueuedOnDone
<1>7. Range(Tail(mainQ)) \subseteq Block
  BY <1>1, TailTyped, RangeOfSeq
<1>8. \A b \in Range(Tail(mainQ)) : b.do # "signedIn"
  BY <1>3, <1>7 DEF ToldBlocks
<1>9. Range(<<First(Len(listeners) + 1)>>) = {First(Len(listeners) + 1)}
      /\ First(Len(listeners) + 1).do = "first"
  BY ShortRanges DEF First
<1> QED BY <1>1, <1>2, <1>3, <1>6, <1>8, <1>9

(* A login appends its answer behind its notification. *)
LEMMA SignInAppended ==
  ASSUME TypeOK, LoginAccepted, Queued \cap SignedInBlocks = {}
  PROVE  NoneBehind(SignedInBlocks, ToldBlocks)'
<1>1. PICK a : a = Announce(flow.email)
  OBVIOUS
<1>2. PICK r : r = <<Reply("signedIn")>>
  OBVIOUS
<1>3. a \in Seq(Block) /\ r \in Seq(Block) /\ Len(r) = 1
  BY <1>1, <1>2, AnnounceTyped, BlocksTyped
<1>4. Range(a) \subseteq {Notify(1)}
  BY <1>1, ShortRanges DEF Announce
<1>5. /\ a \o r \in Seq(Block) /\ Len(a \o r) = Len(a) + Len(r)
      /\ \A i \in 1 .. Len(a) + Len(r) :
           (a \o r)[i] = IF i <= Len(a) THEN a[i] ELSE r[i - Len(a)]
  BY <1>3, ConcatProperties
<1>6. \A i \in DOMAIN (a \o r) : i < Len(a \o r) => (a \o r)[i] \notin SignedInBlocks
  <2>1. SUFFICES ASSUME NEW i \in DOMAIN (a \o r), i < Len(a \o r)
                 PROVE  (a \o r)[i] \notin SignedInBlocks
    OBVIOUS
  <2>2. Len(a) \in Nat /\ DOMAIN a = 1 .. Len(a) /\ DOMAIN (a \o r) = 1 .. Len(a) + 1
    BY <1>3, <1>5
  <2>3. i \in DOMAIN a /\ (a \o r)[i] = a[i]
    BY <1>3, <1>5, <2>1, <2>2
  <2>4. a[i] \in Range(a)
    BY <2>3 DEF Range
  <2> QED BY <1>4, <2>3, <2>4 DEF SignedInBlocks, Notify
<1>7. Dispatch(a \o r)
  BY <1>1, <1>2 DEF LoginAccepted
<1> QED BY <1>5, <1>6, <1>7, LastHasNone DEF TypeOK

(* Only a login dispatches its answer. *)
LEMMA SignInOfLogin ==
  ASSUME TypeOK, FlowInv, [Next]_vars, alive' = alive, NEW b \in Queued', b \notin Queued,
         b.do = "signedIn"
  PROVE  LoginAccepted
<1>1. UserStep /\ \E name \in {"signedUp", "signedIn", "restored"} : b = Reply(name)
  BY NewBlocks DEF Added, First, Notify
<1>2. b = Reply("signedIn")
  BY <1>1 DEF Reply
<1>3. mainQ \in Seq(Block)
  BY DEF TypeOK
<1>4. ASSUME Logout \/ Committed PROVE FALSE
  <2>1. Dispatch(Announce(None))
    BY <1>4 DEF Logout, Committed
  <2>2. Queued' = Queued \cup Range(Announce(None))
    BY <1>3, <2>1, AnnounceTyped, QueuedOnDispatch
  <2>3. Range(Announce(None)) \subseteq {Notify(1)}
    BY ShortRanges DEF Announce
  <2> QED BY <1>2, <2>2, <2>3 DEF Reply, Notify
<1>5. ASSUME NEW u, NEW name \in {"signedUp", "restored"}, Dispatch(Announce(u) \o <<Reply(name)>>)
      PROVE  FALSE
  <2>1. <<Reply(name)>> \in Seq(Block) /\ Announce(u) \in Seq(Block)
    BY AnnounceTyped, BlocksTyped
  <2>2. PICK bs : bs = Announce(u) \o <<Reply(name)>>
    OBVIOUS
  <2>3. bs \in Seq(Block) /\ Range(bs) = Range(Announce(u)) \cup Range(<<Reply(name)>>)
    BY <2>1, <2>2, BlocksJoined
  <2>4. Queued' = Queued \cup Range(bs)
    BY <1>3, <1>5, <2>2, <2>3, QueuedOnDispatch
  <2>5. Range(Announce(u)) \subseteq {Notify(1)}
    BY ShortRanges DEF Announce
  <2> QED BY <1>2, <2>3, <2>4, <2>5, ShortRanges DEF Reply, Notify
<1>6. ~CreateAnswered /\ ~RestoreAccepted
  BY <1>5 DEF CreateAnswered, RestoreAccepted
<1> QED BY <1>1, <1>4, <1>6 DEF UserStep

(* Every step keeps the answer of a login behind the others. *)
LEMMA NextSignIn ==
  ASSUME TypeOK, FlowInv, DeadInv, SigningInv, UnreadInv, SignInInv, [Next]_vars
  PROVE  SignInInv'
<1>1. CASE alive' = alive /\ LoginAccepted
  <2>1. flow.pc = "signingIn" /\ flow'.pc = "signedIn"
    BY <1>1 DEF LoginAccepted, At, Goes, TypeOK, Flow
  <2>2. Queued \cap SignedInBlocks = {}
    BY <2>1 DEF SignInInv, SignedInBlocks
  <2> QED BY <1>1, <2>1, <2>2, SignInAppended DEF SignInInv
<1>2. CASE alive' = alive /\ ~LoginAccepted
  <2>1. \A b \in Queued' : b.do = "signedIn" => b \in Queued
    BY <1>2, SignInOfLogin
  <2>2. CASE \A b \in Queued' : b.do # "signedIn"
    <3>1. Queued' \cap SignedInBlocks = {}
      BY <2>2 DEF SignedInBlocks
    <3> QED BY <2>2, <3>1, NoneThere DEF SignInInv
  <2>3. CASE \E b \in Queued' : b.do = "signedIn"
    <3>1. flow.pc = "signedIn"
      BY <2>1, <2>3 DEF SignInInv
    <3>2. ~RunSignedIn
      BY <2>3, SignInComesLast
    <3>3. RunFirst \/ RunNotify \/ RunAddedLoading \/ RunAddedForm \/ Database \/ UNCHANGED vars
      BY <1>2, <3>1, <3>2, WhileSignedIn
    <3>4. flow' = flow
      BY <3>1, <3>3 DEF RunFirst, RunNotify, Call, RunAddedLoading, RunAddedForm, OwnSpinner,
         Database, vars, appVars
    <3>5. \A i \in Nat, u \in Account : Added(i, u) \notin ToldBlocks
      BY DEF Added, ToldBlocks
    <3>6. \A b \in SignedInBlocks : b.do # "notify"
      BY DEF SignedInBlocks
    <3>7. NoneBehind(SignedInBlocks, ToldBlocks)'
      BY <3>3, <3>5, <3>6, OrderKept DEF SignInInv
    <3> QED BY <2>1, <3>1, <3>4, <3>7 DEF SignInInv
  <2> QED BY <2>2, <2>3
<1>3. CASE Kill \/ CommitTraps \/ Launch
  <2>1. Queued' \subseteq {First(1)}
    BY <1>3, ShortRanges DEF Kill, CommitTraps, Dies, Launch, Queued
  <2>2. \A b \in Queued' : b.do # "signedIn"
    BY <2>1 DEF First
  <2>3. Queued' \cap SignedInBlocks = {}
    BY <2>2 DEF SignedInBlocks
  <2> QED BY <2>2, <2>3, NoneThere DEF SignInInv
<1> QED BY <1>1, <1>2, <1>3, ProcessSteps

-----------------------------------------------------------------------------
(* The login form, and the login on its way. *)
OwnSignIn == flow.pc = "signedIn" => authUser = flow.email /\ OnlyFor(authUser)

SignedOut ==
  alive /\ Top = "Login" /\ flow.pc # "signedIn" => loaded /\ authUser = None /\ OnlyFor(None)

(* Every step keeps the login on its way the session's. *)
LEMMA NextOwnSignIn ==
  ASSUME TypeOK, FlowInv, DeadInv, SigningInv, UnreadInv, OwnSignIn, SignedOut, [Next]_vars
  PROVE  OwnSignIn'
<1>1. SUFFICES ASSUME flow'.pc = "signedIn" PROVE authUser' = flow'.email /\ OnlyFor(authUser)'
  BY DEF OwnSignIn
<1>2. alive' = alive
  <2>1. CASE Kill \/ CommitTraps
    BY <1>1, <2>1 DEF Kill, CommitTraps, Dies, FreshProcess, Idle
  <2>2. CASE Launch
    BY <1>1, <2>2 DEF Launch, DeadInv, Idle
  <2> QED BY <2>1, <2>2, ProcessSteps
<1>3. CASE LoginAccepted
  <2>1. flow.pc = "signingIn" /\ authUser' = flow.email /\ flow'.email = flow.email
    BY <1>3 DEF LoginAccepted, At, BecomeUser, Goes, TypeOK, Flow
  <2>2. OnlyFor(None)
    BY <2>1 DEF SigningInv, SignedOut
  <2>3. Calls' = Calls /\ ~Committed
    BY <1>3, <2>1 DEF LoginAccepted, studentsVars, Calls, Committed, At
  <2>4. OnlyFor(flow.email)
    BY <2>2, NoneForAny
  <2>5. OnlyFor(flow.email)'
    <3>1. PICK u : u = flow.email
      OBVIOUS
    <3>2. OnlyFor(u)
      BY <2>4, <3>1
    <3>3. OnlyFor(u)'
      BY <1>2, <2>3, <3>2, OnlyForKept
    <3> QED BY <2>1, <3>1, <3>3
  <2> QED BY <2>1, <2>5
<1>4. CASE ~LoginAccepted
  <2>1. flow.pc = "signedIn"
    <3>1. CASE FlowStep
      BY <1>1, <3>1, FlowStepPath
    <3>2. CASE UserStep
      BY <1>1, <1>4, <3>2, UserStepPath DEF Registering
    <3>3. CASE MainThread
      <4>1. CASE flow.pc = "idle"
        BY <1>1, <3>3, <4>1, MainThreadIdle
      <4> QED BY <1>1, <3>3, <4>1, MainThreadCovered
    <3>4. CASE Reinstall \/ LoadSession \/ Database \/ UNCHANGED vars
      BY <1>1, <3>4 DEF Reinstall, LoadSession, Database, vars, appVars
    <3>5. ~Launch /\ ~Kill /\ ~CommitTraps
      BY <1>2 DEF Launch, Kill, CommitTraps, At, Dies
    <3> QED BY <3>1, <3>2, <3>3, <3>4, <3>5, NextSteps
  <2>2. RunFirst \/ RunNotify \/ RunAddedLoading \/ RunAddedForm \/ RunSignedIn \/ Database \/ UNCHANGED vars
    BY <1>2, <2>1, WhileSignedIn
  <2>3. ~RunSignedIn /\ ~Committed
    BY <1>1, <2>1 DEF RunSignedIn, Idle, Committed, At
  <2>4. flow' = flow /\ authUser' = authUser
    BY <2>1, <2>2, <2>3 DEF RunFirst, RunNotify, Call, RunAddedLoading, RunAddedForm, OwnSpinner,
       Database, vars, authVars, appVars
  <2>5. PICK u : u = authUser
    OBVIOUS
  <2>6. OnlyFor(u)'
    BY <1>2, <2>1, <2>3, <2>5, OnlyForKept DEF OwnSignIn
  <2> QED BY <2>1, <2>4, <2>5, <2>6 DEF OwnSignIn
<1> QED BY <1>3, <1>4

(* The splash screen on top waits for the record of the session.  Its      *)
(* listener, the newest, is the last to be told of the user, to ask for    *)
(* the record, to observe it and to have it: until the server's data has   *)
(* come its observer may wait with others, which are raised first.         *)
Observed(i) == listeners[i].prev = authUser /\ NoAdded(i) /\ dbQ = <<>>

Brought(i) == synced /\ Answered(i)

Comes(i) == Untold(i) \/ Asked(i) \/ Observed(i) \/ Brought(i)

Expects(i) ==
  /\ i \in DOMAIN listeners /\ i = Len(listeners)
  /\ listeners[i].kind = "loading" /\ listeners[i].at = Len(stack)
  /\ \A j \in DOMAIN listeners : j # i => listeners[j].prev = authUser /\ listeners[j].at # Len(stack)
  /\ Comes(i)

SplashInv ==
  alive /\ Top = "Loading" =>
    modal = "none" /\ OnlyFor(authUser) /\ \E i \in Nat : Expects(i)

(* The main screen in hand: no record is on its way, and the session is    *)
(* that of the profile or has no record, in which case a listener that     *)
(* asks for one waits for ever.                                            *)
InHand == {"idle", "confirm"} \cup Creating

MainInv ==
  alive /\ Top = "Main" /\ flow.pc \in InHand =>
    /\ OnlyFor(None)
    /\ flow.pc # "idle" => flow.email = currentUser
    /\ authUser = currentUser \/ authUser \notin records
    /\ authUser \in records => \A i \in DOMAIN listeners : listeners[i].prev = authUser

(* The steps of a splash screen. *)
LEMMA WhileLoading ==
  ASSUME TypeOK, FlowInv, SigningInv, SplashInv, [Next]_vars, alive, alive' = alive, Top = "Loading"
  PROVE  /\ flow.pc = "idle"
         /\ \/ RunFirst \/ RunNotify \/ RunAddedLoading \/ RunAddedForm
            \/ LoadSession \/ Database \/ UNCHANGED vars
<1>1. modal = "none" /\ flow.pc = "idle"
  BY DEF SplashInv, FlowInv
<1>2. ~FlowStep
  BY <1>1 DEF FlowStep, LoginTap, LoginRefused, DismissAlert, TapDone, ConfirmDropped, ConfirmOk,
     CreateAtServer, CreateFailed, UploadFailed, Uploaded, UrlAnswered, CommitFailed,
     RestoreRefused, At, Tappable, Answerable
<1>3. ~UserStep
  BY <1>1 DEF UserStep, LoginAccepted, Logout, CreateAnswered, Committed, RestoreAccepted, At,
     Tappable
<1>4. ~Launch /\ ~Kill /\ ~CommitTraps /\ ~Reinstall
  BY DEF Launch, Kill, CommitTraps, Dies, Reinstall
<1>5. ~RunSignedIn /\ ~RunSignedUp /\ ~RunRestored
  BY <1>1 DEF RunSignedIn, RunSignedUp, RunRestored, At
<1> QED BY <1>1, <1>2, <1>3, <1>4, <1>5, NextSteps DEF MainThread

(* What the worker does brings the record nearer, ... *)
LEMMA WorkerBrings ==
  ASSUME TypeOK, PlaceInv, SyncedInv, [Next]_vars, alive' = alive, NEW i \in Nat, Database,
         i = Len(listeners), OnlyFor(authUser), Comes(i)
  PROVE  Comes(i)'
<1>1. UNCHANGED <<listeners, authUser>>
  BY DEF Database, authVars
<1>2. CASE Untold(i)
  BY <1>2, UntoldAtWorker DEF Comes
<1>3. CASE Asked(i)
  <2>1. CASE RunObserve \/ RunSetValue
    BY <1>1, <1>3, <2>1, AskedTaken DEF Comes, Observing, Observed
  <2>2. CASE ~RunObserve /\ ~RunSetValue
    <3>1. dbQ' = dbQ /\ waiting' \subseteq waiting
      BY <2>2 DEF Database, Raise, Sync, PushAccepted, PushRejected
    <3>2. NoAdded(i)'
      BY <1>3, NoneAdded DEF Asked
    <3> QED BY <1>1, <1>3, <3>1, <3>2 DEF Comes, Asked, NoWaiting
  <2> QED BY <2>1, <2>2
<1>4. CASE Observed(i)
  <2>1. ~RunObserve /\ ~RunSetValue
    BY <1>4 DEF Observed, RunObserve, RunSetValue, NextCall
  <2>2. CASE Raise
    <3>1. PICK o \in due : /\ \A p \in due : p.uid = o.uid => o.who <= p.who
                           /\ Dispatch(<<Added(o.who, o.uid)>>) /\ dbQ' = dbQ
      BY <2>2 DEF Raise
    <3>2. \A p \in due : p \in waiting /\ p.uid \in records /\ p \in Observer
      BY ViewRecorded DEF due, TypeOK, StudentsTypeOK
    <3>3. \A p \in due : p.uid = authUser
      BY <3>2 DEF OnlyFor
    <3>4. CASE o.who # i
      <4>1. PICK a : a = Added(o.who, o.uid)
        OBVIOUS
      <4>2. a \in Block /\ a.who # i
        BY <3>2, <3>4, <4>1, BlocksTyped DEF Added, Observer
      <4>3. Dispatch(<<a>>) /\ <<a>> \in Seq(Block)
        BY <3>1, <4>1, <4>2
      <4>4. Queued' = Queued \cup Range(<<a>>)
        BY <4>3, QueuedOnDispatch DEF TypeOK
      <4>5. NoAdded(i)'
        BY <1>4, <4>2, <4>4, ShortRanges DEF Observed, NoAdded
      <4> QED BY <1>1, <1>4, <3>1, <4>5 DEF Comes, Observed
    <3>5. CASE o.who = i
      <4>1. \A p \in due : p = [who |-> i, uid |-> authUser]
        <5>1. SUFFICES ASSUME NEW p \in due PROVE p = [who |-> i, uid |-> authUser]
          OBVIOUS
        <5>2. p.uid = authUser /\ i <= p.who
          BY <3>1, <3>3, <3>5
        <5>3. p.who \in DOMAIN listeners /\ p \in Observer
          BY <3>2 DEF PlaceInv
        <5>4. p.who <= i
          BY <5>3 DEF TypeOK, AuthTypeOK, Observer
        <5>5. p.who = i
          BY <5>2, <5>3, <5>4 DEF Observer
        <5> QED BY <5>2, <5>3, <5>5 DEF Observer
      <4>2. Observing(i)
        BY <1>4, <4>1 DEF Observed, Observing
      <4>3. Answered(i)'
        BY <1>1, <2>2, <4>2, RecordRaised
      <4>4. synced /\ synced' = synced
        BY <2>2, <3>1 DEF SyncedInv, due, view, Raise
      <4> QED BY <4>3, <4>4 DEF Comes, Brought
    <3> QED BY <3>4, <3>5
  <2>3. CASE ~Raise
    <3>1. UNCHANGED <<mainQ, dbQ>>
      BY <2>1, <2>3 DEF Database, Sync, PushAccepted, PushRejected
    <3> QED BY <1>1, <1>4, <3>1 DEF Comes, Observed, NoAdded, Queued
  <2> QED BY <2>2, <2>3
<1>5. CASE Brought(i)
  <2>1. ~Sync
    BY <1>5 DEF Sync, Brought
  <2>2. ~Raise /\ ~RunObserve /\ ~RunSetValue
    BY <1>5 DEF Raise, Brought, Answered, RunObserve, RunSetValue, NextCall
  <2>3. PushAccepted \/ PushRejected
    BY <2>1, <2>2 DEF Database
  <2>4. UNCHANGED <<dbQ, waiting, mainQ, synced>>
    BY <2>3 DEF PushAccepted, PushRejected
  <2>5. due' \subseteq due /\ Queued' = Queued
    BY <1>5, <2>3, <2>4, DueShrinks DEF Queued, Brought
  <2>6. NoneBehind(AddedFor(i), AddedBlocks)'
    BY <1>5, <2>4 DEF Brought, Answered, NoneBehind
  <2> QED BY <1>1, <1>5, <2>4, <2>5, <2>6 DEF Comes, Brought, Answered
<1> QED BY <1>2, <1>3, <1>4, <1>5 DEF Comes

(* ... and no block that calls nobody anew disturbs it. *)
LEMMA BlockBrings ==
  ASSUME TypeOK, [Next]_vars, alive' = alive, NEW i \in Nat, listeners'[i].prev = listeners[i].prev,
         RunFirst \/ RunNotify \/ RunAddedLoading \/ RunAddedForm \/ UNCHANGED vars,
         UNCHANGED <<authUser, dbQ, students, synced, pending, waiting>>, Comes(i)
  PROVE  Comes(i)'
<1>1. CASE Observed(i)
  <2>1. ~Raise
    BY DEF Raise, due
  <2>2. NoAdded(i)'
    BY <1>1, <2>1, NoneAdded DEF Observed
  <2> QED BY <1>1, <2>2 DEF Comes, Observed
<1>2. CASE Untold(i) \/ Asked(i)
  <2>1. ~Raise
    BY DEF Raise, due
  <2>2. NoAdded(i)'
    BY <1>2, <2>1, NoneAdded DEF Untold, Asked
  <2>3. NoWaiting(i)' /\ (NoObserve(i) => NoObserve(i)')
    BY <1>2 DEF Untold, Asked, NoWaiting, NoObserve, Calls
  <2> QED BY <1>2, <2>2, <2>3 DEF Comes, Untold, Asked
<1>3. CASE Brought(i)
  <2>1. (Untold(i) \/ Asked(i) \/ Observing(i) \/ Answered(i))' /\ synced'
    BY <1>3, BlockKeepsStage DEF Brought
  <2> QED BY <2>1 DEF Comes, Brought, Observing, Observed
<1> QED BY <1>1, <1>2, <1>3 DEF Comes

(* The session read from the keychain is announced to a listener that has  *)
(* not been called.                                                        *)
LEMMA LoadBrings ==
  ASSUME TypeOK, UnreadInv, FreshInv, SplashInv, LoadSession, Top = "Loading"
  PROVE  SplashInv'
<1>1. /\ alive /\ ~loaded /\ loaded' /\ alive' = alive /\ authUser' = keychain
      /\ mainQ' = mainQ \o (IF keychain = None THEN <<>> ELSE <<Notify(1)>>)
      /\ UNCHANGED <<keychain, listeners, studentsVars, appVars>>
  BY DEF LoadSession, KeychainLoad, Dispatch, appVars
<1>2. Queued \subseteq {First(1)} /\ dbQ = <<>> /\ waiting = {} /\ DOMAIN listeners = {1}
  BY <1>1 DEF UnreadInv
<1>3. PICK i \in Nat : Expects(i)
  BY <1>1 DEF SplashInv
<1>4. i = 1 /\ listeners[i].prev = Unset
  BY <1>1, <1>2, <1>3 DEF Expects, FreshInv
<1>5. \A b \in Queued' : b.do # "added"
  <2>1. PICK bs : bs = IF keychain = None THEN <<>> ELSE <<Notify(1)>>
    OBVIOUS
  <2>2. bs \in Seq(Block) /\ Range(bs) \subseteq {Notify(1)}
    BY <2>1, BlocksTyped, ShortRanges
  <2>3. Dispatch(bs)
    BY <1>1, <2>1 DEF Dispatch
  <2>4. Queued' = Queued \cup Range(bs)
    BY <2>2, <2>3, QueuedOnDispatch DEF TypeOK
  <2> QED BY <1>2, <2>2, <2>4 DEF First, Notify
<1>6. Calls' = {} /\ waiting' = {}
  BY <1>1, <1>2 DEF studentsVars, Calls, Range
<1>7. Untold(i)'
  BY <1>1, <1>4, <1>5, <1>6 DEF Untold, NoAdded, NoWaiting, NoObserve
<1>8. OnlyFor(authUser)'
  BY <1>5, <1>6 DEF OnlyFor
<1>9. Expects(i)'
  BY <1>1, <1>2, <1>3, <1>4, <1>7 DEF Expects, Comes, appVars
<1>10. modal' = modal
  BY <1>1 DEF appVars
<1> QED BY <1>1, <1>8, <1>9, <1>10 DEF SplashInv

(* Every step on the splash screen keeps it waiting. *)
LEMMA SplashStep ==
  ASSUME TypeOK, FlowInv, DeadInv, SigningInv, UnreadInv, PlaceInv, SyncedInv, SplashPlace, FreshInv,
         SplashInv, [Next]_vars, KeychainFirst = TRUE,
         alive, alive' = alive, Top = "Loading", stack' = stack
  PROVE  SplashInv'
<1>1. /\ flow.pc = "idle"
      /\ \/ RunFirst \/ RunNotify \/ RunAddedLoading \/ RunAddedForm
         \/ LoadSession \/ Database \/ UNCHANGED vars
  BY WhileLoading
<1>2. CASE LoadSession
  BY <1>2, LoadBrings
<1>3. CASE ~LoadSession
  <2>1. modal = "none" /\ OnlyFor(authUser)
    BY DEF SplashInv
  <2>2. PICK i \in Nat : Expects(i)
    BY DEF SplashInv
  <2>3. /\ i \in DOMAIN listeners /\ i = Len(listeners)
        /\ listeners[i].kind = "loading" /\ listeners[i].at = Len(stack) /\ Comes(i)
        /\ \A j \in DOMAIN listeners :
             j # i => listeners[j].prev = authUser /\ listeners[j].at # Len(stack)
    BY <2>2 DEF Expects
  <2>4. UNCHANGED authUser
    BY <1>1, <1>3 DEF RunFirst, RunNotify, Call, RunAddedLoading, RunAddedForm, Database, vars,
       authVars, appVars
  <2>5. modal' = "none"
    <3>1. CASE RunAddedForm
      <4>1. PICK k : k = Head(mainQ).who
        OBVIOUS
      <4>2. Head(mainQ) \in Queued /\ Head(mainQ).do = "added"
        BY <3>1, MainThreadTakesOne DEF MainThread, RunAddedForm, Runs
      <4>3. k \in DOMAIN listeners /\ listeners[k].kind = "form"
        BY <3>1, <4>1, <4>2 DEF RunAddedForm, PlaceInv
      <4>4. listeners[k].at # Len(stack)
        BY <4>3 DEF PlaceInv, Top
      <4> QED BY <1>1, <2>1, <3>1, <4>1, <4>4 DEF RunAddedForm, OwnSpinner, MayPresent
    <3> QED BY <1>1, <1>3, <2>1, <3>1 DEF RunFirst, RunNotify, Call, RunAddedLoading, Database, vars,
       appVars
  <2>6. ~Committed
    BY <1>1 DEF Committed, At
  <2>7. OnlyFor(authUser)'
    <3>1. PICK u : u = authUser
      OBVIOUS
    <3>2. OnlyFor(u)'
      BY <2>1, <2>6, <3>1, OnlyForKept
    <3> QED BY <2>4, <3>1, <3>2
  <2>8. /\ DOMAIN listeners' = DOMAIN listeners
        /\ \A j \in DOMAIN listeners : j # i => listeners'[j].prev = authUser
        /\ Comes(i)'
    <3>1. CASE RunFirst \/ RunNotify
      <4>1. PICK k : k = Head(mainQ).who
        OBVIOUS
      <4>2. Call(k)
        BY <3>1, <4>1 DEF RunFirst, RunNotify
      <4>3. k \in DOMAIN listeners
        <5>1. Head(mainQ) \in Queued /\ Head(mainQ).do \in {"first", "notify"}
          BY <3>1, MainThreadTakesOne DEF MainThread, RunFirst, RunNotify, Runs
        <5> QED BY <4>1, <5>1 DEF PlaceInv
      <4>4. /\ DOMAIN listeners' = DOMAIN listeners
            /\ \A j \in DOMAIN listeners :
                 listeners'[j].prev = IF j = k THEN authUser ELSE listeners[j].prev
        BY <4>2, CallTells
      <4>5. CASE Hears(k)
        <5>1. k = i
          BY <2>3, <4>3, <4>5 DEF Hears
        <5>2. Untold(i)
          BY <2>3, <4>5, <5>1 DEF Comes, Asked, Observed, Brought, Answered, Hears
        <5>3. SignedIn
          <6>1. SUFFICES ASSUME authUser = None PROVE FALSE
            BY DEF SignedIn
          <6>2. stack' = Append(stack, "Login")
            BY <2>1, <2>3, <4>2, <4>5, <5>1, <6>1 DEF Call, SignedIn, GotoScreen, MayPresent
          <6>3. Len(Append(stack, "Login")) = Len(stack) + 1 /\ Len(stack) \in Nat
            BY AppendProperties DEF TypeOK, Screen
          <6> QED BY <6>2, <6>3
        <5>4. Asked(i)'
          BY <2>3, <3>1, <4>2, <5>1, <5>2, <5>3, FirstHeard
        <5> QED BY <2>3, <4>4, <5>4 DEF Comes
      <4>6. CASE ~Hears(k)
        <5>1. /\ UNCHANGED <<authUser, dbQ, students, synced, pending, waiting>>
              /\ \A j \in DOMAIN listeners : listeners'[j].prev = listeners[j].prev
          BY <4>2, <4>6, HeardBefore
        <5>2. Comes(i)'
          BY <2>3, <3>1, <5>1, BlockBrings
        <5> QED BY <2>3, <4>4, <5>1, <5>2
      <4> QED BY <4>5, <4>6
    <3>2. CASE RunAddedLoading \/ RunAddedForm \/ UNCHANGED vars
      <4>1. UNCHANGED <<listeners, authUser, dbQ, students, synced, pending, waiting>>
        BY <3>2 DEF RunAddedLoading, RunAddedForm, vars, authVars, studentsVars
      <4>2. Comes(i)'
        BY <2>3, <3>2, <4>1, BlockBrings
      <4> QED BY <2>3, <4>1, <4>2
    <3>3. CASE Database
      <4>1. listeners' = listeners
        BY <3>3 DEF Database, authVars
      <4>2. Comes(i)'
        BY <2>1, <2>3, <3>3, WorkerBrings
      <4> QED BY <2>3, <4>1, <4>2
    <3> QED BY <1>1, <1>3, <3>1, <3>2, <3>3
  <2>9. i = Len(listeners')
    <3>1. listeners \in Seq(Listener) /\ listeners' \in Seq(Listener) /\ i = Len(listeners)
      BY <2>3, NextTyped DEF TypeOK, AuthTypeOK
    <3>2. 1 .. Len(listeners') = 1 .. Len(listeners)
      BY <2>8, <3>1
    <3>3. Len(listeners') \in Nat /\ Len(listeners) \in Nat
      BY <3>1
    <3>4. Len(listeners') = Len(listeners)
      BY <3>2, <3>3
    <3> QED BY <3>1, <3>4
  <2>10. \A j \in DOMAIN listeners :
           listeners'[j].kind = listeners[j].kind /\ listeners'[j].at = listeners[j].at
    BY ListenersStay
  <2>11. Expects(i)'
    BY <2>3, <2>4, <2>8, <2>9, <2>10 DEF Expects
  <2> QED BY <2>1, <2>4, <2>5, <2>7, <2>11 DEF SplashInv
<1> QED BY <1>2, <1>3

(* A login shows a splash screen whose listener is told after all others. *)
LEMMA SplashBegins ==
  ASSUME TypeOK, ToldInv, PlaceInv, FlowInv, SignInInv, OwnSignIn, [Next]_vars, alive' = alive,
         RunSignedIn
  PROVE  SplashInv'
<1>1. PICK n : n = Len(listeners) + 1
  OBVIOUS
<1>2. n \in Nat /\ n \notin DOMAIN listeners /\ Len(stack) + 1 \in Nat
  BY <1>1 DEF TypeOK, AuthTypeOK
<1>3. /\ AddListener("loading", Len(stack) + 1) /\ stack' = Append(stack, "Loading")
      /\ UNCHANGED <<authUser, waiting, dbQ>> /\ modal' = "none"
      /\ flow.pc = "signedIn"
  BY DEF RunSignedIn, studentsVars, At
<1>4. /\ n \in DOMAIN listeners'
      /\ \A i \in DOMAIN listeners' : i \in DOMAIN listeners \/ i = n
      /\ listeners'[n] = NewListener("loading", Len(stack) + 1)
      /\ \A i \in DOMAIN listeners : listeners'[i] = listeners[i]
  BY <1>1, <1>2, <1>3, ListenerAdded
<1>5. n = Len(listeners')
  BY <1>1, <1>3 DEF AddListener, TypeOK, AuthTypeOK
<1>6. Len(stack') = Len(stack) + 1
  BY <1>3, AppendProperties DEF TypeOK, Screen
<1>7. \A j \in DOMAIN listeners : listeners[j].prev = authUser
  <2>1. SUFFICES ASSUME NEW j \in DOMAIN listeners, ToBeTold(j) PROVE FALSE
    BY DEF ToldInv
  <2>2. PICK b \in Queued : b.do \in {"first", "notify"}
    BY <2>1 DEF ToBeTold, Tells
  <2>3. Queued \subseteq Block
    BY RangeOfSeq DEF Queued, TypeOK
  <2>4. b \in Queued \cap ToldBlocks
    BY <2>2, <2>3 DEF ToldBlocks
  <2> QED BY <2>2, <2>4, SignInComesLast
<1>8. NoAdded(n)'
  <2>1. SUFFICES ASSUME NEW b \in Queued', b.do = "added", b.who = n PROVE FALSE
    BY DEF NoAdded
  <2>2. b \notin Queued
    BY <1>2, <2>1 DEF PlaceInv
  <2>3. ~Raise
    BY <1>3 DEF Raise, due
  <2> QED BY <2>1, <2>2, <2>3, NewBlocks DEF First, Notify, Reply
<1>9. NoWaiting(n)' /\ NoObserve(n)'
  BY <1>2, <1>3 DEF NoWaiting, NoObserve, PlaceInv, Calls
<1>10. Untold(n)'
  BY <1>4, <1>8, <1>9 DEF Untold, NewListener
<1>11. \A j \in DOMAIN listeners : listeners[j].at # Len(stack) + 1
  BY DEF PlaceInv, TypeOK
<1>12. Expects(n)'
  BY <1>3, <1>4, <1>5, <1>6, <1>7, <1>10, <1>11 DEF Expects, Comes, NewListener
<1>13. OnlyFor(authUser)'
  <2>1. PICK u : u = authUser
    OBVIOUS
  <2>2. ~Committed
    BY <1>3 DEF Committed, At
  <2>3. OnlyFor(u)'
    BY <1>3, <2>1, <2>2, OnlyForKept DEF OwnSignIn
  <2> QED BY <1>3, <2>1, <2>3
<1> QED BY <1>2, <1>3, <1>12, <1>13 DEF SplashInv, OwnSignIn

(* A launch shows a splash screen whose listener is the only one. *)
LEMMA SplashLaunch ==
  ASSUME TypeOK, DeadInv, Launch
  PROVE  SplashInv'
<1>1. /\ listeners' = <<NewListener("loading", 1)>> /\ stack' = <<"Loading">> /\ modal' = "none"
      /\ ~loaded' /\ mainQ' = <<First(1)>> /\ dbQ' = <<>> /\ waiting' = {}
  BY DEF Launch, DeadInv, studentsVars
<1>2. /\ DOMAIN listeners' = {1} /\ Len(listeners') = 1 /\ Len(stack') = 1
      /\ listeners'[1] = NewListener("loading", 1)
  BY <1>1
<1>3. Queued' = {First(1)} /\ Calls' = {}
  BY <1>1, ShortRanges DEF Queued, Calls
<1>4. \A b \in Queued' : b.do # "added"
  BY <1>3 DEF First
<1>5. Expects(1)'
  BY <1>1, <1>2, <1>3, <1>4 DEF Expects, Comes, Untold, NoAdded, NoWaiting, NoObserve, NewListener
<1>6. OnlyFor(authUser)'
  BY <1>1, <1>3, <1>4 DEF OnlyFor
<1>7. 1 \in Nat
  OBVIOUS
<1> QED BY <1>1, <1>5, <1>6, <1>7 DEF SplashInv

(* Every step keeps the splash screens as they should be. *)
LEMMA NextSplash ==
  ASSUME TypeOK, FlowInv, DeadInv, SigningInv, UnreadInv, ToldInv, PlaceInv, SyncedInv,
         SplashPlace, FreshInv, SignInInv, OwnSignIn, SplashInv, [Next]_vars, KeychainFirst = TRUE
  PROVE  SplashInv'
<1>1. CASE Launch
  BY <1>1, SplashLaunch
<1>2. CASE Kill \/ CommitTraps
  <2>1. ~alive'
    BY <1>2 DEF Kill, CommitTraps, Dies
  <2> QED BY <2>1 DEF SplashInv
<1>3. CASE alive' = alive /\ alive
  <2>1. CASE stack' = stack /\ Top' = Top
    <3>1. CASE Top = "Loading"
      BY <1>3, <2>1, <3>1, SplashStep
    <3> QED BY <2>1, <3>1 DEF SplashInv
  <2>2. CASE RunSignedIn
    BY <1>3, <2>2, SplashBegins
  <2>3. CASE Top' # "Loading"
    BY <2>3 DEF SplashInv
  <2> QED BY <1>3, <2>1, <2>2, <2>3, TopMoves
<1>4. CASE alive' = alive /\ ~alive
  BY <1>4 DEF SplashInv
<1> QED BY <1>1, <1>2, <1>3, <1>4, ProcessSteps

(* A screen other than the first splash screen is on top only once the     *)
(* keychain has been read.                                                 *)
LEMMA ReadBefore ==
  ASSUME UnreadInv, FreshInv, alive, Top # "Loading"
  PROVE  loaded
BY DEF UnreadInv, FreshInv, Top

(* While the main screen is in hand only the creation of an account changes *)
(* the session, and nothing the profile and the saved password.             *)
LEMMA MainFrame ==
  ASSUME TypeOK, FlowInv, SigningInv, UnreadInv, FreshInv, MainInv, [Next]_vars,
         alive, alive' = alive, Top = "Main", stack' = stack,
         flow.pc \in InHand, flow'.pc \in InHand
  PROVE  /\ UNCHANGED <<currentUser, savedPassword>> /\ ~Committed
         /\ ~RunSignedIn /\ ~RunRestored
         /\ CreateAnswered \/ authUser' = authUser
<1>1. loaded
  BY ReadBefore
<1>2. flow.pc \notin {"signingIn", "signedIn", "restoring", "restored"}
  BY DEF InHand, Creating
<1>3. ~Committed
  <2>1. Committed => flow'.pc = "restoring"
    BY DEF Committed, Goes, TypeOK, Flow
  <2> QED BY <2>1 DEF InHand, Creating
<1>4. ~RunSignedIn /\ ~RunRestored
  BY <1>2 DEF RunSignedIn, RunRestored, At
<1>5. ~RunAddedLoading /\ ~RunAddedForm
  <2>1. \A b \in Queued : b.do # "added"
    BY NoneForAny DEF MainInv
  <2>2. RunAddedLoading \/ RunAddedForm => Head(mainQ) \in Queued /\ Head(mainQ).do = "added"
    BY MainThreadTakesOne DEF MainThread, RunAddedLoading, RunAddedForm, Runs
  <2> QED BY <2>1, <2>2
<1>6. UserStep => CreateAnswered
  <2>1. ~Logout
    <3>1. Logout => Top' = "Login"
      BY UserStepPath DEF Logout, Top, TypeOK
    <3> QED BY <3>1 DEF Top
  <2> QED BY <1>2, <1>3, <2>1 DEF UserStep, LoginAccepted, RestoreAccepted, At
<1>7. ~Launch /\ ~Kill /\ ~CommitTraps /\ ~Reinstall /\ ~LoadSession
  BY <1>1 DEF Launch, Kill, CommitTraps, Dies, Reinstall, LoadSession, KeychainLoad
<1>8. CASE UserStep
  BY <1>3, <1>4, <1>6, <1>8, UserStepFrame
<1>9. CASE FlowStep
  BY <1>3, <1>4, <1>9, FlowStepFrame
<1>10. CASE RunFirst \/ RunNotify \/ RunSignedUp \/ Database \/ UNCHANGED vars
  BY <1>3, <1>4, <1>10 DEF RunFirst, RunNotify, Call, RunSignedUp, Database, vars, authVars, appVars
<1> QED BY <1>4, <1>5, <1>7, <1>8, <1>9, <1>10, NextSteps DEF MainThread

(* While the main screen is in hand every step leaves it as it should be. *)
LEMMA MainStep ==
  ASSUME TypeOK, FlowInv, DeadInv, SigningInv, UnreadInv, RecordInv, PlaceInv, FreshInv, MainInv,
         [Next]_vars, alive, alive' = alive, Top = "Main", stack' = stack,
         flow.pc \in InHand, flow'.pc \in InHand
  PROVE  MainInv'
<1>1. /\ UNCHANGED <<currentUser, savedPassword>> /\ ~Committed
      /\ ~RunSignedIn /\ ~RunRestored
      /\ CreateAnswered \/ authUser' = authUser
  BY MainFrame
<1>2. /\ OnlyFor(None)
      /\ flow.pc # "idle" => flow.email = currentUser
      /\ authUser = currentUser \/ authUser \notin records
      /\ authUser \in records => \A i \in DOMAIN listeners : listeners[i].prev = authUser
  BY DEF MainInv
<1>3. OnlyFor(None)'
  <2>1. ASSUME authUser \in records, ~(Calls' \subseteq Calls) PROVE FALSE
    <3>1. PICK k : k = Head(mainQ).who
      OBVIOUS
    <3>2. (RunFirst \/ RunNotify) /\ Hears(k)
      BY <1>1, <2>1, <3>1, NewCalls
    <3>3. k \in DOMAIN listeners
      <4>1. Head(mainQ) \in Queued /\ Head(mainQ).do \in {"first", "notify"}
        BY <3>2, MainThreadTakesOne DEF MainThread, RunFirst, RunNotify, Runs
      <4> QED BY <3>1, <4>1 DEF PlaceInv
    <3> QED BY <1>2, <2>1, <3>2, <3>3 DEF Hears
  <2>2. PICK u : u = None
    OBVIOUS
  <2>3. OnlyFor(u)'
    BY <1>1, <1>2, <2>1, <2>2, OnlyForKept
  <2> QED BY <2>2, <2>3
<1>4. flow'.pc # "idle" => flow'.email = currentUser'
  <2>1. flow'.pc # "idle" => flow'.pc \notin {"idle", "signingIn", "signedIn"}
    BY DEF InHand, Creating
  <2>2. TapDone => flow'.email = currentUser
    BY DEF TapDone, Idle
  <2> QED BY <1>1, <1>2, <2>1, <2>2, FlowGoesOn DEF Registering
<1>5. records' \subseteq records
  <2>1. ~CommitTraps
    BY DEF CommitTraps, At, Dies
  <2> QED BY <1>1, <2>1, RecordsMove
<1>6. authUser' = authUser \/ authUser' \notin records
  <2>1. CASE CreateAnswered
    <3>1. flow.pc = "registered" /\ authUser' \in {flow.new, None}
      BY <2>1 DEF CreateAnswered, At, BecomeUser
    <3>2. flow.new \notin records
      BY <3>1 DEF RecordInv, Creating
    <3>3. None \notin records
      BY NoneIsNoAccount DEF RecordInv, TypeOK, AuthTypeOK
    <3> QED BY <3>1, <3>2, <3>3
  <2> QED BY <1>1, <2>1
<1>7. ASSUME authUser' \in records' PROVE \A i \in DOMAIN listeners' : listeners'[i].prev = authUser'
  <2>1. authUser' = authUser /\ authUser \in records
    BY <1>5, <1>6, <1>7
  <2>2. CASE listeners' = listeners
    BY <1>2, <2>1, <2>2
  <2>3. CASE Call(Head(mainQ).who)
    <3>1. PICK k : k = Head(mainQ).who
      OBVIOUS
    <3>2. /\ DOMAIN listeners' = DOMAIN listeners
          /\ \A j \in DOMAIN listeners :
               listeners'[j].prev = IF j = k THEN authUser ELSE listeners[j].prev
      BY <2>3, <3>1, CallTells
    <3> QED BY <1>2, <2>1, <3>2
  <2> QED BY <1>1, <2>2, <2>3, ListenersGrow
<1>8. authUser' = currentUser' \/ authUser' \notin records'
  BY <1>1, <1>2, <1>5, <1>6
<1> QED BY <1>1, <1>2, <1>3, <1>4, <1>7, <1>8 DEF MainInv

(* The main screen comes with the record of the session, which is the last *)
(* on its way.                                                             *)
LEMMA MainArrives ==
  ASSUME TypeOK, FlowInv, SigningInv, UnreadInv, PlaceInv, SplashInv, [Next]_vars,
         alive, alive' = alive, Top = "Loading", RunAddedLoading,
         listeners[Head(mainQ).who].at = Len(stack)
  PROVE  MainInv' /\ loaded /\ currentUser' = authUser /\ savedPassword' = savedPassword
<1>1. PICK h : h = Head(mainQ)
  OBVIOUS
<1>2. /\ mainQ \in Seq(Block) /\ mainQ # <<>> /\ h \in Block /\ h \in Queued /\ h.do = "added"
      /\ h.who \in DOMAIN listeners
  BY <1>1, HeadTyped, MainThreadTakesOne
     DEF MainThread, RunAddedLoading, Runs, TypeOK, PlaceInv
<1>3. OnlyFor(authUser)
  BY DEF SplashInv
<1>4. PICK i \in Nat : Expects(i)
  BY DEF SplashInv
<1>5. /\ h.who = i
      /\ \A j \in DOMAIN listeners : j # i => listeners[j].prev = authUser
      /\ Comes(i)
  BY <1>1, <1>2, <1>4 DEF Expects
<1>6. Brought(i)
  BY <1>2, <1>5 DEF Comes, Untold, Asked, Observed, NoAdded
<1>7. /\ synced /\ listeners[i].prev = authUser /\ h.uid = authUser
      /\ NoneBehind(AddedFor(i), AddedBlocks) /\ dbQ = <<>> /\ due = {}
  BY <1>2, <1>5, <1>6 DEF Brought, Answered
<1>8. loaded
  <2>1. h # First(1)
    BY <1>2 DEF First
  <2> QED BY <1>2, <2>1 DEF UnreadInv
<1>9. /\ currentUser' = h.uid /\ Done(<<>>)
      /\ UNCHANGED <<authUser, listeners, loaded, dbQ, waiting, savedPassword, flow>>
  BY <1>1 DEF RunAddedLoading, TakeProfile, authVars, studentsVars
<1>10. flow'.pc = "idle"
  BY <1>9, WhileLoading
<1>11. \A b \in Queued' : b.do # "added"
  <2>1. h \in AddedFor(i)
    BY <1>2, <1>5 DEF AddedFor
  <2>2. Range(Tail(mainQ)) \cap AddedBlocks = {}
    BY <1>1, <1>2, <1>7, <2>1, FirstHasNone
  <2>3. Queued' = Range(Tail(mainQ)) \cup {}
    <3>1. <<>> \in Seq(Block)
      OBVIOUS
    <3> QED BY <1>2, <1>9, <3>1, QueuedOnDone, ShortRanges
  <2>4. Range(Tail(mainQ)) \subseteq Block
    BY <1>2, TailTyped, RangeOfSeq
  <2> QED BY <2>2, <2>3, <2>4 DEF AddedBlocks
<1>12. Calls = {} /\ Calls' = {}
  BY <1>7, <1>9, ShortRanges DEF Calls
<1>13. \A o \in waiting' : o.uid \notin records'
  <2>1. records' = records
    BY RecordsInMain DEF MainThread
  <2>2. \A u : u \in records => u \in view
    BY <1>7, <1>12, RecordPlaces DEF view
  <2> QED BY <1>7, <1>9, <2>1, <2>2 DEF due
<1>14. OnlyFor(None)'
  BY <1>11, <1>12, <1>13 DEF OnlyFor
<1>15. currentUser' = authUser'
  BY <1>7, <1>9
<1>16. \A j \in DOMAIN listeners' : listeners'[j].prev = authUser'
  BY <1>5, <1>7, <1>9
<1> QED BY <1>7, <1>8, <1>9, <1>10, <1>14, <1>15, <1>16 DEF MainInv

(* It is back in hand after a registration when that has been announced.   *)
LEMMA MainReturns ==
  ASSUME TypeOK, FlowInv, DeadInv, SigningInv, CreatedInv', [Next]_vars, alive, alive' = alive,
         Top = "Main", flow.pc \notin InHand, flow'.pc \in InHand
  PROVE  MainInv' /\ savedPassword' = currentUser'
<1>1. flow.pc \in {"restoring", "restored", "reloading", "stuck"}
  BY DEF SigningInv, InHand, Creating, TypeOK, Flow, Step
<1>2. modal' = "created"
  BY <1>1, GivingBackGoesOn DEF InHand, Creating
<1>3. /\ flow'.pc = "idle" /\ authUser' = currentUser' /\ authUser' = savedPassword'
      /\ Settled'
  BY <1>2 DEF CreatedInv
<1>4. Calls' = {}
  BY <1>3, ShortRanges DEF Settled, Calls
<1>5. \A o \in waiting' : o.uid \notin records'
  <2>1. \A u : u \in records' => u \in view'
    BY <1>3, <1>4, RecordPlacesNext DEF view, Settled
  <2> QED BY <1>3, <2>1 DEF Settled, due
<1>6. OnlyFor(None)'
  BY <1>3, <1>4, <1>5 DEF OnlyFor, Settled
<1>7. \A i \in DOMAIN listeners' : listeners'[i].prev = authUser'
  BY <1>3 DEF Settled
<1> QED BY <1>3, <1>6, <1>7 DEF MainInv

(* Every step keeps the main screen as it should be in the user's hands.   *)
LEMMA NextMain ==
  ASSUME TypeOK, FlowInv, DeadInv, SigningInv, UnreadInv, RecordInv, PlaceInv, CreatedInv',
         SplashPlace, FreshInv, SplashInv, MainInv, [Next]_vars
  PROVE  MainInv'
<1>1. CASE Launch
  <2>1. Top' = "Loading"
    BY <1>1 DEF Launch, Top
  <2> QED BY <2>1 DEF MainInv
<1>2. CASE Kill \/ CommitTraps
  <2>1. ~alive'
    BY <1>2 DEF Kill, CommitTraps, Dies
  <2> QED BY <2>1 DEF MainInv
<1>3. CASE alive' = alive /\ alive
  <2>1. CASE stack' = stack /\ Top' = Top /\ Top = "Main" /\ flow'.pc \in InHand
    <3>1. CASE flow.pc \in InHand
      BY <1>3, <2>1, <3>1, MainStep
    <3>2. CASE flow.pc \notin InHand
      BY <1>3, <2>1, <3>2, MainReturns
    <3> QED BY <3>1, <3>2
  <2>2. CASE Top = "Loading" /\ RunAddedLoading /\ listeners[Head(mainQ).who].at = Len(stack)
    BY <1>3, <2>2, MainArrives
  <2>3. CASE Top' # "Main" \/ flow'.pc \notin InHand
    BY <2>3 DEF MainInv
  <2> QED BY <1>3, <2>1, <2>2, <2>3, TopMoves
<1>4. CASE alive' = alive /\ ~alive
  BY <1>4 DEF MainInv
<1> QED BY <1>1, <1>2, <1>3, <1>4, ProcessSteps

(* What else changes the session while the process lives. *)
LEMMA SessionChanges ==
  ASSUME [Next]_vars, alive' = alive
  PROVE  UserStep \/ LoadSession \/ (loaded' = loaded /\ authUser' = authUser)
<1>1. ~Launch \/ (loaded' = loaded /\ authUser' = authUser)
  BY DEF Launch
<1>2. ~Kill /\ ~CommitTraps
  BY DEF Kill, CommitTraps, At, Dies
<1> QED BY <1>1, <1>2, NextSteps, FlowStepFrame
     DEF MainThread, RunFirst, RunNotify, Call, RunAddedLoading, RunAddedForm, RunSignedIn,
         RunSignedUp, RunRestored, Reinstall, Database, vars, authVars

(* The login form is shown to nobody, and no record is on its way. *)
LEMMA NextSignedOut ==
  ASSUME TypeOK, FlowInv, DeadInv, SigningInv, UnreadInv, PlaceInv, SplashPlace, FreshInv,
         SplashInv, MainInv, SignedOut, [Next]_vars, KeychainFirst = TRUE
  PROVE  SignedOut'
<1>1. SUFFICES ASSUME alive', Top' = "Login", flow'.pc # "signedIn"
               PROVE  loaded' /\ authUser' = None /\ OnlyFor(None)'
  BY DEF SignedOut
<1>2. alive' = alive
  <2>1. Launch => Top' = "Loading"
    BY DEF Launch, Top
  <2>2. ~Kill /\ ~CommitTraps
    BY <1>1 DEF Kill, CommitTraps, Dies
  <2> QED BY <1>1, <2>1, <2>2, ProcessSteps
<1>3. alive
  BY <1>1, <1>2
<1>4. Top # "Loading" => loaded
  BY <1>3, ReadBefore
<1>5. CASE Logout
  <2>1. flow.pc = "idle" /\ authUser' = None /\ Top = "Main" /\ loaded'
    BY <1>5, UserStepPath DEF Logout, BecomeUser, At, Tappable, FlowInv
  <2>2. OnlyFor(None)
    BY <1>3, <2>1 DEF MainInv, InHand
  <2>3. Calls' = Calls /\ ~Committed
    BY <1>5, <2>1 DEF Logout, studentsVars, Calls, Committed, At
  <2>4. PICK u : u = None
    OBVIOUS
  <2>5. OnlyFor(u)'
    BY <1>2, <2>2, <2>3, <2>4, OnlyForKept
  <2> QED BY <2>1, <2>4, <2>5
<1>6. CASE stack' = stack /\ Top' = Top
  <2>1. Top = "Login" /\ loaded /\ ~LoadSession
    BY <1>1, <1>4, <1>6 DEF LoadSession, KeychainLoad
  <2>2. flow.pc # "signedIn"
    <3>1. SUFFICES ASSUME flow.pc = "signedIn" PROVE FALSE
      OBVIOUS
    <3>2. ~RunSignedIn
      <4>1. RunSignedIn => Len(stack') = Len(stack) + 1
        BY AppendProperties DEF RunSignedIn, TypeOK, Screen
      <4>2. Len(stack) \in Nat
        BY DEF TypeOK
      <4> QED BY <1>6, <4>1, <4>2
    <3>3. RunFirst \/ RunNotify \/ RunAddedLoading \/ RunAddedForm \/ Database \/ UNCHANGED vars
      BY <1>2, <3>1, <3>2, WhileSignedIn
    <3>4. flow' = flow
      BY <3>1, <3>3 DEF RunFirst, RunNotify, Call, RunAddedLoading, RunAddedForm, OwnSpinner,
         Database, vars, appVars
    <3> QED BY <1>1, <3>1, <3>4
  <2>3. authUser = None /\ OnlyFor(None)
    BY <1>3, <2>1, <2>2 DEF SignedOut
  <2>4. ~UserStep
    <3>1. CASE UserStep
      BY <1>1, <2>1, <3>1, UserStepPath
    <3> QED BY <3>1
  <2>5. loaded' = loaded /\ authUser' = authUser
    <3>1. UserStep \/ LoadSession \/ (loaded' = loaded /\ authUser' = authUser)
      BY <1>2, SessionChanges
    <3> QED BY <2>1, <2>4, <3>1
  <2>6. PICK u : u = None
    OBVIOUS
  <2>7. OnlyFor(u)'
    BY <1>2, <2>3, <2>4, <2>6, OnlyForKept DEF UserStep
  <2> QED BY <2>1, <2>3, <2>5, <2>6, <2>7
<1>7. CASE (RunFirst \/ RunNotify) /\ Call(Head(mainQ).who) /\ authUser = None /\ Top = "Loading"
  <2>1. loaded
    BY <1>3, <1>7, UnreadWaits DEF MainThread
  <2>2. loaded' = loaded /\ authUser' = authUser
    BY <1>7 DEF Call
  <2>3. ~Committed
    BY <1>7 DEF Committed, RunFirst, RunNotify, Runs
  <2>4. OnlyFor(None)
    BY <1>3, <1>7 DEF SplashInv
  <2>5. PICK u : u = None
    OBVIOUS
  <2>6. OnlyFor(u)'
    BY <1>2, <1>7, <2>3, <2>4, <2>5, OnlyForKept
  <2> QED BY <1>7, <2>1, <2>2, <2>5, <2>6
<1> QED BY <1>1, <1>2, <1>3, <1>5, <1>6, <1>7, TopMoves

-----------------------------------------------------------------------------
(* The saved password.  In the first process it is that of the session in  *)
(* the keychain when the app was launched, of the user who signed in, and  *)
(* of the profile, or the app was deleted before.                          *)
PasswordInv ==
  /\ alive => launches # 0
  /\ launches = 0 \/ (alive /\ ~loaded) => savedPassword \in {None, keychain}
  /\ alive /\ loaded /\ Top = "Loading" => savedPassword \in {None, authUser}
  /\ alive /\ Top = "Main" /\ flow.pc \in InHand => savedPassword \in {None, currentUser}
  /\ RestoreUsesOwnPassword

(* The launches are counted by launches alone. *)
LEMMA OneLaunch ==
  ASSUME [Next]_vars
  PROVE  Launch \/ launches' = launches
BY NextSteps
   DEF FlowStep, LoginTap, LoginRefused, DismissAlert, TapDone, ConfirmDropped, ConfirmOk,
       CreateAtServer, CreateFailed, UploadFailed, Uploaded, UrlAnswered, CommitFailed,
       RestoreRefused, UserStep, LoginAccepted, Logout, CreateAnswered, Committed, RestoreAccepted,
       MainThread, RunFirst, RunNotify, Call, RunAddedLoading, RunAddedForm, RunSignedIn,
       RunSignedUp, RunRestored, Kill, CommitTraps, Dies, Reinstall, LoadSession, Database,
       vars, appVars

(* Only the write of a record begins to give the session back. *)
LEMMA GivingBackBegins ==
  ASSUME TypeOK, FlowInv, SigningInv, [Next]_vars, flow'.pc = "restoring"
  PROVE  \/ Committed
         \/ flow.pc = "restoring" /\ flow'.email = flow.email /\ savedPassword' = savedPassword
<1> USE DEF TypeOK, Flow, Idle, Goes, At
<1>1. ASSUME FlowStep PROVE FALSE
  <2>1. CASE LoginRefused \/ DismissAlert \/ ConfirmDropped \/ CreateFailed \/ UploadFailed
             \/ CommitFailed
    BY <2>1 DEF LoginRefused, DismissAlert, ConfirmDropped, CreateFailed, UploadFailed, CommitFailed
  <2>2. CASE LoginTap
    <3>1. flow'.pc = "signingIn"
      BY <2>2 DEF LoginTap
    <3> QED BY <3>1
  <2>3. CASE TapDone
    <3>1. flow'.pc = "confirm"
      BY <2>3 DEF TapDone
    <3> QED BY <3>1
  <2>4. CASE ConfirmOk \/ CreateAtServer \/ Uploaded \/ UrlAnswered \/ RestoreRefused
    BY <2>4 DEF ConfirmOk, CreateAtServer, Uploaded, UrlAnswered, RestoreRefused
  <2> QED BY <1>1, <2>1, <2>2, <2>3, <2>4 DEF FlowStep
<1>2. CASE UserStep
  <2>1. ~LoginAccepted /\ ~CreateAnswered /\ ~RestoreAccepted
    BY DEF LoginAccepted, CreateAnswered, RestoreAccepted
  <2>2. Logout => flow' = flow /\ savedPassword' = savedPassword
    BY DEF Logout
  <2> QED BY <1>2, <2>1, <2>2 DEF UserStep
<1>3. CASE MainThread
  <2>1. ~RunSignedIn /\ ~RunSignedUp /\ ~RunRestored
    BY DEF RunSignedIn, RunSignedUp, RunRestored
  <2>2. RunAddedForm => flow' = flow /\ savedPassword' = savedPassword
    BY DEF RunAddedForm
  <2> QED BY <1>3, <2>1, <2>2 DEF MainThread, RunFirst, RunNotify, Call, RunAddedLoading
<1>4. ~Kill /\ ~CommitTraps
  BY DEF Kill, CommitTraps, Dies, FreshProcess
<1>5. CASE Reinstall
  BY <1>5 DEF Reinstall, FlowInv, RegistrationCovered, Registering
<1>6. CASE Launch \/ LoadSession \/ Database \/ UNCHANGED vars
  BY <1>6 DEF Launch, LoadSession, Database, vars, appVars
<1> QED BY <1>1, <1>2, <1>3, <1>4, <1>5, <1>6, NextSteps

(* The registering user's own password is saved when the session is left. *)
LEMMA NextOwnPassword ==
  ASSUME TypeOK, FlowInv, SigningInv, MainInv, PasswordInv, [Next]_vars
  PROVE  RestoreUsesOwnPassword'
<1>1. SUFFICES ASSUME flow'.pc = "restoring" PROVE savedPassword' = flow'.email
  BY DEF RestoreUsesOwnPassword
<1>2. CASE Committed
  <2>1. /\ flow.pc = "committing" /\ savedPassword # None /\ flow'.email = flow.email
        /\ savedPassword' = savedPassword
    BY <1>2 DEF Committed, At, Goes, TypeOK, Flow
  <2>2. alive /\ Top = "Main"
    BY <2>1 DEF FlowInv, RegistrationCovered, Registering
  <2> QED BY <2>1, <2>2 DEF MainInv, PasswordInv, InHand, Creating
<1>3. CASE ~Committed
  BY <1>1, <1>3, GivingBackBegins DEF PasswordInv, RestoreUsesOwnPassword
<1> QED BY <1>2, <1>3

(* Until the session has been read nothing touches it, or the password. *)
LEMMA UnreadKept ==
  ASSUME TypeOK, UnreadInv, [Next]_vars, KeychainFirst = TRUE, alive, alive' = alive, ~loaded'
  PROVE  ~loaded /\ keychain' = keychain /\ savedPassword' = savedPassword
<1>1. ~UserStep
  BY UserStepFrame
<1>2. ~LoadSession
  BY DEF LoadSession, KeychainLoad
<1>3. ~loaded
  BY <1>1, <1>2, SessionChanges
<1>4. ~MainThread
  BY <1>3, UnreadWaits
<1>5. ~Launch /\ ~Kill /\ ~CommitTraps /\ ~Reinstall
  BY DEF Launch, Kill, CommitTraps, Dies, Reinstall
<1>6. CASE FlowStep
  BY <1>3, <1>6, FlowStepFrame
<1>7. CASE Database \/ UNCHANGED vars
  BY <1>3, <1>7 DEF Database, vars, authVars, appVars
<1> QED BY <1>1, <1>2, <1>4, <1>5, <1>6, <1>7, NextSteps

(* The password of the session that a splash screen waits for. *)
LEMMA SplashPassword ==
  ASSUME TypeOK, FlowInv, SigningInv, PlaceInv, SplashPlace, OwnSignIn, SplashInv, PasswordInv,
         [Next]_vars, alive, alive' = alive, loaded', Top' = "Loading"
  PROVE  savedPassword' \in {None, authUser'}
<1>1. CASE RunSignedIn
  <2>1. savedPassword' = flow.email /\ authUser' = authUser /\ flow.pc = "signedIn"
    BY <1>1 DEF RunSignedIn, SavePassword, At
  <2> QED BY <2>1 DEF OwnSignIn
<1>2. CASE Top = "Loading"
  <2>1. \/ RunFirst \/ RunNotify \/ RunAddedLoading \/ RunAddedForm
        \/ LoadSession \/ Database \/ UNCHANGED vars
    BY <1>2, WhileLoading
  <2>2. CASE LoadSession
    <3>1. ~loaded /\ authUser' = keychain /\ savedPassword' = savedPassword
      BY <2>2 DEF LoadSession, KeychainLoad, appVars
    <3> QED BY <3>1 DEF PasswordInv
  <2>3. CASE ~LoadSession
    <3>1. loaded' = loaded /\ authUser' = authUser /\ savedPassword' = savedPassword
      BY <2>1, <2>3 DEF RunFirst, RunNotify, Call, RunAddedLoading, RunAddedForm, Database, vars,
         authVars, appVars
    <3> QED BY <1>2, <3>1 DEF PasswordInv
  <2> QED BY <2>2, <2>3
<1> QED BY <1>1, <1>2, TopMoves

(* The password of the profile, while the main screen is in hand. *)
LEMMA MainPassword ==
  ASSUME TypeOK, FlowInv, DeadInv, SigningInv, UnreadInv, PlaceInv, CreatedInv', SplashPlace,
         FreshInv, SplashInv, MainInv, PasswordInv, [Next]_vars,
         alive, alive' = alive, Top' = "Main", flow'.pc \in InHand
  PROVE  savedPassword' \in {None, currentUser'}
<1>1. CASE stack' = stack /\ Top' = Top /\ flow.pc \in InHand
  <2>1. UNCHANGED <<currentUser, savedPassword>>
    BY <1>1, MainFrame
  <2> QED BY <1>1, <2>1 DEF PasswordInv
<1>2. CASE stack' = stack /\ Top' = Top /\ flow.pc \notin InHand
  BY <1>2, MainReturns
<1>3. CASE RunAddedLoading /\ Top = "Loading" /\ listeners[Head(mainQ).who].at = Len(stack)
  BY <1>3, MainArrives DEF PasswordInv
<1> QED BY <1>1, <1>2, <1>3, TopMoves

(* Every step of the first process keeps the password in its place. *)
LEMMA NextPassword ==
  ASSUME TypeOK, FlowInv, DeadInv, SigningInv, UnreadInv, PlaceInv, CreatedInv', SplashPlace,
         FreshInv, OwnSignIn, SplashInv, MainInv, PasswordInv, [Next]_vars,
         KeychainFirst = TRUE, MaxLaunches = 1
  PROVE  PasswordInv'
<1>1. RestoreUsesOwnPassword'
  BY NextOwnPassword
<1>2. CASE Launch
  <2>1. launches = 0 /\ launches' = 1 /\ keychain' = keychain /\ savedPassword' = savedPassword
    BY <1>2 DEF Launch, TypeOK
  <2>2. ~loaded' /\ Top' = "Loading"
    BY <1>2 DEF Launch, DeadInv, Top
  <2> QED BY <1>1, <2>1, <2>2 DEF PasswordInv
<1>3. CASE Kill \/ CommitTraps
  <2>1. ~alive' /\ launches' = launches /\ alive
    BY <1>3 DEF Kill, CommitTraps, At, Dies
  <2> QED BY <1>1, <2>1 DEF PasswordInv
<1>4. CASE alive' = alive /\ alive
  <2>1. launches' = launches
    BY <1>4, OneLaunch DEF Launch
  <2>2. ~loaded' => savedPassword' \in {None, keychain'}
    BY <1>4, UnreadKept DEF PasswordInv
  <2>3. loaded' /\ Top' = "Loading" => savedPassword' \in {None, authUser'}
    BY <1>4, SplashPassword
  <2>4. Top' = "Main" /\ flow'.pc \in InHand => savedPassword' \in {None, currentUser'}
    BY <1>4, MainPassword
  <2> QED BY <1>1, <1>4, <2>1, <2>2, <2>3, <2>4 DEF PasswordInv
<1>5. CASE alive' = alive /\ ~alive
  <2>1. Reinstall \/ UNCHANGED vars
    BY <1>5, NextSteps, DeadStep DEF Launch, Kill, CommitTraps, At, LoadSession, Database
  <2>2. /\ launches' = launches /\ keychain' = keychain
        /\ savedPassword' = savedPassword \/ savedPassword' = None
    BY <2>1 DEF Reinstall, vars, authVars, appVars
  <2> QED BY <1>1, <1>5, <2>2 DEF PasswordInv
<1> QED BY <1>2, <1>3, <1>4, <1>5, ProcessSteps

-----------------------------------------------------------------------------
(* The invariant of the screens in the user's hands, where the keychain is *)
(* read before the listeners are called.                                   *)
HandsInv ==
  FreshInv /\ SplashPlace /\ SignInInv /\ OwnSignIn /\ SignedOut /\ SplashInv /\ MainInv

(* The invariant of the screens holds at first, ... *)
LEMMA InitHands == Init => HandsInv /\ PasswordInv
<1>1. SUFFICES ASSUME Init PROVE HandsInv /\ PasswordInv
  OBVIOUS
<1>2. Queued = {} /\ listeners = <<>> /\ ~alive /\ flow.pc = "idle" /\ savedPassword = keychain
  BY <1>1, ShortRanges DEF Init, Queued, Idle
<1>3. SplashPlace /\ SignInInv
  BY <1>1, <1>2 DEF SplashPlace, SignInInv, NoneBehind, Init
<1>4. FreshInv /\ OwnSignIn /\ SignedOut /\ SplashInv /\ MainInv
  BY <1>2 DEF FreshInv, OwnSignIn, SignedOut, SplashInv, MainInv
<1>5. PasswordInv
  BY <1>2 DEF PasswordInv, RestoreUsesOwnPassword
<1> QED BY <1>3, <1>4, <1>5 DEF HandsInv

(* ... and every step keeps it. *)
LEMMA NextHands ==
  ASSUME TypeOK, FlowInv, ToldInv, LoginInv, RestoreInv, RestoreInv', HandsInv, [Next]_vars,
         KeychainFirst = TRUE
  PROVE  HandsInv'
<1> USE DEF LoginInv, RestoreInv, HandsInv
<1>1. FreshInv' /\ SplashPlace' /\ SignInInv'
  BY NextFresh, NextSplashPlace, NextSignIn
<1>2. OwnSignIn' /\ SignedOut' /\ SplashInv'
  BY NextOwnSignIn, NextSignedOut, NextSplash
<1>3. MainInv'
  BY NextMain
<1> QED BY <1>1, <1>2, <1>3

(* The invariant of the screens in hand holds over any number of launches. *)
THEOREM HandsInductive ==
  ASSUME KeychainFirst = TRUE
  PROVE  Spec => [](TypeOK /\ FlowInv /\ ToldInv /\ LoginInv /\ RestoreInv /\ HandsInv)
<1>1. TypeOK /\ FlowInv /\ ToldInv /\ LoginInv /\ RestoreInv /\ RestoreInv' /\ HandsInv /\ [Next]_vars
        => HandsInv'
  BY NextHands
<1> QED BY <1>1, InitHands, RestoreInductive, PTL DEF Spec

(* Where the keychain is read before the listeners are called, the profile *)
(* behind the main screen in hand is that of the session, unless the       *)
(* session has no record: over any number of launches.                     *)
THEOREM ProfileInHand == ASSUME KeychainFirst = TRUE PROVE Spec => []ProfileMatchesSession
<1>1. HandsInv => ProfileMatchesSession
  BY RecordPlaces DEF HandsInv, MainInv, InHand, ProfileMatchesSession
<1> QED BY <1>1, HandsInductive, PTL

(* There, in the first process, the registering user is signed in again    *)
(* with that user's own password.                                          *)
THEOREM OwnPasswordUsed ==
  ASSUME KeychainFirst = TRUE, MaxLaunches = 1
  PROVE  Spec => []RestoreUsesOwnPassword
<1>1. TypeOK /\ FlowInv /\ LoginInv /\ RestoreInv /\ RestoreInv' /\ HandsInv /\ PasswordInv /\ [Next]_vars
        => PasswordInv'
  BY NextPassword DEF LoginInv, RestoreInv, HandsInv
<1>2. PasswordInv => RestoreUsesOwnPassword
  BY DEF PasswordInv
<1> QED BY <1>1, <1>2, InitHands, HandsInductive, PTL DEF Spec

=============================================================================
