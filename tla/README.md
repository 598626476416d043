# StarKids in TLA+

StarKids is an iOS application (Swift, `src/StarKids1/StarKids1/`) of a
kindergarten. A student signs in, chats with other students, reads and edits the
own details, and may register a new student. Everything is held by Firebase:
Auth (accounts and the session), the realtime database (nodes `Students`,
`Chat`, `ListChat`, `Classes`) and Storage (avatars). The rest of `src/` is the
vendored Firebase SDK (`src/StarKids1/Pods/`), of which the models take the
parts that decide in which order the app's callbacks run.

This directory holds the models, the TLC runs that check them and the proofs.
Below: the system, the models and how they correspond to the code, the runs,
the proofs, what is not covered, and the plan.

## 1. The system

### Components

| Component | Code | State | Operations | Modelled in |
|---|---|---|---|---|
| Splash screen | `Controller/LoadingViewController.swift` | global `currentUser` | auth-state listener, observer of the own record, avatar, next screen | Session |
| Login form | `Controller/ViewController.swift` | saved password (UserDefaults) | `btn_LogIn`, `gotoScreen` | Session |
| Menu | `Controller/MoreController.swift` | - | logout | Session |
| Registration | `Controller/NewStudentController.swift` | the captured `emailFlag`, alerts | `btnXong`: create account, upload, URL, commit, write record, sign out, sign in again, reload | Session (the session it borrows), StudentForm (the form and its record) |
| Auth client | `Pods/FirebaseAuth` | current user, keychain, listeners | load at launch, change of user, notification, sign-in, account creation | AuthClient |
| Database client | `Pods/FirebaseDatabase` | worker queue, cache, pending writes, observers | observe, setValue, acknowledgements, events | StudentsClient; again, in the form each needs, in Chat, DetailForm, AvatarUpdate and StudentForm |
| Chat | `Controller/ChatViewController.swift` | rows, key of the conversation | open, send, childAdded | Chat |
| Lists of chats and friends | `Controller/ListChatController.swift`, `ListFriendController.swift` | rows, global `visitor` | childAdded, select, cells | Chat (rows, selection), AvatarList (cells) |
| Student details | `Controller/DetailInfoController.swift` | controls, edit mode, loaded classes | edit, pick, cancel, update and its observer | DetailForm, BirthDate |
| Change of the avatar | `DetailInfoController.swift:389-737` | Storage object, `linkAvatar` | delete, upload, URL, commit, setValue, fetch | AvatarUpdate |
| Avatars in cells | `Model/User.swift` | image of a cell | `loadAvatar` | AvatarList |
| Record parsing | the `childAdded` handlers | - | forced casts of twenty fields | DetailForm (the number field), AvatarUpdate (the link) |
| Static screens, cells, app delegate | the other Swift files | none | - | not modelled |

### How they interact, and what is hard about it

All app code runs on the **main thread**. Nothing in it waits: it hands a
closure to the SDK and returns. The SDK has a work queue of its own for Auth and
one for the database; each appends blocks to the main queue. So every callback
runs some time after what caused it, in front of or behind callbacks of other
causes, and reads **globals** (`currentUser`, `visitor`, `Auth.auth().currentUser`,
the saved password) of that moment.

* **Listeners and observers are never removed.** Every splash screen adds an
  auth-state listener and every finished registration another one. After a few
  logouts there are many, each reacting to each change of the session; UIKit's
  refusal to present from a covered controller is what keeps their screens away.
* **Registration changes the session twice.** `createUser` signs the device in as
  the new account, the record is written in that session, then the device signs
  out and signs in again as the registering user with the password the login form
  saved. Any step may fail, and the process may end between any two.
* **Two stores for one session.** The SDK stores the session in the keychain, the
  app the password in UserDefaults, at different moments; deleting the app erases
  only the second.
* **Local writes come back at once.** `setValue` overlays the cache, so observers
  see a write before the server does, also one that the server will reject. No
  write of the app has a completion block.
* **The visitor of a chat is a global.** Two tabs can hold a chat each.
* **The update of the details resets its controls twice**, before and after the
  record has been read back, and not all of them; a change of the avatar in the
  middle of an edit resets them once more.
* **A change of the avatar is a chain of five requests that begins by deleting
  the old image.** Nothing undoes a step when a later one fails, and several
  devices may be signed in as one student.
* **The registration form reads its fields twice**: to check the date and make
  the password of it, and four requests later to write the record. A picker that
  is still turning changes them behind the spinner.
* **Cells are reused while their images are being fetched**, and each download
  sets the image of its cell whenever it ends.

What makes each component correct:

* session, profile, saved password and screen belong to the same account whenever
  the user can act; the login form is for signed-out users; success is announced
  only after success; a spinner or splash screen goes away;
* a chat shows each message of its conversation once, in order, on its author's
  side; a conversation is in the lists of both exactly when it has been started;
* the profile is the record that was saved; an update changes what the user
  changed; class and teacher belong together; the birth date exists;
* the link in a record is served and is that of the image the student chose; a
  cell shows the image of its row;
* a student is written as the form shows him, with the birth date the password
  was made of, and has a record when he has an account.

`PROJECT.json` lists the hazards with their lines and the properties that cover
them.

## 2. The models

### Session: `MainQueue`, `AuthClient`, `StudentsClient`, `Session`

One installation of the app, over any number of launches.

`MainQueue` is the sequence `mainQ` of blocks for the main thread. A block is
named for what runs it: `first` (a new listener's first call), `notify` (the
posted notification; its observers are called one by one within one block, so
that the auth work queue may change the user between two of them but no tap gets
in), `added` (a `childAdded` event), and the completions `signedIn`, `signedUp`,
`restored`.

`AuthClient` has the accounts of the server, the session in the keychain, the
user in memory, and the listeners with the uid each saw last (`FIRAuth.m`:
`initWithAPIKey:` 379-401, `addAuthStateDidChangeListener:` 1337-1378,
`possiblyPostAuthStateChangeNotification` 1583-1610, `updateCurrentUser:` 1836).
The user is nil until the work queue has read the keychain. A change to the user
writes the keychain and the variable and posts a notification, unless nobody was
signed in before and after.

`StudentsClient` has the keys of the records at the server, whether the data has
reached the device, the local writes not yet acknowledged, the calls queued for
the worker and the observers waiting for their own child.

`Session` is the app. `stack` is the sequence of presented screens, which the app
never dismisses; `modal` the alert above them; `flow` the sign-in or registration
in progress, whose `pc` names the completion it waits for:

| Step of `btnXong` | Action | Leaves `pc` at |
|---|---|---|
| "done" tapped, `emailFlag` captured (139) | `TapDone` | `confirm` |
| alert answered, date checks (144-172) | `ConfirmOk`, `ConfirmDropped` | `creating` |
| `createUser` at the server, answer on the work queue, completion (172) | `CreateAtServer`, `CreateAnswered` or `CreateFailed`, `RunSignedUp` | `uploading` |
| `putData` (176-183) | `Uploaded`, `UploadFailed` | `fetchingUrl` |
| `downloadURL`, its error ignored (183-188) | `UrlAnswered` | `committing`, `stuck` |
| `commitChanges`, record written, `signOut`, `signIn` sent (188-206) | `Committed`, `CommitFailed`, `CommitTraps` | `restoring` |
| `signIn` answered (206-216) | `RestoreAccepted`, `RunRestored`, `RestoreRefused` | `reloading`, `stuck` |
| own record read again (219-276) | `RunAddedForm` | `idle`, success shown |

Abstractions and assumptions:

* A password is the account it belongs to; the user types the right one or is
  refused. The email of a profile is its uid.
* Screens pushed inside the main screen's navigation are left out: `Main` stands
  for all of them.
* A network completion that touches only main-thread state (`putData`,
  `downloadURL`, `commitChanges`, refusals) runs when `mainQ` is empty, instead of
  as a block of its own: nothing it does depends on what is queued before it.
* The two reads of `Auth.auth().currentUser` in one callback are one read.
* Reads of the database continue over a sign-out, and every write may be accepted
  or rejected: the server's rules are not part of the repository.
* A registration without a saved password ends the process (206) when the record has
  just been sent (196) and the session left (201): `CommitTraps` leaves open whether
  the record still reaches the server.
* A failure to write the keychain is left out.
* `KeychainFirst` says whether the keychain has always been read before the first
  listener is called. Nothing in the code ensures it. With it FALSE the profile and
  the saved password may be of another account than the session; and so may the
  password when the process ends between the storing of a session and the saving of
  the password. `ProfileMatchesSession` and `RestoreUsesOwnPassword` do not hold then;
  they are checked, and proved, with it TRUE, the second with one launch. The others,
  except `CommitsAsNewStudent`, which is proved for both, are checked with it FALSE
  over several launches.

### Chat: `Chat`

Several devices, each with one user; a device has up to two tabs, a chat open in
each, and the global `visitor`. A message is a key, an author and an addressee;
`Between` is the node both sorted ids name. `log` is what the server stored, in
its order; `known` is a device's cache, `outbox` its unacknowledged writes.
`Select` is `didSelectRowAt` of either list with `viewDidLoad` of the chat it
pushes; when the avatar cannot be downloaded the visitor is set and no chat
opened. `Send` is `btn_Send` with `addListChat`: one message and, if the screen
shows nothing, two entries, for the *visitor*, while the message goes to the
conversation of the *screen*. `RunEvent` appends a row with the user object
`Author` takes. `Sync` is the first answer to a listen, `Arrive` a later addition,
`Reject` takes a write out of the cache, and `Kill` ends a process (persistence is
off, so that the cache and the outbox go with it).

The worker queue of the database is folded into the main thread's call: its calls
are handled in order and it touches nothing else; its events still wait in
`mainQ`. A popped chat's observer stays registered, but nobody sees its arrays:
its events are dropped.

Environment assumptions, each a constant: with `SteadyClock` a device's push ids
are increasing (`PeerOrder` needs it: ids are made from the device's clock);
`Tabs` with one element keeps the visitor equal to the peer of the open chat
(`AuthorShown` and `StartedIsListed` need it: with two, a row is given the user
object of whoever was selected last, and an entry is filed under that user);
`Rejects` allows the server to refuse a write (a refused message then stays on the
sender's screen).

### Abstract specifications: `Registration`, `Conversation`

`Registration` says what registering a student means for the device it is done
on, without queues, listeners, screens or services: the session is lent to the new
student, who gets a record while it is his, and is back with its owner before
success is announced; at any point the registration may be abandoned, or cut short
just after its record was sent.
`SessionProperties!IsRegistration` reads it off the state of `Session` (`stage`
from `flow.pc` and the alert, `device` from the keychain, `records` from the
server, the cache and the worker's queue together) and states that every behaviour
of `Session`, with its crashes, races and rejected writes, is one of
`Registration`. A rejection is a step of the abstract module too: nobody is told
of it.

`Conversation` says what a chat promises: students post, a server stores, and a
window shows each message of its conversation once, a message of the peer's only
when it is stored, and takes none back while it is open.
`ChatProperties!IsConversation` takes each tab of a device for a window.

### Chat, under failures

`Reconnect` breaks the connection of a device and makes it again: the server may
have stored any number of the writes whose answers are lost, all are sent again,
and every conversation is listened to anew. Only transactions are cancelled with a
connection (`FRepo.m`, `FPersistentConnection.m`), and the app uses none. Stores
are idempotent, because a message is set under a key of its own. `Kill` loses what
was not stored.

### Student details: `DetailForm`, `BirthDate`

One student's screen, over any number of updates, launches and changes of the
avatar. A record is reduced to what the handlers treat differently: the class and
the teacher (picked together, reset apart), the gender (picked, never reset), day,
month and year (checked), and one number field. A teacher is named by the class
she teaches; a weight that is no number is the nil that `Int(text)` writes, which
removes the field. `Save` is one handler: the write, a new observer, the reset of
the controls to the profile *before* the write, the success alert. `Traps` is the
search of the class in `0...arrClasses.count`. `Dies` ends the process, after some
prefix of the writes has left. `AvatarChanged` is the last callback of a change of
the avatar, which resets the controls whatever group is being edited. The labels
are left out: they are set with the controls or from them.

All four ways the screen ends the process are modelled: the forced conversion of
the year (237), which is reached on 29 February only and before anything is
written; the search behind the end of the classes, in the reset after the write
(287), in that of the alert (304) and in that after a change of the avatar (693);
the number that is read back as missing (264), and the same at the splash screen of
a later launch.

`slips` is a history of how a reset or an update has gone wrong, where the code
does not rule it out. Each is recorded from its cause, never from what it does:
"late" (the alert was answered before the update had been read back: nothing orders
the answer behind the two queues the event crosses), "torn" (the controls were
reset by a change of the avatar, or late, after a class had been picked), "hasty"
(they were reset while some classes were loaded and others not), "mistyped" (a text
that is no number was typed) and "refused" (the server rejected the last update).
The properties say that nothing else goes wrong: `UntouchedKept` except after
"late", `TornOnlyByReset` except after "torn", `ProfileIsSaved` except after
"refused", `ThrownOutCauses` except after "mistyped" and "hasty". `touched` has the
fields changed since the last update.

`BirthDate` has the date check, which both forms share, and the calendar it is
compared with.

### Change of the avatar: `AvatarUpdate`, `AvatarProperties`

Any number of devices signed in as one student. `object` is the upload whose image
the storage has, if any; links and images are numbered by upload, and a link is
served as long as the object is that of its upload. `pc` names what the user of a
device waits for. One action per completion of the chain (`Deleted`, `Uploaded`,
`UrlAnswered`, `Committed`, `Read`) and one per way it fails, each in the outcomes
the code distinguishes: the error of a deletion and of the last fetch leaves the
spinner for ever (`stuck`), that of an upload or commit takes it away, that of
`downloadURL` is not looked at and traps on `url!` one request later. A failed
deletion or upload may have been done all the same: its answer was lost. `writes`
are the links written and not acknowledged, since `setValue` has no completion
here either. `Dies` and `Launch` add the splash screen, which fetches the image of
the link in the record and is left only with it; `Kill` may end a process at any point,
any number of times.

The record's link has a second writer: an update of the details writes the whole
record, with the link of the device's own profile (`DetailInfoController.swift:243`),
which nothing refreshes when another device changes the avatar. `UpdateDetails` is
that update as far as the link is concerned, `ReadBack` its observer, which makes the
profile anew from what was written, and `DismissUpdated` the answer to its alert. So
a device that has not seen the last change writes the dead link back.

A request, its answer and its completion are one step: the spinner takes all
touches, a completion changes only what is the device's own, and what another
device does between execution and completion could as well be done before or after
both. `slips` names what has gone wrong: `noUpload` (deleted and none uploaded),
`noRecord` (uploaded and its link not recorded), `overlap` (a change begun while
another device was changing the avatar or had a link on its way, or an update of the
details made then with another link), `stale` (an update of the details made on a
device whose profile has another link than the record as that device sees it),
`refused` (a deletion that failed although the object was there), `unread`.

### Avatars in cells: `AvatarList`

Extends `AvatarUpdate` by a list on another student's device: rows keep the link
they were given when they were added (in the list of chats, that of the time the
conversation began), a table has fewer cells than rows, and each time a cell is
given a row a download is started. Rows of students who do not change their avatar
are always served. The composition lets the student's link die while a download of
it is under way. `recorded` has the links the record has had, of which a row of an
earlier time may keep any. `causes` is reset when a cell is given a row.

### Registration form: `StudentForm`, `StudentFormProperties`

What the fields hold (`form`) and what the screen shows (`shown`), which part when
a form is reset for the next student: gender and image are shown anew and not
reset. A picker is turned while the form is free and comes to rest at any time
(`Settle`), also behind an alert. `OkCreate` checks the date and makes the password
of it; `Write` reads the fields again for the record. Between them the account is
made and the image uploaded, with every failure and trap of the chain; the email
stands for the texts. The class picker shows its first class while the field is
still "Không có". `Session` has the same chain seen from the session; the two share
the names of the steps.

## 3. The runs

All bounds are constants: accounts, launches and depth of screens (`MaxLaunches`,
`MaxStack`), messages, kills and broken connections (`MaxMessages`, `MaxKills`,
`MaxCuts`), writes under way and changes of controls (`MaxPending`, `MaxPicks`),
uploads and processes (`MaxUploads`, `MaxLaunches`), rows and downloads
(`MaxRows`, `MaxLoads`). `StudentForm` needs none: its sets are finite.
`CHECK_DEADLOCK FALSE` everywhere, because the app may really stop: it is closed
and not opened again, or stands under a spinner.

| Run | Instance | What it shows |
|---|---|---|
| `session` | 2 enrolled, 2 new accounts, 1 launch, 4 screens | `ProfileMatchesSession`, `RestoreUsesOwnPassword`, `CommitsAsNewStudent`, over logins, a logout and registrations that succeed or fail anywhere |
| `session_crash` | 3 accounts, 3 launches, kills, reinstalls, rejected records, 6 screens, launch race, fair | `SuccessMeansRestored`, `RegistrationCovered`, `ListenersUpToDate`, `LoginShownWhenSignedOut`, the refinement `IsRegistration`, `SpinnerEndsOrSignedOut`, `SplashLeft` |
| `chat` | 2 devices, 3 students, 2 messages, 1 tab | `AuthorShown`, `PeerOrder`, `StartedIsListed` |
| `chat_tabs` | 2 devices, 3 students, 2 tabs, unsteady clocks, rejections | `OwnSide`, `ShownOnce`, `ShowsConversation` |
| `chat_live` | 2 devices, 1 message, a kill and a broken connection, fair | `ListedIsStarted`, the refinement `IsConversation`, `Delivered`, `SentIsStored` |
| `details` | 2 classes, 2 genders, 29 and 30 April and February, a common year and a text, 2 changes, rejections, 2 launches | `TornOnlyByReset`, `UntouchedKept`, `ThrownOutCauses`, `ProfileIsSaved`, `ValidDate` |
| `details_discard` | violation | cancelled changes stay in the controls |
| `details_teacher` | violation | the old class is written with the new teacher |
| `details_unplaced` | violation | the update of a student without a class ends the process |
| `avatar` | 2 devices, 3 uploads, 2 launches, an update of the details under way on each, every request failing, fair | `OneUploader`, `DeadLinkCauses`, `SuccessIsRecorded`, `GoneForGood`, `SpinnerEnds` |
| `avatar_list` | 2 cells, 3 rows, 5 downloads, 2 uploads | `ImageCauses` |
| `form` | 2 emails, 2 classes, 1 and 29 January and February, a common year and a text | `PasswordIsBirthDate`, `ValidBirthDate`, `WrittenAsShown`, `NeverFinished` |

Why the bounds are enough to meet the interesting cases: two enrolled accounts
and one new one are needed for a profile, a session and a password of three
different accounts; a second new one for two registrations in a process; four
screens are splash, main, login and splash again, after which the listener of the
first splash screen is still there; six allow two logouts. Three students are one
more than a chat has, so that the visitor can be somebody else. Two messages, of
one or of both, give one in the history and one that comes alone. One message is
enough for a broken connection: its three writes are cut at any point and sent
again, while the peer watches. Two launches meet the state a crash left behind.
Two changes of controls are two in one edit, or one in each of two updates, and take
the first date to 29 February, or to 30 February; the finding of the teacher has
three. Three uploads are the first and two changes, which overlap or follow each
other; two launches are one of each device, or two of one, the second after a crash.
An update of the details under way on each device meets a change on the other at any
point of it. Three rows are one more than the cells, so that a cell
is used again; five downloads let two of one cell be under way. Two emails are two
students registered in one form, the second over what the first left.

Every property has a mutant in `PROJECT.json`, a definition changed as a
programming error would change it (the `With a bug` operators in the modules), on
which its run must fail.

### Fairness

`Session!Fairness` is weak fairness of the main thread, of the two SDK queues, and
of each answer a service owes: the operating system runs its queues and the SDK
ends every request with a result or a timeout. Taps, launches, kills and the
server's creation of an account are not fair. `SpinnerEndsOrSignedOut` says that
under this alone a spinner ends, except where the code really leaves it: signed
out, after the sign-in was refused or the new account had no user. `SplashLeft` is
checked with avatars that load: without one the splash screen is never left
(`LoadingViewController.swift:90`), nor with a session of an account that has no
record. `Chat!Fairness` is the same for the main thread and the connection: kills
and broken connections are bounded, and what is lost with a process is what
`SentIsStored` excepts. `AvatarUpdate!Fairness` says that every request is answered
and every write stored or rejected; under it `SpinnerEnds` holds until something
fails, and not after, because a spinner then may stay.

### Findings

* `ChangesDiscarded`: the question "Bạn muốn huỷ thay đổi không?" (discard the
  changes?) answered with Ok hides the controls and keeps the changes, which the
  next update writes.
* `TeacherOfClass`: the picker sets class and teacher together; the reset after a
  change of the avatar takes back the class only, and the next update writes the
  old class with the teacher of the other.
* `UpdateSurvives`: a student registered without a class ("Không có") cannot
  update anything: the search for the class runs one index too far and traps.

What the histories except is the code's behaviour too, and no document says
otherwise: a dead link after a change that was cut short, which locks its student
out of the app at the splash screen; an image that can never be replaced, because
each change begins with a deletion that is then refused; a student with an account
and no record, whose registration cannot be finished; the gender and the image of
the previous student in the record of the next.

## 4. The proofs

For all values of the constants, from the named assumptions of the modules. Where a
theorem needs more, its statement says so (`ASSUME ... PROVE`): a steady clock, one
tab, no rejections, a keychain read first, one launch. These are the conditions of section 2 under which the code keeps
the property, not bounds.

`SessionProofs` (`NoneIsNoAccount`, `RejectsIsKnown`, `SessionAssumption`):

* `Inductive`: `TypeOK /\ FlowInv`. Typing alone is not inductive: `Committed`
  writes a record under `authUser` and `Observe` takes an account, so that one has
  to know that no step is taken for a nil user, and that an alert covers the form
  for as long as a flow is under way, so that no tap changes the session in the
  middle of it. `FlowInv` says that: an alert is there in every flow; from the
  creation of an account to its record the session, on disk and in memory, is the
  new account's or nobody's; the registration form is on top, covered.
* `TypeCorrect`, `FormStaysCovered` (`RegistrationCovered`) and `RecordUnderOwnKey`
  (`CommitsAsNewStudent`) follow from it.
* `ProfileBeforeMain`: the main screen, whose controllers unwrap the profile, is
  never presented without one. Only `RunAddedLoading` presents it, in the step that
  sets the profile; no other step resets the profile without ending the process.
* `ToldAll` (`ListenersUpToDate`), from `ToldInv`: a listener whose last uid is not
  the current user's has its first call or a notification in the queue, or is still
  to come in the notification being run. A notification is one block for all
  listeners registered before it, hence `Tells`.
* `LoginFormSignedOut` (`LoginShownWhenSignedOut`), from `LoginInv`: a dead process
  has nothing in memory; a sign-in runs on the login form with its answer on the
  way; before the keychain has been read the queue can hold the first listener's
  call only. Without the last part the exception of the property could not be told
  from a second login form.
* `RestoreInductive` and `AnnouncedAfterReturn` (`SuccessMeansRestored`), from
  `RestoreInv`. The success alert is raised by whatever record reaches the form's
  listener, so that one has to know that no other record is on its way to it.
  `RecordInv` and `PlaceInv` say whose records there are and where listeners live;
  `SyncedInv` that nothing has been raised before the server's data; `BackInv` that
  from the answered sign-in on the device is the registering user's; `ReplyInv` that
  the answer runs behind every block that tells a listener; `ReloadInv` follows the
  form's listener, the newest one, from there through its call, its `observe` call,
  the server's data and its event; `QuietInv` and `CreatedInv` say that before and
  after it hears of no record.
* `RegistersStudents` (`IsRegistration`): the refinement. Every step of the app, the
  services, the queues or the user is a step of the abstract `Registration` or a
  stutter.
* `ProfileInHand` (`ProfileMatchesSession`), for `KeychainFirst = TRUE` and any number
  of launches, from `HandsInv`. Listeners and observers are never removed and each of
  them may set the profile, so that one has to know, by the screen on top, whose
  records are on their way (`OnlyFor`). On the login form nobody's are
  (`SignedOut`), and the answer of a login runs when every listener has been told
  (`SignInInv`, `OwnSignIn`). On a splash screen they are those of the session, and
  its own listener's is the last one to come: `SplashInv` follows it from its call
  through its `observe` call and the server's data to its event, beside observers of
  earlier screens for the same record. On the main screen none is left, and a session
  of another account has no record (`MainInv`). A registration returns to it through
  `CreatedInv`.
* `OwnPasswordUsed` (`RestoreUsesOwnPassword`), when besides the app is launched once,
  from `PasswordInv`: the saved password is that of the keychain before it has been
  read, of the session on a splash screen and of the profile on the main screen,
  unless it was erased with the app.

`SessionProofs` has one lemma per group of actions that change the same variables
(answers, login, form, record, main thread), one for the typing of each helper,
and combines them in `NextTyped`, `NextFlow` and one such lemma per invariant.

`ChatProofs`, `ChatScreenProofs`, `ChatServerProofs` (`ChatAssumption`; any students,
devices and tabs):

* `ChatTypeCorrect` (`TypeOK`), from `BaseInv`. The types need that everything
  cached, queued or stored was sent, a write by the user of its device, and that
  nobody is her own visitor or peer: `Send` makes a message for the peer and two
  entries for the visitor, and each must be another student.
* `ChatShownOnce`, `ChatShowsConversation`, `ChatOwnSide`, from `WriteInv` and
  `WindowInv`. The first: no message is written twice in an outbox, and one by
  another is in a cache only when stored. The second relates cache and screen: a
  known message of an open chat is in a row or in an event waiting for it, and in
  one of them only. Screen and queue are one line there (`Ahead`), because an event
  that runs moves a message from the one to the other.
* `ChatAuthorShown`, for one tab: the visitor is then whom the open chat is with.
* `ChatIsConversation`: the refinement `IsConversation`, with any number of tabs,
  rejections and kills.
* `ChatPeerOrder`, for a steady clock, from `OrderInv`: the messages of a sender are
  in an outbox, and then in the log, in the order of their keys, and what a device
  knows of a peer's messages begins with the first, so that first data and later
  additions come in that order too.
* `ChatListedIsStarted`, for one tab and no rejections, from `ListInv`: ahead of a
  pending entry the same outbox holds the message that starts the chat, or it has
  been stored.
* `ChatStartedIsListed`, when besides no process ends, from `SentListed`: each
  message that was sent has both entries stored or under way. Only the first
  message of a chat writes them; that a later one has them follows from the rows of
  its screen, which are messages that were sent before.

`BirthDateProofs`: `RefusedIsCalendar`, the three refusals are exactly the dates
the calendar lacks, in every year except those divisible by 100 and not by 400. It
is used for both forms.

`DetailFormProofs` (`DetailAssumption`):

* `DetailTypeCorrect`: types, including that a profile in memory has its number.
* `NoInvalidDate` (`ValidDate`): `DateInv` adds to the types that the stored record
  and *every* pending write are dated; the last pending write alone, which
  `ValidDate` speaks of, is not inductive, since a rejection or the end of the
  process uncovers an earlier one.
* `TeacherKeptWithClass` (`TornOnlyByReset`): `WholeInv` says that as long as no
  reset of the wrong kind has been made, class and teacher belong together in the
  record, the profile, every write and event under way, and in the controls unless
  the success alert covers them: `Save` tears the controls, `Acknowledge` mends them.
  "torn" is recorded from what caused it, the reset after a pick; that a reset
  without a pick tears nothing apart is what has to be proved: the controls then hold
  the class of the profile or, behind the alert, of what will be read back.
* `ProfileFollowsRecord` (`ProfileIsSaved`), from `SavedInv`: the last record that
  waits for the main thread, or else the profile, is the last one written.
* `UpdateKeepsUntouched` (`UntouchedKept`), from `HeldInv`: every field that was not
  touched holds what the profile holds, and behind the success alert the fields that
  it does not reset hold what will be read back.
* `NobodyThrownOut` (`ThrownOutCauses`): by induction over any number of updates,
  rejections, launches and records read back late, every record stored, written, read
  back or shown names one of the classes, a year and a number (`SoundInv`), so that none
  of the traps can be taken, nor a later launch be refused.

`AvatarProofs` (`AvatarAssumption`, `ListAssumption`; any finite set of devices):

* `AvatarTypeCorrect`: the types, with `Room`: the uploads made and those begun fit
  the bound, counted with the cardinality lemmas of the library.
* `DeletionIsLock` (`OneUploader`), from `LockInv`: an upload is made only behind a
  deletion, and a deletion is done only when an object is there; and once an upload
  was lost, no object and no uploader is left.
* `LostForGood` (`GoneForGood`): once no object is there and nobody is about to
  upload, this stays so, over any number of changes, updates and launches of any
  devices. It is false as soon as the error of a deletion is ignored.
* `DeadLinksHaveCauses` (`DeadLinkCauses`), from `ChangeInv`: while no upload was
  lost, no link left unrecorded and no change overlapped with another or with an
  update elsewhere, a device that changes the avatar is the only one with anything on
  its way, and its stage says where the object and the link are (`Accounted`); while
  besides no update was made out of date, between two changes the record has the
  object's link, or it is the last that any device has on its way (`Followed`). An
  answer of `downloadURL` is then the link of its own upload.
* `SuccessFollowsRecord` (`SuccessIsRecorded`), from `Accounted` alone, which
  survives an update made out of date before the change began. A lost upload is no
  exception there: after it nothing can be fetched back.
* `ImagesHaveCauses` (`ImageCauses`, of `AvatarList`), from `ListInv`: a cell shows
  its row, or has a cause not to, or the download of *that* row is under way. The
  types of the list need those of the avatar it watches.

`StudentFormProofs` (`FormAssumption`):

* `FormTypeCorrect`: types, with `ChainInv`: every record on its way is that of an
  email with an account, and the form still names the account asked for while it is
  being made.
* `PasswordTellsDate` and `BirthDateExists`, from `DateInv`: from the check to the
  record the fields keep what was checked and made the password, unless the date
  picker comes to rest in between.
* `FirstAsShown` (`WrittenAsShown`), from `ShownInv`: until a student has been
  registered, gender and image are set together with what shows them; a class is
  the one shown or none, and none is chosen before one was loaded.
* `CutShortForEver` (`NeverFinished`): `Unfinished` is kept by every step.

Only model-checked:

* all liveness (`SpinnerEndsOrSignedOut`, `SplashLeft`, `Delivered`, `SentIsStored`,
  `SpinnerEnds`): fairness and ENABLED are out of the prover's reach;
* the findings, which are single counterexamples.

## 5. Not modelled

* Layout, colours, keyboard, the static tabs, the labels of the details: no state
  that decides anything.
* The parsing of a record field by field: the app writes all fields together, so
  that only the number fields, which may be written as nil, can be missing.
* The login form's own `isLogin`, which nothing calls.
* Firebase beyond the interplay above: token refresh, other providers, database
  queries, transactions and persistence, the wire protocol, Storage's transfer
  tasks. A failure to write the keychain.
* Time: taps and answers come in any order; no timeout is measured.

Firestore, gRPC, BoringSSL, leveldb, nanopb and most of the rest of
`src/StarKids1/Pods/` are vendored and not used by the app's code at all, or only
below the interfaces modelled here. They are almost all of the repository's C, C++
and Objective-C; the program itself is some 2,200 lines of Swift. A count of
modelled lines over the C and C++ sources says therefore nothing about this
project: every Swift file with behaviour is modelled, and of the vendored code only
those parts of FirebaseAuth, FirebaseDatabase and FirebaseStorage that decide in
which order the app's callbacks run.

## 6. Plan

1. Done: all modules above, with their runs; every safety property of a passing run
   and both refinements proved.
2. An abstract specification of the auth client (a user, and what each listener was
   told last), refined by `AuthClient` with its queue.
3. The proofs of `NextSignIn` and `NextReply`, which follow two answers in the same
   way, as one, over the name of the answer.
