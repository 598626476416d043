----------------------------- MODULE DetailForm -----------------------------
(***************************************************************************)
(* The details of the student who is signed in (DetailInfoController): the *)
(* controls behind its labels, the edit mode, and an update, which         *)
(* writes the whole record and reads it back through an observer.          *)
(*                                                                         *)
(* Class, birth date and gender stand for the group "basic", the weight, a *)
(* text that is written as a number, for the other three.  The year is a   *)
(* text as well, and written as it is.  A teacher is named by the class    *)
(* she teaches.                                                            *)
(***************************************************************************)
EXTENDS BirthDate, Sequences

CONSTANTS Classes,      \* the node "Classes", by name
          NoClass,      \* "không có": no class was chosen at the registration
          Genders,
          Days, Months, Years,  \* the birth dates that are tried
          Weights,      \* numbers that are typed
          NotANumber,   \* a text that is no number, and the nil it becomes
          FirstProfile, \* the record of the student to begin with
          Rejects,      \* may the server reject a write?
          MaxPending,   \* bound: writes and events under way
          MaxLaunches,  \* bound: launches of the app
          MaxPicks      \* bound: changes of a control

VARIABLES stored,       \* the record on the server
          pending,      \* the writes the server has not acknowledged
          mainQ,        \* the records read back, waiting for the main thread
          alive,        \* is the process running?
          launches,     \* launches so far
          picks,        \* changes of controls so far
          currentUser,  \* the global profile
          open,         \* is the screen open?
          arrClasses,   \* the classes the screen has loaded
          form,         \* what the controls hold
          editing,      \* the groups in edit mode
          alert,        \* the alert on the screen
          touched,      \* the fields changed since the last update
          slips         \* history: how resets and updates have gone wrong

dbVars == <<stored, pending, mainQ>>
appVars == <<alive, launches, picks, currentUser>>
viewVars == <<open, arrClasses, form, editing, alert, touched, slips>>
vars == <<dbVars, appVars, viewVars>>

Group == {"basic", "health"}
Alert == {"none", "confirm", "updated", "discard"}

(* "late": the form was reset before the last update had been read back;   *)
(* "torn": so, or by a change of the avatar, after a class had been picked;*)
(* "hasty": the form was reset while some, not all, classes were loaded;   *)
(* "mistyped": a text that is no number was typed where one is expected.   *)
(* And "refused": the server has rejected the last update since then.      *)
Slip == {"late", "torn", "hasty", "mistyped", "refused"}

Record == [class : Classes \cup {NoClass}, teacher : Classes \cup {NoClass},
           gender : Genders, day : Days, month : Months,
           year : Years \cup {NotANumber}, weight : Weights \cup {NotANumber}]

(* In a year in which every fourth is a leap year the calendar has the     *)
(* date; a year that is no number has no calendar.                         *)
Dated(r) == r.year \in Years /\ Regular(r.year) => Exists(r.day, r.month, r.year)

ASSUME DetailAssumption ==
  /\ NoClass \notin Classes /\ NotANumber \notin Weights \cup Years
  /\ Days \subseteq Day /\ Months \subseteq Month /\ Years \subseteq Nat
  /\ FirstProfile \in Record /\ FirstProfile.weight \in Weights
  /\ FirstProfile.class = FirstProfile.teacher
  /\ Dated(FirstProfile)
  /\ Rejects \in BOOLEAN
  /\ MaxPending \in Nat /\ MaxLaunches \in Nat /\ MaxPicks \in Nat

(* The record this client sees. *)
View == IF pending = <<>> THEN stored ELSE pending[Len(pending)]

Busy == alert # "none"
Free == alive /\ open /\ ~Busy

-----------------------------------------------------------------------------
(* setDefaultValueForComponet looks the class up in 0...arrClasses.count:  *)
(* a class that is not there is looked for behind the end of the array.    *)

(* With a bug: also while no class has been loaded. *)
TrapsUnloaded(u) == u.class \notin arrClasses

Traps(u) == arrClasses # {} /\ u.class \notin arrClasses

(* The controls get the profile's values; the gender and the teacher are   *)
(* left as they are, and so is the class while none has been loaded.       *)
Defaults(f, u) ==
  [f EXCEPT !.day = u.day, !.month = u.month, !.year = u.year, !.weight = u.weight,
            !.class = IF arrClasses = {} THEN @ ELSE u.class]

Refresh == form' = Defaults(form, currentUser)

(* How a reset can go wrong. *)
Hasty == IF arrClasses \in {{}, Classes} THEN {} ELSE {"hasty"}
Torn  == IF "class" \in touched THEN {"torn"} ELSE {}
Late  == IF mainQ = <<>> THEN {} ELSE {"late"} \cup Torn

(* The process ends, and with it all that is not on the server; of the     *)
(* writes, which leave in order, some may have got there.                  *)
Dies(writes) ==
  /\ alive' = FALSE
  /\ stored' \in {stored} \cup {writes[i] : i \in 1 .. Len(writes)}
  /\ mainQ' = <<>> /\ pending' = <<>>
  /\ open' = FALSE /\ arrClasses' = {} /\ editing' = {} /\ alert' = "none" /\ touched' = {}
  /\ currentUser' = FirstProfile /\ form' = FirstProfile
  /\ UNCHANGED <<launches, picks>>

ResetTraps(writes) == Dies(writes) /\ slips' = slips \cup Hasty

-----------------------------------------------------------------------------
(* viewDidLoad: every field of the controller comes from the profile. *)
Open ==
  /\ alive /\ ~open
  /\ open' = TRUE /\ arrClasses' = {}
  /\ form' = currentUser
  /\ editing' = {} /\ alert' = "none" /\ touched' = {}
  /\ slips' = IF mainQ = <<>> THEN slips \ {"late"} ELSE slips
  /\ UNCHANGED <<dbVars, appVars>>

(* What the controls of a screen that was left still hold is never seen.   *)
Back ==
  /\ Free
  /\ open' = FALSE /\ arrClasses' = {}
  /\ form' = FirstProfile /\ editing' = {} /\ touched' = {}
  /\ UNCHANGED <<dbVars, appVars, alert, slips>>

ClassArrives ==
  /\ alive /\ open
  /\ \E c \in Classes \ arrClasses : arrClasses' = arrClasses \cup {c}
  /\ UNCHANGED <<dbVars, appVars, open, form, editing, alert, touched, slips>>

(* The edit button of a group. *)
Edit ==
  /\ Free
  /\ \E g \in Group \ editing : editing' = editing \cup {g}
  /\ UNCHANGED <<dbVars, appVars, open, arrClasses, form, alert, touched, slips>>

Changes(fields, f) ==
  /\ form' = f /\ f # form
  /\ touched' = touched \cup fields
  /\ picks < MaxPicks /\ picks' = picks + 1
  /\ UNCHANGED <<dbVars, alive, launches, currentUser, open, arrClasses, editing, alert>>

Picks(fields, f) ==
  /\ Free /\ "basic" \in editing
  /\ Changes(fields, f) /\ UNCHANGED slips

(* With a bug: the picker sets the class and forgets the teacher. *)
PickClassOnly ==
  \E c \in arrClasses : Picks({"class", "teacher"}, [form EXCEPT !.class = c])

(* The class picker sets class and teacher from two arrays filled together. *)
PickClass ==
  \E c \in arrClasses :
    Picks({"class", "teacher"}, [form EXCEPT !.class = c, !.teacher = c])

PickGender == \E g \in Genders : Picks({"gender"}, [form EXCEPT !.gender = g])

PickDate ==
  \/ \E d \in Days : Picks({"day"}, [form EXCEPT !.day = d])
  \/ \E m \in Months : Picks({"month"}, [form EXCEPT !.month = m])

(* A text field: its keyboard allows any text. *)
Types(field, text) ==
  /\ Free
  /\ Changes({field}, [form EXCEPT ![field] = text])
  /\ slips' = slips \cup (IF text = NotANumber THEN {"mistyped"} ELSE {})

TypeYear ==
  "basic" \in editing /\ \E y \in Years \cup {NotANumber} : Types("year", y)

TypeWeight ==
  "health" \in editing /\ \E w \in Weights \cup {NotANumber} : Types("weight", w)

-----------------------------------------------------------------------------
(* "Done" and "Cancel", whose buttons are there in edit mode only. *)

Ask ==
  /\ Free /\ editing # {}
  /\ alert' \in {"confirm", "discard"}
  /\ UNCHANGED <<dbVars, appVars, open, arrClasses, form, editing, touched, slips>>

Decline ==
  /\ alive /\ alert \in {"confirm", "discard"}
  /\ alert' = "none"
  /\ UNCHANGED <<dbVars, appVars, open, arrClasses, form, editing, touched, slips>>

(* Discarding hides the controls and leaves their values alone. *)
Discard ==
  /\ alive /\ alert = "discard"
  /\ alert' = "none" /\ editing' = {}
  /\ UNCHANGED <<dbVars, appVars, open, arrClasses, form, touched, slips>>

(* Int(txtBirthYear.text!)! is reached on the 29th of February only. *)
YearTraps == form.month = 2 /\ form.day = 29 /\ form.year \notin Years

(* The year of any other date is not looked at: any number will do.        *)
DateRefused ==
  Refused(form.day, form.month, IF form.year \in Years THEN form.year ELSE 0)

SaveRefused ==
  /\ alive /\ alert = "confirm"
  /\ ~YearTraps /\ DateRefused
  /\ alert' = "none"
  /\ UNCHANGED <<dbVars, appVars, open, arrClasses, form, editing, touched, slips>>

(* The record is written and read back by a new observer; the controls are *)
(* then reset to the profile, which is still the one before the update,    *)
(* and success is announced.                                               *)
Save ==
  /\ alive /\ alert = "confirm" /\ Len(pending) < MaxPending /\ Len(mainQ) < MaxPending
  /\ ~YearTraps /\ ~DateRefused /\ ~Traps(currentUser)
  /\ pending' = Append(pending, form) /\ mainQ' = Append(mainQ, form)
  /\ Refresh
  /\ alert' = "updated" /\ slips' = (slips \ {"refused"}) \cup Hasty
  /\ UNCHANGED <<stored, appVars, open, arrClasses, editing, touched>>

(* The check of the date traps, or the reset after the write does.         *)
SaveTraps ==
  /\ alive /\ alert = "confirm"
  /\ \/ YearTraps /\ Dies(pending) /\ UNCHANGED slips
     \/ ~YearTraps /\ ~DateRefused /\ Traps(currentUser) /\ ResetTraps(Append(pending, form))

(* "Ok" on the success alert ends the edit mode. *)
EndsEditing ==
  /\ alive /\ alert = "updated" /\ ~Traps(currentUser)
  /\ editing' = {} /\ alert' = "none" /\ touched' = {}
  /\ UNCHANGED <<dbVars, appVars, open, arrClasses>>

(* With a bug: the controls are not reset a second time. *)
AcknowledgeOnly == EndsEditing /\ UNCHANGED <<form, slips>>

Acknowledge ==
  /\ EndsEditing /\ Refresh
  /\ slips' = slips \cup Hasty \cup Late

AcknowledgeTraps ==
  /\ alive /\ alert = "updated"
  /\ Traps(currentUser)
  /\ ResetTraps(pending)

-----------------------------------------------------------------------------
(* The last callback of a change of the avatar, which was started from     *)
(* this screen and covered it: the controls are reset to the profile, in   *)
(* whatever group they are being edited, and the edit mode goes on.        *)
AvatarChanged ==
  /\ Free /\ ~Traps(currentUser)
  /\ Refresh
  /\ touched' = touched \cap {"teacher", "gender"}
  /\ slips' = slips \cup Hasty \cup Torn
  /\ UNCHANGED <<dbVars, appVars, open, arrClasses, editing, alert>>

AvatarTraps ==
  /\ Free /\ Traps(currentUser)
  /\ ResetTraps(pending)

-----------------------------------------------------------------------------
(* With a bug: the profile is not made anew. *)
ReadBackIgnored ==
  /\ alive /\ mainQ # <<>>
  /\ mainQ' = Tail(mainQ)
  /\ UNCHANGED <<stored, pending, appVars, viewVars>>

(* With a bug: a number that is not there is taken for one. *)
ReadBackAnything ==
  /\ alive /\ mainQ # <<>>
  /\ currentUser' = Head(mainQ)
  /\ mainQ' = Tail(mainQ)
  /\ UNCHANGED <<stored, pending, alive, launches, picks, viewVars>>

(* The observer takes every field of the record by force: a number that    *)
(* was written as nil is not there.                                        *)
ReadBack ==
  /\ alive /\ mainQ # <<>> /\ Head(mainQ).weight # NotANumber
  /\ currentUser' = Head(mainQ)
  /\ mainQ' = Tail(mainQ)
  /\ UNCHANGED <<stored, pending, alive, launches, picks, viewVars>>

ReadBackTraps ==
  /\ alive /\ mainQ # <<>> /\ Head(mainQ).weight = NotANumber
  /\ Dies(pending) /\ UNCHANGED slips

Accept ==
  /\ pending # <<>>
  /\ stored' = Head(pending) /\ pending' = Tail(pending)
  /\ UNCHANGED <<mainQ, appVars, viewVars>>

Reject ==
  /\ Rejects /\ pending # <<>>
  /\ pending' = Tail(pending)
  /\ slips' = slips \cup (IF pending' = <<>> THEN {"refused"} ELSE {})
  /\ UNCHANGED <<stored, mainQ, appVars, open, arrClasses, form, editing, alert,
                 touched>>

(* The splash screen reads the record in the same way. *)
Relaunch ==
  /\ ~alive /\ launches < MaxLaunches /\ launches' = launches + 1
  /\ alive' = (stored.weight # NotANumber)
  /\ currentUser' = IF stored.weight # NotANumber THEN stored ELSE currentUser
  /\ slips' = slips \ {"refused"}
  /\ UNCHANGED <<dbVars, picks, open, arrClasses, form, editing, alert, touched>>

-----------------------------------------------------------------------------
Init ==
  /\ stored = FirstProfile /\ currentUser = FirstProfile
  /\ pending = <<>> /\ mainQ = <<>>
  /\ alive = TRUE /\ launches = 1 /\ picks = 0
  /\ open = FALSE /\ arrClasses = {} /\ form = FirstProfile
  /\ editing = {} /\ alert = "none" /\ touched = {} /\ slips = {}

Next ==
  \/ Open \/ Back \/ ClassArrives \/ Edit
  \/ PickClass \/ PickGender \/ PickDate \/ TypeYear \/ TypeWeight
  \/ Ask \/ Decline \/ Discard
  \/ SaveRefused \/ Save \/ SaveTraps \/ Acknowledge \/ AcknowledgeTraps
  \/ AvatarChanged \/ AvatarTraps
  \/ ReadBack \/ ReadBackTraps \/ Accept \/ Reject \/ Relaunch

Spec == Init /\ [][Next]_vars
=============================================================================
