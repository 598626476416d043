---------------------------- MODULE StudentForm ----------------------------
(***************************************************************************)
(* The form in which a student is registered (NewStudentController): what  *)
(* its controls hold and show, the check of the birth date, the password   *)
(* that is made of it, the record that is written when the account has     *)
(* been created, and the reset for the next student.  The session's part   *)
(* of the same chain of callbacks is in Session.                           *)
(*                                                                         *)
(* The email stands for the texts, which are all cleared by the reset.  A  *)
(* teacher is named by the class she teaches.                              *)
(***************************************************************************)
EXTENDS BirthDate, Sequences

CONSTANTS Classes,      \* the node "Classes", by name
          NoClass,      \* "Không có": no class was chosen
          Emails, NoEmail,
          Pictures, Camera,     \* images that are picked, and the placeholder
          Days, Months, Years,  \* the birth dates that are tried
          NotAYear,     \* a text that is no number
          FirstYear     \* the year the form proposes

ASSUME FormAssumption ==
  /\ NoClass \notin Classes /\ NoEmail \notin Emails /\ Camera \notin Pictures
  /\ 1 \in Days /\ Days \subseteq Day /\ 1 \in Months /\ Months \subseteq Month
  /\ FirstYear \in Years /\ Years \subseteq Nat /\ NotAYear \notin Years

VARIABLES registered,  \* the emails that have an account
          enrolled,    \* those that have a record
          pending,     \* the emails whose records are not acknowledged
          open,        \* is the form open?
          arrClasses,  \* the classes it has loaded, in their order
          form,        \* what its fields hold
          shown,       \* what radio buttons, image view and class picker show
          wheels,      \* the pickers that are still turning
          alert,       \* the alert on the screen
          account,     \* the account asked for: its email and password
          user,        \* the record that was handed to the database
          before,      \* has this form registered a student before?
          slips        \* history: has a picker settled while it was too late?

serverVars == <<registered, enrolled, pending>>
formVars   == <<arrClasses, form, shown, wheels>>
chainVars  == <<account, user, slips>>
vars == <<serverVars, formVars, open, alert, chainVars, before>>

Gender == {"Nam", "Nữ"}
Alert  == {"none", "confirm", "creating", "created", "restoring", "stuck", "success"}
Wheel  == {"date", "class"}
Date   == [day : Days, month : Months, year : Years \cup {NotAYear}]
Form   == [email : Emails \cup {NoEmail}, gender : Gender, picture : Pictures \cup {Camera},
           class : Classes \cup {NoClass}, teacher : Classes \cup {NoClass},
           day : Days, month : Months, year : Years \cup {NotAYear}]
Shown  == [gender : Gender, picture : Pictures \cup {Camera}, class : Classes \cup {NoClass}]
Account == [email : Emails \cup {NoEmail}, password : Date]

NewForm == [email |-> NoEmail, gender |-> "Nam", picture |-> Camera,
            class |-> NoClass, teacher |-> NoClass,
            day |-> 1, month |-> 1, year |-> FirstYear]

NewShown == [gender |-> "Nam", picture |-> Camera, class |-> NoClass]

NoAccount == [email |-> NoEmail, password |-> [day |-> 1, month |-> 1, year |-> FirstYear]]

DateOf(f) == [day |-> f.day, month |-> f.month, year |-> f.year]

Free == open /\ alert = "none"

(* What the callbacks have captured is gone with the last of them. *)
ChainOver == account' = NoAccount /\ user' = NewForm /\ slips' = {}

(* The fields of a form that is opened; the account is nobody's. *)
Fresh ==
  /\ arrClasses' = <<>> /\ form' = NewForm /\ shown' = NewShown /\ wheels' = {}
  /\ alert' = "none" /\ before' = FALSE /\ ChainOver

Open  == ~ open /\ open' = TRUE  /\ Fresh /\ UNCHANGED serverVars
Leave == Free   /\ open' = FALSE /\ Fresh /\ UNCHANGED serverVars

(* The process ends, or traps; a record on its way is lost or stored. *)
Ends ==
  /\ open' = FALSE /\ Fresh /\ pending' = <<>> /\ UNCHANGED registered
  /\ enrolled' \in {enrolled, enrolled \cup {pending[i] : i \in DOMAIN pending}}

Kill == open /\ Ends

-----------------------------------------------------------------------------
(* The controls. *)

(* The picker shows its first class as soon as there is one. *)
ClassArrives ==
  /\ open
  /\ \E c \in Classes :
       /\ \A i \in DOMAIN arrClasses : arrClasses[i] # c
       /\ arrClasses' = Append(arrClasses, c)
       /\ shown' = [shown EXCEPT !.class = IF arrClasses = <<>> THEN c ELSE @]
  /\ UNCHANGED <<serverVars, open, form, wheels, alert, chainVars, before>>

Sets(f, s) ==
  /\ Free /\ form' = f /\ shown' = s
  /\ UNCHANGED <<serverVars, open, arrClasses, wheels, alert, chainVars, before>>

TypeEmail  == \E e \in Emails : Sets([form EXCEPT !.email = e], shown)
TypeYear   == \E y \in Years \cup {NotAYear} : Sets([form EXCEPT !.year = y], shown)

(* With a bug: the button changes its colour only. *)
TapShowsGender == \E g \in Gender : Sets(form, [shown EXCEPT !.gender = g])

TapGender  == \E g \in Gender : Sets([form EXCEPT !.gender = g], [shown EXCEPT !.gender = g])
PickImage  == \E p \in Pictures : Sets([form EXCEPT !.picture = p], [shown EXCEPT !.picture = p])

(* A picker is turned.  It tells the form when it has come to rest, also   *)
(* behind an alert.                                                        *)
Turn ==
  /\ Free /\ \E w \in Wheel \ wheels : wheels' = wheels \cup {w}
  /\ UNCHANGED <<serverVars, open, arrClasses, form, shown, alert, chainVars, before>>

(* Class and teacher are taken from two arrays that are filled together.   *)
Settle ==
  /\ \E w \in wheels :
       /\ wheels' = wheels \ {w}
       /\ \/ w = "date" /\ UNCHANGED shown
             /\ \E d \in Days, m \in Months : form' = [form EXCEPT !.day = d, !.month = m]
          \/ w = "class"
             /\ \E i \in DOMAIN arrClasses :
                  /\ form' = [form EXCEPT !.class = arrClasses[i], !.teacher = arrClasses[i]]
                  /\ shown' = [shown EXCEPT !.class = arrClasses[i]]
       /\ slips' = slips \cup
            IF w = "date" /\ alert \in {"creating", "created"} THEN {"settled"} ELSE {}
  /\ UNCHANGED <<serverVars, open, arrClasses, alert, account, user, before>>

-----------------------------------------------------------------------------
(* btnXong. *)

Says(a) == alert' = a /\ UNCHANGED <<formVars, open, before>>

Done   == Free /\ Says("confirm") /\ UNCHANGED <<serverVars, chainVars>>
Cancel == alert = "confirm" /\ Says("none") /\ UNCHANGED <<serverVars, chainVars>>

(* Int(year)! is reached on the 29th of February only. *)
YearTraps == form.month = 2 /\ form.day = 29 /\ form.year \notin Years

(* The year of a date that is not the 29th of February is not looked at:   *)
(* any number will do for a text.                                          *)
DateRefused ==
  Refused(form.day, form.month, IF form.year \in Years THEN form.year ELSE 0)

OkTraps   == alert = "confirm" /\ YearTraps /\ Ends
OkRefused ==
  /\ alert = "confirm" /\ ~ YearTraps /\ DateRefused
  /\ Says("none") /\ UNCHANGED <<serverVars, chainVars>>

(* With a bug: the record is written before the account has been made. *)
OkWritesFirst ==
  /\ alert = "confirm" /\ ~ YearTraps /\ ~ DateRefused
  /\ account' = [email |-> form.email, password |-> DateOf(form)]
  /\ pending' = Append(pending, form.email)
  /\ Says("creating") /\ UNCHANGED <<registered, enrolled, user, slips>>

OkCreate ==
  /\ alert = "confirm" /\ ~ YearTraps /\ ~ DateRefused
  /\ account' = [email |-> form.email, password |-> DateOf(form)]
  /\ Says("creating") /\ UNCHANGED <<serverVars, user, slips>>

CreateRefused == alert = "creating" /\ Says("none") /\ ChainOver /\ UNCHANGED serverVars

(* With a bug: an email that has an account is gone on with. *)
CreatedAgain ==
  /\ alert = "creating" /\ account.email # NoEmail
  /\ registered' = registered \cup {account.email}
  /\ Says("created") /\ UNCHANGED <<enrolled, pending, chainVars>>

Created ==
  /\ alert = "creating" /\ account.email \notin registered \cup {NoEmail}
  /\ registered' = registered \cup {account.email}
  /\ Says("created") /\ UNCHANGED <<enrolled, pending, chainVars>>

(* The upload of the image or the commit of the profile fails; or there is *)
(* no link, and url! traps.                                                *)
AvatarFails == alert = "created" /\ Says("none") /\ ChainOver /\ UNCHANGED serverVars
LinkTraps   == alert = "created" /\ Ends

(* With a bug: the day and the month are exchanged. *)
EntrySwapped == [form EXCEPT !.day = form.month, !.month = form.day]

(* The record is made of the fields as they are now. *)
Entry == form

Write ==
  /\ alert = "created"
  /\ user' = Entry /\ pending' = Append(pending, Entry.email)
  /\ Says("restoring") /\ UNCHANGED <<registered, enrolled, account, slips>>

RestoreFails == alert = "restoring" /\ Says("stuck") /\ ChainOver /\ UNCHANGED serverVars
Restored     == alert = "restoring" /\ Says("success") /\ ChainOver /\ UNCHANGED serverVars

(* The texts, the image view and the colours of the radio buttons are      *)
(* reset; the gender, the image, the class, the day and the month are not. *)
DismissSuccess ==
  /\ alert = "success" /\ alert' = "none" /\ before' = TRUE
  /\ form' = [form EXCEPT !.email = NoEmail, !.year = FirstYear]
  /\ shown' = [shown EXCEPT !.gender = "Nam", !.picture = Camera]
  /\ UNCHANGED <<serverVars, open, arrClasses, wheels, chainVars>>

(* The server stores or rejects a record. *)
Answered ==
  /\ pending # <<>> /\ pending' = Tail(pending)
  /\ enrolled' \in {enrolled, enrolled \cup {Head(pending)}}
  /\ UNCHANGED <<registered, formVars, open, alert, chainVars, before>>

-----------------------------------------------------------------------------
Init ==
  /\ registered = {} /\ enrolled = {} /\ pending = <<>> /\ open = FALSE
  /\ arrClasses = <<>> /\ form = NewForm /\ shown = NewShown /\ wheels = {}
  /\ alert = "none" /\ account = NoAccount /\ user = NewForm
  /\ before = FALSE /\ slips = {}

Controls == TypeEmail \/ TypeYear \/ TapGender \/ PickImage \/ Turn \/ Settle

Xong ==
  \/ Done \/ Cancel \/ OkTraps \/ OkRefused \/ OkCreate
  \/ CreateRefused \/ Created \/ AvatarFails \/ LinkTraps \/ Write
  \/ RestoreFails \/ Restored \/ DismissSuccess

Next == Open \/ Leave \/ Kill \/ ClassArrives \/ Controls \/ Xong \/ Answered

Spec == Init /\ [][Next]_vars
=============================================================================
