----------------------- MODULE StudentFormProperties -----------------------
(***************************************************************************)
(* What the form promises about the student that is written.               *)
(***************************************************************************)
EXTENDS StudentForm

(* Every variable has its type. *)
TypeOK ==
  /\ registered \subseteq Emails /\ enrolled \subseteq registered
  /\ pending \in Seq(Emails) /\ open \in BOOLEAN /\ arrClasses \in Seq(Classes)
  /\ form \in Form /\ shown \in Shown /\ wheels \subseteq Wheel
  /\ alert \in Alert /\ account \in Account /\ user \in Form /\ before \in BOOLEAN
  /\ slips \subseteq {"settled"}

(* A record is under an email for which this form has just made the        *)
(* account, and its birth date is the password of that account, although   *)
(* the fields are read again after four requests, unless the date picker   *)
(* was still turning when the first of them was made.                      *)
PasswordIsBirthDate ==
  alert = "restoring" =>
    /\ user.email = account.email /\ user.email \in registered
    /\ DateOf(user) = account.password \/ slips # {}

(* No birth date that the calendar does not have is written, in a year     *)
(* that is a number and one in which every fourth is a leap year, unless   *)
(* the date picker came to rest after the check.                           *)
ValidBirthDate ==
  alert = "restoring" /\ slips = {} /\ user.year \in Years /\ Regular(user.year) =>
    Exists(user.day, user.month, user.year)

(* The first student of a form is written as the form shows him: with the  *)
(* gender of the yellow button, the image in the view and the class in the *)
(* picker, or none when the picker was never turned.  For the next one     *)
(* that holds of the class only.                                           *)
WrittenAsShown ==
  [][user' # user /\ alert' = "restoring" =>
       /\ user'.class \in {shown.class, NoClass}
       /\ (user'.gender = shown.gender /\ user'.picture = shown.picture) \/ before]_vars

(* A student whose registration was cut short after the account had been   *)
(* created is never registered again: the email is taken, no later attempt *)
(* gets past that, and no record is written.                               *)
Unfinished(e) ==
  /\ e \in registered \ enrolled /\ \A i \in DOMAIN pending : pending[i] # e
  /\ ~ (alert = "created" /\ account.email = e)

NeverFinished == [][\A e \in Emails : Unfinished(e) => Unfinished(e)']_vars
=============================================================================
