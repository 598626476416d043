------------------------ MODULE DetailFormProperties ------------------------
(***************************************************************************)
(* What the details screen promises the student.                           *)
(***************************************************************************)
EXTENDS DetailForm

(* Every variable has its type; a profile that could be read has a number  *)
(* where the code keeps one.                                               *)
TypeOK ==
  /\ stored \in Record /\ pending \in Seq(Record) /\ mainQ \in Seq(Record)
  /\ alive \in BOOLEAN /\ launches \in Nat /\ picks \in Nat
  /\ currentUser \in Record /\ currentUser.weight \in Weights
  /\ open \in BOOLEAN /\ arrClasses \subseteq Classes
  /\ form \in Record
  /\ editing \subseteq Group /\ alert \in Alert
  /\ touched \subseteq DOMAIN FirstProfile /\ slips \subseteq Slip

(* Once what was written has been read back, the profile in memory is the  *)
(* last record written, whatever was edited, cancelled or closed meanwhile,*)
(* unless the server has rejected that record, which nobody is told of.    *)
ProfileIsSaved ==
  alive /\ mainQ = <<>> /\ "refused" \notin slips => currentUser = View

(* A class and its teacher are one entry of the node "Classes", and the    *)
(* picker sets them together: a record never names the teacher of another  *)
(* class.                                                                  *)
TeacherOfClass == stored.teacher = stored.class /\ View.teacher = View.class

(* A reset of the form takes the class from the profile and leaves the     *)
(* teacher.  The reset in the middle of an update, which tears the two     *)
(* apart, is always mended by the one after it: class and teacher of a     *)
(* record part only when a class was picked and then the avatar changed,   *)
(* or the alert answered before the update had been read back.             *)
TornOnlyByReset == "torn" \notin slips => TeacherOfClass

(* An update writes the whole record, and yet changes no field that was    *)
(* not touched since the last one, or since the controls were reset by a   *)
(* change of the avatar: what they hold for the others is the profile.     *)
UntouchedKept ==
  [][\A f \in DOMAIN form \ touched :
       Len(pending') > Len(pending) /\ "late" \notin slips => View'[f] = currentUser[f]]_vars

(* No birth date that the calendar does not have comes into a record, in   *)
(* the years in which every fourth is a leap year.                         *)
ValidDate == Dated(View)

(* A student whose record names one of the classes and a year is never     *)
(* thrown out of the app, neither by an update nor at any later launch, as *)
(* long as every number that is typed is one and the controls are never    *)
(* reset while the classes are being loaded: no update, however it is      *)
(* mixed with resets, rejections and records read back late, brings a      *)
(* record or a profile about that one of the forced conversions and array  *)
(* accesses of the screen traps on.                                        *)
ThrownOutCauses ==
  ~alive =>
    \/ FirstProfile.class \notin Classes \/ FirstProfile.year \notin Years
    \/ slips \cap {"mistyped", "hasty"} # {}

(* "Bạn muốn huỷ thay đổi không?": outside the edit mode the controls hold *)
(* the profile, also after changes have been discarded.                    *)
ChangesDiscarded ==
  alive /\ open /\ ~Busy /\ editing = {} => form = currentUser

(* An update of a record that has no class is written and announced.       *)
UpdateSurvives == [][alert = "confirm" => alive']_vars
=============================================================================
