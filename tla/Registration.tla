---------------------------- MODULE Registration ----------------------------
(***************************************************************************)
(* What registering a student means for the device it is done on: the      *)
(* session is lent to the new student for as long as it takes to write the *)
(* record, and comes back to its owner before success is announced.  A     *)
(* registration may be abandoned at any point, with the session where it   *)
(* then is, or with nobody's.                                              *)
(***************************************************************************)
CONSTANTS Account, None, Rejects

VARIABLES stage,    \* how far the registration in progress has come
          owner,    \* the user who registers
          student,  \* the account being registered
          device,   \* whose session the device stores
          records   \* the accounts that have a record, or will have

vars == <<stage, owner, student, device, records>>

Stage == {"none", "asked", "student", "written", "back", "announced"}

Init ==
  /\ stage = "none" /\ owner = None /\ student = None
  /\ device \in Account \cup {None} /\ records \subseteq Account

(* Between two registrations users come and go. *)
SignInOrOut ==
  /\ stage = "none" /\ device' \in Account \cup {None}
  /\ UNCHANGED <<stage, owner, student, records>>

Ask ==
  /\ stage = "none" /\ stage' = "asked"
  /\ owner' \in Account /\ student' \in Account
  /\ UNCHANGED <<device, records>>

(* The session is the student's, or nobody's when the service reports the  *)
(* new account without its details.                                        *)
Lend ==
  /\ stage = "asked" /\ stage' = "student"
  /\ device' \in {student, None}
  /\ UNCHANGED <<owner, student, records>>

Write ==
  /\ stage = "student" /\ stage' = "written"
  /\ device = student /\ device' = None
  /\ records' = records \cup {student}
  /\ UNCHANGED <<owner, student>>

GiveBack ==
  /\ stage = "written" /\ stage' = "back"
  /\ device' = owner
  /\ UNCHANGED <<owner, student, records>>

Announce ==
  /\ stage = "back" /\ stage' = "announced"
  /\ device = owner /\ owner' = None
  /\ UNCHANGED <<student, device, records>>

Dismiss ==
  /\ stage = "announced" /\ stage' = "none" /\ student' = None
  /\ UNCHANGED <<owner, device, records>>

(* A failure, or the end of the process, with what was not yet stored. *)
Abandon ==
  /\ stage' = "none" /\ owner' = None /\ student' = None
  /\ device' \in {device, None}
  /\ records' \subseteq records

(* The process ends when the record has just been sent and the session     *)
(* left: the record may get to the server all the same.                    *)
CutShort ==
  /\ stage = "student" /\ stage' = "none" /\ owner' = None /\ student' = None
  /\ device = student /\ device' = None
  /\ records' \subseteq records \cup {student}

(* The server rejects a record it was sent. *)
Reject ==
  /\ Rejects /\ records' \subseteq records
  /\ UNCHANGED <<stage, owner, student, device>>

Next == SignInOrOut \/ Ask \/ Lend \/ Write \/ GiveBack \/ Announce \/ Dismiss \/ Abandon
        \/ CutShort \/ Reject

Spec == Init /\ [][Next]_vars
=============================================================================
