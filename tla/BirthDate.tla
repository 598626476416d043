----------------------------- MODULE BirthDate -----------------------------
(***************************************************************************)
(* The check of a birth date in the two forms that write one.              *)
(***************************************************************************)
EXTENDS Integers

Day   == 1 .. 31
Month == 1 .. 12

(* With a bug: February is not looked at on its own. *)
RefusedInShortMonth(day, month, year) == month \in {2, 4, 6, 9, 11} /\ day = 31

(* The three refusals of btnXong, in the same order in both forms. *)
Refused(day, month, year) ==
  \/ month \in {4, 6, 9, 11} /\ day = 31
  \/ month = 2 /\ day \in {30, 31}
  \/ month = 2 /\ day = 29 /\ year % 4 # 0

-----------------------------------------------------------------------------
(* The calendar. *)

Leap(year) == year % 4 = 0 /\ (year % 100 # 0 \/ year % 400 = 0)

DaysOf(month, year) ==
  IF month \in {4, 6, 9, 11} THEN 30
  ELSE IF month = 2 THEN (IF Leap(year) THEN 29 ELSE 28)
  ELSE 31

Exists(day, month, year) == day \in 1 .. DaysOf(month, year)

(* The years in which the forms and the calendar agree. *)
Regular(year) == year % 100 # 0 \/ year % 400 = 0
=============================================================================
