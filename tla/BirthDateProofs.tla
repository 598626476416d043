-------------------------- MODULE BirthDateProofs --------------------------
(***************************************************************************)
(* The check of a birth date against the calendar.                         *)
(***************************************************************************)
EXTENDS BirthDate, TLAPS

(* The three refusals of btnXong are the calendar, in every year in which  *)
(* every fourth is a leap year: nothing else is refused, and nothing that  *)
(* does not exist is let through.                                          *)
THEOREM RefusedIsCalendar ==
  ASSUME NEW day \in Day, NEW month \in Month, NEW year \in Nat, Regular(year)
  PROVE  Refused(day, month, year) <=> ~Exists(day, month, year)
<1>1. CASE month \in {4, 6, 9, 11}
  BY <1>1 DEF Day, Refused, Exists, DaysOf
<1>2. CASE month = 2
  <2>1. Leap(year) <=> year % 4 = 0
    <3>1. (year % 100) \in Int /\ (year % 400) \in Int /\ (year % 4) \in Int
      OBVIOUS
    <3>2. year % 400 = 0 => year % 4 = 0
      OBVIOUS
    <3> QED  BY <3>1, <3>2 DEF Regular, Leap
  <2>2. DaysOf(month, year) = IF Leap(year) THEN 29 ELSE 28
    BY <1>2 DEF DaysOf
  <2> QED  BY <1>2, <2>1, <2>2 DEF Day, Refused, Exists
<1>3. CASE month \notin {2, 4, 6, 9, 11}
  BY <1>3 DEF Day, Month, Refused, Exists, DaysOf
<1> QED  BY <1>1, <1>2, <1>3
=============================================================================
