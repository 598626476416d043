---------------------------- MODULE MCDetailForm ----------------------------
EXTENDS DetailFormProperties

Profile(class, gender) ==
  [class |-> class, teacher |-> class, gender |-> gender, day |-> 29, month |-> 4,
   year |-> 2011, weight |-> 20]

InClass == Profile("A", "male")
Unplaced == Profile("none", "male")
=============================================================================
