-------------------------- MODULE DetailFormProofs --------------------------
(***************************************************************************)
(* What the details screen keeps for all classes, dates, numbers and       *)
(* bounds, and whether or not the server rejects writes.                   *)
(***************************************************************************)
EXTENDS DetailFormProperties, BirthDateProofs, TLAPS

-----------------------------------------------------------------------------
(* What is never written unless it has been checked: the records on the    *)
(* server and on their way there.                                          *)
DatesOK == Dated(stored) /\ \A i \in 1 .. Len(pending) : Dated(pending[i])

DateInv == TypeOK /\ DatesOK

(* The controls hold a record that passes the check.                       *)
LEMMA UnrefusedIsDated ==
  ASSUME form \in Record, ~DateRefused
  PROVE  Dated(form)
<1> SUFFICES ASSUME form.year \in Years, Regular(form.year)
             PROVE  Exists(form.day, form.month, form.year)
  BY DEF Dated
<1>1. form.day \in Day /\ form.month \in Month /\ form.year \in Nat
  BY DetailAssumption DEF Record
<1>2. ~Refused(form.day, form.month, form.year)
  BY DEF DateRefused
<1> QED  BY <1>1, <1>2, RefusedIsCalendar

(* Queues of records, in front and at the end.                             *)
LEMMA Queues ==
  ASSUME NEW q \in Seq(Record)
  PROVE  /\ \A r \in Record : Append(q, r) \in Seq(Record)
         /\ q # <<>> => Head(q) \in Record /\ Tail(q) \in Seq(Record)
OBVIOUS

(* The defaults of the controls are a record.                              *)
LEMMA DefaultsRecord ==
  ASSUME NEW f \in Record, NEW u \in Record
  PROVE  Defaults(f, u) \in Record
BY DEF Defaults, Record

(* The end of the process leaves every variable in its type, wherever the  *)
(* last of the writes that got to the server.                              *)
LEMMA DiesKeepsType ==
  ASSUME NEW writes \in Seq(Record), stored \in Record, launches \in Nat, picks \in Nat,
         slips' \subseteq Slip, Dies(writes)
  PROVE  TypeOK'
<1>1. FirstProfile \in Record /\ FirstProfile.weight \in Weights
  BY DetailAssumption
<1>2. stored' \in Record
  BY DEF Dies
<1>3. <<>> \in Seq(Record)
  OBVIOUS
<1> QED  BY <1>1, <1>2, <1>3 DEF Dies, TypeOK, Alert

LEMMA InitInv == Init => DateInv
<1> SUFFICES ASSUME Init PROVE DateInv
  OBVIOUS
<1>1. FirstProfile \in Record /\ FirstProfile.weight \in Weights /\ Dated(FirstProfile)
  BY DetailAssumption
<1>2. <<>> \in Seq(Record) /\ Len(<<>>) = 0
  OBVIOUS
<1>3. TypeOK
  BY <1>1, <1>2 DEF Init, TypeOK, Alert
<1>4. DatesOK
  BY <1>1, <1>2 DEF Init, DatesOK
<1> QED  BY <1>3, <1>4 DEF DateInv

(* Every step leaves every variable in its type.                           *)
LEMMA StepType == TypeOK /\ [Next]_vars => TypeOK'
<1> SUFFICES ASSUME TypeOK, [Next]_vars PROVE TypeOK'
  OBVIOUS
<1>1. CASE Open
  BY <1>1 DEF Open, TypeOK, Alert, Slip, dbVars, appVars
<1>2. CASE Back
  BY <1>2, DetailAssumption DEF Back, TypeOK, dbVars, appVars
<1>3. CASE ClassArrives
  BY <1>3 DEF ClassArrives, TypeOK, dbVars, appVars
<1>4. CASE Edit
  BY <1>4 DEF Edit, TypeOK, dbVars, appVars
<1>5. form \in Record /\ arrClasses \subseteq Classes /\ FirstProfile \in Record
        /\ slips \subseteq Slip
  BY DetailAssumption DEF TypeOK
<1>6. DOMAIN FirstProfile = {"class", "teacher", "gender", "day", "month", "year", "weight"}
  BY <1>5 DEF Record
<1>7. ASSUME NEW fields \in SUBSET DOMAIN FirstProfile, NEW f \in Record, Changes(fields, f),
             slips' \subseteq Slip
      PROVE  TypeOK'
  BY <1>7 DEF Changes, TypeOK, dbVars, appVars
<1>30. ASSUME NEW fields \in SUBSET DOMAIN FirstProfile, NEW f \in Record, Picks(fields, f)
       PROVE  TypeOK'
  BY <1>5, <1>7, <1>30 DEF Picks
<1>31. ASSUME NEW x \in DOMAIN FirstProfile, NEW v, [form EXCEPT ![x] = v] \in Record, Types(x, v)
       PROVE  TypeOK'
  <2>1. slips' \subseteq Slip
    BY <1>5, <1>31 DEF Types, Slip
  <2> QED  BY <1>7, <1>31, <2>1 DEF Types
<1>8. CASE PickClass
  <2>1. \A c \in arrClasses : [form EXCEPT !.class = c, !.teacher = c] \in Record
    BY <1>5 DEF Record
  <2>2. {"class", "teacher"} \in SUBSET DOMAIN FirstProfile
    BY <1>6
  <2> QED  BY <1>30, <1>8, <2>1, <2>2 DEF PickClass
<1>9. CASE PickGender
  <2>1. \A g \in Genders : [form EXCEPT !.gender = g] \in Record
    BY <1>5 DEF Record
  <2>2. {"gender"} \in SUBSET DOMAIN FirstProfile
    BY <1>6
  <2> QED  BY <1>30, <1>9, <2>1, <2>2 DEF PickGender
<1>10. CASE PickDate
  <2>1. /\ \A d \in Days : [form EXCEPT !.day = d] \in Record
        /\ \A m \in Months : [form EXCEPT !.month = m] \in Record
    BY <1>5 DEF Record
  <2>2. {"day"} \in SUBSET DOMAIN FirstProfile /\ {"month"} \in SUBSET DOMAIN FirstProfile
    BY <1>6
  <2> QED  BY <1>30, <1>10, <2>1, <2>2 DEF PickDate
<1>11. CASE TypeYear \/ TypeWeight
  <2>1. /\ \A y \in Years \cup {NotANumber} : [form EXCEPT !["year"] = y] \in Record
        /\ \A w \in Weights \cup {NotANumber} : [form EXCEPT !["weight"] = w] \in Record
    BY <1>5 DEF Record
  <2>2. "year" \in DOMAIN FirstProfile /\ "weight" \in DOMAIN FirstProfile
    BY <1>6
  <2> QED  BY <1>31, <1>11, <2>1, <2>2 DEF TypeYear, TypeWeight
<1>12. CASE Ask
  BY <1>12 DEF Ask, TypeOK, Alert, dbVars, appVars
<1>13. CASE Decline
  BY <1>13 DEF Decline, TypeOK, Alert, dbVars, appVars
<1>14. CASE Discard
  BY <1>14 DEF Discard, TypeOK, Alert, dbVars, appVars
<1>15. CASE SaveRefused
  BY <1>15 DEF SaveRefused, TypeOK, Alert, dbVars, appVars
<1>16. CASE Save
  <2>1. pending' \in Seq(Record) /\ mainQ' \in Seq(Record)
    BY <1>16, Queues DEF Save, TypeOK
  <2>2. form' \in Record
    BY <1>16, DefaultsRecord DEF Save, Refresh, TypeOK
  <2>3. slips' \subseteq Slip
    BY <1>16 DEF Save, Hasty, Slip, TypeOK
  <2> QED  BY <1>16, <2>1, <2>2, <2>3 DEF Save, TypeOK, Alert, appVars
<1>32. Hasty \subseteq Slip /\ Torn \subseteq Slip /\ Late \subseteq Slip
  BY DEF Hasty, Torn, Late, Slip
<1>33. ASSUME NEW writes \in Seq(Record), ResetTraps(writes) PROVE TypeOK'
  <2>1. slips' \subseteq Slip
    BY <1>5, <1>32, <1>33 DEF ResetTraps
  <2> QED  BY <1>33, <2>1, DiesKeepsType DEF ResetTraps, TypeOK
<1>34. ASSUME Dies(pending), UNCHANGED slips PROVE TypeOK'
  <2>1. slips' \subseteq Slip
    BY <1>5, <1>34
  <2> QED  BY <1>34, <2>1, DiesKeepsType DEF TypeOK
<1>17. CASE SaveTraps
  <2>1. Append(pending, form) \in Seq(Record)
    BY DEF TypeOK
  <2> QED  BY <1>17, <1>33, <1>34, <2>1 DEF SaveTraps
<1>18. CASE Acknowledge
  <2>1. form' \in Record
    BY <1>18, DefaultsRecord DEF Acknowledge, Refresh, TypeOK
  <2>2. slips' \subseteq Slip
    BY <1>5, <1>18, <1>32 DEF Acknowledge
  <2> QED  BY <1>18, <2>1, <2>2 DEF Acknowledge, EndsEditing, TypeOK, Alert, dbVars, appVars
<1>19. CASE AcknowledgeTraps
  BY <1>19, <1>33 DEF AcknowledgeTraps, TypeOK
<1>20. CASE ReadBack
  <2>1. Head(mainQ) \in Record /\ mainQ' \in Seq(Record)
    BY <1>20, Queues DEF ReadBack, TypeOK
  <2>2. Head(mainQ).weight \in Weights
    BY <1>20, <2>1 DEF ReadBack, Record
  <2> QED  BY <1>20, <2>1, <2>2 DEF ReadBack, TypeOK, viewVars
<1>21. CASE ReadBackTraps
  BY <1>21, <1>34 DEF ReadBackTraps
<1>22. CASE Accept
  <2>1. stored' \in Record /\ pending' \in Seq(Record)
    BY <1>22, Queues DEF Accept, TypeOK
  <2> QED  BY <1>22, <2>1 DEF Accept, TypeOK, viewVars, appVars
<1>23. CASE Reject
  <2>1. pending' \in Seq(Record)
    BY <1>23, Queues DEF Reject, TypeOK
  <2>2. slips' \subseteq Slip
    BY <1>23 DEF Reject, Slip, TypeOK
  <2> QED  BY <1>23, <2>1, <2>2 DEF Reject, TypeOK, appVars
<1>24. CASE Relaunch
  <2>1. currentUser' \in Record /\ currentUser'.weight \in Weights
    BY <1>24 DEF Relaunch, TypeOK, Record
  <2> QED  BY <1>24, <2>1 DEF Relaunch, TypeOK, dbVars
<1>25. CASE AvatarChanged
  <2>1. form' \in Record
    BY <1>25, DefaultsRecord DEF AvatarChanged, Refresh, TypeOK
  <2>2. slips' \subseteq Slip /\ touched' \subseteq DOMAIN FirstProfile
    BY <1>5, <1>25, <1>32 DEF AvatarChanged, TypeOK
  <2> QED  BY <1>25, <2>1, <2>2 DEF AvatarChanged, TypeOK, dbVars, appVars
<1>26. CASE AvatarTraps
  BY <1>26, <1>33 DEF AvatarTraps, TypeOK
<1>27. CASE UNCHANGED vars
  BY <1>27 DEF TypeOK, vars, dbVars, appVars, viewVars
<1> QED
  BY <1>1, <1>2, <1>3, <1>4, <1>8, <1>9, <1>10, <1>11, <1>12, <1>13, <1>14, <1>15,
     <1>16, <1>17, <1>18, <1>19, <1>20, <1>21, <1>22, <1>23, <1>24, <1>25, <1>26, <1>27 DEF Next

(* Only Save adds a record, and it has passed the check.                   *)
LEMMA StepDates == DateInv /\ [Next]_vars => DatesOK'
<1> SUFFICES ASSUME DateInv, [Next]_vars PROVE DatesOK'
  OBVIOUS
<1> USE DEF DateInv
<1>1. TypeOK
  OBVIOUS
<1>2. ASSUME UNCHANGED <<stored, pending>> PROVE DatesOK'
  BY <1>2 DEF DatesOK, Dated
<1>3. ASSUME NEW writes \in Seq(Record), Dies(writes),
             \A i \in 1 .. Len(writes) : Dated(writes[i])
      PROVE  DatesOK'
  <2>1. Dated(stored')
    BY <1>3 DEF Dies, DatesOK
  <2>2. pending' = <<>>
    BY <1>3 DEF Dies
  <2> QED  BY <2>1, <2>2 DEF DatesOK, Dated
<1>4. ASSUME ~DateRefused
      PROVE  /\ Append(pending, form) \in Seq(Record)
             /\ \A i \in 1 .. Len(Append(pending, form)) : Dated(Append(pending, form)[i])
  <2>1. Dated(form)
    BY <1>4, <1>1, UnrefusedIsDated DEF TypeOK
  <2>2. pending \in Seq(Record) /\ form \in Record
    BY <1>1 DEF TypeOK
  <2> QED  BY <2>1, <2>2 DEF DatesOK
<1>5. CASE Save
  <2>1. UNCHANGED stored /\ pending' = Append(pending, form)
    BY <1>5 DEF Save
  <2> QED  BY <1>4, <1>5, <2>1 DEF Save, DatesOK, Dated
<1>15. Dies(pending) => DatesOK'
  BY <1>1, <1>3 DEF TypeOK, DatesOK
<1>6. CASE SaveTraps
  BY <1>3, <1>4, <1>6, <1>15 DEF SaveTraps, ResetTraps
<1>7. CASE AcknowledgeTraps \/ ReadBackTraps \/ AvatarTraps
  BY <1>7, <1>15 DEF AcknowledgeTraps, ReadBackTraps, AvatarTraps, ResetTraps
<1>8. ASSUME pending # <<>>, pending' = Tail(pending),
             stored' = Head(pending) \/ stored' = stored
      PROVE  DatesOK'
  <2>1. pending \in Seq(Record)
    BY <1>1 DEF TypeOK
  <2>2. /\ Len(pending') = Len(pending) - 1
        /\ \A i \in 1 .. Len(pending') : i + 1 \in 1 .. Len(pending) /\ pending'[i] = pending[i + 1]
        /\ Head(pending) = pending[1] /\ 1 \in 1 .. Len(pending)
    BY <1>8, <2>1
  <2>3. Dated(stored')
    BY <1>8, <2>2 DEF DatesOK
  <2>4. \A i \in 1 .. Len(pending') : Dated(pending'[i])
    BY <2>2 DEF DatesOK
  <2> QED  BY <2>3, <2>4 DEF DatesOK, Dated
<1>9. CASE Accept \/ Reject
  BY <1>8, <1>9 DEF Accept, Reject
<1>10. CASE Open \/ Back \/ ClassArrives \/ Edit
  BY <1>2, <1>10 DEF Open, Back, ClassArrives, Edit, dbVars
<1>11. CASE PickClass \/ PickGender \/ PickDate \/ TypeYear \/ TypeWeight
  BY <1>2, <1>11
     DEF PickClass, PickGender, PickDate, TypeYear, TypeWeight, Picks, Types, Changes, dbVars
<1>12. CASE Ask \/ Decline \/ Discard \/ SaveRefused \/ Acknowledge \/ AvatarChanged
  BY <1>2, <1>12
     DEF Ask, Decline, Discard, SaveRefused, Acknowledge, EndsEditing, AvatarChanged, dbVars
<1>13. CASE ReadBack \/ Relaunch
  BY <1>2, <1>13 DEF ReadBack, Relaunch, dbVars
<1>14. CASE UNCHANGED vars
  BY <1>2, <1>14 DEF vars, dbVars
<1> QED
  BY <1>5, <1>6, <1>7, <1>9, <1>10, <1>11, <1>12, <1>13, <1>14 DEF Next

(* Every variable of the details screen has its type at all times; so no   *)
(* profile is ever kept in memory whose number is missing.                 *)
THEOREM DetailTypeCorrect == Spec => []TypeOK
<1>1. Init => TypeOK
  BY InitInv DEF DateInv
<1> QED  BY <1>1, StepType, PTL DEF Spec

(* No update ever brings a birth date into a record that the calendar does *)
(* not have, in the years in which every fourth is a leap year.            *)
THEOREM NoInvalidDate == Spec => []ValidDate
<1>1. Init => DateInv
  BY InitInv
<1>2. DateInv /\ [Next]_vars => DateInv'
  BY StepType, StepDates DEF DateInv
<1>3. DateInv => ValidDate
  <2> SUFFICES ASSUME DateInv PROVE ValidDate
    OBVIOUS
  <2>1. pending \in Seq(Record)
    BY DEF DateInv, TypeOK
  <2>2. CASE pending = <<>>
    BY <2>2 DEF DateInv, DatesOK, ValidDate, View
  <2>3. CASE pending # <<>>
    <3>1. Len(pending) \in 1 .. Len(pending)
      BY <2>1, <2>3
    <3> QED  BY <2>3, <3>1 DEF DateInv, DatesOK, ValidDate, View
  <2> QED  BY <2>2, <2>3
<1> QED  BY <1>1, <1>2, <1>3, PTL DEF Spec
-----------------------------------------------------------------------------
(* What is read back.  The last record that waits for the main thread, or  *)
(* else the profile, is the last record written.                           *)
LastRead == IF mainQ = <<>> THEN currentUser ELSE mainQ[Len(mainQ)]

SavedInv ==
  /\ ~alive => ~open /\ pending = <<>> /\ mainQ = <<>>
  /\ alive /\ "refused" \notin slips => LastRead = View

(* The last of a queue: when one is added, and when the first is taken.    *)
LEMMA LastOfQueue ==
  ASSUME NEW q \in Seq(Record)
  PROVE  /\ \A r \in Record : /\ Append(q, r) # <<>>
                              /\ Append(q, r)[Len(Append(q, r))] = r
         /\ q # <<>> => IF Tail(q) = <<>> THEN q[Len(q)] = Head(q)
                                          ELSE Tail(q)[Len(Tail(q))] = q[Len(q)]
<1>1. ASSUME NEW r \in Record
      PROVE  Append(q, r) # <<>> /\ Append(q, r)[Len(Append(q, r))] = r
  OBVIOUS
<1>2. ASSUME q # <<>>
      PROVE  IF Tail(q) = <<>> THEN q[Len(q)] = Head(q)
                               ELSE Tail(q)[Len(Tail(q))] = q[Len(q)]
  <2>1. Len(q) \in Nat /\ Len(q) # 0 /\ Head(q) = q[1]
    BY <1>2
  <2>2. CASE Tail(q) = <<>>
    <3>1. Len(Tail(q)) = Len(q) - 1
      BY <1>2
    <3>2. PICK r : r = Tail(q)
      OBVIOUS
    <3>3. r = <<>> /\ Len(r) = Len(q) - 1
      BY <2>2, <3>1, <3>2
    <3>4. Len(q) = 1
      BY <2>1, <3>3
    <3> QED  BY <2>1, <2>2, <3>4
  <2>3. CASE Tail(q) # <<>>
    <3>1. Tail(q) \in Seq(Record)
      BY <1>2
    <3>2. Len(Tail(q)) \in 1 .. Len(Tail(q))
      BY <2>3, <3>1
    <3> QED  BY <1>2, <2>1, <2>3, <3>2
  <2> QED  BY <2>2, <2>3
<1> QED  BY <1>1, <1>2

(* What is read back does not change while nothing is written.             *)
LEMMA ReadKeepsLast == TypeOK /\ ReadBack => LastRead' = LastRead
<1> SUFFICES ASSUME TypeOK, ReadBack PROVE LastRead' = LastRead
  OBVIOUS
<1>1. mainQ \in Seq(Record) /\ mainQ # <<>> /\ mainQ' = Tail(mainQ) /\ currentUser' = Head(mainQ)
  BY DEF TypeOK, ReadBack
<1>2. IF Tail(mainQ) = <<>> THEN mainQ[Len(mainQ)] = Head(mainQ)
                            ELSE Tail(mainQ)[Len(Tail(mainQ))] = mainQ[Len(mainQ)]
  BY <1>1, LastOfQueue
<1> QED  BY <1>1, <1>2 DEF LastRead

LEMMA StepSaved == TypeOK /\ SavedInv /\ [Next]_vars => SavedInv'
<1> SUFFICES ASSUME TypeOK, SavedInv, [Next]_vars PROVE SavedInv'
  OBVIOUS
<1>1. pending \in Seq(Record) /\ mainQ \in Seq(Record) /\ form \in Record
  BY DEF TypeOK
<1>2. ASSUME UNCHANGED <<dbVars, alive, currentUser>>, alive \/ UNCHANGED open,
             "refused" \in slips => "refused" \in slips'
      PROVE  SavedInv'
  BY <1>2 DEF SavedInv, LastRead, View, dbVars
<1>3. ASSUME NEW writes, Dies(writes) PROVE SavedInv'
  BY <1>3 DEF Dies, SavedInv
<1>4. CASE Save
  <2>1. /\ alive' = alive /\ alive
        /\ pending' = Append(pending, form) /\ mainQ' = Append(mainQ, form)
    BY <1>4 DEF Save, appVars
  <2>2. /\ Append(pending, form) # <<>> /\ Append(pending, form)[Len(Append(pending, form))] = form
        /\ Append(mainQ, form) # <<>> /\ Append(mainQ, form)[Len(Append(mainQ, form))] = form
    BY <1>1, LastOfQueue
  <2> QED  BY <2>1, <2>2 DEF SavedInv, LastRead, View
<1>5. CASE ReadBack
  <2>1. LastRead' = LastRead /\ alive
    BY <1>5, ReadKeepsLast DEF ReadBack
  <2>2. UNCHANGED <<stored, pending, alive, slips>>
    BY <1>5 DEF ReadBack, viewVars
  <2> QED  BY <2>1, <2>2 DEF SavedInv, View
<1>6. ASSUME pending # <<>>, pending' = Tail(pending),
             pending' = <<>> => stored' = Head(pending) \/ "refused" \in slips'
      PROVE  View' = View \/ "refused" \in slips'
  <2>1. IF Tail(pending) = <<>> THEN pending[Len(pending)] = Head(pending)
                                ELSE Tail(pending)[Len(Tail(pending))] = pending[Len(pending)]
    BY <1>1, <1>6, LastOfQueue
  <2> QED  BY <1>6, <2>1 DEF View
<1>7. CASE Accept
  <2>1. View' = View \/ "refused" \in slips'
    BY <1>6, <1>7 DEF Accept
  <2>2. UNCHANGED <<mainQ, alive, currentUser, slips>> /\ pending # <<>>
    BY <1>7 DEF Accept, appVars, viewVars
  <2> QED  BY <2>1, <2>2 DEF SavedInv, LastRead
<1>8. CASE Reject
  <2>1. View' = View \/ "refused" \in slips'
    BY <1>6, <1>8 DEF Reject
  <2>2. UNCHANGED <<mainQ, alive, currentUser>> /\ pending # <<>> /\ slips \subseteq slips'
    BY <1>8 DEF Reject, appVars
  <2> QED  BY <2>1, <2>2 DEF SavedInv, LastRead
<1>9. CASE Relaunch
  <2>1. UNCHANGED <<stored, pending, mainQ>> /\ pending = <<>> /\ mainQ = <<>> /\ ~open'
    BY <1>9 DEF Relaunch, SavedInv, dbVars
  <2>2. alive' => currentUser' = stored
    BY <1>9 DEF Relaunch
  <2> QED  BY <2>1, <2>2 DEF SavedInv, LastRead, View
<1>10. CASE SaveTraps \/ AcknowledgeTraps \/ AvatarTraps \/ ReadBackTraps
  BY <1>3, <1>10 DEF SaveTraps, AcknowledgeTraps, AvatarTraps, ReadBackTraps, ResetTraps
<1>11. CASE Open \/ Back \/ ClassArrives \/ Edit
  BY <1>2, <1>11 DEF Open, Back, ClassArrives, Edit, Free, appVars
<1>12. CASE PickClass \/ PickGender \/ PickDate \/ TypeYear \/ TypeWeight
  BY <1>2, <1>12
     DEF PickClass, PickGender, PickDate, TypeYear, TypeWeight, Picks, Types, Changes, Free
<1>13. CASE Ask \/ Decline \/ Discard \/ SaveRefused
  BY <1>2, <1>13 DEF Ask, Decline, Discard, SaveRefused, appVars
<1>14. CASE Acknowledge \/ AvatarChanged
  BY <1>2, <1>14 DEF Acknowledge, EndsEditing, AvatarChanged, appVars
<1>15. CASE UNCHANGED vars
  BY <1>2, <1>15 DEF vars, appVars, viewVars
<1> QED
  BY <1>4, <1>5, <1>7, <1>8, <1>9, <1>10, <1>11, <1>12, <1>13, <1>14, <1>15 DEF Next

(* Once everything written has been read back, the profile in memory is    *)
(* the last record written, unless the server has rejected that one:       *)
(* whatever was edited, cancelled, closed or begun again meanwhile.        *)
THEOREM ProfileFollowsRecord == Spec => []ProfileIsSaved
<1>1. Init => TypeOK
  BY InitInv DEF DateInv
<1>2. Init => SavedInv
  BY DEF Init, SavedInv, LastRead, View
<1>3. SavedInv => ProfileIsSaved
  BY DEF SavedInv, LastRead, ProfileIsSaved
<1> QED  BY <1>1, <1>2, <1>3, StepType, StepSaved, PTL DEF Spec

-----------------------------------------------------------------------------
(* Class and teacher.  As long as no reset has torn them apart, they       *)
(* belong together in every record there is, and in the controls unless    *)
(* the success alert covers them.                                          *)
Whole(r) == r.teacher = r.class

RecordsWhole ==
  /\ Whole(stored) /\ Whole(currentUser)
  /\ \A i \in 1 .. Len(pending) : Whole(pending[i])
  /\ \A i \in 1 .. Len(mainQ) : Whole(mainQ[i])

(* What makes the second reset mend the first: the controls still hold the *)
(* teacher that will be read back, and the class, which only a picked one  *)
(* can have made another than the profile's.                               *)
FormWhole ==
  /\ alert # "updated" => Whole(form)
  /\ alert # "updated" /\ open /\ "class" \notin touched => form.class = currentUser.class
  /\ alert = "updated" => /\ form.teacher = LastRead.teacher
                          /\ arrClasses = {} => form.class = LastRead.class
  /\ alert # "updated" \/ "class" \notin touched =>
       \A i \in 1 .. Len(mainQ) : mainQ[i].class = currentUser.class

WholeInv ==
  /\ alert # "none" => open
  /\ "class" \in touched => arrClasses # {}
  /\ "torn" \notin slips => RecordsWhole /\ FormWhole

(* A reset leaves the teacher, the gender and perhaps the class.           *)
LEMMA RefreshFields ==
  ASSUME TypeOK, Refresh
  PROVE  /\ form'.day = currentUser.day /\ form'.month = currentUser.month
         /\ form'.year = currentUser.year /\ form'.weight = currentUser.weight
         /\ form'.teacher = form.teacher /\ form'.gender = form.gender
         /\ form'.class = IF arrClasses = {} THEN form.class ELSE currentUser.class
BY DEF TypeOK, Record, Refresh, Defaults

(* Taking the first of a queue of whole records, or adding a whole one.    *)
LEMMA WholeQueues ==
  ASSUME NEW q \in Seq(Record), \A i \in 1 .. Len(q) : Whole(q[i])
  PROVE  /\ \A r \in Record : Whole(r) =>
                \A i \in 1 .. Len(Append(q, r)) : Whole(Append(q, r)[i])
         /\ q # <<>> => Whole(Head(q)) /\ \A i \in 1 .. Len(Tail(q)) : Whole(Tail(q)[i])
<1>1. ASSUME NEW r \in Record, Whole(r), NEW i \in 1 .. Len(Append(q, r))
      PROVE  Whole(Append(q, r)[i])
  BY <1>1
<1>2. ASSUME q # <<>>
      PROVE  Whole(Head(q)) /\ \A i \in 1 .. Len(Tail(q)) : Whole(Tail(q)[i])
  <2>1. 1 \in 1 .. Len(q) /\ Head(q) = q[1]
    BY <1>2
  <2>2. ASSUME NEW i \in 1 .. Len(Tail(q))
        PROVE  i + 1 \in 1 .. Len(q) /\ Tail(q)[i] = q[i + 1]
    BY <1>2
  <2> QED  BY <2>1, <2>2
<1> QED  BY <1>1, <1>2

(* The end of the process, whichever of whole writes got to the server.    *)
LEMMA DiesKeepsWhole ==
  ASSUME "torn" \notin slips => Whole(stored), NEW writes \in Seq(Record), Dies(writes),
         "torn" \notin slips' => "torn" \notin slips,
         "torn" \notin slips => \A i \in 1 .. Len(writes) : Whole(writes[i])
  PROVE  WholeInv'
<1>1. Whole(FirstProfile)
  BY DetailAssumption DEF Whole
<1>2. "torn" \notin slips' => Whole(stored')
  BY DEF Dies
<1>3. /\ pending' = <<>> /\ mainQ' = <<>> /\ currentUser' = FirstProfile /\ form' = FirstProfile
      /\ alert' = "none" /\ touched' = {} /\ ~open'
  BY DEF Dies
<1>4. "torn" \notin slips' => RecordsWhole'
  BY <1>1, <1>2, <1>3 DEF RecordsWhole, Whole
<1>5. FormWhole'
  BY <1>1, <1>3 DEF FormWhole, Whole
<1> QED  BY <1>3, <1>4, <1>5 DEF WholeInv

(* A change of controls that leaves class and teacher together, and leaves *)
(* the class unless it touches it.                                         *)
LEMMA ChangesWhole ==
  ASSUME TypeOK, WholeInv, Free, NEW fields, NEW f, Changes(fields, f),
         "torn" \notin slips' => "torn" \notin slips,
         Whole(form) => Whole(f), "class" \notin fields => f.class = form.class,
         "class" \in fields => arrClasses # {}
  PROVE  WholeInv'
<1>1. /\ form' = f /\ touched' = touched \cup fields
      /\ UNCHANGED <<stored, pending, mainQ, currentUser, open, arrClasses, alert>>
  BY DEF Changes, dbVars
<1>2. alert = "none" /\ open
  BY DEF Free, Busy
<1>3. "torn" \notin slips' => RecordsWhole'
  BY <1>1 DEF WholeInv, RecordsWhole, Whole
<1>4. "torn" \notin slips' => FormWhole'
  BY <1>1, <1>2 DEF WholeInv, FormWhole, Whole
<1> QED  BY <1>1, <1>2, <1>3, <1>4 DEF WholeInv

(* The record that is read back last is whole and, unless a class has been *)
(* picked since the last update, of the profile's class.                   *)
LEMMA LastReadWhole ==
  ASSUME TypeOK, RecordsWhole, FormWhole
  PROVE  /\ Whole(LastRead)
         /\ alert # "updated" \/ "class" \notin touched => LastRead.class = currentUser.class
<1>1. mainQ \in Seq(Record)
  BY DEF TypeOK
<1>2. CASE mainQ = <<>>
  BY <1>2 DEF LastRead, RecordsWhole
<1>3. CASE mainQ # <<>>
  <2>1. Len(mainQ) \in 1 .. Len(mainQ)
    BY <1>1, <1>3
  <2> QED  BY <1>3, <2>1 DEF LastRead, RecordsWhole, FormWhole
<1> QED  BY <1>2, <1>3

(* The second reset mends what the first has torn.                         *)
LEMMA AcknowledgeWhole == TypeOK /\ WholeInv /\ Acknowledge => WholeInv'
<1> SUFFICES ASSUME TypeOK, WholeInv, Acknowledge PROVE WholeInv'
  OBVIOUS
<1>1. /\ alert = "updated" /\ alert' = "none" /\ touched' = {} /\ Refresh
      /\ UNCHANGED <<stored, pending, mainQ, currentUser, open, arrClasses>>
      /\ "torn" \notin slips' => "torn" \notin slips /\ (mainQ = <<>> \/ "class" \notin touched)
  BY DEF Acknowledge, EndsEditing, Late, Torn, dbVars, appVars
<1>2. ASSUME "torn" \notin slips' PROVE RecordsWhole' /\ FormWhole'
  <2>1. RecordsWhole /\ FormWhole /\ (mainQ = <<>> \/ "class" \notin touched)
    BY <1>1, <1>2 DEF WholeInv
  <2>2. RecordsWhole'
    BY <1>1, <2>1 DEF RecordsWhole, Whole
  <2>3. Whole(LastRead) /\ LastRead.class = currentUser.class
    BY <2>1, LastReadWhole DEF LastRead
  <2>4. form.teacher = LastRead.teacher /\ (arrClasses = {} => form.class = LastRead.class)
    BY <1>1, <2>1 DEF FormWhole
  <2>5. form'.class = currentUser.class /\ form'.teacher = form.teacher
    BY <1>1, <2>3, <2>4, RefreshFields
  <2>6. Whole(form')
    BY <2>3, <2>4, <2>5 DEF Whole
  <2>7. \A i \in 1 .. Len(mainQ) : mainQ[i].class = currentUser.class
    <3>1. CASE mainQ = <<>>
      BY <3>1
    <3>2. CASE "class" \notin touched
      BY <2>1, <3>2 DEF FormWhole
    <3> QED  BY <2>1, <3>1, <3>2
  <2>8. FormWhole'
    BY <1>1, <2>5, <2>6, <2>7 DEF FormWhole
  <2> QED  BY <2>2, <2>8
<1> QED  BY <1>1, <1>2 DEF WholeInv

(* A change of the avatar tears nothing while no class has been picked.    *)
LEMMA AvatarWhole == TypeOK /\ WholeInv /\ AvatarChanged => WholeInv'
<1> SUFFICES ASSUME TypeOK, WholeInv, AvatarChanged PROVE WholeInv'
  OBVIOUS
<1>1. /\ alert = "none" /\ open /\ touched' = touched \cap {"teacher", "gender"} /\ Refresh
      /\ UNCHANGED <<stored, pending, mainQ, currentUser, open, arrClasses, alert>>
      /\ "torn" \notin slips' => "torn" \notin slips /\ "class" \notin touched
  BY DEF AvatarChanged, Free, Busy, Torn, dbVars, appVars
<1>2. ASSUME "torn" \notin slips' PROVE RecordsWhole' /\ FormWhole'
  <2>1. RecordsWhole /\ FormWhole /\ "class" \notin touched
    BY <1>1, <1>2 DEF WholeInv
  <2>2. RecordsWhole'
    BY <1>1, <2>1 DEF RecordsWhole, Whole
  <2>3. form.class = currentUser.class /\ Whole(form)
    BY <1>1, <2>1 DEF FormWhole
  <2>4. form'.class = currentUser.class /\ form'.teacher = form.teacher
    BY <1>1, <2>3, RefreshFields
  <2>5. FormWhole'
    BY <1>1, <2>1, <2>3, <2>4 DEF FormWhole, Whole
  <2> QED  BY <2>2, <2>5
<1> QED  BY <1>1, <1>2 DEF WholeInv

(* An update writes what the controls hold, and keeps their teacher.       *)
LEMMA SaveWhole == TypeOK /\ WholeInv /\ Save => WholeInv'
<1> SUFFICES ASSUME TypeOK, WholeInv, Save PROVE WholeInv'
  OBVIOUS
<1>1. pending \in Seq(Record) /\ mainQ \in Seq(Record) /\ form \in Record
  BY DEF TypeOK
<1>2. /\ alert = "confirm" /\ alert' = "updated" /\ Refresh
      /\ pending' = Append(pending, form) /\ mainQ' = Append(mainQ, form)
      /\ UNCHANGED <<stored, currentUser, open, arrClasses, touched>>
      /\ "torn" \notin slips' => "torn" \notin slips
  BY DEF Save, appVars
<1>3. ASSUME "torn" \notin slips' PROVE RecordsWhole' /\ FormWhole'
  <2>1. RecordsWhole /\ FormWhole /\ Whole(form)
    BY <1>2, <1>3 DEF WholeInv, FormWhole
  <2>2. RecordsWhole'
    <3>1. \A i \in 1 .. Len(Append(pending, form)) : Whole(Append(pending, form)[i])
      BY <1>1, <2>1, WholeQueues DEF RecordsWhole
    <3>2. \A i \in 1 .. Len(Append(mainQ, form)) : Whole(Append(mainQ, form)[i])
      BY <1>1, <2>1, WholeQueues DEF RecordsWhole
    <3> QED  BY <1>2, <2>1, <3>1, <3>2 DEF RecordsWhole, Whole
  <2>3. LastRead' = form
    BY <1>1, <1>2, LastOfQueue DEF LastRead
  <2>4. form'.teacher = form.teacher /\ (arrClasses = {} => form'.class = form.class)
    BY <1>2, RefreshFields
  <2>5. ASSUME "class" \notin touched, NEW i \in 1 .. Len(Append(mainQ, form))
        PROVE  Append(mainQ, form)[i].class = currentUser.class
    <3>1. open /\ form.class = currentUser.class
      BY <1>2, <2>1, <2>5 DEF WholeInv, FormWhole
    <3>2. \A j \in 1 .. Len(mainQ) : mainQ[j].class = currentUser.class
      BY <1>2, <2>1 DEF FormWhole
    <3> QED  BY <1>1, <2>5, <3>1, <3>2
  <2>6. FormWhole'
    BY <1>2, <2>3, <2>4, <2>5 DEF FormWhole
  <2> QED  BY <2>2, <2>6
<1> QED  BY <1>2, <1>3 DEF WholeInv

(* The profile becomes the first of the records read back.                 *)
LEMMA ReadBackWhole == TypeOK /\ WholeInv /\ ReadBack => WholeInv'
<1> SUFFICES ASSUME TypeOK, WholeInv, ReadBack PROVE WholeInv'
  OBVIOUS
<1>1. /\ mainQ \in Seq(Record) /\ mainQ # <<>>
      /\ currentUser' = Head(mainQ) /\ mainQ' = Tail(mainQ)
      /\ UNCHANGED <<stored, pending, open, arrClasses, form, alert, touched, slips>>
  BY DEF TypeOK, ReadBack, viewVars
<1>2. LastRead' = LastRead
  BY ReadKeepsLast
<1>3. ASSUME "torn" \notin slips' PROVE RecordsWhole' /\ FormWhole'
  <2>1. RecordsWhole /\ FormWhole
    BY <1>1, <1>3 DEF WholeInv
  <2>2. RecordsWhole'
    BY <1>1, <2>1, WholeQueues DEF RecordsWhole, Whole
  <2>3. 1 \in 1 .. Len(mainQ) /\ Head(mainQ) = mainQ[1]
    BY <1>1
  <2>4. \A i \in 1 .. Len(Tail(mainQ)) : i + 1 \in 1 .. Len(mainQ) /\ Tail(mainQ)[i] = mainQ[i + 1]
    BY <1>1
  <2>5. FormWhole'
    BY <1>1, <1>2, <2>1, <2>3, <2>4 DEF FormWhole, Whole
  <2> QED  BY <2>2, <2>5
<1> QED  BY <1>1, <1>3 DEF WholeInv

(* Every step keeps class and teacher together or records that it may not  *)
(* have done so.                                                           *)
LEMMA StepWhole == TypeOK /\ SavedInv /\ WholeInv /\ [Next]_vars => WholeInv'
<1> SUFFICES ASSUME TypeOK, SavedInv, WholeInv, [Next]_vars PROVE WholeInv'
  OBVIOUS
<1>1. /\ pending \in Seq(Record) /\ mainQ \in Seq(Record) /\ form \in Record
      /\ alert \in Alert /\ arrClasses \subseteq Classes
  BY DEF TypeOK
<1>2. ASSUME UNCHANGED <<dbVars, currentUser, open, form, touched>>,
             arrClasses \subseteq arrClasses', alert # "updated" <=> alert' # "updated",
             alert' # "none" => open,
             "torn" \notin slips' => "torn" \notin slips
      PROVE  WholeInv'
  <2>1. "torn" \notin slips' => RecordsWhole'
    BY <1>2 DEF WholeInv, RecordsWhole, Whole, dbVars
  <2>2. LastRead' = LastRead
    BY <1>2 DEF LastRead, dbVars
  <2>3. "torn" \notin slips' => FormWhole'
    BY <1>2, <2>2 DEF WholeInv, FormWhole, Whole, dbVars
  <2> QED  BY <1>2, <2>1, <2>3 DEF WholeInv
<1>3. CASE Open
  <2>1. /\ open' /\ alert' = "none" /\ touched' = {} /\ form' = currentUser
        /\ UNCHANGED <<stored, pending, mainQ, currentUser>>
        /\ "torn" \notin slips' => "torn" \notin slips
    BY <1>3 DEF Open, dbVars, appVars
  <2>2. alert # "updated"
    BY <1>3 DEF Open, WholeInv
  <2> QED  BY <2>1, <2>2 DEF WholeInv, RecordsWhole, FormWhole, Whole
<1>4. CASE Back
  <2>1. /\ ~open' /\ alert = "none" /\ alert' = "none" /\ touched' = {} /\ form' = FirstProfile
        /\ UNCHANGED <<stored, pending, mainQ, currentUser, slips>>
    BY <1>4 DEF Back, Free, Busy, dbVars, appVars
  <2> QED  BY <2>1, DetailAssumption DEF WholeInv, RecordsWhole, FormWhole, Whole
<1>5. CASE ClassArrives \/ Edit \/ Ask \/ Decline \/ Discard \/ SaveRefused
  BY <1>2, <1>5 DEF ClassArrives, Edit, Ask, Decline, Discard, SaveRefused, Free, Busy, dbVars,
                    appVars, WholeInv
<1>6. CASE PickClass
  <2>1. PICK c \in arrClasses :
          Picks({"class", "teacher"}, [form EXCEPT !.class = c, !.teacher = c])
    BY <1>6 DEF PickClass
  <2>2. Whole([form EXCEPT !.class = c, !.teacher = c])
    BY <1>1 DEF Whole, Record
  <2> QED  BY <2>1, <2>2, ChangesWhole DEF Picks
<1>7. CASE PickGender \/ PickDate \/ TypeYear \/ TypeWeight
  <2>1. ASSUME NEW x \in {"gender", "day", "month", "year", "weight"}, NEW v
        PROVE  /\ Whole(form) => Whole([form EXCEPT ![x] = v])
               /\ [form EXCEPT ![x] = v].class = form.class
    BY <1>1 DEF Whole, Record
  <2>2. ASSUME NEW x \in {"gender", "day", "month", "year", "weight"}, NEW v, Free,
               Changes({x}, [form EXCEPT ![x] = v]), slips \subseteq slips'
        PROVE  WholeInv'
    BY <2>1, <2>2, ChangesWhole
  <2>3. ASSUME NEW x \in {"gender", "day", "month", "year", "weight"}, NEW v,
               Picks({x}, [form EXCEPT ![x] = v]) \/ Types(x, v)
        PROVE  WholeInv'
    BY <2>2, <2>3 DEF Picks, Types
  <2> QED  BY <1>7, <2>3 DEF PickGender, PickDate, TypeYear, TypeWeight
<1>8. "torn" \notin slips => RecordsWhole /\ (alert = "confirm" => Whole(form))
  BY DEF WholeInv, FormWhole
<1>9. ASSUME Dies(pending), "torn" \notin slips' => "torn" \notin slips PROVE WholeInv'
  BY <1>1, <1>8, <1>9, DiesKeepsWhole DEF RecordsWhole
<1>10. CASE SaveTraps
  <2>1. CASE Dies(pending) /\ UNCHANGED slips
    BY <1>9, <2>1
  <2>2. CASE ResetTraps(Append(pending, form))
    <3>1. "torn" \notin slips =>
            \A i \in 1 .. Len(Append(pending, form)) : Whole(Append(pending, form)[i])
      BY <1>1, <1>8, <1>10, WholeQueues DEF SaveTraps, RecordsWhole
    <3>2. Append(pending, form) \in Seq(Record)
      BY <1>1
    <3> QED  BY <1>8, <2>2, <3>1, <3>2, DiesKeepsWhole DEF ResetTraps, RecordsWhole
  <2> QED  BY <1>10, <2>1, <2>2 DEF SaveTraps
<1>11. CASE AcknowledgeTraps \/ ReadBackTraps \/ AvatarTraps
  BY <1>9, <1>11 DEF AcknowledgeTraps, ReadBackTraps, AvatarTraps, ResetTraps
<1>12. CASE Accept
  <2>1. /\ pending # <<>> /\ stored' = Head(pending) /\ pending' = Tail(pending)
        /\ UNCHANGED <<mainQ, currentUser, open, arrClasses, form, alert, touched, slips>>
    BY <1>12 DEF Accept, appVars, viewVars
  <2>2. "torn" \notin slips => Whole(stored') /\ \A i \in 1 .. Len(pending') : Whole(pending'[i])
    BY <1>1, <1>8, <2>1, WholeQueues DEF RecordsWhole
  <2>3. "torn" \notin slips' => RecordsWhole'
    BY <1>8, <2>1, <2>2 DEF RecordsWhole, Whole
  <2>4. "torn" \notin slips' => FormWhole'
    BY <2>1 DEF WholeInv, FormWhole, LastRead, Whole
  <2> QED  BY <2>1, <2>3, <2>4 DEF WholeInv
<1>13. CASE Reject
  <2>1. /\ pending # <<>> /\ pending' = Tail(pending) /\ slips \subseteq slips'
        /\ UNCHANGED <<stored, mainQ, currentUser, open, arrClasses, form, alert, touched>>
    BY <1>13 DEF Reject, appVars
  <2>2. "torn" \notin slips => \A i \in 1 .. Len(pending') : Whole(pending'[i])
    BY <1>1, <1>8, <2>1, WholeQueues DEF RecordsWhole
  <2>3. "torn" \notin slips' => RecordsWhole'
    BY <1>8, <2>1, <2>2 DEF RecordsWhole, Whole
  <2>4. "torn" \notin slips' => FormWhole'
    BY <2>1 DEF WholeInv, FormWhole, LastRead, Whole
  <2> QED  BY <2>1, <2>3, <2>4 DEF WholeInv
<1>14. CASE Relaunch
  <2>1. /\ ~open /\ mainQ = <<>> /\ alert # "updated"
        /\ UNCHANGED <<stored, pending, mainQ, open, arrClasses, form, alert, touched>>
        /\ currentUser' \in {stored, currentUser}
        /\ "torn" \notin slips' => "torn" \notin slips
    BY <1>14 DEF Relaunch, SavedInv, WholeInv, dbVars
  <2> QED  BY <2>1 DEF WholeInv, RecordsWhole, FormWhole, Whole
<1>15. CASE UNCHANGED vars
  BY <1>2, <1>15 DEF vars, appVars, viewVars, WholeInv
<1> QED
  BY <1>3, <1>4, <1>5, <1>6, <1>7, <1>10, <1>11, <1>12, <1>13, <1>14, <1>15, SaveWhole,
     AcknowledgeWhole, AvatarWhole, ReadBackWhole DEF Next

(* Class and teacher of a record part only when a class is picked and then *)
(* the avatar changed, or the alert answered before the update has been    *)
(* read back: no sequence of edits, updates, rejections, crashes and       *)
(* cancels alone does it.                                                  *)
THEOREM TeacherKeptWithClass == Spec => []TornOnlyByReset
<1>1. Init => TypeOK
  BY InitInv DEF DateInv
<1>2. Init => SavedInv
  BY DEF Init, SavedInv, LastRead, View
<1>3. Init => WholeInv
  <2> SUFFICES ASSUME Init PROVE WholeInv
    OBVIOUS
  <2>1. Len(<<>>) = 0
    OBVIOUS
  <2> QED  BY <2>1, DetailAssumption DEF Init, WholeInv, RecordsWhole, FormWhole, Whole
<1>4. TypeOK /\ WholeInv => TornOnlyByReset
  <2> SUFFICES ASSUME TypeOK, WholeInv, "torn" \notin slips PROVE TeacherOfClass
    BY DEF TornOnlyByReset
  <2>1. pending # <<>> => Len(pending) \in 1 .. Len(pending)
    BY DEF TypeOK
  <2> QED  BY <2>1 DEF WholeInv, RecordsWhole, Whole, TeacherOfClass, View
<1> QED  BY <1>1, <1>2, <1>3, <1>4, StepType, StepSaved, StepWhole, PTL DEF Spec
-----------------------------------------------------------------------------
(* What the screen does not trap on: a record of one of the classes, with  *)
(* its numbers.                                                            *)
Sound(r) == r.class \in Classes /\ r.year \in Years /\ r.weight \in Weights

Harmless == Sound(FirstProfile) /\ slips \cap {"mistyped", "hasty"} = {}

SoundInv ==
  Harmless =>
    /\ alive
    /\ Sound(stored) /\ Sound(currentUser) /\ Sound(form)
    /\ \A i \in 1 .. Len(pending) : Sound(pending[i])
    /\ \A i \in 1 .. Len(mainQ) : Sound(mainQ[i])

(* Taking the first of a queue of such records, or adding one.             *)
LEMMA SoundQueues ==
  ASSUME NEW q \in Seq(Record), \A i \in 1 .. Len(q) : Sound(q[i])
  PROVE  /\ \A r \in Record : Sound(r) =>
                \A i \in 1 .. Len(Append(q, r)) : Sound(Append(q, r)[i])
         /\ q # <<>> => Sound(Head(q)) /\ \A i \in 1 .. Len(Tail(q)) : Sound(Tail(q)[i])
<1>1. ASSUME NEW r \in Record, Sound(r), NEW i \in 1 .. Len(Append(q, r))
      PROVE  Sound(Append(q, r)[i])
  BY <1>1
<1>2. ASSUME q # <<>>
      PROVE  Sound(Head(q)) /\ \A i \in 1 .. Len(Tail(q)) : Sound(Tail(q)[i])
  <2>1. 1 \in 1 .. Len(q) /\ Head(q) = q[1]
    BY <1>2
  <2>2. ASSUME NEW i \in 1 .. Len(Tail(q))
        PROVE  i + 1 \in 1 .. Len(q) /\ Tail(q)[i] = q[i + 1]
    BY <1>2
  <2> QED  BY <2>1, <2>2
<1> QED  BY <1>1, <1>2

(* The screen traps on none of them.                                       *)
LEMMA NoTrap ==
  ASSUME TypeOK, SoundInv, Harmless', [Next]_vars
  PROVE  /\ Harmless
         /\ ~ (SaveTraps \/ AcknowledgeTraps \/ AvatarTraps \/ ReadBackTraps)
<1>1. mainQ \in Seq(Record) /\ arrClasses \subseteq Classes
  BY DEF TypeOK
<1>2. Harmless
  BY DEF Harmless, Next, Open, Back, ClassArrives, Edit, PickClass, PickGender, PickDate,
         TypeYear, TypeWeight, Picks, Types, Changes, Ask, Decline, Discard, SaveRefused, Save,
         SaveTraps, Acknowledge, AcknowledgeTraps, AvatarChanged, AvatarTraps, ReadBack,
         ReadBackTraps, Accept, Reject, Relaunch, ResetTraps, vars, viewVars
<1>3. /\ Sound(currentUser) /\ Sound(form)
      /\ \A i \in 1 .. Len(mainQ) : Sound(mainQ[i])
  BY <1>2 DEF SoundInv
<1>4. ~YearTraps
  BY <1>3 DEF YearTraps, Sound
<1>5. ASSUME NEW writes, ResetTraps(writes), Traps(currentUser) PROVE FALSE
  <2>1. arrClasses \notin {{}, Classes}
    BY <1>3, <1>5 DEF Traps, Sound
  <2>2. "hasty" \in slips'
    BY <1>5, <2>1 DEF ResetTraps, Hasty
  <2> QED  BY <2>2 DEF Harmless
<1>6. ~ (SaveTraps \/ AcknowledgeTraps \/ AvatarTraps)
  BY <1>4, <1>5 DEF SaveTraps, AcknowledgeTraps, AvatarTraps
<1>7. ASSUME ReadBackTraps PROVE FALSE
  <2>1. mainQ # <<>> /\ Head(mainQ).weight = NotANumber
    BY <1>7 DEF ReadBackTraps
  <2>2. Head(mainQ).weight \in Weights
    BY <1>1, <1>3, <2>1, SoundQueues DEF Sound
  <2> QED  BY <2>1, <2>2, DetailAssumption
<1> QED  BY <1>2, <1>6, <1>7

(* Every record and the controls keep a class and their numbers.           *)
LEMMA StepSound == TypeOK /\ SoundInv /\ [Next]_vars => SoundInv'
<1> SUFFICES ASSUME TypeOK, SoundInv, [Next]_vars, Harmless'
             PROVE  /\ alive' /\ Sound(stored') /\ Sound(currentUser') /\ Sound(form')
                    /\ \A i \in 1 .. Len(pending') : Sound(pending'[i])
                    /\ \A i \in 1 .. Len(mainQ') : Sound(mainQ'[i])
  BY DEF SoundInv, Sound
<1> DEFINE Goal == /\ alive' /\ Sound(stored') /\ Sound(currentUser') /\ Sound(form')
                   /\ \A i \in 1 .. Len(pending') : Sound(pending'[i])
                   /\ \A i \in 1 .. Len(mainQ') : Sound(mainQ'[i])
<1>1. /\ pending \in Seq(Record) /\ mainQ \in Seq(Record) /\ form \in Record
      /\ arrClasses \subseteq Classes
  BY DEF TypeOK
<1>2. Harmless
  BY NoTrap
<1>3. /\ alive /\ Sound(stored) /\ Sound(currentUser) /\ Sound(form)
      /\ \A i \in 1 .. Len(pending) : Sound(pending[i])
      /\ \A i \in 1 .. Len(mainQ) : Sound(mainQ[i])
  BY <1>2 DEF SoundInv
<1>4. Sound(FirstProfile)
  BY <1>2 DEF Harmless
<1>5. ASSUME UNCHANGED <<dbVars, alive, currentUser>>, Sound(form') PROVE Goal
  BY <1>3, <1>5 DEF dbVars
<1>6. ASSUME Refresh PROVE Sound(form')
  BY <1>3, <1>6, RefreshFields DEF Sound
<1>7. CASE Open \/ Back
  BY <1>3, <1>4, <1>5, <1>7 DEF Open, Back, appVars
<1>8. CASE ClassArrives \/ Edit \/ Ask \/ Decline \/ Discard \/ SaveRefused
  BY <1>3, <1>5, <1>8 DEF ClassArrives, Edit, Ask, Decline, Discard, SaveRefused, appVars
<1>9. CASE PickClass
  <2>1. PICK c \in arrClasses :
          Picks({"class", "teacher"}, [form EXCEPT !.class = c, !.teacher = c])
    BY <1>9 DEF PickClass
  <2>2. Sound([form EXCEPT !.class = c, !.teacher = c])
    BY <1>1, <1>3 DEF Sound, Record
  <2> QED  BY <1>5, <2>1, <2>2 DEF Picks, Changes
<1>10. CASE PickGender \/ PickDate
  <2>1. ASSUME NEW x \in {"gender", "day", "month"}, NEW v, Picks({x}, [form EXCEPT ![x] = v])
        PROVE  Goal
    <3>1. Sound([form EXCEPT ![x] = v])
      BY <1>1, <1>3 DEF Sound, Record
    <3> QED  BY <1>5, <2>1, <3>1 DEF Picks, Changes
  <2> QED  BY <1>10, <2>1 DEF PickGender, PickDate
<1>11. CASE TypeYear
  <2>1. PICK y \in Years \cup {NotANumber} : Types("year", y)
    BY <1>11 DEF TypeYear
  <2>2. y # NotANumber
    BY <2>1 DEF Types, Harmless
  <2>3. Sound([form EXCEPT !["year"] = y])
    BY <1>1, <1>3, <2>1, <2>2 DEF Sound, Record
  <2> QED  BY <1>5, <2>1, <2>3 DEF Types, Changes
<1>12. CASE TypeWeight
  <2>1. PICK w \in Weights \cup {NotANumber} : Types("weight", w)
    BY <1>12 DEF TypeWeight
  <2>2. w # NotANumber
    BY <2>1 DEF Types, Harmless
  <2>3. Sound([form EXCEPT !["weight"] = w])
    BY <1>1, <1>3, <2>1, <2>2 DEF Sound, Record
  <2> QED  BY <1>5, <2>1, <2>3 DEF Types, Changes
<1>13. CASE Save
  <2>1. /\ pending' = Append(pending, form) /\ mainQ' = Append(mainQ, form) /\ Refresh
        /\ UNCHANGED <<stored, alive, currentUser>>
    BY <1>13 DEF Save, appVars
  <2>2. \A i \in 1 .. Len(Append(pending, form)) : Sound(Append(pending, form)[i])
    BY <1>1, <1>3, SoundQueues
  <2>3. \A i \in 1 .. Len(Append(mainQ, form)) : Sound(Append(mainQ, form)[i])
    BY <1>1, <1>3, SoundQueues
  <2> QED  BY <1>3, <1>6, <2>1, <2>2, <2>3
<1>14. CASE Acknowledge \/ AvatarChanged
  BY <1>5, <1>6, <1>14 DEF Acknowledge, EndsEditing, AvatarChanged, appVars
<1>15. CASE ReadBack
  <2>1. /\ mainQ # <<>> /\ currentUser' = Head(mainQ) /\ mainQ' = Tail(mainQ)
        /\ UNCHANGED <<stored, pending, alive, form>>
    BY <1>15 DEF ReadBack, viewVars
  <2> QED  BY <1>1, <1>3, <2>1, SoundQueues
<1>16. CASE Accept \/ Reject
  <2>1. /\ pending # <<>> /\ pending' = Tail(pending) /\ stored' \in {stored, Head(pending)}
        /\ UNCHANGED <<mainQ, alive, currentUser, form>>
    BY <1>16 DEF Accept, Reject, appVars, viewVars
  <2> QED  BY <1>1, <1>3, <2>1, SoundQueues
<1>17. ~Relaunch
  BY <1>3 DEF Relaunch
<1>18. CASE UNCHANGED vars
  BY <1>3, <1>5, <1>18 DEF vars, appVars, viewVars
<1> QED
  BY <1>7, <1>8, <1>9, <1>10, <1>11, <1>12, <1>13, <1>14, <1>15, <1>16, <1>17, <1>18, NoTrap
     DEF Next

(* A student of one of the classes is never thrown out of the app, however *)
(* updates, resets and late answers are mixed, unless a text that is no    *)
(* number is typed or the form is reset while the classes are being        *)
(* loaded.                                                                 *)
THEOREM NobodyThrownOut == Spec => []ThrownOutCauses
<1>1. Init => TypeOK
  BY InitInv DEF DateInv
<1>2. Init => SoundInv
  <2> SUFFICES ASSUME Init, Harmless PROVE SoundInv
    BY DEF SoundInv
  <2>1. Len(<<>>) = 0
    OBVIOUS
  <2> QED  BY <2>1 DEF Init, SoundInv, Harmless
<1>3. SoundInv => ThrownOutCauses
  BY DetailAssumption DEF SoundInv, Harmless, Sound, ThrownOutCauses
<1> QED  BY <1>1, <1>2, <1>3, StepType, StepSound, PTL DEF Spec
-----------------------------------------------------------------------------
(* What is not touched.  The controls of the other fields hold the         *)
(* profile, except between an update and the answer to its alert: then     *)
(* those that are not reset hold what will be read back.                   *)
Field == {"class", "teacher", "gender", "day", "month", "year", "weight"}

Holds(f) == form[f] = currentUser[f]

HeldInv ==
  /\ alert # "none" => open
  /\ "class" \in touched => arrClasses # {}
  /\ "late" \notin slips /\ alert # "updated" =>
       mainQ = <<>> /\ (open => \A f \in Field \ touched : Holds(f))
  /\ "late" \notin slips /\ alert = "updated" =>
       /\ form.teacher = LastRead.teacher /\ form.gender = LastRead.gender
       /\ arrClasses = {} => form.class = LastRead.class

LEMMA RecordFields == \A r \in Record : DOMAIN r = Field
BY DEF Record, Field

(* A control that is changed is touched.                                   *)
LEMMA ChangesHeld ==
  ASSUME TypeOK, HeldInv, Free, NEW fields, NEW f, Changes(fields, f), slips \subseteq slips',
         \A x \in Field \ fields : f[x] = form[x],
         "class" \in fields => arrClasses # {}
  PROVE  HeldInv'
<1>1. /\ form' = f /\ touched' = touched \cup fields
      /\ UNCHANGED <<mainQ, currentUser, open, arrClasses, alert>>
  BY DEF Changes, dbVars
<1>2. alert = "none" /\ open
  BY DEF Free, Busy
<1>3. "late" \notin slips => mainQ = <<>> /\ \A x \in Field \ touched : form[x] = currentUser[x]
  BY <1>2 DEF HeldInv, Holds
<1>4. "class" \in touched' => arrClasses' # {}
  BY <1>1 DEF HeldInv
<1>5. "late" \notin slips => \A x \in Field \ touched' : form'[x] = currentUser'[x]
  BY <1>1, <1>3
<1> QED  BY <1>1, <1>2, <1>3, <1>4, <1>5 DEF HeldInv, Holds

LEMMA StepHeld == TypeOK /\ SavedInv /\ HeldInv /\ [Next]_vars => HeldInv'
<1> SUFFICES ASSUME TypeOK, SavedInv, HeldInv, [Next]_vars PROVE HeldInv'
  OBVIOUS
<1>1. form \in Record /\ mainQ \in Seq(Record) /\ alert \in Alert
  BY DEF TypeOK
<1>2. ASSUME NEW writes, Dies(writes) PROVE HeldInv'
  BY <1>2 DEF Dies, HeldInv
<1>3. ASSUME UNCHANGED <<mainQ, currentUser, open, arrClasses, form, alert, touched>>,
             "late" \in slips => "late" \in slips'
      PROVE  HeldInv'
  BY <1>3 DEF HeldInv, Holds, LastRead
<1>4. CASE Open
  <2>1. /\ open' /\ alert' = "none" /\ touched' = {} /\ arrClasses' = {}
        /\ form' = currentUser /\ UNCHANGED <<mainQ, currentUser>>
    BY <1>4 DEF Open, dbVars, appVars
  <2>2. "late" \notin slips' => mainQ = <<>>
    <3>1. CASE mainQ # <<>>
      <4>1. slips' = slips /\ alert # "updated"
        BY <1>4, <3>1 DEF Open, HeldInv
      <4> QED  BY <3>1, <4>1 DEF HeldInv
    <3> QED  BY <3>1
  <2> QED  BY <2>1, <2>2 DEF HeldInv, Holds
<1>5. CASE Back
  BY <1>5 DEF Back, Free, Busy, HeldInv, dbVars, appVars
<1>6. CASE ClassArrives
  <2>1. arrClasses' # {} /\ UNCHANGED <<mainQ, currentUser, open, form, alert, touched, slips>>
    BY <1>6 DEF ClassArrives, dbVars, appVars
  <2> QED  BY <2>1 DEF HeldInv, Holds, LastRead
<1>7. CASE Edit
  BY <1>3, <1>7 DEF Edit, dbVars, appVars
<1>8. CASE PickClass
  <2>1. PICK c \in arrClasses :
          Picks({"class", "teacher"}, [form EXCEPT !.class = c, !.teacher = c])
    BY <1>8 DEF PickClass
  <2>2. \A x \in Field \ {"class", "teacher"} : [form EXCEPT !.class = c, !.teacher = c][x] = form[x]
    BY <1>1, RecordFields
  <2> QED  BY <2>1, <2>2, ChangesHeld DEF Picks
<1>9. CASE PickGender \/ PickDate \/ TypeYear \/ TypeWeight
  <2>1. ASSUME NEW x \in Field \ {"class"}, NEW v, Picks({x}, [form EXCEPT ![x] = v]) \/ Types(x, v)
        PROVE  HeldInv'
    <3>1. \A y \in Field \ {x} : [form EXCEPT ![x] = v][y] = form[y]
      BY <1>1, RecordFields
    <3>2. Free /\ Changes({x}, [form EXCEPT ![x] = v]) /\ slips \subseteq slips'
      BY <2>1 DEF Picks, Types
    <3> QED  BY <3>1, <3>2, ChangesHeld
  <2>2. {"gender", "day", "month", "year", "weight"} \subseteq Field \ {"class"}
    BY DEF Field
  <2> QED  BY <1>9, <2>1, <2>2 DEF PickGender, PickDate, TypeYear, TypeWeight
<1>12. ASSUME alert # "updated", alert' # "updated", open,
              UNCHANGED <<mainQ, currentUser, open, arrClasses, form, touched, slips>>
       PROVE  HeldInv'
  BY <1>12 DEF HeldInv, Holds, LastRead
<1>13. CASE Ask \/ Decline \/ Discard \/ SaveRefused
  <2>1. /\ alert # "updated" /\ alert' # "updated" /\ (alert = "none" => open)
        /\ UNCHANGED <<mainQ, currentUser, open, arrClasses, form, touched, slips>>
    BY <1>13 DEF Ask, Decline, Discard, SaveRefused, Free, Busy, dbVars, appVars
  <2> QED  BY <1>12, <2>1 DEF HeldInv
<1>14. CASE Save
  <2>1. /\ alert = "confirm" /\ alert' = "updated" /\ mainQ' = Append(mainQ, form) /\ Refresh
        /\ UNCHANGED <<currentUser, open, arrClasses, touched>> 
        /\ "late" \notin slips' => "late" \notin slips
    BY <1>14 DEF Save, appVars
  <2>2. LastRead' = form
    <3>1. Append(mainQ, form) # <<>> /\ Append(mainQ, form)[Len(Append(mainQ, form))] = form
      BY <1>1, LastOfQueue
    <3> QED  BY <2>1, <3>1 DEF LastRead
  <2>3. /\ form'.teacher = form.teacher /\ form'.gender = form.gender
        /\ arrClasses = {} => form'.class = form.class
    BY <2>1, RefreshFields
  <2> QED  BY <2>1, <2>2, <2>3 DEF HeldInv
<1>15. CASE Acknowledge
  <2>1. /\ alert = "updated" /\ alert' = "none" /\ touched' = {} /\ Refresh
        /\ UNCHANGED <<mainQ, currentUser, open, arrClasses>>
        /\ "late" \notin slips' => "late" \notin slips /\ mainQ = <<>>
    BY <1>15 DEF Acknowledge, EndsEditing, Late, dbVars, appVars
  <2>2. ASSUME "late" \notin slips' PROVE \A f \in Field : form'[f] = currentUser[f]
    <3>1. LastRead = currentUser
      BY <2>1, <2>2 DEF LastRead
    <3>2. /\ form.teacher = currentUser.teacher /\ form.gender = currentUser.gender
          /\ arrClasses = {} => form.class = currentUser.class
      BY <2>1, <2>2, <3>1 DEF HeldInv
    <3> QED  BY <2>1, <3>2, RefreshFields DEF Field
  <2> QED  BY <2>1, <2>2 DEF HeldInv, Holds
<1>16. CASE AvatarChanged
  <2>1. /\ alert = "none" /\ open /\ Refresh /\ touched' = touched \cap {"teacher", "gender"}
        /\ UNCHANGED <<mainQ, currentUser, open, arrClasses, alert>> /\ slips \subseteq slips'
    BY <1>16 DEF AvatarChanged, Free, Busy, dbVars, appVars
  <2>2. ASSUME "late" \notin slips, NEW f \in Field \ touched' PROVE form'[f] = currentUser[f]
    <3>1. \A x \in Field \ touched : form[x] = currentUser[x]
      BY <2>1, <2>2 DEF HeldInv, Holds
    <3>2. CASE f \in {"teacher", "gender"}
      <4>1. f \in Field \ touched
        BY <2>1, <2>2, <3>2
      <4> QED  BY <2>1, <3>1, <3>2, <4>1, RefreshFields
    <3>3. CASE f = "class"
      <4>1. arrClasses = {} => "class" \in Field \ touched
        BY <2>2, <3>3 DEF HeldInv
      <4> QED  BY <2>1, <3>1, <3>3, <4>1, RefreshFields
    <3>4. CASE f \in {"day", "month", "year", "weight"}
      BY <2>1, <3>4, RefreshFields
    <3> QED  BY <2>2, <3>2, <3>3, <3>4 DEF Field
  <2> QED  BY <2>1, <2>2 DEF HeldInv, Holds
<1>17. CASE ReadBack
  <2>1. LastRead' = LastRead /\ mainQ # <<>>
    BY <1>17, ReadKeepsLast DEF ReadBack
  <2>2. UNCHANGED <<open, arrClasses, form, alert, touched, slips>>
    BY <1>17 DEF ReadBack, viewVars
  <2> QED  BY <2>1, <2>2 DEF HeldInv
<1>18. CASE Accept \/ Reject \/ Relaunch
  <2>1. CASE Accept \/ Reject
    BY <1>3, <2>1 DEF Accept, Reject, appVars, viewVars
  <2>2. CASE Relaunch
    <3>1. ~open' /\ mainQ' = <<>> /\ arrClasses' = arrClasses /\ alert' = alert /\ touched' = touched
      BY <2>2 DEF Relaunch, SavedInv, dbVars
    <3>2. alert # "updated"
      BY <3>1, <2>2 DEF Relaunch, SavedInv, HeldInv
    <3> QED  BY <2>2, <3>1, <3>2 DEF Relaunch, SavedInv, HeldInv
  <2> QED  BY <1>18, <2>1, <2>2
<1>19. CASE SaveTraps \/ AcknowledgeTraps \/ AvatarTraps \/ ReadBackTraps
  BY <1>2, <1>19 DEF SaveTraps, AcknowledgeTraps, AvatarTraps, ReadBackTraps, ResetTraps
<1>20. CASE UNCHANGED vars
  BY <1>3, <1>20 DEF vars, dbVars, appVars, viewVars
<1> QED
  BY <1>4, <1>5, <1>6, <1>7, <1>8, <1>9, <1>13, <1>14, <1>15, <1>16, <1>17,
     <1>18, <1>19, <1>20 DEF Next

(* An update writes the whole record and changes no field of it that was   *)
(* not touched, unless an alert has been answered before the last update   *)
(* was read back: two resets, one with the profile before the update, the  *)
(* other with the one after it, leave the controls with the profile.       *)
THEOREM UpdateKeepsUntouched == Spec => UntouchedKept
<1>1. Init => TypeOK /\ SavedInv
  BY InitInv DEF Init, DateInv, SavedInv, LastRead, View
<1>2. Init => HeldInv
  BY DEF Init, HeldInv, Holds
<1>3. ASSUME TypeOK, HeldInv, [Next]_vars, NEW f \in DOMAIN form \ touched,
             Len(pending') > Len(pending), "late" \notin slips
      PROVE  View'[f] = currentUser[f]
  <2>1. pending \in Seq(Record) /\ form \in Record /\ Len(pending) \in Nat
    BY <1>3 DEF TypeOK
  <2>2. CASE Save
    <3>1. pending' = Append(pending, form) /\ alert = "confirm"
      BY <2>2 DEF Save
    <3>2. Append(pending, form) # <<>> /\ Append(pending, form)[Len(Append(pending, form))] = form
      BY <2>1, LastOfQueue
    <3>3. View' = form
      BY <3>1, <3>2 DEF View
    <3>4. f \in Field \ touched
      BY <1>3, <2>1, RecordFields
    <3> QED  BY <1>3, <3>1, <3>3, <3>4 DEF HeldInv, Holds
  <2>3. ASSUME pending' \in {pending, <<>>} PROVE FALSE
    BY <1>3, <2>1, <2>3
  <2>4. ASSUME Accept \/ Reject PROVE FALSE
    <3>1. pending # <<>> /\ pending' = Tail(pending)
      BY <2>4 DEF Accept, Reject
    <3>2. Len(pending') = Len(pending) - 1
      BY <2>1, <3>1
    <3> QED  BY <1>3, <2>1, <3>2
  <2>5. ASSUME \/ Open \/ Back \/ ClassArrives \/ Edit \/ PickClass \/ PickGender \/ PickDate
               \/ TypeYear \/ TypeWeight \/ Ask \/ Decline \/ Discard \/ SaveRefused
        PROVE  pending' = pending
    BY <2>5 DEF Open, Back, ClassArrives, Edit, PickClass, PickGender, PickDate, TypeYear,
                TypeWeight, Picks, Types, Changes, Ask, Decline, Discard, SaveRefused, dbVars
  <2>6. ASSUME \/ Acknowledge \/ AvatarChanged \/ ReadBack \/ Relaunch \/ UNCHANGED vars
        PROVE  pending' = pending
    BY <2>6 DEF Acknowledge, EndsEditing, AvatarChanged, ReadBack, Relaunch, vars, dbVars
  <2>7. ASSUME SaveTraps \/ AcknowledgeTraps \/ AvatarTraps \/ ReadBackTraps
        PROVE  pending' = <<>>
    BY <2>7 DEF SaveTraps, AcknowledgeTraps, AvatarTraps, ReadBackTraps, ResetTraps, Dies
  <2> QED  BY <1>3, <2>2, <2>3, <2>4, <2>5, <2>6, <2>7 DEF Next
<1> DEFINE Kept ==
      \A f \in DOMAIN form \ touched :
        Len(pending') > Len(pending) /\ "late" \notin slips => View'[f] = currentUser[f]
<1>4. TypeOK /\ HeldInv /\ [Next]_vars => [Kept]_vars
  BY <1>3
<1> QED
  BY <1>1, <1>2, <1>4, StepType, StepSaved, StepHeld, PTL DEF Spec, UntouchedKept
=============================================================================
