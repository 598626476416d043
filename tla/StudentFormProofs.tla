------------------------- MODULE StudentFormProofs -------------------------
(***************************************************************************)
(* What holds of the registration form for all classes, emails and dates,  *)
(* whatever fails and in whatever order the callbacks come.                *)
(***************************************************************************)
EXTENDS StudentFormProperties, BirthDateProofs, TLAPS

(* The types, with what makes a record one of a registered student: every  *)
(* record on its way is, and the form still names the account that was     *)
(* asked for while it is being made.                                       *)
ChainInv ==
  /\ \A i \in DOMAIN pending : pending[i] \in registered
  /\ alert \in {"creating", "created"} => form.email = account.email
  /\ alert \in {"created", "restoring"} => account.email \in registered
  /\ alert = "restoring" => user.email = account.email

TypeInv == TypeOK /\ ChainInv

LEMMA FreshTypes ==
  /\ NewForm \in Form /\ NewShown \in Shown /\ NoAccount \in Account
  /\ <<>> \in Seq(Classes) /\ <<>> \in Seq(Emails)
<1>1. /\ 1 \in Days /\ 1 \in Months /\ FirstYear \in Years \cup {NotAYear}
      /\ "Nam" \in Gender
  BY FormAssumption DEF Gender
<1> QED  BY <1>1 DEF NewForm, NewShown, NoAccount, Form, Shown, Account, Date

LEMMA InitTyped == Init => TypeInv
<1> SUFFICES ASSUME Init PROVE TypeInv
  OBVIOUS
<1>1. TypeOK
  BY FreshTypes DEF Init, TypeOK, Alert
<1>2. ChainInv
  <2>1. DOMAIN <<>> = {}
    OBVIOUS
  <2> QED  BY <2>1 DEF Init, ChainInv
<1> QED  BY <1>1, <1>2 DEF TypeInv

(* A form that is opened, left or lost with the process is a fresh one.    *)
LEMMA FreshTyped ==
  ASSUME TypeInv, Fresh, open' \in BOOLEAN,
         \/ UNCHANGED serverVars
         \/ /\ pending' = <<>> /\ UNCHANGED registered
            /\ enrolled' \in {enrolled, enrolled \cup {pending[i] : i \in DOMAIN pending}}
  PROVE  TypeInv'
<1>1. /\ registered' \subseteq Emails /\ enrolled' \subseteq registered'
      /\ pending' \in Seq(Emails) /\ \A i \in DOMAIN pending' : pending'[i] \in registered'
  <2>1. CASE UNCHANGED serverVars
    BY <2>1 DEF TypeInv, TypeOK, ChainInv, serverVars
  <2>2. CASE ~ UNCHANGED serverVars
    <3>1. pending' = <<>> /\ <<>> \in Seq(Emails) /\ DOMAIN <<>> = {}
      BY <2>2
    <3>2. UNCHANGED registered /\ enrolled' \subseteq registered
      BY <2>2 DEF TypeInv, TypeOK, ChainInv
    <3> QED  BY <3>1, <3>2 DEF TypeInv, TypeOK
  <2> QED  BY <2>1, <2>2
<1>2. /\ arrClasses' = <<>> /\ form' = NewForm /\ shown' = NewShown /\ wheels' = {}
      /\ alert' = "none" /\ before' = FALSE /\ account' = NoAccount /\ user' = NewForm
      /\ slips' = {}
  BY DEF Fresh, ChainOver
<1> QED  BY <1>1, <1>2, FreshTypes DEF TypeInv, TypeOK, ChainInv, Alert

(* The controls. *)
LEMMA ControlTyped ==
  ASSUME TypeInv, Controls \/ ClassArrives
  PROVE  TypeInv'
<1>a. TypeOK /\ ChainInv
  BY DEF TypeInv
<1>1. ASSUME NEW f \in Form, NEW s \in Shown, Sets(f, s) PROVE TypeInv'
  BY <1>1, <1>a DEF Sets, Free, TypeInv, TypeOK, ChainInv, serverVars, chainVars
<1>2. form \in Form /\ shown \in Shown
  BY <1>a DEF TypeOK
<1>3. CASE ClassArrives
  <2>1. shown' \in Shown
    BY <1>2, <1>3 DEF ClassArrives, Shown
  <2> QED  BY <1>3, <1>a, <2>1 DEF ClassArrives, TypeInv, TypeOK, ChainInv, serverVars, chainVars
<1>4. CASE TypeEmail \/ TypeYear
  <2>1. /\ \A e \in Emails : [form EXCEPT !.email = e] \in Form
        /\ \A y \in Years \cup {NotAYear} : [form EXCEPT !.year = y] \in Form
    BY <1>2 DEF Form
  <2> QED  BY <1>1, <1>2, <1>4, <2>1 DEF TypeEmail, TypeYear
<1>5. CASE TapGender
  <2>1. \A g \in Gender : [form EXCEPT !.gender = g] \in Form /\ [shown EXCEPT !.gender = g] \in Shown
    BY <1>2 DEF Form, Shown
  <2> QED  BY <1>1, <1>5, <2>1 DEF TapGender
<1>6. CASE PickImage
  <2>1. \A p \in Pictures : [form EXCEPT !.picture = p] \in Form
                              /\ [shown EXCEPT !.picture = p] \in Shown
    BY <1>2 DEF Form, Shown
  <2> QED  BY <1>1, <1>6, <2>1 DEF PickImage
<1>7. CASE Turn
  BY <1>7, <1>a DEF Turn, TypeInv, TypeOK, ChainInv, serverVars, chainVars
<1>8. CASE Settle
  <2>1. form' \in Form /\ shown' \in Shown /\ form'.email = form.email
    <3>1. ASSUME NEW d \in Days, NEW m \in Months, form' = [form EXCEPT !.day = d, !.month = m]
          PROVE  form' \in Form /\ form'.email = form.email
      BY <1>2, <3>1 DEF Form
    <3>2. ASSUME NEW c \in Classes, form' = [form EXCEPT !.class = c, !.teacher = c],
                 shown' = [shown EXCEPT !.class = c]
          PROVE  form' \in Form /\ shown' \in Shown /\ form'.email = form.email
      BY <1>2, <3>2 DEF Form, Shown
    <3>4. \A i \in DOMAIN arrClasses : arrClasses[i] \in Classes
      BY <1>a DEF TypeOK
    <3>5. CASE \E d \in Days, m \in Months : form' = [form EXCEPT !.day = d, !.month = m]
                                              /\ UNCHANGED shown
      BY <1>2, <3>1, <3>5
    <3>6. CASE \E i \in DOMAIN arrClasses :
                 /\ form' = [form EXCEPT !.class = arrClasses[i], !.teacher = arrClasses[i]]
                 /\ shown' = [shown EXCEPT !.class = arrClasses[i]]
      BY <3>2, <3>4, <3>6
    <3> QED  BY <1>8, <3>5, <3>6 DEF Settle
  <2>2. wheels' \subseteq Wheel /\ slips' \subseteq {"settled"}
    BY <1>8, <1>a DEF Settle, TypeOK
  <2> QED  BY <1>8, <1>a, <2>1, <2>2 DEF Settle, TypeInv, TypeOK, ChainInv, serverVars
<1> QED  BY <1>3, <1>4, <1>5, <1>6, <1>7, <1>8 DEF Controls

(* btnXong and its callbacks. *)
LEMMA XongTyped ==
  ASSUME TypeInv, Xong
  PROVE  TypeInv'
<1>a. TypeOK /\ ChainInv
  BY DEF TypeInv
<1> USE DEF Says, formVars, serverVars, chainVars
<1>1. CASE Done \/ Cancel \/ OkRefused
  BY <1>1, <1>a DEF Done, Cancel, OkRefused, Free, TypeInv, TypeOK, ChainInv, Alert
<1>2. CASE OkTraps \/ LinkTraps
  BY <1>2, FreshTyped DEF OkTraps, LinkTraps, Ends
<1>3. CASE OkCreate
  <2>1. account' \in Account /\ account'.email = form.email
    BY <1>3, <1>a DEF OkCreate, TypeOK, Form, Account, Date, DateOf
  <2> QED  BY <1>3, <1>a, <2>1 DEF OkCreate, TypeInv, TypeOK, ChainInv, Alert
<1>4. CASE CreateRefused \/ AvatarFails \/ RestoreFails \/ Restored
  <2>1. /\ alert' \in {"none", "stuck", "success"} /\ UNCHANGED <<serverVars, formVars, open, before>>
        /\ account' = NoAccount /\ user' = NewForm /\ slips' = {}
    BY <1>4 DEF CreateRefused, AvatarFails, RestoreFails, Restored, ChainOver
  <2> QED  BY <1>a, <2>1, FreshTypes DEF TypeInv, TypeOK, ChainInv, Alert
<1>5. CASE Created
  <2>1. account.email \in Emails
    BY <1>5, <1>a DEF Created, TypeOK, Account
  <2> QED  BY <1>5, <1>a, <2>1 DEF Created, TypeInv, TypeOK, ChainInv, Alert
<1>6. CASE Write
  <2>1. form.email = account.email /\ form.email \in registered /\ form.email \in Emails
    BY <1>6, <1>a DEF Write, ChainInv, TypeOK
  <2>2. /\ Append(pending, form.email) \in Seq(Emails)
        /\ \A i \in DOMAIN Append(pending, form.email) :
             Append(pending, form.email)[i] \in registered
    <3>1. pending \in Seq(Emails) /\ \A i \in 1 .. Len(pending) : pending[i] \in registered
      BY <1>a DEF TypeOK, ChainInv
    <3> QED  BY <2>1, <3>1
  <2>3. /\ user' = form /\ pending' = Append(pending, form.email) /\ alert' = "restoring"
        /\ UNCHANGED <<registered, enrolled, account, slips, formVars, open, before>>
    BY <1>6 DEF Write, Entry
  <2>4. TypeOK'
    BY <1>a, <2>2, <2>3 DEF TypeOK, Alert
  <2>5. ChainInv'
    BY <2>1, <2>2, <2>3 DEF ChainInv
  <2> QED  BY <2>4, <2>5 DEF TypeInv
<1>7. CASE DismissSuccess
  <2>1. form' \in Form /\ shown' \in Shown
    <3>1. /\ form \in Form /\ shown \in Shown /\ "Nam" \in Gender
          /\ NoEmail \in Emails \cup {NoEmail} /\ FirstYear \in Years \cup {NotAYear}
          /\ Camera \in Pictures \cup {Camera}
      BY <1>a, FormAssumption DEF TypeOK, Gender
    <3>2. form' \in Form
      BY <1>7, <3>1 DEF DismissSuccess, Form
    <3>3. shown' \in Shown
      BY <1>7, <3>1 DEF DismissSuccess, Shown
    <3> QED  BY <3>2, <3>3
  <2> QED  BY <1>7, <1>a, <2>1 DEF DismissSuccess, TypeInv, TypeOK, ChainInv, Alert
<1> QED  BY <1>1, <1>2, <1>3, <1>4, <1>5, <1>6, <1>7 DEF Xong

LEMMA StepTyped == TypeInv /\ [Next]_vars => TypeInv'
<1> SUFFICES ASSUME TypeInv, [Next]_vars PROVE TypeInv'
  OBVIOUS
<1>a. TypeOK /\ ChainInv
  BY DEF TypeInv
<1>1. CASE Open \/ Leave \/ Kill
  BY <1>1, FreshTyped DEF Open, Leave, Kill, Ends
<1>2. CASE Answered
  <2>1. pending \in Seq(Emails) /\ pending # <<>>
    BY <1>2, <1>a DEF Answered, TypeOK
  <2>2. Head(pending) = pending[1] /\ 1 \in DOMAIN pending /\ Tail(pending) \in Seq(Emails)
    BY <2>1
  <2>3. \A i \in DOMAIN Tail(pending) : i + 1 \in DOMAIN pending /\ Tail(pending)[i] = pending[i + 1]
    BY <2>1
  <2> QED  BY <1>2, <1>a, <2>2, <2>3
           DEF Answered, TypeInv, TypeOK, ChainInv, formVars, chainVars
<1>3. CASE UNCHANGED vars
  BY <1>3, <1>a DEF TypeInv, TypeOK, ChainInv, vars, serverVars, formVars, chainVars
<1> QED  BY <1>1, <1>2, <1>3, ControlTyped, XongTyped DEF Next

(* The types; and every record is that of a registered student.            *)
THEOREM FormTypeCorrect == Spec => []TypeOK
<1>1. TypeInv => TypeOK
  BY DEF TypeInv
<1> QED  BY <1>1, InitTyped, StepTyped, PTL DEF Spec

-----------------------------------------------------------------------------
(* The birth date.  From the check to the record the fields keep what was  *)
(* checked and made the password, unless the date picker comes to rest in  *)
(* between.                                                                *)
Checked(d) == d.year \in Years /\ Regular(d.year) => Exists(d.day, d.month, d.year)

DateInv ==
  slips = {} =>
    /\ alert \in {"creating", "created"} => DateOf(form) = account.password
    /\ alert \in {"creating", "created", "restoring"} => Checked(account.password)
    /\ alert = "restoring" => DateOf(user) = account.password

(* What passes the check and does not trap is in the calendar.             *)
LEMMA UnrefusedIsChecked ==
  ASSUME form \in Form, ~ DateRefused
  PROVE  Checked(DateOf(form))
<1> SUFFICES ASSUME form.year \in Years, Regular(form.year)
             PROVE  Exists(form.day, form.month, form.year)
  BY DEF Checked, DateOf
<1>1. form.day \in Day /\ form.month \in Month /\ form.year \in Nat
  BY FormAssumption DEF Form
<1> QED  BY <1>1, RefusedIsCalendar DEF DateRefused

LEMMA FreshDates ==
  ASSUME alert' \in {"none", "stuck", "success", "confirm"}
  PROVE  DateInv'
BY DEF DateInv

LEMMA SettleDates == TypeOK /\ DateInv /\ Settle => DateInv'
<1> SUFFICES ASSUME TypeOK, DateInv, Settle, slips' = {} PROVE DateInv'
  BY DEF DateInv
<1>1. slips = {} /\ UNCHANGED <<alert, account, user>>
  BY DEF Settle
<1>2. CASE alert \in {"creating", "created"}
  <2>1. \E i \in DOMAIN arrClasses :
          form' = [form EXCEPT !.class = arrClasses[i], !.teacher = arrClasses[i]]
    BY <1>2 DEF Settle
  <2>2. DateOf(form') = DateOf(form)
    BY <2>1 DEF DateOf, TypeOK, Form
  <2> QED  BY <1>1, <2>2 DEF DateInv, DateOf
<1>3. CASE alert \notin {"creating", "created"}
  BY <1>1, <1>3 DEF DateInv, DateOf
<1> QED  BY <1>2, <1>3

LEMMA StepDates == TypeOK /\ DateInv /\ [Next]_vars => DateInv'
<1> SUFFICES ASSUME TypeOK, DateInv, [Next]_vars PROVE DateInv'
  OBVIOUS
<1>1. CASE Open \/ Leave \/ Kill
  BY <1>1, FreshDates DEF Open, Leave, Kill, Ends, Fresh
<1>2. CASE Answered \/ ClassArrives \/ UNCHANGED vars
  BY <1>2 DEF Answered, ClassArrives, vars, formVars, chainVars, DateInv, DateOf
<1>3. CASE Controls
  <2>1. ASSUME NEW f, NEW s, Sets(f, s) PROVE DateInv'
    BY <2>1, FreshDates DEF Sets, Free
  <2>2. CASE Turn
    BY <2>2, FreshDates DEF Turn, Free
  <2> QED  BY <1>3, <2>1, <2>2, SettleDates
           DEF Controls, TypeEmail, TypeYear, TapGender, PickImage
<1>4. CASE Xong
  <2>1. CASE OkCreate
    <3>1. account'.password = DateOf(form) /\ UNCHANGED form /\ alert' = "creating"
      BY <2>1 DEF OkCreate, Says, formVars
    <3>2. Checked(DateOf(form))
      BY <2>1, UnrefusedIsChecked DEF OkCreate, TypeOK
    <3> QED  BY <3>1, <3>2 DEF DateInv, DateOf
  <2>2. CASE Created
    BY <2>2 DEF Created, Says, formVars, chainVars, DateInv, DateOf
  <2>3. CASE Write
    <3>1. /\ user' = form /\ UNCHANGED <<account, slips>>
          /\ alert = "created" /\ alert' = "restoring"
      BY <2>3 DEF Write, Entry, Says
    <3> QED  BY <3>1 DEF DateInv, DateOf
  <2>4. CASE ~ (OkCreate \/ Created \/ Write)
    BY <1>4, <2>4, FreshDates
       DEF Xong, Done, Cancel, OkTraps, OkRefused, CreateRefused, AvatarFails, LinkTraps,
           RestoreFails, Restored, DismissSuccess, Ends, Fresh, Says
  <2> QED  BY <2>1, <2>2, <2>3, <2>4
<1> QED  BY <1>1, <1>2, <1>3, <1>4 DEF Next

LEMMA InitDates == Init => DateInv
BY DEF Init, DateInv

(* The record and the password of its account tell the same birth date.    *)
THEOREM PasswordTellsDate == Spec => []PasswordIsBirthDate
<1>1. TypeInv /\ DateInv => PasswordIsBirthDate
  <2> SUFFICES ASSUME TypeInv, DateInv, alert = "restoring"
               PROVE  /\ user.email = account.email /\ user.email \in registered
                      /\ DateOf(user) = account.password \/ slips # {}
    BY DEF PasswordIsBirthDate
  <2>1. user.email = account.email /\ user.email \in registered
    BY DEF TypeInv, ChainInv
  <2> QED  BY <2>1 DEF DateInv
<1>2. TypeInv => TypeOK
  BY DEF TypeInv
<1> QED  BY <1>1, <1>2, InitTyped, StepTyped, InitDates, StepDates, PTL DEF Spec

(* No birth date gets into a record that the calendar does not have.       *)
THEOREM BirthDateExists == Spec => []ValidBirthDate
<1>1. DateInv => ValidBirthDate
  BY DEF DateInv, ValidBirthDate, Checked, DateOf
<1>2. TypeInv => TypeOK
  BY DEF TypeInv
<1> QED  BY <1>1, <1>2, InitTyped, StepTyped, InitDates, StepDates, PTL DEF Spec

-----------------------------------------------------------------------------
(* A student whose registration was cut short is never registered.         *)
THEOREM CutShortForEver == Spec => NeverFinished
<1>1. ASSUME TypeInv, [Next]_vars, NEW e \in Emails, Unfinished(e) PROVE Unfinished(e)'
  <2>a. TypeOK /\ ChainInv
    BY <1>1 DEF TypeInv
  <2>1. CASE Open \/ Leave
    BY <1>1, <2>1 DEF Open, Leave, Fresh, Unfinished, serverVars
  <2>2. ASSUME Ends PROVE Unfinished(e)'
    <3>1. DOMAIN <<>> = {}
      OBVIOUS
    <3> QED  BY <1>1, <2>2, <3>1 DEF Ends, Fresh, Unfinished
  <2>3. CASE Answered
    <3>1. pending \in Seq(Emails) /\ pending # <<>> /\ pending' = Tail(pending)
      BY <2>3, <2>a DEF Answered, TypeOK
    <3>2. Head(pending) = pending[1] /\ 1 \in DOMAIN pending
      BY <3>1
    <3>3. \A i \in DOMAIN Tail(pending) : i + 1 \in DOMAIN pending /\ Tail(pending)[i] = pending[i + 1]
      BY <3>1
    <3> QED  BY <1>1, <2>3, <3>1, <3>2, <3>3 DEF Answered, chainVars, Unfinished
  <2>4. ASSUME UNCHANGED <<serverVars, alert, account>> PROVE Unfinished(e)'
    BY <1>1, <2>4 DEF Unfinished, serverVars
  <2>5. ASSUME UNCHANGED serverVars, alert' # "created" PROVE Unfinished(e)'
    BY <1>1, <2>5 DEF Unfinished, serverVars
  <2>6. CASE ClassArrives \/ Controls \/ UNCHANGED vars
    BY <2>4, <2>6 DEF ClassArrives, Controls, TypeEmail, TypeYear, TapGender, PickImage, Sets,
       Turn, Settle, vars, chainVars
  <2>7. CASE Created
    BY <1>1, <2>7 DEF Created, Unfinished, chainVars
  <2>8. CASE Write
    <3>1. pending' = Append(pending, form.email) /\ form.email # e
      BY <1>1, <2>8, <2>a DEF Write, Entry, Unfinished, ChainInv
    <3>2. \A i \in DOMAIN pending' : pending'[i] # e
      <4>1. pending \in Seq(Emails) /\ form.email \in registered /\ registered \subseteq Emails
        BY <2>8, <2>a DEF TypeOK, ChainInv, Write
      <4> QED  BY <1>1, <3>1, <4>1 DEF Unfinished
    <3> QED  BY <1>1, <2>8, <3>2 DEF Write, Says, Unfinished
  <2>9. CASE Xong /\ ~ Created /\ ~ Write
    <3>1. CASE OkTraps \/ LinkTraps
      BY <2>2, <3>1 DEF OkTraps, LinkTraps
    <3>2. CASE Done \/ Cancel \/ OkRefused \/ OkCreate
      BY <2>5, <3>2 DEF Done, Cancel, OkRefused, OkCreate, Says
    <3>3. CASE CreateRefused \/ AvatarFails \/ RestoreFails \/ Restored \/ DismissSuccess
      BY <2>5, <3>3 DEF CreateRefused, AvatarFails, RestoreFails, Restored, DismissSuccess, Says
    <3> QED  BY <2>9, <3>1, <3>2, <3>3 DEF Xong
  <2> QED  BY <1>1, <2>1, <2>2, <2>3, <2>6, <2>7, <2>8, <2>9 DEF Next, Kill
<1>2. TypeInv /\ [Next]_vars => \A e \in Emails : Unfinished(e) => Unfinished(e)'
  BY <1>1
<1> QED  BY <1>2, InitTyped, StepTyped, PTL DEF Spec, NeverFinished

-----------------------------------------------------------------------------
(* What the form shows.  The class is the one in the picker or none, and   *)
(* no class is chosen before one has been loaded, since the first class    *)
(* that arrives is shown without being chosen; until a student has been    *)
(* registered, gender and image are set together with what shows them.     *)
ShownInv ==
  /\ form.class \in {shown.class, NoClass}
  /\ arrClasses = <<>> => form.class = NoClass
  /\ before \/ (form.gender = shown.gender /\ form.picture = shown.picture)

LEMMA FreshShown ==
  ASSUME form' = NewForm, shown' = NewShown
  PROVE  ShownInv'
<1>1. /\ form'.class = NoClass /\ form'.gender = shown'.gender
      /\ form'.picture = shown'.picture
  BY DEF NewForm, NewShown
<1> QED  BY <1>1 DEF ShownInv

(* A control that leaves the class alone and sets what it shows, as well.  *)
LEMMA SetShown ==
  ASSUME TypeOK, ShownInv, NEW f, NEW s, Sets(f, s),
         f.class = form.class /\ s.class = shown.class,
         (f.gender = form.gender /\ s.gender = shown.gender) \/ f.gender = s.gender,
         (f.picture = form.picture /\ s.picture = shown.picture) \/ f.picture = s.picture
  PROVE  ShownInv'
BY DEF Sets, ShownInv

LEMMA ControlShown == TypeOK /\ ShownInv /\ Controls => ShownInv'
<1> SUFFICES ASSUME TypeOK, ShownInv, Controls PROVE ShownInv'
  OBVIOUS
<1>1. form \in Form /\ shown \in Shown
  BY DEF TypeOK
<1>2. CASE TypeEmail \/ TypeYear
  <2>1. ASSUME NEW f, \/ \E e : f = [form EXCEPT !.email = e]
                      \/ \E y : f = [form EXCEPT !.year = y]
        PROVE  f.class = form.class /\ f.gender = form.gender /\ f.picture = form.picture
    BY <1>1, <2>1 DEF Form
  <2> QED  BY <1>2, <2>1, SetShown DEF TypeEmail, TypeYear
<1>3. CASE TapGender
  <2>1. PICK g \in Gender :
          Sets([form EXCEPT !.gender = g], [shown EXCEPT !.gender = g])
    BY <1>3 DEF TapGender
  <2>2. PICK f, s : f = [form EXCEPT !.gender = g] /\ s = [shown EXCEPT !.gender = g]
    OBVIOUS
  <2>3. /\ f.class = form.class /\ s.class = shown.class /\ f.gender = s.gender
        /\ f.picture = form.picture /\ s.picture = shown.picture
    BY <1>1, <2>2 DEF Form, Shown
  <2> QED  BY <2>1, <2>2, <2>3, SetShown
<1>4. CASE PickImage
  <2>1. PICK p \in Pictures :
          Sets([form EXCEPT !.picture = p], [shown EXCEPT !.picture = p])
    BY <1>4 DEF PickImage
  <2>2. PICK f, s : f = [form EXCEPT !.picture = p] /\ s = [shown EXCEPT !.picture = p]
    OBVIOUS
  <2>3. /\ f.class = form.class /\ s.class = shown.class /\ f.picture = s.picture
        /\ f.gender = form.gender /\ s.gender = shown.gender
    BY <1>1, <2>2 DEF Form, Shown
  <2> QED  BY <2>1, <2>2, <2>3, SetShown
<1>5. CASE Turn
  BY <1>5 DEF Turn, ShownInv
<1>6. CASE Settle
  <2>1. UNCHANGED <<arrClasses, before>>
    BY <1>6 DEF Settle
  <2>2. ASSUME NEW d, NEW m, form' = [form EXCEPT !.day = d, !.month = m], UNCHANGED shown
        PROVE  ShownInv'
    <3>1. /\ form'.class = form.class /\ form'.gender = form.gender
          /\ form'.picture = form.picture
      BY <1>1, <2>2 DEF Form
    <3> QED  BY <2>1, <2>2, <3>1 DEF ShownInv
  <2>3. ASSUME NEW i \in DOMAIN arrClasses,
               form' = [form EXCEPT !.class = arrClasses[i], !.teacher = arrClasses[i]],
               shown' = [shown EXCEPT !.class = arrClasses[i]]
        PROVE  ShownInv'
    <3>1. /\ form'.class = shown'.class /\ form'.gender = form.gender
          /\ form'.picture = form.picture /\ shown'.gender = shown.gender
          /\ shown'.picture = shown.picture
      BY <1>1, <2>3 DEF Form, Shown
    <3>2. arrClasses # <<>>
      BY <2>3
    <3> QED  BY <2>1, <3>1, <3>2 DEF ShownInv
  <2> QED  BY <1>6, <2>2, <2>3 DEF Settle
<1> QED  BY <1>2, <1>3, <1>4, <1>5, <1>6 DEF Controls

LEMMA StepShown == TypeOK /\ ShownInv /\ [Next]_vars => ShownInv'
<1> SUFFICES ASSUME TypeOK, ShownInv, [Next]_vars PROVE ShownInv'
  OBVIOUS
<1>1. form \in Form /\ shown \in Shown /\ arrClasses \in Seq(Classes)
  BY DEF TypeOK
<1>2. CASE Open \/ Leave \/ Kill \/ OkTraps \/ LinkTraps
  BY <1>2, FreshShown DEF Open, Leave, Kill, OkTraps, LinkTraps, Ends, Fresh
<1>3. CASE ClassArrives
  <2>1. PICK c \in Classes :
          /\ arrClasses' = Append(arrClasses, c)
          /\ shown' = [shown EXCEPT !.class = IF arrClasses = <<>> THEN c ELSE @]
    BY <1>3 DEF ClassArrives
  <2>2. arrClasses' # <<>>
    BY <1>1, <2>1
  <2>3. /\ shown'.gender = shown.gender /\ shown'.picture = shown.picture
        /\ arrClasses # <<>> => shown'.class = shown.class
    BY <1>1, <2>1 DEF Shown
  <2>4. UNCHANGED <<form, before>>
    BY <1>3 DEF ClassArrives
  <2> QED  BY <2>2, <2>3, <2>4 DEF ShownInv
<1>4. CASE DismissSuccess
  <2>1. /\ form'.class = form.class /\ shown'.class = shown.class
        /\ before' /\ UNCHANGED arrClasses
    BY <1>1, <1>4 DEF DismissSuccess, Form, Shown
  <2> QED  BY <2>1 DEF ShownInv
<1>5. CASE Xong /\ ~ (OkTraps \/ LinkTraps \/ DismissSuccess)
  <2>1. UNCHANGED <<formVars, before>>
    BY <1>5 DEF Xong, Done, Cancel, OkRefused, OkCreate, CreateRefused, Created, AvatarFails,
       Write, RestoreFails, Restored, Says
  <2> QED  BY <2>1 DEF ShownInv, formVars
<1>6. CASE Answered \/ UNCHANGED vars
  BY <1>6 DEF Answered, vars, formVars, ShownInv
<1> QED
  BY <1>2, <1>3, <1>4, <1>5, <1>6, ControlShown DEF Next, Xong

(* The first student of a form is written as the form shows him; of every  *)
(* later one that is true of the class.                                    *)
THEOREM FirstAsShown == Spec => WrittenAsShown
<1>1. Init => ShownInv
  BY DEF Init, ShownInv, NewForm, NewShown
<1>2. ASSUME ShownInv, [Next]_vars, user' # user, alert' = "restoring"
      PROVE  /\ user'.class \in {shown.class, NoClass}
             /\ (user'.gender = shown.gender /\ user'.picture = shown.picture) \/ before
  <2>1. Write
    BY <1>2 DEF Next, Open, Leave, Kill, Ends, Fresh, ClassArrives, Controls, TypeEmail,
       TypeYear, TapGender, PickImage, Sets, Turn, Settle, Xong, Done, Cancel, OkTraps,
       OkRefused, OkCreate, CreateRefused, Created, AvatarFails, LinkTraps, RestoreFails,
       Restored, DismissSuccess, Answered, Says, vars, chainVars
  <2>2. user' = form
    BY <2>1 DEF Write, Entry
  <2> QED  BY <1>2, <2>2 DEF ShownInv
<1>3. TypeInv => TypeOK
  BY DEF TypeInv
<1> QED
  BY <1>1, <1>2, <1>3, InitTyped, StepTyped, StepShown, PTL DEF Spec, WrittenAsShown
=============================================================================
