---------------------------- MODULE AvatarProofs ----------------------------
(***************************************************************************)
(* What holds of the change of an avatar for any number of devices, any    *)
(* failures and any bounds.                                                *)
(***************************************************************************)
EXTENDS AvatarProperties, AvatarList, FiniteSetTheorems, TLAPS

(* A step of one device that goes to another stage.                        *)
LEMMA GoesOnly ==
  ASSUME TypeOK, NEW d \in Device, NEW stage, Goes(d, stage)
  PROVE  pc'[d] = stage /\ \A e \in Device \ {d} : pc'[e] = pc[e]
BY DEF Goes, TypeOK

-----------------------------------------------------------------------------
(* The bound on uploads is kept because a change is begun only when an     *)
(* upload is left for it: the changes that may still upload are counted.   *)
Begun == {d \in Device : pc[d] \in {"confirm", "deleting", "uploading"}}

Room == uploads + Cardinality(Begun) <= MaxUploads

TypeInv == TypeOK /\ Room

(* Behind the splash screen the profile has a link.                        *)
HasLink == \A d \in Device : pc[d] \notin {"off", "splash"} => profile[d].link # None

LEMMA LinkKept ==
  ASSUME TypeOK, HasLink, NEW d \in Device, NEW stage, Goes(d, stage), UNCHANGED profile,
         pc[d] \notin {"off", "splash"} \/ stage \in {"off", "splash"}
  PROVE  HasLink'
BY GoesOnly DEF HasLink

(* Wherever a profile is set, but at the end of a process, it is given the *)
(* link of an upload.                                                      *)
LEMMA StepLinks == TypeOK /\ HasLink /\ [Next]_vars => HasLink'
<1> SUFFICES ASSUME TypeOK, HasLink, [Next]_vars PROVE HasLink'
  OBVIOUS
<1>1. ASSUME NEW d \in Device, NEW stage, Goes(d, stage), profile'[d].link # None,
             \A e \in Device \ {d} : profile'[e] = profile[e]
      PROVE  HasLink'
  BY <1>1, GoesOnly DEF HasLink
<1>2. ASSUME NEW d \in Device, Dies(d) PROVE HasLink'
  BY <1>2, GoesOnly DEF Dies, HasLink, TypeOK
<1>3. ASSUME NEW d \in Device, SplashRead(d) PROVE HasLink'
  <2>1. record # None
    BY DEF TypeOK, Upload, None
  <2>2. profile'[d].link = record /\ \A e \in Device \ {d} : profile'[e] = profile[e]
    BY <1>3 DEF SplashRead, TypeOK
  <2>3. Goes(d, "details") \/ Goes(d, "blank")
    BY <1>3 DEF SplashRead
  <2> QED  BY <1>1, <2>1, <2>2, <2>3
<1>4. ASSUME NEW d \in Device, Committed(d) PROVE HasLink'
  <2>1. profile'[d].link = url[d] /\ \A e \in Device \ {d} : profile'[e] = profile[e]
    BY <1>4 DEF Committed, TypeOK
  <2> QED  BY <1>1, <1>4, <2>1 DEF Committed
<1>5. ASSUME NEW d \in Device, Read(d) PROVE HasLink'
  <2>1. pc[d] = "reading" /\ \A e \in Device : profile'[e].link = profile[e].link
    <3>1. \A e \in Device : profile[e] \in [link : Image, image : Image]
      BY DEF TypeOK
    <3>2. CASE profile' = [profile EXCEPT ![d].image = profile[d].link]
      BY <1>5, <3>1, <3>2 DEF Read, TypeOK
    <3>3. CASE UNCHANGED profile
      BY <1>5, <3>3 DEF Read
    <3> QED  BY <1>5, <3>2, <3>3 DEF Read
  <2>2. Goes(d, "success") \/ Goes(d, "stuck")
    BY <1>5 DEF Read
  <2> QED  BY <2>1, <2>2, GoesOnly DEF HasLink
<1>6. ASSUME NEW d \in Device, ReadBack(d) PROVE HasLink'
  <2>1. PICK l \in Upload : l = Head(reads[d])
    BY <1>6 DEF ReadBack, TypeOK
  <2>2. l # None
    BY DEF Upload, None
  <2>3. /\ profile'[d].link = l /\ UNCHANGED pc
        /\ \A e \in Device \ {d} : profile'[e] = profile[e]
    BY <1>6, <2>1 DEF ReadBack, TypeOK
  <2> QED  BY <2>2, <2>3 DEF HasLink
<1>7. ASSUME NEW d \in Device, Answer(d) PROVE HasLink'
  <2>1. CASE Deleted(d) \/ DeleteRefused(d) \/ Uploaded(d) \/ UploadFailed(d)
             \/ UrlAnswered(d) \/ CommitFailed(d)
    BY <2>1, LinkKept DEF Deleted, DeleteRefused, Uploaded, UploadFailed, UrlAnswered,
       CommitFailed, viewVars
  <2> QED  BY <1>2, <1>3, <1>4, <1>5, <1>7, <2>1 DEF Answer, CommitTraps
<1>8. ASSUME NEW d \in Device, Taps(d) PROVE HasLink'
  <2>1. CASE Reopen(d)
    BY <2>1 DEF Reopen, HasLink
  <2> QED  BY <1>8, <2>1, LinkKept
           DEF Taps, Pick, Cancel, Ok, DismissSuccess, UpdateDetails, DismissUpdated, viewVars
<1>9. ASSUME NEW d \in Device, Launch(d) PROVE HasLink'
  BY <1>9, LinkKept DEF Launch, viewVars
<1>10. ASSUME NEW d \in Device, Stores(d) PROVE HasLink'
  BY <1>10 DEF Stores, Accept, Reject, HasLink, viewVars
<1>11. CASE UNCHANGED vars
  BY <1>11 DEF vars, viewVars, HasLink
<1> QED  BY <1>2, <1>6, <1>7, <1>8, <1>9, <1>10, <1>11 DEF Next, Kill

LEMMA BegunFinite ==
  IsFiniteSet(Device) => IsFiniteSet(Begun) /\ Cardinality(Begun) \in Nat
<1> SUFFICES ASSUME IsFiniteSet(Device)
             PROVE  IsFiniteSet(Begun) /\ Cardinality(Begun) \in Nat
  OBVIOUS
<1>1. Begun \in SUBSET Device
  BY DEF Begun
<1>2. IsFiniteSet(Begun)
  BY <1>1, FS_Subset
<1> QED  BY <1>2, FS_CardinalityType

(* A step of one device changes the number of begun changes by that device *)
(* at most.                                                                *)
LEMMA BegunStep ==
  ASSUME TypeOK, NEW d \in Device, NEW stage \in Stage, Goes(d, stage)
  PROVE  /\ IsFiniteSet(Begun) /\ Cardinality(Begun) \in Nat
         /\ Cardinality(Begun)' \in Nat
         /\ stage \in {"confirm", "deleting", "uploading"} =>
              Cardinality(Begun)' = IF d \in Begun THEN Cardinality(Begun)
                                    ELSE Cardinality(Begun) + 1
         /\ stage \notin {"confirm", "deleting", "uploading"} =>
              Cardinality(Begun)' = IF d \in Begun THEN Cardinality(Begun) - 1
                                    ELSE Cardinality(Begun)
<1>1. IsFiniteSet(Begun) /\ Cardinality(Begun) \in Nat
  BY BegunFinite, AvatarAssumption
<1>2. \A e \in Device : pc'[e] = IF e = d THEN stage ELSE pc[e]
  BY DEF Goes, TypeOK
<1>3. Begun' = IF stage \in {"confirm", "deleting", "uploading"}
               THEN Begun \cup {d} ELSE Begun \ {d}
  BY <1>2 DEF Begun
<1>4. IsFiniteSet(Begun') /\ Cardinality(Begun') \in Nat
  <2>1. IsFiniteSet(Begun')
    BY <1>1, <1>3, FS_AddElement, FS_RemoveElement
  <2> QED  BY <2>1, FS_CardinalityType
<1>5. Cardinality(Begun \cup {d}) = IF d \in Begun THEN Cardinality(Begun) ELSE Cardinality(Begun) + 1
  BY <1>1, FS_AddElement
<1>6. Cardinality(Begun \ {d}) = IF d \in Begun THEN Cardinality(Begun) - 1 ELSE Cardinality(Begun)
  BY <1>1, FS_RemoveElement
<1> QED  BY <1>1, <1>3, <1>4, <1>5, <1>6

LEMMA BegunSame == UNCHANGED pc => UNCHANGED Cardinality(Begun)
BY DEF Begun

(* The end of a process keeps the types and the room. *)
LEMMA DiesTyped ==
  ASSUME TypeInv, NEW d \in Device, Dies(d), UNCHANGED serverVars, launches' \in Nat
  PROVE  TypeInv'
<1>1. Goes(d, "off") /\ "off" \in Stage
  BY DEF Dies, Stage
<1>2. Room'
  <2>1. Cardinality(Begun)' <= Cardinality(Begun) /\ Cardinality(Begun) \in Nat
        /\ Cardinality(Begun)' \in Nat
    BY <1>1, BegunStep DEF TypeInv
  <2>2. uploads' = uploads /\ uploads \in Nat /\ MaxUploads \in Nat
    BY AvatarAssumption DEF TypeInv, TypeOK, Upload, serverVars
  <2> QED  BY <2>1, <2>2 DEF TypeInv, Room
<1>3. TypeOK'
  <2>1. <<>> \in Seq(Upload)
    OBVIOUS
  <2>2. Nobody \in [link : Image, image : Image] /\ None \in Image
    BY DEF Nobody, Image
  <2> QED  BY <2>1, <2>2 DEF TypeInv, TypeOK, Dies, Goes, Stage, Slips, Slip, serverVars
<1> QED  BY <1>2, <1>3 DEF TypeInv

(* What a device goes to is a stage. *)
LEMMA Stages ==
  {"off", "splash", "blank", "details", "confirm", "deleting", "uploading", "fetchingUrl",
   "committing", "reading", "stuck", "success", "updated"} \subseteq Stage
BY DEF Stage, Spinner

(* A step of one device in which the uploads grow, if at all, by that of   *)
(* a change that had begun and that no longer has one to come.             *)
LEMMA RoomKept ==
  ASSUME TypeInv, NEW d \in Device, NEW stage \in Stage, Goes(d, stage),
         \/ uploads' = uploads /\ (stage \in {"deleting", "uploading"} => d \in Begun)
         \/ uploads' = uploads + 1 /\ d \in Begun
              /\ stage \notin {"confirm", "deleting", "uploading"},
         stage # "confirm"
  PROVE  Room' /\ uploads' \in Upload
<1>1. uploads \in Upload /\ MaxUploads \in Nat /\ uploads + Cardinality(Begun) <= MaxUploads
  BY AvatarAssumption DEF TypeInv, TypeOK, Room
<1>2. d \in Begun => Cardinality(Begun) >= 1
  <2> SUFFICES ASSUME d \in Begun PROVE Cardinality(Begun) >= 1
    OBVIOUS
  <2>1. IsFiniteSet(Begun) /\ Cardinality(Begun) \in Nat
    BY BegunFinite, AvatarAssumption
  <2>2. Cardinality(Begun) # 0
    BY <2>1, FS_EmptySet
  <2> QED  BY <2>1, <2>2
<1> QED  BY <1>1, <1>2, BegunStep DEF TypeInv, Room, Upload

LEMMA InitTyped == Init => TypeInv
<1> SUFFICES ASSUME Init PROVE TypeInv
  OBVIOUS
<1>1. Begun = {}
  BY DEF Init, Begun
<1>2. Cardinality(Begun) = 0
  BY <1>1, FS_EmptySet
<1>3. Room
  BY <1>2, AvatarAssumption DEF Init, Room
<1>4. <<>> \in Seq(Upload) /\ Nobody \in [link : Image, image : Image] /\ None \in Image
  BY DEF Nobody, Image
<1>5. 1 \in Upload
  BY AvatarAssumption DEF Upload
<1>6. TypeOK
  BY <1>4, <1>5, Stages DEF Init, TypeOK, Image
<1> QED  BY <1>3, <1>6 DEF TypeInv

(* The answers. *)
LEMMA AnswerTyped ==
  ASSUME TypeInv, NEW d \in Device, Answer(d)
  PROVE  TypeInv'
<1> USE Stages
<1>a. TypeOK
  BY DEF TypeInv
<1>b. launches \in Nat /\ Nobody \in [link : Image, image : Image] /\ None \in Image
  BY <1>a DEF TypeOK, Nobody, Image
<1>c. Upload \subseteq Image /\ (object # None => object \in Upload)
  BY <1>a DEF TypeOK, Image
<1>1. CASE SplashRead(d)
  <2>1. \E s \in {"details", "blank"} : Goes(d, s) /\ uploads' = uploads
    BY <1>1 DEF SplashRead, serverVars
  <2>2. Room'
    BY <2>1, RoomKept
  <2>3. pc' \in [Device -> Stage] /\ slips' \subseteq Slip
    <3>1. slips' = slips \/ slips' = slips \cup {"unread"} \/ slips' = slips \cup {}
      BY <1>1 DEF SplashRead, Slips
    <3>2. slips' \subseteq Slip
      BY <1>a, <3>1 DEF Slip, TypeOK
    <3> QED  BY <1>1, <1>a, <3>2 DEF SplashRead, Goes, TypeOK
  <2>4. record \in Image /\ [link |-> record, image |-> record] \in [link : Image, image : Image]
        /\ [link |-> record, image |-> None] \in [link : Image, image : Image]
    BY <1>a, <1>b, <1>c DEF TypeOK
  <2>5. /\ profile' \in [Device -> [link : Image, image : Image]]
        /\ picture' \in [Device -> Image \cup {Picked}]
    <3>1. profile' \in [Device -> [link : Image, image : Image]]
      BY <1>1, <1>a, <2>4 DEF SplashRead, TypeOK
    <3>2. picture' \in [Device -> Image \cup {Picked}]
      BY <1>1, <1>a, <2>4 DEF SplashRead, TypeOK
    <3> QED  BY <3>1, <3>2
  <2>6. TypeOK'
    BY <1>1, <1>a, <2>3, <2>5 DEF SplashRead, TypeOK, serverVars
  <2> QED  BY <2>2, <2>6 DEF TypeInv
<1>2. CASE Deleted(d)
  <2>1. Room'
    BY <1>2, RoomKept DEF Deleted, Begun
  <2>2. TypeOK'
    BY <1>2, <1>a, <1>b DEF Deleted, Goes, TypeOK, viewVars
  <2> QED  BY <2>1, <2>2 DEF TypeInv
<1>3. CASE DeleteRefused(d)
  <2>1. Room'
    BY <1>3, RoomKept DEF DeleteRefused
  <2>2. TypeOK'
    BY <1>3, <1>a, <1>b DEF DeleteRefused, Goes, Slips, Slip, TypeOK, viewVars
  <2> QED  BY <2>1, <2>2 DEF TypeInv
<1>4. CASE Uploaded(d)
  <2>1. Room' /\ uploads' \in Upload
    BY <1>4, RoomKept DEF Uploaded, Begun
  <2>2. TypeOK'
    BY <1>4, <1>a, <1>c, <2>1 DEF Uploaded, Goes, TypeOK, viewVars
  <2> QED  BY <2>1, <2>2 DEF TypeInv
<1>5. CASE UploadFailed(d)
  <2>1. Room' /\ uploads' \in Upload
    BY <1>5, RoomKept DEF UploadFailed, Begun
  <2>2. TypeOK'
    BY <1>5, <1>a, <1>c, <2>1 DEF UploadFailed, Goes, Slips, Slip, TypeOK, viewVars
  <2> QED  BY <2>1, <2>2 DEF TypeInv
<1>6. CASE UrlAnswered(d)
  <2>1. Room'
    BY <1>6, RoomKept DEF UrlAnswered, serverVars
  <2>2. TypeOK'
    BY <1>6, <1>a DEF UrlAnswered, Goes, TypeOK, serverVars, viewVars
  <2> QED  BY <2>1, <2>2 DEF TypeInv
<1>7. CASE CommitFailed(d)
  <2>1. Room'
    BY <1>7, RoomKept DEF CommitFailed, serverVars
  <2>2. TypeOK'
    BY <1>7, <1>a, <1>b DEF CommitFailed, Goes, Slips, Slip, TypeOK, serverVars, viewVars
  <2> QED  BY <2>1, <2>2 DEF TypeInv
<1>8. CASE CommitTraps(d)
  BY <1>8, <1>b, DiesTyped DEF CommitTraps, serverVars
<1>9. CASE Committed(d)
  <2>1. Room'
    BY <1>9, RoomKept DEF Committed, serverVars
  <2>2. url[d] \in Upload
    BY <1>9, <1>a DEF Committed, TypeOK, Image
  <2>3. TypeOK'
    BY <1>9, <1>a, <1>b, <1>c, <2>2 DEF Committed, Goes, TypeOK, serverVars
  <2> QED  BY <2>1, <2>3 DEF TypeInv
<1>10. CASE Read(d)
  <2>1. \E s \in {"success", "stuck"} : Goes(d, s) /\ uploads' = uploads
    BY <1>10 DEF Read, serverVars
  <2>2. Room'
    BY <2>1, RoomKept
  <2>3. profile' \in [Device -> [link : Image, image : Image]]
    BY <1>10, <1>a DEF Read, TypeOK
  <2>4. slips' \subseteq Slip
    <3>1. slips' = slips \/ slips' = slips \cup {"unread"} \/ slips' = slips \cup {}
      BY <1>10 DEF Read, Slips
    <3> QED  BY <1>a, <3>1 DEF Slip, TypeOK
  <2>5. TypeOK'
    BY <1>10, <1>a, <2>3, <2>4 DEF Read, Goes, TypeOK, serverVars
  <2> QED  BY <2>2, <2>5 DEF TypeInv
<1> QED  BY <1>1, <1>2, <1>3, <1>4, <1>5, <1>6, <1>7, <1>8, <1>9, <1>10 DEF Answer

(* The taps. *)
LEMMA TapTyped ==
  ASSUME TypeInv, HasLink, NEW d \in Device, Taps(d)
  PROVE  TypeInv'
<1> USE Stages
<1>a. TypeOK
  BY DEF TypeInv
<1>1. CASE Pick(d)
  <2>1. d \notin Begun /\ uploads + Cardinality(Begun) < MaxUploads /\ Goes(d, "confirm")
    BY <1>1 DEF Pick, Begun
  <2>2. Cardinality(Begun)' = Cardinality(Begun) + 1 /\ Cardinality(Begun) \in Nat
    BY <1>a, <2>1, BegunStep
  <2>3. Room'
    BY <1>1, <1>a, <2>1, <2>2, AvatarAssumption DEF Pick, Room, TypeOK, Upload, serverVars
  <2>4. TypeOK'
    BY <1>1, <1>a DEF Pick, Goes, TypeOK, serverVars
  <2> QED  BY <2>3, <2>4 DEF TypeInv
<1>2. CASE Cancel(d)
  <2>1. Room'
    BY <1>2, RoomKept DEF Cancel, serverVars
  <2>2. TypeOK'
    BY <1>2, <1>a DEF Cancel, Goes, TypeOK, serverVars
  <2> QED  BY <2>1, <2>2 DEF TypeInv
<1>3. CASE Ok(d)
  <2>1. Room'
    BY <1>3, RoomKept DEF Ok, Begun, serverVars
  <2>2. TypeOK'
    BY <1>3, <1>a DEF Ok, Goes, Slips, Slip, TypeOK, serverVars, viewVars
  <2> QED  BY <2>1, <2>2 DEF TypeInv
<1>4. CASE DismissSuccess(d)
  <2>1. Room'
    BY <1>4, RoomKept DEF DismissSuccess, serverVars
  <2>2. TypeOK'
    BY <1>4, <1>a DEF DismissSuccess, Goes, TypeOK, serverVars, viewVars
  <2> QED  BY <2>1, <2>2 DEF TypeInv
<1>5. CASE Reopen(d)
  <2>1. Room'
    BY <1>5, BegunSame DEF Reopen, TypeInv, Room, serverVars
  <2>2. TypeOK'
    BY <1>5, <1>a DEF Reopen, TypeOK, serverVars
  <2> QED  BY <2>1, <2>2 DEF TypeInv
<1>6. CASE UpdateDetails(d)
  <2>1. Room'
    BY <1>6, RoomKept DEF UpdateDetails, serverVars
  <2>2. profile[d].link \in Upload /\ profile[d].image \in Image
    BY <1>6, <1>a DEF UpdateDetails, HasLink, TypeOK, Image
  <2>3. /\ Append(writes[d], profile[d].link) \in Seq(Upload)
        /\ Append(reads[d], profile[d].link) \in Seq(Upload)
    BY <1>a, <2>2 DEF TypeOK
  <2>4. writes' \in [Device -> Seq(Upload)] /\ reads' \in [Device -> Seq(Upload)]
    BY <1>6, <1>a, <2>3 DEF UpdateDetails, TypeOK
  <2>5. slips' \subseteq Slip
    BY <1>6, <1>a DEF UpdateDetails, Slips, Slip, TypeOK
  <2>6. picture' \in [Device -> Image \cup {Picked}] /\ pc' \in [Device -> Stage]
    BY <1>6, <1>a, <2>2 DEF UpdateDetails, Goes, TypeOK
  <2>7. TypeOK'
    BY <1>6, <1>a, <2>4, <2>5, <2>6 DEF UpdateDetails, TypeOK, serverVars
  <2> QED  BY <2>1, <2>7 DEF TypeInv
<1>7. CASE DismissUpdated(d)
  <2>1. Room'
    BY <1>7, RoomKept DEF DismissUpdated, serverVars
  <2>2. TypeOK'
    BY <1>7, <1>a DEF DismissUpdated, Goes, TypeOK, serverVars
  <2> QED  BY <2>1, <2>2 DEF TypeInv
<1> QED  BY <1>1, <1>2, <1>3, <1>4, <1>5, <1>6, <1>7 DEF Taps

(* The observer of an update. *)
LEMMA ReadBackTyped ==
  ASSUME TypeInv, NEW d \in Device, ReadBack(d)
  PROVE  TypeInv'
<1>a. TypeOK /\ Room
  BY DEF TypeInv
<1>1. reads[d] \in Seq(Upload) /\ reads[d] # <<>>
  BY <1>a DEF ReadBack, TypeOK
<1>2. PICK l \in Upload : l = Head(reads[d])
  BY <1>1
<1>3. Tail(reads[d]) \in Seq(Upload)
  BY <1>1
<1>4. /\ [link |-> l, image |-> l] \in [link : Image, image : Image]
      /\ [link |-> l, image |-> None] \in [link : Image, image : Image]
  BY DEF Image
<1>5. /\ \/ profile' = [profile EXCEPT ![d] = [link |-> l, image |-> l]]
         \/ profile' = [profile EXCEPT ![d] = [link |-> l, image |-> None]]
      /\ slips' = slips \/ slips' = slips \cup {"unread"} \/ slips' = slips \cup {}
  BY <1>2 DEF ReadBack, Slips
<1>6. profile' \in [Device -> [link : Image, image : Image]]
  BY <1>a, <1>4, <1>5 DEF TypeOK
<1>7. slips' \subseteq Slip
  BY <1>a, <1>5 DEF Slip, TypeOK
<1>8. reads' \in [Device -> Seq(Upload)]
  BY <1>a, <1>3 DEF ReadBack, TypeOK
<1>9. TypeOK'
  BY <1>a, <1>6, <1>7, <1>8 DEF ReadBack, TypeOK, serverVars
<1>10. Room'
  BY <1>a, BegunSame DEF ReadBack, Room, serverVars
<1> QED  BY <1>9, <1>10 DEF TypeInv

LEMMA StepTyped == TypeInv /\ HasLink /\ [Next]_vars => TypeInv'
<1> SUFFICES ASSUME TypeInv, HasLink, [Next]_vars PROVE TypeInv'
  OBVIOUS
<1> USE Stages
<1>a. TypeOK /\ Room
  BY DEF TypeInv
<1>1. ASSUME NEW d \in Device, Launch(d) PROVE TypeInv'
  <2>1. Room'
    BY <1>1, RoomKept DEF Launch, serverVars
  <2>2. TypeOK'
    BY <1>1, <1>a DEF Launch, Goes, TypeOK, serverVars, viewVars
  <2> QED  BY <2>1, <2>2 DEF TypeInv
<1>2. ASSUME NEW d \in Device, Kill(d) PROVE TypeInv'
  BY <1>2, <1>a, DiesTyped DEF Kill, TypeOK, serverVars
<1>3. ASSUME NEW d \in Device, Stores(d) PROVE TypeInv'
  <2>1. writes[d] \in Seq(Upload) /\ writes[d] # <<>>
    BY <1>3, <1>a DEF Stores, Accept, Reject, TypeOK
  <2>2. Head(writes[d]) \in Upload /\ Tail(writes[d]) \in Seq(Upload)
    BY <2>1
  <2>3. Room'
    BY <1>3, <1>a, BegunSame DEF Stores, Accept, Reject, Room, serverVars
  <2>4. TypeOK'
    BY <1>3, <1>a, <2>2 DEF Stores, Accept, Reject, Slips, Slip, TypeOK, serverVars, viewVars
  <2> QED  BY <2>3, <2>4 DEF TypeInv
<1>4. CASE UNCHANGED vars
  BY <1>4, <1>a, BegunSame DEF TypeInv, TypeOK, Room, vars, serverVars, viewVars
<1> QED  BY <1>1, <1>2, <1>3, <1>4, AnswerTyped, TapTyped, ReadBackTyped DEF Next

(* The types, and that there is always room for the uploads begun.         *)
THEOREM AvatarTypeCorrect == Spec => []TypeOK
<1>1. TypeInv => TypeOK
  BY DEF TypeInv
<1>2. Init => HasLink
  BY DEF Init, HasLink
<1> QED  BY <1>1, <1>2, InitTyped, StepTyped, StepLinks, PTL DEF Spec

-----------------------------------------------------------------------------
(* The deletion is a lock.  An upload is made only behind a deletion, and  *)
(* a deletion is done only when an object is there: hence one upload at a  *)
(* time, and none for ever once a deletion was followed by none.           *)
LockInv == OneUploader /\ ("noUpload" \in slips => Lost)

(* A step that uploads nothing, deletes nothing and leaves no deletion     *)
(* without its upload keeps the lock.                                      *)
LEMMA LockKept ==
  ASSUME TypeOK, LockInv, NEW d \in Device, UNCHANGED object,
         NEW stage \in Stage, Goes(d, stage), stage # "uploading",
         "noUpload" \in slips' => "noUpload" \in slips \/ pc[d] = "uploading"
  PROVE  LockInv'
<1>1. \A e \in Device : pc'[e] = IF e = d THEN stage ELSE pc[e]
  BY DEF Goes, TypeOK
<1>2. OneUploader'
  BY <1>1 DEF LockInv, OneUploader
<1>3. pc[d] = "uploading" => Lost'
  BY <1>1 DEF LockInv, OneUploader, Lost
<1>4. "noUpload" \in slips => Lost'
  BY <1>1 DEF LockInv, Lost
<1> QED  BY <1>2, <1>3, <1>4 DEF LockInv

LEMMA LockSame ==
  ASSUME LockInv, UNCHANGED <<object, pc>>, "noUpload" \in slips' => "noUpload" \in slips
  PROVE  LockInv'
BY DEF LockInv, OneUploader, Lost

LEMMA AnswerLocks ==
  ASSUME TypeOK, LockInv, NEW d \in Device, Answer(d)
  PROVE  LockInv'
<1> USE Stages
<1>1. CASE SplashRead(d)
  BY <1>1, LockKept DEF SplashRead, Slips, serverVars
<1>2. CASE Deleted(d)
  <2>1. \A e \in Device : pc'[e] = IF e = d THEN "uploading" ELSE pc[e]
    BY <1>2 DEF Deleted, Goes, TypeOK
  <2>2. \A e \in Device : pc[e] # "uploading"
    BY <1>2 DEF Deleted, LockInv, OneUploader
  <2>3. "noUpload" \notin slips'
    BY <1>2 DEF Deleted, LockInv, Lost
  <2> QED  BY <1>2, <2>1, <2>2, <2>3 DEF Deleted, LockInv, OneUploader
<1>3. CASE DeleteRefused(d)
  <2>1. \A e \in Device : pc'[e] = IF e = d THEN "stuck" ELSE pc[e]
    BY <1>3 DEF DeleteRefused, Goes, TypeOK
  <2>2. CASE UNCHANGED <<object, slips>>
    BY <1>3, <2>2, LockKept DEF DeleteRefused
  <2>3. CASE object # None
    <3>1. \A e \in Device : pc'[e] # "uploading"
      BY <2>1, <2>3 DEF LockInv, OneUploader
    <3>2. "noUpload" \in slips' => object' = None
      BY <1>3, <2>3 DEF DeleteRefused, LockInv, Lost, Slips
    <3> QED  BY <3>1, <3>2 DEF LockInv, OneUploader, Lost
  <2> QED  BY <1>3, <2>2, <2>3 DEF DeleteRefused
<1>4. CASE Uploaded(d)
  <2>1. \A e \in Device : pc'[e] = IF e = d THEN "fetchingUrl" ELSE pc[e]
    BY <1>4 DEF Uploaded, Goes, TypeOK
  <2>2. \A e \in Device : pc'[e] # "uploading"
    BY <1>4, <2>1 DEF Uploaded, LockInv, OneUploader
  <2>3. "noUpload" \notin slips'
    BY <1>4 DEF Uploaded, LockInv, Lost
  <2> QED  BY <2>2, <2>3 DEF LockInv, OneUploader
<1>5. CASE UploadFailed(d)
  <2>1. \A e \in Device : pc'[e] = IF e = d THEN "details" ELSE pc[e]
    BY <1>5 DEF UploadFailed, Goes, TypeOK
  <2>2. \A e \in Device : pc'[e] # "uploading"
    BY <1>5, <2>1 DEF UploadFailed, LockInv, OneUploader
  <2>3. "noUpload" \notin slips /\ object = None
    BY <1>5 DEF UploadFailed, LockInv, OneUploader, Lost
  <2>4. "noUpload" \in slips' => object' = None
    BY <1>5, <2>3 DEF UploadFailed, Slips
  <2> QED  BY <2>2, <2>4 DEF LockInv, OneUploader, Lost
<1>6. CASE UrlAnswered(d)
  BY <1>6, LockKept DEF UrlAnswered, serverVars
<1>7. CASE CommitFailed(d)
  BY <1>7, LockKept DEF CommitFailed, Slips, serverVars
<1>8. CASE CommitTraps(d)
  BY <1>8, LockKept DEF CommitTraps, Dies, Slips, serverVars
<1>9. CASE Committed(d)
  BY <1>9, LockKept DEF Committed, serverVars
<1>10. CASE Read(d)
  BY <1>10, LockKept DEF Read, Slips, serverVars
<1> QED  BY <1>1, <1>2, <1>3, <1>4, <1>5, <1>6, <1>7, <1>8, <1>9, <1>10 DEF Answer

LEMMA StepLocks == TypeOK /\ LockInv /\ [Next]_vars => LockInv'
<1> SUFFICES ASSUME TypeOK, LockInv, [Next]_vars PROVE LockInv'
  OBVIOUS
<1> USE Stages
<1>1. ASSUME NEW d \in Device, Launch(d) PROVE LockInv'
  BY <1>1, LockKept DEF Launch, serverVars
<1>2. ASSUME NEW d \in Device, Kill(d) PROVE LockInv'
  BY <1>2, LockKept DEF Kill, Dies, Slips, serverVars
<1>3. ASSUME NEW d \in Device, Taps(d) PROVE LockInv'
  <2>1. CASE Pick(d) \/ Cancel(d) \/ DismissSuccess(d) \/ DismissUpdated(d)
    BY <2>1, LockKept DEF Pick, Cancel, DismissSuccess, DismissUpdated, serverVars
  <2>2. CASE Ok(d)
    BY <2>2, LockKept DEF Ok, Slips, serverVars
  <2>3. CASE Reopen(d)
    BY <2>3, LockSame DEF Reopen, serverVars
  <2>4. CASE UpdateDetails(d)
    BY <2>4, LockKept DEF UpdateDetails, Slips, serverVars
  <2> QED  BY <1>3, <2>1, <2>2, <2>3, <2>4 DEF Taps
<1>4. ASSUME NEW d \in Device, Stores(d) PROVE LockInv'
  BY <1>4, LockSame DEF Stores, Accept, Reject, Slips, serverVars
<1>5. ASSUME NEW d \in Device, ReadBack(d) PROVE LockInv'
  BY <1>5, LockSame DEF ReadBack, Slips, serverVars
<1>6. CASE UNCHANGED vars
  BY <1>6, LockSame DEF vars, serverVars
<1> QED  BY <1>1, <1>2, <1>3, <1>4, <1>5, <1>6, AnswerLocks DEF Next

LEMMA InitLocks == Init => LockInv
BY DEF Init, LockInv, OneUploader

(* At most one device uploads at a time, onto nothing.                     *)
THEOREM DeletionIsLock == Spec => []OneUploader
<1>1. LockInv => OneUploader
  BY DEF LockInv
<1> QED  BY <1>1, InitLocks, StepLocks, AvatarTypeCorrect, PTL DEF Spec

(* An image that was deleted and not replaced is never replaced, by any    *)
(* number of devices, changes, failures and launches: an upload is behind  *)
(* a deletion that succeeded, and there is nothing left to delete.         *)
THEOREM LostForGood == Spec => GoneForGood
<1>1. ASSUME TypeOK, Lost, NEW d \in Device, NEW stage, Goes(d, stage),
             UNCHANGED object, stage # "uploading"
      PROVE  Lost'
  BY <1>1, GoesOnly DEF Lost
<1>2. ASSUME UNCHANGED <<object, pc>>, Lost PROVE Lost'
  BY <1>2 DEF Lost
<1>3. ASSUME TypeOK, Lost, NEW d \in Device, Answer(d) PROVE Lost'
  <2>1. ~ Deleted(d) /\ ~ Uploaded(d) /\ ~ UploadFailed(d)
    BY <1>3 DEF Deleted, Uploaded, UploadFailed, Lost
  <2>2. CASE SplashRead(d) \/ UrlAnswered(d) \/ CommitFailed(d) \/ Committed(d) \/ Read(d)
    BY <1>1, <1>3, <2>2 DEF SplashRead, UrlAnswered, CommitFailed, Committed, Read, serverVars
  <2>3. CASE DeleteRefused(d)
    BY <1>1, <1>3, <2>3 DEF DeleteRefused, Lost
  <2>4. CASE CommitTraps(d)
    BY <1>1, <1>3, <2>4 DEF CommitTraps, Dies, serverVars
  <2> QED  BY <1>3, <2>1, <2>2, <2>3, <2>4 DEF Answer
<1>4. ASSUME TypeOK, Lost, NEW d \in Device, Taps(d) PROVE Lost'
  BY <1>1, <1>2, <1>4 DEF Taps, Pick, Cancel, Ok, DismissSuccess, Reopen, UpdateDetails,
     DismissUpdated, serverVars
<1>5. ASSUME TypeOK, Lost, NEW d \in Device, Launch(d) \/ Kill(d) \/ Stores(d) \/ ReadBack(d)
      PROVE  Lost'
  BY <1>1, <1>2, <1>5 DEF Launch, Kill, Dies, Stores, Accept, Reject, ReadBack, serverVars
<1>6. TypeOK /\ [Next]_vars => (Lost => Lost')
  BY <1>2, <1>3, <1>4, <1>5 DEF Next, vars, serverVars
<1> QED  BY <1>6, AvatarTypeCorrect, PTL DEF Spec, GoneForGood

-----------------------------------------------------------------------------
(* The record follows the object.  As long as no upload was lost, no link  *)
(* was left unrecorded and nothing overlapped with a change, a device that *)
(* changes the avatar is the only one to have anything on its way, and the *)
(* stage it is in says where object, profile and links are.  What the      *)
(* record has between two changes is known only as long as no device has,  *)
(* in addition, updated its details out of date.                           *)
Clean == slips \cap {"noUpload", "noRecord", "overlap"} = {}

Fresh == "stale" \notin slips

Recorded(d) == Seen(d) = object

UrlOwn == \A d \in Device : url[d] # None => pc[d] = "committing"

Exclusive ==
  \A d, e \in Device : Changing(d) /\ e # d => ~ Changing(e) /\ writes[e] = <<>>

ChangeOK(d) ==
  /\ url[d] # None => url[d] = object
  /\ pc[d] = "reading" => profile[d].link = object /\ Recorded(d)

Accounted ==
  /\ Exclusive
  /\ object = None => \E d \in Device : pc[d] = "uploading"
  /\ \A d \in Device : ChangeOK(d)

(* Between two changes: the record has the link, or it is the last of all  *)
(* that any device has on its way.                                         *)
Settled ==
  (\A d \in Device : ~ Changing(d)) =>
    /\ (\A d \in Device : writes[d] = <<>>) => record = object
    /\ \A d \in Device : writes[d] # <<>> => Recorded(d)

Agreed ==
  \A d, e \in Device : d # e /\ writes[d] # <<>> /\ writes[e] # <<>> =>
    \A i \in DOMAIN writes[d] : writes[d][i] = object

Followed == Settled /\ Agreed /\ \A d \in Device : pc[d] = "deleting" => Recorded(d)

ChangeInv == UrlOwn /\ (Clean => Accounted /\ (Fresh => Followed))

-----------------------------------------------------------------------------
(* A step of the one device that changes the avatar, or of one that begins *)
(* to or ends to: the others are not concerned.                            *)
LEMMA Alone ==
  ASSUME NEW d \in Device, UrlOwn, UrlOwn',
         \A e \in Device \ {d} : ~ Changing(e) /\ writes[e] = <<>>,
         \A e \in Device \ {d} : pc'[e] = pc[e] /\ writes'[e] = writes[e],
         ChangeOK(d)', object' = None => pc'[d] = "uploading"
  PROVE  Accounted'
<1>1. \A e \in Device \ {d} : ~ Changing(e)' /\ writes'[e] = <<>>
  BY DEF Changing
<1>2. Exclusive'
  BY <1>1 DEF Exclusive
<1>3. \A e \in Device \ {d} : ChangeOK(e)'
  BY <1>1 DEF ChangeOK, Changing, Spinner, UrlOwn
<1> QED  BY <1>2, <1>3 DEF Accounted

(* A step of a device that changes nothing, with its link stored or an     *)
(* update written only if no other device changes the avatar.              *)
LEMMA Aside ==
  ASSUME NEW d \in Device, UrlOwn', Accounted, ~ Changing(d), ~ Changing(d)', UNCHANGED object,
         \A e \in Device \ {d} : pc'[e] = pc[e] /\ writes'[e] = writes[e]
                                 /\ url'[e] = url[e] /\ profile'[e] = profile[e],
         \A e \in Device \ {d} : Changing(e) => writes'[d] = <<>> /\ record' = record
  PROVE  Accounted'
<1>1. \A e \in Device \ {d} : Changing(e)' <=> Changing(e)
  BY DEF Changing
<1>2. Exclusive'
  BY <1>1 DEF Exclusive, Accounted
<1>3. ASSUME NEW e \in Device \ {d} PROVE ChangeOK(e)'
  <2>1. ChangeOK(e)
    BY DEF Accounted
  <2>2. pc[e] = "reading" => Changing(e)
    BY DEF Changing, Spinner
  <2> QED  BY <2>1, <2>2 DEF ChangeOK, Recorded, Seen
<1>4. ChangeOK(d)'
  BY DEF ChangeOK, Changing, Spinner, UrlOwn
<1>5. object' = None => \E e \in Device : pc'[e] = "uploading"
  BY DEF Accounted, Changing, Spinner
<1> QED  BY <1>2, <1>3, <1>4, <1>5 DEF Accounted

(* A link that is written is the last one of the device.                   *)
LEMMA AppendSeen ==
  ASSUME TypeOK, NEW d \in Device, NEW l, writes' = [writes EXCEPT ![d] = Append(@, l)]
  PROVE  /\ Seen(d)' = l /\ writes'[d] # <<>> /\ \A e \in Device \ {d} : writes'[e] = writes[e]
         /\ \A i \in DOMAIN writes'[d] : writes'[d][i] # l =>
              writes[d] # <<>> /\ i \in DOMAIN writes[d] /\ writes'[d][i] = writes[d][i]
<1>1. writes[d] \in Seq(Upload) /\ writes'[d] = Append(writes[d], l)
      /\ \A e \in Device \ {d} : writes'[e] = writes[e]
  BY DEF TypeOK
<1>2. Len(writes'[d]) = Len(writes[d]) + 1 /\ writes'[d][Len(writes[d]) + 1] = l
      /\ Len(writes[d]) \in Nat /\ DOMAIN writes'[d] = 1 .. Len(writes[d]) + 1
  BY <1>1
<1>3. \A i \in 1 .. Len(writes[d]) : writes'[d][i] = writes[d][i]
  BY <1>1
<1>4. writes'[d] # <<>>
  BY <1>2
<1>5. ASSUME NEW i \in DOMAIN writes'[d], writes'[d][i] # l
      PROVE  writes[d] # <<>> /\ i \in DOMAIN writes[d] /\ writes'[d][i] = writes[d][i]
  <2>1. i \in 1 .. Len(writes[d])
    BY <1>2, <1>5
  <2>2. DOMAIN writes[d] = 1 .. Len(writes[d]) /\ Len(<<>>) = 0
    BY <1>1
  <2>3. writes[d] # <<>>
    BY <1>2, <2>1, <2>2
  <2> QED  BY <1>3, <2>1, <2>2, <2>3
<1>6. Seen(d)' = l
  BY <1>2, <1>4 DEF Seen
<1> QED  BY <1>1, <1>4, <1>5, <1>6

(* A link that is stored, or rejected without a harm, leaves what the      *)
(* device sees of the record as it was.                                    *)
LEMMA StoreSeen ==
  ASSUME TypeOK, Clean', NEW d \in Device, Stores(d)
  PROVE  /\ writes[d] # <<>> /\ Seen(d)' = Seen(d)
         /\ \A e \in Device \ {d} : writes'[e] = writes[e]
         /\ UNCHANGED <<object, url, pc, profile>>
         /\ \A i \in DOMAIN writes'[d] :
              i + 1 \in DOMAIN writes[d] /\ writes'[d][i] = writes[d][i + 1]
<1>1. writes[d] \in Seq(Upload) /\ writes[d] # <<>> /\ writes'[d] = Tail(writes[d])
      /\ \A e \in Device \ {d} : writes'[e] = writes[e]
  BY DEF Stores, Accept, Reject, TypeOK
<1>2. UNCHANGED <<object, url, pc, profile>>
  BY DEF Stores, Accept, Reject, serverVars, viewVars
<1>3. record' = Head(writes[d])
  BY DEF Stores, Accept, Reject, serverVars, Slips, Clean
<1>4. Len(writes[d]) \in Nat \ {0} /\ Len(writes'[d]) = Len(writes[d]) - 1
      /\ record' = writes[d][1]
  BY <1>1, <1>3
<1>5. \A i \in 1 .. Len(writes[d]) - 1 : writes'[d][i] = writes[d][i + 1]
  BY <1>1
<1>6. DOMAIN writes'[d] = 1 .. Len(writes[d]) - 1 /\ DOMAIN writes[d] = 1 .. Len(writes[d])
  BY <1>1, <1>4
<1>7. Seen(d)' = Seen(d)
  <2>1. CASE Len(writes[d]) = 1
    <3>1. writes'[d] = <<>>
      <4>1. writes'[d] \in Seq(Upload) /\ Len(writes'[d]) = 0
        BY <1>1, <1>4, <2>1
      <4>2. \A s \in Seq(Upload) : Len(s) = 0 => s = <<>>
        OBVIOUS
      <4> QED  BY <4>1, <4>2
    <3> QED  BY <1>1, <1>4, <2>1, <3>1 DEF Seen
  <2>2. CASE Len(writes[d]) # 1
    <3>1. Len(writes[d]) - 1 \in 1 .. Len(writes[d]) - 1 /\ writes'[d] # <<>>
      <4>1. Len(writes'[d]) # 0
        BY <1>4, <2>2
      <4>2. writes'[d] # <<>>
        BY <4>1, Len(<<>>) = 0
      <4>3. \A n \in Nat \ {0} : n # 1 => n - 1 \in 1 .. n - 1
        OBVIOUS
      <4> QED  BY <1>4, <2>2, <4>2, <4>3
    <3>2. writes'[d][Len(writes'[d])] = writes[d][Len(writes[d])]
      BY <1>4, <1>5, <3>1
    <3> QED  BY <1>1, <3>1, <3>2 DEF Seen
  <2> QED  BY <2>1, <2>2
<1> QED  BY <1>1, <1>2, <1>4, <1>5, <1>6, <1>7

(* The answer of downloadURL is held only until the account service has    *)
(* answered as well.                                                       *)
LEMMA StepUrlOwn == TypeOK /\ UrlOwn /\ [Next]_vars => UrlOwn'
<1> SUFFICES ASSUME TypeOK, UrlOwn, [Next]_vars PROVE UrlOwn'
  OBVIOUS
<1>1. ASSUME NEW d \in Device, pc[d] # "committing", UNCHANGED url, NEW stage, Goes(d, stage)
      PROVE  UrlOwn'
  BY <1>1, GoesOnly DEF UrlOwn
<1>2. ASSUME NEW d \in Device, url' = [url EXCEPT ![d] = None], NEW stage, Goes(d, stage)
      PROVE  UrlOwn'
  BY <1>2, GoesOnly DEF UrlOwn, TypeOK
<1>3. ASSUME UNCHANGED <<url, pc>> PROVE UrlOwn'
  BY <1>3 DEF UrlOwn
<1>4. ASSUME NEW d \in Device, Launch(d) \/ Kill(d) PROVE UrlOwn'
  BY <1>1, <1>2, <1>4 DEF Launch, Kill, Dies
<1>5. ASSUME NEW d \in Device, Taps(d) PROVE UrlOwn'
  BY <1>1, <1>3, <1>5 DEF Taps, Pick, Cancel, Ok, DismissSuccess, Reopen, UpdateDetails,
     DismissUpdated
<1>6. ASSUME NEW d \in Device, Stores(d) \/ ReadBack(d) PROVE UrlOwn'
  BY <1>3, <1>6 DEF Stores, Accept, Reject, ReadBack
<1>7. ASSUME NEW d \in Device, Answer(d) PROVE UrlOwn'
  <2>1. CASE SplashRead(d) \/ Deleted(d) \/ DeleteRefused(d) \/ Uploaded(d) \/ UploadFailed(d)
    BY <1>1, <2>1 DEF SplashRead, Deleted, DeleteRefused, Uploaded, UploadFailed
  <2>2. CASE UrlAnswered(d)
    <3>1. pc'[d] = "committing" /\ \A e \in Device \ {d} : pc'[e] = pc[e] /\ url'[e] = url[e]
      BY <2>2, GoesOnly DEF UrlAnswered, TypeOK
    <3> QED  BY <3>1 DEF UrlOwn
  <2>3. CASE CommitFailed(d) \/ CommitTraps(d) \/ Committed(d)
    BY <1>2, <2>3 DEF CommitFailed, CommitTraps, Committed, Dies
  <2>4. CASE Read(d)
    BY <1>1, <2>4 DEF Read
  <2> QED  BY <1>7, <2>1, <2>2, <2>3, <2>4 DEF Answer
<1>8. CASE UNCHANGED vars
  BY <1>3, <1>8 DEF vars
<1> QED  BY <1>4, <1>5, <1>6, <1>7, <1>8 DEF Next

(* What has gone wrong is not forgotten.                                   *)
LEMMA SlipsGrow == [Next]_vars => slips \subseteq slips'
BY DEF Next, vars, Launch, Kill, Dies, Taps, Pick, Cancel, Ok, DismissSuccess, Reopen,
   UpdateDetails, DismissUpdated, ReadBack, Stores, Accept, Reject, Answer, SplashRead,
   Deleted, DeleteRefused, Uploaded, UploadFailed, UrlAnswered, CommitFailed, CommitTraps,
   Committed, Read, Slips

(* The deletion is refused only for a reason, or with the object gone.     *)
LEMMA NotRefused ==
  ASSUME TypeOK, Accounted, Clean', NEW d \in Device, DeleteRefused(d)
  PROVE  object # None /\ UNCHANGED object
<1>1. Changing(d)
  BY DEF DeleteRefused, Changing, Spinner
<1>2. object # None
  BY <1>1 DEF Accounted, Exclusive, DeleteRefused, Changing, Spinner
<1> QED  BY <1>2 DEF DeleteRefused, Clean, Slips

(* The answers, in the order of the chain.                                 *)
LEMMA AnswerAccounted ==
  ASSUME TypeOK, UrlOwn, UrlOwn', Accounted, Clean', NEW d \in Device, Answer(d)
  PROVE  Accounted'
<1>1. CASE SplashRead(d)
  <2>1. pc'[d] \in {"details", "blank"} /\ \A e \in Device \ {d} : pc'[e] = pc[e]
    BY <1>1, GoesOnly DEF SplashRead
  <2>2. \A e \in Device \ {d} : profile'[e] = profile[e]
    BY <1>1 DEF SplashRead, TypeOK
  <2>3. ~ Changing(d) /\ ~ Changing(d)' /\ UNCHANGED <<object, record, writes, url>>
    BY <1>1, <2>1 DEF SplashRead, Changing, Spinner, serverVars
  <2>4. \A e \in Device \ {d} : Changing(e) => writes'[d] = <<>>
    BY <2>3 DEF Accounted, Exclusive
  <2> QED  BY <2>1, <2>2, <2>3, <2>4, Aside
<1>2. ASSUME Changing(d) PROVE \A e \in Device \ {d} : ~ Changing(e) /\ writes[e] = <<>>
  BY <1>2 DEF Accounted, Exclusive
<1>3. ChangeOK(d) /\ (object = None => \E e \in Device : pc[e] = "uploading")
  BY DEF Accounted
<1>4. CASE Deleted(d)
  <2>1. pc'[d] = "uploading" /\ \A e \in Device \ {d} : pc'[e] = pc[e]
    BY <1>4, GoesOnly DEF Deleted
  <2>2. Changing(d) /\ UNCHANGED <<writes, url>>
    BY <1>4 DEF Deleted, Changing, Spinner
  <2>3. ChangeOK(d)'
    BY <2>1, <2>2 DEF ChangeOK, UrlOwn
  <2> QED  BY <1>2, <2>1, <2>2, <2>3, Alone
<1>5. CASE DeleteRefused(d)
  <2>1. pc'[d] = "stuck" /\ \A e \in Device \ {d} : pc'[e] = pc[e]
    BY <1>5, GoesOnly DEF DeleteRefused
  <2>2. Changing(d) /\ UNCHANGED <<writes, url>>
    BY <1>5 DEF DeleteRefused, Changing, Spinner
  <2>3. ChangeOK(d)'
    BY <2>1, <2>2 DEF ChangeOK, UrlOwn
  <2> QED  BY <1>2, <1>5, <2>1, <2>2, <2>3, Alone, NotRefused
<1>6. CASE Uploaded(d)
  <2>1. pc'[d] = "fetchingUrl" /\ \A e \in Device \ {d} : pc'[e] = pc[e]
    BY <1>6, GoesOnly DEF Uploaded
  <2>2. Changing(d) /\ UNCHANGED <<writes, url>>
    BY <1>6 DEF Uploaded, Changing, Spinner
  <2>3. object' # None
    BY <1>6 DEF Uploaded, TypeOK, Upload, None
  <2>4. ChangeOK(d)'
    BY <2>1, <2>2 DEF ChangeOK, UrlOwn
  <2> QED  BY <1>2, <2>1, <2>2, <2>3, <2>4, Alone
<1>7. CASE UploadFailed(d)
  BY <1>7 DEF UploadFailed, Slips, Clean
<1>8. CASE UrlAnswered(d)
  <2>1. pc'[d] = "committing" /\ \A e \in Device \ {d} : pc'[e] = pc[e]
    BY <1>8, GoesOnly DEF UrlAnswered
  <2>2. Changing(d) /\ UNCHANGED <<object, writes>> /\ pc[d] = "fetchingUrl"
    BY <1>8 DEF UrlAnswered, Changing, Spinner, serverVars
  <2>3. object # None
    BY <1>2, <1>3, <2>2 DEF Changing, Spinner
  <2>4. url'[d] \in {object, None}
    BY <1>8 DEF UrlAnswered, TypeOK, UrlOwn
  <2>5. ChangeOK(d)'
    BY <2>1, <2>2, <2>4 DEF ChangeOK
  <2> QED  BY <1>2, <2>1, <2>2, <2>3, <2>5, Alone
<1>9. CASE CommitFailed(d) \/ CommitTraps(d)
  BY <1>9 DEF CommitFailed, CommitTraps, Dies, Slips, Clean
<1>10. CASE Committed(d)
  <2>1. pc'[d] = "reading" /\ \A e \in Device \ {d} : pc'[e] = pc[e]
    BY <1>10, GoesOnly DEF Committed
  <2>2. Changing(d) /\ UNCHANGED <<object, record>>
    BY <1>10 DEF Committed, Changing, Spinner, serverVars
  <2>3. object # None /\ url[d] = object
    BY <1>2, <1>3, <1>10, <2>2 DEF Committed, ChangeOK, Changing, Spinner
  <2>4. url'[d] = None /\ profile'[d].link = object
    BY <1>10, <2>3 DEF Committed, TypeOK
  <2>5. Seen(d)' = object /\ \A e \in Device \ {d} : writes'[e] = writes[e]
    BY <1>10, <2>3, AppendSeen DEF Committed
  <2>6. ChangeOK(d)'
    BY <2>1, <2>2, <2>4, <2>5 DEF ChangeOK, Recorded
  <2> QED  BY <1>2, <2>1, <2>2, <2>3, <2>5, <2>6, Alone
<1>11. CASE Read(d)
  <2>1. pc'[d] \in {"success", "stuck"} /\ \A e \in Device \ {d} : pc'[e] = pc[e]
    BY <1>11, GoesOnly DEF Read
  <2>2. Changing(d) /\ UNCHANGED <<object, record, writes, url>> /\ pc[d] = "reading"
    BY <1>11 DEF Read, Changing, Spinner, serverVars
  <2>3. object # None
    BY <1>2, <1>3, <2>2 DEF Changing, Spinner
  <2>4. ChangeOK(d)'
    BY <2>1, <2>2 DEF ChangeOK, UrlOwn
  <2> QED  BY <1>2, <2>1, <2>2, <2>3, <2>4, Alone
<1> QED  BY <1>1, <1>4, <1>5, <1>6, <1>7, <1>8, <1>9, <1>10, <1>11 DEF Answer

(* A tap, and among them the Ok with which a change begins: while another  *)
(* change is under way, or a link on its way, it is an overlap.            *)
LEMMA TapAccounted ==
  ASSUME TypeOK, UrlOwn, UrlOwn', Accounted, Clean', NEW d \in Device, Taps(d)
  PROVE  Accounted'
<1>1. CASE Pick(d) \/ Cancel(d) \/ DismissSuccess(d) \/ DismissUpdated(d) \/ Reopen(d)
  <2>1. pc'[d] \in {"confirm", "details"} /\ \A e \in Device \ {d} : pc'[e] = pc[e]
    BY <1>1, GoesOnly DEF Pick, Cancel, DismissSuccess, DismissUpdated, Reopen
  <2>2. /\ UNCHANGED <<object, record, writes, url, profile>>
        /\ pc[d] \in {"details", "confirm", "success", "updated"}
    BY <1>1 DEF Pick, Cancel, DismissSuccess, DismissUpdated, Reopen, serverVars, viewVars
  <2>3. ~ Changing(d) /\ ~ Changing(d)'
    BY <2>1, <2>2 DEF Changing, Spinner
  <2>4. \A e \in Device \ {d} : Changing(e) => writes'[d] = <<>>
    BY <2>2 DEF Accounted, Exclusive
  <2> QED  BY <2>1, <2>2, <2>3, <2>4, Aside
<1>2. CASE UpdateDetails(d)
  <2>1. pc'[d] = "updated" /\ pc[d] = "details" /\ \A e \in Device \ {d} : pc'[e] = pc[e]
    BY <1>2, GoesOnly DEF UpdateDetails
  <2>2. \A e \in Device \ {d} : ~ Changing(e)
    BY <1>2 DEF UpdateDetails, Slips, Clean
  <2>3. /\ UNCHANGED <<object, record, url, profile>>
        /\ \A e \in Device \ {d} : writes'[e] = writes[e]
    BY <1>2, AppendSeen DEF UpdateDetails, serverVars
  <2>4. ~ Changing(d) /\ ~ Changing(d)'
    BY <2>1 DEF Changing, Spinner
  <2> QED  BY <2>1, <2>2, <2>3, <2>4, Aside
<1>3. CASE Ok(d)
  <2>1. pc'[d] = "deleting" /\ pc[d] = "confirm" /\ \A e \in Device \ {d} : pc'[e] = pc[e]
    BY <1>3, GoesOnly DEF Ok
  <2>2. \A e \in Device \ {d} : ~ Changing(e) /\ writes[e] = <<>>
    BY <1>3 DEF Ok, Slips, Clean
  <2>3. UNCHANGED <<object, record, writes, url>>
    BY <1>3 DEF Ok, serverVars
  <2>4. object # None
    BY <2>1, <2>2 DEF Accounted, Changing, Spinner
  <2>5. ChangeOK(d)'
    BY <2>1, <2>3 DEF ChangeOK, UrlOwn
  <2> QED  BY <2>1, <2>2, <2>3, <2>4, <2>5, Alone
<1> QED  BY <1>1, <1>2, <1>3 DEF Taps

(* The end of a process: what a clean one has written has been stored.     *)
LEMMA CleanEnd ==
  ASSUME TypeOK, UrlOwn, Clean', NEW d \in Device, Kill(d)
  PROVE  /\ pc'[d] = "off" /\ \A e \in Device \ {d} : pc'[e] = pc[e]
         /\ UNCHANGED <<object, record, url>>
         /\ \A e \in Device \ {d} : profile'[e] = profile[e] /\ writes'[e] = writes[e]
         /\ pc[d] \notin {"uploading", "fetchingUrl", "committing"}
         /\ Seen(d) = record /\ writes'[d] = <<>>
<1>1. pc'[d] = "off" /\ \A e \in Device \ {d} : pc'[e] = pc[e]
  BY GoesOnly DEF Kill, Dies
<1>2. pc[d] \notin {"uploading", "fetchingUrl", "committing"} /\ Seen(d) = record
  BY DEF Kill, Dies, Slips, Clean
<1>3. UNCHANGED url
  BY <1>2 DEF Kill, Dies, UrlOwn, TypeOK
<1>4. /\ \A e \in Device \ {d} : profile'[e] = profile[e] /\ writes'[e] = writes[e]
      /\ writes'[d] = <<>>
  BY DEF Kill, Dies, TypeOK
<1> QED  BY <1>1, <1>2, <1>3, <1>4 DEF Kill, serverVars

LEMMA KillAccounted ==
  ASSUME TypeOK, UrlOwn, UrlOwn', Accounted, Clean', NEW d \in Device, Kill(d)
  PROVE  Accounted'
<1>1. CASE Changing(d)
  <2>1. \A e \in Device \ {d} : ~ Changing(e) /\ writes[e] = <<>>
    BY <1>1 DEF Accounted, Exclusive
  <2>2. object # None
    BY <2>1, CleanEnd DEF Accounted, Changing, Spinner
  <2>3. ChangeOK(d)'
    BY CleanEnd DEF ChangeOK, UrlOwn
  <2> QED  BY <2>1, <2>2, <2>3, CleanEnd, Alone
<1>2. CASE ~ Changing(d)
  <2>1. ~ Changing(d)'
    BY CleanEnd DEF Changing, Spinner
  <2> QED  BY <1>2, <2>1, CleanEnd, Aside
<1> QED  BY <1>1, <1>2

LEMMA StoresAccounted ==
  ASSUME TypeOK, UrlOwn, UrlOwn', Accounted, Clean', NEW d \in Device, Stores(d)
  PROVE  Accounted'
<1>1. \A e \in Device \ {d} : ~ Changing(e)
  BY StoreSeen DEF Accounted, Exclusive
<1>2. CASE Changing(d)
  <2>1. \A e \in Device \ {d} : writes[e] = <<>>
    BY <1>2 DEF Accounted, Exclusive
  <2>2. ChangeOK(d)'
    BY StoreSeen DEF Accounted, ChangeOK, Recorded
  <2>3. object' = None => pc'[d] = "uploading"
    BY <1>1, StoreSeen DEF Accounted, Changing, Spinner
  <2> QED  BY <1>1, <2>1, <2>2, <2>3, StoreSeen, Alone
<1>3. CASE ~ Changing(d)
  <2>1. ~ Changing(d)'
    BY <1>3, StoreSeen DEF Changing
  <2> QED  BY <1>1, <1>3, <2>1, StoreSeen, Aside
<1> QED  BY <1>2, <1>3

LEMMA ReadBackAccounted ==
  ASSUME TypeOK, UrlOwn, UrlOwn', Accounted, NEW d \in Device, ReadBack(d)
  PROVE  Accounted'
<1>1. /\ UNCHANGED <<object, record, writes, url, pc>> /\ pc[d] # "reading"
      /\ \A e \in Device \ {d} : profile'[e] = profile[e]
  BY DEF ReadBack, TypeOK, serverVars
<1>2. Exclusive'
  BY <1>1 DEF Accounted, Exclusive, Changing
<1>3. \A e \in Device : ChangeOK(e)'
  BY <1>1 DEF Accounted, ChangeOK, Recorded, Seen
<1> QED  BY <1>1, <1>2, <1>3 DEF Accounted

LEMMA StepAccounted ==
  TypeOK /\ UrlOwn /\ Accounted /\ [Next]_vars /\ Clean' => Accounted'
<1> SUFFICES ASSUME TypeOK, UrlOwn, Accounted, [Next]_vars, Clean' PROVE Accounted'
  OBVIOUS
<1>1. UrlOwn'
  BY StepUrlOwn
<1>2. ASSUME NEW d \in Device, Launch(d) PROVE Accounted'
  <2>1. pc'[d] = "splash" /\ pc[d] = "off" /\ \A e \in Device \ {d} : pc'[e] = pc[e]
    BY <1>2, GoesOnly DEF Launch
  <2>2. ~ Changing(d) /\ ~ Changing(d)' /\ UNCHANGED <<object, record, writes, url, profile>>
    BY <1>2, <2>1 DEF Launch, Changing, Spinner, serverVars, viewVars
  <2>3. \A e \in Device \ {d} : Changing(e) => writes'[d] = <<>>
    BY <2>2 DEF Accounted, Exclusive
  <2> QED  BY <1>1, <2>1, <2>2, <2>3, Aside
<1>3. CASE UNCHANGED vars
  BY <1>3 DEF vars, serverVars, viewVars, Accounted, Exclusive, Changing, ChangeOK, Recorded,
              Seen
<1> QED  BY <1>1, <1>2, <1>3, AnswerAccounted, TapAccounted, KillAccounted, StoresAccounted,
            ReadBackAccounted DEF Next

-----------------------------------------------------------------------------
(* A step that concerns neither record nor object, nor who is changing.    *)
LEMMA FollowedAside ==
  ASSUME Followed, UNCHANGED <<object, record, writes>>,
         \A e \in Device : Changing(e)' <=> Changing(e),
         \A e \in Device : pc'[e] = "deleting" => pc[e] = "deleting"
  PROVE  Followed'
<1>1. Settled'
  BY DEF Followed, Settled, Recorded, Seen
<1>2. Agreed'
  BY DEF Followed, Agreed
<1> QED  BY <1>1, <1>2 DEF Followed, Recorded, Seen

(* A step behind which a device is changing the avatar: nothing is said of *)
(* the record, unless the device is about to delete the object.            *)
LEMMA FollowedChanging ==
  ASSUME Accounted', NEW d \in Device, Changing(d)', pc'[d] = "deleting" => Recorded(d)'
  PROVE  Followed'
<1>1. \A e \in Device \ {d} : ~ Changing(e)' /\ writes'[e] = <<>>
  BY DEF Accounted, Exclusive
<1>2. Settled' /\ Agreed'
  BY <1>1 DEF Settled, Agreed
<1>3. \A e \in Device : pc'[e] = "deleting" => e = d
  BY <1>1 DEF Changing, Spinner
<1> QED  BY <1>2, <1>3 DEF Followed

(* A step with which a change ends.                                        *)
LEMMA FollowedEnd ==
  ASSUME NEW d \in Device, \A e \in Device \ {d} : ~ Changing(e) /\ writes[e] = <<>>,
         \A e \in Device \ {d} : pc'[e] = pc[e] /\ writes'[e] = writes[e],
         ~ Changing(d)', Recorded(d)'
  PROVE  Followed'
<1>1. \A e \in Device \ {d} : ~ Changing(e)' /\ writes'[e] = <<>>
  BY DEF Changing
<1>2. Settled'
  BY <1>1 DEF Settled, Recorded, Seen
<1>3. Agreed'
  BY <1>1 DEF Agreed
<1>4. \A e \in Device : pc'[e] # "deleting"
  BY <1>1 DEF Changing, Spinner
<1> QED  BY <1>2, <1>3, <1>4 DEF Followed

LEMMA AnswerFollowed ==
  ASSUME TypeOK, UrlOwn, Accounted, Accounted', Followed, Clean', NEW d \in Device, Answer(d)
  PROVE  Followed'
<1>1. ASSUME Changing(d) PROVE \A e \in Device \ {d} : ~ Changing(e) /\ writes[e] = <<>>
  BY <1>1 DEF Accounted, Exclusive
<1>2. CASE SplashRead(d)
  <2>1. pc'[d] \in {"details", "blank"} /\ \A e \in Device \ {d} : pc'[e] = pc[e]
    BY <1>2, GoesOnly DEF SplashRead
  <2>2. \A e \in Device : (Changing(e)' <=> Changing(e)) /\ (pc'[e] = "deleting" => pc[e] = "deleting")
    BY <1>2, <2>1 DEF SplashRead, Changing, Spinner
  <2> QED  BY <1>2, <2>2, FollowedAside DEF SplashRead, serverVars
<1>3. CASE Deleted(d) \/ Uploaded(d) \/ UrlAnswered(d) \/ Committed(d)
  <2>1. pc'[d] \in {"uploading", "fetchingUrl", "committing", "reading"}
    BY <1>3, GoesOnly DEF Deleted, Uploaded, UrlAnswered, Committed
  <2>2. Changing(d)'
    BY <2>1 DEF Changing, Spinner
  <2> QED  BY <2>1, <2>2, FollowedChanging
<1>4. CASE DeleteRefused(d)
  <2>1. pc'[d] = "stuck" /\ \A e \in Device \ {d} : pc'[e] = pc[e]
    BY <1>4, GoesOnly DEF DeleteRefused
  <2>2. pc[d] = "deleting" /\ Changing(d) /\ ~ Changing(d)'
    BY <1>4, <2>1 DEF DeleteRefused, Changing, Spinner
  <2>3. UNCHANGED <<object, record, writes>>
    BY <1>4, NotRefused DEF DeleteRefused
  <2>4. Recorded(d)'
    BY <2>2, <2>3 DEF Followed, Recorded, Seen
  <2> QED  BY <1>1, <2>1, <2>2, <2>3, <2>4, FollowedEnd
<1>5. CASE Read(d)
  <2>1. pc'[d] \in {"success", "stuck"} /\ \A e \in Device \ {d} : pc'[e] = pc[e]
    BY <1>5, GoesOnly DEF Read
  <2>2. pc[d] = "reading" /\ Changing(d) /\ ~ Changing(d)'
    BY <1>5, <2>1 DEF Read, Changing, Spinner
  <2>3. UNCHANGED <<object, record, writes>>
    BY <1>5 DEF Read, serverVars
  <2>4. Recorded(d)'
    BY <2>2, <2>3 DEF Accounted, ChangeOK, Recorded, Seen
  <2> QED  BY <1>1, <2>1, <2>2, <2>3, <2>4, FollowedEnd
<1>6. ~ UploadFailed(d) /\ ~ CommitFailed(d) /\ ~ CommitTraps(d)
  BY DEF UploadFailed, CommitFailed, CommitTraps, Dies, Slips, Clean
<1> QED  BY <1>2, <1>3, <1>4, <1>5, <1>6 DEF Answer

(* An update of the details: with nobody changing the avatar, and a        *)
(* profile that has the link which all devices see or have on their way,   *)
(* it is the link of the object that is written once more.                 *)
LEMMA UpdateFollowed ==
  ASSUME TypeOK, Followed, Clean', Fresh', NEW d \in Device, UpdateDetails(d)
  PROVE  Followed'
<1>1. PICK l : l = profile[d].link
  OBVIOUS
<1>2. /\ \A e \in Device \ {d} : ~ Changing(e) /\ \A i \in DOMAIN writes[e] : writes[e][i] = l
      /\ Seen(d) = l
  BY <1>1 DEF UpdateDetails, Slips, Clean, Fresh
<1>3. pc'[d] = "updated" /\ pc[d] = "details" /\ \A e \in Device \ {d} : pc'[e] = pc[e]
  BY GoesOnly DEF UpdateDetails
<1>4. UNCHANGED <<object, record>> /\ writes' = [writes EXCEPT ![d] = Append(@, l)]
  BY <1>1 DEF UpdateDetails, serverVars
<1>5. \A e \in Device : ~ Changing(e) /\ ~ Changing(e)'
  BY <1>2, <1>3 DEF Changing, Spinner
<1>6. l = object
  <2>1. CASE writes[d] # <<>>
    BY <1>2, <1>5, <2>1 DEF Followed, Settled, Recorded
  <2>2. CASE \A e \in Device : writes[e] = <<>>
    BY <1>2, <1>5, <2>2 DEF Followed, Settled, Seen
  <2>3. ASSUME NEW e \in Device \ {d}, writes[e] # <<>> PROVE l = object
    <3>1. writes[e] \in Seq(Upload)
      BY DEF TypeOK
    <3>2. Len(writes[e]) \in DOMAIN writes[e]
      BY <2>3, <3>1
    <3>3. Seen(e) = l
      BY <1>2, <2>3, <3>2 DEF Seen
    <3> QED  BY <1>5, <2>3, <3>3 DEF Followed, Settled, Recorded
  <2> QED  BY <2>1, <2>2, <2>3
<1>7. /\ Seen(d)' = object /\ writes'[d] # <<>> /\ \A e \in Device \ {d} : writes'[e] = writes[e]
      /\ \A i \in DOMAIN writes'[d] : writes'[d][i] # object =>
           writes[d] # <<>> /\ i \in DOMAIN writes[d] /\ writes'[d][i] = writes[d][i]
  BY <1>4, <1>6, AppendSeen
<1>8. Settled'
  <2>1. ASSUME NEW e \in Device, writes'[e] # <<>> PROVE Recorded(e)'
    <3>1. CASE e = d
      BY <1>4, <1>7, <3>1 DEF Recorded
    <3>2. CASE e # d
      BY <1>4, <1>5, <1>7, <2>1, <3>2 DEF Followed, Settled, Recorded, Seen
    <3> QED  BY <3>1, <3>2
  <2> QED  BY <1>7, <2>1 DEF Settled
<1>9. Agreed'
  <2>1. \A e \in Device \ {d} : \A i \in DOMAIN writes'[e] : writes'[e][i] = object'
    BY <1>2, <1>4, <1>6, <1>7
  <2>2. ASSUME NEW e \in Device \ {d}, writes'[e] # <<>>
        PROVE  \A i \in DOMAIN writes'[d] : writes'[d][i] = object'
    BY <1>4, <1>7, <2>2 DEF Followed, Agreed
  <2> QED  BY <2>1, <2>2 DEF Agreed
<1> QED  BY <1>5, <1>8, <1>9 DEF Followed, Changing, Spinner

LEMMA TapFollowed ==
  ASSUME TypeOK, UrlOwn, Accounted, Accounted', Followed, Clean', Fresh',
         NEW d \in Device, Taps(d)
  PROVE  Followed'
<1>1. CASE Pick(d) \/ Cancel(d) \/ DismissSuccess(d) \/ DismissUpdated(d) \/ Reopen(d)
  <2>1. pc'[d] \in {"confirm", "details"} /\ \A e \in Device \ {d} : pc'[e] = pc[e]
    BY <1>1, GoesOnly DEF Pick, Cancel, DismissSuccess, DismissUpdated, Reopen
  <2>2. /\ UNCHANGED <<object, record, writes>>
        /\ pc[d] \in {"details", "confirm", "success", "updated"}
    BY <1>1 DEF Pick, Cancel, DismissSuccess, DismissUpdated, Reopen, serverVars
  <2>3. \A e \in Device : (Changing(e)' <=> Changing(e)) /\ (pc'[e] = "deleting" => pc[e] = "deleting")
    BY <2>1, <2>2 DEF Changing, Spinner
  <2> QED  BY <2>2, <2>3, FollowedAside
<1>2. CASE Ok(d)
  <2>1. pc'[d] = "deleting" /\ pc[d] = "confirm" /\ \A e \in Device \ {d} : pc'[e] = pc[e]
    BY <1>2, GoesOnly DEF Ok
  <2>2. \A e \in Device \ {d} : ~ Changing(e) /\ writes[e] = <<>>
    BY <1>2 DEF Ok, Slips, Clean
  <2>3. UNCHANGED <<object, record, writes>> /\ ~ Changing(d)
    BY <1>2, <2>1 DEF Ok, Changing, Spinner, serverVars
  <2>4. Recorded(d)
    BY <2>2, <2>3 DEF Followed, Settled, Recorded, Seen
  <2>5. Recorded(d)' /\ Changing(d)'
    BY <2>1, <2>3, <2>4 DEF Recorded, Seen, Changing, Spinner
  <2> QED  BY <2>5, FollowedChanging
<1> QED  BY <1>1, <1>2, UpdateFollowed DEF Taps

LEMMA KillFollowed ==
  ASSUME TypeOK, UrlOwn, Accounted, Accounted', Followed, Clean', NEW d \in Device, Kill(d)
  PROVE  Followed'
<1>1. CASE Changing(d)
  <2>1. \A e \in Device \ {d} : ~ Changing(e) /\ writes[e] = <<>>
    BY <1>1 DEF Accounted, Exclusive
  <2>2. pc[d] \in {"deleting", "reading"}
    BY <1>1, CleanEnd DEF Changing, Spinner
  <2>3. Recorded(d)
    BY <2>2 DEF Followed, Accounted, ChangeOK
  <2>4. Recorded(d)' /\ ~ Changing(d)'
    BY <2>3, CleanEnd DEF Recorded, Seen, Changing, Spinner
  <2> QED  BY <2>1, <2>4, CleanEnd, FollowedEnd
<1>2. CASE ~ Changing(d)
  <2>1. \A e \in Device : Changing(e)' <=> Changing(e)
    BY <1>2, CleanEnd DEF Changing, Spinner
  <2>2. Settled'
    <3>1. SUFFICES ASSUME \A e \in Device : ~ Changing(e)'
                   PROVE  /\ (\A e \in Device : writes'[e] = <<>>) => record' = object'
                          /\ \A e \in Device : writes'[e] # <<>> => Recorded(e)'
      BY DEF Settled
    <3>2. /\ (\A e \in Device : writes[e] = <<>>) => record = object
          /\ \A e \in Device : writes[e] # <<>> => Recorded(e)
      BY <2>1, <3>1 DEF Followed, Settled
    <3>3. \A e \in Device : writes'[e] # <<>> => Recorded(e)'
      BY <3>2, CleanEnd DEF Recorded, Seen
    <3>4. ASSUME \A e \in Device : writes'[e] = <<>> PROVE record' = object'
      <4>1. \A e \in Device \ {d} : writes[e] = <<>>
        BY <3>4, CleanEnd
      <4> QED  BY <3>2, <4>1, CleanEnd DEF Recorded
    <3> QED  BY <3>3, <3>4
  <2>3. Agreed'
    BY CleanEnd DEF Followed, Agreed
  <2>4. \A e \in Device : pc'[e] = "deleting" => Recorded(e)'
    BY CleanEnd DEF Followed, Recorded, Seen
  <2> QED  BY <2>2, <2>3, <2>4 DEF Followed
<1> QED  BY <1>1, <1>2

LEMMA StoresFollowed ==
  ASSUME TypeOK, Accounted, Accounted', Followed, Clean', NEW d \in Device, Stores(d)
  PROVE  Followed'
<1>1. \A e \in Device \ {d} : ~ Changing(e)
  BY StoreSeen DEF Accounted, Exclusive
<1>2. CASE Changing(d)
  <2>1. Changing(d)'
    BY <1>2, StoreSeen DEF Changing
  <2>2. pc'[d] = "deleting" => Recorded(d)'
    BY StoreSeen DEF Followed, Recorded
  <2> QED  BY <2>1, <2>2, FollowedChanging
<1>3. CASE ~ Changing(d)
  <2>1. \A e \in Device : ~ Changing(e) /\ pc'[e] # "deleting"
    BY <1>1, <1>3, StoreSeen DEF Changing, Spinner
  <2>2. Recorded(d) /\ Recorded(d)'
    BY <2>1, StoreSeen DEF Followed, Settled, Recorded
  <2>3. Settled'
    <3>1. (\A e \in Device : writes'[e] = <<>>) => record' = object'
      BY <2>2 DEF Recorded, Seen
    <3>2. ASSUME NEW e \in Device, writes'[e] # <<>> PROVE Recorded(e)'
      <4>1. CASE e = d
        BY <2>2, <4>1
      <4>2. CASE e # d
        BY <2>1, <3>2, <4>2, StoreSeen DEF Followed, Settled, Recorded, Seen
      <4> QED  BY <4>1, <4>2
    <3> QED  BY <3>1, <3>2 DEF Settled
  <2>4. Agreed'
    <3>1. ASSUME NEW b \in Device, NEW e \in Device, b # e, writes'[b] # <<>>, writes'[e] # <<>>,
                 NEW i \in DOMAIN writes'[b]
          PROVE  writes'[b][i] = object'
      <4>1. writes[b] # <<>> /\ writes[e] # <<>>
        BY <3>1, StoreSeen
      <4>2. \A j \in DOMAIN writes[b] : writes[b][j] = object
        BY <3>1, <4>1 DEF Followed, Agreed
      <4>3. CASE b = d
        BY <3>1, <4>2, <4>3, StoreSeen
      <4>4. CASE b # d
        BY <3>1, <4>2, <4>4, StoreSeen
      <4> QED  BY <4>3, <4>4
    <3> QED  BY <3>1 DEF Agreed
  <2> QED  BY <2>1, <2>3, <2>4 DEF Followed
<1> QED  BY <1>2, <1>3

LEMMA StepChange == TypeOK /\ ChangeInv /\ [Next]_vars => ChangeInv'
<1> SUFFICES ASSUME TypeOK, ChangeInv, [Next]_vars, Clean'
             PROVE  Accounted' /\ (Fresh' => Followed')
  BY StepUrlOwn DEF ChangeInv
<1>1. UrlOwn /\ Accounted /\ Accounted'
  BY SlipsGrow, StepAccounted DEF ChangeInv, Clean
<1>2. SUFFICES ASSUME Fresh' PROVE Followed'
  BY <1>1
<1>3. Followed
  BY SlipsGrow, <1>2 DEF ChangeInv, Clean, Fresh
<1>4. ASSUME NEW d \in Device, Launch(d) PROVE Followed'
  <2>1. pc'[d] = "splash" /\ pc[d] = "off" /\ \A e \in Device \ {d} : pc'[e] = pc[e]
    BY <1>4, GoesOnly DEF Launch
  <2>2. \A e \in Device : (Changing(e)' <=> Changing(e)) /\ (pc'[e] = "deleting" => pc[e] = "deleting")
    BY <2>1 DEF Changing, Spinner
  <2> QED  BY <1>3, <1>4, <2>2, FollowedAside DEF Launch, serverVars
<1>5. ASSUME NEW d \in Device, ReadBack(d) PROVE Followed'
  BY <1>3, <1>5, FollowedAside DEF ReadBack, Changing, serverVars
<1>6. CASE UNCHANGED vars
  BY <1>3, <1>6, FollowedAside DEF vars, serverVars, Changing
<1> QED  BY <1>1, <1>2, <1>3, <1>4, <1>5, <1>6, AnswerFollowed, TapFollowed, KillFollowed,
            StoresFollowed DEF Next

LEMMA InitChange == Init => ChangeInv
<1> SUFFICES ASSUME Init PROVE ChangeInv
  OBVIOUS
<1>1. \A d \in Device : pc[d] = "off" /\ writes[d] = <<>> /\ url[d] = None
  BY DEF Init
<1>2. record = object /\ object # None
  BY DEF Init, None
<1>3. \A d \in Device : ~ Changing(d)
  BY <1>1 DEF Changing, Spinner
<1>4. Accounted
  BY <1>1, <1>2, <1>3 DEF Accounted, Exclusive, ChangeOK
<1>5. Followed
  BY <1>1, <1>2 DEF Followed, Settled, Agreed
<1> QED  BY <1>1, <1>4, <1>5 DEF ChangeInv, UrlOwn

(* A dead link is the work of a change cut short, of two devices at once,  *)
(* or of an update made out of date: otherwise it does not arise, however  *)
(* many changes and updates are made, on however many devices, and however *)
(* often the app is restarted.                                             *)
THEOREM DeadLinksHaveCauses == Spec => []DeadLinkCauses
<1>1. ChangeInv => DeadLinkCauses
  <2> SUFFICES ASSUME ChangeInv, Clean, Fresh,
                      \A d \in Device : ~ Changing(d) /\ writes[d] = <<>>
               PROVE  Present(record)
    BY DEF DeadLinkCauses, Clean, Fresh
  <2>1. object # None
    BY DEF ChangeInv, Accounted, Changing, Spinner
  <2>2. record = object
    BY DEF ChangeInv, Followed, Settled
  <2> QED  BY <2>1, <2>2 DEF Present
<1> QED  BY <1>1, AvatarTypeCorrect, InitChange, StepChange, PTL DEF Spec

(* When success is announced, the link of the image shown is recorded or   *)
(* the last of those on their way: an update out of date before the change *)
(* is no exception, and a lost upload is none, since after it no image can *)
(* be fetched back at all.                                                 *)
THEOREM SuccessFollowsRecord == Spec => SuccessIsRecorded
<1> DEFINE Shown(d) == \/ record' = picture'[d]
                       \/ writes'[d] # <<>> /\ writes'[d][Len(writes'[d])] = picture'[d]
                       \/ slips \cap {"noRecord", "overlap"} # {}
<1>2. ASSUME TypeOK, LockInv, ChangeInv, [Next]_vars,
             NEW d \in Device, pc[d] # "success", pc'[d] = "success"
      PROVE  Shown(d)
  <2>1. Read(d)
    <3>1. ASSUME NEW e \in Device, NEW stage, Goes(e, stage) PROVE stage = "success" /\ e = d
      BY <1>2, <3>1, GoesOnly
    <3>2. ASSUME NEW e \in Device,
                 Launch(e) \/ Kill(e) \/ Taps(e) \/ Stores(e) \/ ReadBack(e) PROVE FALSE
      BY <1>2, <3>1, <3>2 DEF Launch, Kill, Dies, Taps, Pick, Cancel, Ok, DismissSuccess,
         Reopen, UpdateDetails, DismissUpdated, Stores, Accept, Reject, ReadBack
    <3>3. ASSUME NEW e \in Device, Answer(e) PROVE Read(e) /\ e = d
      BY <3>1, <3>3 DEF Answer, SplashRead, Deleted, DeleteRefused, Uploaded, UploadFailed,
         UrlAnswered, CommitFailed, CommitTraps, Dies, Committed, Read
    <3> QED  BY <1>2, <3>2, <3>3 DEF Next, vars
  <2>2. Present(profile[d].link) /\ profile' = [profile EXCEPT ![d].image = profile[d].link]
    BY <1>2, <2>1, GoesOnly DEF Read
  <2>3. picture'[d] = profile[d].link /\ UNCHANGED <<record, writes>>
    BY <1>2, <2>1, <2>2 DEF Read, TypeOK, serverVars
  <2>4. object # None
    BY <2>2 DEF Present
  <2>5. SUFFICES ASSUME slips \cap {"noRecord", "overlap"} = {} PROVE Shown(d)
    OBVIOUS
  <2>6. Clean
    BY <1>2, <2>4, <2>5 DEF Clean, LockInv, Lost
  <2>7. pc[d] = "reading" /\ ChangeOK(d)
    BY <1>2, <2>1, <2>6 DEF Read, ChangeInv, Accounted
  <2>8. profile[d].link = object /\ Recorded(d)
    BY <2>7 DEF ChangeOK
  <2>9. CASE writes[d] = <<>>
    BY <2>3, <2>8, <2>9 DEF Recorded, Seen
  <2>10. CASE writes[d] # <<>>
    BY <2>3, <2>8, <2>10 DEF Recorded, Seen
  <2> QED  BY <2>9, <2>10
<1>3. TypeOK /\ LockInv /\ ChangeInv /\ [Next]_vars
        => \A d \in Device : pc[d] # "success" /\ pc'[d] = "success" => Shown(d)
  BY <1>2
<1> QED  BY <1>3, AvatarTypeCorrect, InitLocks, StepLocks, InitChange, StepChange, PTL
         DEF Spec, SuccessIsRecorded

-----------------------------------------------------------------------------
(* The lists on the device of another student *)

(* A list reads the record and the storage and changes neither.            *)
LEMMA ListKeepsSpec == ListSpec => Spec
<1>1. ListInit => Init
  BY DEF ListInit
<1>2. [ListNext]_allVars => [Next]_vars
  BY DEF ListNext, allVars
<1> QED  BY <1>1, <1>2, PTL DEF ListSpec, Spec

ListTypeOK ==
  /\ recorded \subseteq Nat
  /\ rows \in Seq(Nat) /\ top \in Nat \ {0} /\ started \in Nat
  /\ given \in [Cell -> Nat] /\ \A c \in Cell : given[c] # None => given[c] \in DOMAIN rows
  /\ image \in [Cell -> Nat] /\ causes \in [Cell -> SUBSET {"overtaken", "unserved"}]
  /\ loads \subseteq [cell : Cell, link : Nat, no : Nat]

(* A cell shows its row, or has a cause not to, or the download of that    *)
(* very row is still under way.                                            *)
Loading(c) == \E l \in loads : l.cell = c /\ l.link = rows[given[c]]

CellInv ==
  \A c \in Cell :
    given[c] # None => image[c] = rows[given[c]] \/ causes[c] # {} \/ Loading(c)

ListInv == ListTypeOK /\ CellInv

LEMMA CellCount == Cardinality(Cell) \in Nat
BY ListAssumption, FS_CardinalityType

(* Every cell that shows a row it did not show before starts a download of *)
(* that row.                                                               *)
LEMMA GiveKeeps ==
  ASSUME ListInv, NEW rs \in Seq(Nat), NEW g \in [Cell -> Nat], NEW cs \in SUBSET Cell,
         Give(rs, g, cs), rows' = rs, UNCHANGED recorded, top' \in Nat \ {0},
         \A c \in Cell : g[c] # None => g[c] \in DOMAIN rs,
         \A c \in cs : g[c] # None,
         \A c \in Cell \ cs : g[c] # None => given[c] = g[c] /\ rs[g[c]] = rows[g[c]]
  PROVE  ListInv'
<1>1. PICK new : /\ new = {[cell |-> c, link |-> rs[g[c]], no |-> started + 1] : c \in cs}
                 /\ loads' = loads \cup new
  BY DEF Give, Asked
<1>2. /\ given' = g /\ started' = started + 1 /\ image' = image
      /\ causes' = [c \in Cell |-> IF c \in cs THEN {} ELSE causes[c]]
  BY DEF Give
<1>3. ASSUME NEW c \in cs PROVE rs[g[c]] \in Nat
  <2>1. g[c] \in DOMAIN rs
    OBVIOUS
  <2> QED  BY <2>1
<1>4. new \subseteq [cell : Cell, link : Nat, no : Nat]
  <2>1. started + 1 \in Nat
    BY DEF ListInv, ListTypeOK
  <2> QED  BY <1>1, <1>3, <2>1
<1>5. ListTypeOK'
  <2>1. started' \in Nat
    BY <1>2 DEF ListInv, ListTypeOK
  <2>2. causes' \in [Cell -> SUBSET {"overtaken", "unserved"}]
    BY <1>2 DEF ListInv, ListTypeOK
  <2> QED  BY <1>1, <1>2, <1>4, <2>1, <2>2 DEF ListInv, ListTypeOK
<1>6. ASSUME NEW c \in Cell, given'[c] # None
      PROVE  image'[c] = rows'[given'[c]] \/ causes'[c] # {} \/ Loading(c)'
  <2>1. CASE c \in cs
    <3>1. PICK l : l = [cell |-> c, link |-> rs[g[c]], no |-> started + 1]
      OBVIOUS
    <3>2. l \in loads' /\ l.cell = c /\ l.link = rows'[given'[c]]
      BY <1>1, <1>2, <2>1, <3>1
    <3> QED  BY <3>2 DEF Loading
  <2>2. CASE c \notin cs
    <3>1. /\ given[c] # None /\ given'[c] = given[c] /\ causes'[c] = causes[c]
          /\ rows'[given'[c]] = rows[given[c]]
      BY <1>2, <1>6, <2>2
    <3>2. loads \subseteq loads'
      BY <1>1
    <3> QED  BY <1>2, <3>1, <3>2 DEF ListInv, CellInv, Loading
  <2> QED  BY <2>1, <2>2
<1> QED  BY <1>5, <1>6 DEF ListInv, CellInv

LEMMA RowAddedKeeps == ListInv /\ RowAdded /\ UNCHANGED recorded => ListInv'
<1> SUFFICES ASSUME ListInv, RowAdded, UNCHANGED recorded PROVE ListInv'
  OBVIOUS
<1>1. PICK l \in RowLinks : \E g \in [Cell -> Visible(Len(Append(rows, l)), top) \cup {None}] :
        /\ rows' = Append(rows, l)
        /\ Give(Append(rows, l), g, {c \in Cell : g[c] # None})
  BY DEF RowAdded
<1>a. PICK rs : rs = Append(rows, l)
  OBVIOUS
<1>2. PICK g \in [Cell -> Visible(Len(rs), top) \cup {None}] :
        rows' = rs /\ Give(rs, g, {c \in Cell : g[c] # None})
  BY <1>1, <1>a
<1>3. l \in Nat /\ rows \in Seq(Nat)
  <2>1. rows \in Seq(Nat) /\ recorded \subseteq Nat /\ Picked \in Nat
    BY AvatarAssumption DEF ListInv, ListTypeOK, Picked
  <2> QED  BY <2>1 DEF RowLinks
<1>4. rs \in Seq(Nat)
  BY <1>a, <1>3
<1>5. Visible(Len(rs), top) \subseteq DOMAIN rs
  BY <1>4 DEF Visible
<1>6. g \in [Cell -> Nat] /\ \A c \in Cell : g[c] # None => g[c] \in DOMAIN rs
  <2>1. ASSUME NEW c \in Cell PROVE g[c] \in Nat /\ (g[c] # None => g[c] \in DOMAIN rs)
    <3>1. g[c] \in DOMAIN rs \cup {None}
      BY <1>2, <1>5
    <3> QED  BY <1>4, <3>1 DEF None
  <2> QED  BY <2>1
<1>7. top' \in Nat \ {0}
  BY DEF RowAdded, ListInv, ListTypeOK
<1>8. PICK cs \in SUBSET Cell : cs = {c \in Cell : g[c] # None}
  OBVIOUS
<1>9. Give(rs, g, cs)
  BY <1>2, <1>8
<1>10. (\A c \in cs : g[c] # None) /\ (\A c \in Cell \ cs : ~ (g[c] # None))
  BY <1>8
<1> QED  BY <1>2, <1>4, <1>6, <1>7, <1>9, <1>10, GiveKeeps

LEMMA ScrollKeeps == ListInv /\ Scroll /\ UNCHANGED recorded => ListInv'
<1> SUFFICES ASSUME ListInv, Scroll, UNCHANGED recorded PROVE ListInv'
  OBVIOUS
<1>1. PICK t \in {top - 1, top + 1} :
        /\ t >= 1 /\ t + Cardinality(Cell) - 1 <= Len(rows) /\ top' = t
        /\ LET comes == CHOOSE i \in Visible(Len(rows), t) : i \notin Visible(Len(rows), top) IN
           \E c \in Cell : Give(rows, [given EXCEPT ![c] = comes], {c})
  BY DEF Scroll
<1>a. PICK comes :
        comes = CHOOSE i \in Visible(Len(rows), t) : i \notin Visible(Len(rows), top)
  OBVIOUS
<1>2. PICK c \in Cell : Give(rows, [given EXCEPT ![c] = comes], {c})
  BY <1>1, <1>a
<1>3. /\ rows \in Seq(Nat) /\ Len(rows) \in Nat /\ top \in Nat \ {0} /\ t \in Nat \ {0}
      /\ UNCHANGED rows
  BY <1>1 DEF ListInv, ListTypeOK, Scroll
<1>4. PICK n : n = Cardinality(Cell) /\ n \in Nat \ {0}
  BY CellCount, ListAssumption, FS_EmptySet
<1>5. \E i \in Visible(Len(rows), t) : i \notin Visible(Len(rows), top)
  <2>1. CASE t = top + 1
    <3>1. t + n - 1 \in Visible(Len(rows), t) /\ t + n - 1 \notin Visible(Len(rows), top)
      BY <1>1, <1>3, <1>4, <2>1 DEF Visible
    <3> QED  BY <3>1
  <2>2. CASE t = top - 1
    <3>1. t \in 1 .. Len(rows) /\ t < t + n /\ ~ (t >= top)
      BY <1>1, <1>3, <1>4, <2>2
    <3>2. t \in Visible(Len(rows), t) /\ t \notin Visible(Len(rows), top)
      BY <1>4, <3>1 DEF Visible
    <3> QED  BY <3>2
  <2> QED  BY <1>1, <2>1, <2>2
<1>6. comes \in Visible(Len(rows), t)
  BY <1>a, <1>5
<1>7. comes \in Nat \ {0} /\ comes \in DOMAIN rows
  BY <1>3, <1>6 DEF Visible
<1>8. PICK g : g = [given EXCEPT ![c] = comes]
  OBVIOUS
<1>9. /\ g \in [Cell -> Nat] /\ g[c] = comes
      /\ \A e \in Cell \ {c} : g[e] = given[e]
      /\ \A e \in Cell : g[e] # None => g[e] \in DOMAIN rows
  BY <1>7, <1>8 DEF ListInv, ListTypeOK
<1>10. g[c] # None
  BY <1>7, <1>9 DEF None
<1>11. PICK cs \in SUBSET Cell : cs = {c}
  OBVIOUS
<1>12. Give(rows, g, cs) /\ rows' = rows /\ top' \in Nat \ {0}
  BY <1>1, <1>2, <1>3, <1>8, <1>11
<1>13. /\ \A e \in cs : g[e] # None
       /\ \A e \in Cell \ cs : given[e] = g[e] /\ rows[g[e]] = rows[g[e]]
  BY <1>9, <1>10, <1>11
<1> QED  BY <1>3, <1>9, <1>12, <1>13, GiveKeeps

(* A download that ends is that of the row, which is then shown unless it  *)
(* was not served; or it is that of another, which leaves the row's own    *)
(* under way or is the reason for what is shown.                           *)
LEMMA LoadKeeps == ListInv /\ Ends /\ UNCHANGED recorded => ListInv'
<1> SUFFICES ASSUME ListInv, NEW l \in loads, LoadEnds(l), UNCHANGED recorded PROVE ListInv'
  BY DEF Ends
<1>1. PICK b : b = l.cell /\ b \in Cell /\ l.link \in Nat
  BY DEF ListInv, ListTypeOK
<1>2. /\ loads' = loads \ {l} /\ UNCHANGED <<rows, top, given, started>>
      /\ image' = IF Reaches(l.link) THEN [image EXCEPT ![b] = l.link] ELSE image
  BY <1>1 DEF LoadEnds
<1>3. causes' = [causes EXCEPT ![b] = @ \cup
        (IF ~ (l.link = rows[given[b]]) /\ image[b] = rows[given[b]] THEN {"overtaken"} ELSE {}) \cup
        (IF l.link = rows[given[b]] /\ ~ Reaches(l.link) THEN {"unserved"} ELSE {})]
  BY <1>1 DEF LoadEnds
<1>4. ListTypeOK'
  BY <1>1, <1>2, <1>3 DEF ListInv, ListTypeOK
<1>5. ASSUME NEW c \in Cell, given'[c] # None
      PROVE  image'[c] = rows'[given'[c]] \/ causes'[c] # {} \/ Loading(c)'
  <2>1. image[c] = rows[given[c]] \/ causes[c] # {} \/ Loading(c)
    BY <1>2, <1>5 DEF ListInv, CellInv
  <2>2. CASE c # b
    <3>1. image'[c] = image[c] /\ causes'[c] = causes[c]
      BY <1>2, <1>3, <2>2 DEF ListInv, ListTypeOK
    <3> QED  BY <1>1, <1>2, <2>1, <2>2, <3>1 DEF Loading
  <2>3. CASE c = b /\ l.link = rows[given[b]]
    <3>1. CASE Reaches(l.link)
      <4>1. image'[c] = l.link
        BY <1>2, <2>3, <3>1 DEF ListInv, ListTypeOK
      <4> QED  BY <1>2, <2>3, <4>1
    <3>2. CASE ~ Reaches(l.link)
      <4>1. "unserved" \in causes'[c]
        BY <1>3, <2>3, <3>2 DEF ListInv, ListTypeOK
      <4> QED  BY <4>1
    <3> QED  BY <3>1, <3>2
  <2>4. CASE c = b /\ l.link # rows[given[b]]
    <3>1. causes[c] \subseteq causes'[c]
      BY <1>3, <2>4 DEF ListInv, ListTypeOK
    <3>2. image[c] = rows[given[c]] => "overtaken" \in causes'[c]
      BY <1>3, <2>4 DEF ListInv, ListTypeOK
    <3>3. Loading(c) => Loading(c)'
      BY <1>2, <2>4 DEF Loading
    <3> QED  BY <2>1, <3>1, <3>2, <3>3
  <2> QED  BY <2>2, <2>3, <2>4
<1> QED  BY <1>4, <1>5 DEF ListInv, CellInv

LEMMA InitList == ListInit => ListInv
<1> SUFFICES ASSUME ListInit PROVE ListInv
  OBVIOUS
<1>2. recorded \subseteq Nat
  BY DEF ListInit, Init
<1>1. rows = <<>> /\ <<>> \in Seq(Nat) /\ None \in Nat
  BY DEF ListInit, None
<1> QED  BY <1>1, <1>2 DEF ListInit, ListInv, ListTypeOK, CellInv

(* A cell that nothing is being fetched for shows the image of its row,    *)
(* unless the download for another row has overtaken that of its own, or   *)
(* the link of the row was no longer served.                               *)
THEOREM ImagesHaveCauses == ListSpec => []ImageCauses
<1>1. TypeOK' /\ ListInv /\ [ListNext]_allVars => ListInv'
  <2> SUFFICES ASSUME TypeOK', ListInv, [ListNext]_allVars PROVE ListInv'
    OBVIOUS
  <2>1. CASE UNCHANGED listVars /\ recorded' \in {recorded, recorded \cup {record'}}
    <3>1. record' \in Nat
      BY DEF TypeOK, Upload
    <3>2. recorded' \subseteq Nat
      BY <2>1, <3>1 DEF ListInv, ListTypeOK
    <3> QED  BY <2>1, <3>2 DEF listVars, ListInv, ListTypeOK, CellInv, Loading
  <2> QED  BY <2>1, RowAddedKeeps, ScrollKeeps, LoadKeeps DEF ListNext, allVars
<1>2. ListInv => ImageCauses
  BY DEF ListInv, CellInv, Loading, ImageCauses
<1>3. ListSpec => []TypeOK
  BY ListKeepsSpec, AvatarTypeCorrect, PTL
<1> QED  BY <1>1, <1>2, <1>3, InitList, PTL DEF ListSpec
=============================================================================
