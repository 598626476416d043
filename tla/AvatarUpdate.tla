---------------------------- MODULE AvatarUpdate ----------------------------
(***************************************************************************)
(* The change of a student's avatar (DetailInfoController, btn_Camera and  *)
(* the image picker), on any number of devices signed in as that student,  *)
(* with the splash screen that reads the avatar at the next launch, and    *)
(* the other writer of the link: an update of the details, which writes    *)
(* the whole record with whatever link the device's own profile has.       *)
(*                                                                         *)
(* The image is one object of the storage, named after the email.  Every   *)
(* upload gives the object a new link, and a link is served as long as the *)
(* object is that of its upload: links and images are numbered by upload.  *)
(* To delete the object, only the name in the link is used.                *)
(*                                                                         *)
(* A request is executed, its answer arrives and its completion runs in    *)
(* one step: a completion changes only what is the device's own, behind a  *)
(* spinner that takes no touches, and makes the next request.              *)
(***************************************************************************)
EXTENDS Naturals, Sequences, FiniteSets

CONSTANTS Device,      \* the devices signed in as the student
          Fails,       \* the requests that may fail without a cause
          MaxUploads,  \* bound: uploads
          MaxLaunches, \* bound: processes started
          MaxUpdates   \* bound: updates of a device not yet read back or stored

ASSUME AvatarAssumption ==
  /\ Fails \subseteq {"delete", "upload", "url", "commit", "write", "read"}
  /\ IsFiniteSet(Device) /\ MaxUploads \in Nat \ {0} /\ MaxLaunches \in Nat
  /\ MaxUpdates \in Nat

VARIABLES object,    \* the upload whose image the storage has
          uploads,   \* uploads so far
          record,    \* linkAvatar of the student's record at the server
          writes,    \* per device, the links written and not acknowledged
          reads,     \* per device, the links of updates not yet read back
          profile,   \* per device, the global currentUser: its link and image
          picture,   \* per device, the image on the details screen
          url,       \* per device, the answer of downloadURL
          pc,        \* per device, what the user waits for
          launches,  \* processes started so far
          slips      \* history: what has gone wrong so far

serverVars == <<object, uploads, record>>
viewVars   == <<profile, picture>>
vars == <<serverVars, viewVars, writes, reads, url, pc, launches, slips>>

Upload    == 1 .. MaxUploads
None      == 0                \* no object, no link, and the image "user"
Picked    == MaxUploads + 1   \* an image that was picked and not uploaded
Image     == Upload \cup {None}
Spinner   == {"deleting", "uploading", "fetchingUrl", "committing", "reading", "stuck"}
Stage     == Spinner \cup {"off", "splash", "blank", "details", "confirm", "success",
                        "updated"}
Slip      == {"noUpload", "noRecord", "overlap", "stale", "refused", "unread"}

(* What each slip stands for: the object deleted and none uploaded; an     *)
(* object uploaded whose link is not recorded; a change at the same time   *)
(* as another, or as an update of the details on another device; an update *)
(* of the details on a device whose profile is out of date; a deletion     *)
(* that fails for no reason; an image that cannot be fetched.              *)
Slips(s) == slips' = slips \cup s

(* A device is in the chain of requests of a change. *)
Changing(d) == pc[d] \in Spinner \ {"stuck"}

(* The link in the record as this device sees it, with its own writes. *)
Seen(d) == IF writes[d] = <<>> THEN record ELSE writes[d][Len(writes[d])]

Goes(d, stage) == pc' = [pc EXCEPT ![d] = stage]

Present(l) == l # None /\ l = object

Nobody == [link |-> None, image |-> None]

(* The process ends, with the writes that were not yet accepted. *)
Dies(d) ==
  /\ Goes(d, "off")
  /\ writes' = [writes EXCEPT ![d] = <<>>] /\ reads' = [reads EXCEPT ![d] = <<>>]
  /\ profile' = [profile EXCEPT ![d] = Nobody]
  /\ picture' = [picture EXCEPT ![d] = None]
  /\ url' = [url EXCEPT ![d] = None]
  /\ Slips((IF pc[d] = "uploading" THEN {"noUpload"} ELSE {}) \cup
           (IF pc[d] \in {"fetchingUrl", "committing"} \/ Seen(d) # record
            THEN {"noRecord"} ELSE {}))

Kill(d) ==
  /\ pc[d] # "off"
  /\ Dies(d)
  /\ UNCHANGED <<serverVars, launches>>

Launch(d) ==
  /\ pc[d] = "off" /\ launches < MaxLaunches /\ launches' = launches + 1
  /\ Goes(d, "splash")
  /\ UNCHANGED <<serverVars, viewVars, writes, reads, url, slips>>

(* The splash screen fetches the image of the link in the record, and is   *)
(* left only with it.                                                      *)
SplashRead(d) ==
  /\ pc[d] = "splash"
  /\ \/ /\ Present(record)
        /\ profile' = [profile EXCEPT ![d] = [link |-> record, image |-> record]]
        /\ picture' = [picture EXCEPT ![d] = record]
        /\ Goes(d, "details") /\ UNCHANGED slips
     \/ /\ ~ Present(record) \/ "read" \in Fails
        /\ profile' = [profile EXCEPT ![d] = [link |-> record, image |-> None]]
        /\ Goes(d, "blank") /\ UNCHANGED picture
        /\ Slips(IF Present(record) THEN {"unread"} ELSE {})
  /\ UNCHANGED <<serverVars, writes, reads, url, launches>>

-----------------------------------------------------------------------------
(* The taps of the user. *)

(* The bound leaves an upload to every change that has begun. *)
Pick(d) ==
  /\ pc[d] = "details"
  /\ uploads + Cardinality({e \in Device : pc[e] \in {"confirm", "deleting", "uploading"}})
       < MaxUploads
  /\ picture' = [picture EXCEPT ![d] = Picked]
  /\ Goes(d, "confirm")
  /\ UNCHANGED <<serverVars, profile, writes, reads, url, launches, slips>>

Cancel(d) ==
  /\ pc[d] = "confirm" /\ Goes(d, "details")
  /\ picture' = [picture EXCEPT ![d] = profile[d].image]
  /\ UNCHANGED <<serverVars, profile, writes, reads, url, launches, slips>>

Ok(d) ==
  /\ pc[d] = "confirm" /\ Goes(d, "deleting")
  /\ Slips(IF \E e \in Device \ {d} : Changing(e) \/ writes[e] # <<>>
           THEN {"overlap"} ELSE {})
  /\ UNCHANGED <<serverVars, viewVars, writes, reads, url, launches>>

DismissSuccess(d) ==
  /\ pc[d] = "success" /\ Goes(d, "details")
  /\ UNCHANGED <<serverVars, viewVars, writes, reads, url, launches, slips>>

(* The details screen is left and opened again. *)
Reopen(d) ==
  /\ pc[d] = "details"
  /\ picture' = [picture EXCEPT ![d] = profile[d].image]
  /\ UNCHANGED <<serverVars, profile, writes, reads, url, pc, launches, slips>>

-----------------------------------------------------------------------------
(* The chain of requests. *)

Deleted(d) ==
  /\ pc[d] = "deleting" /\ object # None
  /\ object' = None /\ Goes(d, "uploading")
  /\ UNCHANGED <<uploads, record, viewVars, writes, reads, url, launches, slips>>

(* With a bug: the error of the deletion is ignored. *)
UploadsAnyway(d) ==
  /\ pc[d] = "deleting" /\ object = None /\ Goes(d, "uploading")
  /\ UNCHANGED <<serverVars, viewVars, writes, reads, url, launches, slips>>

(* There is nothing to delete, or the request fails, or its answer is lost *)
(* and it is refused when it is repeated.  The error is printed, and the   *)
(* spinner stays.                                                          *)
DeleteRefused(d) ==
  /\ pc[d] = "deleting" /\ Goes(d, "stuck")
  /\ \/ object = None /\ UNCHANGED <<object, slips>>
     \/ /\ "delete" \in Fails /\ object # None
        /\ object' \in {object, None}
        /\ Slips({"refused"} \cup IF object' = None THEN {"noUpload"} ELSE {})
  /\ UNCHANGED <<uploads, record, viewVars, writes, reads, url, launches>>

Uploaded(d) ==
  /\ pc[d] = "uploading" /\ Goes(d, "fetchingUrl")
  /\ uploads' = uploads + 1 /\ object' = uploads'
  /\ UNCHANGED <<record, viewVars, writes, reads, url, launches, slips>>

(* With a bug: the spinner is not dismissed. *)
UploadFailedSilently(d) ==
  /\ pc[d] = "uploading" /\ "upload" \in Fails /\ Goes(d, "stuck")
  /\ UNCHANGED <<serverVars, viewVars, writes, reads, url, launches, slips>>

(* The image may have been stored all the same. *)
UploadFailed(d) ==
  /\ pc[d] = "uploading" /\ "upload" \in Fails /\ Goes(d, "details")
  /\ \/ Slips({"noUpload"}) /\ UNCHANGED <<object, uploads>>
     \/ Slips({"noRecord"}) /\ uploads' = uploads + 1 /\ object' = uploads'
  /\ UNCHANGED <<record, viewVars, writes, reads, url, launches>>

(* downloadURL asks for the link of whatever object is there now; its      *)
(* error is not looked at.                                                 *)
UrlAnswered(d) ==
  /\ pc[d] = "fetchingUrl" /\ Goes(d, "committing")
  /\ \/ url' = [url EXCEPT ![d] = object]
     \/ "url" \in Fails /\ UNCHANGED url
  /\ UNCHANGED <<serverVars, viewVars, writes, reads, launches, slips>>

CommitFailed(d) ==
  /\ pc[d] = "committing" /\ "commit" \in Fails /\ Goes(d, "details")
  /\ url' = [url EXCEPT ![d] = None]
  /\ Slips({"noRecord"})
  /\ UNCHANGED <<serverVars, viewVars, writes, reads, launches>>

(* url! traps. *)
CommitTraps(d) ==
  /\ pc[d] = "committing" /\ url[d] = None
  /\ Dies(d)
  /\ UNCHANGED <<serverVars, launches>>

(* With a bug: the link that is written is the one of the profile. *)
CommittedOldLink(d) ==
  /\ pc[d] = "committing" /\ url[d] # None /\ Goes(d, "reading")
  /\ writes' = [writes EXCEPT ![d] = Append(@, profile[d].link)]
  /\ profile' = [profile EXCEPT ![d] = [link |-> url[d], image |-> None]]
  /\ url' = [url EXCEPT ![d] = None]
  /\ UNCHANGED <<serverVars, reads, picture, launches, slips>>

(* With a bug: a link that is nil is written too. *)
CommittedUnchecked(d) ==
  /\ pc[d] = "committing" /\ Goes(d, "reading")
  /\ writes' = [writes EXCEPT ![d] = Append(@, url[d])]
  /\ profile' = [profile EXCEPT ![d] = [link |-> url[d], image |-> None]]
  /\ url' = [url EXCEPT ![d] = None]
  /\ UNCHANGED <<serverVars, reads, picture, launches, slips>>

(* The link is written to the record, without a completion, and the        *)
(* profile is made anew, with the default image.                           *)
Committed(d) ==
  /\ pc[d] = "committing" /\ url[d] # None /\ Goes(d, "reading")
  /\ writes' = [writes EXCEPT ![d] = Append(@, url[d])]
  /\ profile' = [profile EXCEPT ![d] = [link |-> url[d], image |-> None]]
  /\ url' = [url EXCEPT ![d] = None]
  /\ UNCHANGED <<serverVars, reads, picture, launches, slips>>

(* The image is fetched back.  Success is announced only with it; without  *)
(* it the spinner stays.  The controls are filled in either case.          *)
Read(d) ==
  /\ pc[d] = "reading"
  /\ \/ /\ Present(profile[d].link)
        /\ profile' = [profile EXCEPT ![d].image = profile[d].link]
        /\ Goes(d, "success") /\ UNCHANGED slips
     \/ /\ ~ Present(profile[d].link) \/ "read" \in Fails
        /\ Goes(d, "stuck") /\ UNCHANGED profile
        /\ Slips(IF Present(profile[d].link) THEN {"unread"} ELSE {})
  /\ picture' = [picture EXCEPT ![d] = profile'[d].image]
  /\ UNCHANGED <<serverVars, writes, reads, url, launches>>

-----------------------------------------------------------------------------
(* An update of the details, whose handler is modelled in DetailForm.  Of  *)
(* the record it writes, only the link matters here: it is the one of the  *)
(* profile.  The image view is reset, and success announced.               *)
UpdateDetails(d) ==
  /\ pc[d] = "details" /\ Goes(d, "updated")
  /\ Len(writes[d]) < MaxUpdates /\ Len(reads[d]) < MaxUpdates
  /\ writes' = [writes EXCEPT ![d] = Append(@, profile[d].link)]
  /\ reads' = [reads EXCEPT ![d] = Append(@, profile[d].link)]
  /\ picture' = [picture EXCEPT ![d] = profile[d].image]
  /\ Slips((IF \E e \in Device \ {d} :
                 Changing(e) \/ \E i \in DOMAIN writes[e] : writes[e][i] # profile[d].link
            THEN {"overlap"} ELSE {}) \cup
           (IF profile[d].link # Seen(d) THEN {"stale"} ELSE {}))
  /\ UNCHANGED <<serverVars, profile, url, launches>>

DismissUpdated(d) ==
  /\ pc[d] = "updated" /\ Goes(d, "details")
  /\ picture' = [picture EXCEPT ![d] = profile[d].image]
  /\ UNCHANGED <<serverVars, profile, writes, reads, url, launches, slips>>

(* The observer of the update reads the record back, as the device sees it *)
(* when it is written, and fetches its image.  It runs between any two     *)
(* blocks of the main thread: Committed and Read are one.                  *)
ReadBack(d) ==
  /\ reads[d] # <<>> /\ pc[d] # "reading"
  /\ reads' = [reads EXCEPT ![d] = Tail(@)]
  /\ LET l == Head(reads[d]) IN
     \/ /\ Present(l)
        /\ profile' = [profile EXCEPT ![d] = [link |-> l, image |-> l]]
        /\ UNCHANGED slips
     \/ /\ ~ Present(l) \/ "read" \in Fails
        /\ profile' = [profile EXCEPT ![d] = [link |-> l, image |-> None]]
        /\ Slips(IF Present(l) THEN {"unread"} ELSE {})
  /\ UNCHANGED <<serverVars, picture, writes, url, pc, launches>>

(* The server stores the oldest link a device has written, or rejects it.  *)
Accept(d) ==
  /\ writes[d] # <<>>
  /\ record' = Head(writes[d])
  /\ writes' = [writes EXCEPT ![d] = Tail(@)]
  /\ UNCHANGED <<object, uploads, viewVars, reads, url, pc, launches, slips>>

Reject(d) ==
  /\ writes[d] # <<>> /\ "write" \in Fails
  /\ writes' = [writes EXCEPT ![d] = Tail(@)]
  /\ Slips(IF Head(writes[d]) # record THEN {"noRecord"} ELSE {})
  /\ UNCHANGED <<serverVars, viewVars, reads, url, pc, launches>>

-----------------------------------------------------------------------------
(* The registration has uploaded a first image and recorded its link. *)
Init ==
  /\ object = 1 /\ uploads = 1 /\ record = 1 /\ launches = 0 /\ slips = {}
  /\ writes = [d \in Device |-> <<>>] /\ reads = [d \in Device |-> <<>>]
  /\ profile = [d \in Device |-> Nobody]
  /\ picture = [d \in Device |-> None] /\ url = [d \in Device |-> None]
  /\ pc = [d \in Device |-> "off"]

(* What the storage, the account service and the splash screen do. *)
Answer(d) ==
  \/ SplashRead(d)
  \/ Deleted(d) \/ DeleteRefused(d) \/ Uploaded(d) \/ UploadFailed(d) \/ UrlAnswered(d)
  \/ CommitFailed(d) \/ CommitTraps(d) \/ Committed(d) \/ Read(d)

Stores(d) == Accept(d) \/ Reject(d)

Taps(d) == Pick(d) \/ Cancel(d) \/ Ok(d) \/ DismissSuccess(d) \/ Reopen(d)
           \/ UpdateDetails(d) \/ DismissUpdated(d)

Next == \E d \in Device : Launch(d) \/ Kill(d) \/ Taps(d) \/ Answer(d) \/ Stores(d)
                           \/ ReadBack(d)

Spec == Init /\ [][Next]_vars

(* Every request is answered in the end, by a failure at the latest. *)
Fairness == \A d \in Device : WF_vars(Answer(d)) /\ WF_vars(Stores(d))

FairSpec == Spec /\ Fairness
=============================================================================
