-------------------------- MODULE AvatarProperties --------------------------
(***************************************************************************)
(* What can be relied on when an avatar is changed.                        *)
(***************************************************************************)
EXTENDS AvatarUpdate

(* Every variable has its type; no link but that of an upload is written. *)
TypeOK ==
  /\ object \in Image /\ uploads \in Upload /\ record \in Upload
  /\ writes \in [Device -> Seq(Upload)] /\ reads \in [Device -> Seq(Upload)]
  /\ profile \in [Device -> [link : Image, image : Image]]
  /\ picture \in [Device -> Image \cup {Picked}] /\ url \in [Device -> Image]
  /\ pc \in [Device -> Stage] /\ launches \in Nat /\ slips \subseteq Slip

(* The deletion is a lock: of all devices at most one is about to upload,  *)
(* and no image is there that it would replace without deleting it.        *)
OneUploader ==
  \A d \in Device : pc[d] = "uploading" =>
    object = None /\ \A e \in Device \ {d} : pc[e] # "uploading"

(* When nobody is changing the avatar, the link in the record is served,   *)
(* unless a change ended between its deletion and its upload, or between   *)
(* its upload and the record, or overlapped with another or with an update *)
(* of the details on another device, or such an update was made on a       *)
(* device that has not seen the last change, which nothing tells it of.    *)
DeadLinkCauses ==
  (\A d \in Device : ~ Changing(d) /\ writes[d] = <<>>) =>
    Present(record) \/ slips \cap {"noUpload", "noRecord", "overlap", "stale"} # {}

(* "Cập nhật thành công": at the moment it is announced, the link of the   *)
(* image on the screen is in the record or on its way there, unless the    *)
(* change overlapped with another, or with an update of the details on     *)
(* another device, or the server has rejected a link.  An update made out  *)
(* of date before the change does it no harm.                              *)
SuccessIsRecorded ==
  [][\A d \in Device : pc[d] # "success" /\ pc'[d] = "success" =>
       \/ record' = picture'[d]
       \/ writes'[d] # <<>> /\ writes'[d][Len(writes'[d])] = picture'[d]
       \/ slips \cap {"noRecord", "overlap"} # {}]_vars

(* An object that was deleted and not replaced is never replaced, by any   *)
(* device, over any number of changes and launches: each asks for its      *)
(* deletion first, is refused, and gets no further.                        *)
Lost == object = None /\ \A d \in Device : pc[d] # "uploading"

GoneForGood == [][Lost => Lost']_vars

(* The spinner goes away, for an alert, the details screen or the end of   *)
(* the process, unless something has failed or two devices met.            *)
SpinnerEnds ==
  \A d \in Device : pc[d] \in Spinner ~> pc[d] \notin Spinner \/ slips # {}
=============================================================================
