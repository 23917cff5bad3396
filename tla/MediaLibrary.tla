----------------------------- MODULE MediaLibrary -----------------------------
(***************************************************************************)
(* The media page and the upload of media.  The API has two steps: presign *)
(* hands out a URL to put one object to the store with, and finalize adds  *)
(* a row to the library (media.controller.ts, storage.service.ts); finalize *)
(* asks neither the store nor the library about the key.  The page's own   *)
(* upload zone (upload-zone.tsx) takes neither: it shows the progress of a  *)
(* timer.  So the two share only the role of the user.  Keys are random    *)
(* and do not meet; one stands for all.                                    *)
(***************************************************************************)
EXTENDS Permissions, FiniteSets

CONSTANTS Files,
          Keys,
          Done,            \* progress of 100%, scaled
          MaxRows          \* bound: rows of one key

ASSUME MediaLibraryAssumption ==
  IsFiniteSet(Files) /\ Done \in Nat \ {0} /\ MaxRows \in Nat

VARIABLES
  viewer,  \* role of the signed-in user; "none": nobody is
  items,   \* the zone: progress of each file, or Absent_
  hover,
  url,     \* each key: "none", "valid", "expired"
  object,  \* keys the store has an object of
  asset,   \* each key: rows of the library
  upload,  \* each key: where its uploader is
  (* History. *)
  again    \* keys finalized a second time, for an answer that was lost

medias == <<viewer, items, hover, url, object, asset, upload, again>>

Absent_ == Done + 1

MediasInit ==
  /\ viewer \in Role \cup {"none"}
  /\ items = [f \in Files |-> Absent_] /\ hover = FALSE
  /\ url = [k \in Keys |-> "none"] /\ object = {}
  /\ asset = [k \in Keys |-> 0] /\ upload = [k \in Keys |-> "idle"] /\ again = {}

-----------------------------------------------------------------------------
(* The zone *)

Zone == UNCHANGED <<viewer, url, object, asset, upload, again>>

canUpload == can(effectiveRole(viewer), "upload")

\* Dropped, chosen, or the demonstration: one file, or several at once.
addFiles(files) ==
  /\ canUpload /\ files # {} /\ \A f \in files : items[f] = Absent_
  /\ items' = [f \in Files |-> IF f \in files THEN 0 ELSE items[f]]
  /\ hover' = FALSE
  /\ Zone

onDrag == /\ hover' = ~hover /\ (hover' => canUpload)
          /\ UNCHANGED items /\ Zone

Pending == {f \in Files : items[f] < Done}

Stepped(f, by) == IF f \notin Pending THEN items[f] ELSE IF items[f] + by > Done THEN Done ELSE items[f] + by

\* The interval: each unfinished file by a step of its own.
tick_ ==
  /\ Pending # {}
  /\ \E by \in [Files -> 1..2] : items' = [f \in Files |-> Stepped(f, by[f])]
  /\ UNCHANGED hover /\ Zone

remove(f) ==
  /\ items[f] # Absent_ /\ items' = [items EXCEPT ![f] = Absent_]
  /\ UNCHANGED hover /\ Zone

leaveMedias ==
  /\ items' = [f \in Files |-> Absent_] /\ hover' = FALSE
  /\ Zone

-----------------------------------------------------------------------------
(* The API, and an uploader that takes its two steps *)

Api == UNCHANGED <<viewer, items, hover, again>>

\* Refused: another role, a type that is not allowed, more than 5 GB.
presign(k) ==
  /\ upload[k] = "idle" /\ viewer \in Guarded["upload"]
  /\ upload' = [upload EXCEPT ![k] = "presigned"] /\ url' = [url EXCEPT ![k] = "valid"]
  /\ UNCHANGED <<object, asset>> /\ Api

urlExpires(k) ==
  /\ url[k] = "valid" /\ url' = [url EXCEPT ![k] = "expired"]
  /\ UNCHANGED <<object, asset, upload>> /\ Api

put(k) ==
  /\ url[k] = "valid" /\ object' = object \cup {k}
  /\ UNCHANGED <<url, asset, upload>> /\ Api

\* Whether or not an object was put.
finalize(k) ==
  /\ upload[k] = "presigned" /\ asset[k] < MaxRows
  /\ viewer \in Guarded["upload"]
  /\ asset' = [asset EXCEPT ![k] = @ + 1] /\ upload' = [upload EXCEPT ![k] = "registered"]
  /\ UNCHANGED <<url, object>> /\ Api

finalizeHeard(k) ==
  /\ upload[k] = "registered" /\ upload' = [upload EXCEPT ![k] = "ended"]
  /\ UNCHANGED <<url, object, asset>> /\ Api

\* The uploader knows of no row and may try again.
finalizeLost(k) ==
  /\ upload[k] = "registered" /\ upload' = [upload EXCEPT ![k] = "presigned"]
  /\ again' = again \cup {k}
  /\ UNCHANGED <<viewer, items, hover, url, object, asset>>

MediasNext ==
  \/ tick_ \/ onDrag \/ leaveMedias
  \/ \E files \in SUBSET Files : addFiles(files)
  \/ \E f \in Files : remove(f)
  \/ \E k \in Keys :
       \/ presign(k) \/ urlExpires(k) \/ put(k)
       \/ finalize(k) \/ finalizeHeard(k) \/ finalizeLost(k)

-----------------------------------------------------------------------------
MediasTypeOK ==
  /\ viewer \in Role \cup {"none"} /\ items \in [Files -> 0..Absent_] /\ hover \in BOOLEAN
  /\ url \in [Keys -> {"none", "valid", "expired"}] /\ object \subseteq Keys
  /\ asset \in [Keys -> 0..MaxRows]
  /\ upload \in [Keys -> {"idle", "presigned", "registered", "ended"}] /\ again \subseteq Keys

\* The client offers a person exactly what the API lets the person's role do,
\* at every permission that has a guarded endpoint (rbac.ts 45-67 against the
\* controllers' @Roles and @ExactRoles and workflows.service.ts 43-56): not so
\* when nobody is signed in, or for the automation, which are shown what the
\* mock user may do.  And an uploader whose answers all arrived has one row of
\* its object in the library, no more and no less (media.controller.ts 92-119).
MediaIsTrue ==
  /\ viewer \in allRoles =>
       \A p \in DOMAIN Offered : can(effectiveRole(viewer), p) <=> viewer \in Guarded[p]
  /\ \A k \in Keys \ again :
       asset[k] = IF upload[k] \in {"registered", "ended"} THEN 1 ELSE 0
=============================================================================
