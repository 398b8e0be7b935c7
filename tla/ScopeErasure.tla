---------------------------- MODULE ScopeErasure ----------------------------
(***************************************************************************)
(* Erasing the scope of a contact: its texts and its images; the           *)
(* upload of an image as two objects, the original and the copy a provider *)
(* is shown; the cleanup that deletes the files of expired and unwanted    *)
(* objects under a lease; and the erasure request, which the worker takes  *)
(* up again and again until nothing is left.                               *)
(*                                                                         *)
(* A file is written and removed under the lock of the file store, after a *)
(* look at the markers of erased objects.  The texts of the scope are its   *)
(* messages and what was derived from them; the work that derives reads    *)
(* them in one transaction and writes its result in another.  The exports  *)
(* and the budgets of the scope are done or not yet.  A fencing token is   *)
(* told by who took the last lease.  The whole account is erased by the    *)
(* same steps; it has one more marker, for all of its objects.             *)
(***************************************************************************)
EXTENDS Integers, FiniteSets

CONSTANTS Images,           \* images of the scope that is erased
          Reapers,          \* cleanups, in the app and beside it
          MaxMediaMishaps   \* bound: crashes, failed deletions, unknown commits, late leases

MediaObject == Images \X {"original", "copy"}
Original(i) == <<i, "original">>
Copy(i) == <<i, "copy">>
TextKind == {"message", "derived"}
Nobody == "nobody"

VARIABLES request,      \* state of the erasure request
          checked,      \* the inventory of files was recorded
          settled,      \* exports and budgets of the scope are done
          object,       \* rows of media_objects
          files,        \* objects whose file is there
          remnants,     \* objects of which an unfinished file is there
          markers,      \* objects that must not be written any more
          upload,       \* image -> where its upload is
          attached,     \* images whose message shows the copy
          inContext,      \* images in the context of a model run under way
          texts,        \* kinds of texts of which a row has a payload
          deriving,     \* something is being derived from the messages
          reaper,       \* cleanup -> what it is doing
          mediaMishaps

erasureVars == <<request, checked, settled, object, files, remnants, markers, upload,
                 attached, inContext, texts, deriving, reaper, mediaMishaps>>
fileVars == <<files, remnants, markers>>
requestVars == <<request, checked, settled>>
messageVars == <<attached, inContext, texts, deriving>>
textVars == <<texts, deriving>>

NoObject == [state |-> "none", asked |-> FALSE, due |-> FALSE, by |-> Nobody]
Unleased == [step |-> "idle", leases |-> {}]

ErasureTypeOK ==
    /\ request \in {"none", "requested", "media_cleanup", "derived_cleanup", "completed"}
    /\ checked \in BOOLEAN /\ settled \in BOOLEAN
    /\ object \in [MediaObject -> [state : {"none", "pending", "ready", "rejected",
                                            "delete_pending", "failed", "deleted"},
                                   asked : BOOLEAN, due : BOOLEAN, by : Reapers \cup {Nobody}]]
    /\ files \subseteq MediaObject /\ remnants \subseteq MediaObject
    /\ markers \subseteq MediaObject
    /\ upload \in [Images -> {"waiting", "original", "original stored", "original unwanted", "between",
                             "copy", "copy stored", "copy unwanted", "over"}]
    /\ attached \subseteq Images /\ inContext \subseteq Images
    /\ texts \subseteq TextKind /\ deriving \in BOOLEAN
    /\ \A r \in Reapers :
        /\ reaper[r].step \in {"idle", "erasing", "erased", "kept", "verifying", "recording"}
        /\ reaper[r].leases \subseteq MediaObject
    /\ mediaMishaps \in 0..MaxMediaMishaps

ErasureInit ==
    /\ request = "none" /\ checked = FALSE /\ settled = FALSE
    /\ object = [o \in MediaObject |-> NoObject]
    /\ files = {} /\ remnants = {} /\ markers = {}
    /\ upload = [i \in Images |-> "waiting"]
    /\ attached = {} /\ inContext = {} /\ texts = {} /\ deriving = FALSE
    /\ reaper = [r \in Reapers |-> Unleased]
    /\ mediaMishaps = 0

There(o) == object[o].state \notin {"none", "deleted"}
MediaMishap == mediaMishaps < MaxMediaMishaps /\ mediaMishaps' = mediaMishaps + 1

\* the triggers refuse new objects, and objects that become ready, once the request is there
Closed == request # "none"

-----------------------------------------------------------------------------
(* The upload of an image *)

\* the objects an upload has made are pending until their file is there
Reject(rows, o) == IF rows[o].state = "pending" THEN [rows EXCEPT ![o].state = "rejected"] ELSE rows

\* an original that no message will show is expired at once
Expire(rows, o) == IF rows[o].state = "ready" THEN [rows EXCEPT ![o].due = TRUE] ELSE rows

AbandonUpload(i) ==
    LET o == IF upload[i] \in {"original", "original unwanted"} THEN Original(i) ELSE Copy(i) IN
    /\ object' = Expire(Reject(object, o), Original(i))
    /\ upload' = [upload EXCEPT ![i] = "over"]

CreateOriginal(i) ==
    /\ upload[i] = "waiting"
    /\ IF Closed
       THEN upload' = [upload EXCEPT ![i] = "over"] /\ UNCHANGED object
       ELSE /\ upload' = [upload EXCEPT ![i] = "original"]
            /\ object' = [object EXCEPT ![Original(i)].state = "pending"]
    /\ UNCHANGED <<requestVars, fileVars, messageVars, reaper, mediaMishaps>>

\* whatever was erased
MayWriteAlways(o) == TRUE

\* the object was not erased
MayWrite(o) == o \notin markers

\* the image is downloaded, checked and written; it may be refused
StoreFile(i) ==
    /\ upload[i] \in {"original", "copy"}
    /\ LET o == <<i, upload[i]>> IN
       \/ /\ MayWrite(o)
          /\ files' = files \cup {o}
          /\ upload' = [upload EXCEPT ![i] = IF @ = "copy" THEN "copy stored" ELSE "original stored"]
          /\ UNCHANGED object
       \/ AbandonUpload(i) /\ UNCHANGED files
    /\ UNCHANGED <<requestVars, remnants, markers, messageVars, reaper, mediaMishaps>>

\* a parent on its way out takes no copy
ParentStands(i) ==
    /\ ~object[Original(i)].asked
    /\ object[Original(i)].state \notin {"none", "delete_pending", "deleted", "failed"}

CanBecomeReady(o) ==
    /\ object[o].state = "pending" /\ ~object[o].asked
    /\ ~Closed

MakeReady(o) == object' = [object EXCEPT ![o].state = "ready", ![o].due = FALSE]

MarkReady(i) ==
    /\ upload[i] = "original stored"
    /\ \/ /\ CanBecomeReady(Original(i))
          /\ MakeReady(Original(i))
          /\ upload' = [upload EXCEPT ![i] = "between"]
          /\ UNCHANGED mediaMishaps
       \/ /\ ~CanBecomeReady(Original(i))
          /\ upload' = [upload EXCEPT ![i] = "original unwanted"]
          /\ UNCHANGED <<object, mediaMishaps>>
       \/ /\ CanBecomeReady(Original(i)) /\ MediaMishap   \* committed, and taken for failed
          /\ MakeReady(Original(i))
          /\ upload' = [upload EXCEPT ![i] = "original unwanted"]
    /\ UNCHANGED <<requestVars, fileVars, messageVars, reaper>>

CreateCopy(i) ==
    /\ upload[i] = "between"
    /\ IF Closed \/ ~ParentStands(i)
       THEN /\ object' = Expire(object, Original(i))
            /\ upload' = [upload EXCEPT ![i] = "over"]
       ELSE /\ object' = [object EXCEPT ![Copy(i)].state = "pending"]
            /\ upload' = [upload EXCEPT ![i] = "copy"]
    /\ UNCHANGED <<requestVars, fileVars, messageVars, reaper, mediaMishaps>>

\* the copy becomes ready and the message shows it, both or neither
Attach(i) ==
    /\ upload[i] = "copy stored"
    /\ LET attachable == CanBecomeReady(Copy(i)) /\ ParentStands(i) IN
       \/ /\ attachable
          /\ MakeReady(Copy(i))
          /\ attached' = attached \cup {i}
          /\ upload' = [upload EXCEPT ![i] = "over"]
          /\ UNCHANGED mediaMishaps
       \/ /\ upload' = [upload EXCEPT ![i] = "copy unwanted"]   \* or the message is not as it was
          /\ UNCHANGED <<object, attached, mediaMishaps>>
       \/ /\ attachable /\ MediaMishap
          /\ MakeReady(Copy(i))
          /\ attached' = attached \cup {i}
          /\ upload' = [upload EXCEPT ![i] = "copy unwanted"]
    /\ UNCHANGED <<requestVars, fileVars, inContext, textVars, reaper>>

\* the file of an object that did not become ready is deleted
DropFile(i) ==
    /\ upload[i] \in {"original unwanted", "copy unwanted"}
    /\ files' = files \ {IF upload[i] = "original unwanted" THEN Original(i) ELSE Copy(i)}
    /\ AbandonUpload(i)
    /\ UNCHANGED <<requestVars, remnants, markers, messageVars, reaper, mediaMishaps>>

\* the app stops, maybe in the middle of a file
UploadCrashes(i) ==
    /\ upload[i] \notin {"waiting", "over"} /\ MediaMishap
    /\ upload' = [upload EXCEPT ![i] = "over"]
    /\ remnants' \in {remnants} \cup
          (IF upload[i] \in {"original", "copy"} /\ MayWrite(<<i, upload[i]>>)
           THEN {remnants \cup {<<i, upload[i]>>}} ELSE {})
    /\ UNCHANGED <<requestVars, object, files, markers, messageVars, reaper>>

-----------------------------------------------------------------------------
(* Messages and what is derived from them *)

\* an update of a scope that is erased leaves no text
ReceiveMessage ==
    /\ ~Closed
    /\ texts' = texts \cup {"message"}
    /\ UNCHANGED <<requestVars, object, fileVars, upload, attached, inContext, deriving, reaper,
                   mediaMishaps>>

\* a manifest takes the text, and an image that is ready and not to be deleted
StartDeriving ==
    /\ ~Closed /\ ~deriving /\ "message" \in texts
    /\ deriving' = TRUE
    /\ inContext' = {i \in attached : object[Copy(i)].state = "ready" /\ ~object[Copy(i)].asked}
    /\ UNCHANGED <<requestVars, object, fileVars, upload, attached, texts, reaper, mediaMishaps>>

\* the trigger refuses a payload of a scope that is erased
MayStore == ~Closed

\* the result is stored, or refused
FinishDeriving ==
    /\ deriving
    /\ deriving' = FALSE
    /\ texts' = IF MayStore THEN texts \cup {"derived"} ELSE texts
    /\ inContext' = {}
    /\ UNCHANGED <<requestVars, object, fileVars, upload, attached, reaper, mediaMishaps>>

-----------------------------------------------------------------------------
(* Cleanup *)

\* retention ends, a pending upload has timed out, a retry is due, or a lease has lapsed
FallsDueForCleanup(o) ==
    /\ There(o) /\ ~object[o].due
    /\ object' = [object EXCEPT ![o].due = TRUE]
    /\ IF object[o].state = "delete_pending" /\ o \in reaper[object[o].by].leases
       THEN MediaMishap ELSE UNCHANGED mediaMishaps
    /\ UNCHANGED <<requestVars, fileVars, messageVars, upload, reaper>>

\* a claim that trusts whoever holds the lease
EligibleOnce(o) ==
    \/ object[o].state \in {"pending", "rejected"} /\ (object[o].asked \/ object[o].due)
    \/ object[o].state \in {"ready", "failed"} /\ object[o].due

\* what a cleanup may claim, by state and time
Eligible(o) ==
    \/ object[o].state \in {"pending", "rejected"} /\ (object[o].asked \/ object[o].due)
    \/ object[o].state \in {"ready", "delete_pending", "failed"} /\ object[o].due

\* no run under way reads it
Collectable(o) == Eligible(o) /\ ~\E i \in inContext : o = Copy(i)

InventoryAsked == request = "derived_cleanup" /\ ~checked

ClaimExpired(r) ==
    /\ reaper[r].step = "idle"
    /\ LET batch == {o \in MediaObject : Collectable(o)} IN
       /\ batch # {} \/ InventoryAsked
       /\ object' = [o \in MediaObject |->
              IF o \notin batch THEN object[o]
              ELSE [state |-> "delete_pending", asked |-> TRUE, due |-> FALSE, by |-> r]]
       /\ reaper' = [reaper EXCEPT ![r] = [step |-> IF batch = {} THEN "verifying" ELSE "erasing",
                                           leases |-> batch]]
    /\ UNCHANGED <<requestVars, fileVars, messageVars, upload, mediaMishaps>>

\* the objects of a batch come one after the other
NextLease(r) == CHOOSE o \in reaper[r].leases : TRUE

EraseObject(r) ==
    /\ reaper[r].step = "erasing"
    /\ LET o == NextLease(r) IN
       \/ /\ markers' = markers \cup {o}
          /\ files' = files \ {o} /\ remnants' = remnants \ {o}
          /\ reaper' = [reaper EXCEPT ![r].step = "erased"]
          /\ UNCHANGED mediaMishaps
       \/ /\ MediaMishap
          /\ markers' \in {markers, markers \cup {o}}
          /\ reaper' = [reaper EXCEPT ![r].step = "kept"]
          /\ UNCHANGED <<files, remnants>>
    /\ UNCHANGED <<requestVars, object, messageVars, upload>>

\* recorded only under the lease that was taken
FinishFileDeletion(r) ==
    /\ reaper[r].step \in {"erased", "kept"}
    /\ LET o == NextLease(r)
           rest == reaper[r].leases \ {o}
           outcome == IF reaper[r].step = "erased" THEN "deleted" ELSE "failed"
       IN /\ object' = IF object[o].state = "delete_pending" /\ object[o].by = r
                       THEN [object EXCEPT ![o].state = outcome, ![o].due = FALSE, ![o].by = Nobody]
                       ELSE object
          /\ reaper' = [reaper EXCEPT ![r] = [step |-> IF rest = {} THEN "verifying" ELSE "erasing",
                                              leases |-> rest]]
    /\ UNCHANGED <<requestVars, fileVars, messageVars, upload, mediaMishaps>>

\* no file of the scope is left, whatever its object says
InventoryHolds == files \cup remnants = {}

VerifyInventory(r) ==
    /\ reaper[r].step = "verifying"
    /\ IF InventoryAsked
       THEN /\ markers' = markers \cup {o \in MediaObject : object[o].state = "deleted"}
            /\ reaper' = [reaper EXCEPT ![r].step = IF InventoryHolds THEN "recording" ELSE "idle"]
       ELSE /\ reaper' = [reaper EXCEPT ![r].step = "idle"]
            /\ UNCHANGED markers
    /\ UNCHANGED <<requestVars, object, files, remnants, messageVars, upload, mediaMishaps>>

RecordInventory(r) ==
    /\ reaper[r].step = "recording"
    /\ checked' = TRUE
    /\ reaper' = [reaper EXCEPT ![r] = Unleased]
    /\ UNCHANGED <<request, settled, object, fileVars, messageVars, upload, mediaMishaps>>

CleanupCrashes(r) ==
    /\ reaper[r].step # "idle" /\ MediaMishap
    /\ reaper' = [reaper EXCEPT ![r] = Unleased]
    /\ UNCHANGED <<requestVars, object, fileVars, messageVars, upload>>

-----------------------------------------------------------------------------
(* The erasure request *)

RequestErasure ==
    /\ request = "none"
    /\ request' = "requested"
    /\ UNCHANGED <<checked, settled, object, fileVars, messageVars, upload,
                   reaper, mediaMishaps>>

\* objects of the scope are asked to be deleted, and expire
AskedToDelete(o) ==
    IF There(o)
    THEN [object[o] EXCEPT !.asked = TRUE, !.due = @ \/ object[o].state = "ready"]
    ELSE object[o]

MediaPending == \E o \in MediaObject : There(o)

\* the worker comes back to every request that is not completed
IsOpen == request \notin {"none", "completed"}

\* what is missing, or nothing
StageReached == IF MediaPending THEN "media_cleanup"
         ELSE IF ~checked \/ ~settled THEN "derived_cleanup"
         ELSE "completed"

\* model runs and memory work of the scope are cancelled, and no longer hold images
EndReaders == inContext' = {}

\* messages, and all that was derived from them by any chain, lose their texts
RedactTexts == texts' = {}

\* one pass over the request, in one transaction
PrepareErasure ==
    /\ IsOpen
    /\ EndReaders
    /\ RedactTexts
    /\ object' = [o \in MediaObject |-> AskedToDelete(o)]
    /\ request' = StageReached
    /\ UNCHANGED <<checked, settled, fileVars, upload, attached, deriving, reaper, mediaMishaps>>

\* the exports and the budgets of the scope are done
OthersSettle ==
    /\ request \notin {"none", "requested"} /\ ~settled
    /\ settled' = TRUE
    /\ UNCHANGED <<request, checked, object, fileVars, messageVars, upload,
                   reaper, mediaMishaps>>

-----------------------------------------------------------------------------
UploadStep(i) ==
    CreateOriginal(i) \/ StoreFile(i) \/ MarkReady(i) \/ CreateCopy(i) \/ Attach(i) \/ DropFile(i)

CleanupStep(r) ==
    \/ ClaimExpired(r) \/ EraseObject(r) \/ FinishFileDeletion(r)
    \/ VerifyInventory(r) \/ RecordInventory(r)

ErasureNext ==
    \/ \E i \in Images : UploadStep(i) \/ UploadCrashes(i)
    \/ ReceiveMessage \/ StartDeriving \/ FinishDeriving
    \/ \E o \in MediaObject : FallsDueForCleanup(o)
    \/ \E r \in Reapers : CleanupStep(r) \/ CleanupCrashes(r)
    \/ RequestErasure \/ PrepareErasure \/ OthersSettle

\* the worker and the cleanup run at intervals, and time passes; uploads need not go on
ErasureFairness ==
    /\ WF_erasureVars(PrepareErasure) /\ WF_erasureVars(OthersSettle)
    /\ \A r \in Reapers : WF_erasureVars(CleanupStep(r))
    /\ \A o \in MediaObject : WF_erasureVars(FallsDueForCleanup(o))

ErasureSpec == ErasureInit /\ [][ErasureNext]_erasureVars /\ ErasureFairness

-----------------------------------------------------------------------------
\* Once an erasure has been recorded as complete, no file of the scope is there, whole or unfinished,
\* and no text; and none appears later: not from an upload or a generation that began before the
\* request, not after a crash.
ErasedScopeIsEmpty ==
    request = "completed" => files \cup remnants = {} /\ texts = {}

\* Every erasure request is completed.
ErasureCompletes == (request = "requested") ~> (request = "completed")
=============================================================================
