--------------------------- MODULE ErasureProofs ----------------------------
(***************************************************************************)
(* Theorems about what has to go and must not come back: an erased scope,  *)
(* the files of an erased export, and what a restored database may hold.   *)
(***************************************************************************)
EXTENDS ScopeErasure, RestoreGate, DataExports, TLAPS

-----------------------------------------------------------------------------
(***************************************************************************)
(* The erasure of a scope. That an erased scope stays empty depends on     *)
(* what uploads and passes of the cleanup have in hand while the request   *)
(* moves on; so the invariant says that a file is written under a row of   *)
(* its object, that no object is left beyond the cleanup of media, and     *)
(* that whoever is about to record the check has seen that nothing is      *)
(* there.                                                                  *)
(***************************************************************************)

ObjectState == {"none", "pending", "ready", "rejected", "delete_pending", "failed", "deleted"}
ObjectRow == [state : ObjectState, asked : BOOLEAN, due : BOOLEAN, by : Reapers \cup {Nobody}]
ObjectRows == [MediaObject -> ObjectRow]

ErasureShape ==
    /\ request \in {"none", "requested", "media_cleanup", "derived_cleanup", "completed"}
    /\ object \in ObjectRows
    /\ upload \in [Images -> {"waiting", "original", "original stored", "original unwanted", "between",
                             "copy", "copy stored", "copy unwanted", "over"}]
    /\ reaper \in [Reapers ->
         [step : {"idle", "erasing", "erased", "kept", "verifying", "recording"},
          leases : SUBSET MediaObject]]

\* The object of a file that is being written has a row.
WritersHaveRows ==
    \A i \in Images : upload[i] \in {"original", "copy"} => object[<<i, upload[i]>>].state # "none"

\* Beyond the cleanup of media no object is left.
ObjectsGone ==
    request \in {"derived_cleanup", "completed"} => \A o \in MediaObject : ~There(o)

\* A request that was taken up has taken the texts.
TextsGone == request \notin {"none", "requested"} => texts = {}

\* Once the files were looked at there is none, and none may be written.
FilesGone ==
    checked \/ (\E r \in Reapers : reaper[r].step = "recording") =>
        /\ request \in {"derived_cleanup", "completed"}
        /\ files \cup remnants = {}
        /\ \A o \in MediaObject : object[o].state = "deleted" => o \in markers

CompletedIsChecked == request = "completed" => checked

ErasureInv ==
    ErasureShape /\ WritersHaveRows /\ ObjectsGone /\ TextsGone /\ FilesGone /\ CompletedIsChecked

-----------------------------------------------------------------------------
(* The rows of objects *)

\* How the rows may change: a row stays, and under a request nothing returns.
RowsAdvance ==
    /\ object' \in ObjectRows
    /\ \A o \in MediaObject :
        /\ object[o].state # "none" => object'[o].state # "none"
        /\ Closed /\ object[o].state \in {"none", "deleted"} => object'[o].state = object[o].state

\* A row that is rejected was pending, one that expires keeps its state.
LEMMA RejectThenExpire ==
    ASSUME NEW rows \in ObjectRows, NEW o \in MediaObject, NEW p \in MediaObject
    PROVE  /\ Expire(Reject(rows, o), p) \in ObjectRows
           /\ \A m \in MediaObject :
                Expire(Reject(rows, o), p)[m].state
                    = IF m = o /\ rows[m].state = "pending" THEN "rejected" ELSE rows[m].state
<1>1. /\ Reject(rows, o) \in ObjectRows
      /\ \A m \in MediaObject :
            Reject(rows, o)[m].state = IF m = o /\ rows[m].state = "pending" THEN "rejected" ELSE rows[m].state
    BY DEF Reject, ObjectRows, ObjectRow, ObjectState
<1> DEFINE R == Reject(rows, o)
<1> HIDE DEF R
<1>2. ASSUME R \in ObjectRows
      PROVE  Expire(R, p) \in ObjectRows /\ \A m \in MediaObject : Expire(R, p)[m].state = R[m].state
    BY <1>2 DEF Expire, ObjectRows, ObjectRow, ObjectState
<1> QED BY <1>1, <1>2 DEF R

\* An upload that is given up.
LEMMA AbandonAdvances ==
    ASSUME ErasureShape, NEW i \in Images, AbandonUpload(i)
    PROVE  /\ RowsAdvance
           /\ upload' = [upload EXCEPT ![i] = "over"]
<1> DEFINE o == IF upload[i] \in {"original", "original unwanted"} THEN Original(i) ELSE Copy(i)
<1>1. o \in MediaObject /\ Original(i) \in MediaObject BY DEF MediaObject, Original, Copy
<1>2. object' = Expire(Reject(object, o), Original(i)) /\ upload' = [upload EXCEPT ![i] = "over"]
    BY DEF AbandonUpload
<1>3. object \in ObjectRows BY DEF ErasureShape
<1> HIDE DEF o
<1>4. /\ object' \in ObjectRows
      /\ \A m \in MediaObject :
            object'[m].state = IF m = o /\ object[m].state = "pending" THEN "rejected"
                                                                       ELSE object[m].state
    <2>1. /\ Expire(Reject(object, o), Original(i)) \in ObjectRows
          /\ \A m \in MediaObject : Expire(Reject(object, o), Original(i))[m].state =
                IF m = o /\ object[m].state = "pending" THEN "rejected" ELSE object[m].state
        BY <1>1, <1>3, RejectThenExpire
    <2> QED BY <1>2, <2>1
<1> QED BY <1>2, <1>4 DEF RowsAdvance

\* One row takes a state.
LEMMA RowTakesState ==
    ASSUME ErasureShape, NEW o \in MediaObject, NEW s \in ObjectState \ {"none"}, ~Closed,
           \/ object' = [object EXCEPT ![o].state = s]
           \/ object' = [object EXCEPT ![o].state = s, ![o].due = FALSE]
    PROVE  RowsAdvance
<1>1. object \in [MediaObject -> ObjectRow] /\ object[o] \in ObjectRow
    BY DEF ErasureShape, ObjectRows
<1> DEFINE row == [object[o] EXCEPT !.state = s]
<1>2. row \in ObjectRow /\ row.state = s BY <1>1 DEF ObjectRow
<1>3. [row EXCEPT !.due = FALSE] \in ObjectRow /\ [row EXCEPT !.due = FALSE].state = s
    <2> HIDE DEF row
    <2> QED BY <1>2 DEF ObjectRow
<1>4. PICK new \in {row, [row EXCEPT !.due = FALSE]} : object' = [object EXCEPT ![o] = new]
    BY <1>1
<1>5. new \in ObjectRow /\ new.state = s BY <1>2, <1>3
<1>6. object' \in ObjectRows BY <1>1, <1>4, <1>5 DEF ObjectRows
<1>7. \A m \in MediaObject : object'[m].state = IF m = o THEN s ELSE object[m].state
    BY <1>1, <1>4, <1>5
<1> QED BY <1>6, <1>7 DEF RowsAdvance

\* Nothing of the request, the files and the cleanups changes, and no file is about to be written
\* without a row.
LEMMA UploadOnly ==
    ASSUME ErasureInv, RowsAdvance,
           UNCHANGED <<requestVars, fileVars, texts, reaper>>,
           upload' \in [Images -> {"waiting", "original", "original stored", "original unwanted",
                                   "between", "copy", "copy stored", "copy unwanted", "over"}],
           \A i \in Images : \/ upload'[i] = upload[i]
                             \/ upload'[i] \notin {"original", "copy"}
                             \/ object'[<<i, upload'[i]>>].state # "none"
    PROVE  ErasureInv'
<1>1. ErasureShape' BY DEF ErasureInv, ErasureShape, RowsAdvance, requestVars
<1>2. WritersHaveRows'
    <2> SUFFICES ASSUME NEW i \in Images, upload'[i] \in {"original", "copy"}
                 PROVE  object'[<<i, upload'[i]>>].state # "none"
        BY DEF WritersHaveRows
    <2>1. <<i, upload'[i]>> \in MediaObject BY DEF MediaObject
    <2> QED BY <2>1 DEF ErasureInv, WritersHaveRows, RowsAdvance
<1>3. ASSUME request \in {"derived_cleanup", "completed"}, NEW o \in MediaObject
      PROVE  object'[o].state = object[o].state
    BY <1>3 DEF ErasureInv, ObjectsGone, There, Closed, RowsAdvance
<1>4. ObjectsGone' BY <1>3 DEF ErasureInv, ObjectsGone, There, requestVars
<1>5. TextsGone' BY DEF ErasureInv, TextsGone, requestVars
<1>6. FilesGone' BY <1>3 DEF ErasureInv, FilesGone, requestVars, fileVars
<1>7. CompletedIsChecked' BY DEF ErasureInv, CompletedIsChecked, requestVars
<1> QED BY <1>1, <1>2, <1>4, <1>5, <1>6, <1>7 DEF ErasureInv

-----------------------------------------------------------------------------
(* The steps *)

LEMMA StoreFileKeeps == ASSUME ErasureInv, NEW i \in Images, StoreFile(i) PROVE ErasureInv'
<1> DEFINE o == <<i, upload[i]>>
<1>1. /\ upload[i] \in {"original", "copy"} /\ ErasureShape
      /\ UNCHANGED <<requestVars, remnants, markers, texts, reaper>>
    BY DEF StoreFile, messageVars, ErasureInv
<1>2. o \in MediaObject /\ object[o].state # "none"
    BY <1>1 DEF MediaObject, ErasureInv, WritersHaveRows
<1>3. CASE AbandonUpload(i) /\ files' = files
    <2>1. RowsAdvance /\ upload' = [upload EXCEPT ![i] = "over"] BY <1>1, <1>3, AbandonAdvances
    <2>2. /\ upload' \in [Images -> {"waiting", "original", "original stored", "original unwanted",
                                   "between", "copy", "copy stored", "copy unwanted", "over"}]
          /\ \A j \in Images : upload'[j] = upload[j] \/ upload'[j] \notin {"original", "copy"}
        BY <1>1, <2>1 DEF ErasureShape
    <2> QED BY <1>1, <1>3, <2>1, <2>2, UploadOnly DEF fileVars
<1>4. CASE /\ MayWrite(o) /\ files' = files \cup {o} /\ object' = object
           /\ upload' = [upload EXCEPT ![i] = IF @ = "copy" THEN "copy stored" ELSE "original stored"]
    <2>1. /\ upload' \in [Images -> {"waiting", "original", "original stored", "original unwanted",
                                   "between", "copy", "copy stored", "copy unwanted", "over"}]
          /\ \A j \in Images : upload'[j] = upload[j] \/ upload'[j] \notin {"original", "copy"}
        BY <1>1, <1>4 DEF ErasureShape
    <2>2. ErasureShape' BY <1>1, <1>4, <2>1 DEF ErasureShape, requestVars
    <2>3. WritersHaveRows' BY <1>4, <2>1 DEF ErasureInv, WritersHaveRows
    <2>4. ObjectsGone' /\ TextsGone' /\ CompletedIsChecked'
        BY <1>1, <1>4 DEF ErasureInv, ObjectsGone, There, TextsGone, CompletedIsChecked, requestVars
    <2>5. ~(checked \/ \E r \in Reapers : reaper[r].step = "recording")
        <3> SUFFICES ASSUME checked \/ \E r \in Reapers : reaper[r].step = "recording" PROVE FALSE
            OBVIOUS
        <3>1. ~There(o) BY <1>2 DEF ErasureInv, ObjectsGone, FilesGone
        <3>2. object[o].state = "deleted" BY <1>2, <3>1 DEF There
        <3> QED BY <1>2, <1>4, <3>2 DEF ErasureInv, FilesGone, MayWrite
    <2>6. FilesGone' BY <1>1, <2>5 DEF FilesGone, requestVars
    <2> QED BY <2>2, <2>3, <2>4, <2>6 DEF ErasureInv
<1> QED BY <1>3, <1>4 DEF StoreFile

LEMMA UploadKeeps ==
    ASSUME ErasureInv, NEW i \in Images,
           CreateOriginal(i) \/ MarkReady(i) \/ CreateCopy(i) \/ Attach(i)
    PROVE  ErasureInv'
<1>1. ErasureShape /\ UNCHANGED <<requestVars, fileVars, texts, reaper>>
    BY DEF CreateOriginal, MarkReady, CreateCopy, Attach, messageVars, textVars, ErasureInv
<1>2. Original(i) \in MediaObject /\ Copy(i) \in MediaObject
    BY DEF MediaObject, Original, Copy
<1>3. object' = object => RowsAdvance BY <1>1 DEF RowsAdvance, ErasureShape
<1>4. ASSUME NEW o \in {Original(i), Copy(i)}, CanBecomeReady(o), MakeReady(o) PROVE RowsAdvance
    <2>1. ~Closed /\ object' = [object EXCEPT ![o].state = "ready", ![o].due = FALSE]
        BY <1>4 DEF CanBecomeReady, MakeReady
    <2>2. o \in MediaObject /\ "ready" \in ObjectState \ {"none"} BY <1>2 DEF ObjectState
    <2> QED BY <1>1, <2>1, <2>2, RowTakesState
<1>5. ASSUME NEW o \in {Original(i), Copy(i)}, ~Closed,
             object' = [object EXCEPT ![o].state = "pending"]
      PROVE  RowsAdvance /\ object'[o].state # "none"
    <2>1. o \in MediaObject /\ "pending" \in ObjectState \ {"none"} BY <1>2 DEF ObjectState
    <2>2. RowsAdvance BY <1>1, <1>5, <2>1, RowTakesState
    <2>3. object'[o].state = "pending" BY <1>1, <1>5, <2>1 DEF ErasureShape, ObjectRows, ObjectRow
    <2> QED BY <2>2, <2>3
<1>6. ASSUME object' = Expire(object, Original(i)) PROVE RowsAdvance
    <2> DEFINE o == Original(i)
    <2>1. object \in ObjectRows /\ object[o] \in ObjectRow
        BY <1>1, <1>2 DEF ErasureShape, ObjectRows
    <2>2. PICK new \in {object[o], [object[o] EXCEPT !.due = TRUE]} :
                object' = [object EXCEPT ![o] = new]
        BY <1>6, <2>1 DEF Expire, ObjectRows
    <2>3. new \in ObjectRow /\ new.state = object[o].state BY <2>1 DEF ObjectRow
    <2> HIDE DEF o
    <2> QED BY <2>1, <2>2, <2>3 DEF RowsAdvance, ObjectRows
<1> DEFINE Uploads == {"waiting", "original", "original stored", "original unwanted",
                       "between", "copy", "copy stored", "copy unwanted", "over"}
<1>7. ASSUME NEW s \in Uploads, upload' = [upload EXCEPT ![i] = s], RowsAdvance,
             s \in {"original", "copy"} => object'[<<i, s>>].state # "none"
      PROVE  ErasureInv'
    <2>1. upload' \in [Images -> Uploads] /\ upload'[i] = s
          /\ \A j \in Images \ {i} : upload'[j] = upload[j]
        BY <1>1, <1>7 DEF ErasureShape
    <2> QED BY <1>1, <1>7, <2>1, UploadOnly
<1>8. CASE CreateOriginal(i)
    <2>1. CASE upload' = [upload EXCEPT ![i] = "over"] /\ object' = object
        BY <1>3, <1>7, <2>1
    <2>2. CASE /\ ~Closed /\ upload' = [upload EXCEPT ![i] = "original"]
               /\ object' = [object EXCEPT ![Original(i)].state = "pending"]
        BY <1>5, <1>7, <2>2 DEF Original
    <2> QED BY <1>8, <2>1, <2>2 DEF CreateOriginal
<1>9. CASE MarkReady(i)
    <2>1. PICK s \in {"between", "original unwanted"} : upload' = [upload EXCEPT ![i] = s]
        BY <1>9 DEF MarkReady
    <2>2. RowsAdvance BY <1>3, <1>4, <1>9 DEF MarkReady
    <2> QED BY <1>7, <2>1, <2>2
<1>10. CASE CreateCopy(i)
    <2>1. CASE upload' = [upload EXCEPT ![i] = "over"] /\ object' = Expire(object, Original(i))
        BY <1>6, <1>7, <2>1
    <2>2. CASE /\ ~Closed /\ upload' = [upload EXCEPT ![i] = "copy"]
               /\ object' = [object EXCEPT ![Copy(i)].state = "pending"]
        BY <1>5, <1>7, <2>2 DEF Copy
    <2> QED BY <1>10, <2>1, <2>2 DEF CreateCopy
<1>11. CASE Attach(i)
    <2>1. PICK s \in {"over", "copy unwanted"} : upload' = [upload EXCEPT ![i] = s]
        BY <1>11 DEF Attach
    <2>2. RowsAdvance BY <1>3, <1>4, <1>11 DEF Attach
    <2> QED BY <1>7, <2>1, <2>2
<1> QED BY <1>8, <1>9, <1>10, <1>11

\* Files are only removed, or nothing is done to them; what is over is written by nobody.
LEMMA UploadEnds ==
    ASSUME ErasureInv, NEW i \in Images, DropFile(i) \/ UploadCrashes(i)
    PROVE  ErasureInv'
<1>1. ErasureShape /\ UNCHANGED <<requestVars, markers, texts, reaper>>
    BY DEF DropFile, UploadCrashes, messageVars, ErasureInv
<1>2. RowsAdvance /\ upload' = [upload EXCEPT ![i] = "over"]
    <2>1. CASE DropFile(i) BY <1>1, <2>1, AbandonAdvances DEF DropFile
    <2>2. CASE UploadCrashes(i) BY <1>1, <2>2 DEF UploadCrashes, RowsAdvance, ErasureShape
    <2> QED BY <2>1, <2>2
<1>3. /\ upload' \in [Images -> {"waiting", "original", "original stored", "original unwanted",
                                   "between", "copy", "copy stored", "copy unwanted", "over"}]
      /\ \A j \in Images : upload'[j] = upload[j] \/ upload'[j] \notin {"original", "copy"}
    BY <1>1, <1>2 DEF ErasureShape
<1>4. ErasureShape' BY <1>1, <1>2, <1>3 DEF ErasureShape, RowsAdvance, requestVars
<1>5. WritersHaveRows'
    <2> SUFFICES ASSUME NEW j \in Images, upload'[j] \in {"original", "copy"}
                 PROVE  object'[<<j, upload'[j]>>].state # "none"
        BY DEF WritersHaveRows
    <2>1. <<j, upload'[j]>> \in MediaObject /\ upload'[j] = upload[j] BY <1>3 DEF MediaObject
    <2> QED BY <1>2, <2>1 DEF ErasureInv, WritersHaveRows, RowsAdvance
<1>6. ASSUME request \in {"derived_cleanup", "completed"}, NEW o \in MediaObject
      PROVE  object'[o].state = object[o].state
    BY <1>2, <1>6 DEF ErasureInv, ObjectsGone, There, Closed, RowsAdvance
<1>7. ObjectsGone' BY <1>1, <1>6 DEF ErasureInv, ObjectsGone, There, requestVars
<1>8. TextsGone' /\ CompletedIsChecked'
    BY <1>1 DEF ErasureInv, TextsGone, CompletedIsChecked, requestVars
<1>9. FilesGone'
    <2> SUFFICES ASSUME checked \/ \E r \in Reapers : reaper[r].step = "recording"
                 PROVE  FilesGone'
        BY <1>1 DEF FilesGone, requestVars
    <2>1. /\ request \in {"derived_cleanup", "completed"} /\ files \cup remnants = {}
          /\ \A o \in MediaObject : object[o].state = "deleted" => o \in markers
        BY DEF ErasureInv, FilesGone
    <2>2. upload[i] \in {"original", "copy"} => ~MayWrite(<<i, upload[i]>>)
        <3> SUFFICES ASSUME upload[i] \in {"original", "copy"} PROVE <<i, upload[i]>> \in markers
            BY DEF MayWrite
        <3>1. <<i, upload[i]>> \in MediaObject BY DEF MediaObject
        <3>2. object[<<i, upload[i]>>].state = "deleted"
            BY <2>1, <3>1 DEF ErasureInv, WritersHaveRows, ObjectsGone, There
        <3> QED BY <2>1, <3>1, <3>2
    <2>3. files' \cup remnants' = {}
        BY <2>1, <2>2 DEF DropFile, UploadCrashes, fileVars
    <2> QED BY <1>1, <1>6, <2>1, <2>3 DEF FilesGone, requestVars
<1> QED BY <1>4, <1>5, <1>7, <1>8, <1>9 DEF ErasureInv

-----------------------------------------------------------------------------
ReaperRows == [Reapers ->
    [step : {"idle", "erasing", "erased", "kept", "verifying", "recording"},
     leases : SUBSET MediaObject]]

\* Under a request that is beyond the media no object changes its state.
LEMMA StatesStand ==
    ASSUME ErasureInv, RowsAdvance, request \in {"derived_cleanup", "completed"}
    PROVE  \A o \in MediaObject : object'[o].state = object[o].state
BY DEF ErasureInv, ObjectsGone, There, Closed, RowsAdvance

\* Files that are gone stay gone while no cleanup comes to record, and no marker is lost.
LEMMA FilesStayGone ==
    ASSUME ErasureInv, RowsAdvance, UNCHANGED <<request, checked>>,
           files' \subseteq files, remnants' \subseteq remnants, markers \subseteq markers',
           \A r \in Reapers : reaper'[r].step = "recording" => reaper[r].step = "recording"
    PROVE  FilesGone'
<1> SUFFICES ASSUME checked \/ \E r \in Reapers : reaper[r].step = "recording" PROVE FilesGone'
    BY DEF FilesGone
<1>1. /\ request \in {"derived_cleanup", "completed"} /\ files \cup remnants = {}
      /\ \A o \in MediaObject : object[o].state = "deleted" => o \in markers
    BY DEF ErasureInv, FilesGone
<1>2. files' \cup remnants' = {} BY <1>1
<1>3. \A o \in MediaObject : object'[o].state = "deleted" => o \in markers'
    BY <1>1, StatesStand
<1> QED BY <1>1, <1>2, <1>3 DEF FilesGone

\* What else a cleanup may disturb.
LEMMA CleanupOnly ==
    ASSUME ErasureInv, RowsAdvance, UNCHANGED <<request, upload, texts>>,
           reaper' \in ReaperRows, checked => checked', FilesGone'
    PROVE  ErasureInv'
<1>1. ErasureShape' BY DEF ErasureInv, ErasureShape, RowsAdvance, ReaperRows
<1>2. WritersHaveRows' BY DEF ErasureInv, WritersHaveRows, RowsAdvance, MediaObject
<1>3. ObjectsGone' BY StatesStand DEF ErasureInv, ObjectsGone, There
<1>4. TextsGone' /\ CompletedIsChecked' BY DEF ErasureInv, TextsGone, CompletedIsChecked
<1> QED BY <1>1, <1>2, <1>3, <1>4 DEF ErasureInv

LEMMA ReaperMoves ==
    ASSUME reaper \in ReaperRows, NEW r \in Reapers,
           NEW s \in {"idle", "erasing", "erased", "kept", "verifying", "recording"},
           \/ reaper' = [reaper EXCEPT ![r].step = s]
           \/ \E leases \in SUBSET MediaObject :
                reaper' = [reaper EXCEPT ![r] = [step |-> s, leases |-> leases]]
    PROVE  /\ reaper' \in ReaperRows
           /\ reaper'[r].step = s
           /\ \A q \in Reapers \ {r} : reaper'[q] = reaper[q]
<1>1. CASE reaper' = [reaper EXCEPT ![r].step = s]
    BY <1>1 DEF ReaperRows
<1>2. CASE \E leases \in SUBSET MediaObject :
                reaper' = [reaper EXCEPT ![r] = [step |-> s, leases |-> leases]]
    BY <1>2 DEF ReaperRows
<1> QED BY <1>1, <1>2

\* No reaper comes to record.
LEMMA ReaperElsewhere ==
    ASSUME reaper \in ReaperRows, NEW r \in Reapers,
           NEW s \in {"idle", "erasing", "erased", "kept", "verifying"},
           \/ reaper' = [reaper EXCEPT ![r].step = s]
           \/ \E leases \in SUBSET MediaObject :
                reaper' = [reaper EXCEPT ![r] = [step |-> s, leases |-> leases]]
    PROVE  /\ reaper' \in ReaperRows
           /\ \A q \in Reapers : reaper'[q].step = "recording" => reaper[q].step = "recording"
BY ReaperMoves

LEMMA ClaimKeeps == ASSUME ErasureInv, NEW r \in Reapers, ClaimExpired(r) PROVE ErasureInv'
<1> DEFINE batch == {o \in MediaObject : Collectable(o)}
<1>1. /\ UNCHANGED <<requestVars, fileVars, texts, upload>> /\ ErasureShape
      /\ object' = [o \in MediaObject |->
              IF o \notin batch THEN object[o]
              ELSE [state |-> "delete_pending", asked |-> TRUE, due |-> FALSE, by |-> r]]
      /\ reaper' = [reaper EXCEPT ![r] = [step |-> IF batch = {} THEN "verifying" ELSE "erasing",
                                           leases |-> batch]]
    BY DEF ClaimExpired, messageVars, textVars, ErasureInv
<1>2. RowsAdvance
    <2>1. object' \in ObjectRows
        BY <1>1 DEF ErasureShape, ObjectRows, ObjectRow, ObjectState
    <2>2. \A o \in batch : object[o].state \notin {"none", "deleted"}
        BY DEF Collectable, Eligible
    <2>3. \A o \in MediaObject : object'[o].state = IF o \in batch THEN "delete_pending" ELSE object[o].state
        BY <1>1
    <2> HIDE DEF batch
    <2> QED BY <2>1, <2>2, <2>3 DEF RowsAdvance
<1>3. PICK s \in {"verifying", "erasing"} : reaper' = [reaper EXCEPT ![r] = [step |-> s, leases |-> batch]]
    BY <1>1
<1>4. batch \in SUBSET MediaObject /\ reaper \in ReaperRows BY <1>1 DEF ErasureShape, ReaperRows
<1> HIDE DEF batch
<1>5. /\ reaper' \in ReaperRows
      /\ \A q \in Reapers : reaper'[q].step = "recording" => reaper[q].step = "recording"
    BY <1>3, <1>4, ReaperElsewhere
<1>6. FilesGone' BY <1>1, <1>2, <1>5, FilesStayGone DEF requestVars, fileVars
<1> QED BY <1>1, <1>2, <1>5, <1>6, CleanupOnly DEF requestVars

LEMMA EraseKeeps == ASSUME ErasureInv, NEW r \in Reapers, EraseObject(r) PROVE ErasureInv'
<1>1. /\ UNCHANGED <<requestVars, object, texts, upload>> /\ ErasureShape
      /\ files' \subseteq files /\ remnants' \subseteq remnants /\ markers \subseteq markers'
    BY DEF EraseObject, messageVars, textVars, ErasureInv
<1>2. PICK s \in {"erased", "kept"} : reaper' = [reaper EXCEPT ![r].step = s]
    BY DEF EraseObject
<1>3. RowsAdvance /\ reaper \in ReaperRows BY <1>1 DEF RowsAdvance, ErasureShape, ReaperRows
<1>4. /\ reaper' \in ReaperRows
      /\ \A q \in Reapers : reaper'[q].step = "recording" => reaper[q].step = "recording"
    BY <1>2, <1>3, ReaperElsewhere
<1>5. FilesGone' BY <1>1, <1>3, <1>4, FilesStayGone DEF requestVars
<1> QED BY <1>1, <1>3, <1>4, <1>5, CleanupOnly DEF requestVars

LEMMA FinishKeeps == ASSUME ErasureInv, NEW r \in Reapers, FinishFileDeletion(r) PROVE ErasureInv'
<1> DEFINE o == NextLease(r)
           rest == reaper[r].leases \ {o}
           outcome == IF reaper[r].step = "erased" THEN "deleted" ELSE "failed"
<1>1. /\ UNCHANGED <<requestVars, fileVars, texts, upload>> /\ ErasureShape
      /\ object' = IF object[o].state = "delete_pending" /\ object[o].by = r
                   THEN [object EXCEPT ![o].state = outcome, ![o].due = FALSE, ![o].by = Nobody]
                   ELSE object
      /\ reaper' = [reaper EXCEPT ![r] = [step |-> IF rest = {} THEN "verifying" ELSE "erasing",
                                          leases |-> rest]]
    BY DEF FinishFileDeletion, messageVars, textVars, ErasureInv
<1>2. RowsAdvance
    <2>1. CASE object' = object BY <1>1, <2>1 DEF RowsAdvance, ErasureShape
    <2>2. CASE o \notin MediaObject
        BY <1>1, <2>1, <2>2 DEF ErasureShape, ObjectRows
    <2>3. CASE /\ o \in MediaObject /\ object[o].state = "delete_pending"
               /\ object' = [object EXCEPT ![o].state = outcome, ![o].due = FALSE, ![o].by = Nobody]
        <3>1. object \in [MediaObject -> ObjectRow] /\ object[o] \in ObjectRow
            BY <1>1, <2>3 DEF ErasureShape, ObjectRows
        <3>2. outcome \in ObjectState \ {"none"} BY DEF ObjectState
        <3> DEFINE new == [state |-> outcome, asked |-> object[o].asked, due |-> FALSE, by |-> Nobody]
        <3>3. object'[o] = new
            <4> HIDE DEF outcome, o
            <4> QED BY <2>3, <3>1 DEF ObjectRow
        <3>4. \A m \in MediaObject \ {o} : object'[m] = object[m]
            <4> HIDE DEF outcome, o
            <4> QED BY <2>3, <3>1
        <3>5. new \in ObjectRow /\ new.state = outcome
            <4> HIDE DEF outcome, o
            <4> QED BY <3>1, <3>2 DEF ObjectRow
        <3>6. object' \in ObjectRows
            <4>1. DOMAIN object' = MediaObject /\ object' = [m \in MediaObject |-> object'[m]]
                <5> HIDE DEF outcome, o
                <5> QED BY <2>3, <3>1
            <4>2. \A m \in MediaObject : object'[m] \in ObjectRow
                BY <3>1, <3>3, <3>4, <3>5
            <4> QED BY <4>1, <4>2 DEF ObjectRows
        <3> QED BY <2>3, <3>2, <3>3, <3>4, <3>5, <3>6 DEF RowsAdvance
    <2> QED BY <1>1, <2>1, <2>2, <2>3
<1>3. rest \in SUBSET MediaObject /\ reaper \in ReaperRows BY <1>1 DEF ErasureShape, ReaperRows
<1>4. PICK s \in {"verifying", "erasing"} : reaper' = [reaper EXCEPT ![r] = [step |-> s, leases |-> rest]]
    BY <1>1
<1> HIDE DEF rest
<1>5. /\ reaper' \in ReaperRows
      /\ \A q \in Reapers : reaper'[q].step = "recording" => reaper[q].step = "recording"
    BY <1>3, <1>4, ReaperElsewhere
<1>6. FilesGone' BY <1>1, <1>2, <1>5, FilesStayGone DEF requestVars, fileVars
<1> QED BY <1>1, <1>2, <1>5, <1>6, CleanupOnly DEF requestVars

LEMMA VerifyKeeps == ASSUME ErasureInv, NEW r \in Reapers, VerifyInventory(r) PROVE ErasureInv'
<1>1. /\ UNCHANGED <<requestVars, object, files, remnants, texts, upload>> /\ ErasureShape
      /\ markers \subseteq markers'
    BY DEF VerifyInventory, messageVars, textVars, ErasureInv
<1>2. RowsAdvance /\ reaper \in ReaperRows BY <1>1 DEF RowsAdvance, ErasureShape, ReaperRows
<1>3. PICK s \in {"idle", "recording"} : reaper' = [reaper EXCEPT ![r].step = s]
    BY DEF VerifyInventory
<1>4. reaper' \in ReaperRows BY <1>2, <1>3, ReaperMoves
<1>5. CASE s = "idle"
    <2>1. \A q \in Reapers : reaper'[q].step = "recording" => reaper[q].step = "recording"
        BY <1>2, <1>3, <1>5, ReaperElsewhere
    <2>2. FilesGone' BY <1>1, <1>2, <2>1, FilesStayGone DEF requestVars
    <2> QED BY <1>1, <1>2, <1>4, <2>2, CleanupOnly DEF requestVars
<1>6. CASE s = "recording"
    <2>1. reaper'[r].step = "recording" BY <1>2, <1>3, <1>6, ReaperMoves
    <2>2. reaper'[r].step # "idle" BY <2>1
    <2>3. [reaper EXCEPT ![r].step = "idle"][r].step = "idle" BY <1>2 DEF ReaperRows
    <2>4. /\ InventoryAsked /\ InventoryHolds
          /\ markers' = markers \cup {o \in MediaObject : object[o].state = "deleted"}
        BY <2>2, <2>3 DEF VerifyInventory
    <2>5. FilesGone' BY <1>1, <2>4 DEF FilesGone, InventoryAsked, InventoryHolds, requestVars
    <2> QED BY <1>1, <1>2, <1>4, <2>5, CleanupOnly DEF requestVars
<1> QED BY <1>5, <1>6

LEMMA RecordKeeps == ASSUME ErasureInv, NEW r \in Reapers, RecordInventory(r) PROVE ErasureInv'
<1>1. /\ UNCHANGED <<request, object, fileVars, texts, upload>> /\ ErasureShape /\ checked'
      /\ reaper[r].step = "recording"
      /\ reaper' = [reaper EXCEPT ![r] = [step |-> "idle", leases |-> {}]]
    BY DEF RecordInventory, messageVars, textVars, ErasureInv, Unleased
<1>2. RowsAdvance /\ reaper \in ReaperRows BY <1>1 DEF RowsAdvance, ErasureShape, ReaperRows
<1>3. {} \in SUBSET MediaObject OBVIOUS
<1>4. reaper' \in ReaperRows BY <1>1, <1>2, <1>3, ReaperElsewhere
<1>5. FilesGone' BY <1>1 DEF ErasureInv, FilesGone, fileVars
<1> QED BY <1>1, <1>2, <1>4, <1>5, CleanupOnly

LEMMA CrashKeeps == ASSUME ErasureInv, NEW r \in Reapers, CleanupCrashes(r) PROVE ErasureInv'
<1>1. /\ UNCHANGED <<requestVars, object, fileVars, texts, upload>> /\ ErasureShape
      /\ reaper' = [reaper EXCEPT ![r] = [step |-> "idle", leases |-> {}]]
    BY DEF CleanupCrashes, messageVars, textVars, ErasureInv, Unleased
<1>2. RowsAdvance /\ reaper \in ReaperRows BY <1>1 DEF RowsAdvance, ErasureShape, ReaperRows
<1>3. {} \in SUBSET MediaObject OBVIOUS
<1>4. /\ reaper' \in ReaperRows
      /\ \A q \in Reapers : reaper'[q].step = "recording" => reaper[q].step = "recording"
    BY <1>1, <1>2, <1>3, ReaperElsewhere
<1>5. FilesGone' BY <1>1, <1>2, <1>4, FilesStayGone DEF requestVars, fileVars
<1> QED BY <1>1, <1>2, <1>4, <1>5, CleanupOnly DEF requestVars

LEMMA FallsDueKeeps == ASSUME ErasureInv, NEW o \in MediaObject, FallsDueForCleanup(o) PROVE ErasureInv'
<1>1. /\ UNCHANGED <<requestVars, fileVars, texts, upload, reaper>> /\ ErasureShape
      /\ object' = [object EXCEPT ![o].due = TRUE]
    BY DEF FallsDueForCleanup, messageVars, textVars, ErasureInv
<1>2. RowsAdvance /\ reaper' \in ReaperRows
    <2> DEFINE new == [object[o] EXCEPT !.due = TRUE]
    <2>1. object \in [MediaObject -> ObjectRow] BY <1>1 DEF ErasureShape, ObjectRows
    <2>2. new \in ObjectRow /\ new.state = object[o].state BY <2>1 DEF ObjectRow
    <2>3. object' = [object EXCEPT ![o] = new] BY <1>1
    <2>4. reaper' \in ReaperRows BY <1>1 DEF ErasureShape, ReaperRows
    <2> HIDE DEF new
    <2> QED BY <2>1, <2>2, <2>3, <2>4 DEF RowsAdvance, ObjectRows
<1>3. FilesGone' BY <1>1, <1>2, FilesStayGone DEF requestVars, fileVars
<1> QED BY <1>1, <1>2, <1>3, CleanupOnly DEF requestVars

LEMMA MessagesKeep ==
    ASSUME ErasureInv, ReceiveMessage \/ StartDeriving \/ FinishDeriving
    PROVE  ErasureInv'
<1>1. UNCHANGED <<requestVars, object, fileVars, upload, reaper>>
    BY DEF ReceiveMessage, StartDeriving, FinishDeriving
<1>2. TextsGone'
    BY DEF ReceiveMessage, StartDeriving, FinishDeriving, MayStore, Closed, ErasureInv, TextsGone,
           requestVars
<1> QED BY <1>1, <1>2 DEF ErasureInv, ErasureShape, WritersHaveRows, ObjectsGone, There, FilesGone,
                          CompletedIsChecked, requestVars, fileVars

LEMMA PrepareKeeps == ASSUME ErasureInv, PrepareErasure PROVE ErasureInv'
<1>1. /\ request \notin {"none", "completed"} /\ texts' = {}
      /\ object' = [o \in MediaObject |-> AskedToDelete(o)]
      /\ request' = StageReached
      /\ UNCHANGED <<checked, fileVars, upload, reaper>> /\ ErasureShape
    BY DEF PrepareErasure, IsOpen, RedactTexts, ErasureInv
<1>2. /\ object' \in ObjectRows
      /\ \A o \in MediaObject : object'[o].state = object[o].state
    <2>1. \A o \in MediaObject : object[o] \in ObjectRow BY <1>1 DEF ErasureShape, ObjectRows
    <2>2. \A o \in MediaObject : AskedToDelete(o) \in ObjectRow /\ AskedToDelete(o).state = object[o].state
        BY <2>1 DEF AskedToDelete, ObjectRow
    <2> QED BY <1>1, <2>2 DEF ObjectRows
<1>3. ErasureShape' BY <1>1, <1>2 DEF ErasureShape, StageReached
<1>4. WritersHaveRows' BY <1>1, <1>2 DEF ErasureInv, WritersHaveRows, MediaObject
<1>5. request' \in {"derived_cleanup", "completed"} => ~MediaPending
    BY <1>1 DEF StageReached
<1>6. ObjectsGone' BY <1>2, <1>5 DEF ObjectsGone, MediaPending, There
<1>7. TextsGone' BY <1>1 DEF TextsGone
<1>8. CompletedIsChecked' BY <1>1 DEF CompletedIsChecked, StageReached
<1>9. FilesGone'
    <2> SUFFICES ASSUME checked \/ \E r \in Reapers : reaper[r].step = "recording"
                 PROVE  FilesGone'
        BY <1>1 DEF FilesGone
    <2>1. ~MediaPending BY DEF ErasureInv, FilesGone, ObjectsGone, MediaPending
    <2>2. request' \in {"derived_cleanup", "completed"} BY <1>1, <2>1 DEF StageReached
    <2> QED BY <1>1, <1>2, <2>2 DEF ErasureInv, FilesGone, fileVars
<1> QED BY <1>3, <1>4, <1>6, <1>7, <1>8, <1>9 DEF ErasureInv

LEMMA RequestKeeps == ASSUME ErasureInv, RequestErasure \/ OthersSettle PROVE ErasureInv'
<1>1. UNCHANGED <<object, files, remnants, markers, texts, upload, reaper, checked>>
    BY DEF RequestErasure, OthersSettle, messageVars, textVars, fileVars
<1>2. request' = request \/ (request = "none" /\ request' = "requested")
    BY DEF RequestErasure, OthersSettle
<1>3. ErasureShape' BY <1>1, <1>2 DEF ErasureInv, ErasureShape
<1>4. WritersHaveRows' BY <1>1 DEF ErasureInv, WritersHaveRows
<1>5. ObjectsGone' BY <1>1, <1>2 DEF ErasureInv, ObjectsGone, There
<1>6. TextsGone' /\ CompletedIsChecked'
    BY <1>1, <1>2 DEF ErasureInv, TextsGone, CompletedIsChecked
<1>7. FilesGone' BY <1>1, <1>2 DEF ErasureInv, FilesGone
<1> QED BY <1>3, <1>4, <1>5, <1>6, <1>7 DEF ErasureInv

LEMMA ErasureInvInit == ErasureInit => ErasureInv
<1> SUFFICES ASSUME ErasureInit PROVE ErasureInv OBVIOUS
<1>1. ErasureShape
    BY DEF ErasureInit, ErasureShape, NoObject, Unleased, ObjectRows, ObjectRow, ObjectState
<1>2. WritersHaveRows /\ ObjectsGone /\ TextsGone /\ CompletedIsChecked
    BY DEF ErasureInit, WritersHaveRows, ObjectsGone, TextsGone, CompletedIsChecked
<1>3. FilesGone BY DEF ErasureInit, FilesGone, Unleased
<1> QED BY <1>1, <1>2, <1>3 DEF ErasureInv

LEMMA ErasureInvStep == ErasureInv /\ [ErasureNext]_erasureVars => ErasureInv'
<1> SUFFICES ASSUME ErasureInv, [ErasureNext]_erasureVars PROVE ErasureInv' OBVIOUS
<1>1. ASSUME NEW i \in Images, UploadStep(i) \/ UploadCrashes(i) PROVE ErasureInv'
    BY <1>1, StoreFileKeeps, UploadKeeps, UploadEnds DEF UploadStep
<1>2. ASSUME NEW r \in Reapers, CleanupStep(r) \/ CleanupCrashes(r) PROVE ErasureInv'
    BY <1>2, ClaimKeeps, EraseKeeps, FinishKeeps, VerifyKeeps, RecordKeeps, CrashKeeps DEF CleanupStep
<1>3. CASE UNCHANGED erasureVars
    BY <1>3 DEF erasureVars, ErasureInv, ErasureShape, WritersHaveRows, ObjectsGone, There, TextsGone,
                FilesGone, CompletedIsChecked
<1> QED BY <1>1, <1>2, <1>3, MessagesKeep, FallsDueKeeps, RequestKeeps, PrepareKeeps DEF ErasureNext

\* Fairness plays no part in it, so it holds where the service is one of several too.
LEMMA ErasureSafely == ErasureInit /\ [][ErasureNext]_erasureVars => []ErasedScopeIsEmpty
<1>1. ErasureInv /\ [][ErasureNext]_erasureVars => []ErasureInv
    BY ErasureInvStep, PTL
<1>2. ErasureInv => ErasedScopeIsEmpty
    BY DEF ErasureInv, CompletedIsChecked, FilesGone, TextsGone, ErasedScopeIsEmpty
<1> QED BY <1>1, <1>2, ErasureInvInit, PTL

\* For any number of images and cleanups and however they crash: once an erasure is recorded as
\* complete the scope has no file and no text, and gets none later.
THEOREM ErasureSpecErasedScopeIsEmpty == ErasureSpec => []ErasedScopeIsEmpty
BY ErasureSafely, PTL DEF ErasureSpec

-----------------------------------------------------------------------------
(***************************************************************************)
(* The gate of a restored database. The gate opens on what a runner has    *)
(* seen before; so the invariant says what a runner beyond its checks may  *)
(* rely on, that an erasure begun again since the restore and completed    *)
(* left no content, and that a closed gate belongs to a generation after   *)
(* that of the backup.                                                     *)
(***************************************************************************)

\* Nothing is left of what the ledger says was erased, and no side effect is in doubt.
ErasedAgain == holding \cap ledgerGiven = {} /\ ~unsettled

RestoreShape ==
    /\ gate \in [state : {"validating", "open"}, generation : Nat]
    /\ erasure \in [Scope -> {"none", "requested", "completed"}]
    /\ holding \subseteq present /\ ledgerGiven \subseteq Scope
    /\ stage \in Nat \ {0}
    /\ late \in Command \cup {"none"}

\* A gate is closed into a generation after that of the backup.
ClosedIsNewer ==
    /\ gate.generation >= OldGeneration
    /\ gate.state = "validating" => gate.generation > OldGeneration

\* A scope whose erasure was begun again since the restore, and is complete, has no content.
ReplayedIsClean ==
    \A s \in Scope \ {"memory"}, g \in Nat :
        g > OldGeneration /\ <<g, s>> \in replays /\ erasure[s] = "completed" => s \notin holding

\* What a gate opened since, and a runner beyond its opening, have seen.
OpenedIsClean ==
    /\ gate.state = "open" /\ gate.generation > OldGeneration => ErasedAgain
    /\ stage > 5 \/ evidence = "PASS" => ErasedAgain

LedgerKept == ledgerGiven \subseteq replica

RestoreInv == RestoreShape /\ ClosedIsNewer /\ ReplayedIsClean /\ OpenedIsClean /\ LedgerKept

-----------------------------------------------------------------------------
LEMMA RestoreInvInit == RestoreInit => RestoreInv
<1> SUFFICES ASSUME RestoreInit PROVE RestoreInv OBVIOUS
<1>1. RestoreShape
    BY DEF RestoreInit, RestoreShape, BackupAgrees, OldGeneration, Ledger
<1>2. ClosedIsNewer BY DEF RestoreInit, ClosedIsNewer, OldGeneration
<1>3. ReplayedIsClean
    <2>1. replays \in SUBSET ({OldGeneration} \X inventoried) BY DEF RestoreInit
    <2>2. \A g, s : <<g, s>> \in replays => g = OldGeneration BY <2>1
    <2> QED BY <2>2 DEF ReplayedIsClean, OldGeneration
<1>4. OpenedIsClean BY DEF RestoreInit, OpenedIsClean, OldGeneration
<1> QED BY <1>1, <1>2, <1>3, <1>4 DEF RestoreInv, LedgerKept, RestoreInit

\* The facts a step keeps when the content only shrinks.
LEMMA CleanStaysClean ==
    ASSUME ErasedAgain, holding' \subseteq holding, ledgerGiven' = ledgerGiven,
           unsettled' => unsettled
    PROVE  ErasedAgain'
BY DEF ErasedAgain

\* A step of the gate, whoever ran it: the runner, the operator, or a command that came late.
LEMMA CommandKeeps ==
    ASSUME RestoreInv, NEW command \in Command, Takes(command),
           UNCHANGED <<ledgerGiven, unsettled>>
    PROVE  /\ gate' \in [state : {"validating", "open"}, generation : Nat]
           /\ erasure' \in [Scope -> {"none", "requested", "completed"}]
           /\ holding' \subseteq present'
           /\ holding' \subseteq holding
           /\ ClosedIsNewer' /\ ReplayedIsClean'
           /\ gate'.state = "open" /\ gate'.generation > OldGeneration => ErasedAgain'
           /\ command = "open" => ErasedAgain'
<1>0. /\ gate \in [state : {"validating", "open"}, generation : Nat]
      /\ erasure \in [Scope -> {"none", "requested", "completed"}]
      /\ holding \subseteq present /\ ledgerGiven \subseteq Scope
      /\ ClosedIsNewer /\ ReplayedIsClean /\ OpenedIsClean
    BY DEF RestoreInv, RestoreShape
<1>1. CASE command = "close"
    <2>1. /\ gate' = [state |-> "validating", generation |-> gate.generation + 1]
          /\ UNCHANGED <<present, holding, erasure, replays>>
        BY <1>1 DEF Takes, CloseGate
    <2>2. gate.generation \in Nat /\ gate.generation >= OldGeneration
        BY <1>0 DEF ClosedIsNewer
    <2>3. gate.generation + 1 \in Nat /\ gate.generation + 1 > OldGeneration
        BY <2>2 DEF OldGeneration
    <2>4. gate' \in [state : {"validating", "open"}, generation : Nat] BY <2>1, <2>3
    <2>5. ClosedIsNewer' BY <2>1, <2>3 DEF ClosedIsNewer, OldGeneration
    <2>6. ReplayedIsClean' BY <1>0, <2>1 DEF ReplayedIsClean
    <2>7. gate'.state # "open" BY <2>1
    <2> QED BY <1>0, <1>1, <2>1, <2>4, <2>5, <2>6, <2>7
<1>2. CASE command = "stage"
    <2> DEFINE fresh == {s \in ScopesGiven : <<gate.generation, s>> \notin replays}
               begun == [s \in Scope |-> IF s \in fresh THEN "requested" ELSE erasure[s]]
    <2>1. /\ gate.state = "validating" /\ UNCHANGED <<present, gate>>
          /\ holding' = holding \ Memories
          /\ erasure' = ReplayMemories(begun)
          /\ replays' = replays \cup ({gate.generation} \X fresh)
        BY <1>2 DEF Takes, StageReplay, RedactMemories
    <2>2. holding' \subseteq holding /\ holding' \subseteq present' BY <1>0, <2>1
    <2>3. /\ erasure' \in [Scope -> {"none", "requested", "completed"}]
          /\ \A s \in Scope \ {"memory"} :
                erasure'[s] = IF s \in fresh THEN "requested" ELSE erasure[s]
        <3>1. begun \in [Scope -> {"none", "requested", "completed"}] BY <1>0
        <3>2. \A s \in Scope \ {"memory"} : s \notin Memories BY DEF Memories
        <3>3. \A s \in Scope : erasure'[s] = IF s \in Memories THEN "completed" ELSE begun[s]
            BY <2>1 DEF ReplayMemories
        <3>4. \A s \in Scope \ {"memory"} : erasure'[s] = begun[s] BY <3>2, <3>3
        <3>5. erasure' \in [Scope -> {"none", "requested", "completed"}]
            BY <2>1, <3>1 DEF ReplayMemories
        <3> QED BY <3>4, <3>5
    <2>4. ReplayedIsClean'
        <3> SUFFICES ASSUME NEW s \in Scope \ {"memory"}, NEW g \in Nat,
                            g > OldGeneration, <<g, s>> \in replays', erasure'[s] = "completed"
                     PROVE  s \notin holding'
            BY DEF ReplayedIsClean
        <3>1. s \notin fresh /\ erasure[s] = "completed" BY <2>3
        <3>2. <<g, s>> \in replays
            <4>1. <<g, s>> \notin {gate.generation} \X fresh BY <3>1
            <4> QED BY <2>1, <4>1
        <3>3. s \notin holding BY <1>0, <3>1, <3>2 DEF ReplayedIsClean
        <3> QED BY <2>2, <3>3
    <2>5. ClosedIsNewer' BY <1>0, <2>1 DEF ClosedIsNewer
    <2>6. gate'.state # "open" BY <2>1
    <2> QED BY <1>0, <1>2, <2>1, <2>2, <2>3, <2>4, <2>5, <2>6
<1>3. CASE command = "open"
    <2>1. /\ MayOpen /\ UNCHANGED <<present, replays>>
          /\ holding' = holding \ Memories
          /\ erasure' = ReplayMemories(erasure)
          /\ gate' = [gate EXCEPT !.state = "open"]
        BY <1>3 DEF Takes, VerifyAndOpen, RedactMemories
    <2>2. holding' \subseteq holding /\ holding' \subseteq present' BY <1>0, <2>1
    <2>3. /\ erasure' \in [Scope -> {"none", "requested", "completed"}]
          /\ \A s \in Scope \ {"memory"} : erasure'[s] = erasure[s]
        BY <1>0, <2>1 DEF ReplayMemories, Memories
    <2>4. ReplayedIsClean' BY <1>0, <2>1, <2>2, <2>3 DEF ReplayedIsClean
    <2>5. gate.state = "validating" /\ gate.generation > OldGeneration /\ gate.generation \in Nat
        BY <1>0, <2>1 DEF MayOpen, ClosedIsNewer
    <2>6. /\ gate' \in [state : {"validating", "open"}, generation : Nat]
          /\ gate'.generation = gate.generation /\ gate'.state = "open"
        BY <1>0, <2>1
    <2>7. ClosedIsNewer' BY <2>5, <2>6 DEF ClosedIsNewer, OldGeneration
    <2>8. ~unsettled' BY <2>1 DEF MayOpen, SideEffectsSettled
    <2>9. ASSUME NEW s \in holding', s \in ledgerGiven, s \in Scope PROVE FALSE
        <3>1. CASE s = "memory"
            <4>1. s \in present BY <1>0, <2>2, <2>9
            <4>2. s \in Memories BY <2>9, <3>1, <4>1 DEF Memories
            <4> QED BY <2>1, <2>9, <4>2
        <3>2. CASE s # "memory"
            <4>1. s \in ScopesGiven BY <2>9, <3>2 DEF ScopesGiven
            <4>2. erasure[s] = "completed" /\ <<gate.generation, s>> \in replays
                BY <2>1, <4>1 DEF MayOpen, ScopeVerified
            <4>3. s \notin holding BY <1>0, <2>5, <2>9, <3>2, <4>2 DEF ReplayedIsClean
            <4> QED BY <2>2, <2>9, <4>3
        <3> QED BY <3>1, <3>2
    <2>10. ErasedAgain' BY <1>0, <2>8, <2>9 DEF ErasedAgain
    <2> QED BY <1>3, <2>2, <2>3, <2>4, <2>6, <2>7, <2>10
<1> QED BY <1>1, <1>2, <1>3 DEF Command

\* The content only shrinks, and nothing becomes doubtful again: what has been seen clean stays so.
LEMMA Assembled ==
    ASSUME RestoreInv, UNCHANGED <<ledgerGiven, replica>>, unsettled' => unsettled,
           /\ gate' \in [state : {"validating", "open"}, generation : Nat]
           /\ erasure' \in [Scope -> {"none", "requested", "completed"}]
           /\ holding' \subseteq present' /\ holding' \subseteq holding
           /\ ClosedIsNewer' /\ ReplayedIsClean'
           /\ gate'.state = "open" /\ gate'.generation > OldGeneration => ErasedAgain',
           stage' \in Nat \ {0}, late' \in Command \cup {"none"},
           stage' > 5 \/ evidence' = "PASS" => stage > 5 \/ evidence = "PASS" \/ ErasedAgain'
    PROVE  RestoreInv'
<1>1. ledgerGiven \subseteq Scope BY DEF RestoreInv, RestoreShape
<1>2. RestoreShape' BY <1>1 DEF RestoreShape
<1>3. ErasedAgain => ErasedAgain' BY CleanStaysClean
<1>4. stage > 5 \/ evidence = "PASS" => ErasedAgain BY DEF RestoreInv, OpenedIsClean
<1>5. OpenedIsClean' BY <1>3, <1>4 DEF OpenedIsClean
<1>6. LedgerKept' BY DEF RestoreInv, LedgerKept
<1> QED BY <1>2, <1>5, <1>6 DEF RestoreInv

\* The same of a step that leaves the gate, the content and the erasures alone.
LEMMA RunnerMoves ==
    ASSUME RestoreInv, UNCHANGED <<ledgerGiven, gateRows, replica>>, unsettled' => unsettled,
           stage' \in Nat \ {0}, late' \in Command \cup {"none"},
           stage' > 5 \/ evidence' = "PASS" => stage > 5 \/ evidence = "PASS"
    PROVE  RestoreInv'
<1>1. UNCHANGED <<present, holding, erasure, replays, gate>> BY DEF gateRows
<1>2. /\ ClosedIsNewer' /\ ReplayedIsClean'
      /\ gate'.state = "open" /\ gate'.generation > OldGeneration => ErasedAgain'
    BY <1>1 DEF RestoreInv, ClosedIsNewer, ReplayedIsClean, OpenedIsClean, ErasedAgain
<1>3. /\ gate' \in [state : {"validating", "open"}, generation : Nat]
      /\ erasure' \in [Scope -> {"none", "requested", "completed"}]
      /\ holding' \subseteq present' /\ holding' \subseteq holding
    BY <1>1 DEF RestoreInv, RestoreShape
<1> QED BY <1>2, <1>3, Assembled

\* The stages come in their order.
LEMMA StageOrder ==
    ASSUME RestoreInv, NEW name, Completes(name)
    PROVE  /\ stage \in 1..6 /\ stage' = stage + 1 /\ stage' \in Nat \ {0}
           /\ stage = 5 => name = "open"
           /\ name = "check" => stage = 6
<1>1. stage \in Nat \ {0} BY DEF RestoreInv, RestoreShape
<1>2. Len(Stages) = 6 BY DEF Stages
<1>3. stage <= 6 /\ Stages[stage] = name /\ stage' = stage + 1 BY <1>2 DEF Completes
<1>4. /\ Stages[1] = "restore" /\ Stages[2] = "migrate" /\ Stages[3] = "close"
      /\ Stages[4] = "stage" /\ Stages[5] = "open" /\ Stages[6] = "check"
    BY DEF Stages
<1>5. stage \in {1, 2, 3, 4, 5, 6} BY <1>1, <1>3
<1> QED BY <1>1, <1>3, <1>4, <1>5

-----------------------------------------------------------------------------
LEMMA RestoreInvStep == RestoreInv /\ [RestoreNext]_restoreVars => RestoreInv'
<1> SUFFICES ASSUME RestoreInv, [RestoreNext]_restoreVars PROVE RestoreInv' OBVIOUS
<1>0. stage \in Nat \ {0} /\ late \in Command \cup {"none"} /\ RestoreShape
    BY DEF RestoreInv, RestoreShape
<1>1. ASSUME NEW name \in {"restore", "migrate"}, BringBack(name) PROVE RestoreInv'
    <2>1. /\ Completes(name)
          /\ UNCHANGED <<ledgerGiven, gateRows, unsettled, evidence, late, replica>>
        BY <1>1 DEF BringBack
    <2>2. stage \in 1..6 /\ stage' = stage + 1 /\ stage # 5 BY <1>1, <2>1, StageOrder
    <2>3. stage' > 5 => stage > 5 BY <2>2
    <2>4. stage' \in Nat \ {0} /\ late' \in Command \cup {"none"} BY <1>0, <2>1, <2>2
    <2> QED BY <2>1, <2>3, <2>4, RunnerMoves
<1>2. ASSUME NEW command \in Command, RunCommand(command) PROVE RestoreInv'
    <2>1. /\ Completes(command) /\ Takes(command)
          /\ UNCHANGED <<ledgerGiven, unsettled, evidence, late, replica>>
        BY <1>2 DEF RunCommand
    <2>2. /\ stage \in 1..6 /\ stage' = stage + 1 /\ stage' \in Nat \ {0}
          /\ stage = 5 => command = "open"
        BY <2>1, StageOrder
    <2>3. /\ gate' \in [state : {"validating", "open"}, generation : Nat]
          /\ erasure' \in [Scope -> {"none", "requested", "completed"}]
          /\ holding' \subseteq present' /\ holding' \subseteq holding
          /\ ClosedIsNewer' /\ ReplayedIsClean'
          /\ gate'.state = "open" /\ gate'.generation > OldGeneration => ErasedAgain'
          /\ command = "open" => ErasedAgain'
        BY <2>1, CommandKeeps
    <2>4. stage' > 5 => stage > 5 \/ ErasedAgain' BY <2>2, <2>3
    <2> QED BY <1>0, <2>1, <2>2, <2>3, <2>4, Assembled
<1>3. ASSUME NEW command \in Command,
             Takes(command), UNCHANGED <<ledgerGiven, unsettled, stage, evidence, replica>>,
             late' \in Command \cup {"none"}
      PROVE RestoreInv'
    <2>1. /\ gate' \in [state : {"validating", "open"}, generation : Nat]
          /\ erasure' \in [Scope -> {"none", "requested", "completed"}]
          /\ holding' \subseteq present' /\ holding' \subseteq holding
          /\ ClosedIsNewer' /\ ReplayedIsClean'
          /\ gate'.state = "open" /\ gate'.generation > OldGeneration => ErasedAgain'
        BY <1>3, CommandKeeps
    <2> QED BY <1>0, <1>3, <2>1, Assembled
<1>4. ASSUME NEW command \in Command, OperatorRuns(command) PROVE RestoreInv'
    <2>1. UNCHANGED <<ledgerGiven, unsettled, stage, evidence, late, replica>>
        BY <1>4 DEF OperatorRuns
    <2>2. CASE Takes(command) BY <1>0, <1>3, <2>1, <2>2
    <2>3. CASE UNCHANGED <<present, holding, erasure, inventoried, replays, recorded, gate>>
        <3>1. /\ gate' \in [state : {"validating", "open"}, generation : Nat]
              /\ erasure' \in [Scope -> {"none", "requested", "completed"}]
              /\ holding' \subseteq present' /\ holding' \subseteq holding
            BY <2>3 DEF RestoreInv, RestoreShape
        <3>2. /\ ClosedIsNewer' /\ ReplayedIsClean'
              /\ gate'.state = "open" /\ gate'.generation > OldGeneration => ErasedAgain'
            BY <2>1, <2>3 DEF RestoreInv, ClosedIsNewer, ReplayedIsClean, OpenedIsClean, ErasedAgain
        <3> QED BY <1>0, <2>1, <3>1, <3>2, Assembled
    <2> QED BY <1>4, <2>2, <2>3 DEF OperatorRuns
<1>5. CASE StageFails
    <2>1. UNCHANGED <<ledgerGiven, gateRows, unsettled, stage, replica>> /\ evidence' = "FAIL"
          /\ late' \in Command \cup {"none"}
        BY <1>5 DEF StageFails
    <2> QED BY <1>0, <2>1, RunnerMoves
<1>6. CASE CheckRuntimeSet
    <2>1. /\ Completes("check")
          /\ UNCHANGED <<ledgerGiven, gateRows, unsettled, late, replica>>
        BY <1>6 DEF CheckRuntimeSet
    <2>2. stage > 5 /\ stage' \in Nat \ {0} BY <2>1, StageOrder
    <2> QED BY <1>0, <2>1, <2>2, RunnerMoves
<1>7. CASE RuntimeSetInvalid
    <2>1. /\ Completes("check") /\ (CloseGate \/ UNCHANGED gateRows)
          /\ UNCHANGED <<ledgerGiven, unsettled, late, replica>>
        BY <1>7 DEF RuntimeSetInvalid
    <2>2. stage > 5 /\ stage' \in Nat \ {0} BY <2>1, StageOrder
    <2>3. CASE UNCHANGED gateRows BY <1>0, <2>1, <2>2, <2>3, RunnerMoves
    <2>4. CASE CloseGate
        <3>1. "close" \in Command /\ Takes("close") BY <2>4 DEF Command, Takes
        <3>2. /\ gate' \in [state : {"validating", "open"}, generation : Nat]
              /\ erasure' \in [Scope -> {"none", "requested", "completed"}]
              /\ holding' \subseteq present' /\ holding' \subseteq holding
              /\ ClosedIsNewer' /\ ReplayedIsClean'
              /\ gate'.state = "open" /\ gate'.generation > OldGeneration => ErasedAgain'
            BY <2>1, <3>1, CommandKeeps
        <3> QED BY <1>0, <2>1, <2>2, <3>2, Assembled
    <2> QED BY <2>1, <2>3, <2>4
<1>8. CASE LateCommand
    <2>1. /\ late \in Command /\ Takes(late) /\ late' = "none"
          /\ UNCHANGED <<ledgerGiven, unsettled, stage, evidence, replica>>
        BY <1>0, <1>8 DEF LateCommand
    <2> QED BY <1>3, <2>1
<1>9. ASSUME NEW s \in Scope, CleanScope(s) PROVE RestoreInv'
    <2>1. /\ holding' = holding \ {s}
          /\ UNCHANGED <<ledgerGiven, present, erasure, replays, unsettled, gate, stage, evidence,
                         late, replica>>
        BY <1>9 DEF CleanScope
    <2>2. /\ gate' \in [state : {"validating", "open"}, generation : Nat]
          /\ erasure' \in [Scope -> {"none", "requested", "completed"}]
          /\ holding' \subseteq present' /\ holding' \subseteq holding
        BY <2>1 DEF RestoreInv, RestoreShape
    <2>3. /\ ClosedIsNewer' /\ ReplayedIsClean'
          /\ gate'.state = "open" /\ gate'.generation > OldGeneration => ErasedAgain'
        BY <2>1 DEF RestoreInv, ClosedIsNewer, ReplayedIsClean, OpenedIsClean, ErasedAgain
    <2> QED BY <1>0, <2>1, <2>2, <2>3, Assembled
<1>10. ASSUME NEW s \in Scope, ConfirmErasure(s) PROVE RestoreInv'
    <2>1. /\ s \notin holding /\ erasure' = [erasure EXCEPT ![s] = "completed"]
          /\ UNCHANGED <<ledgerGiven, present, holding, replays, unsettled, gate, stage, evidence,
                         late, replica>>
        BY <1>10 DEF ConfirmErasure
    <2>2. /\ gate' \in [state : {"validating", "open"}, generation : Nat]
          /\ erasure' \in [Scope -> {"none", "requested", "completed"}]
          /\ holding' \subseteq present' /\ holding' \subseteq holding
        BY <2>1 DEF RestoreInv, RestoreShape
    <2>3. /\ ClosedIsNewer' /\ ReplayedIsClean'
          /\ gate'.state = "open" /\ gate'.generation > OldGeneration => ErasedAgain'
        BY <2>1 DEF RestoreInv, RestoreShape, ClosedIsNewer, ReplayedIsClean, OpenedIsClean,
                    ErasedAgain
    <2> QED BY <1>0, <2>1, <2>2, <2>3, Assembled
<1>11. CASE SettleEffects
    <2>1. UNCHANGED <<ledgerGiven, gateRows, stage, evidence, late, replica>> /\ ~unsettled'
        BY <1>11 DEF SettleEffects
    <2> QED BY <1>0, <2>1, RunnerMoves
<1>12. CASE ReplicateLedger
    <2>1. UNCHANGED <<ledgerGiven, present, holding, erasure, replays, gate, unsettled, stage,
                      evidence, late>>
        BY <1>12 DEF ReplicateLedger, gateRows
    <2>2. replica \subseteq replica' BY <1>12 DEF ReplicateLedger, HistoryRegressed
    <2>3. LedgerKept' BY <2>1, <2>2 DEF RestoreInv, LedgerKept
    <2> QED BY <2>1, <2>3 DEF RestoreInv, RestoreShape, ClosedIsNewer, ReplayedIsClean,
                              OpenedIsClean, ErasedAgain
<1>13. CASE UNCHANGED restoreVars
    BY <1>0, <1>13, RunnerMoves DEF restoreVars, gateRows
<1> QED BY <1>1, <1>2, <1>4, <1>5, <1>6, <1>7, <1>8, <1>9, <1>10, <1>11, <1>12, <1>13 DEF RestoreNext

\* Whatever the backup, the ledger and the order of the commands, however often the gate is closed: an
\* opened gate and a passed manifest mean that what the ledger names is gone and nothing is in doubt,
\* and the copy of the ledger keeps every erasure.
THEOREM RestoreSpecErasureSurvives == RestoreSpec => []ErasureSurvivesRestore
<1>1. RestoreInv /\ [][RestoreNext]_restoreVars => []RestoreInv
    BY RestoreInvStep, PTL
<1>2. RestoreInv => ErasureSurvivesRestore
    BY DEF RestoreInv, OpenedIsClean, LedgerKept, ErasedAgain, ErasureSurvivesRestore
<1> QED BY <1>1, <1>2, RestoreInvInit, PTL DEF RestoreSpec

-----------------------------------------------------------------------------
(***************************************************************************)
(* The files of an erased export are gone for good, for any number of      *)
(* exporters and passes of the maintenance. The record that the files are  *)
(* cleaned is written with the lock in hand, and every step that writes a  *)
(* file has the lock as well; the invariant says who has it when, and that *)
(* a row that was revoked is never claimed again, so that an exporter that *)
(* gets the lock later does not pass its fence.                            *)
(***************************************************************************)

USE ExportConstants

ExporterRow == [step : {"idle", "claimed", "locked", "fenced", "writing", "written", "sealed",
                        "failing", "over"},
                attempt : 0..MaxExportAttempts, owns : BOOLEAN]
CleanerRow == [step : {"idle", "removed", "looked", "erasing", "erased"}, seen : ExportRow]

ExportShape ==
    /\ export \in ExportRow
    /\ exporter \in [Exporters -> ExporterRow]
    /\ cleaner \in [Cleaners -> CleanerRow]

\* who works on the files has the lock
ExporterHasLock ==
    \A e \in Exporters :
        exporter[e].step \in {"locked", "fenced", "writing", "written", "sealed"} =>
            artifactLock = e
CleanerHasLock ==
    \A c \in Cleaners : cleaner[c].step \in {"erasing", "erased"} => artifactLock = c

ErasedIsEmpty == \A c \in Cleaners : cleaner[c].step = "erased" => artifacts = {}

SeenIsRevoked ==
    \A c \in Cleaners : cleaner[c].step \in {"looked", "erasing", "erased"} => cleaner[c].seen.revoked

\* a revoked row is past being claimed
RevokedIsOver == export.revoked => export.state \in {"completed", "failed"}

CleanedIsRevoked == export.cleaned => export.revoked

\* nobody is past the fence when the files are recorded as cleaned
NobodyWrites ==
    export.cleaned => \A e \in Exporters : exporter[e].step \notin {"fenced", "writing"}

ExportInv ==
    /\ ExportShape
    /\ ExporterHasLock /\ CleanerHasLock
    /\ ErasedIsEmpty /\ SeenIsRevoked
    /\ RevokedIsOver /\ CleanedIsRevoked /\ NobodyWrites
    /\ ErasedExportIsGone

\* what a step of exporter e may do to the row: it keeps what the erasure wrote, and touches nothing
\* that was revoked
RowKept ==
    /\ export' \in ExportRow
    /\ export'.revoked = export.revoked /\ export'.cleaned = export.cleaned
    /\ export.revoked => export'.state = export.state

LEMMA RowKeptKeeps ==
    ASSUME ExportInv, RowKept
    PROVE  /\ export' \in ExportRow /\ RevokedIsOver' /\ CleanedIsRevoked'
           /\ export'.cleaned = export.cleaned
  BY DEF ExportInv, RowKept, RevokedIsOver, CleanedIsRevoked

\* the lock may go from nobody to the exporter and back, its own step changes, and files change
\* only where the exporter has the lock
LEMMA ExporterKeepsInv ==
    ASSUME ExportInv, NEW e \in Exporters, RowKept, UNCHANGED cleaner,
           exporter' \in [Exporters -> ExporterRow],
           \A f \in Exporters \ {e} : exporter'[f] = exporter[f],
           \/ artifactLock' = artifactLock
           \/ artifactLock = NoOwner /\ artifactLock' = e
           \/ artifactLock = e /\ artifactLock' = NoOwner,
           exporter'[e].step \in {"locked", "fenced", "writing", "written", "sealed"} =>
               artifactLock' = e,
           exporter'[e].step \in {"fenced", "writing"} => ~export.cleaned,
           artifacts' \subseteq artifacts \/ (artifactLock = e /\ ~export.cleaned)
    PROVE  ExportInv'
<1>1. /\ export' \in ExportRow /\ RevokedIsOver' /\ CleanedIsRevoked'
      /\ export'.cleaned = export.cleaned
  BY RowKeptKeeps
<1>2. ExportShape'
  BY <1>1 DEF ExportInv, ExportShape
<1>3. \A f \in Exporters \ {e} :
          exporter'[f].step \in {"locked", "fenced", "writing", "written", "sealed"} =>
              artifactLock' = f
  BY DEF ExportInv, ExporterHasLock
<1>4. ExporterHasLock'
  BY <1>3 DEF ExporterHasLock
<1>5. \A c \in Cleaners : cleaner[c].step \in {"erasing", "erased"} =>
          artifactLock = c /\ artifactLock # e /\ artifactLock' = c
  BY DEF ExportInv, CleanerHasLock
<1>6. CleanerHasLock' /\ SeenIsRevoked'
  BY <1>5 DEF ExportInv, CleanerHasLock, SeenIsRevoked
<1>7. ErasedIsEmpty'
  BY <1>5 DEF ExportInv, ErasedIsEmpty
<1>8. NobodyWrites'
  BY <1>1 DEF ExportInv, NobodyWrites
<1>9. ErasedExportIsGone'
  BY <1>1 DEF ExportInv, ErasedExportIsGone
<1>. QED
  BY <1>1, <1>2, <1>4, <1>6, <1>7, <1>8, <1>9 DEF ExportInv

\* an exporter goes on to another step, and no other one does
LEMMA GotoKeepsOthers ==
    ASSUME ExportShape, NEW e \in Exporters, NEW step \in {"idle", "claimed", "locked", "fenced",
               "writing", "written", "sealed", "failing", "over"}, Goto(e, step)
    PROVE  /\ exporter' \in [Exporters -> ExporterRow]
           /\ \A f \in Exporters \ {e} : exporter'[f] = exporter[f]
           /\ exporter'[e].step = step
  BY DEF ExportShape, ExporterRow, Goto

LEMMA FailsKeepsOthers ==
    ASSUME ExportShape, NEW e \in Exporters, NEW owns \in BOOLEAN, Fails(e, owns)
    PROVE  /\ exporter' \in [Exporters -> ExporterRow]
           /\ \A f \in Exporters \ {e} : exporter'[f] = exporter[f]
           /\ exporter'[e].step = "failing"
<1> DEFINE row == [exporter[e] EXCEPT !.step = "failing", !.owns = owns]
<1>1. exporter[e] \in ExporterRow /\ exporter \in [Exporters -> ExporterRow]
  BY DEF ExportShape
<1>2. row \in ExporterRow /\ row.step = "failing"
  BY <1>1 DEF ExporterRow
<1>3. exporter' = [exporter EXCEPT ![e] = row]
  BY <1>1 DEF Fails
<1> HIDE DEF row
<1>. QED
  BY <1>1, <1>2, <1>3

\* a claim that holds is not one of a revoked row, nor of a cleaned one
LEMMA HeldIsNotRevoked ==
    ASSUME ExportInv, NEW e \in Exporters, ClaimHeld(e)
    PROVE  ~export.revoked /\ ~export.cleaned
  BY DEF ExportInv, RevokedIsOver, CleanedIsRevoked, ClaimHeld

LEMMA RowUnchanged ==
    ASSUME ExportInv, UNCHANGED export
    PROVE  RowKept
  BY DEF ExportInv, ExportShape, RowKept

\* the rows the exporter writes
LEMMA RowWritten ==
    ASSUME ExportInv, NEW e \in Exporters,
           \/ /\ ExportClaimable /\ export.attempt < MaxExportAttempts
              /\ export' = [export EXCEPT !.state = "claimed", !.owner = e, !.lapsed = FALSE,
                                          !.attempt = @ + 1]
           \/ ClaimHeld(e) /\ export' = CompletedRow
           \/ ClaimHeld(e) /\ export' = [export EXCEPT !.state = "failed", !.owner = NoOwner]
    PROVE  RowKept
<1>0. export \in ExportRow
  BY DEF ExportInv, ExportShape
<1>1. ~export.revoked
  BY HeldIsNotRevoked DEF ExportInv, RevokedIsOver, ExportClaimable
<1>2. CASE /\ ExportClaimable /\ export.attempt < MaxExportAttempts
           /\ export' = [export EXCEPT !.state = "claimed", !.owner = e, !.lapsed = FALSE,
                                       !.attempt = @ + 1]
  <2>1. export.attempt + 1 \in 0..MaxExportAttempts
    BY <1>0, <1>2 DEF ExportRow
  <2>. QED
    BY <1>0, <1>1, <1>2, <2>1 DEF RowKept, ExportRow
<1>3. CASE ClaimHeld(e) /\ export' = CompletedRow
  BY <1>0, <1>1, <1>3 DEF RowKept, ExportRow, CompletedRow
<1>4. CASE ClaimHeld(e) /\ export' = [export EXCEPT !.state = "failed", !.owner = NoOwner]
  BY <1>0, <1>1, <1>4 DEF RowKept, ExportRow
<1>. QED
  BY <1>2, <1>3, <1>4

LEMMA ExporterStepKeepsInv ==
    ASSUME ExportInv, NEW e \in Exporters, ExporterStep(e) \/ ExporterCrashes(e)
    PROVE  ExportInv'
<1>. USE DEF At
<1>0. ExportShape /\ exporter[e].attempt \in 0..MaxExportAttempts
  BY DEF ExportInv, ExportShape, ExporterRow
<1>1. CASE ClaimExport(e)
  <2>1. RowKept /\ UNCHANGED <<artifacts, artifactLock, cleaner>>
    BY <1>1, RowWritten DEF ClaimExport
  <2>2. export.attempt + 1 \in 0..MaxExportAttempts
    BY <1>0, <1>1 DEF ClaimExport, ExportShape, ExportRow
  <2>3. /\ exporter' \in [Exporters -> ExporterRow]
        /\ \A f \in Exporters \ {e} : exporter'[f] = exporter[f]
        /\ exporter'[e].step = "claimed"
    BY <1>0, <1>1, <2>2 DEF ClaimExport, ExportShape, ExporterRow
  <2>. QED
    BY <2>1, <2>3, ExporterKeepsInv
<1>2. CASE LockArtifact(e)
  <2>1. RowKept /\ UNCHANGED <<artifacts, cleaner>>
    BY <1>2, RowUnchanged DEF LockArtifact
  <2>2. CASE artifactLock = NoOwner
    BY <1>0, <1>2, <2>1, <2>2, GotoKeepsOthers, ExporterKeepsInv DEF LockArtifact
  <2>3. CASE artifactLock # NoOwner
    BY <1>0, <1>2, <2>1, <2>3, GotoKeepsOthers, ExporterKeepsInv DEF LockArtifact
  <2>. QED
    BY <2>2, <2>3
<1>3. CASE FenceUnderLock(e)
  <2>1. RowKept /\ UNCHANGED <<artifacts, artifactLock, cleaner>> /\ artifactLock = e
    BY <1>3, RowUnchanged DEF FenceUnderLock, ExportInv, ExporterHasLock
  <2>2. CASE HeldUnderLock(e)
    BY <1>0, <1>3, <2>1, <2>2, GotoKeepsOthers, HeldIsNotRevoked, ExporterKeepsInv
       DEF FenceUnderLock, HeldUnderLock
  <2>3. CASE ~HeldUnderLock(e)
    BY <1>0, <1>3, <2>1, <2>3, FailsKeepsOthers, ExporterKeepsInv DEF FenceUnderLock
  <2>. QED
    BY <2>2, <2>3
<1>4. CASE OpenTemporary(e)
  <2>1. RowKept /\ UNCHANGED <<artifactLock, cleaner>> /\ artifactLock = e /\ ~export.cleaned
    BY <1>4, RowUnchanged DEF OpenTemporary, ExportInv, ExporterHasLock, NobodyWrites
  <2>. QED
    BY <1>0, <1>4, <2>1, GotoKeepsOthers, ExporterKeepsInv DEF OpenTemporary
<1>5. CASE EncryptExport(e)
  <2>1. RowKept /\ UNCHANGED <<artifactLock, cleaner>> /\ artifactLock = e /\ ~export.cleaned
    BY <1>5, RowUnchanged DEF EncryptExport, ExportInv, ExporterHasLock, NobodyWrites
  <2>2. Goto(e, "written") \/ Fails(e, TRUE)
    BY <1>5 DEF EncryptExport
  <2>. QED
    BY <1>0, <2>1, <2>2, GotoKeepsOthers, FailsKeepsOthers, ExporterKeepsInv
<1>6. CASE SealExport(e)
  <2>1. RowKept /\ UNCHANGED <<artifacts, artifactLock, cleaner>> /\ artifactLock = e
    BY <1>6, RowUnchanged DEF SealExport, ExportInv, ExporterHasLock
  <2>2. Goto(e, "sealed") \/ Fails(e, FALSE)
    BY <1>6 DEF SealExport
  <2>. QED
    BY <1>0, <2>1, <2>2, GotoKeepsOthers, FailsKeepsOthers, ExporterKeepsInv
<1>7. CASE FinalizeExport(e)
  <2>1. artifactLock = e /\ UNCHANGED <<artifacts, cleaner>>
    BY <1>7 DEF FinalizeExport, ExportInv, ExporterHasLock
  <2>2. RowKept
    BY <1>7, RowWritten, RowUnchanged DEF FinalizeExport
  <2>3. \/ Goto(e, "over") /\ artifactLock' = NoOwner
        \/ Fails(e, FALSE) /\ UNCHANGED artifactLock
        \/ Fails(e, TRUE) /\ UNCHANGED artifactLock
    BY <1>7 DEF FinalizeExport
  <2>. QED
    BY <1>0, <2>1, <2>2, <2>3, GotoKeepsOthers, FailsKeepsOthers, ExporterKeepsInv
<1>8. CASE GiveUpExport(e)
  <2>1. RowKept
    BY <1>8, RowWritten, RowUnchanged DEF GiveUpExport
  <2>2. Goto(e, "over") /\ UNCHANGED cleaner /\ artifacts' \subseteq artifacts
    BY <1>8 DEF GiveUpExport
  <2>3. artifactLock' = artifactLock \/ (artifactLock = e /\ artifactLock' = NoOwner)
    BY <1>8 DEF GiveUpExport
  <2>. QED
    BY <1>0, <2>1, <2>2, <2>3, GotoKeepsOthers, ExporterKeepsInv
<1>9. CASE ExporterCrashes(e)
  <2>1. RowKept /\ UNCHANGED <<artifacts, cleaner>>
    BY <1>9, RowUnchanged DEF ExporterCrashes
  <2>2. Goto(e, "over")
    BY <1>9 DEF ExporterCrashes
  <2>3. artifactLock' = artifactLock \/ (artifactLock = e /\ artifactLock' = NoOwner)
    BY <1>9 DEF ExporterCrashes
  <2>. QED
    BY <1>0, <2>1, <2>2, <2>3, GotoKeepsOthers, ExporterKeepsInv
<1>. QED
  BY <1>1, <1>2, <1>3, <1>4, <1>5, <1>6, <1>7, <1>8, <1>9 DEF ExporterStep

-----------------------------------------------------------------------------
(* The maintenance *)

\* only the pass that has the lock goes on, and files only go
LEMMA CleanerKeepsInv ==
    ASSUME ExportInv, NEW c \in Cleaners, UNCHANGED exporter,
           export' \in ExportRow, RevokedIsOver', CleanedIsRevoked',
           export'.cleaned => export.cleaned \/ (artifactLock = c /\ artifacts = {}),
           cleaner' \in [Cleaners -> CleanerRow],
           \A d \in Cleaners \ {c} : cleaner'[d] = cleaner[d],
           \/ artifactLock' = artifactLock
           \/ artifactLock = NoOwner /\ artifactLock' = c
           \/ artifactLock = c /\ artifactLock' = NoOwner,
           cleaner'[c].step \in {"erasing", "erased"} => artifactLock' = c,
           cleaner'[c].step = "erased" => artifacts' = {},
           cleaner'[c].step \in {"looked", "erasing", "erased"} => cleaner'[c].seen.revoked,
           artifacts' \subseteq artifacts
    PROVE  ExportInv'
<1>1. ExportShape'
  BY DEF ExportInv, ExportShape
<1>2. ExporterHasLock'
  BY DEF ExportInv, ExporterHasLock
<1>3. \A d \in Cleaners \ {c} : cleaner'[d].step \in {"erasing", "erased"} => artifactLock' = d
  BY DEF ExportInv, CleanerHasLock
<1>4. CleanerHasLock'
  BY <1>3 DEF CleanerHasLock
<1>5. ErasedIsEmpty' /\ SeenIsRevoked'
  BY DEF ExportInv, ErasedIsEmpty, SeenIsRevoked
<1>6. NobodyWrites'
  <2>1. CASE export.cleaned
    BY <2>1 DEF ExportInv, NobodyWrites
  <2>2. CASE artifactLock = c
    BY <2>2 DEF ExportInv, ExporterHasLock, NobodyWrites
  <2>. QED
    BY <2>1, <2>2 DEF NobodyWrites
<1>7. ErasedExportIsGone'
  BY DEF ExportInv, ErasedExportIsGone
<1>. QED
  BY <1>1, <1>2, <1>4, <1>5, <1>6, <1>7 DEF ExportInv

LEMMA CleanerStepKeepsInv ==
    ASSUME ExportInv, NEW c \in Cleaners, CleanerStep(c) \/ CleanerCrashes(c)
    PROVE  ExportInv'
<1>0. /\ export \in ExportRow /\ cleaner \in [Cleaners -> CleanerRow]
      /\ RevokedIsOver /\ CleanedIsRevoked
      /\ cleaner[c].seen \in ExportRow
  BY DEF ExportInv, ExportShape, CleanerRow
<1>. DEFINE Moves(step, seen) ==
        /\ cleaner' \in [Cleaners -> CleanerRow]
        /\ \A d \in Cleaners \ {c} : cleaner'[d] = cleaner[d]
        /\ cleaner'[c].step = step /\ cleaner'[c].seen = seen
<1>1. ASSUME NEW step \in {"idle", "removed", "looked", "erasing", "erased"},
             cleaner' = [cleaner EXCEPT ![c].step = step]
      PROVE  Moves(step, cleaner[c].seen)
  BY <1>0, <1>1 DEF CleanerRow
<1>2. ASSUME NEW step \in {"idle", "removed", "looked", "erasing", "erased"},
             cleaner' = [cleaner EXCEPT ![c] = [step |-> step, seen |-> export]]
      PROVE  Moves(step, export)
  BY <1>0, <1>2 DEF CleanerRow
<1>3. UNCHANGED export => RevokedIsOver' /\ CleanedIsRevoked' /\ export' \in ExportRow
  BY <1>0 DEF RevokedIsOver, CleanedIsRevoked
<1>4. CASE RemoveExpired(c)
  <2>1. Moves("removed", export)
    BY <1>2, <1>4 DEF RemoveExpired
  <2>. QED
    BY <1>3, <1>4, <2>1, CleanerKeepsInv DEF RemoveExpired
<1>5. CASE MarkRemoved(c)
  <2>1. Moves("idle", cleaner[c].seen)
    BY <1>1, <1>5 DEF MarkRemoved
  <2>2. /\ export' \in ExportRow /\ export'.cleaned = export.cleaned
        /\ RevokedIsOver' /\ CleanedIsRevoked'
    BY <1>0, <1>5 DEF MarkRemoved, RevokedIsOver, CleanedIsRevoked, ExportRow
  <2>. QED
    BY <1>5, <2>1, <2>2, CleanerKeepsInv DEF MarkRemoved
<1>6. CASE ListErased(c)
  <2>1. Moves("looked", export)
    BY <1>2, <1>6 DEF ListErased
  <2>. QED
    BY <1>3, <1>6, <2>1, CleanerKeepsInv DEF ListErased
<1>7. CASE LockErased(c)
  <2>0. cleaner[c].seen.revoked
    BY <1>7 DEF LockErased, ExportInv, SeenIsRevoked
  <2>1. CASE artifactLock = NoOwner
    <3>1. Moves("erasing", cleaner[c].seen) /\ artifactLock' = c
      BY <1>1, <1>7, <2>1 DEF LockErased
    <3>. QED
      BY <1>3, <1>7, <2>0, <2>1, <3>1, CleanerKeepsInv DEF LockErased
  <2>2. CASE artifactLock # NoOwner
    <3>1. Moves("idle", cleaner[c].seen) /\ artifactLock' = artifactLock
      BY <1>1, <1>7, <2>2 DEF LockErased
    <3>. QED
      BY <1>3, <1>7, <3>1, CleanerKeepsInv DEF LockErased
  <2>. QED
    BY <2>1, <2>2
<1>8. CASE EraseRequestFiles(c)
  <2>1. Moves("erased", cleaner[c].seen)
    BY <1>1, <1>8 DEF EraseRequestFiles
  <2>2. artifactLock = c /\ cleaner[c].seen.revoked
    BY <1>8 DEF EraseRequestFiles, ExportInv, CleanerHasLock, SeenIsRevoked
  <2>. QED
    BY <1>3, <1>8, <2>1, <2>2, CleanerKeepsInv DEF EraseRequestFiles
<1>9. CASE RecordErased(c)
  <2>1. Moves("idle", cleaner[c].seen)
    BY <1>1, <1>9 DEF RecordErased
  <2>2. artifactLock = c /\ artifacts = {} /\ cleaner[c].seen.revoked
    BY <1>9 DEF RecordErased, ExportInv, CleanerHasLock, ErasedIsEmpty, SeenIsRevoked
  <2>3. export' \in ExportRow /\ RevokedIsOver' /\ CleanedIsRevoked'
    BY <1>0, <1>9, <2>2 DEF RecordErased, Unseen, RevokedIsOver, CleanedIsRevoked, ExportRow
  <2>. QED
    BY <1>9, <2>1, <2>2, <2>3, CleanerKeepsInv DEF RecordErased
<1>10. CASE CleanerCrashes(c)
  <2>1. Moves("idle", cleaner[c].seen)
    BY <1>1, <1>10 DEF CleanerCrashes
  <2>. QED
    BY <1>3, <1>10, <2>1, CleanerKeepsInv DEF CleanerCrashes
<1>. QED
  BY <1>4, <1>5, <1>6, <1>7, <1>8, <1>9, <1>10 DEF CleanerStep

-----------------------------------------------------------------------------
(* Time, and the erasure of the scope *)

LEMMA RowKeepsInv ==
    ASSUME ExportInv, export' \in ExportRow, export'.cleaned = export.cleaned,
           RevokedIsOver', CleanedIsRevoked', artifacts' \subseteq artifacts,
           UNCHANGED <<artifactLock, exporter, cleaner>>
    PROVE  ExportInv'
  BY DEF ExportInv, ExportShape, ExporterHasLock, CleanerHasLock, ErasedIsEmpty, SeenIsRevoked,
         NobodyWrites, ErasedExportIsGone

LEMMA ExportInvInductive ==
    ASSUME ExportInv, [ExportNext]_exportVars
    PROVE  ExportInv'
<1>0. export \in ExportRow /\ RevokedIsOver /\ CleanedIsRevoked
  BY DEF ExportInv, ExportShape
<1>1. CASE LeaseLapses
  BY <1>0, <1>1, RowKeepsInv DEF LeaseLapses, RevokedIsOver, CleanedIsRevoked, ExportRow
<1>2. CASE ExportExpires
  BY <1>0, <1>2, RowKeepsInv DEF ExportExpires, RevokedIsOver, CleanedIsRevoked, ExportRow
<1>3. CASE RevokeExport
  BY <1>0, <1>3, RowKeepsInv DEF RevokeExport, RevokedIsOver, CleanedIsRevoked, ExportRow
<1>4. CASE RemoveStale
  BY <1>0, <1>4, RowKeepsInv DEF RemoveStale, RevokedIsOver, CleanedIsRevoked
<1>5. CASE UNCHANGED exportVars
  BY <1>0, <1>5, RowKeepsInv DEF exportVars, RevokedIsOver, CleanedIsRevoked
<1>. QED
  BY <1>1, <1>2, <1>3, <1>4, <1>5, ExporterStepKeepsInv, CleanerStepKeepsInv DEF ExportNext

LEMMA ExportInvInit == ExportInit => ExportInv
  BY DEF ExportInit, ExportInv, ExportShape, ExportRow, ExporterRow, CleanerRow, ExporterHasLock,
         CleanerHasLock, ErasedIsEmpty, SeenIsRevoked, RevokedIsOver, CleanedIsRevoked,
         NobodyWrites, ErasedExportIsGone

\* Once the files of a revoked export are recorded as cleaned, none is there and none appears
\* (data_export.py `_ArtifactLock`, `cleanup_due`): the exporter that claimed before the erasure
\* meets the fence under the lock, and the cleaner has the lock until its record is written.
THEOREM ExportSpecErasedExportIsGone == ExportSpec => []ErasedExportIsGone
<1>1. ExportInv /\ [ExportNext]_exportVars => ExportInv'
  BY ExportInvInductive
<1>2. ExportInv => ErasedExportIsGone
  BY DEF ExportInv
<1>. QED
  BY <1>1, <1>2, ExportInvInit, PTL DEF ExportSpec
=============================================================================
