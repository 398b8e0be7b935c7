----------------------------- MODULE DataExports -----------------------------
(***************************************************************************)
(* One export of an account's or a contact's data: the exporters that      *)
(* claim it under a lease and write an encrypted file, the maintenance     *)
(* that deletes files, and the erasure of the scope, which revokes the     *)
(* export.                                                                 *)
(*                                                                         *)
(* An exporter is one run of the program, with an owner identity of its    *)
(* own; the renewals of its lease change the version of the row and        *)
(* nothing else, so the claim is told by its owner.  Each attempt has a    *)
(* file of its own.  The kernel frees the lock of a process that dies.     *)
(***************************************************************************)
EXTENDS Integers, FiniteSets

CONSTANTS Exporters,          \* runs of the export
          Cleaners,           \* runs of the maintenance
          MaxExportAttempts,  \* bound: claims of the request
          MaxExportMishaps    \* bound: crashes, lapsed leases, refused and unknown commits

NoOwner == "nobody"

ASSUME ExportConstants ==
    /\ NoOwner \notin Exporters \cup Cleaners
    /\ Exporters \cap Cleaners = {}
    /\ MaxExportAttempts \in Nat /\ MaxExportMishaps \in Nat

Attempt == 1..MaxExportAttempts
ExportFile == Attempt \X {"temporary", "final"}
FilesOf(attempt) == {attempt} \X {"temporary", "final"}

VARIABLES export,        \* the row of the request
          artifacts,     \* the files of the request
          artifactLock,  \* who holds the lock of the request
          exporter,      \* exporter -> where it is, and its attempt
          cleaner,       \* cleaner -> where it is, and the row as it was read
          exportMishaps

exportVars == <<export, artifacts, artifactLock, exporter, cleaner, exportMishaps>>

ExportRow == [state : {"requested", "claimed", "completed", "failed"},
              owner : Exporters \cup {NoOwner}, lapsed : BOOLEAN, attempt : 0..MaxExportAttempts,
              expired : BOOLEAN, revoked : BOOLEAN, cleaned : BOOLEAN, deleted : BOOLEAN]

ExportTypeOK ==
    /\ export \in ExportRow
    /\ artifacts \subseteq ExportFile
    /\ artifactLock \in Exporters \cup Cleaners \cup {NoOwner}
    /\ exporter \in [Exporters -> [step : {"idle", "claimed", "locked", "fenced", "writing",
                                           "written", "sealed", "failing", "over"},
                                   attempt : 0..MaxExportAttempts, owns : BOOLEAN]]
    /\ \A c \in Cleaners :
        /\ cleaner[c].step \in {"idle", "removed", "looked", "erasing", "erased"}
        /\ cleaner[c].seen \in ExportRow
    /\ exportMishaps \in 0..MaxExportMishaps

ExportInit ==
    /\ export = [state |-> "requested", owner |-> NoOwner, lapsed |-> FALSE, attempt |-> 0,
                 expired |-> FALSE, revoked |-> FALSE, cleaned |-> FALSE, deleted |-> FALSE]
    /\ artifacts = {} /\ artifactLock = NoOwner
    /\ exporter = [e \in Exporters |-> [step |-> "idle", attempt |-> 0, owns |-> TRUE]]
    /\ cleaner = [c \in Cleaners |-> [step |-> "idle", seen |-> export]]
    /\ exportMishaps = 0

ExportMishap == exportMishaps < MaxExportMishaps /\ exportMishaps' = exportMishaps + 1
At(e, step) == exporter[e].step = step
Goto(e, step) == exporter' = [exporter EXCEPT ![e].step = step]

\* an error ends the attempt; it is recorded unless the claim is known to be lost
Fails(e, owns) == exporter' = [exporter EXCEPT ![e].step = "failing", ![e].owns = owns]

-----------------------------------------------------------------------------
(* Exporting *)

ExportClaimable ==
    /\ ~export.expired
    /\ export.state = "requested" \/ (export.state = "claimed" /\ export.lapsed)

ClaimExport(e) ==
    /\ At(e, "idle") /\ ExportClaimable /\ export.attempt < MaxExportAttempts
    /\ export' = [export EXCEPT !.state = "claimed", !.owner = e, !.lapsed = FALSE,
                                !.attempt = @ + 1]
    /\ exporter' = [exporter EXCEPT ![e] = [step |-> "claimed", attempt |-> export.attempt + 1,
                                            owns |-> TRUE]]
    /\ UNCHANGED <<artifacts, artifactLock, cleaner, exportMishaps>>

\* the claim is left to lapse when somebody else has the lock
LockArtifact(e) ==
    /\ At(e, "claimed")
    /\ IF artifactLock = NoOwner
       THEN artifactLock' = e /\ Goto(e, "locked")
       ELSE Goto(e, "over") /\ UNCHANGED artifactLock
    /\ UNCHANGED <<export, artifacts, cleaner, exportMishaps>>

\* what a renewal, a completion and a failure ask of the row
ClaimHeld(e) ==
    /\ export.state = "claimed" /\ export.owner = e
    /\ ~export.lapsed /\ ~export.expired

\* an exporter that goes by the claim it made before it had the lock
ClaimTrusted(e) == TRUE

\* the claim may have been revoked, and the files cleaned, before the lock was there
HeldUnderLock(e) == ClaimHeld(e)

\* no renewal follows: the thread that renews is stopped here
FenceUnderLock(e) ==
    /\ At(e, "locked")
    /\ IF HeldUnderLock(e) THEN Goto(e, "fenced") ELSE Fails(e, FALSE)
    /\ UNCHANGED <<export, artifacts, artifactLock, cleaner, exportMishaps>>

OpenTemporary(e) ==
    /\ At(e, "fenced")
    /\ artifacts' = artifacts \cup {<<exporter[e].attempt, "temporary">>}
    /\ Goto(e, "writing")
    /\ UNCHANGED <<export, artifactLock, cleaner, exportMishaps>>

\* the rows are read, encrypted and written, and the file gets its name; or something fails
EncryptExport(e) ==
    /\ At(e, "writing")
    /\ LET n == exporter[e].attempt IN
       \/ /\ artifacts' = (artifacts \ {<<n, "temporary">>}) \cup {<<n, "final">>}
          /\ Goto(e, "written")
          /\ UNCHANGED exportMishaps
       \/ /\ ExportMishap
          /\ artifacts' = artifacts \ FilesOf(n)
          /\ Fails(e, TRUE)
    /\ UNCHANGED <<export, artifactLock, cleaner>>

SealExport(e) ==
    /\ At(e, "written")
    /\ IF ClaimHeld(e) THEN Goto(e, "sealed") ELSE Fails(e, FALSE)
    /\ UNCHANGED <<export, artifacts, artifactLock, cleaner, exportMishaps>>

CompletedRow == [export EXCEPT !.state = "completed", !.owner = NoOwner]

\* recorded, refused, or recorded and taken for failed
FinalizeExport(e) ==
    /\ At(e, "sealed")
    /\ \/ /\ ClaimHeld(e)
          /\ export' = CompletedRow
          /\ Goto(e, "over")
          /\ artifactLock' = NoOwner
          /\ UNCHANGED exportMishaps
       \/ /\ ~ClaimHeld(e)
          /\ Fails(e, FALSE)
          /\ UNCHANGED <<export, artifactLock, exportMishaps>>
       \/ /\ ClaimHeld(e) /\ ExportMishap
          /\ export' \in {export, CompletedRow}
          /\ Fails(e, TRUE)
          /\ UNCHANGED artifactLock
    /\ UNCHANGED <<artifacts, cleaner>>

\* the files of the attempt go, then the failure is recorded, then the lock is free
GiveUpExport(e) ==
    /\ At(e, "failing")
    /\ artifacts' = artifacts \ {<<exporter[e].attempt, "final">>}
    /\ export' = IF exporter[e].owns /\ ClaimHeld(e)
                 THEN [export EXCEPT !.state = "failed", !.owner = NoOwner]
                 ELSE export
    /\ Goto(e, "over")
    /\ artifactLock' = IF artifactLock = e THEN NoOwner ELSE artifactLock
    /\ UNCHANGED <<cleaner, exportMishaps>>

ExporterCrashes(e) ==
    /\ exporter[e].step \notin {"idle", "over"} /\ ExportMishap
    /\ Goto(e, "over")
    /\ artifactLock' = IF artifactLock = e THEN NoOwner ELSE artifactLock
    /\ UNCHANGED <<export, artifacts, cleaner>>

-----------------------------------------------------------------------------
(* Time, and the erasure of the scope *)

LeaseLapses ==
    /\ export.state = "claimed" /\ ~export.lapsed
    /\ export' = [export EXCEPT !.lapsed = TRUE]
    /\ IF At(export.owner, "over") THEN UNCHANGED exportMishaps ELSE ExportMishap
    /\ UNCHANGED <<artifacts, artifactLock, exporter, cleaner>>

ExportExpires ==
    /\ ~export.expired
    /\ export' = [export EXCEPT !.expired = TRUE]
    /\ UNCHANGED <<artifacts, artifactLock, exporter, cleaner, exportMishaps>>

\* work under way fails; from then on the row can neither be claimed nor completed
RevokeExport ==
    /\ ~export.revoked
    /\ export' = [export EXCEPT !.revoked = TRUE, !.owner = NoOwner, !.lapsed = FALSE,
                                !.state = IF @ \in {"requested", "claimed"} THEN "failed" ELSE @]
    /\ UNCHANGED <<artifacts, artifactLock, exporter, cleaner, exportMishaps>>

-----------------------------------------------------------------------------
(* Maintenance *)

\* the file of an expired export is removed, the one of the last attempt, without the lock
RemoveExpired(c) ==
    /\ cleaner[c].step = "idle"
    /\ export.state = "completed" /\ ~export.deleted /\ export.expired /\ ~export.revoked
    /\ artifacts' = artifacts \ {<<export.attempt, "final">>}
    /\ cleaner' = [cleaner EXCEPT ![c] = [step |-> "removed", seen |-> export]]
    /\ UNCHANGED <<export, artifactLock, exporter, exportMishaps>>

Unseen(c) == export # cleaner[c].seen

\* a row that changed meanwhile ends the pass
MarkRemoved(c) ==
    /\ cleaner[c].step = "removed"
    /\ export' = IF Unseen(c) THEN export ELSE [export EXCEPT !.deleted = TRUE]
    /\ cleaner' = [cleaner EXCEPT ![c].step = "idle"]
    /\ UNCHANGED <<artifacts, artifactLock, exporter, exportMishaps>>

ListErased(c) ==
    /\ cleaner[c].step = "idle"
    /\ export.revoked /\ ~export.cleaned
    /\ cleaner' = [cleaner EXCEPT ![c] = [step |-> "looked", seen |-> export]]
    /\ UNCHANGED <<export, artifacts, artifactLock, exporter, exportMishaps>>

\* an export whose lock is taken is left for another pass
LockErased(c) ==
    /\ cleaner[c].step = "looked"
    /\ IF artifactLock = NoOwner
       THEN artifactLock' = c /\ cleaner' = [cleaner EXCEPT ![c].step = "erasing"]
       ELSE cleaner' = [cleaner EXCEPT ![c].step = "idle"] /\ UNCHANGED artifactLock
    /\ UNCHANGED <<export, artifacts, exporter, exportMishaps>>

\* every file of the request, of any attempt
EraseRequestFiles(c) ==
    /\ cleaner[c].step = "erasing"
    /\ artifacts' = {}
    /\ cleaner' = [cleaner EXCEPT ![c].step = "erased"]
    /\ UNCHANGED <<export, artifactLock, exporter, exportMishaps>>

RecordErased(c) ==
    /\ cleaner[c].step = "erased"
    /\ export' = IF Unseen(c) THEN export
                 ELSE [export EXCEPT !.cleaned = TRUE, !.deleted = @ \/ export.state = "completed"]
    /\ artifactLock' = NoOwner
    /\ cleaner' = [cleaner EXCEPT ![c].step = "idle"]
    /\ UNCHANGED <<artifacts, exporter, exportMishaps>>

\* unfinished files that are old go, one at a time, under the lock
RemoveStale ==
    /\ artifactLock = NoOwner
    /\ \E n \in Attempt :
        /\ <<n, "temporary">> \in artifacts
        /\ artifacts' = artifacts \ {<<n, "temporary">>}
    /\ UNCHANGED <<export, artifactLock, exporter, cleaner, exportMishaps>>

CleanerCrashes(c) ==
    /\ cleaner[c].step # "idle" /\ ExportMishap
    /\ cleaner' = [cleaner EXCEPT ![c].step = "idle"]
    /\ artifactLock' = IF artifactLock = c THEN NoOwner ELSE artifactLock
    /\ UNCHANGED <<export, artifacts, exporter>>

-----------------------------------------------------------------------------
ExporterStep(e) ==
    \/ ClaimExport(e) \/ LockArtifact(e) \/ FenceUnderLock(e) \/ OpenTemporary(e)
    \/ EncryptExport(e) \/ SealExport(e) \/ FinalizeExport(e) \/ GiveUpExport(e)

CleanerStep(c) ==
    \/ RemoveExpired(c) \/ MarkRemoved(c)
    \/ ListErased(c) \/ LockErased(c) \/ EraseRequestFiles(c) \/ RecordErased(c)

ExportNext ==
    \/ \E e \in Exporters : ExporterStep(e) \/ ExporterCrashes(e)
    \/ \E c \in Cleaners : CleanerStep(c) \/ CleanerCrashes(c)
    \/ LeaseLapses \/ ExportExpires \/ RevokeExport \/ RemoveStale

ExportSpec == ExportInit /\ [][ExportNext]_exportVars

-----------------------------------------------------------------------------
\* Once the files of a revoked export are recorded as cleaned, none is there and none appears:
\* not of an older attempt, not from an exporter that had claimed before the erasure and gets the
\* lock after it, not from one that crashed.
ErasedExportIsGone == export.cleaned => artifacts = {}
=============================================================================
