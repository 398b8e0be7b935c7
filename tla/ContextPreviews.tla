--------------------------- MODULE ContextPreviews ---------------------------
(***************************************************************************)
(* The context previews of the control bot.  An administrator asks for the *)
(* context a reply was built from, confirms with a button that works once, *)
(* and receives it as several messages of the bot, each journalled before  *)
(* and after it is sent.  Messages whose identity is known are deleted     *)
(* again when their time is up, or at once when the conversation is        *)
(* erased, by a maintenance pass of every control process.                 *)
(***************************************************************************)
EXTENDS Naturals, FiniteSets

CONSTANTS
    Previews,
    ChunkCount,         \* messages of a preview
    Maintainers,        \* control processes
    MaxRejectedRetries, \* of one message that the bot server turned away
    MaxPreviewMishaps   \* bound: restarts, refused deletions of a message that is there, and
                        \* leases that end before the pass they were taken by

ASSUME PreviewsConstants ==
    /\ ChunkCount \in Nat \ {0}
    /\ MaxRejectedRetries \in Nat /\ MaxPreviewMishaps \in Nat

VARIABLES
    preview,      \* the state of a preview request
    piece,        \* its delivery rows
    sender,       \* where the process that was told to deliver it stands
    shown,        \* messages that are in the chat of the bot
    overdue,      \* previews whose messages are due for deletion
    scopeErased,  \* previews whose conversation is erased
    pass,         \* what a maintenance pass still has to delete
    mischances

previewsVars == <<preview, piece, sender, shown, overdue, scopeErased, pass, mischances>>

Chunk == 1..ChunkCount
PieceId == Previews \X Chunk

PreviewState == {"none", "pending_confirmation", "confirmed", "delivering", "delivered",
                 "send_unknown", "failed", "cancelled", "delete_pending", "delete_partial",
                 "deleted"}

\* waits: the lease of a deletion runs, or the time of the next attempt is not reached
\* claim: the process whose deletion claim is the newest, which is what the fencing token tells
PieceRow == [state : {"none", "pending", "sending", "sent", "send_unknown", "delete_pending",
                      "delete_failed", "deleted"},
             waits : BOOLEAN, claim : Maintainers \cup {"nobody"}]
NoPiece == [state |-> "none", waits |-> FALSE, claim |-> "nobody"]

Unsent == [at |-> 1, step |-> "off", retries |-> 0]

PreviewsTypeOK ==
    /\ preview \in [Previews -> PreviewState]
    /\ piece \in [PieceId -> PieceRow]
    /\ sender \in [Previews -> [at : 1..ChunkCount + 1, retries : 0..MaxRejectedRetries,
                                step : {"off", "next", "call", "sent", "rejected", "unknown"}]]
    /\ shown \subseteq PieceId
    /\ overdue \subseteq Previews /\ scopeErased \subseteq Previews
    /\ pass \in [Maintainers -> [due : SUBSET PieceId, step : {"rest", "claim", "delete"},
                                 answer : PieceId \X BOOLEAN \cup {<<>>}]]
    /\ mischances \in 0..MaxPreviewMishaps

NoPass == [due |-> {}, step |-> "rest", answer |-> <<>>]

PreviewsInit ==
    /\ preview = [q \in Previews |-> "none"]
    /\ piece = [x \in PieceId |-> NoPiece]
    /\ sender = [q \in Previews |-> Unsent]
    /\ shown = {} /\ overdue = {} /\ scopeErased = {}
    /\ pass = [m \in Maintainers |-> NoPass]
    /\ mischances = 0

maintenanceVars == <<overdue, scopeErased, pass, mischances>>

Mischance == mischances < MaxPreviewMishaps /\ mischances' = mischances + 1

StatesOf(q) == {piece[<<q, i>>].state : i \in Chunk}

-----------------------------------------------------------------------------
(* Request and confirmation *)

IssuePreview(q) ==
    /\ preview[q] = "none" /\ q \notin scopeErased
    /\ preview' = [preview EXCEPT ![q] = "pending_confirmation"]
    /\ UNCHANGED <<piece, sender, shown, maintenanceVars>>

\* the button works once
ConsumePreview(q) == preview[q] = "pending_confirmation" /\ q \notin scopeErased

BeginDelivery(q) ==
    /\ preview' = [preview EXCEPT ![q] = "delivering"]
    /\ piece' = [x \in PieceId |-> IF x[1] = q THEN [NoPiece EXCEPT !.state = "pending"]
                                   ELSE piece[x]]

\* the journal of the delivery is begun in the same transaction
ConfirmPreview(q) ==
    /\ ConsumePreview(q) /\ BeginDelivery(q)
    /\ sender' = [sender EXCEPT ![q] = [Unsent EXCEPT !.step = "next"]]
    /\ UNCHANGED <<shown, maintenanceVars>>

\* a source of the context changed: the administrator is told that nothing changed, but the
\* button is used up
RefusePreview(q) ==
    /\ ConsumePreview(q)
    /\ preview' = [preview EXCEPT ![q] = "confirmed"]
    /\ UNCHANGED <<piece, sender, shown, maintenanceVars>>

-----------------------------------------------------------------------------
(* Delivery *)

\* a conflict ends the delivery where it stands
LeavePreview(q) == sender' = [sender EXCEPT ![q] = Unsent]

ClaimChunk(q) ==
    LET x == <<q, sender[q].at>>
    IN /\ sender[q].step = "next" /\ sender[q].at <= ChunkCount
       /\ IF preview[q] = "delivering" /\ q \notin scopeErased /\ piece[x].state = "pending"
          THEN /\ piece' = [piece EXCEPT ![x].state = "sending"]
               /\ sender' = [sender EXCEPT ![q].step = "call"]
          ELSE LeavePreview(q) /\ UNCHANGED piece
       /\ UNCHANGED <<preview, shown, maintenanceVars>>

\* an unknown outcome: the message may be in the chat
SendChunk(q) ==
    /\ sender[q].step = "call"
    /\ \E outcome \in {"sent", "rejected", "unknown"}, arrives \in BOOLEAN :
        /\ outcome = "sent" => arrives
        /\ outcome = "rejected" => ~arrives
        /\ sender' = [sender EXCEPT ![q].step = outcome]
        /\ shown' = IF arrives THEN shown \cup {<<q, sender[q].at>>} ELSE shown
    /\ UNCHANGED <<preview, piece, maintenanceVars>>

RecordChunk(q) ==
    /\ sender[q].step \in {"sent", "unknown"}
    /\ piece' = [piece EXCEPT ![<<q, sender[q].at>>].state =
                    IF sender[q].step = "sent" THEN "sent" ELSE "send_unknown"]
    /\ sender' = [sender EXCEPT ![q] =
                    [at |-> IF @.step = "sent" THEN @.at + 1 ELSE ChunkCount + 1,
                     step |-> "next", retries |-> 0]]
    /\ UNCHANGED <<preview, shown, maintenanceVars>>

FailPreview(q) ==
    preview' = [preview EXCEPT ![q] = IF @ = "delivering" THEN "failed" ELSE @]

\* turned away twice: the request has failed
RetryChunk(q) ==
    /\ sender[q].step = "rejected"
    /\ piece' = [piece EXCEPT ![<<q, sender[q].at>>].state = "pending"]
    /\ IF sender[q].retries < MaxRejectedRetries
       THEN /\ sender' = [sender EXCEPT ![q].step = "next", ![q].retries = @ + 1]
            /\ UNCHANGED preview
       ELSE LeavePreview(q) /\ FailPreview(q)
    /\ UNCHANGED <<shown, maintenanceVars>>

\* a message whose fate is unknown leaves those after it pending, and the request delivering
FinishDelivery(q) ==
    /\ sender[q].step = "next" /\ sender[q].at = ChunkCount + 1
    /\ preview' = [preview EXCEPT ![q] =
                     IF @ # "delivering" \/ StatesOf(q) \cap {"pending", "sending"} # {} THEN @
                     ELSE IF "send_unknown" \in StatesOf(q) THEN "send_unknown"
                     ELSE "delivered"]
    /\ LeavePreview(q)
    /\ UNCHANGED <<piece, shown, maintenanceVars>>

-----------------------------------------------------------------------------
(* Time, erasure and restarts *)

\* ten minutes, which outlast a delivery
FallDue(q) ==
    /\ sender[q].step = "off" /\ StatesOf(q) # {"none"} /\ q \notin overdue
    /\ overdue' = overdue \cup {q}
    /\ UNCHANGED <<preview, piece, sender, shown, scopeErased, pass, mischances>>

\* the pause before the next attempt, or the lease of a deletion, which outlasts most passes
WaitOver(x) ==
    /\ piece[x].waits
    /\ piece' = [piece EXCEPT ![x].waits = FALSE]
    /\ IF \E m \in Maintainers : piece[x].claim = m /\ x \in pass[m].due
       THEN Mischance
       ELSE UNCHANGED mischances
    /\ UNCHANGED <<preview, sender, shown, overdue, scopeErased, pass>>

EraseScope(q) ==
    /\ q \notin scopeErased
    /\ scopeErased' = scopeErased \cup {q}
    /\ UNCHANGED <<preview, piece, sender, shown, overdue, pass, mischances>>

\* the deliveries that the process was at end with it
ControlRestarts(m) ==
    /\ Mischance
    /\ pass' = [pass EXCEPT ![m] = NoPass]
    /\ \E mine \in SUBSET {q \in Previews : sender[q].step # "off"} :
        sender' = [q \in Previews |-> IF q \in mine THEN Unsent ELSE sender[q]]
    /\ UNCHANGED <<preview, piece, shown, overdue, scopeErased>>

-----------------------------------------------------------------------------
(* Deletion *)

ReconcileErased(m) ==
    /\ pass[m].step = "rest"
    /\ pass' = [pass EXCEPT ![m].step = "claim"]
    /\ preview' = [q \in Previews |-> IF q \in scopeErased /\ preview[q] # "none"
                                      THEN "cancelled" ELSE preview[q]]
    /\ UNCHANGED <<piece, sender, shown, overdue, scopeErased, mischances>>

\* mutant: a claim is never taken over
DeletableUnclaimed(x) ==
    /\ x[1] \in overdue \cup scopeErased
    /\ \/ piece[x].state = "sent"
       \/ piece[x].state = "delete_failed" /\ ~piece[x].waits

Deletable(x) ==
    /\ x[1] \in overdue \cup scopeErased
    /\ \/ piece[x].state = "sent"
       \/ piece[x].state \in {"delete_failed", "delete_pending"} /\ ~piece[x].waits

ClaimDeletions(m) ==
    LET found == {x \in PieceId : Deletable(x)}
    IN /\ pass[m].step = "claim"
       /\ piece' = [x \in PieceId |->
                      IF x \in found THEN [state |-> "delete_pending", waits |-> TRUE, claim |-> m]
                      ELSE piece[x]]
       /\ pass' = [pass EXCEPT ![m] = IF found = {} THEN NoPass
                                      ELSE [NoPass EXCEPT !.due = found, !.step = "delete"]]
       /\ UNCHANGED <<preview, sender, shown, overdue, scopeErased, mischances>>

\* the messages of a preview go in order; one that is gone is refused, and so may be one that
\* is there
CallDelete(m, x) ==
    /\ pass[m].step = "delete" /\ pass[m].answer = <<>> /\ x \in pass[m].due
    /\ \A y \in pass[m].due : y[1] = x[1] => x[2] <= y[2]
    /\ \/ /\ x \in shown
          /\ shown' = shown \ {x}
          /\ pass' = [pass EXCEPT ![m].answer = <<x, TRUE>>]
          /\ UNCHANGED mischances
       \/ /\ IF x \in shown THEN Mischance ELSE UNCHANGED mischances
          /\ pass' = [pass EXCEPT ![m].answer = <<x, FALSE>>]
          /\ UNCHANGED shown
    /\ UNCHANGED <<preview, piece, sender, overdue, scopeErased>>

AfterDeletion(q, states) ==
    IF q \in scopeErased THEN "cancelled"
    ELSE IF states = {"deleted"} THEN "deleted"
    ELSE IF "delete_failed" \in states THEN "delete_partial"
    ELSE IF "send_unknown" \in states THEN "send_unknown"
    ELSE "delete_pending"

\* the request whose messages are deleted must have been delivered
AwaitsDeletion(q) ==
    q \in scopeErased \/ preview[q] \in {"delivered", "send_unknown", "delete_pending",
                                         "delete_partial"}

\* a conflict rolls the result back and ends the pass
FinishDeletion(m) ==
    LET x == pass[m].answer[1]
        ok == pass[m].answer[2]
        q == x[1]
        row == [state |-> IF ok THEN "deleted" ELSE "delete_failed",
                waits |-> ~ok, claim |-> "nobody"]
        states == {IF i = x[2] THEN row.state ELSE piece[<<q, i>>].state : i \in Chunk}
        rest == pass[m].due \ {x}
    IN /\ pass[m].answer # <<>>
       /\ IF piece[x].state = "delete_pending" /\ piece[x].claim = m /\ AwaitsDeletion(q)
          THEN /\ piece' = [piece EXCEPT ![x] = row]
               /\ preview' = [preview EXCEPT ![q] = AfterDeletion(q, states)]
               /\ pass' = [pass EXCEPT ![m] = IF rest = {} THEN NoPass
                                              ELSE [@ EXCEPT !.due = rest, !.answer = <<>>]]
          ELSE /\ pass' = [pass EXCEPT ![m] = NoPass]
               /\ UNCHANGED <<piece, preview>>
       /\ UNCHANGED <<sender, shown, overdue, scopeErased, mischances>>

MaintenanceStep(m) ==
    \/ ReconcileErased(m) \/ ClaimDeletions(m) \/ FinishDeletion(m)
    \/ \E x \in PieceId : CallDelete(m, x)

DeliveryStep(q) ==
    ClaimChunk(q) \/ SendChunk(q) \/ RecordChunk(q) \/ RetryChunk(q) \/ FinishDelivery(q)

PreviewsNext ==
    \/ \E q \in Previews :
        \/ IssuePreview(q) \/ ConfirmPreview(q) \/ RefusePreview(q)
        \/ DeliveryStep(q) \/ FallDue(q) \/ EraseScope(q)
    \/ \E m \in Maintainers : MaintenanceStep(m) \/ ControlRestarts(m)
    \/ \E x \in PieceId : WaitOver(x)

PreviewsFairness ==
    /\ \A q \in Previews : WF_previewsVars(DeliveryStep(q)) /\ WF_previewsVars(FallDue(q))
    /\ \A x \in PieceId : WF_previewsVars(WaitOver(x))
    /\ \A m \in Maintainers : WF_previewsVars(MaintenanceStep(m))

PreviewsSpec == PreviewsInit /\ [][PreviewsNext]_previewsVars /\ PreviewsFairness

-----------------------------------------------------------------------------
(* Properties *)

\* the deletion of its messages ends in a conflict, each time
Obstructs(q) ==
    /\ q \notin scopeErased /\ preview[q] \in {"delivering", "failed"}
    /\ StatesOf(q) \cap {"sent", "delete_pending", "delete_failed"} # {}

\* Whatever is lost, restarted or overlaps, the journal knows each message that is in the chat,
\* and none that is there is sent again or recorded as deleted (claim, record and retry of
\* `deliver_preview`, claim and finish of `delete_due`).
ShownIsJournalled ==
    /\ \A x \in shown : piece[x].state \notin {"none", "pending", "deleted"}
    /\ \A q \in Previews : sender[q].step = "call" => <<q, sender[q].at>> \notin shown

\* A message of a preview that the journal knows leaves the chat in the end, whatever restarts,
\* refusals and overlapping passes do, unless a preview was left half delivered: its deletion
\* fails in every pass and keeps the pass from those after it.
PreviewsVanish ==
    <>[](\/ \E q \in Previews : Obstructs(q)
         \/ \A x \in shown : piece[x].state \in {"sending", "send_unknown"})
=============================================================================
