---------------------------- MODULE ControlUpdates ----------------------------
(***************************************************************************)
(* The updates of the control bot, from the long poll to the executed      *)
(* command.  A poller takes the updates from the durable offset on, in     *)
(* order; each is claimed, routed, completed with a receipt, answered, and *)
(* only then is the offset moved past it.  A command is recorded in the    *)
(* transaction of its receipt and executed later by the app; a press of a  *)
(* confirm button, which works once, is routed between two transactions.   *)
(* Control processes may overlap, fail and restart at any point.           *)
(***************************************************************************)
EXTENDS Naturals, Sequences

CONSTANTS
    Pollers,
    Mixes,               \* what the administrator may send: sequences of kinds of updates
    MaxControlMishaps    \* bound: failures, restarts, and leases that end under their owner

UpdateKind == {"command", "button", "noise"}

ASSUME UpdatesConstants == Mixes \subseteq Seq(UpdateKind) /\ MaxControlMishaps \in Nat

VARIABLES
    mix,         \* the updates, all of the buttons confirming the same thing
    arrived,     \* how many of them the bot server has
    offset,      \* the durable offset
    receipt,     \* the receipts of the updates
    poller,      \* what a poller is doing
    button,      \* whether the button still works
    queued,      \* recorded commands, by update
    log,         \* executed commands in order
    replies,     \* ghost: the replies sent for an update
    mishap

updatesVars == <<mix, arrived, offset, receipt, poller, button, queued, log, replies, mishap>>

Update == 1..Len(mix)

NoReceipt == [state |-> "none", send |-> "not_required", owner |-> "nobody", live |-> FALSE]
ReceiptRow == [state : {"none", "claimed", "completed"},
               send : {"not_required", "pending", "sent", "not_sent", "unknown"},
               owner : Pollers \cup {"nobody"}, live : BOOLEAN]

\* at: the update in hand; last: the last one of the batch
AtRest == [step |-> "rest", at |-> 1, last |-> 0]

UpdatesTypeOK ==
    /\ mix \in Mixes
    /\ arrived \in 0..Len(mix)
    /\ offset \in 1..Len(mix) + 1
    /\ receipt \in [Update -> ReceiptRow]
    /\ poller \in [Pollers ->
         [step : {"rest", "handle", "route", "complete", "deliver", "advance",
                  "sent", "not_sent", "unknown"},
          at : 1..Len(mix) + 1, last : 0..Len(mix)]]
    /\ button \in {"works", "used"}
    /\ queued \subseteq Update
    /\ log \in Seq(Update)
    /\ replies \in [Update -> 0..2]
    /\ mishap \in 0..MaxControlMishaps

UpdatesInit ==
    /\ mix \in Mixes
    /\ arrived = 0 /\ offset = 1
    /\ receipt = [u \in Update |-> NoReceipt]
    /\ poller = [m \in Pollers |-> AtRest]
    /\ button = "works"
    /\ queued = {} /\ log = <<>>
    /\ replies = [u \in Update |-> 0]
    /\ mishap = 0

Hand(m) == poller[m].at
Step(m, s) == poller' = [poller EXCEPT ![m].step = s]
GiveUp(m) == poller' = [poller EXCEPT ![m] = AtRest]
outside == <<mix, arrived, offset, queued, log, button, replies, mishap>>

SendUpdate ==
    /\ arrived < Len(mix)
    /\ arrived' = arrived + 1
    /\ UNCHANGED <<mix, offset, receipt, poller, button, queued, log, replies, mishap>>

-----------------------------------------------------------------------------
(* The poll *)

\* replies that were left open, in this process or another, will not be sent again
RecoverResponses ==
    receipt' = [u \in Update |-> IF receipt[u].send = "pending"
                                 THEN [receipt[u] EXCEPT !.send = "unknown"] ELSE receipt[u]]

\* the bot server forgets what is before the offset it is asked for
PollOnce(m) ==
    /\ poller[m].step = "rest"
    /\ RecoverResponses
    /\ poller' = [poller EXCEPT ![m] =
                    IF offset <= arrived THEN [step |-> "handle", at |-> offset, last |-> arrived]
                    ELSE AtRest]
    /\ UNCHANGED outside

-----------------------------------------------------------------------------
(* Claims *)

\* mutant: whether the lease has ended is not looked at
ClaimStands(m, u) == receipt[u].state = "claimed" /\ receipt[u].owner # m

\* the lease of another process runs
Busy(m, u) ==
    receipt[u].state = "claimed" /\ receipt[u].live /\ receipt[u].owner # m

Acquired(m, u) == u >= offset /\ receipt[u].state # "completed" /\ ~Busy(m, u)

\* the owner tells what the version of a receipt tells: a claim by another one makes it stale, and
\* a poller drops its own when it claims anew
ClaimedBy(m, u) == receipt[u].state = "claimed" /\ receipt[u].owner = m

\* an update done before is passed over, one in the hands of another process ends the batch
Replay(m) ==
    LET u == Hand(m)
    IN /\ poller[m].step = "handle" /\ ~Acquired(m, u)
       /\ IF u >= offset /\ Busy(m, u) THEN GiveUp(m) ELSE Step(m, "advance")
       /\ receipt' = [receipt EXCEPT ![u].send =
                        IF u >= offset /\ @ = "pending" THEN "unknown" ELSE @]
       /\ UNCHANGED outside

Completed(kind) ==
    [state |-> "completed", owner |-> "nobody", live |-> FALSE,
     send |-> IF kind = "noise" THEN "not_required" ELSE "pending"]

\* a command is recorded once, under the identity of its update, and waits for the app
Recorded(u) == IF mix[u] = "command" THEN queued \cup {u} ELSE queued

\* claimed, routed and completed in one transaction
HandleTransactional(m) ==
    LET u == Hand(m)
    IN /\ poller[m].step = "handle" /\ mix[u] # "button" /\ Acquired(m, u)
       /\ receipt' = [receipt EXCEPT ![u] = Completed(mix[u])]
       /\ queued' = Recorded(u)
       /\ Step(m, IF mix[u] = "noise" THEN "advance" ELSE "deliver")
       /\ UNCHANGED <<mix, arrived, offset, log, button, replies, mishap>>

HandleBoundary(m) ==
    LET u == Hand(m)
    IN /\ poller[m].step = "handle" /\ mix[u] = "button" /\ Acquired(m, u)
       /\ receipt' = [receipt EXCEPT ![u] =
                        IF ClaimedBy(m, u) /\ receipt[u].live THEN @
                        ELSE [NoReceipt EXCEPT !.state = "claimed", !.owner = m, !.live = TRUE]]
       /\ Step(m, "route")
       /\ UNCHANGED outside

\* the second press of a button is answered too, and changes nothing
RouteButton(m) ==
    /\ poller[m].step = "route"
    /\ button' = "used"
    /\ Step(m, "complete")
    /\ UNCHANGED <<mix, arrived, offset, receipt, queued, log, replies, mishap>>

CompleteUpdate(m) ==
    /\ poller[m].step = "complete"
    /\ IF ClaimedBy(m, Hand(m))
       THEN /\ receipt' = [receipt EXCEPT ![Hand(m)] = Completed("button")]
            /\ Step(m, "deliver")
       ELSE GiveUp(m) /\ UNCHANGED receipt
    /\ UNCHANGED outside

-----------------------------------------------------------------------------
(* Replies and the offset *)

DeliverReply(m) ==
    /\ poller[m].step = "deliver"
    /\ \E outcome \in {"sent", "not_sent", "unknown"}, arrives \in BOOLEAN :
        /\ outcome = "sent" => arrives
        /\ outcome = "not_sent" => ~arrives
        /\ Step(m, outcome)
        /\ replies' = [replies EXCEPT ![Hand(m)] = IF arrives THEN @ + 1 ELSE @]
    /\ UNCHANGED <<mix, arrived, offset, receipt, button, queued, log, mishap>>

\* another poller may have settled the reply in between
ReplyOpen(u) == receipt[u].state = "completed" /\ receipt[u].send = "pending"

MarkResponse(m) ==
    /\ poller[m].step \in {"sent", "not_sent", "unknown"}
    /\ IF ReplyOpen(Hand(m))
       THEN /\ receipt' = [receipt EXCEPT ![Hand(m)].send = poller[m].step]
            /\ Step(m, "advance")
       ELSE GiveUp(m) /\ UNCHANGED receipt
    /\ UNCHANGED outside

\* every receipt up to the update is completed; whoever comes second starts over
AdvanceOffset(m) ==
    LET u == Hand(m)
    IN /\ poller[m].step = "advance"
       /\ IF offset = u /\ receipt[u].state = "completed"
          THEN /\ offset' = u + 1
               /\ poller' = [poller EXCEPT ![m] =
                               IF u < @.last THEN [@ EXCEPT !.step = "handle", !.at = u + 1]
                               ELSE AtRest]
          ELSE GiveUp(m) /\ UNCHANGED offset
       /\ UNCHANGED <<mix, arrived, receipt, button, queued, log, replies, mishap>>

-----------------------------------------------------------------------------
(* Failures *)

ControlMishap == mishap < MaxControlMishaps /\ mishap' = mishap + 1

\* the Bot API, the database, or a closed restore gate: what is committed stays
PollFails(m) ==
    /\ poller[m].step # "rest"
    /\ ControlMishap
    /\ GiveUp(m)
    /\ UNCHANGED <<mix, arrived, offset, receipt, button, queued, log, replies>>

\* the next process has another identity
PollerRestarts(m) ==
    /\ ControlMishap
    /\ GiveUp(m)
    /\ receipt' = [u \in Update |-> IF ClaimedBy(m, u) THEN [receipt[u] EXCEPT !.owner = "nobody"]
                                    ELSE receipt[u]]
    /\ UNCHANGED <<mix, arrived, offset, button, queued, log, replies>>

LeaseEnds(u) ==
    /\ receipt[u].live
    /\ receipt' = [receipt EXCEPT ![u].live = FALSE]
    /\ IF \E m \in Pollers : receipt[u].owner = m /\ Hand(m) = u /\ poller[m].step # "rest"
       THEN ControlMishap ELSE UNCHANGED mishap
    /\ UNCHANGED <<mix, arrived, offset, poller, button, queued, log, replies>>

-----------------------------------------------------------------------------
(* The app *)

\* mutant: any recorded command
Newest(u) == u \in queued

Oldest(u) == u \in queued /\ \A v \in queued : u <= v

\* applied or rejected, in one transaction
ProcessNext(u) ==
    /\ Oldest(u)
    /\ queued' = queued \ {u}
    /\ log' = Append(log, u)
    /\ UNCHANGED <<mix, arrived, offset, receipt, poller, button, replies, mishap>>

PollerStep(m) ==
    \/ PollOnce(m) \/ Replay(m) \/ HandleTransactional(m) \/ HandleBoundary(m)
    \/ RouteButton(m) \/ CompleteUpdate(m) \/ DeliverReply(m) \/ MarkResponse(m)
    \/ AdvanceOffset(m)

UpdatesNext ==
    \/ SendUpdate
    \/ \E m \in Pollers : PollerStep(m) \/ PollFails(m) \/ PollerRestarts(m)
    \/ \E u \in Update : LeaseEnds(u) \/ ProcessNext(u)

UpdatesFairness ==
    /\ WF_updatesVars(\E u \in Update : LeaseEnds(u))
    /\ WF_updatesVars(\E u \in Update : ProcessNext(u))
    /\ \A m \in Pollers : WF_updatesVars(PollerStep(m))

UpdatesSpec == UpdatesInit /\ [][UpdatesNext]_updatesVars /\ UpdatesFairness

-----------------------------------------------------------------------------
(* Properties *)

\* However pollers overlap, fail and restart, commands are executed once each, in the order the
\* administrator sent them; no update is passed by without being handled; none is answered twice.
CommandsOnceInOrder ==
    /\ \A i, j \in DOMAIN log : i < j => log[i] < log[j]
    /\ \A u \in Update :
        /\ u < offset => receipt[u].state = "completed"
        /\ receipt[u].state = "completed" /\ mix[u] = "command" =>
              u \in queued \/ \E i \in DOMAIN log : log[i] = u
        /\ replies[u] <= 1

Stream == INSTANCE CommandStream WITH
    sent <- mix,
    handled <- {u \in Update : receipt[u].state = "completed"},
    passed <- offset - 1,
    answered <- {u \in Update : replies[u] > 0},
    waiting <- queued,
    executed <- log

\* The pollers and the app keep the stream of commands: claims that are lost, replayed updates,
\* recovered replies and restarts are invisible in it (durable_control.py, and the offset and the
\* receipts of control_updates in the repository).
KeepsStream == Stream!StreamSpec

\* Every update the administrator sent is handled in the end.
UpdatesAreHandled == <>[](offset = arrived + 1)
=============================================================================
