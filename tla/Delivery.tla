------------------------------ MODULE Delivery ------------------------------
(***************************************************************************)
(* Outbound delivery: how a finished output leaves the system.             *)
(*                                                                         *)
(* An output is persisted as a delivery group of ordered intents (one per  *)
(* chunk).  The app's work lane walks a group from its first chunk:        *)
(* preflight and claim in one transaction, the Telegram RPC outside any    *)
(* transaction, the fenced settlement in a second transaction.             *)
(* Meanwhile, in transactions of their own, the update listener maps       *)
(* random ids to message ids and projects the echo of each outgoing        *)
(* message; control commands and the account holder's own messages         *)
(* invalidate work; leases lapse; and the process may die and be replaced  *)
(* by a new instance at any point.                                         *)
(*                                                                         *)
(* Each group belongs to a conversation of its own; group numbers are the  *)
(* order of created_at.  Times are abstracted to what the code compares:   *)
(* a lease is live or not, a retry is due or not.                          *)
(***************************************************************************)
EXTENDS Naturals, FiniteSets

CONSTANTS
    NumGroups,      \* bound: delivery groups ever created
    Size,           \* Size[g]: the number of chunks of group g (intent_count)
    Proactive,      \* the groups the worker process creates; App runs create the others
    MaxInstances,   \* bound: app process instances (restarts + 1)
    MaxAdverse      \* bound: rejections, lost answers, refusals, drops and edits

Group == 1..NumGroups

\* <<g, c>>: chunk c of group g, the row of outbound_intents
Intent == UNION {{g} \X (1..Size[g]) : g \in Group}

GroupOf(i) == i[1]
Ordinal(i) == i[2]
IntentsOf(g) == {i \in Intent : GroupOf(i) = g}
Earlier(i) == {j \in IntentsOf(GroupOf(i)) : Ordinal(j) < Ordinal(i)}

ASSUME ConstantsAssumption ==
    /\ NumGroups \in Nat
    /\ Size \in [Group -> Nat \ {0}]
    /\ Proactive \subseteq Group
    /\ MaxInstances \in Nat \ {0}
    /\ MaxAdverse \in Nat

IntentState == {"pending", "sending", "sent", "retry_wait", "failed", "unknown", "cancelled"}
GroupState == {"absent", "planned", "sending", "partial", "sent", "failed", "unknown", "cancelled"}
AttemptState == {"none", "started", "succeeded", "flood_wait", "transient", "permanent", "unknown"}
Outcome == {"succeeded", "flood_wait", "transient", "permanent", "unknown"}
TurnState == {"output_ready", "cancelled", "completed"}
EchoState == {"none", "pending", "resolved", "corrected", "human"}

NoOwner == 0
NoIntent == <<0, 0>>

VARIABLES
    \* --- PostgreSQL ---
    groupState,   \* outbound_delivery_groups.state
    turn,         \* state of the turn the group answers
    lease,        \* unexpired lease owner of that turn (an app instance), or NoOwner
    fresh,        \* conversation content is the group's snapshot, or an exact grace covers it
    istate,       \* outbound_intents.state
    attempt,      \* outbound_intents.attempt_count; send_fencing_token moves with it
    attemptState, \* state of the latest outbound_attempts row
    sendLease,    \* send_lease_expires_at is in the future
    due,          \* next_attempt_at is null or past
    echo,         \* projection of the chunk's own outgoing update
    human,        \* the account holder's own outgoing message: none, pending or confirmed
    \* --- the app's work lane ---
    instance,     \* the running process instance (owner_instance_id)
    pc,           \* idle, preflight, claimed, waiting, answered
    cur,          \* the intent the lane is at
    token,        \* the fencing token it claimed
    reply,        \* the outcome it is about to persist
    \* --- Telegram and the network ---
    net,          \* submitted chunks Telegram has neither accepted nor rejected
    accepted,     \* chunks the contact can see
    adverse       \* bounding counter, no counterpart in the code

groupVars == <<groupState, turn, lease, fresh, human>>
intentVars == <<istate, attempt, attemptState, sendLease, due>>
laneVars == <<instance, pc, cur, token, reply>>
telegramVars == <<net, accepted>>
vars == <<groupVars, intentVars, echo, laneVars, telegramVars, adverse>>

-----------------------------------------------------------------------------
(* What the transactions compute.                                          *)

SentSome(g, st) == \E i \in IntentsOf(g) : st[i] = "sent"

\* slip: a chunk with a known outcome hides an unknown one
RefreshedByKnown(g, st) ==
    LET states == {st[i] : i \in IntentsOf(g)} IN
    IF states = {"sent"} THEN "sent"
    ELSE IF "sent" \in states THEN "partial"
    ELSE IF "unknown" \in states THEN "unknown"
    ELSE IF "failed" \in states THEN "failed" ELSE "sending"

\* _refresh_group: the group state after its chunks took the states st
Refreshed(g, st) ==
    LET states == {st[i] : i \in IntentsOf(g)} IN
    IF states = {"sent"} THEN "sent"
    ELSE IF "unknown" \in states THEN "unknown"
    ELSE IF "sent" \in states THEN "partial"
    ELSE IF "failed" \in states THEN "failed" ELSE "sending"

\* first_side_effect_at is set by the first claim and never cleared
SideEffectStarted(g) == \E i \in IntentsOf(g) : attempt[i] > 0

\* slip: cancellation spares only what is already sent
CancelUnsent(S) ==
    [i \in Intent |-> IF i \in S /\ istate[i] # "sent" THEN "cancelled" ELSE istate[i]]

\* the states left by cancelling every unclaimed chunk of S
CancelUnclaimed(S) ==
    [i \in Intent |-> IF i \in S /\ istate[i] \in {"pending", "retry_wait"}
                      THEN "cancelled" ELSE istate[i]]

OrdinalReady(i) == \A j \in Earlier(i) : istate[j] = "sent"

\* preflight_intent takes over a free lease, but only for a proactive turn
LeaseAtPreflight(g) ==
    IF g \in Proactive /\ lease[g] = NoOwner THEN instance ELSE lease[g]

\* evaluate_final_gate with the inputs preflight_intent computes.  Mode, control
\* and source changes all cancel the turn in the transaction that makes them.
FinalGate(i) ==
    LET g == GroupOf(i) IN
    /\ turn[g] = "output_ready"
    /\ LeaseAtPreflight(g) = instance
    /\ groupState[g] \in {"planned", "sending", "partial"}
    /\ fresh[g] \/ SentSome(g, istate)

\* claim_intent: the rows its SELECT ... FOR UPDATE SKIP LOCKED can return
Claimable(i) == istate[i] \in {"pending", "retry_wait"} /\ due[i]

\* _next_delivery_group: oldest group in one of the two states it looks for
Selectable == {g \in Group : groupState[g] \in {"planned", "partial"}}

\* finish_attempt's WHERE clause: this claim, still in force
FenceHolds(i) == istate[i] = "sending" /\ attempt[i] = token /\ sendLease[i]

\* slip: the attempt's outcome becomes the state of the chunk
SettledAsIs(outcome) == outcome

SettledAs(outcome) ==
    IF outcome = "succeeded" THEN "sent"
    ELSE IF outcome \in {"flood_wait", "transient"} THEN "retry_wait"
    ELSE IF outcome = "permanent" THEN "failed" ELSE "unknown"

\* slip: an instance recovers the sends of its own turns only
StaleOfOwn ==
    {i \in Intent : istate[i] = "sending" /\ ~sendLease[i] /\ lease[GroupOf(i)] = instance}

\* recover_stale_sending's WHERE clause
Stale == {i \in Intent : istate[i] = "sending" /\ ~sendLease[i]}

\* slip: an abandoned send is queued again
RecoveredForRetry(i) == IF i \in Stale THEN "retry_wait" ELSE istate[i]

RecoveredState(i) == IF i \in Stale THEN "unknown" ELSE istate[i]

\* slip: an unknown send is not an unsettled one
ClassifiedBySending(i) ==
    IF istate[i] = "sent" THEN "resolved"
    ELSE IF \E j \in IntentsOf(GroupOf(i)) : istate[j] = "sending" THEN "pending" ELSE "human"

\* _classify_source for the echo of chunk i: by recorded message id, else by
\* whether any send of the conversation is unsettled
Classified(i) ==
    IF istate[i] = "sent" THEN "resolved"
    ELSE IF \E j \in IntentsOf(GroupOf(i)) : istate[j] \in {"sending", "unknown"}
         THEN "pending" ELSE "human"

Attributed == {"resolved", "corrected"}

-----------------------------------------------------------------------------
TypeOK ==
    /\ groupState \in [Group -> GroupState]
    /\ turn \in [Group -> TurnState]
    /\ lease \in [Group -> Nat]
    /\ fresh \in [Group -> BOOLEAN]
    /\ human \in [Group -> {"none", "pending", "confirmed"}]
    /\ istate \in [Intent -> IntentState]
    /\ attempt \in [Intent -> Nat]
    /\ attemptState \in [Intent -> AttemptState]
    /\ sendLease \in [Intent -> BOOLEAN]
    /\ due \in [Intent -> BOOLEAN]
    /\ echo \in [Intent -> EchoState]
    /\ instance \in Nat \ {0}
    /\ pc \in {"idle", "preflight", "claimed", "waiting", "answered"}
    /\ cur \in Intent \union {NoIntent}
    /\ pc # "idle" => cur \in Intent
    /\ token \in Nat
    /\ reply \in Outcome
    /\ net \subseteq Intent
    /\ accepted \subseteq Intent
    /\ adverse \in Nat

Init ==
    /\ groupState = [g \in Group |-> "absent"]
    /\ turn = [g \in Group |-> "output_ready"]
    /\ lease = [g \in Group |-> NoOwner]
    /\ fresh = [g \in Group |-> TRUE]
    /\ human = [g \in Group |-> "none"]
    /\ istate = [i \in Intent |-> "pending"]
    /\ attempt = [i \in Intent |-> 0]
    /\ attemptState = [i \in Intent |-> "none"]
    /\ sendLease = [i \in Intent |-> FALSE]
    /\ due = [i \in Intent |-> TRUE]
    /\ echo = [i \in Intent |-> "none"]
    /\ instance = 1
    /\ pc = "idle" /\ cur = NoIntent /\ token = 0 /\ reply = "succeeded"
    /\ net = {} /\ accepted = {}
    /\ adverse = 0

Mishap == adverse < MaxAdverse /\ adverse' = adverse + 1

\* the lane returns to its scheduler
Idle == pc' = "idle" /\ cur' = NoIntent /\ token' = 0 /\ reply' = "succeeded"

-----------------------------------------------------------------------------
(* Creation of groups.                                                     *)

NextInOrder(g) == groupState[g] = "absent" /\ \A h \in Group : h < g => groupState[h] # "absent"

\* complete_generation commits the group; run_due_turn then dispatches it inline
CreateByRun(g) ==
    /\ NextInOrder(g) /\ g \notin Proactive
    /\ pc = "idle"
    /\ groupState' = [groupState EXCEPT ![g] = "planned"]
    /\ lease' = [lease EXCEPT ![g] = instance]
    /\ pc' = "preflight" /\ cur' = <<g, 1>>
    /\ UNCHANGED <<turn, fresh, human, intentVars, echo, instance, token, reply,
                   telegramVars, adverse>>

\* the worker process commits a proactive group and leaves it to the scheduler
CreateByWorker(g) ==
    /\ NextInOrder(g) /\ g \in Proactive
    /\ groupState' = [groupState EXCEPT ![g] = "planned"]
    /\ UNCHANGED <<turn, lease, fresh, human, intentVars, echo, laneVars, telegramVars, adverse>>

-----------------------------------------------------------------------------
(* The work lane.                                                          *)

\* ProductionAppScheduler._next_delivery_group, then dispatch_group from chunk 1
SelectGroup ==
    /\ pc = "idle"
    /\ \E g \in Selectable :
        /\ \A h \in Selectable : g <= h
        /\ cur' = <<g, 1>>
    /\ pc' = "preflight"
    /\ UNCHANGED <<groupVars, intentVars, echo, instance, token, reply, telegramVars, adverse>>

\* operation_admission refuses before the preflight
AdmissionRefused ==
    /\ pc = "preflight" /\ Mishap
    /\ Idle
    /\ UNCHANGED <<groupVars, intentVars, echo, instance, telegramVars>>

\* every preflight transaction leaves the proactive lease it took
TakeLease == lease' = [lease EXCEPT ![GroupOf(cur)] = LeaseAtPreflight(GroupOf(cur))]

\* the gate is open and the row is free: the chunk is claimed
PreflightClaim ==
    /\ pc = "preflight"
    /\ OrdinalReady(cur) /\ FinalGate(cur) /\ Claimable(cur)
    /\ TakeLease
    /\ istate' = [istate EXCEPT ![cur] = "sending"]
    /\ attempt' = [attempt EXCEPT ![cur] = @ + 1]
    /\ attemptState' = [attemptState EXCEPT ![cur] = "started"]
    /\ sendLease' = [sendLease EXCEPT ![cur] = TRUE]
    /\ due' = [due EXCEPT ![cur] = TRUE]
    /\ groupState' = [groupState EXCEPT ![GroupOf(cur)] = "sending"]
    /\ pc' = "claimed" /\ token' = attempt[cur] + 1
    /\ UNCHANGED <<turn, fresh, human, echo, instance, cur, reply, telegramVars, adverse>>

\* the gate is closed: _cancel_delivery_remainder ends the group
PreflightCut ==
    /\ pc = "preflight"
    /\ OrdinalReady(cur) /\ ~FinalGate(cur)
    /\ TakeLease
    /\ istate' = CancelUnclaimed({j \in IntentsOf(GroupOf(cur)) : Ordinal(j) >= Ordinal(cur)})
    /\ groupState' = [groupState EXCEPT ![GroupOf(cur)] =
                        IF SideEffectStarted(GroupOf(cur)) THEN "partial" ELSE "cancelled"]
    /\ Idle
    /\ UNCHANGED <<turn, fresh, human, attempt, attemptState, sendLease, due, echo, instance,
                   telegramVars, adverse>>

\* preflight_intent returns None without cancelling anything: an earlier chunk is
\* not sent, or the gate is open and the row is not free; dispatch_group breaks
PreflightNothing ==
    /\ pc = "preflight"
    /\ OrdinalReady(cur) => FinalGate(cur) /\ ~Claimable(cur)
    /\ TakeLease
    /\ Idle
    /\ UNCHANGED <<groupState, turn, fresh, human, intentVars, echo, instance, telegramVars,
                   adverse>>

\* the second admission check of dispatch_group: settle as transient, no RPC made
RefusedAfterClaim ==
    /\ pc = "claimed" /\ Mishap
    /\ pc' = "answered" /\ reply' = "transient"
    /\ UNCHANGED <<groupVars, intentVars, echo, instance, cur, token, telegramVars>>

\* send_text submits the chunk under its stable random id
CallTelegram ==
    /\ pc = "claimed"
    /\ pc' = "waiting"
    /\ net' = net \union {cur}
    /\ UNCHANGED <<groupVars, intentVars, echo, instance, cur, token, reply, accepted, adverse>>

\* slip: the receipt is taken for granted once the request is on its way
AnswerAssumed ==
    /\ pc = "waiting" /\ cur \in net \union accepted
    /\ pc' = "answered" /\ reply' = "succeeded"
    /\ UNCHANGED <<groupVars, intentVars, echo, instance, cur, token, telegramVars, adverse>>

\* send_text returns a receipt
AnswerAccepted ==
    /\ pc = "waiting" /\ cur \in accepted
    /\ pc' = "answered" /\ reply' = "succeeded"
    /\ UNCHANGED <<groupVars, intentVars, echo, instance, cur, token, telegramVars, adverse>>

\* FloodWaitError or another RPCError: Telegram did not take the message
AnswerRejected ==
    /\ pc = "waiting" /\ cur \in net /\ Mishap
    /\ net' = net \ {cur}
    /\ pc' = "answered" /\ reply' \in {"flood_wait", "permanent"}
    /\ UNCHANGED <<groupVars, intentVars, echo, instance, cur, token, accepted>>

\* connection loss, timeout or an unusable response: accepted or not, now or later
AnswerLost ==
    /\ pc = "waiting" /\ Mishap
    /\ pc' = "answered" /\ reply' = "unknown"
    /\ UNCHANGED <<groupVars, intentVars, echo, instance, cur, token, telegramVars>>

\* finish_attempt under its fence; a settled success moves the loop to the next chunk
SettleFenced ==
    /\ pc = "answered" /\ FenceHolds(cur)
    /\ istate' = [istate EXCEPT ![cur] = SettledAs(reply)]
    /\ attemptState' = [attemptState EXCEPT ![cur] = reply]
    /\ sendLease' = [sendLease EXCEPT ![cur] = FALSE]
    /\ due' = [due EXCEPT ![cur] = reply \notin {"flood_wait", "transient"}]
    /\ groupState' = [groupState EXCEPT ![GroupOf(cur)] = Refreshed(GroupOf(cur), istate')]
    /\ IF reply = "succeeded" /\ Ordinal(cur) < Size[GroupOf(cur)]
       THEN /\ pc' = "preflight" /\ cur' = <<GroupOf(cur), Ordinal(cur) + 1>>
            /\ token' = 0 /\ reply' = "succeeded"
       ELSE Idle
    /\ UNCHANGED <<turn, lease, fresh, human, attempt, echo, instance, telegramVars, adverse>>

\* finish_attempt matched no row: the result is dropped and the loop breaks
SettleRefused ==
    /\ pc = "answered" /\ ~FenceHolds(cur)
    /\ Idle
    /\ UNCHANGED <<groupVars, intentVars, echo, instance, telegramVars, adverse>>

\* recover_stale_sending, run by the lane between two units of work
Recover ==
    /\ pc = "idle" /\ Stale # {}
    /\ istate' = [i \in Intent |-> RecoveredState(i)]
    /\ attemptState' = [i \in Intent |-> IF i \in Stale THEN "unknown" ELSE attemptState[i]]
    /\ groupState' = [g \in Group |-> IF \E i \in Stale : GroupOf(i) = g
                                      THEN Refreshed(g, istate') ELSE groupState[g]]
    /\ UNCHANGED <<turn, lease, fresh, human, attempt, sendLease, due, echo, laneVars,
                   telegramVars, adverse>>

\* the process dies at any point; its successor has a new owner_instance_id
Restart ==
    /\ instance < MaxInstances
    /\ instance' = instance + 1
    /\ Idle
    /\ UNCHANGED <<groupVars, intentVars, echo, telegramVars, adverse>>

-----------------------------------------------------------------------------
(* Time.                                                                   *)

TurnLeaseLapses(g) ==
    /\ lease[g] # NoOwner
    /\ lease' = [lease EXCEPT ![g] = NoOwner]
    /\ UNCHANGED <<groupState, turn, fresh, human, intentVars, echo, laneVars, telegramVars,
                   adverse>>

\* sixty seconds pass over a claimed chunk, even while its RPC is still running
SendLeaseLapses(i) ==
    /\ sendLease[i]
    /\ sendLease' = [sendLease EXCEPT ![i] = FALSE]
    /\ UNCHANGED <<groupVars, istate, attempt, attemptState, due, echo, laneVars, telegramVars,
                   adverse>>

RetryFallsDue(i) ==
    /\ ~due[i]
    /\ due' = [due EXCEPT ![i] = TRUE]
    /\ UNCHANGED <<groupVars, istate, attempt, attemptState, sendLease, echo, laneVars,
                   telegramVars, adverse>>

-----------------------------------------------------------------------------
(* Telegram.                                                               *)

Accept(i) ==
    /\ i \in net
    /\ net' = net \ {i} /\ accepted' = accepted \union {i}
    /\ UNCHANGED <<groupVars, intentVars, echo, laneVars, adverse>>

\* a submission nobody waits for any more is lost on the way
Drop(i) ==
    /\ i \in net /\ Mishap
    /\ pc = "waiting" => cur # i
    /\ net' = net \ {i}
    /\ UNCHANGED <<groupVars, intentVars, echo, laneVars, accepted>>

-----------------------------------------------------------------------------
(* The update listener.                                                    *)

\* UpdateMessageID: reconcile_outbound_message_id settles the intent from any state
MapMessageId(i) ==
    /\ i \in accepted /\ istate[i] # "sent"
    /\ attemptState[i] # "none"
    /\ istate' = [istate EXCEPT ![i] = "sent"]
    /\ sendLease' = [sendLease EXCEPT ![i] = FALSE]
    /\ due' = [due EXCEPT ![i] = TRUE]
    /\ attemptState' = [attemptState EXCEPT ![i] = IF @ = "started" THEN "succeeded" ELSE @]
    /\ groupState' = [groupState EXCEPT ![GroupOf(i)] = Refreshed(GroupOf(i), istate')]
    /\ UNCHANGED <<turn, lease, fresh, human, attempt, echo, laneVars, telegramVars, adverse>>

\* slip: the first attributed chunk completes the turn
CompleteTurnIfAny(g, projected) ==
    IF \E j \in IntentsOf(g) : projected[j] \in Attributed
    THEN /\ turn' = [turn EXCEPT ![g] = "completed"]
         /\ lease' = [lease EXCEPT ![g] = NoOwner]
    ELSE UNCHANGED <<turn, lease>>

\* reconcile_completed_delivery: every chunk has an attributed message
CompleteTurnIfDelivered(g, projected) ==
    IF \A j \in IntentsOf(g) : projected[j] \in Attributed
    THEN /\ turn' = [turn EXCEPT ![g] = "completed"]
         /\ lease' = [lease EXCEPT ![g] = NoOwner]
    ELSE UNCHANGED <<turn, lease>>

\* _reconcile_intent for an attributed echo: its chunk is sent already, which leaves
\* the refresh of the group, whatever its other chunks are doing
ReconcileGroup(g) == groupState' = [groupState EXCEPT ![g] = Refreshed(g, istate)]

\* the outgoing update of an accepted chunk is ingested, once (fingerprint)
Echo(i) ==
    LET g == GroupOf(i) IN
    /\ i \in accepted /\ echo[i] = "none"
    /\ echo' = [echo EXCEPT ![i] = Classified(i)]
    /\ fresh' = [fresh EXCEPT ![g] = FALSE]
    /\ IF Classified(i) = "resolved"
       THEN ReconcileGroup(g) /\ CompleteTurnIfDelivered(g, echo')
       ELSE UNCHANGED <<groupState, turn, lease>>
    /\ UNCHANGED <<human, intentVars, laneVars, telegramVars, adverse>>

\* slip: invalidation cancels a group that is already sending
CancelUnfinished(g) ==
    /\ groupState' = [groupState EXCEPT ![g] =
                        IF @ \in {"planned", "sending"} THEN "cancelled" ELSE @]
    /\ istate' = IF groupState[g] \in {"planned", "sending"}
                 THEN CancelUnclaimed(IntentsOf(g)) ELSE istate

\* _invalidate_pre_send on the conversation of g: a planned group is cancelled with
\* its unclaimed chunks, a group already sending is left to the gate
CancelPlanned(g) ==
    /\ groupState' = [groupState EXCEPT ![g] = IF @ = "planned" THEN "cancelled" ELSE @]
    /\ istate' = IF groupState[g] = "planned" THEN CancelUnclaimed(IntentsOf(g)) ELSE istate

CancelTurn(g) ==
    /\ turn' = [turn EXCEPT ![g] = IF @ = "output_ready" THEN "cancelled" ELSE @]
    /\ lease' = [lease EXCEPT ![g] = IF turn[g] = "output_ready" THEN NoOwner ELSE @]

\* the echo of i is pending and its chunk has been mapped since
Correctable(i) == echo[i] = "pending" /\ istate[i] = "sent"

\* the echoed message is edited: a pending projection whose chunk has been mapped
\* is corrected, the conversation is invalidated (a group that was just refreshed is
\* not a planned one), and delivery is reconciled
EchoEdited(i) ==
    LET g == GroupOf(i)
        projected == [echo EXCEPT ![i] = IF Correctable(i) THEN "corrected" ELSE @]
    IN  /\ echo[i] # "none" /\ Mishap
        /\ echo' = projected
        /\ fresh' = [fresh EXCEPT ![g] = FALSE]
        /\ IF Correctable(i) THEN ReconcileGroup(g) /\ UNCHANGED istate ELSE CancelPlanned(g)
        /\ IF \A j \in IntentsOf(g) : projected[j] \in Attributed
           THEN CompleteTurnIfDelivered(g, projected)
           ELSE CancelTurn(g)
        /\ UNCHANGED <<human, attempt, attemptState, sendLease, due, laneVars, telegramVars>>

\* the account holder writes while no send of the conversation is unsettled:
\* human_takeover_after_ingest
HumanConfirmed(g) ==
    /\ groupState[g] # "absent" /\ human[g] # "confirmed"
    /\ \A i \in IntentsOf(g) : istate[i] \notin {"sending", "unknown"}
    /\ human' = [human EXCEPT ![g] = "confirmed"]
    /\ fresh' = [fresh EXCEPT ![g] = FALSE]
    /\ CancelTurn(g) /\ CancelPlanned(g)
    /\ UNCHANGED <<attempt, attemptState, sendLease, due, echo, laneVars, telegramVars, adverse>>

\* the account holder writes while a send is unsettled: kept as system_pending
HumanPending(g) ==
    /\ human[g] = "none"
    /\ \E i \in IntentsOf(g) : istate[i] \in {"sending", "unknown"}
    /\ human' = [human EXCEPT ![g] = "pending"]
    /\ fresh' = [fresh EXCEPT ![g] = FALSE]
    /\ UNCHANGED <<groupState, turn, lease, intentVars, echo, laneVars, telegramVars, adverse>>

\* the contact writes again
Incoming(g) ==
    /\ groupState[g] # "absent" /\ fresh[g]
    /\ fresh' = [fresh EXCEPT ![g] = FALSE]
    /\ UNCHANGED <<groupState, turn, lease, human, intentVars, echo, laneVars, telegramVars,
                   adverse>>

\* a control command, an edit or a delete
Invalidate(g) ==
    /\ groupState[g] # "absent" /\ turn[g] = "output_ready"
    /\ CancelTurn(g) /\ CancelPlanned(g)
    /\ UNCHANGED <<fresh, human, attempt, attemptState, sendLease, due, echo, laneVars,
                   telegramVars, adverse>>

-----------------------------------------------------------------------------
LaneStep ==
    \/ SelectGroup \/ AdmissionRefused
    \/ PreflightClaim \/ PreflightCut \/ PreflightNothing
    \/ RefusedAfterClaim \/ CallTelegram
    \/ AnswerAccepted \/ AnswerRejected \/ AnswerLost
    \/ SettleFenced \/ SettleRefused \/ Recover

GroupStep(g) ==
    \/ CreateByRun(g) \/ CreateByWorker(g)
    \/ TurnLeaseLapses(g)
    \/ HumanConfirmed(g) \/ HumanPending(g) \/ Incoming(g) \/ Invalidate(g)

IntentStep(i) ==
    \/ SendLeaseLapses(i) \/ RetryFallsDue(i)
    \/ Accept(i) \/ Drop(i)
    \/ MapMessageId(i) \/ Echo(i) \/ EchoEdited(i)

Next ==
    \/ LaneStep \/ Restart
    \/ \E g \in Group : GroupStep(g)
    \/ \E i \in Intent : IntentStep(i)

Spec == Init /\ [][Next]_vars

-----------------------------------------------------------------------------
(* Safety.                                                                 *)

\* The contact reads a prefix of every output, whatever chunks were retried, lost or
\* reconciled late: chunk c is visible only if all earlier chunks are
\* (preflight_intent's ordinal check against what Telegram really accepted).
ChunksInOrder == \A i \in accepted : Earlier(i) \subseteq accepted

\* A chunk that reached Telegram or still may is never in a state from which the
\* dispatcher claims it or in one recording that it was not sent: a lost answer, an
\* expired lease or a restart never leads to a blind resend (m3.md, `unknown`).
NoBlindResend == \A i \in net \union accepted : istate[i] \in {"sending", "unknown", "sent"}

\* A chunk recorded as sent is one the contact can see: every path that writes `sent`
\* (receipt, id mapping) has evidence, although settlement and mapping race.
SentIsVisible == \A i \in Intent : istate[i] = "sent" => i \in accepted

\* A group recorded as cancelled had no Telegram side effect: invalidation and the
\* failed gate use `cancelled` only before the first claim (_cancel_delivery_remainder).
CancelledIsSilent ==
    \A g \in Group : groupState[g] = "cancelled" => ~SideEffectStarted(g)

\* Group and chunks agree however their writers interleave (settlement, mapping, recovery,
\* the echo's _reconcile_intent, cancellation): `sent` only when every chunk is, `planned`
\* only before any claim, never an unknown chunk under a group the scheduler would pick up
\* again.  A group whose chunks are all sent is `sent`, or `partial` when a mapping of its
\* last chunk overtook the preflight of a group already selected, whose closed gate
\* (duplicate_delivery) rewrites the state (_cancel_delivery_remainder).
GroupReflectsChunks ==
    \A g \in Group :
        LET states == {istate[i] : i \in IntentsOf(g)} IN
        /\ groupState[g] = "sent" => states = {"sent"}
        /\ states = {"sent"} => groupState[g] \in {"sent", "partial"}
        /\ groupState[g] \in {"absent", "planned"} => states = {"pending"}
        /\ groupState[g] \in {"partial", "failed"} => "unknown" \notin states

\* The turn is completed, and so its coverage advanced, only over an output the contact
\* has received in full and whose messages are attributed (reconcile_completed_delivery).
CompletedTurnDelivered ==
    \A g \in Group : turn[g] = "completed" =>
        \A i \in IntentsOf(g) : i \in accepted /\ istate[i] = "sent" /\ echo[i] \in Attributed

\* The system's own message never passes for the account holder's, whichever of echo,
\* mapping, receipt, recovery and cancellation comes first (_classify_source).
OwnEchoNeverHuman == \A i \in Intent : echo[i] # "human"

\* The attempt history follows the intent: an attempt is open exactly while its chunk
\* is sending, so recovery and mapping close every attempt they overtake.
OpenAttemptIsSending == \A i \in Intent : attemptState[i] = "started" <=> istate[i] = "sending"

-----------------------------------------------------------------------------
(* Action properties.                                                      *)

\* Settled outcomes are final, and `unknown` is left only for `sent`, on Telegram's word.
OutcomesAreFinal ==
    [][\A i \in Intent :
        /\ istate[i] \in {"sent", "failed", "cancelled"} => istate'[i] = istate[i]
        /\ istate[i] = "unknown" => istate'[i] \in {"unknown", "sent"}]_vars

\* Only the process instance that owns the turn claims its chunks, and only before the
\* turn is cancelled: a restarted app and a revoked output send nothing more.
ClaimsAreAuthorized ==
    [][\A i \in Intent : attempt'[i] # attempt[i] =>
        /\ turn[GroupOf(i)] = "output_ready" /\ lease'[GroupOf(i)] = instance
        /\ human[GroupOf(i)] # "confirmed"]_vars

-----------------------------------------------------------------------------
(* Liveness.  The lane is a loop that always runs its next step, recovery a *)
(* timer inside it (30 s), leases and retry waits end with the clock (the   *)
(* lease of a finished turn is never renewed), and Telegram answers.        *)
(* Nothing is assumed of people, of updates (they may be lost) or mishaps.  *)
Fairness ==
    /\ WF_vars(SelectGroup)
    /\ WF_vars(PreflightClaim \/ PreflightCut \/ PreflightNothing)
    /\ WF_vars(CallTelegram)
    /\ WF_vars(AnswerAccepted)
    /\ WF_vars(SettleFenced \/ SettleRefused)
    /\ SF_vars(Recover)
    /\ \A g \in Group : WF_vars(TurnLeaseLapses(g))
    /\ \A i \in Intent :
        /\ WF_vars(SendLeaseLapses(i)) /\ WF_vars(RetryFallsDue(i)) /\ WF_vars(Accept(i))

FairSpec == Spec /\ Fairness

\* No chunk stays claimed for ever: it is settled, reconciled or recovered as unknown,
\* also when its process died or its settlement lost the fence.
SendingResolves == \A i \in Intent : istate[i] = "sending" ~> istate[i] # "sending"

\* What the documents promise of a chunk whose retry has fallen due: its gate is
\* examined again, so it is claimed or cancelled (02-message-lifecycle.md 15.2).
RetryWaitResumes == \A i \in Intent : istate[i] = "retry_wait" ~> istate[i] # "retry_wait"

\* ... and of an outgoing message kept as system_pending: once its chunk is mapped
\* it is attributed (02-message-lifecycle.md 15.3).
PendingEchoResolves ==
    \A i \in Intent : (echo[i] = "pending" /\ istate[i] = "sent") ~> echo[i] # "pending"

-----------------------------------------------------------------------------
(* What the documents promise of an interrupted group, as steps.            *)

\* A lane that takes up a partial group does not put it down while its first unsent
\* chunk could be claimed (02-message-lifecycle.md 11: "partial" resumes there).
PartialGroupResumes ==
    [][\A i \in Intent :
        ( /\ pc = "preflight" /\ pc' = "idle" /\ UNCHANGED <<instance, adverse>>
          /\ GroupOf(cur) = GroupOf(i) /\ groupState[GroupOf(i)] = "partial" )
        => ~(istate[i] # "sent" /\ OrdinalReady(i) /\ FinalGate(i) /\ Claimable(i))]_vars

-----------------------------------------------------------------------------
(* Refinement.                                                             *)

Promise == INSTANCE OrderedOutput WITH
    Output <- Group,
    Chunk <- Intent,
    open <- {g \in Group : turn[g] = "output_ready"},
    released <- {i \in Intent : attempt[i] > 0},
    visible <- accepted

\* Delivery implements OrderedOutput: retries, late receipts, mappings, recovery and
\* restarts are invisible in it.
KeepsPromise == Promise!OutputSpec
=============================================================================
