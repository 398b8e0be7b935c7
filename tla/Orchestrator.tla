---------------------------- MODULE Orchestrator ----------------------------
(***************************************************************************)
(* One conversation between a contact, the account holder and the          *)
(* automation: how incoming messages become turns, turns become model      *)
(* runs, runs become outputs, and what makes each of them void.            *)
(*                                                                         *)
(* Every handler is one transaction under the locks of _locked_scope, so   *)
(* handlers interleave and never overlap.  The app's work lane is the one  *)
(* actor that spans several of them: it starts a run, waits for the model, *)
(* completes the run, claims the output and waits for Telegram, while the  *)
(* update listener and the control lane change everything underneath.      *)
(*                                                                         *)
(* Outputs have one chunk here (Delivery models several) and the base mode *)
(* is AUTO; a change of base mode acts as pause and resume do.             *)
(***************************************************************************)
EXTENDS Naturals

CONSTANTS
    MaxEvents,        \* bound: update events of the conversation
    MaxTurns,         \* bound: turns ever created
    MaxControls,      \* bound: commands of the administrator
    MaxInstances,     \* bound: app process instances
    MaxMishaps,       \* bound: failures of the model, Telegram or the admission check
    TakeoverEnabled   \* temporary_takeover_enabled of the account

ASSUME OrchestratorConstants ==
    /\ {MaxEvents, MaxTurns, MaxControls, MaxMishaps} \subseteq Nat
    /\ MaxInstances \in Nat \ {0}
    /\ TakeoverEnabled \in BOOLEAN

Event == 1..MaxEvents
Turn == 1..MaxTurns
NoOwner == 0
NoTurn == 0

\* what a row of message_events is about: an eligible incoming message, a media message
\* without text, an edit or a delete of an incoming message, a message of the account
\* holder, an attributed message of the system, an outgoing message not yet attributed
Kind == {"none", "incoming", "media", "edit", "delete", "human", "own", "pending"}
TurnState == {"absent", "collecting", "generating", "output_ready", "completed", "failed",
              "superseded", "cancelled"}
Trigger == {"incoming", "replacement", "manual_pending_reply"}
OutputState == {"none", "planned", "sending", "retry_wait", "sent", "unknown", "failed",
                "cancelled"}

VARIABLES
    \* --- the conversation ---
    events,      \* message_events so far; also content_revision
    kind,        \* kind[e] of the e-th event
    live,        \* events that are the current revision of an eligible incoming message
    floor,       \* the later of the two resume floors (both are set to the latest event)
    covered,     \* last_response_covered_event_id
    version,     \* account control_version + conversation mode_version
    pausedBy,    \* the pause gates in force: "account", "contact"
    takeover,    \* temporary_human_until: none, active (in the future), lapsed
    \* --- its work ---
    turn,        \* conversation_turns with the run of the active generation
    output,      \* the state of the turn's delivery group and of its one chunk
    visible,     \* turns whose reply the contact can see
    echoed,      \* turns whose reply has been projected from its outgoing update
    \* --- the app's work lane ---
    instance,    \* owner_instance_id
    pc,          \* idle, model, stale, dispatch, sending
    job,         \* the turn the lane is at
    \* --- no counterpart in the code ---
    whilePaused, \* the events recorded while a pause gate was in force
    whileHuman,  \* ... while a takeover was active
    controls, mishaps

logVars == <<events, kind, live, whilePaused, whileHuman>>
modeVars == <<floor, version, pausedBy, takeover>>
outputVars == <<output, visible, echoed>>
laneVars == <<instance, pc, job>>
bounds == <<controls, mishaps>>
vars == <<logVars, modeVars, covered, turn, outputVars, laneVars, bounds>>

-----------------------------------------------------------------------------
NoTurnYet == [state |-> "absent", trigger |-> "incoming", members |-> {}, version |-> 0,
              revision |-> 0, due |-> FALSE, lease |-> NoOwner, inGrace |-> FALSE,
              authorized |-> {}]

TurnRow == [state : TurnState, trigger : Trigger, members : SUBSET Event, version : Nat,
            revision : Nat, due : BOOLEAN, lease : Nat, inGrace : BOOLEAN,
            authorized : SUBSET Event]

TypeOK ==
    /\ events \in 0..MaxEvents
    /\ kind \in [Event -> Kind]
    /\ {live, whilePaused, whileHuman} \subseteq SUBSET Event
    /\ {floor, covered, version, controls, mishaps} \subseteq Nat
    /\ pausedBy \subseteq {"account", "contact"}
    /\ takeover \in {"none", "active", "lapsed"}
    /\ turn \in [Turn -> TurnRow]
    /\ output \in [Turn -> OutputState]
    /\ {visible, echoed} \subseteq SUBSET Turn
    /\ instance \in Nat \ {0}
    /\ pc \in {"idle", "model", "stale", "dispatch", "sending"}
    /\ job \in Turn \union {NoTurn}
    /\ pc # "idle" => job \in Turn

Init ==
    /\ events = 0 /\ kind = [e \in Event |-> "none"] /\ live = {}
    /\ floor = 0 /\ covered = 0 /\ version = 0
    /\ pausedBy = {} /\ takeover = "none"
    /\ turn = [t \in Turn |-> NoTurnYet]
    /\ output = [t \in Turn |-> "none"] /\ visible = {} /\ echoed = {}
    /\ instance = 1 /\ pc = "idle" /\ job = NoTurn
    /\ whilePaused = {} /\ whileHuman = {}
    /\ controls = 0 /\ mishaps = 0

-----------------------------------------------------------------------------
(* What the transactions compute.                                          *)

\* resolve_mode: effective mode AUTO and nothing blocking
PermitsAuto == pausedBy = {} /\ takeover # "active"

Recorded == 1..events
InState(turns, states) == {t \in Turn : turns[t].state \in states}
Active(turns) == InState(turns, {"collecting", "generating"})
Later(a, b) == IF a > b THEN a ELSE b

\* an event that adds to the incoming side of the conversation
FromContact == {"incoming", "media"}

\* lifecycle.ingest: the event is recorded, the conversation revision advances
Record(k) ==
    /\ events < MaxEvents
    /\ events' = events + 1
    /\ kind' = [kind EXCEPT ![events + 1] = k]
    /\ whilePaused' = IF pausedBy # {} THEN whilePaused \union {events + 1} ELSE whilePaused
    /\ whileHuman' = IF takeover = "active" THEN whileHuman \union {events + 1} ELSE whileHuman

\* the columns of a turn created now from the messages ms
Collecting(trigger, ms, revision) ==
    [NoTurnYet EXCEPT !.state = "collecting", !.trigger = trigger, !.members = ms,
                      !.version = version, !.revision = revision]

\* collection_sequence is the next number
NextTurn(turns) ==
    {t \in InState(turns, {"absent"}) : \A u \in InState(turns, {"absent"}) : t <= u}

\* insert into conversation_turns
WithTurn(turns, new) == {[turns EXCEPT ![t] = new] : t \in NextTurn(turns)}

\* _pending_messages: what has no reply yet, and whether an outgoing message is unattributed
Pending(messages, watermark) == {e \in messages : e > watermark}
Unresolved(watermark) == \E e \in Recorded : kind[e] = "pending" /\ e > watermark

\* slip: cancelling work forgets what is already planned
CancelTurnsOnly ==
    /\ turn' = [t \in Turn |->
                  IF turn[t].state \in {"collecting", "generating", "output_ready"}
                  THEN [turn[t] EXCEPT !.state = "cancelled", !.lease = NoOwner] ELSE turn[t]]
    /\ UNCHANGED output

\* _invalidate_pre_send
CancelWork ==
    /\ turn' = [t \in Turn |->
                  IF turn[t].state \in {"collecting", "generating", "output_ready"}
                  THEN [turn[t] EXCEPT !.state = "cancelled", !.lease = NoOwner] ELSE turn[t]]
    /\ output' = [t \in Turn |-> IF output[t] = "planned" THEN "cancelled" ELSE output[t]]

\* _supersede
Superseded(t) ==
    [turn EXCEPT ![t].state = "superseded", ![t].lease = NoOwner]

\* the versions a turn was collected under are still those of the conversation
VersionsHold(t) == PermitsAuto /\ turn[t].version = version

SealGate(t) == VersionsHold(t) /\ turn[t].revision = events

\* _new_revision_events and what they consist of
NewEvents(t) == {e \in Recorded : \A m \in turn[t].members : e > m}
OnlyIncoming(S) == S # {} /\ \A e \in S : kind[e] \in FromContact

\* generation_race_decision with the inputs of complete_generation
RaceDecision(t) ==
    LET new == NewEvents(t) IN
    IF \/ turn[t].version # version
       \/ turn[t].revision # events /\ ~OnlyIncoming(new)
    THEN "supersede"
    ELSE IF ~OnlyIncoming(new) THEN "unchanged"
    ELSE IF turn[t].inGrace THEN "authorize_grace" ELSE "supersede"

\* the final gate of complete_generation, after the race was decided
OutputGate(t) ==
    /\ RaceDecision(t) # "supersede"
    /\ VersionsHold(t)
    /\ turn[t].revision = events \/ RaceDecision(t) = "authorize_grace"
    /\ turn[t].lease = instance

\* slip: the authorization covers whatever arrived since
GraceOfAnyInput(t) == turn[t].authorized # {} /\ OnlyIncoming(NewEvents(t))

\* _exact_grace_authorized: the events since are the authorized ones
ExactGrace(t) ==
    /\ turn[t].authorized # {} /\ turn[t].authorized = NewEvents(t)
    /\ OnlyIncoming(NewEvents(t))

\* _continuation_source_valid: every source unchanged, no human message after them
SourceValid(t) ==
    /\ turn[t].members \subseteq live
    /\ \A e \in NewEvents(t) : kind[e] # "human"

\* evaluate_final_gate with the inputs of preflight_intent
SendGate(t) ==
    /\ turn[t].state = "output_ready" /\ output[t] = "planned"
    /\ VersionsHold(t)
    /\ turn[t].revision = events \/ ExactGrace(t)
    /\ turn[t].lease = instance
    /\ SourceValid(t)

Unsettled == \E t \in Turn : output[t] \in {"sending", "unknown"}

Mishap == mishaps < MaxMishaps /\ mishaps' = mishaps + 1

\* slip: the lane forgets the turn and stays where it was
IdleInName == job' = NoTurn /\ UNCHANGED pc

\* run_due_turn or dispatch_group returns
Idle == pc' = "idle" /\ job' = NoTurn

-----------------------------------------------------------------------------
(* The update listener: ingest, then the orchestrator, in one transaction.  *)
(* A handler that raises leaves nothing behind, so it is no step at all.    *)

RecordFromContact(k) ==
    /\ k \in FromContact /\ Record(k)
    /\ live' = IF k = "incoming" THEN live \union {events + 1} ELSE live

\* handle_new_incoming keeps the message and does nothing: a run may still be answered
\* within its grace, or there is nothing to collect
IncomingKept(k) ==
    /\ RecordFromContact(k)
    /\ IF InState(turn, {"generating"}) # {}
       THEN \E t \in InState(turn, {"generating"}) : turn[t].inGrace
       ELSE k = "media" \/ ~PermitsAuto
    /\ UNCHANGED <<modeVars, covered, turn, outputVars, laneVars, bounds>>

\* collect_message joins the collecting turn; the quiet deadline moves, the hard one does not
IncomingJoins ==
    /\ RecordFromContact("incoming") /\ PermitsAuto
    /\ InState(turn, {"generating"}) = {}
    /\ \E t \in InState(turn, {"collecting"}) :
        \E due \in {FALSE, turn[t].due} :
            turn' = [turn EXCEPT ![t].members = @ \union {events + 1},
                                 ![t].revision = events + 1, ![t].due = due]
    /\ UNCHANGED <<modeVars, covered, outputVars, laneVars, bounds>>

\* collect_message opens a turn
IncomingOpensTurn ==
    /\ RecordFromContact("incoming") /\ PermitsAuto
    /\ Active(turn) = {}
    /\ turn' \in WithTurn(turn, Collecting("incoming", {events + 1}, events + 1))
    /\ UNCHANGED <<modeVars, covered, outputVars, laneVars, bounds>>

\* slip: a pending turn is opened beside the one in progress
PendingTurnBeside(turns, messages, watermark) ==
    /\ PermitsAuto /\ ~Unresolved(watermark)
    /\ Pending(messages, watermark) # {}

\* create_pending_turn accepts: its mode gate, its unresolved check, its segment
PendingTurnAllowed(turns, messages, watermark) ==
    /\ PermitsAuto /\ ~Unresolved(watermark)
    /\ Pending(messages, watermark) # {}
    /\ Active(turns) = {}

\* after the grace of a run a new message supersedes it, and one replacement turn takes
\* up everything that has no reply
IncomingSupersedes(k) ==
    /\ RecordFromContact(k)
    /\ \E t \in InState(turn, {"generating"}) :
        LET watermark == Later(covered, floor) IN
        /\ ~turn[t].inGrace
        /\ PendingTurnAllowed(Superseded(t), live', watermark)
        /\ turn' \in WithTurn(Superseded(t), Collecting("replacement", Pending(live', watermark),
                                                       events + 1))
    /\ UNCHANGED <<modeVars, covered, outputVars, laneVars, bounds>>

\* an incoming message is edited: its new revision is a new source, work is invalidated
Edit(m) ==
    /\ m \in live /\ Record("edit")
    /\ live' = (live \ {m}) \union {events + 1}
    /\ CancelWork
    /\ UNCHANGED <<modeVars, covered, visible, echoed, laneVars, bounds>>

Delete(m) ==
    /\ m \in live /\ Record("delete")
    /\ live' = live \ {m}
    /\ CancelWork
    /\ UNCHANGED <<modeVars, covered, visible, echoed, laneVars, bounds>>

\* the last of some events
Latest(S) == {e \in S : \A f \in S : f <= e}

\* slip: only new messages count as answered, not their edits
CoverageOfNewOnly == Latest({covered} \union {e \in Recorded : kind[e] \in FromContact})

\* what the account holder has answered by writing: every current revision so far
HumanCoverage ==
    Latest({covered} \union {e \in Recorded : kind[e] \in FromContact \union {"edit"}})

\* the account holder writes, no send is unsettled: human_takeover_after_ingest.  What
\* the contact has written so far counts as answered.
HumanWrites ==
    /\ ~Unsettled /\ Record("human")
    /\ version' = version + 1
    /\ takeover' = IF TakeoverEnabled THEN "active" ELSE takeover
    /\ covered' \in HumanCoverage
    /\ CancelWork
    /\ UNCHANGED <<live, floor, pausedBy, visible, echoed, laneVars, bounds>>

\* ... while a send is unsettled: the message stays system_pending and has no effect
HumanUnattributed ==
    /\ Unsettled /\ Record("pending")
    /\ UNCHANGED <<live, modeVars, covered, turn, outputVars, laneVars, bounds>>

\* slip: completion leaves the coverage alone
CoverageUnmoved(t) == {covered}

\* reconcile_completed_delivery: the turn's sources are answered
CoverageAfter(t) == Latest({covered} \union turn[t].members)

\* the outgoing update of a reply whose message id is known: reconcile_completed_delivery
\* completes the turn from any state and opens a turn for what is still unanswered.
\* It raises, and so loses the update, when the mode gate or the unresolved check of
\* create_pending_turn does.
EchoCompletes(t) ==
    LET done == [turn EXCEPT ![t].state = "completed", ![t].lease = NoOwner]
    IN  /\ t \in visible \ echoed /\ output[t] = "sent"
        /\ Record("own") /\ echoed' = echoed \union {t}
        /\ PermitsAuto
        /\ covered' \in CoverageAfter(t)
        /\ LET watermark == Later(covered', floor) IN
            /\ ~Unresolved(watermark)
            /\ IF PendingTurnAllowed(done, live, watermark)
               THEN turn' \in WithTurn(done, Collecting("replacement", Pending(live, watermark),
                                                        events + 1))
               ELSE turn' = done
        /\ UNCHANGED <<live, modeVars, output, visible, laneVars, bounds>>

\* ... whose message id is not known yet: system_pending
EchoUnattributed(t) ==
    /\ t \in visible \ echoed /\ output[t] # "sent"
    /\ Record("pending") /\ echoed' = echoed \union {t}
    /\ UNCHANGED <<live, modeVars, covered, turn, output, visible, laneVars, bounds>>

\* UpdateMessageID
MapMessageId(t) ==
    /\ t \in visible /\ output[t] # "sent"
    /\ output' = [output EXCEPT ![t] = "sent"]
    /\ UNCHANGED <<logVars, modeVars, covered, turn, visible, echoed, laneVars, bounds>>

-----------------------------------------------------------------------------
(* The control lane: one command, one transaction.                         *)

Command == controls < MaxControls /\ controls' = controls + 1

Pause(gate) ==
    /\ Command /\ gate \notin pausedBy
    /\ pausedBy' = pausedBy \union {gate} /\ version' = version + 1
    /\ CancelWork
    /\ UNCHANGED <<logVars, floor, takeover, covered, visible, echoed, laneVars, mishaps>>

\* slip: resuming leaves the floor where it was
FloorUnmoved == floor

\* the resume floor after a command that restores automation: the latest event
ResumeFloor == events

\* set_account_control and set_conversation_control advance the floor on resume
Resume(gate) ==
    /\ Command /\ gate \in pausedBy
    /\ pausedBy' = pausedBy \ {gate} /\ version' = version + 1
    /\ floor' = ResumeFloor
    /\ CancelWork
    /\ UNCHANGED <<logVars, takeover, covered, visible, echoed, laneVars, mishaps>>

\* cancel_only: the same command with nothing changed but the version
Cancel ==
    /\ Command
    /\ version' = version + 1
    /\ floor' = IF "contact" \notin pausedBy /\ ~PermitsAuto THEN ResumeFloor ELSE floor
    /\ CancelWork
    /\ UNCHANGED <<logVars, pausedBy, takeover, covered, visible, echoed, laneVars, mishaps>>

\* end_temporary_human
EndTakeover ==
    /\ Command /\ takeover # "none"
    /\ takeover' = "none" /\ version' = version + 1
    /\ floor' = ResumeFloor
    /\ CancelWork
    /\ UNCHANGED <<logVars, pausedBy, covered, visible, echoed, laneVars, mishaps>>

\* reply_pending: create_pending_turn with ignore_resume_floor
ReplyPending ==
    /\ Command
    /\ PendingTurnAllowed(turn, live, covered)
    /\ turn' \in WithTurn(turn, Collecting("manual_pending_reply", Pending(live, covered), events))
    /\ UNCHANGED <<logVars, modeVars, covered, outputVars, laneVars, mishaps>>

-----------------------------------------------------------------------------
(* Time.                                                                   *)

QuietElapses(t) ==
    /\ turn[t].state = "collecting" /\ ~turn[t].due
    /\ turn' = [turn EXCEPT ![t].due = TRUE]
    /\ UNCHANGED <<logVars, modeVars, covered, outputVars, laneVars, bounds>>

\* three seconds since the start of the run
GraceEnds(t) ==
    /\ turn[t].inGrace
    /\ turn' = [turn EXCEPT ![t].inGrace = FALSE]
    /\ UNCHANGED <<logVars, modeVars, covered, outputVars, laneVars, bounds>>

\* a lease nobody renews any more: its process died, or its monitor gave up
LeaseLapses(t) ==
    /\ turn[t].lease # NoOwner
    /\ turn' = [turn EXCEPT ![t].lease = NoOwner]
    /\ UNCHANGED <<logVars, modeVars, covered, outputVars, laneVars, bounds>>

\* temporary_human_until passes; nothing scans for it
TakeoverLapses ==
    /\ takeover = "active"
    /\ takeover' = "lapsed"
    /\ UNCHANGED <<logVars, floor, version, pausedBy, covered, turn, outputVars, laneVars,
                   bounds>>

-----------------------------------------------------------------------------
(* The work lane.                                                          *)

DueTurn(t) == turn[t].state = "collecting" /\ turn[t].due
Processing == InState(turn, {"generating", "output_ready"})

\* run_due_turn: seal_turn and start_generation in one transaction.  A gate that fails
\* raises, which also takes back the cancellation seal_turn had written.
StartGeneration(t) ==
    /\ pc = "idle" /\ DueTurn(t) /\ SealGate(t)
    /\ Processing = {}
    /\ turn' = [turn EXCEPT ![t].state = "generating", ![t].lease = instance,
                            ![t].inGrace = TRUE]
    /\ pc' = "model" /\ job' = t
    /\ UNCHANGED <<logVars, modeVars, covered, outputVars, instance, bounds>>

\* ... while another turn of the conversation is still being processed: the unique index
\* uq_conversation_turns_processing rejects the row, nobody catches the error, and the
\* process ends
StartCollides(t) ==
    /\ pc = "idle" /\ DueTurn(t) /\ SealGate(t)
    /\ Processing # {}
    /\ instance < MaxInstances /\ instance' = instance + 1
    /\ UNCHANGED <<logVars, modeVars, covered, turn, outputVars, pc, job, bounds>>

\* slip: the lease is renewed, and refused, while the grace is still running
RenewalAtOnce == pc = "model"

\* the monitor waits four seconds between renewals, longer than the grace
RenewalDue == pc = "model" /\ ~turn[job].inGrace

\* renew_generation_lease, four seconds into an attempt: refused once anything has
\* changed, and the model call is cancelled
RenewRefused ==
    /\ RenewalDue
    /\ ~(turn[job].state = "generating" /\ turn[job].lease = instance /\ SealGate(job))
    /\ pc' = "stale"
    /\ UNCHANGED <<logVars, modeVars, covered, turn, outputVars, instance, job, bounds>>

\* complete_generation refuses the result: the run is superseded, nothing replaces it
CompleteRefused ==
    /\ pc \in {"model", "stale"}
    /\ turn[job].state = "generating" /\ ~OutputGate(job)
    /\ turn' = Superseded(job)
    /\ Idle
    /\ UNCHANGED <<logVars, modeVars, covered, outputVars, instance, bounds>>

\* complete_generation for a run that ended meanwhile
CompleteTooLate ==
    /\ pc \in {"model", "stale"} /\ turn[job].state # "generating"
    /\ Idle
    /\ UNCHANGED <<logVars, modeVars, covered, turn, outputVars, instance, bounds>>

\* complete_generation materialises the output and, under grace, the exact list of the
\* messages it may disregard; run_due_turn goes on to dispatch it
CompletePlanned ==
    /\ pc \in {"model", "stale"}
    /\ turn[job].state = "generating" /\ OutputGate(job)
    /\ turn' = [turn EXCEPT ![job].state = "output_ready",
                            ![job].authorized = IF RaceDecision(job) = "authorize_grace"
                                                THEN NewEvents(job) ELSE {}]
    /\ output' = [output EXCEPT ![job] = "planned"]
    /\ \/ pc = "model" /\ pc' = "dispatch" /\ UNCHANGED job
       \/ pc = "stale" /\ Idle
    /\ UNCHANGED <<logVars, modeVars, covered, visible, echoed, instance, bounds>>

\* fail_generation: the model failed for good, or the admission check refused
FailGeneration ==
    /\ pc = "model" /\ Mishap
    /\ turn' = IF turn[job].state = "generating" /\ turn[job].lease = instance
               THEN [turn EXCEPT ![job].state = "failed", ![job].lease = NoOwner] ELSE turn
    /\ Idle
    /\ UNCHANGED <<logVars, modeVars, covered, outputVars, instance, controls>>

\* slip: a process recovers only what it started itself
ExpiredOfOwn(t) == turn[t].state = "generating" /\ turn[t].lease = instance

\* recover_expired_generations: its WHERE clause
Expired(t) == turn[t].state = "generating" /\ turn[t].lease = NoOwner

RecoverGeneration(t) ==
    /\ pc = "idle" /\ Expired(t)
    /\ turn' = [turn EXCEPT ![t].state = "failed"]
    /\ UNCHANGED <<logVars, modeVars, covered, outputVars, laneVars, bounds>>

\* _next_delivery_group, looked at only when no turn is due
SelectOutput(t) ==
    /\ pc = "idle" /\ output[t] = "planned"
    /\ \A u \in Turn : ~DueTurn(u)
    /\ pc' = "dispatch" /\ job' = t
    /\ UNCHANGED <<logVars, modeVars, covered, turn, outputVars, instance, bounds>>

AdmissionRefused ==
    /\ pc = "dispatch" /\ Mishap
    /\ Idle
    /\ UNCHANGED <<logVars, modeVars, covered, turn, outputVars, instance, controls>>

\* preflight_intent opens its gate and claims the chunk
ClaimOutput ==
    /\ pc = "dispatch" /\ SendGate(job)
    /\ output' = [output EXCEPT ![job] = "sending"]
    /\ pc' = "sending"
    /\ UNCHANGED <<logVars, modeVars, covered, turn, visible, echoed, instance, job, bounds>>

\* preflight_intent closes its gate: _cancel_delivery_remainder ends the group and leaves
\* the turn as it is
CutOutput ==
    /\ pc = "dispatch" /\ ~SendGate(job)
    /\ output' = [output EXCEPT ![job] = "cancelled"]
    /\ Idle
    /\ UNCHANGED <<logVars, modeVars, covered, turn, visible, echoed, instance, bounds>>

\* Telegram takes the message, perhaps after the lane has given up waiting
TelegramAccepts(t) ==
    /\ output[t] \in {"sending", "unknown"} /\ t \notin visible
    /\ visible' = visible \union {t}
    /\ UNCHANGED <<logVars, modeVars, covered, turn, output, echoed, laneVars, bounds>>

\* finish_attempt: settled, unless UpdateMessageID was faster
SettleSent ==
    /\ pc = "sending" /\ job \in visible
    /\ output' = [output EXCEPT ![job] = "sent"]
    /\ Idle
    /\ UNCHANGED <<logVars, modeVars, covered, turn, visible, echoed, instance, bounds>>

\* ... with a flood wait or a rejection, or without an answer
SettleOtherwise ==
    /\ pc = "sending" /\ Mishap
    /\ IF output[job] = "sending"
       THEN \E outcome \in (IF job \in visible THEN {"unknown"}
                            ELSE {"unknown", "retry_wait", "failed"}) :
                output' = [output EXCEPT ![job] = outcome]
       ELSE UNCHANGED output
    /\ Idle
    /\ UNCHANGED <<logVars, modeVars, covered, turn, visible, echoed, instance, controls>>

\* recover_stale_sending, for a send whose process is gone
RecoverSend(t) ==
    /\ pc = "idle" /\ output[t] = "sending"
    /\ output' = [output EXCEPT ![t] = "unknown"]
    /\ UNCHANGED <<logVars, modeVars, covered, turn, visible, echoed, laneVars, bounds>>

\* the process dies at any point
Restart ==
    /\ instance < MaxInstances /\ instance' = instance + 1
    /\ Idle
    /\ UNCHANGED <<logVars, modeVars, covered, turn, outputVars, bounds>>

-----------------------------------------------------------------------------
ListenerStep ==
    \/ \E k \in FromContact : IncomingKept(k) \/ IncomingSupersedes(k)
    \/ IncomingJoins \/ IncomingOpensTurn
    \/ \E m \in live : Edit(m) \/ Delete(m)
    \/ HumanWrites \/ HumanUnattributed
    \/ \E t \in Turn : EchoCompletes(t) \/ EchoUnattributed(t) \/ MapMessageId(t)

ControlStep ==
    \/ \E gate \in {"account", "contact"} : Pause(gate) \/ Resume(gate)
    \/ Cancel \/ EndTakeover \/ ReplyPending

ClockStep ==
    \/ TakeoverLapses
    \/ \E t \in Turn : QuietElapses(t) \/ GraceEnds(t) \/ LeaseLapses(t)

LaneStep ==
    \/ \E t \in Turn : \/ StartGeneration(t) \/ StartCollides(t) \/ RecoverGeneration(t)
                       \/ SelectOutput(t) \/ RecoverSend(t)
    \/ RenewRefused \/ CompleteRefused \/ CompleteTooLate \/ CompletePlanned \/ FailGeneration
    \/ AdmissionRefused \/ ClaimOutput \/ CutOutput \/ SettleSent \/ SettleOtherwise

Next ==
    \/ ListenerStep \/ ControlStep \/ ClockStep \/ LaneStep \/ Restart
    \/ \E t \in Turn : TelegramAccepts(t)

Spec == Init /\ [][Next]_vars

\* The app's loop comes round, the model and Telegram calls end by their timeouts, and a
\* lease that nobody renews runs out.  Nobody has to write, command or restart, and a lease
\* the lane is working under need not lapse.
OrphanLapses(t) == (job # t \/ turn[t].lease # instance) /\ LeaseLapses(t)

FairSpec ==
    /\ Spec
    /\ WF_vars(LaneStep)
    /\ \A t \in Turn : /\ WF_vars(OrphanLapses(t)) /\ WF_vars(QuietElapses(t))
                       /\ WF_vars(TelegramAccepts(t)) /\ WF_vars(RecoverGeneration(t))

-----------------------------------------------------------------------------
(* What must never happen.                                                 *)

\* A conversation has one turn under way at most: collecting, opening from a command,
\* from a superseded run or from the echo of the last reply exclude each other
\* (handle_new_incoming, create_pending_turn), and so do run and unsent output
\* (uq_conversation_turns_processing).
OneTurnUnderWay ==
    /\ \A t, u \in Active(turn) : t = u
    /\ \A t, u \in Processing : t = u

\* Whatever takes the permission for an output away (pause, cancel, takeover, the account
\* holder's message, an edit or a delete of a source) also ends the output, in the same
\* transaction: one that is still planned is still wanted (_invalidate_pre_send).
PlannedIsStillWanted ==
    \A t \in Turn : output[t] = "planned" =>
        /\ turn[t].state = "output_ready"
        /\ turn[t].version = version /\ PermitsAuto
        /\ turn[t].members \subseteq live
        /\ \A e \in NewEvents(t) : kind[e] # "human"

\* A run whose lease the living process holds is the one its lane is at: no run waits for a
\* lane that has gone elsewhere (complete_generation, fail_generation, renew).
LeaseHasItsLane ==
    \A t \in Turn : turn[t].state = "generating" /\ turn[t].lease = instance
                    => pc \in {"model", "stale"} /\ job = t

\* The backlog that came in under a pause is not answered when automation comes back: only
\* an explicit reply_pending takes it up (the resume floor of set_account_control and
\* set_conversation_control).
PauseBacklogUnanswered ==
    \A t \in Turn : turn[t].trigger # "manual_pending_reply"
                    => turn[t].members \cap whilePaused = {}

\* What the account holder has answered is not answered again: every source of a turn under
\* way came after his last attributed message, edits included (human_takeover_after_ingest
\* moves the coverage and cancels the work).
HumanHasAnswered ==
    \A t \in InState(turn, {"collecting", "generating", "output_ready"}) :
        \A m \in turn[t].members, e \in Recorded : kind[e] = "human" => e < m

\* A turn is completed by its reply alone: the contact sees it, its echo was projected, and
\* the coverage has passed every source, so nothing of it is collected again
\* (reconcile_completed_delivery).
CompletedIsCovered ==
    \A t \in InState(turn, {"completed"}) :
        t \in visible \cap echoed /\ \A m \in turn[t].members : m <= covered

\* At the claim of an output nothing has happened that the model did not see, except
\* messages of the contact that came within the grace of the run and were listed then; the
\* sources are unchanged, and nobody has paused or taken over (preflight_intent).
OutputIsCurrent ==
    [][\A t \in Turn :
        output[t] = "planned" /\ output'[t] = "sending" =>
            /\ pausedBy = {} /\ takeover # "active" /\ version = turn[t].version
            /\ turn[t].members \subseteq live
            /\ \A e \in Recorded :
                e > turn[t].revision => kind[e] \in FromContact /\ e \in turn[t].authorized]_vars

\* A run that was told it is stale never becomes an output: run_due_turn completes it with
\* the text "stale generation discarded", which only the gate of complete_generation keeps
\* from the contact.
StaleIsDiscarded ==
    [][pc = "stale" => output'[job] # "planned" \/ output[job] = "planned"]_vars

-----------------------------------------------------------------------------
(* What a conversation promises.                                           *)

\* how far a turn has come
PhaseOf(t) ==
    CASE turn[t].state = "absent" -> "absent"
      [] turn[t].state = "collecting" -> "gathering"
      [] turn[t].state = "generating" -> "thinking"
      [] turn[t].state = "output_ready" -> "ready"
      [] turn[t].state = "completed" -> "answered"
      [] OTHER -> "over"

\* the turns whose output was claimed for Telegram
Released == {t \in Turn : output[t] \in {"sending", "retry_wait", "sent", "unknown", "failed"}}

Talk == INSTANCE TurnTaking WITH
    Turns <- Turn,
    mode <- version,
    permitted <- PermitsAuto,
    current <- live,
    answered <- covered,
    phase <- [t \in Turn |-> PhaseOf(t)],
    sources <- [t \in Turn |-> turn[t].members],
    offered <- {t \in Turn : output[t] = "planned"},
    released <- Released,
    seen <- visible

\* Turns are taken one at a time and in good order: however messages, commands, runs, restarts
\* and the echoes of replies compete, turns exclude each other, none comes back, no output is
\* claimed twice or unwanted, and what takes the permission or a source away ends all work in
\* the same transaction (the handlers of orchestrator_repository.py).
TakesTurns == Talk!TalkSpec

-----------------------------------------------------------------------------
(* What must eventually happen.                                            *)

\* No run stays "generating": it is planned, refused or failed by its lane, and if its
\* process died the next one fails it once the lease is out (recover_expired_generations).
GenerationEnds ==
    \A t \in Turn : turn[t].state = "generating" ~> turn[t].state # "generating"

-----------------------------------------------------------------------------
(* What the documents say and the code does not do.                        *)

\* A due turn whose gate is open can be run: no other turn of the conversation is still
\* being processed (03-data-model.md on uq_conversation_turns_processing).
DueTurnCanStart ==
    \A t \in Turn : pc = "idle" /\ DueTurn(t) /\ SealGate(t) => Processing = {}

\* Unless somebody asks for it, a message is answered once, however the update of the reply
\* is delayed (02-message-lifecycle.md section 2).
AnsweredOnce ==
    \A t, u \in {v \in visible : turn[v].trigger # "manual_pending_reply"} :
        t # u => turn[t].members \cap turn[u].members = {}

\* An edit before anything was sent cancels the turn and builds it again: under AUTO, with no
\* pause, takeover or later edit, the edited message is collected
\* (02-message-lifecycle.md section 2 and section 19).
EditedMessage(e) ==
    /\ kind[e] = "edit" /\ e \in live /\ visible = {} /\ e > Later(floor, covered)
    /\ pausedBy = {} /\ takeover = "none"
EditIsRebuilt ==
    \A e \in Event : EditedMessage(e) ~> \/ ~EditedMessage(e)
                                        \/ \E t \in Turn : e \in turn[t].members

\* When a takeover is over, what the contact wrote meanwhile is not answered on the
\* automation's own account (04-conversation-orchestrator.md sections 12.3 and 18).
TakeoverBacklogUnanswered ==
    \A t \in Turn : turn[t].trigger # "manual_pending_reply"
                    => turn[t].members \cap whileHuman = {}
=============================================================================
