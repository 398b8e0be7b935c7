------------------------- MODULE OrchestratorProofs -------------------------
(***************************************************************************)
(* Theorems about Orchestrator, for any number of events, turns, commands, *)
(* process instances and mishaps, with and without temporary takeovers.    *)
(***************************************************************************)
EXTENDS Orchestrator, TLAPS

USE OrchestratorConstants

-----------------------------------------------------------------------------
(* Type correctness.                                                       *)

\* A turn created now is a row, as far as its message list and revision are.
LEMMA CollectingIsRow ==
    ASSUME version \in Nat, NEW trigger \in Trigger, NEW ms \in SUBSET Event,
           NEW revision \in Nat
    PROVE  Collecting(trigger, ms, revision) \in TurnRow
  BY DEF Collecting, NoTurnYet, TurnRow, TurnState, Trigger, NoOwner

\* Opening a turn fills one absent row.
LEMMA OpenedTurn ==
    ASSUME NEW turns \in [Turn -> TurnRow], NEW new \in TurnRow,
           NEW result \in WithTurn(turns, new)
    PROVE  \E t \in Turn : /\ turns[t].state = "absent"
                           /\ result = [turns EXCEPT ![t] = new]
                           /\ result \in [Turn -> TurnRow]
  <1>1. PICK t \in NextTurn(turns) : result = [turns EXCEPT ![t] = new]
    BY DEF WithTurn
  <1> QED
    BY <1>1 DEF NextTurn, InState

\* A row whose turn ends stays a row.
LEMMA EndedIsRow ==
    ASSUME NEW r \in TurnRow, NEW state \in TurnState
    PROVE  [r EXCEPT !.state = state, !.lease = NoOwner] \in TurnRow
  BY DEF TurnRow, NoOwner

\* Setting a column to a value of its type leaves a row.
LEMMA ColumnIsRow ==
    ASSUME NEW r \in TurnRow
    PROVE  /\ \A state \in TurnState : [r EXCEPT !.state = state] \in TurnRow
           /\ \A due \in BOOLEAN : [r EXCEPT !.due = due] \in TurnRow
           /\ \A inGrace \in BOOLEAN : [r EXCEPT !.inGrace = inGrace] \in TurnRow
           /\ \A lease \in Nat : [r EXCEPT !.lease = lease] \in TurnRow
           /\ \A authorized \in SUBSET Event : [r EXCEPT !.authorized = authorized] \in TurnRow
  BY DEF TurnRow

\* A row that a message joins stays a row.
LEMMA JoinedIsRow ==
    ASSUME NEW r \in TurnRow, NEW ms \in SUBSET Event, NEW revision \in Nat, NEW due \in BOOLEAN
    PROVE  [r EXCEPT !.members = ms, !.revision = revision, !.due = due] \in TurnRow
  BY DEF TurnRow

\* Cancelling work keeps the rows.
LEMMA CancelKeepsRows ==
    ASSUME TypeOK, CancelWork
    PROVE  turn' \in [Turn -> TurnRow] /\ output' \in [Turn -> OutputState]
  <1>1. \A t \in Turn : turn[t] \in TurnRow
    BY DEF TypeOK
  <1>2. "cancelled" \in TurnState
    BY DEF TurnState
  <1>3. \A t \in Turn : [turn[t] EXCEPT !.state = "cancelled", !.lease = NoOwner] \in TurnRow
    BY <1>1, <1>2, EndedIsRow
  <1>4. turn' \in [Turn -> TurnRow]
    BY <1>1, <1>3 DEF CancelWork
  <1>5. output' \in [Turn -> OutputState]
    BY DEF CancelWork, TypeOK, OutputState
  <1> QED
    BY <1>4, <1>5

\* Ending a run keeps the rows.
LEMMA SupersededIsRows ==
    ASSUME TypeOK, NEW t \in Turn
    PROVE  Superseded(t) \in [Turn -> TurnRow]
  <1>1. "superseded" \in TurnState
    BY DEF TurnState
  <1>2. [turn[t] EXCEPT !.state = "superseded", !.lease = NoOwner] \in TurnRow
    BY <1>1, EndedIsRow DEF TypeOK
  <1>3. Superseded(t) = [turn EXCEPT ![t] = [turn[t] EXCEPT !.state = "superseded",
                                                            !.lease = NoOwner]]
    BY DEF Superseded, TypeOK
  <1> QED
    BY <1>2, <1>3 DEF TypeOK

\* Recording an event keeps the log well typed.
LEMMA RecordKeepsLog ==
    ASSUME TypeOK, NEW k \in Kind, Record(k)
    PROVE  /\ events' \in 0..MaxEvents /\ events + 1 \in Event /\ events' = events + 1
           /\ kind' \in [Event -> Kind] /\ whilePaused' \subseteq Event /\ whileHuman' \subseteq Event
  BY DEF TypeOK, Record, Event

\* Coverage moves to an event.
LEMMA LatestIsLast ==
    ASSUME NEW S, NEW e \in Latest(S)
    PROVE  e \in S /\ \A f \in S : f <= e
  BY DEF Latest

\* Each step of the update listener keeps the types.
LEMMA ListenerKeepsTypes ==
    ASSUME TypeOK, ListenerStep
    PROVE  TypeOK'
  <1> USE DEF TypeOK
  <1>1. ASSUME NEW k \in FromContact, IncomingKept(k) PROVE TypeOK'
    <2>1. k \in Kind /\ Record(k)
      BY <1>1 DEF IncomingKept, RecordFromContact, FromContact, Kind
    <2> QED
      BY <1>1, <2>1, RecordKeepsLog
      DEF IncomingKept, RecordFromContact, modeVars, outputVars, laneVars, bounds
  <1>2. ASSUME NEW k \in FromContact, IncomingSupersedes(k) PROVE TypeOK'
    <2>1. k \in Kind /\ Record(k)
      BY <1>2 DEF IncomingSupersedes, RecordFromContact, FromContact, Kind
    <2>2. live' \subseteq Event /\ events + 1 \in Nat
      BY <1>2, <2>1, RecordKeepsLog DEF IncomingSupersedes, RecordFromContact, Event
    <2>3. turn' \in [Turn -> TurnRow]
      <3>1. PICK t \in InState(turn, {"generating"}) :
              turn' \in WithTurn(Superseded(t),
                         Collecting("replacement", Pending(live', Later(covered, floor)),
                                    events + 1))
        BY <1>2 DEF IncomingSupersedes
      <3>2. Superseded(t) \in [Turn -> TurnRow]
        BY SupersededIsRows DEF InState
      <3>3. Collecting("replacement", Pending(live', Later(covered, floor)), events + 1)
              \in TurnRow
        BY <2>2, CollectingIsRow DEF Pending, Trigger
      <3> QED
        BY <3>1, <3>2, <3>3, OpenedTurn
    <2> QED
      BY <1>2, <2>1, <2>2, <2>3, RecordKeepsLog
      DEF IncomingSupersedes, modeVars, outputVars, laneVars, bounds
  <1>3. ASSUME IncomingJoins PROVE TypeOK'
    <2>1. "incoming" \in Kind /\ Record("incoming")
      BY <1>3 DEF IncomingJoins, RecordFromContact, Kind
    <2>2. turn' \in [Turn -> TurnRow]
      <3>1. PICK t \in Turn, due \in BOOLEAN :
              turn' = [turn EXCEPT ![t].members = @ \union {events + 1},
                                   ![t].revision = events + 1, ![t].due = due]
        BY <1>3 DEF IncomingJoins, InState, TurnRow
      <3> DEFINE ms == turn[t].members \union {events + 1}
      <3>2. turn' = [turn EXCEPT ![t] = [turn[t] EXCEPT !.members = ms,
                                                       !.revision = events + 1, !.due = due]]
        BY <3>1
      <3>3. turn[t] \in TurnRow /\ turn[t].members \subseteq Event
        BY DEF TurnRow
      <3>4. ms \in SUBSET Event /\ events + 1 \in Nat
        BY <2>1, <3>3, RecordKeepsLog
      <3> HIDE DEF ms
      <3>5. [turn[t] EXCEPT !.members = ms, !.revision = events + 1, !.due = due] \in TurnRow
        BY <3>3, <3>4, JoinedIsRow
      <3> QED
        BY <3>2, <3>5
    <2> QED
      BY <1>3, <2>1, <2>2, RecordKeepsLog
      DEF IncomingJoins, RecordFromContact, modeVars, outputVars, laneVars, bounds
  <1>4. ASSUME IncomingOpensTurn PROVE TypeOK'
    <2>1. "incoming" \in Kind /\ Record("incoming")
      BY <1>4 DEF IncomingOpensTurn, RecordFromContact, Kind
    <2>2. Collecting("incoming", {events + 1}, events + 1) \in TurnRow
      BY <2>1, CollectingIsRow, RecordKeepsLog DEF Trigger, Event
    <2>3. turn' \in [Turn -> TurnRow]
      BY <1>4, <2>2, OpenedTurn DEF IncomingOpensTurn
    <2> QED
      BY <1>4, <2>1, <2>3, RecordKeepsLog
      DEF IncomingOpensTurn, RecordFromContact, modeVars, outputVars, laneVars, bounds
  <1>5. ASSUME NEW m \in live, Edit(m) \/ Delete(m) PROVE TypeOK'
    <2>1. PICK k \in Kind : Record(k)
      BY <1>5 DEF Edit, Delete, Kind
    <2>2. CancelWork /\ live' \subseteq Event
      BY <1>5, <2>1, RecordKeepsLog DEF Edit, Delete
    <2> QED
      BY <1>5, <2>1, <2>2, RecordKeepsLog, CancelKeepsRows
      DEF Edit, Delete, modeVars, laneVars, bounds
  <1>6. ASSUME HumanWrites PROVE TypeOK'
    <2>1. "human" \in Kind /\ Record("human") /\ CancelWork
      BY <1>6 DEF HumanWrites, Kind
    <2>2. covered' \in Nat
      BY <1>6, LatestIsLast DEF HumanWrites, HumanCoverage, Recorded
    <2>3. takeover' \in {"none", "active", "lapsed"} /\ version' \in Nat
      BY <1>6 DEF HumanWrites
    <2> QED
      BY <1>6, <2>1, <2>2, <2>3, RecordKeepsLog, CancelKeepsRows
      DEF HumanWrites, laneVars, bounds
  <1>7. ASSUME HumanUnattributed PROVE TypeOK'
    <2>1. "pending" \in Kind /\ Record("pending")
      BY <1>7 DEF HumanUnattributed, Kind
    <2> QED
      BY <1>7, <2>1, RecordKeepsLog DEF HumanUnattributed, modeVars, outputVars, laneVars, bounds
  <1>8. ASSUME NEW t \in Turn, EchoCompletes(t) PROVE TypeOK'
    <2>1. "own" \in Kind /\ Record("own")
      BY <1>8 DEF EchoCompletes, Kind
    <2>2. covered' \in Nat
      <3>1. turn[t].members \subseteq Nat
        <4>1. \A r \in TurnRow : r.members \subseteq Event
          BY DEF TurnRow
        <4>2. turn[t] \in TurnRow /\ Event \subseteq Nat
          BY DEF Event
        <4> QED
          BY <4>1, <4>2
      <3> QED
        BY <1>8, <3>1, LatestIsLast DEF EchoCompletes, CoverageAfter
    <2>3. turn' \in [Turn -> TurnRow]
      <3> DEFINE done == [turn EXCEPT ![t].state = "completed", ![t].lease = NoOwner]
                 new == Collecting("replacement", Pending(live, Later(covered', floor)),
                                   events + 1)
      <3>1. done \in [Turn -> TurnRow]
        <4>1. [turn[t] EXCEPT !.state = "completed", !.lease = NoOwner] \in TurnRow
          BY EndedIsRow DEF TurnState
        <4>2. done = [turn EXCEPT ![t] = [turn[t] EXCEPT !.state = "completed",
                                                         !.lease = NoOwner]]
          OBVIOUS
        <4> QED
          BY <4>1, <4>2
      <3>2. new \in TurnRow
        BY CollectingIsRow DEF Pending, Trigger
      <3>3. turn' \in WithTurn(done, new) \/ turn' = done
        BY <1>8 DEF EchoCompletes
      <3> HIDE DEF done, new
      <3> QED
        BY <3>1, <3>2, <3>3, OpenedTurn
    <2> QED
      BY <1>8, <2>1, <2>2, <2>3, RecordKeepsLog DEF EchoCompletes, modeVars, laneVars, bounds
  <1>9. ASSUME NEW t \in Turn, EchoUnattributed(t) PROVE TypeOK'
    <2>1. "pending" \in Kind /\ Record("pending")
      BY <1>9 DEF EchoUnattributed, Kind
    <2> QED
      BY <1>9, <2>1, RecordKeepsLog DEF EchoUnattributed, modeVars, laneVars, bounds
  <1>10. ASSUME NEW t \in Turn, MapMessageId(t) PROVE TypeOK'
    BY <1>10 DEF MapMessageId, logVars, modeVars, laneVars, bounds, OutputState
  <1> QED
    BY <1>1, <1>2, <1>3, <1>4, <1>5, <1>6, <1>7, <1>8, <1>9, <1>10 DEF ListenerStep

\* Each command keeps the types.
LEMMA ControlKeepsTypes ==
    ASSUME TypeOK, ControlStep
    PROVE  TypeOK'
  <1> USE DEF TypeOK, Command
  <1>1. ASSUME NEW gate \in {"account", "contact"}, Pause(gate) PROVE TypeOK'
    BY <1>1, CancelKeepsRows DEF Pause, logVars, laneVars
  <1>2. ASSUME NEW gate \in {"account", "contact"}, Resume(gate) PROVE TypeOK'
    BY <1>2, CancelKeepsRows DEF Resume, ResumeFloor, logVars, laneVars
  <1>3. ASSUME Cancel PROVE TypeOK'
    BY <1>3, CancelKeepsRows DEF Cancel, ResumeFloor, logVars, laneVars
  <1>4. ASSUME EndTakeover PROVE TypeOK'
    BY <1>4, CancelKeepsRows DEF EndTakeover, ResumeFloor, logVars, laneVars
  <1>5. ASSUME ReplyPending PROVE TypeOK'
    <2>1. Collecting("manual_pending_reply", Pending(live, covered), events) \in TurnRow
      BY CollectingIsRow DEF Pending, Trigger
    <2>2. turn' \in [Turn -> TurnRow]
      BY <1>5, <2>1, OpenedTurn DEF ReplyPending
    <2> QED
      BY <1>5, <2>2 DEF ReplyPending, logVars, modeVars, outputVars, laneVars
  <1> QED
    BY <1>1, <1>2, <1>3, <1>4, <1>5 DEF ControlStep

\* Time keeps the types.
LEMMA ClockKeepsTypes ==
    ASSUME TypeOK, ClockStep
    PROVE  TypeOK'
  <1> USE DEF TypeOK
  <1>1. ASSUME TakeoverLapses PROVE TypeOK'
    BY <1>1 DEF TakeoverLapses, logVars, outputVars, laneVars, bounds
  <1>2. ASSUME NEW t \in Turn, QuietElapses(t) \/ GraceEnds(t) \/ LeaseLapses(t)
        PROVE  TypeOK'
    <2>1. turn[t] \in TurnRow
      OBVIOUS
    <2>2. PICK r \in TurnRow : turn' = [turn EXCEPT ![t] = r]
      <3>1. CASE QuietElapses(t)
        <4>1. [turn[t] EXCEPT !.due = TRUE] \in TurnRow
          BY <2>1, ColumnIsRow
        <4> QED
          BY <3>1, <4>1 DEF QuietElapses
      <3>2. CASE GraceEnds(t)
        <4>1. [turn[t] EXCEPT !.inGrace = FALSE] \in TurnRow
          BY <2>1, ColumnIsRow
        <4> QED
          BY <3>2, <4>1 DEF GraceEnds
      <3>3. CASE LeaseLapses(t)
        <4>1. [turn[t] EXCEPT !.lease = NoOwner] \in TurnRow
          BY <2>1, ColumnIsRow DEF NoOwner
        <4> QED
          BY <3>3, <4>1 DEF LeaseLapses
      <3> QED
        BY <1>2, <3>1, <3>2, <3>3
    <2>3. UNCHANGED <<logVars, modeVars, covered, outputVars, laneVars, bounds>>
      BY <1>2 DEF QuietElapses, GraceEnds, LeaseLapses
    <2> QED
      BY <2>2, <2>3 DEF logVars, modeVars, outputVars, laneVars, bounds
  <1> QED
    BY <1>1, <1>2 DEF ClockStep

\* What a run leaves in the row of its turn.
LEMMA RunKeepsRows ==
    ASSUME TypeOK, NEW t \in Turn
    PROVE  /\ [turn EXCEPT ![t].state = "generating", ![t].lease = instance,
                           ![t].inGrace = TRUE] \in [Turn -> TurnRow]
           /\ \A S \in SUBSET Event :
                [turn EXCEPT ![t].state = "output_ready", ![t].authorized = S]
                    \in [Turn -> TurnRow]
           /\ [turn EXCEPT ![t].state = "failed", ![t].lease = NoOwner] \in [Turn -> TurnRow]
           /\ [turn EXCEPT ![t].state = "failed"] \in [Turn -> TurnRow]
  <1>1. turn[t] \in TurnRow /\ instance \in Nat /\ turn \in [Turn -> TurnRow]
    BY DEF TypeOK
  <1>2. {"generating", "output_ready", "failed"} \subseteq TurnState
    BY DEF TurnState
  <1>3. [[[turn[t] EXCEPT !.state = "generating"] EXCEPT !.lease = instance]
            EXCEPT !.inGrace = TRUE] \in TurnRow
    BY <1>1, <1>2, ColumnIsRow
  <1>4. ASSUME NEW S \in SUBSET Event
        PROVE  [[turn[t] EXCEPT !.state = "output_ready"] EXCEPT !.authorized = S] \in TurnRow
    BY <1>1, <1>2, ColumnIsRow
  <1>5. [turn[t] EXCEPT !.state = "failed", !.lease = NoOwner] \in TurnRow
    BY <1>1, <1>2, EndedIsRow
  <1>6. [turn[t] EXCEPT !.state = "failed"] \in TurnRow
    BY <1>1, <1>2, ColumnIsRow
  <1> QED
    BY <1>1, <1>3, <1>4, <1>5, <1>6

\* Each step of the work lane keeps the types.
LEMMA LaneKeepsTypes ==
    ASSUME TypeOK, LaneStep
    PROVE  TypeOK'
  <1> USE DEF TypeOK, Idle, Mishap
  <1>1. ASSUME NEW t \in Turn, StartGeneration(t) PROVE TypeOK'
    BY <1>1, RunKeepsRows DEF StartGeneration, logVars, modeVars, outputVars, bounds
  <1>2. ASSUME NEW t \in Turn, StartCollides(t) PROVE TypeOK'
    BY <1>2 DEF StartCollides, logVars, modeVars, outputVars, bounds
  <1>3. ASSUME NEW t \in Turn, RecoverGeneration(t) PROVE TypeOK'
    BY <1>3, RunKeepsRows DEF RecoverGeneration, logVars, modeVars, outputVars, laneVars, bounds
  <1>4. ASSUME NEW t \in Turn, SelectOutput(t) PROVE TypeOK'
    BY <1>4 DEF SelectOutput, logVars, modeVars, outputVars, bounds
  <1>5. ASSUME NEW t \in Turn, RecoverSend(t) PROVE TypeOK'
    BY <1>5 DEF RecoverSend, logVars, modeVars, laneVars, bounds, OutputState
  <1>6. ASSUME RenewRefused PROVE TypeOK'
    BY <1>6 DEF RenewRefused, RenewalDue, logVars, modeVars, outputVars, bounds
  <1>7. ASSUME CompleteRefused PROVE TypeOK'
    BY <1>7, SupersededIsRows DEF CompleteRefused, logVars, modeVars, outputVars, bounds
  <1>8. ASSUME CompleteTooLate PROVE TypeOK'
    BY <1>8 DEF CompleteTooLate, logVars, modeVars, outputVars, bounds
  <1>9. ASSUME CompletePlanned PROVE TypeOK'
    <2>1. job \in Turn
      BY <1>9 DEF CompletePlanned
    <2>2. NewEvents(job) \in SUBSET Event
      BY DEF NewEvents, Recorded, Event
    <2>3. turn' \in [Turn -> TurnRow]
      BY <1>9, <2>1, <2>2, RunKeepsRows DEF CompletePlanned
    <2>4. output' \in [Turn -> OutputState]
      BY <1>9 DEF CompletePlanned, OutputState
    <2>5. \/ pc' = "dispatch" /\ job' = job
          \/ pc' = "idle" /\ job' = NoTurn
      BY <1>9 DEF CompletePlanned
    <2> QED
      BY <1>9, <2>1, <2>3, <2>4, <2>5 DEF CompletePlanned, logVars, modeVars, bounds
  <1>10. ASSUME FailGeneration PROVE TypeOK'
    <2>1. job \in Turn
      BY <1>10 DEF FailGeneration
    <2>2. turn' \in [Turn -> TurnRow]
      BY <1>10, <2>1, RunKeepsRows DEF FailGeneration
    <2> QED
      BY <1>10, <2>2 DEF FailGeneration, logVars, modeVars, outputVars
  <1>11. ASSUME AdmissionRefused PROVE TypeOK'
    BY <1>11 DEF AdmissionRefused, logVars, modeVars, outputVars
  <1>12. ASSUME ClaimOutput PROVE TypeOK'
    <2>1. output' \in [Turn -> OutputState]
      BY <1>12 DEF ClaimOutput, OutputState
    <2> QED
      BY <1>12, <2>1 DEF ClaimOutput, logVars, modeVars, bounds
  <1>13. ASSUME CutOutput PROVE TypeOK'
    <2>1. output' \in [Turn -> OutputState]
      BY <1>13 DEF CutOutput, OutputState
    <2> QED
      BY <1>13, <2>1 DEF CutOutput, logVars, modeVars, bounds
  <1>14. ASSUME SettleSent PROVE TypeOK'
    <2>1. output' \in [Turn -> OutputState]
      BY <1>14 DEF SettleSent, OutputState
    <2> QED
      BY <1>14, <2>1 DEF SettleSent, logVars, modeVars, bounds
  <1>15. ASSUME SettleOtherwise PROVE TypeOK'
    <2>1. output' \in [Turn -> OutputState]
      BY <1>15 DEF SettleOtherwise, OutputState
    <2> QED
      BY <1>15, <2>1 DEF SettleOtherwise, logVars, modeVars
  <1> QED
    BY <1>1, <1>2, <1>3, <1>4, <1>5, <1>6, <1>7, <1>8, <1>9, <1>10, <1>11, <1>12, <1>13, <1>14,
       <1>15 DEF LaneStep

\* No step leaves a value of the wrong type.
LEMMA StepKeepsTypes ==
    ASSUME TypeOK, [Next]_vars
    PROVE  TypeOK'
  <1>1. CASE ListenerStep
    BY <1>1, ListenerKeepsTypes
  <1>2. CASE ControlStep
    BY <1>2, ControlKeepsTypes
  <1>3. CASE ClockStep
    BY <1>3, ClockKeepsTypes
  <1>4. CASE LaneStep
    BY <1>4, LaneKeepsTypes
  <1>5. CASE Restart
    BY <1>5 DEF Restart, Idle, TypeOK, logVars, modeVars, outputVars, bounds
  <1>6. ASSUME NEW t \in Turn, TelegramAccepts(t) PROVE TypeOK'
    BY <1>6 DEF TelegramAccepts, TypeOK, logVars, modeVars, laneVars, bounds
  <1>7. CASE UNCHANGED vars
    BY <1>7 DEF TypeOK, vars, logVars, modeVars, outputVars, laneVars, bounds
  <1> QED
    BY <1>1, <1>2, <1>3, <1>4, <1>5, <1>6, <1>7 DEF Next

\* An empty conversation is well typed.
LEMMA InitHasTypes == Init => TypeOK
  BY DEF Init, TypeOK, NoTurnYet, TurnRow, TurnState, Trigger, OutputState, Kind, NoOwner

\* Every column, flag and counter keeps its type, whatever handlers, commands, timers and
\* restarts do in whatever order.
THEOREM OrchestratorTypeCorrect == Spec => []TypeOK
  <1>1. TypeOK /\ [Next]_vars => TypeOK'
    BY StepKeepsTypes
  <1> QED
    BY <1>1, InitHasTypes, PTL DEF Spec
=============================================================================
