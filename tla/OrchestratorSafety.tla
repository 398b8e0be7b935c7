------------------------- MODULE OrchestratorSafety -------------------------
(***************************************************************************)
(* What a conversation never does, for any number of events, turns,        *)
(* commands, process instances and mishaps.                                *)
(*                                                                         *)
(* Every step is first classified by what it does to the log and to each   *)
(* row (Moves, below); the invariants are then preserved by these few      *)
(* classes, and not by each of the forty actions anew.                     *)
(***************************************************************************)
EXTENDS OrchestratorProofs

USE OrchestratorConstants

UnderWay(t) == turn[t].state \in {"collecting", "generating", "output_ready"}

\* The log: what is current is eligible, what the account holder has answered is covered,
\* and what came in under a pause lies below the floor once the pause is over.
LogInv ==
    /\ floor <= events /\ covered <= events
    /\ live \subseteq Recorded /\ whilePaused \subseteq Recorded
    /\ \A e \in live : kind[e] \in {"incoming", "edit"}
    /\ \A e \in live, h \in Recorded : kind[h] = "human" /\ e < h => e <= covered
    /\ pausedBy = {} => \A e \in whilePaused : e <= floor

\* The rows: a turn under way has current sources and the versions of the conversation.
RowInv ==
    \A t \in Turn :
        /\ turn[t].members \subseteq Recorded
        /\ \A m \in turn[t].members : m <= turn[t].revision
        /\ turn[t].revision <= events
        /\ UnderWay(t) => /\ turn[t].members # {} /\ turn[t].members \subseteq live
                          /\ VersionsHold(t)
        /\ output[t] = "planned" => turn[t].state = "output_ready"

\* The lane: no lease is from the future, and what made a run stale stays so.
LaneInv ==
    /\ \A t \in Turn : turn[t].lease <= instance
    /\ pc = "stale" /\ turn[job].state = "generating"
         => /\ ~turn[job].inGrace
            /\ turn[job].lease # instance \/ turn[job].revision # events

IInv ==
    /\ LogInv /\ RowInv /\ LaneInv
    /\ OneTurnUnderWay /\ LeaseHasItsLane
    /\ PauseBacklogUnanswered /\ HumanHasAnswered /\ CompletedIsCovered

-----------------------------------------------------------------------------
(* What a step does to the log.                                            *)

LogStep ==
    /\ covered <= covered' /\ floor <= floor' /\ events' \in {events, events + 1}
    /\ \A e \in Recorded : kind'[e] = kind[e]
    /\ visible \subseteq visible' /\ echoed \subseteq echoed'
    /\ \/ whilePaused' = whilePaused
       \/ pausedBy' # {} /\ events' = events + 1 /\ whilePaused' = whilePaused \union {events'}

\* A commit that records an event moves the log by that event.
LEMMA RecordMovesLog ==
    ASSUME TypeOK, LogInv, NEW k \in Kind, Record(k)
    PROVE  /\ events' = events + 1 /\ events' \in Event
           /\ kind'[events'] = k /\ \A e \in Recorded : kind'[e] = kind[e]
           /\ Recorded' = Recorded \union {events'}
           /\ \/ whilePaused' = whilePaused
              \/ pausedBy # {} /\ whilePaused' = whilePaused \union {events'}
           /\ whilePaused' \subseteq Recorded'
  <1>1. /\ events \in Nat /\ MaxEvents \in Nat /\ events + 1 \in Event
        /\ events' = events + 1 /\ kind' = [kind EXCEPT ![events + 1] = k]
    <2>1. events \in Nat /\ MaxEvents \in Nat
      BY DEF TypeOK
    <2>2. events < MaxEvents /\ events' = events + 1 /\ kind' = [kind EXCEPT ![events + 1] = k]
      BY DEF Record
    <2> QED
      BY <2>1, <2>2 DEF Event
  <1>2. Recorded' = Recorded \union {events'} /\ Recorded \subseteq Event /\ events' \notin Recorded
    BY <1>1 DEF Recorded, Event
  <1>3. kind'[events'] = k /\ \A e \in Recorded : kind'[e] = kind[e]
    BY <1>1, <1>2 DEF TypeOK
  <1>4. \/ whilePaused' = whilePaused
        \/ pausedBy # {} /\ whilePaused' = whilePaused \union {events'}
    BY <1>1 DEF Record
  <1> QED
    BY <1>1, <1>2, <1>3, <1>4 DEF LogInv

\* Recording an event that is not of the account holder, with the coverage where it was,
\* and the event added to the current ones, or put in the place of one, if it is eligible.
LEMMA EventKeepsLog ==
    ASSUME TypeOK, TypeOK', LogInv, NEW k \in Kind \ {"human"}, Record(k),
           \/ live' \subseteq live
           \/ k \in {"incoming", "edit"} /\ live' \subseteq live \union {events'},
           covered' >= covered, covered' <= events', UNCHANGED <<floor, pausedBy>>,
           visible \subseteq visible', echoed \subseteq echoed'
    PROVE  LogInv' /\ LogStep
  <1>1. /\ events' = events + 1 /\ events' \in Event
        /\ kind'[events'] = k /\ \A e \in Recorded : kind'[e] = kind[e]
        /\ Recorded' = Recorded \union {events'} /\ whilePaused' \subseteq Recorded'
        /\ \/ whilePaused' = whilePaused
           \/ pausedBy # {} /\ whilePaused' = whilePaused \union {events'}
    BY RecordMovesLog
  <1>2. floor' <= events' /\ covered' <= events'
    BY <1>1 DEF TypeOK, LogInv
  <1>3. live' \subseteq Recorded'
    BY <1>1 DEF LogInv
  <1>4. \A e \in live' : kind'[e] \in {"incoming", "edit"}
    BY <1>1 DEF LogInv
  <1>5. ASSUME NEW e \in live', NEW h \in Recorded', kind'[h] = "human", e < h
        PROVE  e <= covered'
    <2>1. h \in Recorded /\ kind[h] = "human"
      BY <1>1, <1>5
    <2>2. e # events'
      BY <1>1, <1>5, <2>1 DEF Recorded, TypeOK
    <2>3. e \in live /\ e \in Nat
      BY <1>3, <2>2 DEF Recorded
    <2>4. e <= covered
      BY <1>5, <2>1, <2>3 DEF LogInv
    <2>5. covered \in Nat /\ covered' \in Nat
      BY DEF TypeOK
    <2> QED
      BY <2>3, <2>4, <2>5
  <1>6. pausedBy' = {} => \A e \in whilePaused' : e <= floor'
    BY <1>1 DEF LogInv
  <1>7. LogStep
    <2>1. floor <= floor'
      BY DEF TypeOK
    <2> QED
      BY <1>1, <2>1 DEF LogStep
  <1> QED
    BY <1>1, <1>2, <1>3, <1>4, <1>5, <1>6, <1>7 DEF LogInv

\* A step that records nothing and leaves what is current and covered alone, and unpauses
\* with a new floor only.
LEMMA SilentKeepsLog ==
    ASSUME TypeOK, LogInv, UNCHANGED <<logVars, covered>>,
           visible \subseteq visible', echoed \subseteq echoed',
           \/ floor' = floor /\ (pausedBy' = {} => pausedBy = {})
           \/ floor' = events
    PROVE  LogInv' /\ LogStep
  <1>1. /\ Recorded' = Recorded /\ floor \in Nat /\ events \in Nat /\ covered \in Nat
        /\ UNCHANGED <<events, kind, live, whilePaused>>
    BY DEF Recorded, TypeOK, logVars
  <1>2. \A e \in Recorded : e <= events
    BY <1>1 DEF Recorded
  <1>3. pausedBy' = {} => \A e \in whilePaused : e <= floor'
    BY <1>2 DEF LogInv
  <1> QED
    BY <1>1, <1>3 DEF LogInv, LogStep

\* The account holder's message covers everything that is current.
LEMMA HumanCovers ==
    ASSUME TypeOK, TypeOK', LogInv, HumanWrites
    PROVE  LogInv' /\ LogStep
  <1>1. "human" \in Kind /\ Record("human") /\ live' = live /\ floor' = floor
        /\ pausedBy' = pausedBy /\ covered' \in HumanCoverage
    BY DEF HumanWrites, Kind
  <1>2. /\ events' = events + 1 /\ events' \in Event
        /\ kind'[events'] = "human" /\ \A e \in Recorded : kind'[e] = kind[e]
        /\ Recorded' = Recorded \union {events'}
        /\ \/ whilePaused' = whilePaused
           \/ pausedBy # {} /\ whilePaused' = whilePaused \union {events'}
        /\ whilePaused' \subseteq Recorded'
    BY <1>1, RecordMovesLog
  <1>3. covered' \in {covered} \union Recorded /\ covered <= covered'
        /\ \A e \in live : e <= covered'
    BY <1>1, LatestIsLast DEF HumanCoverage, LogInv, FromContact
  <1>4. floor' <= events' /\ covered' <= events'
    BY <1>1, <1>2, <1>3 DEF TypeOK, LogInv, Recorded
  <1>5. \A e \in live' : kind'[e] \in {"incoming", "edit"}
    BY <1>1, <1>2 DEF LogInv
  <1>6. pausedBy' = {} => \A e \in whilePaused' : e <= floor'
    BY <1>1, <1>2 DEF LogInv
  <1>7. LogStep
    <2>1. floor <= floor'
      BY <1>1 DEF TypeOK
    <2> QED
      BY <1>1, <1>2, <1>3, <2>1 DEF LogStep, HumanWrites
  <1> QED
    BY <1>1, <1>2, <1>3, <1>4, <1>5, <1>6, <1>7 DEF LogInv

\* Every step keeps the log in order.
LEMMA StepKeepsLog ==
    ASSUME TypeOK, TypeOK', LogInv, RowInv, [Next]_vars
    PROVE  LogInv' /\ LogStep
  <1>1. ASSUME NEW k \in FromContact, RecordFromContact(k),
               UNCHANGED <<modeVars, covered, visible, echoed>>
        PROVE  LogInv' /\ LogStep
    <2>1. k \in Kind \ {"human"} /\ Record(k)
      BY <1>1 DEF RecordFromContact, FromContact, Kind
    <2>2. events' = events + 1
      BY <2>1, RecordMovesLog
    <2>3. covered' >= covered /\ covered' <= events'
      BY <1>1, <2>2 DEF LogInv, TypeOK
    <2>4. live' = live \/ (k = "incoming" /\ live' = live \union {events'})
      BY <1>1, <2>2 DEF RecordFromContact
    <2> QED
      BY <1>1, <2>1, <2>3, <2>4, EventKeepsLog DEF modeVars
  <1>2. ASSUME NEW k \in {"edit", "delete", "pending", "own"}, Record(k),
               \/ live' \subseteq live
               \/ k = "edit" /\ live' \subseteq live \union {events'},
               UNCHANGED <<floor, pausedBy, visible>>, echoed \subseteq echoed',
               covered' >= covered, covered' <= events'
        PROVE  LogInv' /\ LogStep
    <2>1. k \in Kind \ {"human"}
      BY DEF Kind
    <2> QED
      BY <1>2, <2>1, EventKeepsLog
  <1>3. covered <= covered /\ covered <= events + 1
    BY DEF TypeOK, LogInv
  <1>4. CASE ListenerStep
    <2>1. ASSUME NEW k \in FromContact, IncomingKept(k) \/ IncomingSupersedes(k)
          PROVE  LogInv' /\ LogStep
      BY <1>1, <2>1 DEF IncomingKept, IncomingSupersedes, outputVars
    <2>2. CASE IncomingJoins \/ IncomingOpensTurn
      BY <1>1, <2>2 DEF IncomingJoins, IncomingOpensTurn, outputVars, FromContact
    <2>3. ASSUME NEW m \in live, Edit(m) \/ Delete(m) PROVE LogInv' /\ LogStep
      <3>1. PICK k \in {"edit", "delete"} :
              /\ Record(k)
              /\ \/ k = "edit" /\ live' = (live \ {m}) \union {events + 1}
                 \/ live' = live \ {m}
        BY <2>3 DEF Edit, Delete
      <3>2. events' = events + 1
        BY <3>1 DEF Record
      <3>3. UNCHANGED <<floor, pausedBy, covered, visible, echoed>>
        BY <2>3 DEF Edit, Delete, modeVars
      <3> QED
        BY <1>2, <1>3, <3>1, <3>2, <3>3
    <2>4. CASE HumanWrites
      BY <2>4, HumanCovers
    <2>5. CASE HumanUnattributed
      <3>1. Record("pending") /\ live' = live /\ events' = events + 1
            /\ UNCHANGED <<floor, pausedBy, covered, visible, echoed>>
        BY <2>5 DEF HumanUnattributed, Record, modeVars, outputVars
      <3> QED
        BY <1>2, <1>3, <3>1
    <2>6. ASSUME NEW t \in Turn, EchoCompletes(t) PROVE LogInv' /\ LogStep
      <3>1. /\ Record("own") /\ live' = live /\ events' = events + 1
            /\ UNCHANGED <<floor, pausedBy, visible>> /\ echoed \subseteq echoed'
            /\ covered' \in CoverageAfter(t)
        BY <2>6 DEF EchoCompletes, Record, modeVars
      <3>2. covered' \in {covered} \union turn[t].members /\ covered <= covered'
        BY <3>1, LatestIsLast DEF CoverageAfter
      <3>3. covered' <= events'
        <4>1. turn[t].members \subseteq Recorded
          BY DEF RowInv
        <4> QED
          BY <1>3, <3>1, <3>2, <4>1 DEF Recorded, TypeOK
      <3> QED
        BY <1>2, <3>1, <3>2, <3>3 DEF TypeOK
    <2>7. ASSUME NEW t \in Turn, EchoUnattributed(t) PROVE LogInv' /\ LogStep
      <3>1. Record("pending") /\ live' = live /\ events' = events + 1
            /\ UNCHANGED <<floor, pausedBy, covered, visible>> /\ echoed \subseteq echoed'
        BY <2>7 DEF EchoUnattributed, Record, modeVars
      <3> QED
        BY <1>2, <1>3, <3>1
    <2>8. ASSUME NEW t \in Turn, MapMessageId(t) PROVE LogInv' /\ LogStep
      BY <2>8, SilentKeepsLog DEF MapMessageId, modeVars
    <2> QED
      BY <1>4, <2>1, <2>2, <2>3, <2>4, <2>5, <2>6, <2>7, <2>8 DEF ListenerStep
  <1>5. CASE ControlStep
    <2>1. ASSUME NEW gate \in {"account", "contact"}, Pause(gate) PROVE LogInv' /\ LogStep
      BY <2>1, SilentKeepsLog DEF Pause
    <2>2. ASSUME NEW gate \in {"account", "contact"}, Resume(gate) PROVE LogInv' /\ LogStep
      BY <2>2, SilentKeepsLog DEF Resume, ResumeFloor
    <2>3. CASE Cancel \/ EndTakeover
      <3>1. /\ UNCHANGED <<logVars, covered, visible, echoed, pausedBy>>
            /\ floor' \in {floor, events}
        BY <2>3 DEF Cancel, EndTakeover, ResumeFloor
      <3> QED
        BY <3>1, SilentKeepsLog
    <2>4. CASE ReplyPending
      BY <2>4, SilentKeepsLog DEF ReplyPending, modeVars, outputVars
    <2> QED
      BY <1>5, <2>1, <2>2, <2>3, <2>4 DEF ControlStep
  <1>6. ASSUME UNCHANGED <<logVars, covered, floor, pausedBy, echoed>>, visible \subseteq visible'
        PROVE  LogInv' /\ LogStep
    BY <1>6, SilentKeepsLog
  <1>7. CASE ClockStep
    BY <1>6, <1>7 DEF ClockStep, TakeoverLapses, QuietElapses, GraceEnds, LeaseLapses,
                      modeVars, outputVars
  <1>8. CASE LaneStep
    BY <1>6, <1>8 DEF LaneStep, StartGeneration, StartCollides, RecoverGeneration, SelectOutput,
                      RecoverSend, RenewRefused, CompleteRefused, CompleteTooLate,
                      CompletePlanned, FailGeneration, AdmissionRefused, ClaimOutput, CutOutput,
                      SettleSent, SettleOtherwise, modeVars, outputVars
  <1>9. ASSUME Restart \/ (\E t \in Turn : TelegramAccepts(t)) \/ UNCHANGED vars
        PROVE  LogInv' /\ LogStep
    BY <1>6, <1>9 DEF Restart, TelegramAccepts, vars, modeVars, outputVars
  <1> QED
    BY <1>4, <1>5, <1>7, <1>8, <1>9 DEF Next

-----------------------------------------------------------------------------
(* What a step does to each row.                                           *)

KeepsSources(t) ==
    /\ turn'[t].members = turn[t].members /\ turn'[t].trigger = turn[t].trigger
    /\ turn'[t].version = turn[t].version /\ turn'[t].revision = turn[t].revision

\* a turn is opened, the only one collecting or generating, for what has no reply
Opens(t) ==
    /\ turn[t].state = "absent" /\ turn'[t].state = "collecting" /\ turn'[t].lease = NoOwner
    /\ turn'[t].members # {} /\ turn'[t].members \subseteq live'
    /\ \A m \in turn'[t].members :
        m > covered' /\ (turn'[t].trigger # "manual_pending_reply" => m > floor')
    /\ turn'[t].revision = events'
    /\ turn'[t].version = version' /\ pausedBy' = {} /\ takeover' # "active"
    /\ \A u \in Turn \ {t} : turn'[u].state \notin {"collecting", "generating"}

\* a message joins it
Joins(t) ==
    /\ turn[t].state = "collecting" /\ turn'[t].state = "collecting"
    /\ turn'[t].lease = turn[t].lease
    /\ events' = events + 1 /\ events' \in live' /\ pausedBy' = {}
    /\ turn'[t].members = turn[t].members \union {events'} /\ turn'[t].revision = events'
    /\ turn'[t].trigger = turn[t].trigger /\ turn'[t].version = turn[t].version

\* nothing happens to it, except that time passes
Stays(t) ==
    /\ KeepsSources(t) /\ turn'[t].state = turn[t].state
    /\ turn'[t].lease \in {turn[t].lease, NoOwner}
    /\ turn'[t].inGrace => turn[t].inGrace

\* it is over without a reply
Ends(t) ==
    /\ UnderWay(t) /\ KeepsSources(t) /\ turn'[t].state \in {"cancelled", "superseded", "failed"}
    /\ turn[t].state = "generating" \/ output'[t] # "planned"
    /\ turn'[t].lease = NoOwner

\* it is over with its reply
Completes(t) ==
    /\ KeepsSources(t) /\ turn'[t].state = "completed" /\ turn'[t].lease = NoOwner
    /\ output'[t] = "sent"
    /\ t \in visible' \cap echoed' /\ \A m \in turn[t].members : m <= covered'

\* its run starts
Starts(t) ==
    /\ KeepsSources(t) /\ turn[t].state = "collecting" /\ turn'[t].state = "generating"
    /\ turn'[t].lease = instance /\ instance' = instance
    /\ Processing = {} /\ pc = "idle" /\ pc' = "model" /\ job' = t

\* its run ends in an output
Plans(t) ==
    /\ KeepsSources(t) /\ turn[t].state = "generating" /\ turn'[t].state = "output_ready"
    /\ turn'[t].lease = turn[t].lease /\ output'[t] = "planned"
    /\ pc \in {"model", "stale"} /\ job = t /\ OutputGate(t)

RowMoves(t) ==
    Opens(t) \/ Joins(t) \/ Stays(t) \/ Ends(t) \/ Completes(t) \/ Starts(t) \/ Plans(t)

\* what takes no permission away
Undisturbed ==
    /\ live \subseteq live' /\ version' = version
    /\ pausedBy' = pausedBy /\ (takeover' = "active" => takeover = "active")
    /\ \A e \in Recorded' : kind'[e] = "human" => e \in Recorded

\* what ends all work at once
Revokes == \A t \in Turn : ~UnderWay(t)' /\ output'[t] # "planned"

Moves ==
    /\ \A t \in Turn : RowMoves(t)
    /\ \A t \in Turn : output'[t] = "planned" => output[t] = "planned" \/ Plans(t)
    /\ Undisturbed \/ Revokes

\* Leaving the rows alone, and planning nothing, is a move of every row.
LEMMA IdleRows ==
    ASSUME turn' = turn, \A t \in Turn : output'[t] = "planned" => output[t] = "planned",
           Undisturbed
    PROVE  Moves
  BY DEF Moves, RowMoves, Stays, KeepsSources

\* The other columns stay when some are set.
LEMMA ColumnsKept ==
    ASSUME NEW r \in TurnRow
    PROVE  /\ \A state, lease, inGrace :
                LET q == [r EXCEPT !.state = state, !.lease = lease, !.inGrace = inGrace] IN
                /\ q.state = state /\ q.lease = lease
                /\ q.members = r.members /\ q.trigger = r.trigger
                /\ q.version = r.version /\ q.revision = r.revision
           /\ \A state, lease :
                LET q == [r EXCEPT !.state = state, !.lease = lease] IN
                /\ q.state = state /\ q.lease = lease
                /\ q.members = r.members /\ q.trigger = r.trigger
                /\ q.version = r.version /\ q.revision = r.revision
           /\ \A state, authorized :
                LET q == [r EXCEPT !.state = state, !.authorized = authorized] IN
                /\ q.state = state /\ q.lease = r.lease
                /\ q.members = r.members /\ q.trigger = r.trigger
                /\ q.version = r.version /\ q.revision = r.revision
           /\ \A ms, revision, due :
                LET q == [r EXCEPT !.members = ms, !.revision = revision, !.due = due] IN
                /\ q.state = r.state /\ q.lease = r.lease /\ q.members = ms
                /\ q.revision = revision /\ q.trigger = r.trigger /\ q.version = r.version
  BY DEF TurnRow

\* What cancels work ends every turn and every output still planned (_invalidate_pre_send).
LEMMA CancelRevokes ==
    ASSUME TypeOK, CancelWork
    PROVE  Moves
  <1>1. \A t \in Turn : output'[t] # "planned"
    BY DEF CancelWork
  <1>2. ASSUME NEW t \in Turn
        PROVE  RowMoves(t) /\ ~UnderWay(t)'
    <2>1. turn[t] \in TurnRow
      BY DEF TypeOK
    <2>2. CASE turn[t].state \in {"collecting", "generating", "output_ready"}
      <3>1. turn'[t] = [turn[t] EXCEPT !.state = "cancelled", !.lease = NoOwner]
        BY <2>2 DEF CancelWork
      <3>2. Ends(t)
        BY <1>1, <2>1, <2>2, <3>1 DEF Ends, UnderWay, KeepsSources, TurnRow
      <3> QED
        BY <3>2 DEF RowMoves, Ends, UnderWay
    <2>3. CASE turn[t].state \notin {"collecting", "generating", "output_ready"}
      <3>1. turn'[t] = turn[t]
        BY <2>3 DEF CancelWork
      <3> QED
        BY <2>3, <3>1 DEF RowMoves, Stays, KeepsSources, UnderWay
    <2> QED
      BY <2>2, <2>3
  <1> QED
    BY <1>1, <1>2 DEF Moves, Revokes

\* An event that is not of the account holder disturbs nothing if no current one goes.
LEMMA EventUndisturbing ==
    ASSUME TypeOK, LogInv, NEW k \in Kind \ {"human"}, Record(k), live \subseteq live',
           UNCHANGED modeVars
    PROVE  Undisturbed
  <1>1. kind'[events'] = k /\ Recorded' = Recorded \union {events'}
    BY RecordMovesLog
  <1> QED
    BY <1>1 DEF Undisturbed, modeVars

\* A step that records nothing and starts no takeover disturbs nothing.
LEMMA SilentUndisturbing ==
    ASSUME UNCHANGED <<logVars, version, pausedBy>>, takeover' = "active" => takeover = "active"
    PROVE  Undisturbed
  BY DEF Undisturbed, logVars, Recorded

\* The columns of a turn created now.
LEMMA CollectingColumns ==
    ASSUME NEW trigger, NEW ms, NEW revision
    PROVE  LET new == Collecting(trigger, ms, revision) IN
           /\ new.state = "collecting" /\ new.lease = NoOwner /\ new.members = ms
           /\ new.trigger = trigger /\ new.version = version /\ new.revision = revision
  BY DEF Collecting, NoTurnYet

\* A turn opened while none is active becomes the only active one.
LEMMA OpenedAlone ==
    ASSUME NEW turns \in [Turn -> TurnRow], Active(turns) = {},
           NEW new \in TurnRow, turn' \in WithTurn(turns, new)
    PROVE  \E n \in Turn :
              /\ turns[n].state = "absent" /\ turn'[n] = new
              /\ \A t \in Turn \ {n} : /\ turn'[t] = turns[t]
                                       /\ turn'[t].state \notin {"collecting", "generating"}
  <1>1. PICK n \in Turn : turns[n].state = "absent" /\ turn' = [turns EXCEPT ![n] = new]
    BY OpenedTurn
  <1>2. \A t \in Turn : turns[t].state \notin {"collecting", "generating"}
    BY DEF Active, InState
  <1> QED
    BY <1>1, <1>2

\* ... and is opened properly if its messages are current and have no reply.
LEMMA OpensRow ==
    ASSUME NEW n \in Turn, NEW trigger, NEW ms, turn[n].state = "absent",
           turn'[n] = Collecting(trigger, ms, events'),
           ms # {}, ms \subseteq live',
           \A m \in ms : m > covered' /\ (trigger # "manual_pending_reply" => m > floor'),
           UNCHANGED <<version, pausedBy, takeover>>, PermitsAuto,
           \A u \in Turn \ {n} : turn'[u].state \notin {"collecting", "generating"}
    PROVE  Opens(n)
  <1>1. LET new == Collecting(trigger, ms, events') IN
           /\ new.state = "collecting" /\ new.lease = NoOwner /\ new.members = ms
           /\ new.trigger = trigger /\ new.version = version /\ new.revision = events'
    BY CollectingColumns
  <1> QED
    BY <1>1 DEF Opens, PermitsAuto

\* What lies above both watermarks lies above each.
LEMMA PendingIsAbove ==
    ASSUME NEW a \in Nat, NEW b \in Nat, NEW S \in SUBSET Event
    PROVE  /\ Pending(S, Later(a, b)) \subseteq S
           /\ \A e \in Pending(S, Later(a, b)) : e > a /\ e > b
  BY DEF Pending, Later, Event

\* A run superseded by a message gives way to one new turn.
LEMMA SupersedingMoves ==
    ASSUME TypeOK, TypeOK', LogInv, NEW k \in FromContact, IncomingSupersedes(k)
    PROVE  Moves
  <1> DEFINE ms == Pending(live', Later(covered, floor))
             new == Collecting("replacement", ms, events + 1)
  <1>1. k \in Kind \ {"human"} /\ Record(k) /\ live \subseteq live' /\ UNCHANGED modeVars
        /\ UNCHANGED <<covered, output>> /\ events' = events + 1
    BY DEF IncomingSupersedes, RecordFromContact, FromContact, Kind, Record, outputVars
  <1>2. Undisturbed
    BY <1>1, EventUndisturbing
  <1>3. PICK t \in Turn : /\ turn[t].state = "generating"
                          /\ PendingTurnAllowed(Superseded(t), live', Later(covered, floor))
                          /\ turn' \in WithTurn(Superseded(t), new)
    BY DEF IncomingSupersedes, InState
  <1>4. PermitsAuto /\ ms # {} /\ Active(Superseded(t)) = {}
    BY <1>3 DEF PendingTurnAllowed
  <1>5. ms \subseteq live' /\ \A m \in ms : m > covered /\ m > floor
    BY PendingIsAbove DEF TypeOK
  <1>6. new \in TurnRow
    <2>1. ms \in SUBSET Event /\ version \in Nat /\ events + 1 \in Nat
      BY <1>5 DEF TypeOK
    <2> HIDE DEF ms
    <2> QED
      BY <2>1, CollectingIsRow DEF Trigger
  <1> HIDE DEF ms
  <1>7. /\ Superseded(t)[t].state = "superseded" /\ Superseded(t)[t].lease = NoOwner
        /\ Superseded(t)[t].members = turn[t].members /\ Superseded(t)[t].trigger = turn[t].trigger
        /\ Superseded(t)[t].version = turn[t].version
        /\ Superseded(t)[t].revision = turn[t].revision
        /\ \A u \in Turn \ {t} : Superseded(t)[u] = turn[u]
    <2>1. turn[t] \in TurnRow
      BY DEF TypeOK
    <2>2. Superseded(t)[t] = [turn[t] EXCEPT !.state = "superseded", !.lease = NoOwner]
      BY DEF Superseded, TypeOK
    <2> QED
      BY <2>1, <2>2 DEF Superseded, TypeOK, TurnRow
  <1>8. PICK n \in Turn : /\ Superseded(t)[n].state = "absent" /\ turn'[n] = new
                          /\ \A u \in Turn \ {n} :
                                /\ turn'[u] = Superseded(t)[u]
                                /\ turn'[u].state \notin {"collecting", "generating"}
    BY <1>3, <1>4, <1>6, SupersededIsRows, OpenedAlone
  <1>9. n # t /\ turn[n].state = "absent"
    BY <1>7, <1>8
  <1>10. Opens(n)
    BY <1>1, <1>4, <1>5, <1>8, <1>9, OpensRow DEF modeVars
  <1>11. Ends(t)
    BY <1>3, <1>7, <1>8, <1>9 DEF Ends, UnderWay, KeepsSources
  <1>12. \A u \in Turn \ {n, t} : Stays(u)
    BY <1>7, <1>8 DEF Stays, KeepsSources
  <1> QED
    BY <1>1, <1>2, <1>10, <1>11, <1>12 DEF Moves, RowMoves

\* The echo of a reply completes its turn, and opens one for what is still unanswered.
LEMMA EchoMoves ==
    ASSUME TypeOK, TypeOK', LogInv, NEW t \in Turn, EchoCompletes(t)
    PROVE  Moves
  <1> DEFINE done == [turn EXCEPT ![t].state = "completed", ![t].lease = NoOwner]
             ms == Pending(live, Later(covered', floor))
             new == Collecting("replacement", ms, events + 1)
  <1>1. /\ Record("own") /\ "own" \in Kind \ {"human"} /\ UNCHANGED modeVars /\ events' = events + 1
        /\ UNCHANGED <<live, output, visible>> /\ output[t] = "sent"
        /\ t \in visible /\ t \in echoed' /\ PermitsAuto /\ covered' \in CoverageAfter(t)
    BY DEF EchoCompletes, Record, Kind
  <1>2. Undisturbed
    BY <1>1, EventUndisturbing
  <1>3. \/ turn' = done
        \/ /\ PendingTurnAllowed(done, live, Later(covered', floor))
           /\ turn' \in WithTurn(done, new)
    BY DEF EchoCompletes
  <1>4. turn[t] \in TurnRow /\ done[t] = [turn[t] EXCEPT !.state = "completed", !.lease = NoOwner]
        /\ \A u \in Turn \ {t} : done[u] = turn[u]
    BY DEF TypeOK
  <1>5. done \in [Turn -> TurnRow]
    <2>1. [turn[t] EXCEPT !.state = "completed", !.lease = NoOwner] \in TurnRow
      BY <1>4, EndedIsRow DEF TurnState
    <2>2. done = [turn EXCEPT ![t] = [turn[t] EXCEPT !.state = "completed", !.lease = NoOwner]]
      BY DEF TypeOK
    <2> QED
      BY <2>1, <2>2 DEF TypeOK
  <1>6. \A m \in turn[t].members : m <= covered'
    BY <1>1, LatestIsLast DEF CoverageAfter
  <1>7. turn'[t] = done[t] => Completes(t)
    <2>0. \A r \in TurnRow :
             LET e == [r EXCEPT !.state = "completed", !.lease = NoOwner]
             IN  /\ e.members = r.members /\ e.trigger = r.trigger
                 /\ e.version = r.version /\ e.revision = r.revision
                 /\ e.state = "completed" /\ e.lease = NoOwner
      BY DEF TurnRow
    <2>1. /\ done[t].members = turn[t].members /\ done[t].trigger = turn[t].trigger
          /\ done[t].version = turn[t].version /\ done[t].revision = turn[t].revision
          /\ done[t].state = "completed" /\ done[t].lease = NoOwner
      <3> HIDE DEF done
      <3> QED
        BY <1>4, <2>0
    <2>2. output'[t] = "sent" /\ t \in visible' \cap echoed'
      BY <1>1
    <2> HIDE DEF done
    <2> QED
      BY <1>6, <2>1, <2>2 DEF Completes, KeepsSources
  <1>8. ms \subseteq live /\ \A m \in ms : m > covered' /\ m > floor
    BY PendingIsAbove DEF TypeOK
  <1>9. new \in TurnRow
    <2>1. ms \in SUBSET Event /\ version \in Nat /\ events + 1 \in Nat
      BY <1>8 DEF TypeOK
    <2> HIDE DEF ms
    <2> QED
      BY <2>1, CollectingIsRow DEF Trigger
  <1> HIDE DEF ms, done
  <1>10. CASE turn' = done
    <2>1. \A u \in Turn \ {t} : Stays(u)
      BY <1>4, <1>10 DEF Stays, KeepsSources
    <2> QED
      BY <1>1, <1>2, <1>7, <1>10, <2>1 DEF Moves, RowMoves
  <1>11. CASE /\ PendingTurnAllowed(done, live, Later(covered', floor))
              /\ turn' \in WithTurn(done, new)
    <2>1. ms # {} /\ Active(done) = {}
      BY <1>11 DEF PendingTurnAllowed, ms
    <2>2. PICK n \in Turn : /\ done[n].state = "absent" /\ turn'[n] = new
                            /\ \A u \in Turn \ {n} :
                                  /\ turn'[u] = done[u]
                                  /\ turn'[u].state \notin {"collecting", "generating"}
      BY <1>5, <1>9, <1>11, <2>1, OpenedAlone
    <2>3. n # t /\ turn[n].state = "absent"
      BY <1>4, <2>2 DEF TurnRow
    <2>4. Opens(n)
      BY <1>1, <1>8, <2>1, <2>2, <2>3, OpensRow DEF modeVars
    <2>5. \A u \in Turn \ {n, t} : Stays(u)
      BY <1>4, <2>2 DEF Stays, KeepsSources
    <2> QED
      BY <1>1, <1>2, <1>7, <2>2, <2>3, <2>4, <2>5 DEF Moves, RowMoves
  <1> QED
    BY <1>3, <1>10, <1>11

\* A new message joins the turn that is collecting, or opens one.
LEMMA CollectingMoves ==
    ASSUME TypeOK, TypeOK', LogInv, IncomingJoins \/ IncomingOpensTurn
    PROVE  Moves
  <1>1. /\ Record("incoming") /\ "incoming" \in Kind \ {"human"} /\ PermitsAuto
        /\ UNCHANGED <<covered, output>> /\ UNCHANGED modeVars
        /\ events' = events + 1 /\ live' = live \union {events + 1}
    BY DEF IncomingJoins, IncomingOpensTurn, RecordFromContact, Record, Kind, outputVars
  <1>2. Undisturbed
    BY <1>1, EventUndisturbing
  <1>3. CASE IncomingJoins
    <2>1. PICK t \in Turn, due \in BOOLEAN :
            /\ turn[t].state = "collecting"
            /\ turn' = [turn EXCEPT ![t].members = @ \union {events + 1},
                                    ![t].revision = events + 1, ![t].due = due]
      BY <1>3 DEF IncomingJoins, InState, TypeOK, TurnRow
    <2>2. turn[t] \in TurnRow
      BY DEF TypeOK
    <2>3. /\ turn'[t] = [turn[t] EXCEPT !.members = @ \union {events + 1},
                                        !.revision = events + 1, !.due = due]
          /\ \A u \in Turn \ {t} : turn'[u] = turn[u]
      BY <2>1 DEF TypeOK
    <2>4. Joins(t)
      <3> DEFINE ms == turn[t].members \union {events + 1}
      <3>1. turn'[t] = [turn[t] EXCEPT !.members = ms, !.revision = events + 1, !.due = due]
        BY <2>3
      <3> HIDE DEF ms
      <3>2. /\ turn'[t].state = turn[t].state /\ turn'[t].lease = turn[t].lease
            /\ turn'[t].members = ms /\ turn'[t].revision = events + 1
            /\ turn'[t].trigger = turn[t].trigger /\ turn'[t].version = turn[t].version
        BY <2>2, <3>1, ColumnsKept
      <3> QED
        BY <1>1, <2>1, <3>2 DEF ms, Joins, PermitsAuto, modeVars
    <2>5. \A u \in Turn \ {t} : Stays(u)
      BY <2>3 DEF Stays, KeepsSources
    <2> QED
      BY <1>1, <1>2, <2>4, <2>5 DEF Moves, RowMoves
  <1>4. CASE IncomingOpensTurn
    <2> DEFINE new == Collecting("incoming", {events + 1}, events + 1)
    <2>1. new \in TurnRow
      <3>1. version \in Nat /\ events + 1 \in Event /\ "incoming" \in Kind
        BY <1>1, RecordKeepsLog DEF TypeOK
      <3>2. {events + 1} \in SUBSET Event /\ events + 1 \in Nat /\ "incoming" \in Trigger
        BY <3>1 DEF Trigger, Event
      <3> QED
        BY <3>1, <3>2, CollectingIsRow
    <2>2. Active(turn) = {} /\ turn' \in WithTurn(turn, new) /\ turn \in [Turn -> TurnRow]
      BY <1>4 DEF IncomingOpensTurn, TypeOK
    <2>3. PICK n \in Turn : /\ turn[n].state = "absent" /\ turn'[n] = new
                            /\ \A u \in Turn \ {n} :
                                  /\ turn'[u] = turn[u]
                                  /\ turn'[u].state \notin {"collecting", "generating"}
      BY <2>1, <2>2, OpenedAlone
    <2>4. \A m \in {events + 1} : m > covered' /\ m > floor'
      <3>1. covered <= events /\ floor <= events /\ covered' = covered /\ floor' = floor
        BY <1>1 DEF LogInv, modeVars
      <3>2. covered \in Nat /\ floor \in Nat /\ events \in Nat
        BY DEF TypeOK
      <3> QED
        BY <3>1, <3>2
    <2>5. Opens(n)
      BY <1>1, <2>3, <2>4, OpensRow DEF modeVars
    <2>6. \A u \in Turn \ {n} : Stays(u)
      BY <2>3 DEF Stays, KeepsSources
    <2> QED
      BY <1>1, <1>2, <2>5, <2>6 DEF Moves, RowMoves
  <1> QED
    BY <1>3, <1>4

\* Each step of the update listener moves the rows as they may move.
LEMMA ListenerMoves ==
    ASSUME TypeOK, TypeOK', LogInv, ListenerStep
    PROVE  Moves
  <1>1. ASSUME NEW k \in Kind \ {"human"}, Record(k), live \subseteq live',
               UNCHANGED <<modeVars, turn, output>>
        PROVE  Moves
    BY <1>1, EventUndisturbing, IdleRows
  <1>2. ASSUME NEW k \in FromContact, IncomingKept(k) PROVE Moves
    <2>1. k \in Kind \ {"human"} /\ Record(k) /\ live \subseteq live'
      BY <1>2 DEF IncomingKept, RecordFromContact, FromContact, Kind
    <2> QED
      BY <1>1, <1>2, <2>1 DEF IncomingKept, outputVars
  <1>3. ASSUME NEW k \in FromContact, IncomingSupersedes(k) PROVE Moves
    BY <1>3, SupersedingMoves
  <1>4. CASE IncomingJoins \/ IncomingOpensTurn
    BY <1>4, CollectingMoves
  <1>5. CASE HumanWrites \/ \E m \in live : Edit(m) \/ Delete(m)
    BY <1>5, CancelRevokes DEF HumanWrites, Edit, Delete
  <1>6. ASSUME \/ HumanUnattributed
               \/ \E t \in Turn : EchoUnattributed(t)
        PROVE  Moves
    <2>1. "pending" \in Kind \ {"human"} /\ Record("pending") /\ live' = live
          /\ UNCHANGED <<modeVars, turn, output>>
      BY <1>6 DEF HumanUnattributed, EchoUnattributed, Kind, outputVars
    <2> QED
      BY <1>1, <2>1
  <1>7. ASSUME NEW t \in Turn, EchoCompletes(t) PROVE Moves
    BY <1>7, EchoMoves
  <1>8. ASSUME NEW t \in Turn, MapMessageId(t) PROVE Moves
    <2>1. Undisturbed
      BY <1>8, SilentUndisturbing DEF MapMessageId, modeVars
    <2>2. \A u \in Turn : output'[u] = "planned" => output[u] = "planned"
      BY <1>8 DEF MapMessageId, TypeOK
    <2> QED
      BY <1>8, <2>1, <2>2, IdleRows DEF MapMessageId
  <1> QED
    BY <1>2, <1>3, <1>4, <1>5, <1>6, <1>7, <1>8 DEF ListenerStep

\* Each command does.
LEMMA ControlMoves ==
    ASSUME TypeOK, TypeOK', LogInv, ControlStep
    PROVE  Moves
  <1>1. ASSUME NEW gate \in {"account", "contact"}, Pause(gate) \/ Resume(gate) PROVE Moves
    BY <1>1, CancelRevokes DEF Pause, Resume
  <1>2. CASE Cancel \/ EndTakeover
    BY <1>2, CancelRevokes DEF Cancel, EndTakeover
  <1>3. CASE ReplyPending
    <2> DEFINE ms == Pending(live, covered)
               new == Collecting("manual_pending_reply", ms, events)
    <2>1. /\ UNCHANGED <<logVars, modeVars, covered, output>> /\ turn' \in WithTurn(turn, new)
          /\ PermitsAuto /\ ms # {} /\ Active(turn) = {}
      BY <1>3 DEF ReplyPending, PendingTurnAllowed, outputVars
    <2>2. Undisturbed
      BY <2>1, SilentUndisturbing DEF modeVars
    <2>3. ms \subseteq live /\ \A m \in ms : m > covered
      BY DEF Pending
    <2>4. new \in TurnRow
      BY <2>3, CollectingIsRow DEF TypeOK, Trigger
    <2> HIDE DEF ms
    <2>5. PICK n \in Turn : /\ turn[n].state = "absent" /\ turn'[n] = new
                            /\ \A u \in Turn \ {n} :
                                  /\ turn'[u] = turn[u]
                                  /\ turn'[u].state \notin {"collecting", "generating"}
      BY <2>1, <2>4, OpenedAlone DEF TypeOK
    <2>6. Opens(n)
      BY <2>1, <2>3, <2>5, OpensRow DEF modeVars, logVars
    <2>7. \A u \in Turn \ {n} : Stays(u)
      BY <2>5 DEF Stays, KeepsSources
    <2> QED
      BY <2>1, <2>2, <2>6, <2>7 DEF Moves, RowMoves
  <1> QED
    BY <1>1, <1>2, <1>3 DEF ControlStep

\* Time does.
LEMMA ClockMoves ==
    ASSUME TypeOK, ClockStep
    PROVE  Moves
  <1>1. Undisturbed
    BY SilentUndisturbing
    DEF ClockStep, TakeoverLapses, QuietElapses, GraceEnds, LeaseLapses, modeVars
  <1>2. output' = output
    BY DEF ClockStep, TakeoverLapses, QuietElapses, GraceEnds, LeaseLapses, outputVars
  <1>3. CASE TakeoverLapses
    BY <1>1, <1>2, <1>3, IdleRows DEF TakeoverLapses
  <1>4. ASSUME NEW t \in Turn, QuietElapses(t) \/ GraceEnds(t) \/ LeaseLapses(t) PROVE Moves
    <2>1. turn[t] \in TurnRow
      BY DEF TypeOK
    <2>2. /\ \A u \in Turn \ {t} : turn'[u] = turn[u]
          /\ \/ turn'[t] = [turn[t] EXCEPT !.due = TRUE]
             \/ turn'[t] = [turn[t] EXCEPT !.inGrace = FALSE]
             \/ turn'[t] = [turn[t] EXCEPT !.lease = NoOwner]
      BY <1>4 DEF QuietElapses, GraceEnds, LeaseLapses, TypeOK
    <2>3. Stays(t)
      BY <2>1, <2>2 DEF Stays, KeepsSources, TurnRow
    <2>4. \A u \in Turn \ {t} : Stays(u)
      BY <2>2 DEF Stays, KeepsSources
    <2> QED
      BY <1>1, <1>2, <2>3, <2>4 DEF Moves, RowMoves
  <1> QED
    BY <1>3, <1>4 DEF ClockStep

\* Each step of the work lane does.
LEMMA LaneMovesRows ==
    ASSUME TypeOK, LaneStep
    PROVE  Moves
  <1>1. Undisturbed
    BY SilentUndisturbing
    DEF LaneStep, StartGeneration, StartCollides, RecoverGeneration, SelectOutput, RecoverSend,
        RenewRefused, CompleteRefused, CompleteTooLate, CompletePlanned, FailGeneration,
        AdmissionRefused, ClaimOutput, CutOutput, SettleSent, SettleOtherwise, modeVars
  <1>2. ASSUME turn' = turn, \A t \in Turn : output'[t] = "planned" => output[t] = "planned"
        PROVE  Moves
    BY <1>1, <1>2, IdleRows
  <1>3. ASSUME NEW t \in Turn, output' = output, \A u \in Turn \ {t} : turn'[u] = turn[u],
               RowMoves(t)
        PROVE  Moves
    <2>1. \A u \in Turn \ {t} : Stays(u)
      BY <1>3 DEF Stays, KeepsSources
    <2> QED
      BY <1>1, <1>3, <2>1 DEF Moves, RowMoves
  <1>4. ASSUME NEW t \in Turn, StartGeneration(t) PROVE Moves
    <2>1. /\ turn[t] \in TurnRow /\ \A u \in Turn \ {t} : turn'[u] = turn[u]
          /\ turn'[t] = [turn[t] EXCEPT !.state = "generating", !.lease = instance,
                                        !.inGrace = TRUE]
      BY <1>4 DEF StartGeneration, TypeOK
    <2>2. Starts(t)
      <3>1. /\ turn'[t].state = "generating" /\ turn'[t].lease = instance
            /\ KeepsSources(t)
        BY <2>1, ColumnsKept DEF KeepsSources
      <3> QED
        BY <1>4, <3>1 DEF StartGeneration, DueTurn, Starts
    <2> QED
      BY <1>3, <1>4, <2>1, <2>2 DEF StartGeneration, RowMoves, outputVars
  <1>5. ASSUME NEW t \in Turn, RecoverGeneration(t) PROVE Moves
    <2>1. /\ turn[t] \in TurnRow /\ \A u \in Turn \ {t} : turn'[u] = turn[u]
          /\ turn'[t] = [turn[t] EXCEPT !.state = "failed"]
      BY <1>5 DEF RecoverGeneration, TypeOK
    <2>2. Ends(t)
      BY <1>5, <2>1 DEF RecoverGeneration, Expired, Ends, UnderWay, KeepsSources, TurnRow
    <2> QED
      BY <1>3, <1>5, <2>1, <2>2 DEF RecoverGeneration, RowMoves, outputVars
  <1>6. ASSUME CompleteRefused PROVE Moves
    <2>1. job \in Turn
      BY <1>6 DEF CompleteRefused, TypeOK
    <2>2. /\ turn[job] \in TurnRow /\ \A u \in Turn \ {job} : turn'[u] = turn[u]
          /\ turn'[job] = [turn[job] EXCEPT !.state = "superseded", !.lease = NoOwner]
      BY <1>6, <2>1 DEF CompleteRefused, Superseded, TypeOK
    <2>3. Ends(job)
      BY <1>6, <2>2 DEF CompleteRefused, Ends, UnderWay, KeepsSources, TurnRow
    <2> QED
      BY <1>3, <1>6, <2>1, <2>2, <2>3 DEF CompleteRefused, RowMoves, outputVars
  <1>7. ASSUME FailGeneration PROVE Moves
    <2>1. job \in Turn /\ output' = output
      BY <1>7 DEF FailGeneration, TypeOK, outputVars
    <2>2. CASE turn' = turn
      BY <1>2, <2>1, <2>2
    <2>3. CASE /\ turn[job].state = "generating"
               /\ turn' = [turn EXCEPT ![job].state = "failed", ![job].lease = NoOwner]
      <3>1. /\ turn[job] \in TurnRow /\ \A u \in Turn \ {job} : turn'[u] = turn[u]
            /\ turn'[job] = [turn[job] EXCEPT !.state = "failed", !.lease = NoOwner]
        BY <2>1, <2>3 DEF TypeOK
      <3>2. Ends(job)
        <4>1. /\ turn'[job].state = "failed" /\ turn'[job].lease = NoOwner
              /\ KeepsSources(job)
          BY <3>1, ColumnsKept DEF KeepsSources
        <4> QED
          BY <2>3, <4>1 DEF Ends, UnderWay
      <3> QED
        BY <1>3, <2>1, <3>1, <3>2 DEF RowMoves
    <2> QED
      BY <1>7, <2>2, <2>3 DEF FailGeneration
  <1>8. ASSUME CompletePlanned PROVE Moves
    <2>1. job \in Turn
      BY <1>8 DEF CompletePlanned, TypeOK
    <2> DEFINE S == IF RaceDecision(job) = "authorize_grace" THEN NewEvents(job) ELSE {}
    <2>2. turn' = [turn EXCEPT ![job].state = "output_ready", ![job].authorized = S]
      BY <1>8 DEF CompletePlanned
    <2> HIDE DEF S
    <2>3. /\ turn[job] \in TurnRow /\ \A u \in Turn \ {job} : turn'[u] = turn[u]
          /\ turn'[job] = [turn[job] EXCEPT !.state = "output_ready", !.authorized = S]
      BY <2>1, <2>2 DEF TypeOK
    <2>4. Plans(job)
      <3>1. /\ turn'[job].state = "output_ready" /\ turn'[job].lease = turn[job].lease
            /\ KeepsSources(job)
        BY <2>3, ColumnsKept DEF KeepsSources
      <3>2. output'[job] = "planned"
        BY <1>8, <2>1 DEF CompletePlanned, TypeOK
      <3> QED
        BY <1>8, <3>1, <3>2 DEF CompletePlanned, Plans
    <2>5. \A u \in Turn \ {job} : Stays(u)
      BY <2>3 DEF Stays, KeepsSources
    <2>6. \A u \in Turn : output'[u] = "planned" => output[u] = "planned" \/ Plans(u)
      BY <1>8, <2>4 DEF CompletePlanned, TypeOK
    <2> QED
      BY <1>1, <2>4, <2>5, <2>6 DEF Moves, RowMoves
  <1>9. ASSUME \/ RenewRefused \/ CompleteTooLate \/ AdmissionRefused
               \/ \E t \in Turn : StartCollides(t) \/ SelectOutput(t)
        PROVE  Moves
    BY <1>2, <1>9 DEF RenewRefused, CompleteTooLate, AdmissionRefused, StartCollides,
                      SelectOutput, outputVars
  <1>10. ASSUME \/ ClaimOutput \/ CutOutput \/ SettleSent
                \/ \E t \in Turn : RecoverSend(t)
         PROVE  Moves
    <2>1. \A t \in Turn : output'[t] = "planned" => output[t] = "planned"
      BY <1>10 DEF ClaimOutput, CutOutput, SettleSent, RecoverSend, TypeOK
    <2>2. turn' = turn
      BY <1>10 DEF ClaimOutput, CutOutput, SettleSent, RecoverSend
    <2> QED
      BY <1>2, <2>1, <2>2
  <1>11. ASSUME SettleOtherwise PROVE Moves
    <2>1. turn' = turn /\ \/ output' = output
                          \/ \E outcome \in {"unknown", "retry_wait", "failed"} :
                                output' = [output EXCEPT ![job] = outcome]
      BY <1>11 DEF SettleOtherwise
    <2>2. \A t \in Turn : output'[t] = "planned" => output[t] = "planned"
      BY <2>1 DEF TypeOK
    <2> QED
      BY <1>2, <2>1, <2>2
  <1> QED
    BY <1>4, <1>5, <1>6, <1>7, <1>8, <1>9, <1>10, <1>11 DEF LaneStep

\* Every step moves the rows as they may move.
LEMMA StepMoves ==
    ASSUME TypeOK, TypeOK', LogInv, [Next]_vars
    PROVE  Moves
  <1>1. ASSUME Restart \/ (\E t \in Turn : TelegramAccepts(t)) \/ UNCHANGED vars
        PROVE  Moves
    <2>1. UNCHANGED <<logVars, modeVars, turn, output>>
      BY <1>1 DEF Restart, TelegramAccepts, vars, outputVars
    <2> QED
      BY <2>1, SilentUndisturbing, IdleRows DEF modeVars
  <1> QED
    BY <1>1, ListenerMoves, ControlMoves, ClockMoves, LaneMovesRows DEF Next

-----------------------------------------------------------------------------
(* The invariants, step by step.                                           *)

\* What a turn under way was, where it did not open, if the step lets work go on.
LEMMA WorkContinues ==
    ASSUME Moves, NEW t \in Turn, UnderWay(t)'
    PROVE  Undisturbed /\ (Opens(t) \/ (UnderWay(t) /\ (Joins(t) \/ KeepsSources(t))))
  <1>1. Undisturbed
    BY DEF Moves, Revokes
  <1>2. RowMoves(t)
    BY DEF Moves
  <1> QED
    BY <1>1, <1>2 DEF RowMoves, UnderWay, Joins, Stays, Ends, Completes, Starts, Plans

\* Sources stay in the log and, of a turn under way, current.
LEMMA RowsPreserved ==
    ASSUME TypeOK, TypeOK', LogInv', LogStep, RowInv, Moves
    PROVE  RowInv'
  <1> SUFFICES ASSUME NEW t \in Turn
               PROVE  /\ turn'[t].members \subseteq Recorded'
                      /\ \A m \in turn'[t].members : m <= turn'[t].revision
                      /\ turn'[t].revision <= events'
                      /\ UnderWay(t)' => /\ turn'[t].members # {} /\ turn'[t].members \subseteq live'
                                         /\ VersionsHold(t)'
                      /\ output'[t] = "planned" => turn'[t].state = "output_ready"
    BY DEF RowInv
  <1>1. events \in Nat /\ events' \in Nat /\ Recorded \subseteq Recorded' /\ events <= events'
    BY DEF TypeOK, LogStep, Recorded
  <1>2. RowMoves(t)
    BY DEF Moves
  <1>3. /\ turn[t].members \subseteq Recorded /\ turn[t].revision <= events
        /\ \A m \in turn[t].members : m <= turn[t].revision
        /\ turn[t].revision \in Nat
    BY DEF RowInv, TypeOK, TurnRow
  <1>4. \A m \in Recorded' : m <= events'
    BY <1>1 DEF Recorded
  <1>5. /\ turn'[t].members \subseteq Recorded'
        /\ \A m \in turn'[t].members : m <= turn'[t].revision
        /\ turn'[t].revision <= events'
    <2>1. CASE Opens(t)
      BY <1>1, <1>4, <2>1 DEF Opens, LogInv
    <2>2. CASE Joins(t)
      <3>1. events' \in Recorded'
        BY <1>1, <2>2 DEF Joins, Recorded
      <3> QED
        BY <1>1, <1>3, <1>4, <2>2, <3>1 DEF Joins
    <2>3. CASE KeepsSources(t)
      BY <1>1, <1>3, <2>3 DEF KeepsSources
    <2> QED
      BY <1>2, <2>1, <2>2, <2>3 DEF RowMoves, Stays, Ends, Completes, Starts, Plans
  <1>6. UnderWay(t)' => /\ turn'[t].members # {} /\ turn'[t].members \subseteq live'
                        /\ VersionsHold(t)'
    <2> SUFFICES ASSUME UnderWay(t)'
                 PROVE  /\ turn'[t].members # {} /\ turn'[t].members \subseteq live'
                        /\ VersionsHold(t)'
      OBVIOUS
    <2>1. Undisturbed /\ (Opens(t) \/ (UnderWay(t) /\ (Joins(t) \/ KeepsSources(t))))
      BY WorkContinues
    <2>2. CASE Opens(t)
      BY <2>2 DEF Opens, VersionsHold, PermitsAuto
    <2>3. CASE UnderWay(t) /\ (Joins(t) \/ KeepsSources(t))
      <3>1. /\ turn[t].members # {} /\ turn[t].members \subseteq live
            /\ turn[t].version = version /\ pausedBy = {} /\ takeover # "active"
        BY <2>3 DEF RowInv, VersionsHold, PermitsAuto
      <3> QED
        BY <2>1, <2>3, <3>1
        DEF Undisturbed, Joins, KeepsSources, VersionsHold, PermitsAuto
    <2> QED
      BY <2>1, <2>2, <2>3
  <1>7. output'[t] = "planned" => turn'[t].state = "output_ready"
    <2>1. output'[t] = "planned" => output[t] = "planned" \/ Plans(t)
      BY DEF Moves
    <2>2. output[t] = "planned" => turn[t].state = "output_ready"
      BY DEF RowInv
    <2> QED
      BY <1>2, <2>1, <2>2 DEF RowMoves, Opens, Joins, Stays, Ends, Completes, Starts, Plans
  <1> QED
    BY <1>5, <1>6, <1>7

\* What opens under no pause takes nothing from below the floor.
LEMMA PauseBacklogPreserved ==
    ASSUME TypeOK, TypeOK', LogInv, LogInv', LogStep, RowInv, PauseBacklogUnanswered, Moves
    PROVE  PauseBacklogUnanswered'
  <1> SUFFICES ASSUME NEW t \in Turn, turn'[t].trigger # "manual_pending_reply"
               PROVE  turn'[t].members \cap whilePaused' = {}
    BY DEF PauseBacklogUnanswered
  <1>1. RowMoves(t)
    BY DEF Moves
  <1>2. events + 1 \notin Recorded /\ turn[t].members \subseteq Recorded
        /\ whilePaused \subseteq Recorded /\ events \in Nat
    BY DEF Recorded, TypeOK, RowInv, LogInv
  <1>3. \/ whilePaused' = whilePaused
        \/ pausedBy' # {} /\ whilePaused' = whilePaused \union {events + 1}
    BY DEF LogStep
  <1>4. CASE Opens(t)
    <2>0. pausedBy' = {} /\ whilePaused' \subseteq Nat
      <3>1. whilePaused' \subseteq Event
        BY DEF TypeOK
      <3> QED
        BY <1>4, <3>1 DEF Opens, Event
    <2>1. \A e \in whilePaused' : e <= floor' /\ e \in Nat
      BY <2>0 DEF LogInv
    <2>2. \A m \in turn'[t].members : m > floor'
      BY <1>4 DEF Opens
    <2> QED
      BY <2>1, <2>2 DEF TypeOK
  <1>5. CASE Joins(t)
    BY <1>2, <1>3, <1>5 DEF Joins, PauseBacklogUnanswered
  <1>6. CASE KeepsSources(t)
    BY <1>2, <1>3, <1>6 DEF KeepsSources, PauseBacklogUnanswered
  <1> QED
    BY <1>1, <1>4, <1>5, <1>6 DEF RowMoves, Stays, Ends, Completes, Starts, Plans

\* The account holder's message ends all work; what opens later is above the coverage.
LEMMA HumanPreserved ==
    ASSUME TypeOK, TypeOK', LogInv', LogStep, RowInv, HumanHasAnswered, Moves
    PROVE  HumanHasAnswered'
  <1> SUFFICES ASSUME NEW t \in Turn, UnderWay(t)', NEW m \in turn'[t].members,
                      NEW e \in Recorded', kind'[e] = "human"
               PROVE  e < m
    BY DEF HumanHasAnswered, InState, UnderWay
  <1>1. Undisturbed /\ (Opens(t) \/ (UnderWay(t) /\ (Joins(t) \/ KeepsSources(t))))
    BY WorkContinues
  <1>2. e \in Recorded /\ kind[e] = "human" /\ e \in Nat /\ e <= events /\ events \in Nat
    BY <1>1 DEF Undisturbed, LogStep, Recorded, TypeOK
  <1>3. CASE Opens(t)
    <2>1. m \in live' /\ m > covered' /\ m \in Nat
      <3>1. m \in live' /\ m > covered'
        BY <1>3 DEF Opens
      <3>2. live' \subseteq Event
        BY DEF TypeOK
      <3> QED
        BY <3>1, <3>2 DEF Event
    <2>2. kind'[m] \in {"incoming", "edit"} /\ (m < e => m <= covered')
      BY <2>1 DEF LogInv
    <2> QED
      BY <1>2, <2>1, <2>2 DEF TypeOK
  <1>4. CASE UnderWay(t) /\ m \in turn[t].members
    BY <1>2, <1>4 DEF HumanHasAnswered, InState, UnderWay
  <1>5. CASE Joins(t) /\ m = events'
    BY <1>2, <1>5 DEF Joins
  <1> QED
    BY <1>1, <1>3, <1>4, <1>5 DEF Joins, KeepsSources

\* Coverage, sight and echo never go back, so a completed turn stays covered.
LEMMA CompletedPreserved ==
    ASSUME TypeOK, TypeOK', LogStep, CompletedIsCovered, Moves
    PROVE  CompletedIsCovered'
  <1> SUFFICES ASSUME NEW t \in Turn, turn'[t].state = "completed"
               PROVE  t \in visible' \cap echoed' /\ \A m \in turn'[t].members : m <= covered'
    BY DEF CompletedIsCovered, InState
  <1>1. Stays(t) \/ Completes(t)
    BY DEF Moves, RowMoves, Opens, Joins, Ends, Starts, Plans
  <1>2. CASE Completes(t)
    BY <1>2 DEF Completes, KeepsSources
  <1>3. CASE Stays(t)
    <2>1. turn[t].state = "completed" /\ turn'[t].members = turn[t].members
      BY <1>3 DEF Stays, KeepsSources
    <2>2. t \in visible \cap echoed /\ \A m \in turn[t].members : m <= covered
      BY <2>1 DEF CompletedIsCovered, InState
    <2>3. turn[t].members \subseteq Nat
      <3>1. turn[t] \in TurnRow
        BY DEF TypeOK
      <3> QED
        BY <3>1 DEF TurnRow, Event
    <2>4. covered \in Nat /\ covered' \in Nat /\ covered <= covered'
      BY DEF TypeOK, LogStep
    <2>5. visible \subseteq visible' /\ echoed \subseteq echoed'
      BY DEF LogStep
    <2> QED
      BY <2>1, <2>2, <2>3, <2>4, <2>5
  <1> QED
    BY <1>1, <1>2, <1>3

\* A turn opens when none is active, and a run starts when none is processed.
LEMMA OneTurnPreserved ==
    ASSUME OneTurnUnderWay, Moves
    PROVE  OneTurnUnderWay'
  <1>1. \A t \in Turn : RowMoves(t)
    BY DEF Moves
  <1>2. ASSUME NEW t \in Turn, NEW u \in Turn, t # u,
               turn'[t].state \in {"collecting", "generating"},
               turn'[u].state \in {"collecting", "generating"}
        PROVE  FALSE
    <2>1. ~Opens(t) /\ ~Opens(u)
      BY <1>2 DEF Opens
    <2>2. turn[t].state \in {"collecting", "generating"}
      BY <1>1, <1>2, <2>1 DEF RowMoves, Joins, Stays, Ends, Completes, Starts, Plans
    <2>3. turn[u].state \in {"collecting", "generating"}
      BY <1>1, <1>2, <2>1 DEF RowMoves, Joins, Stays, Ends, Completes, Starts, Plans
    <2> QED
      BY <1>2, <2>2, <2>3 DEF OneTurnUnderWay, Active, InState
  <1>3. ASSUME NEW t \in Turn, NEW u \in Turn, t # u,
               turn'[t].state \in {"generating", "output_ready"},
               turn'[u].state \in {"generating", "output_ready"}
        PROVE  FALSE
    <2>1. turn[t].state \in {"generating", "output_ready"} \/ Starts(t)
      BY <1>1, <1>3 DEF RowMoves, Opens, Joins, Stays, Ends, Completes, Plans
    <2>2. turn[u].state \in {"generating", "output_ready"} \/ Starts(u)
      BY <1>1, <1>3 DEF RowMoves, Opens, Joins, Stays, Ends, Completes, Plans
    <2> QED
      BY <1>3, <2>1, <2>2 DEF OneTurnUnderWay, Processing, InState, Starts
  <1>4. \A t, u \in Active(turn)' : t = u
    BY <1>2 DEF Active, InState
  <1>5. \A t, u \in Processing' : t = u
    BY <1>3 DEF Processing, InState
  <1> QED
    BY <1>4, <1>5 DEF OneTurnUnderWay

\* What a step does to the lane: a run in its hands stays there, or is no longer the lane's;
\* it turns stale only when a renewal, past the grace, has found it outdated.
LaneStepFacts ==
    /\ \/ instance' = instance
       \/ instance' = instance + 1 /\ pc' = "idle"
    /\ pc \in {"model", "stale"} =>
        \/ pc' \in {"model", "stale"} /\ job' = job
        \/ instance' = instance + 1
        \/ turn'[job].state # "generating" \/ turn'[job].lease # instance
    /\ pc' = "stale" =>
        /\ job' = job
        /\ \/ pc = "stale"
           \/ /\ pc = "model" /\ UNCHANGED <<turn, events, instance>> /\ ~turn[job].inGrace
              /\ ~(turn[job].state = "generating" /\ turn[job].lease = instance
                   /\ SealGate(job))

\* Every step moves the lane as it may move.
LEMMA StepMovesLane ==
    ASSUME TypeOK, [Next]_vars
    PROVE  LaneStepFacts
  <1>1. ASSUME UNCHANGED laneVars PROVE LaneStepFacts
    BY <1>1 DEF LaneStepFacts, laneVars
  <1>2. CASE ListenerStep
    BY <1>1, <1>2 DEF ListenerStep, IncomingKept, IncomingSupersedes, IncomingJoins,
                      IncomingOpensTurn, Edit, Delete, HumanWrites, HumanUnattributed,
                      EchoCompletes, EchoUnattributed, MapMessageId
  <1>3. CASE ControlStep
    BY <1>1, <1>3 DEF ControlStep, Pause, Resume, Cancel, EndTakeover, ReplyPending
  <1>4. CASE ClockStep
    BY <1>1, <1>4 DEF ClockStep, TakeoverLapses, QuietElapses, GraceEnds, LeaseLapses
  <1>5. CASE (\E t \in Turn : TelegramAccepts(t)) \/ UNCHANGED vars
    BY <1>1, <1>5 DEF TelegramAccepts, vars
  <1>6. CASE Restart
    BY <1>6 DEF Restart, Idle, LaneStepFacts
  <1>7. CASE LaneStep
    <2>1. ASSUME pc' # "stale", pc \notin {"model", "stale"}, instance' = instance
          PROVE  LaneStepFacts
      BY <2>1 DEF LaneStepFacts
    <2>2. ASSUME NEW t \in Turn, StartGeneration(t) \/ SelectOutput(t) PROVE LaneStepFacts
      BY <2>1, <2>2 DEF StartGeneration, SelectOutput
    <2>3. ASSUME NEW t \in Turn, StartCollides(t) PROVE LaneStepFacts
      BY <2>3 DEF StartCollides, LaneStepFacts
    <2>4. ASSUME NEW t \in Turn, RecoverGeneration(t) \/ RecoverSend(t) PROVE LaneStepFacts
      BY <1>1, <2>4 DEF RecoverGeneration, RecoverSend
    <2>5. CASE ClaimOutput \/ CutOutput \/ AdmissionRefused \/ SettleSent \/ SettleOtherwise
      BY <2>1, <2>5 DEF ClaimOutput, CutOutput, AdmissionRefused, SettleSent,
                        SettleOtherwise, Idle
    <2>6. CASE RenewRefused
      <3>1. /\ pc = "model" /\ pc' = "stale" /\ ~turn[job].inGrace
            /\ UNCHANGED <<turn, events, instance, job>>
            /\ ~(turn[job].state = "generating" /\ turn[job].lease = instance /\ SealGate(job))
        BY <2>6 DEF RenewRefused, RenewalDue, logVars
      <3> QED
        BY <3>1 DEF LaneStepFacts
    <2>7. CASE CompleteTooLate
      BY <2>7 DEF CompleteTooLate, Idle, LaneStepFacts
    <2>8. ASSUME job \in Turn, pc' # "stale", instance' = instance,
                 turn'[job].state # "generating"
          PROVE  LaneStepFacts
      BY <2>8 DEF LaneStepFacts
    <2>9. CASE CompleteRefused
      <3>1. job \in Turn
        BY <2>9 DEF CompleteRefused, TypeOK
      <3>2. turn'[job].state = "superseded"
        BY <2>9, <3>1 DEF CompleteRefused, Superseded, TypeOK, TurnRow
      <3> QED
        BY <2>8, <2>9, <3>1, <3>2 DEF CompleteRefused, Idle
    <2>10. CASE CompletePlanned
      <3>1. job \in Turn
        BY <2>10 DEF CompletePlanned, TypeOK
      <3>2. turn'[job].state = "output_ready"
        BY <2>10, <3>1 DEF CompletePlanned, TypeOK, TurnRow
      <3>3. pc' # "stale" /\ instance' = instance
        BY <2>10 DEF CompletePlanned, Idle
      <3> QED
        BY <2>8, <3>1, <3>2, <3>3
    <2>11. CASE FailGeneration
      <3>1. job \in Turn /\ pc' = "idle" /\ instance' = instance
        BY <2>11 DEF FailGeneration, Idle, TypeOK
      <3>2. CASE turn[job].state = "generating" /\ turn[job].lease = instance
        <4>1. turn'[job].state = "failed"
          BY <2>11, <3>1, <3>2 DEF FailGeneration, TypeOK, TurnRow
        <4> QED
          BY <2>8, <3>1, <4>1
      <3>3. CASE ~(turn[job].state = "generating" /\ turn[job].lease = instance)
        <4>1. turn' = turn
          BY <2>11, <3>3 DEF FailGeneration
        <4> QED
          BY <3>1, <3>3, <4>1 DEF LaneStepFacts
      <3> QED
        BY <3>2, <3>3
    <2> QED
      BY <1>7, <2>2, <2>3, <2>4, <2>5, <2>6, <2>7, <2>9, <2>10, <2>11 DEF LaneStep
  <1> QED
    BY <1>2, <1>3, <1>4, <1>5, <1>6, <1>7 DEF Next

\* No lease is from the future, whatever the step does to its row.
LEMMA LeaseBounded ==
    ASSUME TypeOK, LaneInv, Moves, NEW t \in Turn
    PROVE  turn'[t].lease <= instance
  <1>1. turn[t].lease <= instance /\ instance \in Nat /\ NoOwner <= instance
    BY DEF LaneInv, TypeOK, NoOwner
  <1> QED
    BY <1>1 DEF Moves, RowMoves, Opens, Joins, Stays, Ends, Completes, Starts, Plans

\* A run that is generating after the step was so before, or starts with it.
LEMMA RunContinues ==
    ASSUME Moves, NEW t \in Turn, turn'[t].state = "generating"
    PROVE  \/ turn[t].state = "generating" /\ Stays(t)
           \/ Starts(t)
  BY DEF Moves, RowMoves, Opens, Joins, Stays, Ends, Completes, Starts, Plans

\* The lane keeps its run, and a stale run its reason.
LEMMA LanePreserved ==
    ASSUME TypeOK, TypeOK', LogStep, RowInv, LaneInv, LeaseHasItsLane, Moves, LaneStepFacts
    PROVE  LaneInv' /\ LeaseHasItsLane'
  <1>1. instance \in Nat \ {0} /\ events \in Nat /\ events' \in Nat /\ events <= events'
    BY DEF TypeOK, LogStep
  <1>2. \A t \in Turn : turn'[t].lease <= instance
    BY LeaseBounded
  <1>3. \A t \in Turn : turn'[t].lease \in Nat
    BY DEF TypeOK, TurnRow
  <1>4. instance' \in {instance, instance + 1}
    BY DEF LaneStepFacts
  <1>5. \A t \in Turn : turn'[t].lease <= instance'
    BY <1>1, <1>2, <1>3, <1>4
  <1>6. ASSUME pc' = "stale", turn'[job'].state = "generating"
        PROVE  /\ ~turn'[job'].inGrace
               /\ turn'[job'].lease # instance' \/ turn'[job'].revision # events'
    <2>1. job' = job /\ job \in Turn /\ instance' = instance
      BY <1>6 DEF LaneStepFacts, TypeOK
    <2>2. CASE pc = "stale"
      <3>1. turn[job].state = "generating" /\ Stays(job)
        BY <1>6, <2>1, <2>2, RunContinues DEF Starts
      <3>2. /\ ~turn[job].inGrace
            /\ turn[job].lease # instance \/ turn[job].revision # events
        BY <2>2, <3>1 DEF LaneInv
      <3>3. turn[job].revision <= events /\ turn[job].revision \in Nat
        BY <2>1 DEF RowInv, TypeOK, TurnRow
      <3>4. /\ turn'[job].revision = turn[job].revision /\ turn'[job].lease \in {turn[job].lease, NoOwner}
            /\ turn'[job].inGrace => turn[job].inGrace
        BY <3>1 DEF Stays, KeepsSources
      <3> QED
        BY <1>1, <2>1, <3>2, <3>3, <3>4 DEF NoOwner
    <2>3. CASE pc # "stale"
      <3>1. /\ UNCHANGED <<turn, events, instance>> /\ ~turn[job].inGrace
            /\ ~(turn[job].state = "generating" /\ turn[job].lease = instance /\ SealGate(job))
        BY <1>6, <2>3 DEF LaneStepFacts
      <3>2. turn[job].state = "generating"
        BY <1>6, <2>1, <3>1
      <3>3. VersionsHold(job)
        BY <2>1, <3>2 DEF RowInv, UnderWay
      <3> QED
        BY <2>1, <3>1, <3>2, <3>3 DEF SealGate
    <2> QED
      BY <2>2, <2>3
  <1>7. ASSUME NEW t \in Turn, turn'[t].state = "generating", turn'[t].lease = instance'
        PROVE  pc' \in {"model", "stale"} /\ job' = t
    <2>1. instance' = instance
      BY <1>1, <1>2, <1>4, <1>7
    <2>2. CASE Starts(t)
      BY <2>2 DEF Starts
    <2>3. CASE turn[t].state = "generating" /\ Stays(t)
      <3>1. turn[t].lease = instance
        BY <1>1, <1>7, <2>1, <2>3 DEF Stays, NoOwner
      <3>2. pc \in {"model", "stale"} /\ job = t
        BY <2>3, <3>1 DEF LeaseHasItsLane
      <3> QED
        BY <1>1, <1>7, <2>1, <3>2 DEF LaneStepFacts
    <2> QED
      BY <1>7, <2>2, <2>3, RunContinues
  <1>8. LaneInv'
    BY <1>5, <1>6 DEF LaneInv
  <1> QED
    BY <1>7, <1>8 DEF LeaseHasItsLane

\* An empty conversation satisfies the invariant.
LEMMA InitHasIInv == Init => IInv
  <1> SUFFICES ASSUME Init PROVE IInv
    OBVIOUS
  <1>1. /\ events = 0 /\ live = {} /\ whilePaused = {} /\ floor = 0 /\ covered = 0
        /\ turn = [t \in Turn |-> NoTurnYet] /\ output = [t \in Turn |-> "none"]
        /\ instance = 1 /\ pc = "idle"
    BY DEF Init
  <1>2. \A t \in Turn : turn[t].state = "absent" /\ turn[t].members = {}
                        /\ turn[t].revision = 0 /\ turn[t].lease = 0
    BY <1>1 DEF NoTurnYet, NoOwner
  <1>3. LogInv
    BY <1>1 DEF LogInv
  <1>4. RowInv
    BY <1>1, <1>2 DEF RowInv, UnderWay
  <1>5. LaneInv
    BY <1>1, <1>2 DEF LaneInv
  <1>6. OneTurnUnderWay /\ LeaseHasItsLane
    BY <1>2 DEF OneTurnUnderWay, LeaseHasItsLane, Active, Processing, InState
  <1>7. PauseBacklogUnanswered /\ HumanHasAnswered /\ CompletedIsCovered
    BY <1>2 DEF PauseBacklogUnanswered, HumanHasAnswered, CompletedIsCovered, InState
  <1> QED
    BY <1>3, <1>4, <1>5, <1>6, <1>7 DEF IInv

\* The invariant is inductive.
LEMMA StepKeepsIInv ==
    ASSUME TypeOK, IInv, [Next]_vars
    PROVE  TypeOK' /\ IInv' /\ Moves /\ LaneStepFacts
  <1>1. TypeOK'
    BY StepKeepsTypes
  <1>2. LogInv' /\ LogStep
    BY <1>1, StepKeepsLog DEF IInv
  <1>3. Moves
    BY <1>1, StepMoves DEF IInv
  <1>4. LaneStepFacts
    BY StepMovesLane
  <1>5. RowInv'
    BY <1>1, <1>2, <1>3, RowsPreserved DEF IInv
  <1>6. PauseBacklogUnanswered'
    BY <1>1, <1>2, <1>3, PauseBacklogPreserved DEF IInv
  <1>7. HumanHasAnswered'
    BY <1>1, <1>2, <1>3, HumanPreserved DEF IInv
  <1>8. CompletedIsCovered'
    BY <1>1, <1>2, <1>3, CompletedPreserved DEF IInv
  <1>9. OneTurnUnderWay'
    BY <1>3, OneTurnPreserved DEF IInv
  <1>10. LaneInv' /\ LeaseHasItsLane'
    BY <1>1, <1>2, <1>3, <1>4, LanePreserved DEF IInv
  <1> QED
    BY <1>1, <1>2, <1>3, <1>4, <1>5, <1>6, <1>7, <1>8, <1>9, <1>10 DEF IInv

-----------------------------------------------------------------------------
(* The theorems.                                                           *)

\* Log, rows and lane agree in every reachable state: the invariant behind the theorems below.
THEOREM OrchestratorInvariance == Spec => [](TypeOK /\ IInv)
  <1>1. Init => TypeOK /\ IInv
    BY InitHasTypes, InitHasIInv
  <1>2. TypeOK /\ IInv /\ [Next]_vars => (TypeOK /\ IInv)'
    BY StepKeepsIInv
  <1> QED
    BY <1>1, <1>2, PTL DEF Spec

\* One turn is collecting or generating, and one is being processed, at most, however
\* messages, commands, runs and echoes compete to open them.
THEOREM OneTurnUnderWayHolds == Spec => []OneTurnUnderWay
  <1>1. IInv => OneTurnUnderWay
    BY DEF IInv
  <1> QED
    BY <1>1, OrchestratorInvariance, PTL

\* An output that is still planned is one nobody has taken the permission from.
THEOREM PlannedIsStillWantedHolds == Spec => []PlannedIsStillWanted
  <1>1. TypeOK /\ IInv => PlannedIsStillWanted
    <2> SUFFICES ASSUME TypeOK, IInv, NEW t \in Turn, output[t] = "planned"
                 PROVE  /\ turn[t].state = "output_ready"
                        /\ turn[t].version = version /\ PermitsAuto
                        /\ turn[t].members \subseteq live
                        /\ \A e \in NewEvents(t) : kind[e] # "human"
      BY DEF PlannedIsStillWanted
    <2>1. turn[t].state = "output_ready" /\ UnderWay(t)
      BY DEF IInv, RowInv, UnderWay
    <2>2. turn[t].members # {} /\ turn[t].members \subseteq live /\ VersionsHold(t)
      BY <2>1 DEF IInv, RowInv
    <2>3. ASSUME NEW e \in NewEvents(t), kind[e] = "human" PROVE FALSE
      <3>1. PICK m \in turn[t].members : TRUE
        BY <2>2
      <3>2. e \in Recorded /\ e > m /\ m \in Nat /\ e \in Nat
        <4>1. m \in Recorded /\ e \in Recorded
          BY <2>2 DEF NewEvents, IInv, LogInv
        <4> QED
          BY <4>1 DEF NewEvents, Recorded
      <3>3. e < m
        BY <2>1, <2>3, <3>2 DEF IInv, HumanHasAnswered, InState
      <3> QED
        BY <3>2, <3>3
    <2> QED
      BY <2>1, <2>2, <2>3 DEF VersionsHold
  <1> QED
    BY <1>1, OrchestratorInvariance, PTL

\* A lease of the living process is in the hands of its lane.
THEOREM LeaseHasItsLaneHolds == Spec => []LeaseHasItsLane
  <1>1. IInv => LeaseHasItsLane
    BY DEF IInv
  <1> QED
    BY <1>1, OrchestratorInvariance, PTL

\* What came in under a pause is answered on request only.
THEOREM PauseBacklogUnansweredHolds == Spec => []PauseBacklogUnanswered
  <1>1. IInv => PauseBacklogUnanswered
    BY DEF IInv
  <1> QED
    BY <1>1, OrchestratorInvariance, PTL

\* What the account holder has answered is in no turn under way.
THEOREM HumanHasAnsweredHolds == Spec => []HumanHasAnswered
  <1>1. IInv => HumanHasAnswered
    BY DEF IInv
  <1> QED
    BY <1>1, OrchestratorInvariance, PTL

\* A completed turn was seen, echoed and covered.
THEOREM CompletedIsCoveredHolds == Spec => []CompletedIsCovered
  <1>1. IInv => CompletedIsCovered
    BY DEF IInv
  <1> QED
    BY <1>1, OrchestratorInvariance, PTL

\* The only way from planned to sending is the claim, through its gate.
LEMMA ClaimIsGated ==
    ASSUME TypeOK, [Next]_vars, NEW t \in Turn, output[t] = "planned", output'[t] = "sending"
    PROVE  SendGate(t)
  <1>1. output' # output
    OBVIOUS
  <1>2. ~ControlStep
    BY <1>1 DEF ControlStep, Pause, Resume, Cancel, EndTakeover, ReplyPending, CancelWork, outputVars
  <1>3. ~ListenerStep
    BY <1>1 DEF ListenerStep, IncomingKept, IncomingSupersedes, IncomingJoins,
                IncomingOpensTurn, Edit, Delete, HumanWrites, HumanUnattributed, EchoCompletes,
                EchoUnattributed, MapMessageId, CancelWork, TypeOK, outputVars
  <1>4. ~ClockStep /\ ~Restart /\ ~UNCHANGED vars /\ \A u \in Turn : ~TelegramAccepts(u)
    BY <1>1 DEF ClockStep, TakeoverLapses, QuietElapses, GraceEnds, LeaseLapses, Restart,
                TelegramAccepts, vars, outputVars
  <1>5. LaneStep
    BY <1>2, <1>3, <1>4 DEF Next
  <1>6. ClaimOutput
    <2>1. ~CutOutput /\ ~SettleSent /\ ~SettleOtherwise /\ ~CompletePlanned
          /\ \A u \in Turn : ~RecoverSend(u)
      BY DEF CutOutput, SettleSent, SettleOtherwise, CompletePlanned, RecoverSend, TypeOK
    <2> QED
      BY <1>1, <1>5, <2>1 DEF LaneStep, StartGeneration, StartCollides, RecoverGeneration,
              SelectOutput, RenewRefused, CompleteRefused, CompleteTooLate, FailGeneration,
              AdmissionRefused, outputVars
  <1> QED
    BY <1>6 DEF ClaimOutput, TypeOK

\* A claim knows the whole log, up to what the grace of its run allowed it to disregard.
THEOREM OutputIsCurrentHolds == Spec => OutputIsCurrent
  <1>1. TypeOK /\ IInv /\ [Next]_vars =>
          [\A t \in Turn :
            output[t] = "planned" /\ output'[t] = "sending" =>
                /\ pausedBy = {} /\ takeover # "active" /\ version = turn[t].version
                /\ turn[t].members \subseteq live
                /\ \A e \in Recorded :
                    e > turn[t].revision =>
                        kind[e] \in FromContact /\ e \in turn[t].authorized]_vars
    <2> SUFFICES ASSUME TypeOK, IInv, [Next]_vars, NEW t \in Turn,
                        output[t] = "planned", output'[t] = "sending"
                 PROVE  /\ pausedBy = {} /\ takeover # "active" /\ version = turn[t].version
                        /\ turn[t].members \subseteq live
                        /\ \A e \in Recorded :
                            e > turn[t].revision =>
                                kind[e] \in FromContact /\ e \in turn[t].authorized
      OBVIOUS
    <2>1. SendGate(t)
      BY ClaimIsGated
    <2>2. ASSUME NEW e \in Recorded, e > turn[t].revision
          PROVE  kind[e] \in FromContact /\ e \in turn[t].authorized
      <3>1. turn[t].revision # events
        BY <2>2 DEF Recorded, TypeOK
      <3>2. ExactGrace(t)
        BY <2>1, <3>1 DEF SendGate
      <3>3. e \in NewEvents(t)
        <4>1. \A m \in turn[t].members : m <= turn[t].revision /\ m \in Nat
          BY DEF IInv, RowInv, Recorded
        <4>2. turn[t].revision \in Nat /\ e \in Nat
          BY DEF TypeOK, TurnRow, Recorded
        <4> QED
          BY <2>2, <4>1, <4>2 DEF NewEvents
      <3> QED
        BY <3>2, <3>3 DEF ExactGrace, OnlyIncoming
    <2> QED
      BY <2>1, <2>2 DEF SendGate, VersionsHold, PermitsAuto, SourceValid
  <1> QED
    BY <1>1, OrchestratorInvariance, PTL DEF Spec, OutputIsCurrent

\* A stale run never becomes an output.
THEOREM StaleIsDiscardedHolds == Spec => StaleIsDiscarded
  <1>1. TypeOK /\ IInv /\ [Next]_vars =>
          [pc = "stale" => output'[job] # "planned" \/ output[job] = "planned"]_vars
    <2> SUFFICES ASSUME TypeOK, IInv, [Next]_vars, pc = "stale",
                        output'[job] = "planned", output[job] # "planned"
                 PROVE  FALSE
      OBVIOUS
    <2>1. job \in Turn /\ Moves
      BY StepKeepsIInv DEF TypeOK
    <2>2. Plans(job)
      BY <2>1 DEF Moves
    <2>3. turn[job].state = "generating" /\ OutputGate(job)
      BY <2>2 DEF Plans
    <2>4. ~turn[job].inGrace /\ (turn[job].lease # instance \/ turn[job].revision # events)
      BY <2>3 DEF IInv, LaneInv
    <2>5. turn[job].revision # events /\ RaceDecision(job) # "supersede"
      BY <2>3, <2>4 DEF OutputGate
    <2> QED
      BY <2>4, <2>5 DEF RaceDecision
  <1> QED
    BY <1>1, OrchestratorInvariance, PTL DEF Spec, StaleIsDiscarded

-----------------------------------------------------------------------------
(* A conversation takes its turns as TurnTaking promises.  The invariant    *)
(* above knows the turns; what is missing is where their outputs are.       *)

\* An output begins with its plan, the lane dispatches one that is planned or cut, and the
\* contact sees what was claimed.
ReplyInv ==
    /\ \A t \in Turn : turn[t].state \in {"absent", "collecting", "generating"} => output[t] = "none"
    /\ pc = "dispatch" => output[job] \in {"planned", "cancelled"}
    /\ visible \subseteq Released

\* What a step does to an output.
ReplyMoves(t) ==
    \/ output'[t] = output[t]
    \/ Plans(t)
    \/ output[t] = "planned" /\ output'[t] = "cancelled"
    \/ output[t] = "planned" /\ output'[t] = "sending" /\ SendGate(t) /\ pc' = "sending"
    \/ t \in Released /\ t \in Released'

RepliesMove ==
    /\ \A t \in Turn : ReplyMoves(t)
    /\ visible' \ visible \subseteq Released
    /\ pc' = "dispatch" => \/ pc = "dispatch" /\ job' = job
                           \/ output'[job'] = "planned"

\* Setting one output moves that one alone.
LEMMA OneReplyMoves ==
    ASSUME TypeOK, NEW t \in Turn, NEW s, output' = [output EXCEPT ![t] = s],
           output'[t] = s => ReplyMoves(t)
    PROVE  \A u \in Turn : ReplyMoves(u)
  BY DEF ReplyMoves, TypeOK

\* Every step moves the outputs as they may move.
LEMMA StepMovesReplies ==
    ASSUME TypeOK, ReplyInv, Moves, [Next]_vars
    PROVE  RepliesMove
  <1>1. ASSUME output' = output, visible' = visible,
               pc' # "dispatch" \/ UNCHANGED laneVars
        PROVE  RepliesMove
    BY <1>1 DEF RepliesMove, ReplyMoves, laneVars
  <1>2. ASSUME CancelWork, visible' = visible, UNCHANGED laneVars
        PROVE  RepliesMove
    <2>1. \A t \in Turn : output'[t] = IF output[t] = "planned" THEN "cancelled" ELSE output[t]
      BY <1>2 DEF CancelWork
    <2> QED
      BY <1>2, <2>1 DEF RepliesMove, ReplyMoves, laneVars
  <1>3. CASE ListenerStep
    <2>1. CASE HumanWrites \/ \E m \in live : Edit(m) \/ Delete(m)
      BY <1>2, <2>1 DEF HumanWrites, Edit, Delete
    <2>2. ASSUME NEW t \in Turn, MapMessageId(t) PROVE RepliesMove
      <3>1. t \in Released /\ output' = [output EXCEPT ![t] = "sent"]
        BY <2>2 DEF MapMessageId, ReplyInv
      <3>2. output'[t] = "sent" => ReplyMoves(t)
        BY <3>1 DEF ReplyMoves, Released
      <3>3. \A u \in Turn : ReplyMoves(u)
        BY <3>1, <3>2, OneReplyMoves
      <3> QED
        BY <2>2, <3>3 DEF MapMessageId, RepliesMove, laneVars
    <2> QED
      BY <1>1, <1>3, <2>1, <2>2
      DEF ListenerStep, IncomingKept, IncomingSupersedes, IncomingJoins, IncomingOpensTurn,
          HumanUnattributed, EchoCompletes, EchoUnattributed, outputVars
  <1>4. CASE ControlStep
    BY <1>1, <1>2, <1>4 DEF ControlStep, Pause, Resume, Cancel, EndTakeover, ReplyPending, outputVars
  <1>5. CASE ClockStep
    BY <1>1, <1>5 DEF ClockStep, TakeoverLapses, QuietElapses, GraceEnds, LeaseLapses, outputVars
  <1>6. CASE Restart \/ UNCHANGED vars
    BY <1>1, <1>6 DEF Restart, Idle, vars, outputVars
  <1>7. ASSUME NEW t \in Turn, TelegramAccepts(t) PROVE RepliesMove
    BY <1>7 DEF TelegramAccepts, RepliesMove, ReplyMoves, Released, laneVars
  <1>8. CASE LaneStep
    <2>1. CASE \/ RenewRefused \/ CompleteRefused \/ CompleteTooLate \/ FailGeneration
               \/ AdmissionRefused
               \/ \E t \in Turn : StartGeneration(t) \/ StartCollides(t) \/ RecoverGeneration(t)
      BY <1>1, <2>1
      DEF RenewRefused, CompleteRefused, CompleteTooLate, FailGeneration, AdmissionRefused,
          StartGeneration, StartCollides, RecoverGeneration, Idle, outputVars, laneVars
    <2>2. ASSUME NEW t \in Turn, SelectOutput(t) PROVE RepliesMove
      BY <2>2 DEF SelectOutput, RepliesMove, ReplyMoves, outputVars
    <2>3. ASSUME NEW t \in Turn, RecoverSend(t) PROVE RepliesMove
      <3>1. output[t] = "sending" /\ output' = [output EXCEPT ![t] = "unknown"]
        BY <2>3 DEF RecoverSend
      <3>2. output'[t] = "unknown" => ReplyMoves(t)
        BY <3>1 DEF ReplyMoves, Released
      <3>3. \A u \in Turn : ReplyMoves(u)
        BY <3>1, <3>2, OneReplyMoves
      <3> QED
        BY <2>3, <3>3 DEF RecoverSend, RepliesMove, laneVars
    <2>4. CASE CompletePlanned
      <3>1. job \in Turn /\ output' = [output EXCEPT ![job] = "planned"] /\ visible' = visible
            /\ (pc' = "dispatch" => job' = job)
        BY <2>4 DEF CompletePlanned, Idle, TypeOK
      <3>2. output'[job] = "planned"
        BY <3>1 DEF TypeOK
      <3>3. ReplyMoves(job)
        BY <3>1, <3>2 DEF Moves, ReplyMoves
      <3>4. \A u \in Turn : ReplyMoves(u)
        BY <3>1, <3>3, OneReplyMoves
      <3> QED
        BY <3>1, <3>2, <3>4 DEF RepliesMove
    <2>5. CASE ClaimOutput
      <3>1. /\ job \in Turn /\ output' = [output EXCEPT ![job] = "sending"] /\ visible' = visible
            /\ SendGate(job) /\ output[job] = "planned" /\ pc' = "sending"
        BY <2>5 DEF ClaimOutput, SendGate, TypeOK
      <3>2. output'[job] = "sending" => ReplyMoves(job)
        BY <3>1 DEF ReplyMoves
      <3>3. \A u \in Turn : ReplyMoves(u)
        BY <3>1, <3>2, OneReplyMoves
      <3> QED
        BY <3>1, <3>3 DEF RepliesMove
    <2>6. CASE CutOutput
      <3>1. /\ job \in Turn /\ output' = [output EXCEPT ![job] = "cancelled"] /\ visible' = visible
            /\ output[job] \in {"planned", "cancelled"} /\ pc' = "idle"
        BY <2>6 DEF CutOutput, Idle, ReplyInv, TypeOK
      <3>2. output'[job] = "cancelled" => ReplyMoves(job)
        BY <3>1 DEF ReplyMoves
      <3>3. \A u \in Turn : ReplyMoves(u)
        BY <3>1, <3>2, OneReplyMoves
      <3> QED
        BY <3>1, <3>3 DEF RepliesMove
    <2>7. CASE SettleSent
      <3>1. /\ job \in Turn /\ output' = [output EXCEPT ![job] = "sent"] /\ visible' = visible
            /\ job \in Released /\ pc' = "idle"
        BY <2>7 DEF SettleSent, Idle, ReplyInv, TypeOK
      <3>2. output'[job] = "sent" => ReplyMoves(job)
        BY <3>1 DEF ReplyMoves, Released
      <3>3. \A u \in Turn : ReplyMoves(u)
        BY <3>1, <3>2, OneReplyMoves
      <3> QED
        BY <3>1, <3>3 DEF RepliesMove
    <2>8. CASE SettleOtherwise
      <3>1. job \in Turn /\ visible' = visible /\ pc' = "idle"
        BY <2>8 DEF SettleOtherwise, Idle, TypeOK
      <3>2. CASE output' = output
        BY <1>1, <3>1, <3>2
      <3>3. ASSUME NEW s \in {"unknown", "retry_wait", "failed"}, output[job] = "sending",
                   output' = [output EXCEPT ![job] = s]
            PROVE  RepliesMove
        <4>1. output'[job] = s => ReplyMoves(job)
          BY <3>1, <3>3 DEF ReplyMoves, Released
        <4>2. \A u \in Turn : ReplyMoves(u)
          BY <3>1, <3>3, <4>1, OneReplyMoves
        <4> QED
          BY <3>1, <4>2 DEF RepliesMove
      <3> QED
        BY <2>8, <3>2, <3>3 DEF SettleOtherwise
    <2> QED
      BY <1>8, <2>1, <2>2, <2>3, <2>4, <2>5, <2>6, <2>7, <2>8 DEF LaneStep
  <1> QED
    BY <1>3, <1>4, <1>5, <1>6, <1>7, <1>8 DEF Next

\* What was claimed stays claimed: an output is planned once, by a run that had none.
LEMMA ReleasedStays ==
    ASSUME TypeOK, ReplyInv, RepliesMove, NEW t \in Released
    PROVE  t \in Released'
  <1>1. ReplyMoves(t) /\ output[t] \notin {"none", "planned"}
    BY DEF RepliesMove, Released
  <1>2. ~Plans(t)
    BY <1>1 DEF Plans, ReplyInv, Released
  <1> QED
    BY <1>1, <1>2 DEF ReplyMoves, Released

\* The outputs stay where they may be.
LEMMA RepliesPreserved ==
    ASSUME TypeOK, TypeOK', ReplyInv, Moves, RepliesMove
    PROVE  ReplyInv'
  <1>1. ASSUME NEW t \in Turn, turn'[t].state \in {"absent", "collecting", "generating"}
        PROVE  output'[t] = "none"
    <2>1. turn[t].state \in {"absent", "collecting", "generating"} /\ ~Plans(t)
      BY <1>1 DEF Moves, RowMoves, Opens, Joins, Stays, Ends, Completes, Starts, Plans
    <2>2. output[t] = "none" /\ ReplyMoves(t)
      BY <2>1 DEF ReplyInv, RepliesMove
    <2> QED
      BY <2>1, <2>2 DEF ReplyMoves, Released
  <1>2. ASSUME pc' = "dispatch"
        PROVE  output'[job'] \in {"planned", "cancelled"}
    <2>1. CASE pc = "dispatch" /\ job' = job
      <3>1. job \in Turn /\ output[job] \in {"planned", "cancelled"} /\ ReplyMoves(job)
        BY <2>1 DEF TypeOK, ReplyInv, RepliesMove
      <3> QED
        BY <1>2, <2>1, <3>1 DEF ReplyMoves, Plans, Released
    <2> QED
      BY <1>2, <2>1 DEF RepliesMove
  <1>3. visible' \subseteq Released'
    <2>1. visible' \subseteq Released
      BY DEF ReplyInv, RepliesMove
    <2> QED
      BY <2>1, ReleasedStays
  <1> QED
    BY <1>1, <1>2, <1>3 DEF ReplyInv

\* The states of the rows and the phases of the turns say the same.
PhasesAgree ==
    \A t \in Turn :
        /\ PhaseOf(t) = "absent" <=> turn[t].state = "absent"
        /\ PhaseOf(t) = "gathering" <=> turn[t].state = "collecting"
        /\ PhaseOf(t) = "thinking" <=> turn[t].state = "generating"
        /\ PhaseOf(t) = "ready" <=> turn[t].state = "output_ready"
        /\ PhaseOf(t) = "answered" <=> turn[t].state = "completed"
        /\ PhaseOf(t) = "over" <=> turn[t].state \in {"failed", "superseded", "cancelled"}
        /\ PhaseOf(t) \in Talk!AtWork <=> UnderWay(t)
        /\ PhaseOf(t) \in {"absent", "gathering", "thinking", "ready", "answered", "over"}

LEMMA StatesArePhases == TypeOK => PhasesAgree
  BY DEF TypeOK, TurnRow, TurnState, PhasesAgree, PhaseOf, Talk!AtWork, UnderWay

\* A move of a row is a move of its turn.
LEMMA RowTakesTurn ==
    ASSUME TypeOK, TypeOK', PhasesAgree, PhasesAgree', IInv, IInv', ReplyInv, Moves, RepliesMove,
           NEW t \in Turn
    PROVE  \/ Talk!Rests(t) \/ Talk!Opens(t) \/ Talk!Gathers(t) \/ Talk!Thinks(t)
           \/ Talk!Readies(t) \/ Talk!Ends(t) \/ Talk!Answers(t)
  <1>1. RowMoves(t) /\ ReplyMoves(t)
    BY DEF Moves, RepliesMove
  <1>2. UnderWay(t)' => turn'[t].members \subseteq live'
    BY DEF IInv, RowInv
  <1>3. CASE Opens(t)
    <2>1. PhaseOf(t) = "absent" /\ PhaseOf(t)' = "gathering"
      BY <1>3 DEF Opens, PhasesAgree
    <2>2. \A u \in Turn \ {t} : PhaseOf(u)' \notin {"gathering", "thinking"}
      BY <1>3 DEF Opens, PhasesAgree
    <2>3. Talk!Opens(t)
      BY <1>3, <2>1, <2>2 DEF Opens, Talk!Opens
    <2> QED
      BY <2>3
  <1>4. CASE Joins(t)
    <2>1. PhaseOf(t) = "gathering" /\ PhaseOf(t)' = "gathering" /\ UnderWay(t)'
      BY <1>4 DEF Joins, PhasesAgree, UnderWay
    <2>2. Talk!Gathers(t)
      BY <1>2, <1>4, <2>1 DEF Joins, Talk!Gathers
    <2> QED
      BY <2>2
  <1>5. CASE Stays(t)
    <2>1. PhaseOf(t)' = PhaseOf(t)
      BY <1>5 DEF Stays, PhaseOf
    <2>2. Talk!Rests(t)
      BY <1>5, <2>1 DEF Stays, KeepsSources, Talk!Rests
    <2> QED
      BY <2>2
  <1>6. CASE Ends(t)
    <2>1. PhaseOf(t) \in Talk!AtWork /\ PhaseOf(t)' = "over"
      BY <1>6 DEF Ends, PhasesAgree
    <2>2. output'[t] # "planned"
      BY <1>6 DEF Ends, IInv, RowInv
    <2>3. Talk!Ends(t)
      BY <1>6, <2>1, <2>2 DEF Ends, KeepsSources, Talk!Ends
    <2> QED
      BY <2>3
  <1>7. CASE Completes(t)
    <2>1. t \in Released
      <3>1. output'[t] = "sent"
        BY <1>7 DEF Completes
      <3> QED
        BY <1>1, <3>1 DEF ReplyMoves, Plans, Released
    <2>2. turn[t].state \notin {"absent", "collecting", "generating"}
      BY <2>1 DEF ReplyInv, Released
    <2>3. PhaseOf(t) \in {"ready", "over", "answered"} /\ PhaseOf(t)' = "answered"
      BY <1>7, <2>2 DEF Completes, PhasesAgree
    <2>4. CASE PhaseOf(t) = "answered"
      <3>1. Talk!Rests(t)
        BY <1>7, <2>3, <2>4 DEF Completes, KeepsSources, Talk!Rests
      <3> QED
        BY <3>1
    <2>5. CASE PhaseOf(t) \in {"ready", "over"}
      <3>1. Talk!Answers(t)
        BY <1>7, <2>3, <2>5 DEF Completes, KeepsSources, Talk!Answers
      <3> QED
        BY <3>1
    <2> QED
      BY <2>3, <2>4, <2>5
  <1>8. CASE Starts(t)
    <2>1. PhaseOf(t) = "gathering" /\ PhaseOf(t)' = "thinking"
      BY <1>8 DEF Starts, PhasesAgree
    <2>2. \A u \in Turn \ {t} : turn'[u].state \notin {"generating", "output_ready"}
      BY <1>8 DEF Starts, IInv, OneTurnUnderWay, Processing, InState
    <2>3. \A u \in Turn \ {t} : PhaseOf(u)' \notin {"thinking", "ready"}
      BY <2>2 DEF PhasesAgree
    <2>4. Talk!Thinks(t)
      BY <1>8, <2>1, <2>3 DEF Starts, KeepsSources, Talk!Thinks
    <2> QED
      BY <2>4
  <1>9. CASE Plans(t)
    <2>1. PhaseOf(t) = "thinking" /\ PhaseOf(t)' = "ready"
      BY <1>9 DEF Plans, PhasesAgree
    <2>2. output[t] = "none" /\ output'[t] = "planned"
      BY <1>9 DEF Plans, ReplyInv
    <2>3. Talk!Readies(t)
      BY <1>9, <2>1, <2>2 DEF Plans, KeepsSources, Released, Talk!Readies
    <2> QED
      BY <2>3
  <1> QED
    BY <1>1, <1>3, <1>4, <1>5, <1>6, <1>7, <1>8, <1>9 DEF RowMoves

\* The offers and what the contact sees move as promised.
LEMMA RepliesAsPromised ==
    ASSUME TypeOK, TypeOK', PhasesAgree, PhasesAgree', ReplyInv, ReplyInv', Moves, LogStep,
           RepliesMove
    PROVE  Talk!Replies
  <1>1. ASSUME NEW t \in Turn, output'[t] = "planned", output[t] # "planned"
        PROVE  Talk!Readies(t)
    <2>1. Plans(t)
      BY <1>1 DEF Moves
    <2>2. PhaseOf(t) = "thinking" /\ PhaseOf(t)' = "ready" /\ output[t] = "none"
      BY <2>1 DEF Plans, PhasesAgree, ReplyInv
    <2> QED
      BY <1>1, <2>1, <2>2 DEF Plans, KeepsSources, Released, Talk!Readies
  <1>2. ASSUME NEW t \in Released', t \notin Released
        PROVE  /\ output[t] = "planned" /\ PhaseOf(t) = "ready"
               /\ PermitsAuto /\ turn[t].members \subseteq live
    <2>1. t \in Turn /\ ReplyMoves(t)
      BY <1>2 DEF Released, RepliesMove
    <2>2. output[t] = "planned" /\ SendGate(t)
      BY <1>2, <2>1 DEF ReplyMoves, Plans, Released
    <2> QED
      BY <2>1, <2>2 DEF SendGate, VersionsHold, SourceValid, PhasesAgree
  <1>3. Released \subseteq Released'
    BY ReleasedStays
  <1>4. {t \in Turn : output[t] = "planned"}' \cap Released' = {}
    BY DEF Released
  <1>5. visible \subseteq visible' /\ visible' \subseteq Released'
    BY DEF LogStep, ReplyInv
  <1> QED
    BY <1>1, <1>2, <1>3, <1>4, <1>5 DEF Talk!Replies, Released

\* Every step is one that TurnTaking allows.
LEMMA TurnsTakenInStep ==
    ASSUME TypeOK, TypeOK', PhasesAgree, PhasesAgree', IInv, IInv', ReplyInv, ReplyInv',
           Moves, LogStep, RepliesMove
    PROVE  Talk!TalkNext
  <1>1. \A t \in Turn : \/ Talk!Rests(t) \/ Talk!Opens(t) \/ Talk!Gathers(t) \/ Talk!Thinks(t)
                        \/ Talk!Readies(t) \/ Talk!Ends(t) \/ Talk!Answers(t)
    BY RowTakesTurn
  <1>2. Talk!Replies
    BY RepliesAsPromised
  <1>3. covered <= covered'
    BY DEF LogStep
  <1>4. Undisturbed => Talk!Undisturbed
    BY DEF Undisturbed, Talk!Undisturbed, PermitsAuto
  <1>5. Revokes => Talk!AllEnded
    BY DEF Revokes, PhasesAgree, Talk!AllEnded
  <1>6. \A t \in Turn : PhaseOf(t)' \in Talk!AtWork => PermitsAuto'
    BY DEF PhasesAgree, IInv, RowInv, VersionsHold
  <1> QED
    BY <1>1, <1>2, <1>3, <1>4, <1>5, <1>6 DEF Talk!TalkNext, Moves

\* No turn, no reply.
LEMMA TurnsBegin == Init => ReplyInv /\ Talk!TalkInit
  <1> SUFFICES ASSUME Init PROVE ReplyInv /\ Talk!TalkInit
    OBVIOUS
  <1>1. /\ turn = [t \in Turn |-> NoTurnYet] /\ output = [t \in Turn |-> "none"]
        /\ visible = {} /\ pc = "idle"
    BY DEF Init
  <1>2. \A t \in Turn : PhaseOf(t) = "absent"
    BY <1>1 DEF NoTurnYet, PhaseOf
  <1> QED
    BY <1>1, <1>2 DEF ReplyInv, Released, Talk!TalkInit

\* Turns are taken one at a time and in good order: they exclude each other, none comes back,
\* no output is claimed twice or unwanted, and what takes the permission or a source away ends
\* all work in the same transaction, for any number of turns, messages, commands and restarts.
THEOREM OrchestratorTakesTurns == Spec => TakesTurns
  <1>1. Init => TypeOK /\ IInv /\ ReplyInv /\ Talk!TalkInit
    BY InitHasTypes, InitHasIInv, TurnsBegin
  <1>2. ASSUME TypeOK, IInv, ReplyInv, [Next]_vars
        PROVE  TypeOK' /\ IInv' /\ ReplyInv' /\ Moves /\ LogStep /\ RepliesMove
    <2>1. TypeOK' /\ IInv' /\ Moves
      BY <1>2, StepKeepsIInv
    <2>2. LogStep
      BY <1>2, <2>1, StepKeepsLog DEF IInv
    <2>3. RepliesMove
      BY <1>2, <2>1, StepMovesReplies
    <2>4. ReplyInv'
      BY <1>2, <2>1, <2>3, RepliesPreserved
    <2> QED
      BY <2>1, <2>2, <2>3, <2>4
  <1>3. TypeOK /\ IInv /\ ReplyInv /\ [Next]_vars => (TypeOK /\ IInv /\ ReplyInv)'
    BY <1>2
  <1>4. ASSUME TypeOK, PhasesAgree, PhasesAgree', IInv, ReplyInv, [Next]_vars
        PROVE  Talk!TalkNext
    BY <1>2, <1>4, TurnsTakenInStep
  <1>5. TypeOK /\ PhasesAgree /\ PhasesAgree' /\ IInv /\ ReplyInv /\ [Next]_vars
          => [Talk!TalkNext]_Talk!talkVars
    BY <1>4
  <1> QED
    BY <1>1, <1>3, <1>5, StatesArePhases, PTL DEF Spec, TakesTurns, Talk!TalkSpec
=============================================================================
