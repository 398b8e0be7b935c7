------------------------- MODULE AppServicesProofs --------------------------
(***************************************************************************)
(* Theorems about the services of `app` and `control`: the request of a    *)
(* model run, the updates of the control bot, the keys of model profiles   *)
(* and the owner of the Session; each for any values of its constants.     *)
(***************************************************************************)
EXTENDS AppServices, DeliveryProofs, TLAPS

-----------------------------------------------------------------------------
(***************************************************************************)
(* The request of a model run. What is sent, for whichever attempt, is     *)
(* what is bound to the run; and a run the provider may have worked on,    *)
(* without asking for another attempt, is over or will not be tried again. *)
(***************************************************************************)

\* what the runtime has in hand is the request bound to the run, or none
CallShape ==
    /\ call \in [step : CallStep, attempt : Nat, tries : Nat, request : {{}, manifest},
                 failure : [retryable : BOOLEAN, maySent : BOOLEAN]]
    /\ call.step \in {"connecting", "waiting"} => call.request = manifest /\ manifest # {}
    /\ atHand \in {{}, manifest}

\* what was sent is what was bound
SentIsBound == requested \subseteq {manifest} /\ (requested # {} => manifest # {})

\* a run the provider may have worked on without asking for more is not tried again
WorkedOnIsNotRetried ==
    answers # overlooked =>
        \/ call.step = "over"
        \/ call.step = "failed" /\ ~(call.failure.retryable /\ ~call.failure.maySent)

RequestsInv == CallShape /\ SentIsBound /\ WorkedOnIsNotRetried

\* what is bound is never empty: the turn is in it
LEMMA BoundIsSomething ==
    ASSUME NEW kinds \in Selections
    PROVE  CurrentOf(kinds) # {}
<1>1. "turn message" \in kinds
  BY DEF Selections
<1>2. SourceOf("turn message") \in CurrentOf(kinds)
  BY <1>1 DEF CurrentOf
<1>. QED
  BY <1>2

LEMMA PreparingKeepsRequests ==
    ASSUME RequestsInv, UsePrepared \/ PrepareRequest \/ LoadPrepared \/ PrepareRefused
    PROVE  RequestsInv'
<1> USE DEF RequestsInv, CallShape, SentIsBound, WorkedOnIsNotRetried, CallStep, InStep
<1>1. CASE UsePrepared
  BY <1>1 DEF UsePrepared, HasRequest
<1>2. CASE PrepareRequest
  <2>1. PICK kinds \in Selections : BindManifest(kinds) /\ Remember(manifest') /\ HasRequest(manifest')
    BY <1>2 DEF PrepareRequest
  <2>2. manifest' # {} /\ atHand' = manifest'
    BY <2>1, BoundIsSomething DEF BindManifest, Remember
  <2>3. manifest = {} /\ requested' = {} /\ answers' = overlooked' /\ InStep("preparing")
    BY <1>2 DEF PrepareRequest
  <2>. QED
    BY <2>1, <2>2, <2>3 DEF HasRequest
<1>3. CASE LoadPrepared
  BY <1>3 DEF LoadPrepared, HasRequest, Remember, Rebuilt
<1>4. CASE PrepareRefused
  BY <1>4 DEF PrepareRefused, CallFails
<1>. QED
  BY <1>1, <1>2, <1>3, <1>4

\* an attempt that fails has no request in hand
LEMMA FailureShape ==
    ASSUME CallShape, NEW r \in BOOLEAN, NEW m \in BOOLEAN, CallFails(r, m),
           UNCHANGED <<manifest, atHand>>
    PROVE  /\ CallShape' /\ call'.step = "failed"
           /\ call'.failure.retryable = r /\ call'.failure.maySent = m
<1>1. call' \in [step : CallStep, attempt : Nat, tries : Nat, request : {{}, manifest},
                 failure : [retryable : BOOLEAN, maySent : BOOLEAN]]
  BY DEF CallShape, CallFails, CallStep
<1>2. call'.step = "failed" /\ call'.failure = [retryable |-> r, maySent |-> m]
  BY DEF CallShape, CallFails
<1>. QED
  BY <1>1, <1>2 DEF CallShape

LEMMA AskingKeepsRequests ==
    ASSUME RequestsInv,
           CompositionFails \/ ConnectFails \/ SendRequest \/ RequestRefused \/ AnswerIsLost \/ Answered
    PROVE  RequestsInv'
<1> USE DEF RequestsInv, SentIsBound, WorkedOnIsNotRetried, InStep
<1>1. CASE CompositionFails
  BY <1>1, FailureShape DEF CompositionFails
<1>2. CASE ConnectFails
  <2>1. CASE CallFails(TRUE, FALSE)
    BY <1>2, <2>1, FailureShape DEF ConnectFails
  <2>2. CASE call' = [call EXCEPT !.tries = @ + 1]
    BY <1>2, <2>2 DEF ConnectFails, CallShape
  <2>. QED
    BY <1>2, <2>1, <2>2 DEF ConnectFails
<1>3. CASE SendRequest
  BY <1>3 DEF SendRequest, Ask, CallShape, CallStep
<1>4. CASE RequestRefused
  <2>1. PICK forNow \in BOOLEAN :
            /\ CallFails(forNow, FALSE)
            /\ \/ UNCHANGED <<answers, overlooked>>
               \/ WorkedOn /\ overlooked' = IF forNow THEN overlooked + 1 ELSE overlooked
    BY <1>4 DEF RequestRefused
  <2>2. answers = overlooked /\ CallShape /\ UNCHANGED <<manifest, atHand, requested>>
    BY <1>4 DEF RequestRefused
  <2>3. CallShape' /\ call'.step = "failed" /\ call'.failure.retryable = forNow
    BY <2>1, <2>2, FailureShape
  <2>4. forNow => answers' = overlooked'
    BY <2>1, <2>2 DEF WorkedOn
  <2>. QED
    BY <2>2, <2>3, <2>4
<1>5. CASE AnswerIsLost
  <2>1. CallShape
    OBVIOUS
  <2>2. CASE CallFails(TRUE, TRUE)
    BY <1>5, <2>1, <2>2, FailureShape DEF AnswerIsLost
  <2>3. CASE CallFails(FALSE, FALSE)
    BY <1>5, <2>1, <2>3, FailureShape DEF AnswerIsLost
  <2>. QED
    BY <1>5, <2>2, <2>3 DEF AnswerIsLost
<1>6. CASE Answered
  BY <1>6 DEF Answered, WorkedOn, Over, NoFailure, CallShape, CallStep
<1>. QED
  BY <1>1, <1>2, <1>3, <1>4, <1>5, <1>6

LEMMA RuntimeKeepsRequests ==
    ASSUME RequestsInv, RecordRetry \/ RetryFence \/ EndRun \/ AttemptEnds
    PROVE  RequestsInv'
<1> USE DEF RequestsInv, SentIsBound, WorkedOnIsNotRetried, InStep
<1>1. CASE RecordRetry
  BY <1>1 DEF RecordRetry, CanRetry, CallShape, CallStep
<1>2. CASE RetryFence
  <2>1. call' \in [step : CallStep, attempt : Nat, tries : Nat, request : {{}, manifest},
                   failure : [retryable : BOOLEAN, maySent : BOOLEAN]]
    <3>1. call.attempt + 1 \in Nat /\ NoFailure \in [retryable : BOOLEAN, maySent : BOOLEAN]
      BY DEF CallShape, NoFailure
    <3>. QED
      BY <1>2, <3>1 DEF RetryFence, CallShape, CallStep
  <2>2. call'.step = "preparing"
    BY <1>2 DEF RetryFence, CallShape
  <2>. QED
    BY <1>2, <2>1, <2>2 DEF RetryFence, CallShape
<1>3. CASE EndRun
  BY <1>3 DEF EndRun, Over, CallShape, CallStep, NoFailure
<1>4. CASE AttemptEnds
  <2>1. CASE CallFails(TRUE, TRUE)
    <3>1. UNCHANGED <<manifest, atHand, requested>>
      BY <1>4 DEF AttemptEnds
    <3>2. CallShape' /\ call'.step = "failed" /\ call'.failure.maySent = TRUE
      BY <2>1, <3>1, FailureShape
    <3>. QED
      BY <3>1, <3>2
  <2>2. CASE call' = Over
    <3>1. /\ call' \in [step : CallStep, attempt : Nat, tries : Nat, request : {{}, manifest},
                        failure : [retryable : BOOLEAN, maySent : BOOLEAN]]
          /\ call'.step = "over"
      BY <2>2 DEF Over, CallStep, NoFailure
    <3>2. UNCHANGED <<manifest, atHand, requested>>
      BY <1>4 DEF AttemptEnds
    <3>3. CallShape'
      BY <3>1, <3>2 DEF CallShape
    <3>4. SentIsBound' /\ WorkedOnIsNotRetried'
      BY <3>1, <3>2
    <3>. QED
      BY <3>3, <3>4
  <2>. QED
    BY <1>4, <2>1, <2>2 DEF AttemptEnds
<1>. QED
  BY <1>1, <1>2, <1>3, <1>4

LEMMA RequestsInvInductive == RequestsInv /\ [RequestsNext]_requestsVars => RequestsInv'
<1> SUFFICES ASSUME RequestsInv, [RequestsNext]_requestsVars PROVE RequestsInv'
  OBVIOUS
<1>1. ASSUME NEW k \in Kind, ChangeSource(k) \/ WithdrawSource(k)
      PROVE  RequestsInv'
  BY <1>1 DEF ChangeSource, WithdrawSource, RequestsInv, CallShape, SentIsBound,
              WorkedOnIsNotRetried
<1>2. CASE ForgetPrepared
  BY <1>2 DEF ForgetPrepared, RequestsInv, CallShape, SentIsBound, WorkedOnIsNotRetried
<1>3. CASE UNCHANGED requestsVars
  BY <1>3 DEF requestsVars, RequestsInv, CallShape, SentIsBound, WorkedOnIsNotRetried
<1>. QED
  BY <1>1, <1>2, <1>3, PreparingKeepsRequests, AskingKeepsRequests, RuntimeKeepsRequests
     DEF RequestsNext

LEMMA RequestsInvInit == RequestsInit => RequestsInv
  BY DEF RequestsInit, RequestsInv, CallShape, SentIsBound, WorkedOnIsNotRetried, CallStep, NoFailure

\* For any number of attempts and connections: what a provider is sent for a run is the one request
\* bound to the run, and none is sent after one that the provider may have worked on, except where
\* the provider itself asked for another attempt with its status.
THEOREM RequestsSpecOneRequestPerRun == RequestsSpec => []OneRequestPerRun
<1>1. RequestsInv => OneRequestPerRun
  BY DEF RequestsInv, SentIsBound, WorkedOnIsNotRetried, OneRequestPerRun, InStep
<1>. QED
  BY <1>1, RequestsInvInit, RequestsInvInductive, PTL DEF RequestsSpec

-----------------------------------------------------------------------------
(***************************************************************************)
(* The updates of the control bot. An effect is not tied to one poller:    *)
(* the update may be handled by one, answered by a second and passed by a  *)
(* third. The invariant follows an update through them: what lies before   *)
(* the offset is done, what waits or was executed was handled and is not   *)
(* past the offset, and a handled update is in the hands of one poller at  *)
(* most that may answer it.                                                *)
(***************************************************************************)

PollerRow == [step : {"rest", "handle", "route", "complete", "deliver", "advance", "sent",
                      "not_sent", "unknown"},
              at : Nat, last : 0..Len(mix)]

UpdatesShape ==
    /\ mix \in Seq(UpdateKind)
    /\ arrived \in 0..Len(mix) /\ offset \in Nat \ {0}
    /\ receipt \in [Update -> ReceiptRow]
    /\ poller \in [Pollers -> PollerRow]
    /\ queued \subseteq Update /\ log \in Seq(Update)
    /\ replies \in [Update -> Nat]

Done(u) == receipt[u].state = "completed"

\* nobody works past the offset, what is in hand is an update, and what is routed is a button
HandsAreBehind ==
    \A m \in Pollers :
        /\ poller[m].at <= offset
        /\ poller[m].step # "rest" => poller[m].at \in Update
        /\ poller[m].step \in {"route", "complete"} => mix[poller[m].at] = "button"

PassedIsDone == \A u \in Update : u < offset => Done(u)

\* what waits or was executed was handled, and nothing was handled past the offset
RecordedIsDone ==
    /\ \A u \in queued : Done(u) /\ u <= offset
    /\ \A i \in 1..Len(log) : Done(log[i]) /\ log[i] <= offset

LogInOrder ==
    /\ \A i, j \in 1..Len(log) : i < j => log[i] < log[j]
    /\ \A i \in 1..Len(log) : \A u \in queued : log[i] < u

CommandsRecorded ==
    \A u \in Update : Done(u) /\ mix[u] = "command" =>
        u \in queued \/ \E i \in 1..Len(log) : log[i] = u

\* an update that was completed is in the hands of one poller at most that may answer it, and was
\* not answered while it is
AnsweredByOne ==
    /\ \A u \in Update : replies[u] <= 1 /\ (~Done(u) => replies[u] = 0)
    /\ \A m \in Pollers : poller[m].step = "deliver" =>
          /\ Done(poller[m].at) /\ replies[poller[m].at] = 0
          /\ \A n \in Pollers : poller[n].step = "deliver" /\ poller[n].at = poller[m].at => n = m

UpdatesInv ==
    /\ UpdatesShape /\ HandsAreBehind /\ PassedIsDone /\ RecordedIsDone
    /\ LogInOrder /\ CommandsRecorded /\ AnsweredByOne

\* where a poller may go: not past the offset, and with an update in hand
MayBe(row) ==
    /\ row \in PollerRow /\ row.at <= offset
    /\ row.step # "rest" => row.at \in Update
    /\ row.step \in {"route", "complete"} => mix[row.at] = "button"

\* a step that completes no update and gives nobody another update to answer
LEMMA QuietKeepsUpdates ==
    ASSUME UpdatesInv, UNCHANGED <<mix, offset, queued, log, replies>>,
           arrived' \in 0..Len(mix),
           receipt' \in [Update -> ReceiptRow],
           \A u \in Update : receipt'[u].state = "completed" <=> Done(u),
           poller' \in [Pollers -> PollerRow],
           \A m \in Pollers : /\ MayBe(poller'[m])
                              /\ poller'[m].step = "deliver" => poller'[m] = poller[m]
    PROVE  UpdatesInv'
<1> USE DEF UpdatesInv
<1>1. UpdatesShape'
  BY DEF UpdatesShape, Update, PollerRow
<1>2. HandsAreBehind'
  BY DEF HandsAreBehind, MayBe, Update
<1>3. \A u \in Update : Done(u)' <=> Done(u)
  BY DEF Done
<1>4. PassedIsDone' /\ RecordedIsDone' /\ LogInOrder' /\ CommandsRecorded'
  <2>1. PassedIsDone'
    BY <1>3 DEF PassedIsDone, Update
  <2>2. RecordedIsDone'
    BY <1>3 DEF RecordedIsDone, UpdatesShape
  <2>3. LogInOrder' /\ CommandsRecorded'
    BY <1>3 DEF LogInOrder, CommandsRecorded, Update
  <2>. QED
    BY <2>1, <2>2, <2>3
<1>5. AnsweredByOne'
  <2>1. ASSUME NEW m \in Pollers, poller'[m].step = "deliver"
        PROVE  poller'[m] = poller[m] /\ poller[m].step = "deliver" /\ poller[m].at \in Update
    BY <2>1 DEF HandsAreBehind
  <2>. QED
    BY <1>3, <2>1 DEF AnsweredByOne, Update
<1>. QED
  BY <1>1, <1>2, <1>4, <1>5

\* one poller moves, the others stay
LEMMA PollerMoves ==
    ASSUME UpdatesShape, HandsAreBehind, NEW m \in Pollers, NEW row,
           mix' = mix, poller' = [poller EXCEPT ![m] = row], MayBe(row),
           row.step # "deliver"
    PROVE  /\ poller' \in [Pollers -> PollerRow]
           /\ \A n \in Pollers : /\ MayBe(poller'[n])
                                 /\ poller'[n].step = "deliver" => poller'[n] = poller[n]
  BY DEF UpdatesShape, HandsAreBehind, MayBe

\* a poller that has an update in hand goes to another step with it, or rests
LEMMA StepMoves ==
    ASSUME UpdatesShape, HandsAreBehind, NEW m \in Pollers, poller[m].step # "rest",
           NEW s \in {"route", "complete", "deliver", "advance", "sent", "not_sent", "unknown"},
           s \in {"route", "complete"} => mix[poller[m].at] = "button"
    PROVE  /\ MayBe([poller[m] EXCEPT !.step = s]) /\ [poller[m] EXCEPT !.step = s].step = s
           /\ [poller[m] EXCEPT !.step = s].at = poller[m].at
           /\ [poller EXCEPT ![m].step = s] = [poller EXCEPT ![m] = [poller[m] EXCEPT !.step = s]]
  BY DEF UpdatesShape, HandsAreBehind, MayBe, PollerRow

LEMMA AnswerMoves ==
    ASSUME UpdatesShape, HandsAreBehind, NEW m \in Pollers, poller[m].step # "rest",
           NEW s \in {"deliver", "advance", "sent", "not_sent", "unknown"}
    PROVE  /\ MayBe([poller[m] EXCEPT !.step = s]) /\ [poller[m] EXCEPT !.step = s].step = s
           /\ [poller[m] EXCEPT !.step = s].at = poller[m].at
           /\ [poller EXCEPT ![m].step = s] = [poller EXCEPT ![m] = [poller[m] EXCEPT !.step = s]]
<1>1. /\ s \in {"route", "complete", "deliver", "advance", "sent", "not_sent", "unknown"}
      /\ s \notin {"route", "complete"}
  OBVIOUS
<1>. QED
  BY <1>1, StepMoves

LEMMA RestMoves ==
    ASSUME UpdatesShape
    PROVE  MayBe(AtRest) /\ AtRest.step = "rest"
  BY DEF UpdatesShape, MayBe, AtRest, PollerRow

\* a row whose reply is settled, or whose lease ended or changed hands, is as completed as it was
LEMMA RowRewritten ==
    ASSUME UpdatesShape, NEW u \in Update, NEW row \in ReceiptRow,
           row.state = "completed" <=> Done(u)
    PROVE  /\ [receipt EXCEPT ![u] = row] \in [Update -> ReceiptRow]
           /\ \A v \in Update : [receipt EXCEPT ![u] = row][v].state = "completed" <=> Done(v)
  BY DEF UpdatesShape, Done

LEMMA PollKeepsUpdates ==
    ASSUME UpdatesInv, NEW m \in Pollers, PollOnce(m)
    PROVE  UpdatesInv'
<1>1. /\ receipt' \in [Update -> ReceiptRow]
      /\ \A u \in Update : receipt'[u].state = "completed" <=> Done(u)
  <2>1. \A u \in Update : /\ [receipt[u] EXCEPT !.send = "unknown"] \in ReceiptRow
                          /\ [receipt[u] EXCEPT !.send = "unknown"].state = receipt[u].state
    BY DEF UpdatesInv, UpdatesShape, ReceiptRow
  <2>2. receipt' = [u \in Update |-> IF receipt[u].send = "pending"
                                     THEN [receipt[u] EXCEPT !.send = "unknown"] ELSE receipt[u]]
    BY DEF PollOnce, RecoverResponses
  <2>. QED
    BY <2>1, <2>2 DEF UpdatesInv, UpdatesShape, Done
<1> DEFINE row == IF offset <= arrived THEN [step |-> "handle", at |-> offset, last |-> arrived]
                  ELSE AtRest
<1>2. MayBe(row) /\ row.step # "deliver"
  <2>1. CASE offset <= arrived
    BY <2>1 DEF UpdatesInv, UpdatesShape, MayBe, PollerRow, Update
  <2>2. CASE ~(offset <= arrived)
    BY <2>2, RestMoves DEF UpdatesInv
  <2>. QED
    BY <2>1, <2>2
<1>3. /\ poller' = [poller EXCEPT ![m] = row]
      /\ UNCHANGED <<mix, arrived, offset, queued, log, replies>>
  BY DEF PollOnce, outside
<1>4. /\ poller' \in [Pollers -> PollerRow]
      /\ \A n \in Pollers : /\ MayBe(poller'[n])
                            /\ poller'[n].step = "deliver" => poller'[n] = poller[n]
  <2> HIDE DEF row
  <2>. QED
    BY <1>2, <1>3, PollerMoves DEF UpdatesInv
<1>. QED
  BY <1>1, <1>3, <1>4, QuietKeepsUpdates DEF UpdatesInv, UpdatesShape

\* what poller m may do that completes nothing: rest, or go on to a step that does not answer
LEMMA GoesOn ==
    ASSUME UpdatesInv, NEW m \in Pollers, UNCHANGED <<mix, arrived, offset, queued, log, replies>>,
           receipt' \in [Update -> ReceiptRow],
           \A u \in Update : receipt'[u].state = "completed" <=> Done(u),
           \/ GiveUp(m)
           \/ /\ poller[m].step # "rest"
              /\ \E s \in {"route", "complete", "advance", "sent", "not_sent", "unknown"} :
                    /\ Step(m, s)
                    /\ s \in {"route", "complete"} => mix[poller[m].at] = "button"
    PROVE  UpdatesInv'
<1>1. UpdatesShape /\ HandsAreBehind /\ arrived' \in 0..Len(mix)
  BY DEF UpdatesInv, UpdatesShape
<1>2. CASE GiveUp(m)
  BY <1>1, <1>2, RestMoves, PollerMoves, QuietKeepsUpdates DEF GiveUp
<1>3. ASSUME poller[m].step # "rest",
             NEW s \in {"route", "complete", "advance", "sent", "not_sent", "unknown"}, Step(m, s),
             s \in {"route", "complete"} => mix[poller[m].at] = "button"
      PROVE  UpdatesInv'
  <2> DEFINE row == [poller[m] EXCEPT !.step = s]
  <2>1. MayBe(row) /\ row.step # "deliver" /\ poller' = [poller EXCEPT ![m] = row]
    BY <1>1, <1>3, StepMoves DEF Step
  <2> HIDE DEF row
  <2>. QED
    BY <1>1, <2>1, PollerMoves, QuietKeepsUpdates
<1>. QED
  BY <1>2, <1>3

LEMMA ReplayKeepsUpdates ==
    ASSUME UpdatesInv, NEW m \in Pollers, Replay(m)
    PROVE  UpdatesInv'
<1> DEFINE u == poller[m].at
           row == [receipt[u] EXCEPT !.send = IF u >= offset /\ @ = "pending" THEN "unknown" ELSE @]
<1>1. u \in Update /\ poller[m].step # "rest"
  BY DEF UpdatesInv, HandsAreBehind, Replay
<1>2. receipt[u] \in ReceiptRow
  BY <1>1 DEF UpdatesInv, UpdatesShape
<1>3. row \in ReceiptRow /\ row.state = receipt[u].state
  BY <1>2 DEF ReceiptRow
<1>4. receipt' = [receipt EXCEPT ![u] = row]
  BY <1>1 DEF Replay, Hand, UpdatesInv, UpdatesShape
<1>5. /\ receipt' \in [Update -> ReceiptRow]
      /\ \A v \in Update : receipt'[v].state = "completed" <=> Done(v)
  <2>1. row.state = "completed" <=> Done(u)
    BY <1>3 DEF Done
  <2> HIDE DEF u, row
  <2>. QED
    BY <1>1, <1>3, <1>4, <2>1, RowRewritten DEF UpdatesInv
<1>6. UNCHANGED <<mix, arrived, offset, queued, log, replies>> /\ (GiveUp(m) \/ Step(m, "advance"))
  BY DEF Replay, outside
<1>. QED
  BY <1>1, <1>5, <1>6, GoesOn

LEMMA BoundaryKeepsUpdates ==
    ASSUME UpdatesInv, NEW m \in Pollers, HandleBoundary(m)
    PROVE  UpdatesInv'
<1> DEFINE u == poller[m].at
           claimed == [NoReceipt EXCEPT !.state = "claimed", !.owner = m, !.live = TRUE]
<1>1. u \in Update /\ poller[m].step # "rest" /\ ~Done(u) /\ receipt[u] \in ReceiptRow
  BY DEF UpdatesInv, UpdatesShape, HandsAreBehind, HandleBoundary, Acquired, Hand, Done
<1>2. claimed \in ReceiptRow /\ claimed.state # "completed"
  BY DEF NoReceipt, ReceiptRow
<1>3. receipt' = receipt \/ receipt' = [receipt EXCEPT ![u] = claimed]
  BY DEF HandleBoundary, Hand, UpdatesInv, UpdatesShape
<1>4. /\ receipt' \in [Update -> ReceiptRow]
      /\ \A v \in Update : receipt'[v].state = "completed" <=> Done(v)
  <2>1. CASE receipt' = receipt
    BY <2>1 DEF UpdatesInv, UpdatesShape, Done
  <2>2. CASE receipt' = [receipt EXCEPT ![u] = claimed]
    <3> HIDE DEF u, claimed
    <3>. QED
      BY <1>1, <1>2, <2>2, RowRewritten DEF UpdatesInv
  <2>. QED
    BY <1>3, <2>1, <2>2
<1>5. /\ UNCHANGED <<mix, arrived, offset, queued, log, replies>>
      /\ Step(m, "route") /\ mix[u] = "button"
  BY DEF HandleBoundary, outside, Hand
<1>. QED
  BY <1>1, <1>4, <1>5, GoesOn

LEMMA MarkKeepsUpdates ==
    ASSUME UpdatesInv, NEW m \in Pollers, MarkResponse(m)
    PROVE  UpdatesInv'
<1> DEFINE u == poller[m].at
           row == [receipt[u] EXCEPT !.send = poller[m].step]
<1>1. u \in Update /\ poller[m].step # "rest" /\ receipt[u] \in ReceiptRow
  BY DEF UpdatesInv, UpdatesShape, HandsAreBehind, MarkResponse
<1>2. row \in ReceiptRow /\ row.state = receipt[u].state
  BY <1>1 DEF ReceiptRow, MarkResponse
<1>3. receipt' = receipt \/ receipt' = [receipt EXCEPT ![u] = row]
  BY <1>1 DEF MarkResponse, Hand, UpdatesInv, UpdatesShape
<1>4. /\ receipt' \in [Update -> ReceiptRow]
      /\ \A v \in Update : receipt'[v].state = "completed" <=> Done(v)
  <2>1. CASE receipt' = receipt
    BY <2>1 DEF UpdatesInv, UpdatesShape, Done
  <2>2. CASE receipt' = [receipt EXCEPT ![u] = row]
    <3>1. row.state = "completed" <=> Done(u)
      BY <1>2 DEF Done
    <3> HIDE DEF u, row
    <3>. QED
      BY <1>1, <1>2, <2>2, <3>1, RowRewritten DEF UpdatesInv
  <2>. QED
    BY <1>3, <2>1, <2>2
<1>5. UNCHANGED <<mix, arrived, offset, queued, log, replies>> /\ (GiveUp(m) \/ Step(m, "advance"))
  BY DEF MarkResponse, outside
<1>. QED
  BY <1>1, <1>4, <1>5, GoesOn

\* a failure, a restart, and the end of a lease complete nothing
LEMMA FailuresKeepUpdates ==
    ASSUME UpdatesInv,
           \/ SendUpdate
           \/ \E m \in Pollers : PollFails(m) \/ PollerRestarts(m) \/ RouteButton(m)
           \/ \E u \in Update : LeaseEnds(u)
    PROVE  UpdatesInv'
<1>1. /\ receipt \in [Update -> ReceiptRow] /\ \A u \in Update : receipt[u].state = "completed" <=> Done(u)
      /\ poller \in [Pollers -> PollerRow] /\ \A n \in Pollers : MayBe(poller[n])
  BY DEF UpdatesInv, UpdatesShape, HandsAreBehind, MayBe, Done
<1>2. CASE SendUpdate
  <2>1. arrived' \in 0..Len(mix)
    BY <1>2 DEF SendUpdate, UpdatesInv, UpdatesShape
  <2>. QED
    BY <1>1, <1>2, <2>1, QuietKeepsUpdates DEF SendUpdate
<1>3. ASSUME NEW m \in Pollers, PollFails(m) \/ RouteButton(m)
      PROVE  UpdatesInv'
  <2>1. poller[m].step = "route" => mix[poller[m].at] = "button"
    BY DEF UpdatesInv, HandsAreBehind
  <2>. QED
    BY <1>1, <1>3, <2>1, GoesOn DEF PollFails, RouteButton
<1>4. ASSUME NEW m \in Pollers, PollerRestarts(m)
      PROVE  UpdatesInv'
  <2>1. \A u \in Update : /\ [receipt[u] EXCEPT !.owner = "nobody"] \in ReceiptRow
                          /\ [receipt[u] EXCEPT !.owner = "nobody"].state = receipt[u].state
    BY <1>1 DEF ReceiptRow
  <2>2. /\ receipt' \in [Update -> ReceiptRow]
        /\ \A u \in Update : receipt'[u].state = "completed" <=> Done(u)
    BY <1>1, <1>4, <2>1 DEF PollerRestarts
  <2>. QED
    BY <1>4, <2>2, GoesOn DEF PollerRestarts
<1>5. ASSUME NEW u \in Update, LeaseEnds(u)
      PROVE  UpdatesInv'
  <2> DEFINE row == [receipt[u] EXCEPT !.live = FALSE]
  <2>1. receipt[u] \in ReceiptRow
    BY <1>1
  <2>2. row \in ReceiptRow /\ row.state = receipt[u].state
    BY <2>1 DEF ReceiptRow
  <2>3. receipt' = [receipt EXCEPT ![u] = row]
    BY <1>5 DEF LeaseEnds
  <2> HIDE DEF row
  <2>4. UpdatesShape /\ (row.state = "completed" <=> Done(u))
    BY <2>2 DEF UpdatesInv, Done
  <2>5. /\ receipt' \in [Update -> ReceiptRow]
        /\ \A v \in Update : receipt'[v].state = "completed" <=> Done(v)
    BY <2>2, <2>3, <2>4, RowRewritten
  <2>6. arrived' \in 0..Len(mix)
    BY <1>5 DEF LeaseEnds, UpdatesInv, UpdatesShape
  <2>7. UNCHANGED <<mix, offset, queued, log, replies, poller>>
    BY <1>5 DEF LeaseEnds
  <2>. QED
    BY <1>1, <2>5, <2>6, <2>7, QuietKeepsUpdates
<1>. QED
  BY <1>2, <1>3, <1>4, <1>5

\* the update at the offset is completed by poller m, which may answer it; a command is recorded
LEMMA CompletionKeepsUpdates ==
    ASSUME UpdatesInv, NEW m \in Pollers, UNCHANGED <<mix, arrived, offset, log, replies>>,
           ~Done(poller[m].at), poller[m].step # "rest",
           receipt' \in [Update -> ReceiptRow],
           \A v \in Update : receipt'[v].state = "completed" <=> (Done(v) \/ v = poller[m].at),
           \/ mix[poller[m].at] # "command" /\ queued' = queued
           \/ /\ queued' = queued \cup {poller[m].at} /\ poller[m].at = offset,
           Step(m, "deliver") \/ Step(m, "advance")
    PROVE  UpdatesInv'
<1> DEFINE u == poller[m].at
<1>1. /\ UpdatesShape /\ HandsAreBehind /\ u \in Update /\ u <= offset /\ u \in Nat /\ offset \in Nat
      /\ Update' = Update
  BY DEF UpdatesInv, UpdatesShape, HandsAreBehind, Update
<1>2. \A v \in Update : Done(v)' <=> (Done(v) \/ v = u)
  BY DEF Done
<1>3. PICK s \in {"deliver", "advance"} : Step(m, s)
  OBVIOUS
<1>4. /\ poller' = [poller EXCEPT ![m] = [poller[m] EXCEPT !.step = s]]
      /\ MayBe([poller[m] EXCEPT !.step = s]) /\ [poller[m] EXCEPT !.step = s].step = s
      /\ [poller[m] EXCEPT !.step = s].at = u
  <2>1. /\ MayBe([poller[m] EXCEPT !.step = s]) /\ [poller[m] EXCEPT !.step = s].step = s
        /\ [poller[m] EXCEPT !.step = s].at = poller[m].at
        /\ [poller EXCEPT ![m].step = s] = [poller EXCEPT ![m] = [poller[m] EXCEPT !.step = s]]
    <3>1. UpdatesShape /\ HandsAreBehind /\ poller[m].step # "rest"
      BY <1>1
    <3>2. s \in {"deliver", "advance", "sent", "not_sent", "unknown"}
      OBVIOUS
    <3> HIDE DEF u
    <3>. QED
      BY <3>1, <3>2, AnswerMoves
  <2>. QED
    BY <1>3, <2>1 DEF Step
<1>5. /\ poller' \in [Pollers -> PollerRow]
      /\ poller'[m].at = u /\ poller'[m].step = s /\ MayBe(poller'[m])
      /\ \A n \in Pollers \ {m} : poller'[n] = poller[n]
  BY <1>1, <1>4 DEF UpdatesShape, MayBe
<1>6. queued' \subseteq queued \cup {u} /\ (queued' # queued => u = offset)
  OBVIOUS
<1>7. UpdatesShape'
  BY <1>1, <1>5, <1>6 DEF UpdatesShape, PollerRow
<1>8. HandsAreBehind'
  BY <1>1, <1>5 DEF HandsAreBehind, MayBe
<1> HIDE DEF u
<1>9. PassedIsDone'
  BY <1>1, <1>2 DEF UpdatesInv, PassedIsDone
<1>10. RecordedIsDone'
  <2>1. \A v \in queued' : Done(v)' /\ v <= offset
    BY <1>1, <1>2, <1>6 DEF UpdatesInv, RecordedIsDone, UpdatesShape
  <2>2. \A i \in 1..Len(log) : log[i] \in Update
    BY <1>1 DEF UpdatesShape
  <2>3. \A i \in 1..Len(log) : Done(log[i])' /\ log[i] <= offset
    BY <1>2, <2>2 DEF UpdatesInv, RecordedIsDone
  <2>. QED
    BY <2>1, <2>3 DEF RecordedIsDone
<1>11. LogInOrder'
  <2>1. ASSUME NEW i \in 1..Len(log), NEW v \in queued'
        PROVE  log[i] < v
    <3>1. CASE v \in queued
      BY <2>1, <3>1 DEF UpdatesInv, LogInOrder
    <3>2. CASE v \notin queued
      <4>1. v = u /\ u = offset
        BY <1>6, <2>1, <3>2
      <4>2. log[i] \in Update /\ Done(log[i]) /\ log[i] <= offset
        BY <1>1 DEF UpdatesInv, RecordedIsDone, UpdatesShape
      <4>3. log[i] # u /\ log[i] \in Nat
        BY <4>2 DEF u, Update
      <4>. QED
        BY <1>1, <4>1, <4>2, <4>3
    <3>. QED
      BY <3>1, <3>2
  <2>. QED
    BY <2>1 DEF UpdatesInv, LogInOrder
<1>12. CommandsRecorded'
  <2>1. mix[u] = "command" => u \in queued'
    BY DEF u
  <2>2. queued \subseteq queued'
    OBVIOUS
  <2>. QED
    BY <1>1, <1>2, <2>1, <2>2 DEF UpdatesInv, CommandsRecorded
<1>13. AnsweredByOne'
  <2>1. replies[u] = 0
    BY <1>1 DEF UpdatesInv, AnsweredByOne, u
  <2>2. \A n \in Pollers : poller[n].step = "deliver" => poller[n].at # u /\ poller[n].at \in Update
    BY DEF UpdatesInv, AnsweredByOne, HandsAreBehind, u
  <2>3. \A v \in Update : replies[v] <= 1 /\ (~Done(v)' => replies[v] = 0)
    BY <1>2 DEF UpdatesInv, AnsweredByOne
  <2>4. ASSUME NEW n \in Pollers, poller'[n].step = "deliver"
        PROVE  /\ poller'[n].at \in Update /\ Done(poller[n].at)' /\ replies[poller'[n].at] = 0
               /\ \A k \in Pollers : poller'[k].step = "deliver" /\ poller'[k].at = poller'[n].at => k = n
    <3>1. CASE n = m
      BY <1>1, <1>2, <1>5, <2>1, <2>2, <3>1
    <3>2. CASE n # m
      <4>1. poller'[n] = poller[n] /\ poller[n].at \in Update /\ poller[n].at # u
        BY <1>5, <2>2, <2>4, <3>2
      <4>2. Done(poller[n].at) /\ replies[poller[n].at] = 0
        BY <2>4, <4>1 DEF UpdatesInv, AnsweredByOne
      <4>3. Done(poller[n].at)'
        BY <4>1, <4>2 DEF Done
      <4>4. ASSUME NEW k \in Pollers, poller'[k].step = "deliver", poller'[k].at = poller'[n].at
            PROVE  k = n
        <5>1. k # m
          BY <1>5, <4>1, <4>4
        <5>. QED
          BY <1>5, <2>4, <4>1, <4>4, <5>1 DEF UpdatesInv, AnsweredByOne
      <4>. QED
        BY <4>1, <4>2, <4>3, <4>4
    <3>. QED
      BY <3>1, <3>2
  <2>. QED
    BY <1>1, <2>3, <2>4 DEF AnsweredByOne
<1>. QED
  BY <1>7, <1>8, <1>9, <1>10, <1>11, <1>12, <1>13 DEF UpdatesInv

LEMMA TransactionalKeepsUpdates ==
    ASSUME UpdatesInv, NEW m \in Pollers, HandleTransactional(m)
    PROVE  UpdatesInv'
<1> DEFINE u == poller[m].at
<1>1. /\ u \in Update /\ poller[m].step = "handle" /\ ~Done(u) /\ u = offset
      /\ receipt \in [Update -> ReceiptRow]
  BY DEF UpdatesInv, UpdatesShape, HandsAreBehind, HandleTransactional, Acquired, Hand, Done, Update
<1>2. Completed(mix[u]) \in ReceiptRow /\ Completed(mix[u]).state = "completed"
  BY DEF Completed, ReceiptRow
<1>3. receipt' = [receipt EXCEPT ![u] = Completed(mix[u])]
  BY DEF HandleTransactional, Hand
<1>4. /\ receipt' \in [Update -> ReceiptRow]
      /\ \A v \in Update : receipt'[v].state = "completed" <=> (Done(v) \/ v = u)
  BY <1>1, <1>2, <1>3 DEF Done
<1>5. /\ UNCHANGED <<mix, arrived, offset, log, replies>>
      /\ \/ mix[u] # "command" /\ queued' = queued
         \/ queued' = queued \cup {u}
      /\ Step(m, "deliver") \/ Step(m, "advance")
  BY DEF HandleTransactional, Recorded, Hand
<1>. QED
  BY <1>1, <1>4, <1>5, CompletionKeepsUpdates

LEMMA CompleteKeepsUpdates ==
    ASSUME UpdatesInv, NEW m \in Pollers, CompleteUpdate(m)
    PROVE  UpdatesInv'
<1> DEFINE u == poller[m].at
<1>1. /\ u \in Update /\ poller[m].step = "complete" /\ mix[u] = "button"
      /\ receipt \in [Update -> ReceiptRow]
      /\ UNCHANGED <<mix, arrived, offset, queued, log, replies>>
  BY DEF UpdatesInv, UpdatesShape, HandsAreBehind, CompleteUpdate, outside
<1>2. CASE ~ClaimedBy(m, u)
  <2>1. GiveUp(m) /\ receipt' = receipt
    BY <1>2 DEF CompleteUpdate, Hand
  <2>. QED
    BY <1>1, <2>1, GoesOn DEF Done
<1>3. CASE ClaimedBy(m, u)
  <2>1. Completed("button") \in ReceiptRow /\ Completed("button").state = "completed"
    BY DEF Completed, ReceiptRow
  <2>2. receipt' = [receipt EXCEPT ![u] = Completed("button")] /\ Step(m, "deliver") /\ ~Done(u)
    BY <1>3 DEF CompleteUpdate, Hand, ClaimedBy, Done
  <2>3. /\ receipt' \in [Update -> ReceiptRow]
        /\ \A v \in Update : receipt'[v].state = "completed" <=> (Done(v) \/ v = u)
    BY <1>1, <2>1, <2>2 DEF Done
  <2>. QED
    BY <1>1, <2>2, <2>3, CompletionKeepsUpdates
<1>. QED
  BY <1>2, <1>3

LEMMA DeliverKeepsUpdates ==
    ASSUME UpdatesInv, NEW m \in Pollers, DeliverReply(m)
    PROVE  UpdatesInv'
<1> DEFINE u == poller[m].at
<1>1. /\ UpdatesShape /\ HandsAreBehind /\ u \in Update /\ poller[m].step = "deliver"
      /\ Done(u) /\ replies[u] = 0
      /\ UNCHANGED <<mix, arrived, offset, receipt, queued, log>>
  BY DEF UpdatesInv, HandsAreBehind, AnsweredByOne, DeliverReply
<1>2. PICK s \in {"sent", "not_sent", "unknown"} : Step(m, s)
  BY DEF DeliverReply
<1>3. /\ poller' = [poller EXCEPT ![m] = [poller[m] EXCEPT !.step = s]]
      /\ MayBe([poller[m] EXCEPT !.step = s]) /\ [poller[m] EXCEPT !.step = s].step = s
  <2>1. /\ MayBe([poller[m] EXCEPT !.step = s]) /\ [poller[m] EXCEPT !.step = s].step = s
        /\ [poller EXCEPT ![m].step = s] = [poller EXCEPT ![m] = [poller[m] EXCEPT !.step = s]]
    <3>1. UpdatesShape /\ HandsAreBehind /\ poller[m].step # "rest"
      BY <1>1
    <3>2. s \in {"deliver", "advance", "sent", "not_sent", "unknown"}
      OBVIOUS
    <3> HIDE DEF u
    <3>. QED
      BY <3>1, <3>2, AnswerMoves
  <2>. QED
    BY <1>2, <2>1 DEF Step
<1>4. /\ poller' \in [Pollers -> PollerRow]
      /\ poller'[m].step # "deliver" /\ MayBe(poller'[m])
      /\ \A n \in Pollers \ {m} : poller'[n] = poller[n]
  BY <1>1, <1>3 DEF UpdatesShape, MayBe
<1>5. /\ replies' \in [Update -> Nat]
      /\ replies'[u] \in {0, 1}
      /\ \A v \in Update \ {u} : replies'[v] = replies[v]
  <2>1. PICK arrives \in BOOLEAN : replies' = [replies EXCEPT ![u] = IF arrives THEN @ + 1 ELSE @]
    BY DEF DeliverReply, Hand
  <2>. QED
    BY <1>1, <2>1 DEF UpdatesShape
<1>6. \A v \in Update : Done(v)' <=> Done(v)
  BY <1>1 DEF Done
<1>7. UpdatesShape' /\ HandsAreBehind'
  <2>1. UpdatesShape'
    BY <1>1, <1>4, <1>5 DEF UpdatesShape, Update, PollerRow
  <2>2. \A n \in Pollers : MayBe(poller'[n])
    BY <1>1, <1>4 DEF UpdatesShape, HandsAreBehind, MayBe
  <2>3. HandsAreBehind'
    BY <1>1, <2>2 DEF HandsAreBehind, MayBe, Update
  <2>. QED
    BY <2>1, <2>3
<1>8. PassedIsDone' /\ RecordedIsDone' /\ LogInOrder' /\ CommandsRecorded'
  BY <1>1 DEF UpdatesInv, PassedIsDone, RecordedIsDone, LogInOrder, CommandsRecorded, Update, Done
<1>9. AnsweredByOne'
  <2>1. \A v \in Update : replies'[v] <= 1 /\ (~Done(v) => replies'[v] = 0)
    BY <1>1, <1>5 DEF UpdatesInv, AnsweredByOne
  <2>2. ASSUME NEW n \in Pollers, poller'[n].step = "deliver"
        PROVE  /\ poller'[n] = poller[n] /\ n # m /\ poller[n].at \in Update /\ poller[n].at # u
               /\ Done(poller[n].at) /\ replies'[poller[n].at] = 0
    <3>1. n # m /\ poller'[n] = poller[n]
      BY <1>4, <2>2
    <3>2. poller[n].at \in Update /\ poller[n].at # u
      BY <1>1, <2>2, <3>1 DEF HandsAreBehind, UpdatesInv, AnsweredByOne
    <3>. QED
      BY <1>5, <2>2, <3>1, <3>2 DEF UpdatesInv, AnsweredByOne
  <2> HIDE DEF u
  <2>3. ASSUME NEW n \in Pollers, poller'[n].step = "deliver"
        PROVE  /\ Done(poller[n].at)' /\ replies'[poller'[n].at] = 0
               /\ \A k \in Pollers : poller'[k].step = "deliver" /\ poller'[k].at = poller'[n].at => k = n
    BY <1>1, <2>2, <2>3 DEF UpdatesInv, AnsweredByOne, Done
  <2>4. \A v \in Update' : replies'[v] <= 1 /\ (~Done(v)' => replies'[v] = 0)
    BY <1>1, <1>6, <2>1 DEF Update
  <2>. QED
    BY <2>3, <2>4 DEF AnsweredByOne
<1>. QED
  BY <1>7, <1>8, <1>9 DEF UpdatesInv

\* the offset moves past an update that is handled, and by one
LEMMA AdvanceKeepsUpdates ==
    ASSUME UpdatesInv, NEW m \in Pollers, AdvanceOffset(m)
    PROVE  UpdatesInv'
<1> DEFINE u == poller[m].at
<1>1. /\ UpdatesShape /\ HandsAreBehind /\ u \in Update /\ poller[m].step = "advance"
      /\ UNCHANGED <<mix, arrived, receipt, queued, log, replies>>
      /\ \A v \in Update : receipt'[v].state = "completed" <=> Done(v)
  BY DEF UpdatesInv, HandsAreBehind, AdvanceOffset, Done
<1>2. CASE ~(offset = u /\ Done(u))
  <2>1. GiveUp(m) /\ offset' = offset
    BY <1>2 DEF AdvanceOffset, Hand, Done
  <2>. QED
    BY <1>1, <2>1, GoesOn DEF UpdatesShape
<1>3. CASE offset = u /\ Done(u)
  <2> DEFINE row == IF u < poller[m].last THEN [poller[m] EXCEPT !.step = "handle", !.at = u + 1]
                    ELSE AtRest
  <2>1. offset' = u + 1 /\ poller' = [poller EXCEPT ![m] = row] /\ u \in Nat /\ offset \in Nat
    BY <1>1, <1>3 DEF AdvanceOffset, Hand, Done, UpdatesShape, Update
  <2>2. /\ row \in PollerRow /\ row.at <= u + 1 /\ (row.step # "rest" => row.at \in Update)
        /\ row.step \notin {"deliver", "route", "complete"}
    <3>1. poller[m] \in PollerRow /\ Len(mix) \in Nat /\ u \in Nat
      BY <1>1 DEF UpdatesShape, Update
    <3>2. CASE u < poller[m].last
      <4>1. u + 1 \in Update /\ u + 1 \in Nat
        BY <3>1, <3>2 DEF Update, PollerRow
      <4>2. row = [poller[m] EXCEPT !.step = "handle", !.at = u + 1]
        BY <3>2
      <4>3. row \in PollerRow /\ row.at = u + 1 /\ row.step = "handle"
        BY <3>1, <4>1, <4>2 DEF PollerRow
      <4>. QED
        BY <4>1, <4>3
    <3>3. CASE ~(u < poller[m].last)
      BY <3>1, <3>3 DEF AtRest, PollerRow
    <3>. QED
      BY <3>2, <3>3
  <2> HIDE DEF row
  <2>3. /\ poller' \in [Pollers -> PollerRow] /\ poller'[m] = row
        /\ \A n \in Pollers \ {m} : poller'[n] = poller[n]
    BY <1>1, <2>1, <2>2 DEF UpdatesShape
  <2>4. UpdatesShape'
    BY <1>1, <2>1, <2>3 DEF UpdatesShape, Update, PollerRow
  <2>5. HandsAreBehind'
    <3>1. ASSUME NEW n \in Pollers
          PROVE  /\ poller'[n].at <= offset'
                 /\ poller'[n].step # "rest" => poller'[n].at \in Update
                 /\ poller'[n].step \in {"route", "complete"} => mix[poller'[n].at] = "button"
      <4>1. CASE n = m
        BY <2>1, <2>2, <2>3, <4>1
      <4>2. CASE n # m
        <5>1. poller'[n] = poller[n] /\ poller[n].at \in Nat
          BY <1>1, <2>3, <4>2 DEF UpdatesShape, PollerRow
        <5>. QED
          BY <1>1, <1>3, <2>1, <5>1 DEF HandsAreBehind
      <4>. QED
        BY <4>1, <4>2
    <3>. QED
      BY <1>1, <3>1 DEF HandsAreBehind, Update
  <2>6. PassedIsDone'
    <3>1. \A v \in Update : v < offset' => Done(v)
      BY <1>3, <2>1 DEF UpdatesInv, PassedIsDone, Update
    <3>. QED
      BY <1>1, <3>1 DEF PassedIsDone, Update, Done
  <2>7. RecordedIsDone'
    <3>1. \A v \in queued : Done(v) /\ v <= offset'
      BY <1>1, <1>3, <2>1 DEF UpdatesInv, RecordedIsDone, UpdatesShape, Update
    <3>2. \A i \in 1..Len(log) : log[i] \in Nat
      BY <1>1 DEF UpdatesShape, Update
    <3>3. \A i \in 1..Len(log) : Done(log[i]) /\ log[i] <= offset'
      BY <1>3, <2>1, <3>2 DEF UpdatesInv, RecordedIsDone
    <3>. QED
      BY <1>1, <3>1, <3>3 DEF RecordedIsDone, Done
  <2>8. LogInOrder' /\ CommandsRecorded'
    BY <1>1 DEF UpdatesInv, LogInOrder, CommandsRecorded, Update, Done
  <2>9. AnsweredByOne'
    <3>1. ASSUME NEW n \in Pollers, poller'[n].step = "deliver"
          PROVE  poller'[n] = poller[n]
      BY <2>2, <2>3, <3>1
    <3>. QED
      BY <1>1, <3>1 DEF UpdatesInv, AnsweredByOne, Update, Done
  <2>. QED
    BY <2>4, <2>5, <2>6, <2>7, <2>8, <2>9 DEF UpdatesInv
<1>. QED
  BY <1>2, <1>3

\* the oldest recorded command is executed
LEMMA ProcessKeepsUpdates ==
    ASSUME UpdatesInv, NEW u \in Update, ProcessNext(u)
    PROVE  UpdatesInv'
<1>1. /\ UpdatesShape /\ u \in queued /\ (\A v \in queued : u <= v)
      /\ queued' = queued \ {u} /\ log' = Append(log, u)
      /\ UNCHANGED <<mix, arrived, offset, receipt, poller, replies>>
  BY DEF UpdatesInv, ProcessNext, Oldest
<1>2. /\ Len(log') = Len(log) + 1 /\ Len(log) \in Nat
      /\ log'[Len(log) + 1] = u
      /\ \A i \in 1..Len(log) : log'[i] = log[i]
      /\ log' \in Seq(Update)
  BY <1>1 DEF UpdatesShape
<1>3. UpdatesShape'
  BY <1>1, <1>2 DEF UpdatesShape, Update, PollerRow
<1>4. \A v \in Update : v \in Nat
  BY DEF Update
<1>5. \A i \in 1..Len(log') : i \in 1..Len(log) \/ (i = Len(log) + 1 /\ log'[i] = u)
  BY <1>2
<1>6. RecordedIsDone'
  BY <1>1, <1>2, <1>5 DEF UpdatesInv, RecordedIsDone, Done
<1>7. LogInOrder'
  <2>1. ASSUME NEW i \in 1..Len(log'), NEW v \in queued'
        PROVE  log'[i] < v
    BY <1>1, <1>2, <1>4, <1>5 DEF UpdatesInv, LogInOrder, UpdatesShape
  <2>2. ASSUME NEW i \in 1..Len(log'), NEW j \in 1..Len(log'), i < j
        PROVE  log'[i] < log'[j]
    <3>1. i \in 1..Len(log)
      BY <1>2, <2>2
    <3>2. CASE j \in 1..Len(log)
      BY <1>2, <2>2, <3>1, <3>2 DEF UpdatesInv, LogInOrder
    <3>3. CASE j = Len(log) + 1
      BY <1>1, <1>2, <3>1, <3>3 DEF UpdatesInv, LogInOrder
    <3>. QED
      BY <1>5, <3>2, <3>3
  <2>. QED
    BY <2>1, <2>2 DEF LogInOrder
<1>8. CommandsRecorded'
  <2>1. ASSUME NEW v \in Update, Done(v), mix[v] = "command"
        PROVE  v \in queued' \/ \E i \in 1..Len(log') : log'[i] = v
    <3>1. CASE v = u
      BY <1>2, <3>1
    <3>2. CASE \E i \in 1..Len(log) : log[i] = v
      BY <1>2, <3>2
    <3>. QED
      BY <1>1, <2>1, <3>1, <3>2 DEF UpdatesInv, CommandsRecorded
  <2>. QED
    BY <1>1, <2>1 DEF CommandsRecorded, Update, Done
<1>9. HandsAreBehind' /\ PassedIsDone' /\ AnsweredByOne'
  BY <1>1 DEF UpdatesInv, HandsAreBehind, PassedIsDone, AnsweredByOne, Update, Done
<1>. QED
  BY <1>3, <1>6, <1>7, <1>8, <1>9 DEF UpdatesInv

LEMMA UpdatesInvInductive == UpdatesInv /\ [UpdatesNext]_updatesVars => UpdatesInv'
<1> SUFFICES ASSUME UpdatesInv, [UpdatesNext]_updatesVars PROVE UpdatesInv'
  OBVIOUS
<1>1. ASSUME NEW m \in Pollers, PollerStep(m)
      PROVE  UpdatesInv'
  BY <1>1, PollKeepsUpdates, ReplayKeepsUpdates, TransactionalKeepsUpdates, BoundaryKeepsUpdates,
     FailuresKeepUpdates, CompleteKeepsUpdates, DeliverKeepsUpdates, MarkKeepsUpdates,
     AdvanceKeepsUpdates DEF PollerStep
<1>2. CASE UNCHANGED updatesVars
  BY <1>2 DEF updatesVars, UpdatesInv, UpdatesShape, HandsAreBehind, PassedIsDone, RecordedIsDone,
              LogInOrder, CommandsRecorded, AnsweredByOne, Update, Done, PollerRow
<1>. QED
  BY <1>1, <1>2, FailuresKeepUpdates, ProcessKeepsUpdates DEF UpdatesNext

LEMMA UpdatesInvInit == UpdatesInit => UpdatesInv
<1> SUFFICES ASSUME UpdatesInit PROVE UpdatesInv
  OBVIOUS
<1>1. mix \in Seq(UpdateKind) /\ Len(mix) \in Nat
  BY UpdatesConstants DEF UpdatesInit
<1>2. AtRest \in PollerRow /\ NoReceipt \in ReceiptRow
  BY <1>1 DEF AtRest, PollerRow, NoReceipt, ReceiptRow
<1>3. UpdatesShape
  BY <1>1, <1>2 DEF UpdatesInit, UpdatesShape
<1>4. \A u \in Update : ~Done(u) /\ replies[u] = 0 /\ u \in Nat /\ u >= 1
  BY <1>1 DEF UpdatesInit, Done, NoReceipt, Update
<1>5. HandsAreBehind /\ (\A m \in Pollers : poller[m].step = "rest")
  BY DEF UpdatesInit, HandsAreBehind, AtRest
<1>6. PassedIsDone /\ CommandsRecorded /\ AnsweredByOne
  BY <1>4, <1>5 DEF UpdatesInit, PassedIsDone, CommandsRecorded, AnsweredByOne
<1>7. RecordedIsDone /\ LogInOrder
  BY DEF UpdatesInit, RecordedIsDone, LogInOrder
<1>. QED
  BY <1>3, <1>5, <1>6, <1>7 DEF UpdatesInv

\* Fairness plays no part in it, so it holds where the service is one of several too.
LEMMA UpdatesSafely == UpdatesInit /\ [][UpdatesNext]_updatesVars => []CommandsOnceInOrder
<1>1. ASSUME UpdatesInv PROVE CommandsOnceInOrder
  <2>1. DOMAIN log = 1..Len(log)
    BY <1>1 DEF UpdatesInv, UpdatesShape
  <2>. QED
    BY <1>1, <2>1 DEF UpdatesInv, LogInOrder, PassedIsDone, CommandsRecorded, AnsweredByOne,
                      CommandsOnceInOrder, Done
<1>2. UpdatesInv => CommandsOnceInOrder
  BY <1>1
<1>. QED
  BY <1>2, UpdatesInvInit, UpdatesInvInductive, PTL

\* For any number of pollers and any updates: commands are executed once each and in the order they
\* were sent, no update is passed by unhandled, and none is answered twice.
THEOREM UpdatesSpecCommandsOnceInOrder == UpdatesSpec => []CommandsOnceInOrder
BY UpdatesSafely, PTL DEF UpdatesSpec

-----------------------------------------------------------------------------
(***************************************************************************)
(* The updates are a stream of commands: ControlUpdates implements         *)
(* CommandStream, for any pollers and any updates. What a poller does to a *)
(* receipt that completes nothing is invisible; the two transactions that  *)
(* complete one handle the update at the offset, the first that is not     *)
(* handled, since everything before the offset is.                         *)
(***************************************************************************)

\* an update that has no effect has no reply to be sent either
NoiseIsSilent == \A m \in Pollers : poller[m].step = "deliver" => mix[poller[m].at] # "noise"

ReceiptsStand ==
    /\ UNCHANGED <<mix, queued, log>>
    /\ \A u \in Update : receipt'[u].state = "completed" <=> Done(u)

LEMMA StreamRests ==
    ASSUME UpdatesInv, ReceiptsStand, UNCHANGED <<offset, replies>>
    PROVE  UNCHANGED Stream!streamVars
<1>1. {u \in Update : receipt[u].state = "completed"}' = {u \in Update : receipt[u].state = "completed"}
  BY DEF ReceiptsStand, Done, Update
<1>2. {u \in Update : replies[u] > 0}' = {u \in Update : replies[u] > 0}
  BY DEF ReceiptsStand, Update
<1>. QED
  BY <1>1, <1>2 DEF Stream!streamVars, ReceiptsStand

\* the columns of a receipt beside its state
LEMMA ColumnsBeside ==
    ASSUME NEW row \in ReceiptRow
    PROVE  /\ \A s : [row EXCEPT !.send = s].state = row.state
           /\ [row EXCEPT !.owner = "nobody"].state = row.state
           /\ [row EXCEPT !.live = FALSE].state = row.state
  BY DEF ReceiptRow

\* the receipt of one update is written
LEMMA OneReceipt ==
    ASSUME UpdatesInv, NEW u \in Update, NEW row, receipt' = [receipt EXCEPT ![u] = row],
           row.state = "completed" <=> Done(u), UNCHANGED <<mix, queued, log>>
    PROVE  ReceiptsStand
<1>1. receipt'[u] = row /\ \A v \in Update \ {u} : receipt'[v] = receipt[v]
  BY DEF UpdatesInv, UpdatesShape
<1>. QED
  BY <1>1 DEF ReceiptsStand, Done

LEMMA PollStands ==
    ASSUME UpdatesInv, NEW m \in Pollers, PollOnce(m) \/ PollerRestarts(m)
    PROVE  ReceiptsStand /\ UNCHANGED <<offset, replies>>
<1>1. \A u \in Update : receipt[u] \in ReceiptRow
  BY DEF UpdatesInv, UpdatesShape
<1>2. \A u \in Update : /\ [receipt[u] EXCEPT !.send = "unknown"].state = receipt[u].state
                        /\ [receipt[u] EXCEPT !.owner = "nobody"].state = receipt[u].state
  BY <1>1, ColumnsBeside
<1>3. \A u \in Update : receipt'[u] \in {receipt[u], [receipt[u] EXCEPT !.send = "unknown"],
                                         [receipt[u] EXCEPT !.owner = "nobody"]}
  BY DEF PollOnce, RecoverResponses, PollerRestarts
<1>4. \A u \in Update : receipt'[u].state = receipt[u].state
  BY <1>2, <1>3
<1>5. UNCHANGED <<mix, queued, log, offset, replies>>
  BY DEF PollOnce, PollerRestarts, outside
<1>. QED
  BY <1>4, <1>5 DEF ReceiptsStand, Done

LEMMA PollerStands ==
    ASSUME UpdatesInv, NEW m \in Pollers,
           Replay(m) \/ HandleBoundary(m) \/ MarkResponse(m)
    PROVE  ReceiptsStand /\ UNCHANGED <<offset, replies>>
<1> DEFINE u == poller[m].at
<1>1. /\ u \in Update /\ receipt[u] \in ReceiptRow /\ receipt \in [Update -> ReceiptRow]
      /\ UNCHANGED <<mix, queued, log, offset, replies>>
  BY DEF UpdatesInv, UpdatesShape, HandsAreBehind, Replay, HandleBoundary, MarkResponse, outside
<1>2. CASE receipt' = receipt
  BY <1>1, <1>2 DEF ReceiptsStand, Done
<1>3. ASSUME NEW s, receipt' = [receipt EXCEPT ![u].send = s]
      PROVE  ReceiptsStand
  <2> DEFINE row == [receipt[u] EXCEPT !.send = s]
  <2>1. row.state = receipt[u].state
    BY <1>1, ColumnsBeside
  <2>2. receipt' = [receipt EXCEPT ![u] = row]
    BY <1>1, <1>3
  <2> HIDE DEF row
  <2>3. row.state = "completed" <=> Done(u)
    BY <2>1 DEF Done
  <2> HIDE DEF u
  <2>. QED
    BY <1>1, <2>2, <2>3, OneReceipt
<1>4. CASE Replay(m)
  <2> DEFINE s == IF u >= offset /\ receipt[u].send = "pending" THEN "unknown" ELSE receipt[u].send
  <2>1. receipt' = [receipt EXCEPT ![u].send = s]
    BY <1>4 DEF Replay, Hand
  <2>. QED
    BY <1>1, <1>3, <2>1
<1>5. CASE MarkResponse(m)
  <2>1. receipt' = receipt \/ receipt' = [receipt EXCEPT ![u].send = poller[m].step]
    BY <1>5 DEF MarkResponse, Hand
  <2>. QED
    BY <1>1, <1>2, <1>3, <2>1
<1>6. CASE HandleBoundary(m)
  <2> DEFINE row == [NoReceipt EXCEPT !.state = "claimed", !.owner = m, !.live = TRUE]
  <2>1. row.state # "completed" /\ ~Done(u)
    BY <1>6 DEF NoReceipt, HandleBoundary, Acquired, Hand, Done
  <2>2. receipt' = receipt \/ receipt' = [receipt EXCEPT ![u] = row]
    BY <1>1, <1>6 DEF HandleBoundary, Hand
  <2> HIDE DEF row, u
  <2>. QED
    BY <1>1, <1>2, <2>1, <2>2, OneReceipt
<1>. QED
  BY <1>1, <1>4, <1>5, <1>6

LEMMA LeaseStands ==
    ASSUME UpdatesInv, NEW u \in Update, LeaseEnds(u)
    PROVE  ReceiptsStand /\ UNCHANGED <<offset, replies>>
<1> DEFINE row == [receipt[u] EXCEPT !.live = FALSE]
<1>1. receipt[u] \in ReceiptRow /\ receipt' = [receipt EXCEPT ![u] = row]
  BY DEF LeaseEnds, UpdatesInv, UpdatesShape
<1>2. row.state = receipt[u].state
  BY <1>1, ColumnsBeside
<1>3. row.state = "completed" <=> Done(u)
  BY <1>2 DEF Done
<1>4. UNCHANGED <<mix, queued, log, offset, replies>>
  BY DEF LeaseEnds
<1> HIDE DEF row
<1>. QED
  BY <1>1, <1>3, <1>4, OneReceipt

\* a transaction completes the update at the offset, the first that is not handled
LEMMA CompletionHandles ==
    ASSUME UpdatesInv, NEW m \in Pollers,
           HandleTransactional(m) \/ (CompleteUpdate(m) /\ ClaimedBy(m, Hand(m)))
    PROVE  poller[m].at \in Update /\ Stream!Handle(poller[m].at)
<1> DEFINE u == poller[m].at
           kind == IF poller[m].step = "complete" THEN "button" ELSE mix[u]
<1>1. /\ u \in Update /\ ~Done(u) /\ u <= offset /\ receipt \in [Update -> ReceiptRow]
      /\ poller[m].step = "complete" => mix[u] = "button"
      /\ UNCHANGED <<mix, offset, log, replies>>
  BY DEF UpdatesInv, UpdatesShape, HandsAreBehind, HandleTransactional, Acquired, Hand, Done,
         CompleteUpdate, ClaimedBy, outside
<1>2. receipt' = [receipt EXCEPT ![u] = Completed(kind)] /\ Completed(kind).state = "completed"
  BY DEF HandleTransactional, CompleteUpdate, Hand, Completed
<1>3. queued' = IF mix[u] = "command" THEN queued \cup {u} ELSE queued
  BY <1>1 DEF HandleTransactional, CompleteUpdate, Recorded, Hand, outside
<1> HIDE DEF kind
<1>4. \A v \in Update : Done(v)' <=> (Done(v) \/ v = u)
  BY <1>1, <1>2 DEF Done
<1>5. \A v \in Update : v < u => Done(v)
  <2>1. offset \in Nat /\ \A v \in Update : v \in Nat
    BY DEF UpdatesInv, UpdatesShape, Update
  <2>. QED
    BY <1>1, <2>1 DEF UpdatesInv, PassedIsDone
<1> HIDE DEF u
<1>6. Stream!Earlier(u) \subseteq {v \in Update : receipt[v].state = "completed"}
  BY <1>1, <1>5 DEF Stream!Earlier, Update, Done
<1>7. {v \in Update : receipt[v].state = "completed"}'
        = {v \in Update : receipt[v].state = "completed"} \cup {u}
  BY <1>1, <1>4 DEF Done, Update
<1>8. {v \in Update : replies[v] > 0}' = {v \in Update : replies[v] > 0}
  BY <1>1 DEF Update
<1>9. Stream!Handle(u)
  BY <1>1, <1>3, <1>6, <1>7, <1>8 DEF Stream!Handle, Done
<1>. QED
  BY <1>1, <1>9 DEF u

\* a poller that does not come to answer noise
LEMMA SilenceMoves ==
    ASSUME UpdatesInv, NoiseIsSilent, NEW m \in Pollers, mix' = mix,
           \/ GiveUp(m)
           \/ \E s : Step(m, s) /\ (s = "deliver" => mix[poller[m].at] # "noise")
           \/ \E row : poller' = [poller EXCEPT ![m] = row] /\ row.step # "deliver"
    PROVE  NoiseIsSilent'
<1>1. poller \in [Pollers -> PollerRow] /\ poller[m] \in PollerRow
  BY DEF UpdatesInv, UpdatesShape
<1>2. \A n \in Pollers \ {m} : poller'[n] = poller[n]
  BY <1>1 DEF GiveUp, Step
<1>3. poller'[m].step = "deliver" => mix[poller'[m].at] # "noise"
  <2>1. CASE GiveUp(m)
    BY <1>1, <2>1 DEF GiveUp, AtRest
  <2>2. ASSUME NEW s, Step(m, s), s = "deliver" => mix[poller[m].at] # "noise"
        PROVE  poller'[m].step = "deliver" => mix[poller'[m].at] # "noise"
    <3>1. poller'[m] = [poller[m] EXCEPT !.step = s]
      BY <1>1, <2>2 DEF Step
    <3>2. poller'[m].step = s /\ poller'[m].at = poller[m].at
      BY <1>1, <3>1 DEF PollerRow
    <3>. QED
      BY <2>2, <3>2
  <2>3. ASSUME NEW row, poller' = [poller EXCEPT ![m] = row], row.step # "deliver"
        PROVE  poller'[m].step = "deliver" => mix[poller'[m].at] # "noise"
    BY <1>1, <2>3
  <2>. QED
    BY <2>1, <2>2, <2>3
<1>. QED
  BY <1>2, <1>3 DEF NoiseIsSilent

LEMMA SilenceKept ==
    ASSUME UpdatesInv, NoiseIsSilent, [UpdatesNext]_updatesVars
    PROVE  NoiseIsSilent'
<1>1. ASSUME NEW m \in Pollers, PollOnce(m)
      PROVE  NoiseIsSilent'
  <2> DEFINE row == IF offset <= arrived THEN [step |-> "handle", at |-> offset, last |-> arrived]
                    ELSE AtRest
  <2>1. mix' = mix /\ poller' = [poller EXCEPT ![m] = row]
    BY <1>1 DEF PollOnce, outside
  <2>2. row.step # "deliver"
    BY DEF AtRest
  <2> HIDE DEF row
  <2>. QED
    BY <2>1, <2>2, SilenceMoves
<1>2. ASSUME NEW m \in Pollers, AdvanceOffset(m)
      PROVE  NoiseIsSilent'
  <2> DEFINE u == poller[m].at
             row == IF u < poller[m].last THEN [poller[m] EXCEPT !.step = "handle", !.at = u + 1]
                    ELSE AtRest
  <2>1. mix' = mix /\ (GiveUp(m) \/ poller' = [poller EXCEPT ![m] = row])
    BY <1>2 DEF AdvanceOffset, Hand
  <2>2. row.step # "deliver"
    <3>1. poller[m] \in PollerRow
      BY DEF UpdatesInv, UpdatesShape
    <3>. QED
      BY <3>1 DEF AtRest, PollerRow
  <2> HIDE DEF row
  <2>. QED
    BY <2>1, <2>2, SilenceMoves
<1>3. ASSUME NEW m \in Pollers, Replay(m) \/ HandleBoundary(m) \/ RouteButton(m) \/ MarkResponse(m)
      PROVE  NoiseIsSilent'
  <2>1. mix' = mix /\ (GiveUp(m) \/ \E s \in {"advance", "route", "complete"} : Step(m, s))
    BY <1>3 DEF Replay, HandleBoundary, RouteButton, MarkResponse, outside
  <2>. QED
    BY <2>1, SilenceMoves
<1>4. ASSUME NEW m \in Pollers, HandleTransactional(m)
      PROVE  NoiseIsSilent'
  <2>1. mix' = mix /\ Step(m, IF mix[poller[m].at] = "noise" THEN "advance" ELSE "deliver")
    BY <1>4 DEF HandleTransactional, Hand
  <2>. QED
    BY <2>1, SilenceMoves
<1>5. ASSUME NEW m \in Pollers, CompleteUpdate(m)
      PROVE  NoiseIsSilent'
  <2>1. mix[poller[m].at] # "noise"
    BY <1>5 DEF CompleteUpdate, UpdatesInv, HandsAreBehind
  <2>2. mix' = mix /\ (GiveUp(m) \/ Step(m, "deliver"))
    BY <1>5 DEF CompleteUpdate, outside
  <2>. QED
    BY <2>1, <2>2, SilenceMoves
<1>6. ASSUME NEW m \in Pollers, DeliverReply(m)
      PROVE  NoiseIsSilent'
  <2>1. mix' = mix /\ \E s \in {"sent", "not_sent", "unknown"} : Step(m, s)
    BY <1>6 DEF DeliverReply
  <2>. QED
    BY <2>1, SilenceMoves
<1>7. ASSUME NEW m \in Pollers, PollFails(m) \/ PollerRestarts(m)
      PROVE  NoiseIsSilent'
  BY <1>7, SilenceMoves DEF PollFails, PollerRestarts
<1>8. ASSUME UNCHANGED <<mix, poller>>
      PROVE  NoiseIsSilent'
  BY <1>8 DEF NoiseIsSilent
<1>9. ASSUME \/ SendUpdate \/ UNCHANGED updatesVars
             \/ \E u \in Update : LeaseEnds(u) \/ ProcessNext(u)
      PROVE  UNCHANGED <<mix, poller>>
  BY <1>9 DEF SendUpdate, LeaseEnds, ProcessNext, updatesVars
<1>. QED
  BY <1>1, <1>2, <1>3, <1>4, <1>5, <1>6, <1>7, <1>8, <1>9 DEF UpdatesNext, PollerStep

\* a reply that arrives is the first one of its update
LEMMA DeliveryAnswers ==
    ASSUME UpdatesInv, NoiseIsSilent, NEW m \in Pollers, DeliverReply(m)
    PROVE  poller[m].at \in Update /\ [Stream!Answer(poller[m].at)]_(Stream!streamVars)
<1> DEFINE u == poller[m].at
<1>1. /\ u \in Update /\ Done(u) /\ replies[u] = 0 /\ replies \in [Update -> Nat]
      /\ mix[u] # "noise"
      /\ UNCHANGED <<mix, offset, receipt, queued, log>>
  BY DEF UpdatesInv, UpdatesShape, HandsAreBehind, AnsweredByOne, NoiseIsSilent, DeliverReply
<1>2. PICK arrives \in BOOLEAN : replies' = [replies EXCEPT ![u] = IF arrives THEN @ + 1 ELSE @]
  BY DEF DeliverReply, Hand
<1> HIDE DEF u
<1>3. {v \in Update : receipt[v].state = "completed"}' = {v \in Update : receipt[v].state = "completed"}
  BY <1>1 DEF Update
<1>4. CASE ~arrives
  <2>1. replies' = replies
    BY <1>1, <1>2, <1>4
  <2>2. {v \in Update : replies[v] > 0}' = {v \in Update : replies[v] > 0}
    BY <1>1, <2>1 DEF Update
  <2>. QED
    BY <1>1, <1>3, <2>2 DEF Stream!streamVars, u
<1>5. CASE arrives
  <2>1. replies'[u] = 1 /\ \A v \in Update \ {u} : replies'[v] = replies[v]
    BY <1>1, <1>2, <1>5
  <2>2. {v \in Update : replies[v] > 0}' = {v \in Update : replies[v] > 0} \cup {u}
    BY <1>1, <2>1 DEF Update
  <2>3. Stream!Answer(u)
    BY <1>1, <1>3, <2>2 DEF Stream!Answer, Done
  <2>. QED
    BY <1>1, <2>3 DEF u
<1>. QED
  BY <1>4, <1>5

\* the offset moves by one, past an update that is handled
LEMMA AdvancePasses ==
    ASSUME UpdatesInv, NEW m \in Pollers, AdvanceOffset(m)
    PROVE  poller[m].at \in Update /\ [Stream!Pass(poller[m].at)]_(Stream!streamVars)
<1> DEFINE u == poller[m].at
<1>1. /\ u \in Update /\ offset \in Nat \ {0}
      /\ UNCHANGED <<mix, receipt, queued, log, replies>>
  BY DEF UpdatesInv, UpdatesShape, HandsAreBehind, AdvanceOffset
<1>2. \/ offset' = offset
      \/ offset = u /\ Done(u) /\ offset' = u + 1
  BY DEF AdvanceOffset, Hand, Done
<1> HIDE DEF u
<1>3. /\ {v \in Update : receipt[v].state = "completed"}'
           = {v \in Update : receipt[v].state = "completed"}
      /\ {v \in Update : replies[v] > 0}' = {v \in Update : replies[v] > 0}
  BY <1>1 DEF Update
<1>4. CASE offset' = offset
  BY <1>1, <1>3, <1>4 DEF Stream!streamVars, u
<1>5. CASE offset = u /\ Done(u) /\ offset' = u + 1
  <2>1. u = (offset - 1) + 1 /\ offset' - 1 = u
    BY <1>1, <1>5
  <2>2. Stream!Pass(u)
    BY <1>1, <1>3, <1>5, <2>1 DEF Stream!Pass, Done
  <2>. QED
    BY <1>1, <2>2 DEF u
<1>. QED
  BY <1>2, <1>4, <1>5

LEMMA ProcessExecutes ==
    ASSUME UpdatesInv, NEW u \in Update, ProcessNext(u)
    PROVE  Stream!Execute(u)
<1>1. /\ u \in queued /\ (\A v \in queued : u <= v) /\ queued \subseteq Update
      /\ queued' = queued \ {u} /\ log' = Append(log, u)
      /\ UNCHANGED <<mix, offset, receipt, replies>>
  BY DEF UpdatesInv, UpdatesShape, ProcessNext, Oldest
<1>2. Stream!Earlier(u) \cap queued = {}
  BY <1>1 DEF Stream!Earlier, Update
<1>3. /\ {v \in Update : receipt[v].state = "completed"}'
           = {v \in Update : receipt[v].state = "completed"}
      /\ {v \in Update : replies[v] > 0}' = {v \in Update : replies[v] > 0}
  BY <1>1 DEF Update
<1>. QED
  BY <1>1, <1>2, <1>3 DEF Stream!Execute

LEMMA StreamStep ==
    ASSUME UpdatesInv, NoiseIsSilent, [UpdatesNext]_updatesVars
    PROVE  [Stream!StreamNext]_(Stream!streamVars)
<1>2. ASSUME ReceiptsStand, UNCHANGED <<offset, replies>>
      PROVE  UNCHANGED Stream!streamVars
  BY <1>2, StreamRests
<1>3. ASSUME NEW m \in Pollers, PollerStep(m)
      PROVE  [Stream!StreamNext]_(Stream!streamVars)
  <2>1. CASE PollOnce(m) \/ Replay(m) \/ HandleBoundary(m) \/ MarkResponse(m)
    <3>1. ReceiptsStand /\ UNCHANGED <<offset, replies>>
      BY <2>1, PollStands, PollerStands
    <3>2. UNCHANGED Stream!streamVars
      BY <1>2, <3>1
    <3>. QED
      BY <3>2
  <2>2. CASE RouteButton(m)
    <3>1. ReceiptsStand /\ UNCHANGED <<offset, replies>>
      BY <2>2 DEF RouteButton, ReceiptsStand, Done
    <3>2. UNCHANGED Stream!streamVars
      BY <1>2, <3>1
    <3>. QED
      BY <3>2
  <2>3. CASE HandleTransactional(m)
    <3>1. poller[m].at \in Update /\ Stream!Handle(poller[m].at)
      BY <2>3, CompletionHandles
    <3>2. Stream!StreamNext
      BY <3>1 DEF Stream!StreamNext, Stream!Handle, Update
    <3>. QED
      BY <3>2
  <2>4. CASE CompleteUpdate(m)
    <3>1. CASE ClaimedBy(m, Hand(m))
      <4>1. poller[m].at \in Update /\ Stream!Handle(poller[m].at)
        BY <2>4, <3>1, CompletionHandles
      <4>2. Stream!StreamNext
        BY <4>1 DEF Stream!StreamNext, Stream!Handle, Update
      <4>. QED
        BY <4>2
    <3>2. CASE ~ClaimedBy(m, Hand(m))
      <4>1. ReceiptsStand /\ UNCHANGED <<offset, replies>>
        BY <2>4, <3>2 DEF CompleteUpdate, ReceiptsStand, Done, outside
      <4>. QED
        BY <1>2, <4>1
    <3>. QED
      BY <3>1, <3>2
  <2>5. CASE DeliverReply(m)
    <3>1. poller[m].at \in Update /\ [Stream!Answer(poller[m].at)]_(Stream!streamVars)
      BY <2>5, DeliveryAnswers
    <3>2. CASE UNCHANGED Stream!streamVars
      BY <3>2
    <3>3. CASE Stream!Answer(poller[m].at)
      <4>1. Stream!StreamNext
        BY <3>1, <3>3 DEF Stream!StreamNext, Stream!Answer, Update
      <4>. QED
        BY <4>1
    <3>. QED
      BY <3>1, <3>2, <3>3
  <2>6. CASE AdvanceOffset(m)
    <3>1. poller[m].at \in Update /\ [Stream!Pass(poller[m].at)]_(Stream!streamVars)
      BY <2>6, AdvancePasses
    <3>2. CASE UNCHANGED Stream!streamVars
      BY <3>2
    <3>3. CASE Stream!Pass(poller[m].at)
      <4>1. Stream!StreamNext
        BY <3>1, <3>3 DEF Stream!StreamNext, Stream!Pass, Update
      <4>. QED
        BY <4>1
    <3>. QED
      BY <3>1, <3>2, <3>3
  <2>. QED
    BY <1>3, <2>1, <2>2, <2>3, <2>4, <2>5, <2>6 DEF PollerStep
<1>4. ASSUME NEW m \in Pollers, PollFails(m) \/ PollerRestarts(m)
      PROVE  UNCHANGED Stream!streamVars
  <2>1. CASE PollFails(m)
    BY <1>2, <2>1 DEF PollFails, ReceiptsStand, Done
  <2>2. CASE PollerRestarts(m)
    BY <1>2, <2>2, PollStands
  <2>. QED
    BY <1>4, <2>1, <2>2
<1>5. ASSUME NEW u \in Update, LeaseEnds(u)
      PROVE  UNCHANGED Stream!streamVars
  BY <1>2, <1>5, LeaseStands
<1>6. ASSUME NEW u \in Update, ProcessNext(u)
      PROVE  Stream!StreamNext
  BY <1>6, ProcessExecutes DEF Stream!StreamNext, Update
<1>7. ASSUME SendUpdate \/ UNCHANGED updatesVars
      PROVE  UNCHANGED Stream!streamVars
  <2>1. ReceiptsStand /\ UNCHANGED <<offset, replies>>
    BY <1>7 DEF SendUpdate, updatesVars, ReceiptsStand, Done
  <2>. QED
    BY <1>2, <2>1
<1>. QED
  BY <1>3, <1>4, <1>5, <1>6, <1>7 DEF UpdatesNext

LEMMA StreamBegins == UpdatesInit => Stream!StreamInit /\ NoiseIsSilent
<1> SUFFICES ASSUME UpdatesInit PROVE Stream!StreamInit /\ NoiseIsSilent
  OBVIOUS
<1>1. mix \in Seq({"command", "button", "noise"})
  BY UpdatesConstants DEF UpdatesInit, UpdateKind
<1>2. \A u \in Update : receipt[u].state = "none" /\ replies[u] = 0
  BY DEF UpdatesInit, NoReceipt
<1>3. {u \in Update : receipt[u].state = "completed"} = {} /\ {u \in Update : replies[u] > 0} = {}
  BY <1>2
<1>4. NoiseIsSilent
  BY DEF UpdatesInit, NoiseIsSilent, AtRest
<1>. QED
  BY <1>1, <1>3, <1>4 DEF Stream!StreamInit, UpdatesInit

LEMMA StreamSafely == UpdatesInit /\ [][UpdatesNext]_updatesVars => KeepsStream
<1> DEFINE Inv == UpdatesInv /\ NoiseIsSilent
<1>1. UpdatesInit => Inv /\ Stream!StreamInit
  BY UpdatesInvInit, StreamBegins
<1>2. Inv /\ [UpdatesNext]_updatesVars => Inv' /\ [Stream!StreamNext]_(Stream!streamVars)
  BY UpdatesInvInductive, SilenceKept, StreamStep
<1> HIDE DEF Inv
<1>. QED
  BY <1>1, <1>2, PTL DEF KeepsStream, Stream!StreamSpec

\* Whatever pollers do beside each other, fail and restart, for any updates: they are handled in the
\* order sent, once each, none is passed before, none is answered twice and noise never; the
\* commands are executed once each in that order.
THEOREM UpdatesSpecKeepsStream == UpdatesSpec => KeepsStream
BY StreamSafely, PTL DEF UpdatesSpec

-----------------------------------------------------------------------------
(***************************************************************************)
(* No run can be started without a key that is there, for any number of    *)
(* profiles, administrators and runs. An activation only looks whether the *)
(* profile has a key, not whether the key is alive; so the invariant adds  *)
(* that a key a profile has is alive, whatever its state.                  *)
(***************************************************************************)

USE KeysConstants

\* the fields of a profile that matter, without their bounds
ProfileFields == [version : Nat, state : {"disabled", "active"}, config : Nat,
                  key : Nat, latest : Nat, keyVersion : Nat]
ProfileShape == [Profiles -> ProfileFields]

KeyIsLive == \A p \in Profiles : profile[p].key # 0 => profile[p].key \in liveKeys[p]

ActiveHasKey == \A p \in Profiles : profile[p].state = "active" => profile[p].key # 0

\* drafts and links name a profile
SessionsName ==
    /\ draft \in [Admins -> [profile : Profiles, stage : {"editing", "validated"},
                             expects : Nat] \cup {NoDraft}]
    /\ link \in [Admins -> [profile : Profiles, expects : Nat] \cup {NoLink}]

KeysInv ==
    /\ profile \in ProfileShape
    /\ liveKeys \in [Profiles -> SUBSET Nat]
    /\ SessionsName
    /\ KeyIsLive
    /\ ActiveHasKey

\* sessions come and go and leave the profiles alone
LEMMA SessionsKeepInv ==
    ASSUME KeysInv, SessionsName', UNCHANGED <<profile, liveKeys>>
    PROVE  KeysInv'
  BY DEF KeysInv, KeyIsLive, ActiveHasKey

LEMMA ActivateKeepsInv ==
    ASSUME KeysInv, NEW a \in Admins, NEW s \in {"active", "disabled"}, ActivateDraft(a, s)
    PROVE  KeysInv'
<1>. DEFINE p == draft[a].profile
<1>1. p \in Profiles
  BY DEF KeysInv, SessionsName, ActivateDraft, NoDraft
<1>2. /\ profile[p].key # 0
      /\ profile' = [profile EXCEPT ![p].state = s, ![p].config = @ + 1, ![p].version = @ + 1]
      /\ draft' = [draft EXCEPT ![a] = NoDraft]
      /\ UNCHANGED <<liveKeys, link>>
  BY DEF ActivateDraft
<1>. HIDE DEF p
<1>3. /\ profile' \in ProfileShape
      /\ \A q \in Profiles : profile'[q].key = profile[q].key
      /\ \A q \in Profiles \ {p} : profile'[q].state = profile[q].state
  BY <1>1, <1>2 DEF KeysInv, ProfileShape, ProfileFields
<1>4. SessionsName'
  BY <1>2 DEF KeysInv, SessionsName
<1>. QED
  BY <1>2, <1>3, <1>4 DEF KeysInv, KeyIsLive, ActiveHasKey

\* a link is used up, for a profile that is there
LEMMA LaunchNames ==
    ASSUME KeysInv, NEW a \in Admins, ClaimKeyLaunch(a), UNCHANGED draft
    PROVE  link[a].profile \in Profiles /\ SessionsName'
<1>1. link[a] \in [profile : Profiles, expects : Nat]
  BY DEF KeysInv, SessionsName, ClaimKeyLaunch
<1>. QED
  BY <1>1 DEF KeysInv, SessionsName, ClaimKeyLaunch

LEMMA SetKeyKeepsInv ==
    ASSUME KeysInv, NEW a \in Admins, SetKey(a)
    PROVE  KeysInv'
<1>. DEFINE p == link[a].profile
            new == profile[p].latest + 1
<1>1. p \in Profiles /\ SessionsName'
  BY LaunchNames DEF SetKey
<1>2. /\ profile' = [profile EXCEPT ![p].key = new, ![p].latest = new, ![p].keyVersion = @ + 1]
      /\ liveKeys' = [liveKeys EXCEPT ![p] = @ \cup {new}]
  BY DEF SetKey
<1>3. new \in Nat \ {0}
  BY <1>1 DEF KeysInv, ProfileShape, ProfileFields
<1>. HIDE DEF p, new
<1>4. /\ profile' \in ProfileShape
      /\ profile'[p].key = new
      /\ \A q \in Profiles \ {p} : profile'[q] = profile[q]
  BY <1>1, <1>2, <1>3 DEF KeysInv, ProfileShape, ProfileFields
<1>5. /\ liveKeys' \in [Profiles -> SUBSET Nat]
      /\ new \in liveKeys'[p]
      /\ \A q \in Profiles \ {p} : liveKeys'[q] = liveKeys[q]
  BY <1>1, <1>2, <1>3 DEF KeysInv
<1>. QED
  BY <1>1, <1>3, <1>4, <1>5 DEF KeysInv, KeyIsLive, ActiveHasKey

LEMMA WithoutKeyShape ==
    ASSUME NEW row \in ProfileFields
    PROVE  /\ WithoutKey(row) \in ProfileFields
           /\ WithoutKey(row).key = 0 /\ WithoutKey(row).state = "disabled"
<1>. DEFINE version == IF row.state = "active" THEN row.version + 1 ELSE row.version
<1>1. version \in Nat /\ row.keyVersion + 1 \in Nat
  BY DEF ProfileFields
<1>2. WithoutKey(row) = [row EXCEPT !.key = 0, !.keyVersion = row.keyVersion + 1,
                                    !.state = "disabled", !.version = version]
  BY DEF WithoutKey
<1>3. row = [version |-> row.version, state |-> row.state, config |-> row.config,
             key |-> row.key, latest |-> row.latest, keyVersion |-> row.keyVersion]
  BY DEF ProfileFields
<1>. HIDE DEF version
<1>4. WithoutKey(row) = [version |-> version, state |-> "disabled", config |-> row.config,
                         key |-> 0, latest |-> row.latest, keyVersion |-> row.keyVersion + 1]
  BY <1>2, <1>3
<1>5. row.config \in Nat /\ row.latest \in Nat
  BY DEF ProfileFields
<1>. QED
  BY <1>1, <1>4, <1>5 DEF ProfileFields

LEMMA DeleteKeyKeepsInv ==
    ASSUME KeysInv, NEW a \in Admins, DeleteKey(a)
    PROVE  KeysInv'
<1>. DEFINE p == link[a].profile
<1>1. p \in Profiles /\ SessionsName'
  BY LaunchNames DEF DeleteKey
<1>2. /\ profile' = [profile EXCEPT ![p] = WithoutKey(@)]
      /\ liveKeys' = [liveKeys EXCEPT ![p] = {}]
  BY DEF DeleteKey
<1>. HIDE DEF p
<1>3. /\ profile' \in ProfileShape
      /\ profile'[p].key = 0 /\ profile'[p].state = "disabled"
      /\ \A q \in Profiles \ {p} : profile'[q] = profile[q]
  <2>. DEFINE without == WithoutKey(profile[p])
  <2>1. without \in ProfileFields /\ without.key = 0 /\ without.state = "disabled"
    BY <1>1, WithoutKeyShape DEF KeysInv, ProfileShape
  <2>2. profile' = [profile EXCEPT ![p] = without]
    BY <1>2
  <2>. HIDE DEF without
  <2>. QED
    BY <1>1, <2>1, <2>2 DEF KeysInv, ProfileShape
<1>4. /\ liveKeys' \in [Profiles -> SUBSET Nat]
      /\ \A q \in Profiles \ {p} : liveKeys'[q] = liveKeys[q]
  BY <1>1, <1>2 DEF KeysInv
<1>. QED
  BY <1>1, <1>3, <1>4 DEF KeysInv, KeyIsLive, ActiveHasKey

LEMMA KeysInvInductive ==
    ASSUME KeysInv, [KeysNext]_keysVars
    PROVE  KeysInv'
<1>1. ASSUME NEW a \in Admins, NEW p \in Profiles,
             StartControlSession(a, p) \/ CreateKeyLaunch(a, p)
      PROVE  KeysInv'
  <2>1. profile[p].version \in Nat /\ profile[p].keyVersion \in Nat
    BY DEF KeysInv, ProfileShape, ProfileFields
  <2>2. SessionsName'
    BY <1>1, <2>1 DEF KeysInv, SessionsName, StartControlSession, CreateKeyLaunch
  <2>. QED
    BY <1>1, <2>2, SessionsKeepInv DEF StartControlSession, CreateKeyLaunch
<1>2. ASSUME NEW a \in Admins, ValidateDraft(a) \/ DropDraft(a)
      PROVE  KeysInv'
  <2>1. SessionsName'
    BY <1>2 DEF KeysInv, SessionsName, ValidateDraft, DropDraft, NoDraft
  <2>. QED
    BY <1>2, <2>1, SessionsKeepInv DEF ValidateDraft, DropDraft
<1>3. CASE UNCHANGED <<profile, liveKeys, draft, link>>
  BY <1>3, SessionsKeepInv DEF KeysInv, SessionsName
<1>4. CASE \/ \E i \in DOMAIN mbox : PublishMarker(i)
           \/ \E t \in Topic : ObserveMarker(t)
           \/ LoseMarkers \/ Compensate \/ AppRestarts
           \/ \E r \in ModelRuns : \/ \E p \in Profiles : StartModelRun(r, p)
                                   \/ ReadRequest(r) \/ KeepRequest(r)
           \/ UNCHANGED keysVars
  BY <1>3, <1>4 DEF PublishMarker, ObserveMarker, LoseMarkers, Compensate, AppRestarts,
                    StartModelRun, ReadRequest, KeepRequest, adminVars, keysVars
<1>. QED
  BY <1>1, <1>2, <1>4, ActivateKeepsInv, SetKeyKeepsInv, DeleteKeyKeepsInv DEF KeysNext

\* Fairness plays no part in it, so it holds where the service is one of several too.
LEMMA KeysSafely == KeysInit /\ [][KeysNext]_keysVars => []ActiveProfileHasKey
<1>1. KeysInit => KeysInv
  BY DEF KeysInit, KeysInv, ProfileShape, ProfileFields, NewProfile, SessionsName, KeyIsLive, ActiveHasKey
<1>2. KeysInv /\ [KeysNext]_keysVars => KeysInv'
  BY KeysInvInductive
<1>3. KeysInv => ActiveProfileHasKey
  BY DEF KeysInv, KeyIsLive, ActiveHasKey, ActiveProfileHasKey
<1>. QED
  BY <1>1, <1>2, <1>3, PTL

\* A profile a run can be started with has a key that is not destroyed (model_repository.py
\* `activate_draft`, `delete_credential`), however activations, key changes and deletions of several
\* administrators cross.
THEOREM KeysSpecActiveProfileHasKey == KeysSpec => []ActiveProfileHasKey
BY KeysSafely, PTL DEF KeysSpec

-----------------------------------------------------------------------------
(***************************************************************************)
(* One process uses the Session file at a time, for any number of          *)
(* processes. The lock alone does not say so: it is given back by other    *)
(* steps than those that end the use of the file. OwnerInv adds what       *)
(* connects them: whoever uses the file, or is about to, has the lock or   *)
(* has lost it unasked, and whoever is about to give it back has no client *)
(* left.                                                                   *)
(***************************************************************************)

USE OwnerConstants

HasTheLock(p) == lockHolder = p \/ lockLost[p]

\* the start that may go on to connect has the lock
StartHasLock == \A p \in Apps : appStage[p] \in {"locked", "connecting"} => HasTheLock(p)

\* a client that may use the Session file has the lock
ClientHasLock == \A p \in Apps : session[p] # "none" => HasTheLock(p)

\* the lock is given back by a process without a client
NoClientAtRelease == \A p \in Apps : appStage[p] \in {"unwound", "cleared"} => session[p] = "none"

OwnerInv == OwnerTypeOK /\ StartHasLock /\ ClientHasLock /\ NoClientAtRelease

\* a disconnect leaves no client, or the one there was
LEMMA DisconnectEndsClient ==
    ASSUME OwnerTypeOK, NEW p \in Apps, NEW ok \in BOOLEAN, Disconnect(p, ok)
    PROVE  /\ session' \in [Apps -> SessionState]
           /\ \A q \in Apps : session'[q] # "none" => session[q] # "none"
           /\ \A q \in Apps : session[q] = "none" => session'[q] = "none"
           /\ ok => session'[p] = "none"
           /\ sessionMishaps' \in 0..MaxSessionMishaps
  BY DEF OwnerTypeOK, Disconnect, SessionMishap, SessionState

\* the end of a process takes everything with it and touches no other process
LEMMA GoneKeepsInv ==
    ASSUME NEW p \in Apps, OwnerInv, Gone(p)
    PROVE  OwnerInv'
<1>1. OwnerTypeOK'
  BY DEF OwnerInv, OwnerTypeOK, Gone, Unlock, AppStages, DrainStep, SessionState
<1>2. \A q \in Apps \ {p} : /\ appStage'[q] = appStage[q] /\ session'[q] = session[q]
                            /\ lockLost'[q] = lockLost[q]
                            /\ lockHolder = q => lockHolder' = q
  BY DEF OwnerInv, OwnerTypeOK, Gone, Unlock
<1>3. appStage'[p] = "down" /\ session'[p] = "none"
  BY DEF OwnerInv, OwnerTypeOK, Gone
<1>. QED
  BY <1>1, <1>2, <1>3 DEF OwnerInv, StartHasLock, ClientHasLock, NoClientAtRelease, HasTheLock

\* whatever a step does that neither takes a lock away nor begins to use the Session file
LEMMA HarmlessStep ==
    ASSUME OwnerInv, OwnerTypeOK',
           \A p \in Apps : lockHolder = p => lockHolder' = p \/ lockLost'[p],
           \A p \in Apps : lockLost[p] => lockLost'[p],
           \A p \in Apps : session'[p] # "none" => session[p] # "none",
           \A p \in Apps : appStage'[p] \in {"locked", "connecting"} =>
                              appStage[p] \in {"locked", "connecting"},
           NoClientAtRelease'
    PROVE  OwnerInv'
  BY DEF OwnerInv, StartHasLock, ClientHasLock, HasTheLock

LEMMA StartKeepsInv ==
    ASSUME OwnerInv, NEW p \in Apps,
           Boot(p) \/ AcquireLock(p) \/ ConnectRedis(p) \/ ConnectTelegram(p) \/ FinishStart(p)
    PROVE  OwnerInv'
<1>. USE DEF OwnerInv, OwnerTypeOK, AppStages, SessionState, Moves, lockVars
<1>1. CASE Boot(p)
  BY <1>1, HarmlessStep DEF Boot, NoClientAtRelease
<1>2. CASE AcquireLock(p)
  <2>1. OwnerTypeOK'
    BY <1>2 DEF AcquireLock
  <2>2. \A q \in Apps \ {p} : /\ appStage'[q] = appStage[q]
                              /\ HasTheLock(q) => HasTheLock(q)'
    BY <1>2 DEF AcquireLock, HasTheLock
  <2>3. appStage'[p] = "locked" /\ HasTheLock(p)' /\ session' = session
    BY <1>2 DEF AcquireLock, HasTheLock
  <2>. QED
    BY <2>1, <2>2, <2>3 DEF StartHasLock, ClientHasLock, NoClientAtRelease
<1>3. CASE ConnectRedis(p)
  BY <1>3, HarmlessStep DEF ConnectRedis, NoClientAtRelease
<1>4. CASE ConnectTelegram(p)
  <2>1. OwnerTypeOK'
    BY <1>4 DEF ConnectTelegram
  <2>2. HasTheLock(p)
    BY <1>4 DEF ConnectTelegram, StartHasLock
  <2>3. \A q \in Apps : HasTheLock(q)' <=> HasTheLock(q)
    BY <1>4 DEF ConnectTelegram, HasTheLock
  <2>4. appStage'[p] = "catching up"
    BY <1>4 DEF ConnectTelegram
  <2>5. \A q \in Apps \ {p} : appStage'[q] = appStage[q] /\ session'[q] = session[q]
    BY <1>4 DEF ConnectTelegram
  <2>. QED
    BY <2>1, <2>2, <2>3, <2>4, <2>5 DEF StartHasLock, ClientHasLock, NoClientAtRelease
<1>5. CASE FinishStart(p)
  BY <1>5, HarmlessStep DEF FinishStart, NoClientAtRelease
<1>. QED
  BY <1>1, <1>2, <1>3, <1>4, <1>5

LEMMA EndOfStartKeepsInv ==
    ASSUME OwnerInv, NEW p \in Apps, StartFails(p) \/ CloseStarted(p) \/ ReleaseStarted(p)
    PROVE  OwnerInv'
<1>. USE DEF OwnerInv
<1>1. CASE StartFails(p)
  <2>1. PICK ok \in BOOLEAN : Disconnect(p, ok)
    BY <1>1 DEF StartFails
  <2>2. appStage' = [appStage EXCEPT ![p] = "unwinding"] /\ UNCHANGED <<appDrain, lockVars, working, diskBlocked>>
    BY <1>1 DEF StartFails, Moves
  <2>3. OwnerTypeOK'
    BY <2>1, <2>2, DisconnectEndsClient DEF OwnerTypeOK, AppStages, lockVars
  <2>4. NoClientAtRelease'
    BY <2>1, <2>2, DisconnectEndsClient DEF OwnerTypeOK, NoClientAtRelease
  <2>. QED
    BY <2>1, <2>2, <2>3, <2>4, DisconnectEndsClient, HarmlessStep DEF OwnerTypeOK, lockVars
<1>2. CASE CloseStarted(p)
  <2>1. PICK ok \in BOOLEAN : /\ Disconnect(p, ok)
                              /\ \/ Moves(p, "unwinding", IF ok THEN "unwound" ELSE "returned")
                                 \/ Moves(p, "blocking", IF ok THEN "cleared" ELSE "returned")
    BY <1>2 DEF CloseStarted, CloseClient
  <2>2. UNCHANGED <<appDrain, lockVars, working, diskBlocked>>
    BY <1>2 DEF CloseStarted
  <2>3. OwnerTypeOK'
    <3>1. appStage' \in [Apps -> AppStages]
      BY <2>1 DEF OwnerTypeOK, AppStages, Moves
    <3>. QED
      BY <2>1, <2>2, <3>1, DisconnectEndsClient DEF OwnerTypeOK, lockVars
  <2>4. NoClientAtRelease'
    BY <2>1, <2>2, DisconnectEndsClient DEF OwnerTypeOK, NoClientAtRelease, Moves
  <2>5. \A q \in Apps : appStage'[q] \in {"locked", "connecting"} =>
                            appStage[q] \in {"locked", "connecting"}
    BY <2>1 DEF OwnerTypeOK, Moves
  <2>. QED
    BY <2>1, <2>2, <2>3, <2>4, <2>5, DisconnectEndsClient, HarmlessStep DEF lockVars
<1>3. CASE ReleaseStarted(p)
  <2>1. OwnerTypeOK'
    BY <1>3 DEF ReleaseStarted, Moves, Unlock, OwnerTypeOK, AppStages
  <2>2. session'[p] = "none" /\ session' = session /\ lockLost' = lockLost
    BY <1>3 DEF ReleaseStarted, Moves, NoClientAtRelease
  <2>3. appStage'[p] \in {"returned", "blocked"}
    BY <1>3 DEF ReleaseStarted, Moves, OwnerTypeOK
  <2>4. \A q \in Apps \ {p} : appStage'[q] = appStage[q] /\ (lockHolder = q => lockHolder' = q)
    BY <1>3 DEF ReleaseStarted, Moves, Unlock, OwnerTypeOK
  <2>. QED
    BY <2>1, <2>2, <2>3, <2>4 DEF StartHasLock, ClientHasLock, NoClientAtRelease, HasTheLock
<1>. QED
  BY <1>1, <1>2, <1>3

LEMMA ServiceKeepsInv ==
    ASSUME OwnerInv, NEW p \in Apps,
           \/ BeginCycle(p) \/ EndCycle(p) \/ SeeDiskFull(p) \/ EnterBlocked(p) \/ LeaveBlocked(p)
           \/ ServeEnds(p) \/ LoseConnection(p) \/ ProbeFails(p)
    PROVE  OwnerInv'
<1>. USE DEF OwnerInv, lockVars
<1>1. CASE BeginCycle(p) \/ EndCycle(p) \/ SeeDiskFull(p)
  BY <1>1, HarmlessStep DEF BeginCycle, EndCycle, SeeDiskFull, OwnerTypeOK, NoClientAtRelease
<1>2. CASE EnterBlocked(p) \/ LeaveBlocked(p)
  BY <1>2, HarmlessStep DEF EnterBlocked, LeaveBlocked, Moves, OwnerTypeOK, AppStages,
                            NoClientAtRelease
<1>3. CASE ServeEnds(p)
  <2>1. PICK ok \in BOOLEAN : Disconnect(p, ok)
    BY <1>3 DEF ServeEnds
  <2>2. OwnerTypeOK'
    BY <1>3, <2>1, DisconnectEndsClient DEF ServeEnds, Moves, OwnerTypeOK, AppStages, DrainStep
  <2>3. appStage' = [appStage EXCEPT ![p] = "returned"] /\ UNCHANGED lockVars
    BY <1>3 DEF ServeEnds, Moves
  <2>4. NoClientAtRelease'
    BY <2>1, <2>3, DisconnectEndsClient DEF OwnerTypeOK, NoClientAtRelease
  <2>. QED
    BY <2>1, <2>2, <2>3, <2>4, DisconnectEndsClient, HarmlessStep DEF OwnerTypeOK
<1>4. CASE LoseConnection(p)
  BY <1>4, HarmlessStep DEF LoseConnection, SessionMishap, OwnerTypeOK, NoClientAtRelease
<1>5. CASE ProbeFails(p)
  <2>1. OwnerTypeOK'
    BY <1>5 DEF ProbeFails, Unlock, SessionMishap, OwnerTypeOK
  <2>. QED
    BY <1>5, <2>1, HarmlessStep DEF ProbeFails, Unlock, OwnerTypeOK, NoClientAtRelease
<1>. QED
  BY <1>1, <1>2, <1>3, <1>4, <1>5

LEMMA DrainKeepsInv ==
    ASSUME OwnerInv, NEW p \in Apps,
           \/ RequestDrain(p) \/ DrainHook(p) \/ ServeSettles(p) \/ FinalClose(p)
           \/ FinalRelease(p) \/ ForceExit(p) \/ Crash(p)
    PROVE  OwnerInv'
<1>. USE DEF OwnerInv, lockVars
<1>1. CASE RequestDrain(p) \/ ServeSettles(p)
  BY <1>1, HarmlessStep DEF RequestDrain, ServeSettles, OwnerTypeOK, DrainStep, NoClientAtRelease
<1>2. CASE DrainHook(p) \/ FinalClose(p)
  <2>1. PICK ok \in BOOLEAN : Disconnect(p, ok)
    BY <1>2 DEF DrainHook, FinalClose
  <2>2. OwnerTypeOK'
    <3>1. session' \in [Apps -> SessionState] /\ sessionMishaps' \in 0..MaxSessionMishaps
      BY <2>1, DisconnectEndsClient
    <3>2. appDrain' \in [Apps -> DrainStep]
      BY <1>2 DEF DrainHook, FinalClose, OwnerTypeOK, DrainStep
    <3>3. UNCHANGED <<appStage, lockHolder, believed, lockLost, working, diskBlocked>>
      BY <1>2 DEF DrainHook, FinalClose
    <3>. QED
      BY <3>1, <3>2, <3>3 DEF OwnerTypeOK
  <2>3. UNCHANGED <<appStage, lockHolder, lockLost>>
    BY <1>2 DEF DrainHook, FinalClose
  <2>4. NoClientAtRelease'
    BY <2>1, <2>3, DisconnectEndsClient DEF NoClientAtRelease
  <2>. QED
    BY <2>1, <2>2, <2>3, <2>4, DisconnectEndsClient, HarmlessStep
<1>3. CASE FinalRelease(p) \/ ForceExit(p) \/ Crash(p)
  BY <1>3, GoneKeepsInv DEF FinalRelease, ForceExit, Crash
<1>. QED
  BY <1>1, <1>2, <1>3

LEMMA OwnerInvInductive == OwnerInv /\ [OwnerNext]_ownerVars => OwnerInv'
<1>. SUFFICES ASSUME OwnerInv, [OwnerNext]_ownerVars PROVE OwnerInv'
  OBVIOUS
<1>1. CASE OwnerNext
  <2>1. PICK p \in Apps :
        \/ Boot(p) \/ AcquireLock(p) \/ ConnectRedis(p) \/ ConnectTelegram(p) \/ FinishStart(p)
        \/ StartFails(p) \/ CloseStarted(p) \/ ReleaseStarted(p)
        \/ BeginCycle(p) \/ EndCycle(p) \/ SeeDiskFull(p) \/ EnterBlocked(p) \/ LeaveBlocked(p)
        \/ ServeEnds(p) \/ LoseConnection(p) \/ ProbeFails(p)
        \/ RequestDrain(p) \/ DrainHook(p) \/ ServeSettles(p) \/ FinalClose(p) \/ FinalRelease(p)
        \/ ForceExit(p) \/ Crash(p)
    BY <1>1 DEF OwnerNext
  <2>. QED
    BY <2>1, StartKeepsInv, EndOfStartKeepsInv, ServiceKeepsInv, DrainKeepsInv
<1>2. CASE UNCHANGED ownerVars
  BY <1>2 DEF ownerVars, OwnerInv, OwnerTypeOK, StartHasLock, ClientHasLock, NoClientAtRelease,
              HasTheLock
<1>. QED
  BY <1>1, <1>2

LEMMA OwnerInvInit == OwnerInit => OwnerInv
  BY DEF OwnerInit, OwnerInv, OwnerTypeOK, AppStages, DrainStep, SessionState, StartHasLock,
         ClientHasLock, NoClientAtRelease, HasTheLock

\* Fairness plays no part in it, so it holds where the service is one of several too.
LEMMA OwnerSafely == OwnerInit /\ [][OwnerNext]_ownerVars => []SoleSession
<1>1. OwnerInv => SoleSession
  BY DEF OwnerInv, ClientHasLock, HasTheLock, SoleSession
<1>2. OwnerInit /\ [][OwnerNext]_ownerVars => []OwnerInv
  BY OwnerInvInit, OwnerInvInductive, PTL
<1>. QED
  BY <1>1, <1>2, PTL

\* Two processes whose client may use the Session file at once: one of them had its lock taken by
\* PostgreSQL or by a probe that failed (PostgresSessionOwnership.probe, _close_started_resources).
THEOREM OwnerSpecSoleSession == OwnerSpec => []SoleSession
BY OwnerSafely, PTL DEF OwnerSpec

-----------------------------------------------------------------------------
(***************************************************************************)
(* Context previews                                                        *)
(***************************************************************************)
USE PreviewsConstants

\* a request that was not confirmed has nothing in the journal
WaitsToBegin ==
    \A q \in Previews : preview[q] \in {"none", "pending_confirmation"} =>
        sender[q].step = "off" /\ \A i \in Chunk : piece[<<q, i>>].state = "none"

\* what a sender has in hand is journalled, and not in the chat unless it was taken
InHand(q) == sender[q].step \in {"call", "sent", "rejected", "unknown"}
HandIsJournalled ==
    \A q \in Previews : InHand(q) =>
        /\ sender[q].at \in Chunk /\ piece[<<q, sender[q].at>>].state = "sending"
        /\ sender[q].step \in {"call", "rejected"} => <<q, sender[q].at>> \notin shown

\* what a pass deletes was claimed, and what it has deleted is gone
PassIsJournalled ==
    \A m \in Maintainers :
        /\ \A x \in pass[m].due : piece[x].state \in {"delete_pending", "delete_failed", "deleted"}
        /\ pass[m].answer # <<>> => /\ pass[m].answer[1] \in pass[m].due
                                    /\ pass[m].answer[2] => pass[m].answer[1] \notin shown

\* what is in the chat is past its claim, and not recorded as deleted
ShownIsKnown == \A x \in shown : piece[x].state \notin {"none", "pending", "deleted"}

PreviewsInv ==
    PreviewsTypeOK /\ WaitsToBegin /\ HandIsJournalled /\ PassIsJournalled /\ ShownIsKnown

\* A step that leaves the journal and the chat alone, and at most ends deliveries and passes.
LEMMA JournalRests ==
    ASSUME PreviewsInv, PreviewsTypeOK', UNCHANGED <<piece, shown>>,
           \A q \in Previews : sender'[q] = sender[q] \/ sender'[q].step = "off",
           \A q \in Previews : preview'[q] \in {"none", "pending_confirmation"}
                               => preview[q] \in {"none", "pending_confirmation"},
           \A m \in Maintainers : pass'[m].due \subseteq pass[m].due /\ pass'[m].answer \in {<<>>, pass[m].answer}
                                  /\ (pass'[m].answer # <<>> => pass'[m].due = pass[m].due)
    PROVE  PreviewsInv'
<1>1. WaitsToBegin' BY DEF PreviewsInv, WaitsToBegin
<1>2. HandIsJournalled' BY DEF PreviewsInv, HandIsJournalled, InHand
<1>3. PassIsJournalled' BY DEF PreviewsInv, PassIsJournalled
<1>4. ShownIsKnown' BY DEF PreviewsInv, ShownIsKnown
<1> QED BY <1>1, <1>2, <1>3, <1>4 DEF PreviewsInv

\* The passes are where they were.
LEMMA PassesRest ==
    ASSUME pass' = pass
    PROVE  \A m \in Maintainers : pass'[m].due \subseteq pass[m].due /\ pass'[m].answer \in {<<>>, pass[m].answer}
                                  /\ (pass'[m].answer # <<>> => pass'[m].due = pass[m].due)
OBVIOUS

\* Before a request is confirmed: it is issued, or its button is used up for nothing.
LEMMA RequestKeepsInv ==
    ASSUME PreviewsInv, NEW q \in Previews, IssuePreview(q) \/ RefusePreview(q)
    PROVE  PreviewsInv'
<1>1. /\ preview[q] \in {"none", "pending_confirmation"}
      /\ \E s \in {"pending_confirmation", "confirmed"} : preview' = [preview EXCEPT ![q] = s]
      /\ UNCHANGED <<piece, sender, shown, maintenanceVars>>
    BY DEF IssuePreview, RefusePreview, ConsumePreview
<1>2. PreviewsTypeOK'
    BY <1>1 DEF PreviewsInv, PreviewsTypeOK, PreviewState, maintenanceVars
<1>3. \A p \in Previews : preview'[p] \in {"none", "pending_confirmation"}
                          => preview[p] \in {"none", "pending_confirmation"}
    BY <1>1 DEF PreviewsInv, PreviewsTypeOK
<1> QED BY <1>1, <1>2, <1>3, JournalRests, PassesRest DEF maintenanceVars

\* A confirmed request begins its journal: none of its messages was in the chat.
LEMMA ConfirmKeepsInv ==
    ASSUME PreviewsInv, NEW q \in Previews, ConfirmPreview(q)
    PROVE  PreviewsInv'
<1>1. /\ preview[q] = "pending_confirmation" /\ preview' = [preview EXCEPT ![q] = "delivering"]
      /\ piece' = [x \in PieceId |-> IF x[1] = q THEN [NoPiece EXCEPT !.state = "pending"] ELSE piece[x]]
      /\ sender' = [sender EXCEPT ![q] = [at |-> 1, step |-> "next", retries |-> 0]]
      /\ UNCHANGED <<shown, overdue, scopeErased, pass, mischances>>
  <2>1. [Unsent EXCEPT !.step = "next"] = [at |-> 1, step |-> "next", retries |-> 0]
      BY DEF Unsent
  <2>2. sender' = [sender EXCEPT ![q] = [Unsent EXCEPT !.step = "next"]]
      BY DEF ConfirmPreview
  <2>3. sender' = [sender EXCEPT ![q] = [at |-> 1, step |-> "next", retries |-> 0]]
      BY <2>1, <2>2
  <2>4. preview[q] = "pending_confirmation" /\ UNCHANGED <<shown, overdue, scopeErased, pass, mischances>>
      BY DEF ConfirmPreview, ConsumePreview, maintenanceVars
  <2>5. /\ preview' = [preview EXCEPT ![q] = "delivering"]
        /\ piece' = [x \in PieceId |-> IF x[1] = q THEN [NoPiece EXCEPT !.state = "pending"] ELSE piece[x]]
      BY DEF ConfirmPreview, BeginDelivery
  <2> QED BY <2>3, <2>4, <2>5
<1>2. \A x \in PieceId : x[1] = q => piece[x].state = "none" /\ x \notin shown
                                     /\ \A m \in Maintainers : x \notin pass[m].due
  <2>1. \A i \in Chunk : piece[<<q, i>>].state = "none"
      BY <1>1 DEF PreviewsInv, WaitsToBegin
  <2>2. \A x \in PieceId : x[1] = q => piece[x].state = "none"
      BY <2>1 DEF PieceId
  <2> QED BY <2>2 DEF PreviewsInv, ShownIsKnown, PassIsJournalled
<1>3. PreviewsTypeOK'
  <2>1. [NoPiece EXCEPT !.state = "pending"] \in PieceRow
      BY DEF NoPiece, PieceRow
  <2>2. piece' \in [PieceId -> PieceRow]
    <3> DEFINE begun == [NoPiece EXCEPT !.state = "pending"]
    <3> HIDE DEF begun
    <3> QED BY <1>1, <2>1 DEF begun, PreviewsInv, PreviewsTypeOK
  <2>3. 1 \in 1..ChunkCount + 1 /\ 0 \in 0..MaxRejectedRetries
      OBVIOUS
  <2> QED BY <1>1, <2>2, <2>3 DEF PreviewsInv, PreviewsTypeOK, PreviewState
<1>4. WaitsToBegin'
  <2> SUFFICES ASSUME NEW p \in Previews, preview'[p] \in {"none", "pending_confirmation"}
               PROVE  sender'[p].step = "off" /\ \A i \in Chunk : piece'[<<p, i>>].state = "none"
      BY DEF WaitsToBegin
  <2>1. p # q /\ preview[p] = preview'[p] /\ sender'[p] = sender[p]
      BY <1>1 DEF PreviewsInv, PreviewsTypeOK
  <2>2. \A i \in Chunk : piece'[<<p, i>>] = piece[<<p, i>>]
      BY <1>1, <2>1 DEF PieceId
  <2> QED BY <2>1, <2>2 DEF PreviewsInv, WaitsToBegin
<1>5. HandIsJournalled'
  <2> SUFFICES ASSUME NEW p \in Previews, InHand(p)'
               PROVE  /\ sender'[p].at \in Chunk /\ piece'[<<p, sender'[p].at>>].state = "sending"
                      /\ sender'[p].step \in {"call", "rejected"} => <<p, sender'[p].at>> \notin shown'
      BY DEF HandIsJournalled
  <2>1. p # q /\ sender'[p] = sender[p]
      BY <1>1 DEF PreviewsInv, PreviewsTypeOK, InHand
  <2>2. InHand(p)
      BY <2>1 DEF InHand
  <2>3. sender[p].at \in Chunk /\ piece'[<<p, sender[p].at>>] = piece[<<p, sender[p].at>>]
      BY <1>1, <2>1, <2>2 DEF PreviewsInv, HandIsJournalled, PieceId
  <2> QED BY <1>1, <2>1, <2>2, <2>3 DEF PreviewsInv, HandIsJournalled
<1>6. \A x \in PieceId : x \in shown \/ (\E m \in Maintainers : x \in pass[m].due)
                         => piece'[x] = piece[x]
    BY <1>1, <1>2
<1>7. PassIsJournalled' /\ ShownIsKnown'
    BY <1>1, <1>6 DEF PreviewsInv, PreviewsTypeOK, PassIsJournalled, ShownIsKnown
<1> QED BY <1>3, <1>4, <1>5, <1>7 DEF PreviewsInv

SenderRow == [at : 1..ChunkCount + 1, retries : 0..MaxRejectedRetries,
              step : {"off", "next", "call", "sent", "rejected", "unknown"}]

PieceState == {"none", "pending", "sending", "sent", "send_unknown", "delete_pending",
               "delete_failed", "deleted"}

PassRow == [due : SUBSET PieceId, step : {"rest", "claim", "delete"},
            answer : PieceId \X BOOLEAN \cup {<<>>}]

\* Setting a column leaves a row; one row of a table changed for another leaves the table.
LEMMA PieceColumn ==
    ASSUME NEW r \in PieceRow, NEW s \in PieceState
    PROVE  [r EXCEPT !.state = s] \in PieceRow
BY DEF PieceRow, PieceState

LEMMA PieceUnwaits ==
    ASSUME NEW r \in PieceRow
    PROVE  [r EXCEPT !.waits = FALSE] \in PieceRow /\ [r EXCEPT !.waits = FALSE].state = r.state
BY DEF PieceRow

LEMMA PassBegins ==
    ASSUME NEW S \in SUBSET PieceId
    PROVE  /\ [NoPass EXCEPT !.due = S, !.step = "delete"] \in PassRow
           /\ [NoPass EXCEPT !.due = S, !.step = "delete"].due = S
           /\ [NoPass EXCEPT !.due = S, !.step = "delete"].answer = <<>>
BY DEF PassRow, NoPass

LEMMA SenderColumn ==
    ASSUME NEW r \in SenderRow, NEW s \in {"off", "next", "call", "sent", "rejected", "unknown"}
    PROVE  [r EXCEPT !.step = s] \in SenderRow
BY DEF SenderRow

LEMMA SenderAgain ==
    ASSUME NEW r \in SenderRow, NEW n \in 0..MaxRejectedRetries
    PROVE  /\ [r EXCEPT !.step = "next", !.retries = n] \in SenderRow
           /\ [r EXCEPT !.step = "next", !.retries = n].step = "next"
BY DEF SenderRow

LEMMA OnePieceMoves ==
    ASSUME PreviewsTypeOK, NEW x \in PieceId, NEW s \in PieceState,
           piece' = [piece EXCEPT ![x].state = s]
    PROVE  /\ piece' \in [PieceId -> PieceRow] /\ piece'[x].state = s
           /\ \A y \in PieceId : y # x => piece'[y] = piece[y]
<1> DEFINE row == [piece[x] EXCEPT !.state = s]
<1>1. piece[x] \in PieceRow /\ row \in PieceRow
    BY PieceColumn DEF PreviewsTypeOK
<1>2. row.state = s
    BY <1>1 DEF PieceRow
<1>3. piece' = [piece EXCEPT ![x] = row]
    OBVIOUS
<1> HIDE DEF row
<1> QED BY <1>1, <1>2, <1>3 DEF PreviewsTypeOK

LEMMA SenderKeepsTypes ==
    ASSUME PreviewsTypeOK, NEW q \in Previews, NEW row \in SenderRow,
           sender' = [sender EXCEPT ![q] = row],
           piece' \in [PieceId -> PieceRow], preview' \in [Previews -> PreviewState],
           shown' \subseteq PieceId, UNCHANGED <<overdue, scopeErased, pass, mischances>>
    PROVE  PreviewsTypeOK'
BY DEF PreviewsTypeOK, SenderRow

\* A sender works on the message it is at, and on no other.
LEMMA SenderKeepsInv ==
    ASSUME PreviewsInv, PreviewsTypeOK', NEW q \in Previews, NEW i \in Chunk,
           sender[q].step # "off", pass' = pass,
           \A p \in Previews \ {q} : sender'[p] = sender[p] /\ preview'[p] = preview[p],
           preview'[q] = preview[q] \/ preview'[q] \notin {"none", "pending_confirmation"},
           \A x \in PieceId : x # <<q, i>> => piece'[x] = piece[x],
           piece[<<q, i>>].state \in {"pending", "sending"},
           shown \subseteq shown', shown' \subseteq shown \cup {<<q, i>>},
           <<q, i>> \in shown' => piece'[<<q, i>>].state \notin {"none", "pending", "deleted"},
           InHand(q)' => /\ sender'[q].at = i /\ piece'[<<q, i>>].state = "sending"
                         /\ sender'[q].step \in {"call", "rejected"} => <<q, i>> \notin shown'
    PROVE  PreviewsInv'
<1>1. WaitsToBegin'
  <2> SUFFICES ASSUME NEW p \in Previews, preview'[p] \in {"none", "pending_confirmation"}
               PROVE  sender'[p].step = "off" /\ \A j \in Chunk : piece'[<<p, j>>].state = "none"
      BY DEF WaitsToBegin
  <2>1. p # q
      BY DEF PreviewsInv, WaitsToBegin
  <2>2. \A j \in Chunk : <<p, j>> \in PieceId /\ <<p, j>> # <<q, i>>
      BY <2>1 DEF PieceId
  <2> QED BY <2>1, <2>2 DEF PreviewsInv, WaitsToBegin
<1>2. HandIsJournalled'
  <2> SUFFICES ASSUME NEW p \in Previews, InHand(p)'
               PROVE  /\ sender'[p].at \in Chunk /\ piece'[<<p, sender'[p].at>>].state = "sending"
                      /\ sender'[p].step \in {"call", "rejected"} => <<p, sender'[p].at>> \notin shown'
      BY DEF HandIsJournalled
  <2>1. CASE p = q BY <2>1
  <2>2. CASE p # q
    <3>1. sender'[p] = sender[p] /\ InHand(p)
        BY <2>2 DEF InHand
    <3>2. /\ sender[p].at \in Chunk /\ piece[<<p, sender[p].at>>].state = "sending"
          /\ sender[p].step \in {"call", "rejected"} => <<p, sender[p].at>> \notin shown
        BY <3>1 DEF PreviewsInv, HandIsJournalled
    <3>3. <<p, sender[p].at>> \in PieceId /\ <<p, sender[p].at>> # <<q, i>>
        BY <2>2, <3>2 DEF PieceId
    <3> QED BY <3>1, <3>2, <3>3
  <2> QED BY <2>1, <2>2
<1>3. \A m \in Maintainers : <<q, i>> \notin pass[m].due
    BY DEF PreviewsInv, PassIsJournalled
<1>4. \A m \in Maintainers : pass[m].due \subseteq PieceId
    BY DEF PreviewsInv, PreviewsTypeOK
<1>5. PassIsJournalled'
  <2> SUFFICES ASSUME NEW m \in Maintainers
               PROVE  /\ \A x \in pass[m].due :
                            piece'[x].state \in {"delete_pending", "delete_failed", "deleted"}
                      /\ pass[m].answer # <<>> => /\ pass[m].answer[1] \in pass[m].due
                                                  /\ pass[m].answer[2] => pass[m].answer[1] \notin shown'
      BY DEF PassIsJournalled
  <2>1. \A x \in pass[m].due : x # <<q, i>> /\ piece'[x] = piece[x]
      BY <1>3, <1>4
  <2> QED BY <2>1 DEF PreviewsInv, PassIsJournalled
<1>6. ShownIsKnown'
  <2>1. \A x \in shown : x \in PieceId
      BY DEF PreviewsInv, PreviewsTypeOK
  <2> QED BY <2>1 DEF PreviewsInv, ShownIsKnown
<1> QED BY <1>1, <1>2, <1>5, <1>6 DEF PreviewsInv

\* A message is claimed before it is sent, unless the delivery ends here.
LEMMA ClaimKeepsInv ==
    ASSUME PreviewsInv, NEW q \in Previews, ClaimChunk(q)
    PROVE  PreviewsInv'
<1>1. /\ sender[q].step = "next" /\ sender[q].at <= ChunkCount /\ UNCHANGED <<preview, shown, pass>>
      /\ UNCHANGED <<overdue, scopeErased, mischances>>
    BY DEF ClaimChunk, maintenanceVars
<1>2. sender[q].at \in Chunk /\ <<q, sender[q].at>> \in PieceId
    BY <1>1 DEF PreviewsInv, PreviewsTypeOK, Chunk, PieceId
<1>3. CASE LeavePreview(q) /\ UNCHANGED piece
  <2>1. sender' = [sender EXCEPT ![q] = Unsent] /\ Unsent.step = "off"
      BY <1>3 DEF LeavePreview, Unsent
  <2>2. Unsent \in [at : 1..ChunkCount + 1, retries : 0..MaxRejectedRetries,
                    step : {"off", "next", "call", "sent", "rejected", "unknown"}]
      BY DEF Unsent
  <2>3. PreviewsTypeOK'
      BY <1>1, <1>3, <2>1, <2>2 DEF PreviewsInv, PreviewsTypeOK
  <2>4. \A p \in Previews : sender'[p] = sender[p] \/ sender'[p].step = "off"
      BY <2>1 DEF PreviewsInv, PreviewsTypeOK
  <2> QED BY <1>1, <1>3, <2>3, <2>4, JournalRests, PassesRest
<1>4. CASE /\ piece[<<q, sender[q].at>>].state = "pending"
           /\ piece' = [piece EXCEPT ![<<q, sender[q].at>>].state = "sending"]
           /\ sender' = [sender EXCEPT ![q].step = "call"]
  <2>1. /\ sender'[q].step = "call" /\ sender'[q].at = sender[q].at
        /\ \A p \in Previews \ {q} : sender'[p] = sender[p]
      BY <1>4 DEF PreviewsInv, PreviewsTypeOK
  <2>2. /\ piece' \in [PieceId -> PieceRow] /\ piece'[<<q, sender[q].at>>].state = "sending"
        /\ \A x \in PieceId : x # <<q, sender[q].at>> => piece'[x] = piece[x]
    <3>1. "sending" \in PieceState
        BY DEF PieceState
    <3> QED BY <1>2, <1>4, <3>1, OnePieceMoves DEF PreviewsInv
  <2>3. PreviewsTypeOK'
    <3>1. sender[q] \in SenderRow
        BY DEF PreviewsInv, PreviewsTypeOK, SenderRow
    <3>2. [sender[q] EXCEPT !.step = "call"] \in SenderRow
        BY <3>1, SenderColumn
    <3>3. sender' = [sender EXCEPT ![q] = [sender[q] EXCEPT !.step = "call"]]
        BY <1>4
    <3>4. preview' \in [Previews -> PreviewState] /\ shown' \subseteq PieceId
        BY <1>1 DEF PreviewsInv, PreviewsTypeOK
    <3> QED BY <1>1, <2>2, <3>2, <3>3, <3>4, SenderKeepsTypes DEF PreviewsInv
  <2>4. <<q, sender[q].at>> \notin shown
      BY <1>4 DEF PreviewsInv, ShownIsKnown
  <2> QED BY <1>1, <1>2, <1>4, <2>1, <2>2, <2>3, <2>4, SenderKeepsInv
<1> QED BY <1>3, <1>4 DEF ClaimChunk

\* The call: only what is in hand, and was not in the chat, may come to be there.
LEMMA SendKeepsInv ==
    ASSUME PreviewsInv, NEW q \in Previews, SendChunk(q)
    PROVE  PreviewsInv'
<1>1. PICK outcome \in {"sent", "rejected", "unknown"}, arrives \in BOOLEAN :
        /\ outcome = "rejected" => ~arrives
        /\ sender' = [sender EXCEPT ![q].step = outcome]
        /\ shown' = IF arrives THEN shown \cup {<<q, sender[q].at>>} ELSE shown
    BY DEF SendChunk
<1>2. sender[q].step = "call" /\ UNCHANGED <<preview, piece, overdue, scopeErased, pass, mischances>>
    BY DEF SendChunk, maintenanceVars
<1>3. /\ sender[q].at \in Chunk /\ piece[<<q, sender[q].at>>].state = "sending"
      /\ <<q, sender[q].at>> \notin shown /\ <<q, sender[q].at>> \in PieceId
    BY <1>2 DEF PreviewsInv, HandIsJournalled, InHand, PieceId
<1>4. /\ sender'[q].step = outcome /\ sender'[q].at = sender[q].at
      /\ \A p \in Previews \ {q} : sender'[p] = sender[p]
    BY <1>1 DEF PreviewsInv, PreviewsTypeOK
<1>5. PreviewsTypeOK'
  <2>1. sender[q] \in SenderRow
      BY DEF PreviewsInv, PreviewsTypeOK, SenderRow
  <2>2. [sender[q] EXCEPT !.step = outcome] \in SenderRow
      BY <2>1, SenderColumn
  <2>3. sender' = [sender EXCEPT ![q] = [sender[q] EXCEPT !.step = outcome]]
      BY <1>1
  <2>4. /\ piece' \in [PieceId -> PieceRow] /\ preview' \in [Previews -> PreviewState]
        /\ shown' \subseteq PieceId
      BY <1>1, <1>2, <1>3 DEF PreviewsInv, PreviewsTypeOK
  <2> QED BY <1>2, <2>2, <2>3, <2>4, SenderKeepsTypes DEF PreviewsInv
<1> QED BY <1>1, <1>2, <1>3, <1>4, <1>5, SenderKeepsInv

\* What became of the message is recorded, as far as it is known.
LEMMA RecordKeepsInv ==
    ASSUME PreviewsInv, NEW q \in Previews, RecordChunk(q)
    PROVE  PreviewsInv'
<1> DEFINE i == sender[q].at
           s == IF sender[q].step = "sent" THEN "sent" ELSE "send_unknown"
           row == [at |-> IF sender[q].step = "sent" THEN i + 1 ELSE ChunkCount + 1,
                   step |-> "next", retries |-> 0]
<1>1. /\ sender[q].step \in {"sent", "unknown"}
      /\ piece' = [piece EXCEPT ![<<q, i>>].state = s]
      /\ sender' = [sender EXCEPT ![q] = row]
      /\ UNCHANGED <<preview, shown, overdue, scopeErased, pass, mischances>>
    BY DEF RecordChunk, maintenanceVars
<1>2. /\ i \in Chunk /\ piece[<<q, i>>].state = "sending" /\ <<q, i>> \in PieceId
    BY <1>1 DEF PreviewsInv, HandIsJournalled, InHand, PieceId
<1>3. row \in SenderRow /\ row.step = "next"
    BY <1>2 DEF Chunk, SenderRow
<1>4. s \in PieceState /\ s \notin {"none", "pending", "deleted"}
    BY DEF PieceState
<1> HIDE DEF i, s, row
<1>5. /\ piece' \in [PieceId -> PieceRow] /\ piece'[<<q, i>>].state = s
      /\ \A x \in PieceId : x # <<q, i>> => piece'[x] = piece[x]
    BY <1>1, <1>2, <1>4, OnePieceMoves DEF PreviewsInv
<1>6. PreviewsTypeOK'
  <2>1. preview' \in [Previews -> PreviewState] /\ shown' \subseteq PieceId
      BY <1>1 DEF PreviewsInv, PreviewsTypeOK
  <2> QED BY <1>1, <1>3, <1>5, <2>1, SenderKeepsTypes DEF PreviewsInv
<1>7. sender'[q] = row /\ \A p \in Previews \ {q} : sender'[p] = sender[p]
    BY <1>1 DEF PreviewsInv, PreviewsTypeOK
<1>8. ~InHand(q)'
    BY <1>3, <1>7 DEF InHand
<1> QED BY <1>1, <1>2, <1>4, <1>5, <1>6, <1>7, <1>8, SenderKeepsInv

\* A message that was turned away is pending again, or fails the request.
LEMMA RetryKeepsInv ==
    ASSUME PreviewsInv, NEW q \in Previews, RetryChunk(q)
    PROVE  PreviewsInv'
<1> DEFINE i == sender[q].at
<1>1. /\ sender[q].step = "rejected"
      /\ piece' = [piece EXCEPT ![<<q, i>>].state = "pending"]
      /\ UNCHANGED <<shown, overdue, scopeErased, pass, mischances>>
    BY DEF RetryChunk, maintenanceVars
<1>2. /\ i \in Chunk /\ piece[<<q, i>>].state = "sending" /\ <<q, i>> \in PieceId
      /\ <<q, i>> \notin shown
    BY <1>1 DEF PreviewsInv, HandIsJournalled, InHand, PieceId
<1>3. PICK row \in SenderRow : row.step \in {"next", "off"} /\ sender' = [sender EXCEPT ![q] = row]
  <2>1. CASE LeavePreview(q)
    <3>1. Unsent \in SenderRow /\ Unsent.step = "off"
        BY DEF Unsent, SenderRow
    <3> QED BY <2>1, <3>1 DEF LeavePreview
  <2>2. CASE /\ sender[q].retries < MaxRejectedRetries
             /\ sender' = [sender EXCEPT ![q].step = "next", ![q].retries = @ + 1]
    <3> DEFINE n == sender[q].retries + 1
               next == [sender[q] EXCEPT !.step = "next", !.retries = n]
    <3>1. sender[q] \in SenderRow
        BY DEF PreviewsInv, PreviewsTypeOK, SenderRow
    <3>2. sender' = [sender EXCEPT ![q] = next]
        BY <2>2
    <3>3. n \in 0..MaxRejectedRetries
      <4>1. sender[q].retries \in 0..MaxRejectedRetries
          BY <3>1 DEF SenderRow
      <4> QED BY <2>2, <4>1
    <3> HIDE DEF n
    <3>4. next \in SenderRow /\ next.step = "next"
        BY <3>1, <3>3, SenderAgain, ZenonT(30)
    <3> HIDE DEF next
    <3> QED BY <3>2, <3>4
  <2> QED BY <2>1, <2>2 DEF RetryChunk
<1>4. /\ preview' \in [Previews -> PreviewState]
      /\ preview'[q] = preview[q] \/ preview'[q] = "failed"
      /\ \A p \in Previews \ {q} : preview'[p] = preview[p]
    BY DEF RetryChunk, FailPreview, PreviewsInv, PreviewsTypeOK, PreviewState
<1> HIDE DEF i
<1>5. /\ piece' \in [PieceId -> PieceRow] /\ piece'[<<q, i>>].state = "pending"
      /\ \A x \in PieceId : x # <<q, i>> => piece'[x] = piece[x]
  <2>1. "pending" \in PieceState
      BY DEF PieceState
  <2> QED BY <1>1, <1>2, <2>1, OnePieceMoves DEF PreviewsInv
<1>6. PreviewsTypeOK'
  <2>1. shown' \subseteq PieceId
      BY <1>1 DEF PreviewsInv, PreviewsTypeOK
  <2> QED BY <1>1, <1>3, <1>4, <1>5, <2>1, SenderKeepsTypes DEF PreviewsInv
<1>7. sender'[q] = row /\ \A p \in Previews \ {q} : sender'[p] = sender[p]
    BY <1>3 DEF PreviewsInv, PreviewsTypeOK
<1>8. ~InHand(q)'
    BY <1>3, <1>7 DEF InHand
<1> QED BY <1>1, <1>2, <1>4, <1>5, <1>6, <1>7, <1>8, SenderKeepsInv

\* The delivery ends with the state that its messages have.
LEMMA FinishKeepsInv ==
    ASSUME PreviewsInv, NEW q \in Previews, FinishDelivery(q)
    PROVE  PreviewsInv'
<1>1. /\ LeavePreview(q) /\ UNCHANGED <<piece, shown, overdue, scopeErased, pass, mischances>>
      /\ \E s \in {preview[q], "send_unknown", "delivered"} : preview' = [preview EXCEPT ![q] = s]
    BY DEF FinishDelivery, maintenanceVars
<1>2. Unsent \in SenderRow /\ Unsent.step = "off" /\ sender' = [sender EXCEPT ![q] = Unsent]
    BY <1>1 DEF Unsent, SenderRow, LeavePreview
<1>3. PreviewsTypeOK'
  <2>1. piece' \in [PieceId -> PieceRow] /\ shown' \subseteq PieceId
      BY <1>1 DEF PreviewsInv, PreviewsTypeOK
  <2>2. PICK s \in {preview[q], "send_unknown", "delivered"} : preview' = [preview EXCEPT ![q] = s]
      BY <1>1
  <2>3. preview \in [Previews -> PreviewState]
      BY DEF PreviewsInv, PreviewsTypeOK
  <2>4. s \in PreviewState
      BY <2>3 DEF PreviewState
  <2>5. preview' \in [Previews -> PreviewState]
      BY <2>2, <2>3, <2>4
  <2> QED BY <1>1, <1>2, <2>1, <2>5, SenderKeepsTypes DEF PreviewsInv
<1>4. \A p \in Previews : sender'[p] = sender[p] \/ sender'[p].step = "off"
    BY <1>2 DEF PreviewsInv, PreviewsTypeOK
<1>5. \A p \in Previews : preview'[p] \in {"none", "pending_confirmation"}
                          => preview[p] \in {"none", "pending_confirmation"}
    BY <1>1 DEF PreviewsInv, PreviewsTypeOK
<1> QED BY <1>1, <1>3, <1>4, <1>5, JournalRests, PassesRest

\* Mishaps stay within their bound.
LEMMA MischanceCounts ==
    ASSUME PreviewsTypeOK, Mischance
    PROVE  mischances' \in 0..MaxPreviewMishaps
BY DEF PreviewsTypeOK, Mischance

\* Time passes, scopes are erased, processes restart, and a pass begins.
LEMMA SurroundingsKeepInv ==
    ASSUME PreviewsInv,
           \/ \E q \in Previews : FallDue(q) \/ EraseScope(q)
           \/ \E m \in Maintainers : ControlRestarts(m) \/ ReconcileErased(m)
    PROVE  PreviewsInv'
<1>1. ASSUME NEW q \in Previews, FallDue(q) \/ EraseScope(q) PROVE PreviewsInv'
  <2>1. UNCHANGED <<preview, piece, sender, shown, pass>>
      BY <1>1 DEF FallDue, EraseScope
  <2>2. PreviewsTypeOK'
      BY <1>1, <2>1 DEF FallDue, EraseScope, PreviewsInv, PreviewsTypeOK
  <2> QED BY <2>1, <2>2, JournalRests, PassesRest
<1>2. ASSUME NEW m \in Maintainers, NEW p, p \in {NoPass, [pass[m] EXCEPT !.step = "claim"]},
             pass' = [pass EXCEPT ![m] = p]
      PROVE  \A n \in Maintainers :
                /\ pass'[n].due \subseteq pass[n].due /\ pass'[n].answer \in {<<>>, pass[n].answer}
                /\ pass'[n].answer # <<>> => pass'[n].due = pass[n].due
  <2>1. /\ p.due \subseteq pass[m].due /\ p.answer \in {<<>>, pass[m].answer}
        /\ p.answer # <<>> => p.due = pass[m].due
      BY <1>2 DEF NoPass, PreviewsInv, PreviewsTypeOK
  <2> QED BY <1>2, <2>1 DEF PreviewsInv, PreviewsTypeOK
<1>3. ASSUME NEW m \in Maintainers, ControlRestarts(m) PROVE PreviewsInv'
  <2>1. /\ UNCHANGED <<preview, piece, shown, overdue, scopeErased>>
        /\ pass' = [pass EXCEPT ![m] = NoPass]
        /\ \E mine \in SUBSET {q \in Previews : sender[q].step # "off"} :
              sender' = [q \in Previews |-> IF q \in mine THEN Unsent ELSE sender[q]]
      BY <1>3 DEF ControlRestarts
  <2>2. Unsent \in SenderRow /\ Unsent.step = "off"
      BY DEF Unsent, SenderRow
  <2>3. \A q \in Previews : sender'[q] = sender[q] \/ sender'[q].step = "off"
      BY <2>1, <2>2
  <2>4. PreviewsTypeOK'
    <3>1. sender' \in [Previews -> SenderRow]
        BY <2>1, <2>2 DEF PreviewsInv, PreviewsTypeOK, SenderRow
    <3>2. NoPass \in PassRow
        BY DEF NoPass, PassRow
    <3>3. mischances' \in 0..MaxPreviewMishaps
        BY <1>3, MischanceCounts DEF ControlRestarts, PreviewsInv
    <3> QED BY <2>1, <3>1, <3>2, <3>3 DEF PreviewsInv, PreviewsTypeOK, SenderRow, PassRow
  <2> QED BY <1>2, <2>1, <2>3, <2>4, JournalRests
<1>4. ASSUME NEW m \in Maintainers, ReconcileErased(m) PROVE PreviewsInv'
  <2>1. /\ UNCHANGED <<piece, sender, shown, overdue, scopeErased, mischances>>
        /\ pass' = [pass EXCEPT ![m] = [pass[m] EXCEPT !.step = "claim"]]
        /\ preview' = [q \in Previews |-> IF q \in scopeErased /\ preview[q] # "none"
                                          THEN "cancelled" ELSE preview[q]]
      BY <1>4 DEF ReconcileErased
  <2>2. PreviewsTypeOK'
    <3>1. [pass[m] EXCEPT !.step = "claim"] \in PassRow
        BY DEF PreviewsInv, PreviewsTypeOK, PassRow
    <3>2. pass' \in [Maintainers -> PassRow]
        BY <2>1, <3>1 DEF PreviewsInv, PreviewsTypeOK, PassRow
    <3>3. preview' \in [Previews -> PreviewState]
        BY <2>1 DEF PreviewsInv, PreviewsTypeOK, PreviewState
    <3> QED BY <2>1, <3>2, <3>3 DEF PreviewsInv, PreviewsTypeOK, PassRow
  <2> QED BY <1>2, <2>1, <2>2, JournalRests
<1> QED BY <1>1, <1>3, <1>4

\* The end of a wait changes what a pass may take, not what the journal says.
LEMMA WaitKeepsInv ==
    ASSUME PreviewsInv, NEW x \in PieceId, WaitOver(x)
    PROVE  PreviewsInv'
<1> DEFINE row == [piece[x] EXCEPT !.waits = FALSE]
<1>1. row \in PieceRow /\ row.state = piece[x].state
  <2>1. piece[x] \in PieceRow
      BY DEF PreviewsInv, PreviewsTypeOK
  <2> QED BY <2>1, PieceUnwaits
<1>2. piece' = [piece EXCEPT ![x] = row] /\ UNCHANGED <<preview, sender, shown, overdue, scopeErased, pass>>
    BY DEF WaitOver
<1> HIDE DEF row
<1>3. piece' \in [PieceId -> PieceRow] /\ \A y \in PieceId : piece'[y].state = piece[y].state
    BY <1>1, <1>2 DEF PreviewsInv, PreviewsTypeOK
<1>4. mischances' \in 0..MaxPreviewMishaps
  <2>1. Mischance \/ mischances' = mischances
      BY DEF WaitOver
  <2> QED BY <2>1, MischanceCounts DEF PreviewsInv, PreviewsTypeOK
<1>5. PreviewsTypeOK'
    BY <1>2, <1>3, <1>4 DEF PreviewsInv, PreviewsTypeOK
<1>6. WaitsToBegin' /\ HandIsJournalled'
  <2>1. \A q \in Previews : InHand(q)' <=> InHand(q)
      BY <1>2 DEF InHand
  <2>2. \A q \in Previews, i \in Chunk : piece'[<<q, i>>].state = piece[<<q, i>>].state
      BY <1>3 DEF PieceId
  <2> QED BY <1>2, <2>1, <2>2 DEF PreviewsInv, WaitsToBegin, HandIsJournalled
<1>7. PassIsJournalled' /\ ShownIsKnown'
  <2>1. shown \subseteq PieceId /\ \A m \in Maintainers : pass[m].due \subseteq PieceId
      BY DEF PreviewsInv, PreviewsTypeOK
  <2> QED BY <1>2, <1>3, <2>1 DEF PreviewsInv, PassIsJournalled, ShownIsKnown
<1> QED BY <1>5, <1>6, <1>7 DEF PreviewsInv

\* A pass takes from the chat what was sent, and never what a delivery has in hand.
LEMMA DeletionKeepsInv ==
    ASSUME PreviewsInv, PreviewsTypeOK', PassIsJournalled', sender' = sender, shown' \subseteq shown,
           \A p \in Previews : \/ preview'[p] = preview[p]
                               \/ preview'[p] \notin {"none", "pending_confirmation"},
           \A x \in PieceId :
              \/ piece'[x] = piece[x]
              \/ /\ piece[x].state \in {"sent", "delete_pending", "delete_failed"}
                 /\ piece'[x].state \in {"delete_pending", "delete_failed", "deleted"},
           \A x \in shown' : piece'[x].state = "deleted" => piece[x].state = "deleted"
    PROVE  PreviewsInv'
<1>1. \A q \in Previews, i \in Chunk :
        piece[<<q, i>>].state \in {"none", "sending"} => piece'[<<q, i>>] = piece[<<q, i>>]
    BY DEF PieceId
<1>2. WaitsToBegin'
  <2> SUFFICES ASSUME NEW p \in Previews, preview'[p] \in {"none", "pending_confirmation"}
               PROVE  sender'[p].step = "off" /\ \A i \in Chunk : piece'[<<p, i>>].state = "none"
      BY DEF WaitsToBegin
  <2>1. sender[p].step = "off" /\ \A i \in Chunk : piece[<<p, i>>].state = "none"
      BY DEF PreviewsInv, WaitsToBegin
  <2> QED BY <1>1, <2>1
<1>3. HandIsJournalled'
  <2> SUFFICES ASSUME NEW p \in Previews, InHand(p)'
               PROVE  /\ sender'[p].at \in Chunk /\ piece'[<<p, sender'[p].at>>].state = "sending"
                      /\ sender'[p].step \in {"call", "rejected"} => <<p, sender'[p].at>> \notin shown'
      BY DEF HandIsJournalled
  <2>1. InHand(p)
      BY DEF InHand
  <2>2. /\ sender[p].at \in Chunk /\ piece[<<p, sender[p].at>>].state = "sending"
        /\ sender[p].step \in {"call", "rejected"} => <<p, sender[p].at>> \notin shown
      BY <2>1 DEF PreviewsInv, HandIsJournalled
  <2> QED BY <1>1, <2>2
<1>4. ShownIsKnown'
  <2>1. \A x \in shown' : x \in PieceId /\ piece[x].state \notin {"none", "pending", "deleted"}
      BY DEF PreviewsInv, PreviewsTypeOK, ShownIsKnown
  <2> QED BY <2>1 DEF ShownIsKnown
<1> QED BY <1>2, <1>3, <1>4 DEF PreviewsInv

\* A claim takes over what was sent and what an earlier pass left.
LEMMA DeletionsKeepInv ==
    ASSUME PreviewsInv, NEW m \in Maintainers, ClaimDeletions(m)
    PROVE  PreviewsInv'
<1> DEFINE found == {x \in PieceId : Deletable(x)}
           row == [state |-> "delete_pending", waits |-> TRUE, claim |-> m]
           p == IF found = {} THEN NoPass ELSE [NoPass EXCEPT !.due = found, !.step = "delete"]
<1>1. /\ piece' = [x \in PieceId |-> IF x \in found THEN row ELSE piece[x]]
      /\ pass' = [pass EXCEPT ![m] = p]
      /\ UNCHANGED <<preview, sender, shown, overdue, scopeErased, mischances>>
    BY DEF ClaimDeletions
<1>2. \A x \in found : piece[x].state \in {"sent", "delete_pending", "delete_failed"}
    BY DEF Deletable
<1>3. row \in PieceRow /\ row.state = "delete_pending"
    BY DEF PieceRow
<1>4. p \in PassRow /\ p.due \subseteq found /\ p.answer = <<>>
  <2>1. found \subseteq PieceId
      OBVIOUS
  <2> HIDE DEF found
  <2>2. /\ [NoPass EXCEPT !.due = found, !.step = "delete"] \in PassRow
        /\ [NoPass EXCEPT !.due = found, !.step = "delete"].due = found
        /\ [NoPass EXCEPT !.due = found, !.step = "delete"].answer = <<>>
      BY <2>1, PassBegins, ZenonT(30)
  <2>3. NoPass \in PassRow /\ NoPass.due = {} /\ NoPass.answer = <<>>
      BY DEF PassRow, NoPass
  <2> QED BY <2>2, <2>3
<1>5. found \subseteq PieceId
    OBVIOUS
<1> HIDE DEF found, row, p
<1>6. PreviewsTypeOK'
  <2>1. piece' \in [PieceId -> PieceRow]
      BY <1>1, <1>3 DEF PreviewsInv, PreviewsTypeOK
  <2>2. pass' \in [Maintainers -> PassRow]
      BY <1>1, <1>4 DEF PreviewsInv, PreviewsTypeOK, PassRow
  <2> QED BY <1>1, <2>1, <2>2 DEF PreviewsInv, PreviewsTypeOK, PassRow
<1>7. PassIsJournalled'
  <2> SUFFICES ASSUME NEW n \in Maintainers
               PROVE  /\ \A x \in pass'[n].due :
                            piece'[x].state \in {"delete_pending", "delete_failed", "deleted"}
                      /\ pass'[n].answer # <<>> =>
                            /\ pass'[n].answer[1] \in pass'[n].due
                            /\ pass'[n].answer[2] => pass'[n].answer[1] \notin shown'
      BY DEF PassIsJournalled
  <2>1. CASE n = m
    <3>1. pass'[n] = p
        BY <1>1, <2>1 DEF PreviewsInv, PreviewsTypeOK
    <3> QED BY <1>1, <1>3, <1>4, <1>5, <3>1
  <2>2. CASE n # m
    <3>1. pass'[n] = pass[n] /\ pass[n].due \subseteq PieceId
        BY <1>1, <2>2 DEF PreviewsInv, PreviewsTypeOK
    <3>2. \A x \in PieceId : piece'[x] = piece[x] \/ piece'[x].state = "delete_pending"
        BY <1>1, <1>3
    <3> QED BY <1>1, <3>1, <3>2 DEF PreviewsInv, PassIsJournalled
  <2> QED BY <2>1, <2>2
<1>8. \A x \in PieceId : \/ piece'[x] = piece[x]
                         \/ /\ piece[x].state \in {"sent", "delete_pending", "delete_failed"}
                            /\ piece'[x].state = "delete_pending"
    BY <1>1, <1>2, <1>3
<1>9. \A x \in shown' : piece'[x].state = "deleted" => piece[x].state = "deleted"
    BY <1>1, <1>8 DEF PreviewsInv, PreviewsTypeOK
<1> QED BY <1>1, <1>6, <1>7, <1>8, <1>9, DeletionKeepsInv

\* The call that deletes: what it reports as deleted is gone from the chat.
LEMMA CallKeepsInv ==
    ASSUME PreviewsInv, NEW m \in Maintainers, NEW x \in PieceId, CallDelete(m, x)
    PROVE  PreviewsInv'
<1>1. /\ UNCHANGED <<preview, piece, sender, overdue, scopeErased>> /\ x \in pass[m].due
      /\ shown' \subseteq shown
    BY DEF CallDelete
<1>2. PICK ok \in BOOLEAN : /\ pass' = [pass EXCEPT ![m].answer = <<x, ok>>]
                            /\ ok => x \notin shown'
    BY DEF CallDelete
<1> DEFINE p == [pass[m] EXCEPT !.answer = <<x, ok>>]
<1>3. pass' = [pass EXCEPT ![m] = p]
    BY <1>2
<1>4. p \in PassRow /\ p.due = pass[m].due /\ p.answer = <<x, ok>>
    BY DEF PreviewsInv, PreviewsTypeOK, PassRow
<1> HIDE DEF p
<1>5. PreviewsTypeOK'
  <2>1. Mischance \/ mischances' = mischances
      BY DEF CallDelete
  <2>2. mischances' \in 0..MaxPreviewMishaps
      BY <2>1, MischanceCounts DEF PreviewsInv, PreviewsTypeOK
  <2>3. pass' \in [Maintainers -> PassRow]
      BY <1>3, <1>4 DEF PreviewsInv, PreviewsTypeOK, PassRow
  <2> QED BY <1>1, <2>2, <2>3 DEF PreviewsInv, PreviewsTypeOK, PassRow
<1>6. PassIsJournalled'
  <2> SUFFICES ASSUME NEW n \in Maintainers
               PROVE  /\ \A y \in pass'[n].due :
                            piece'[y].state \in {"delete_pending", "delete_failed", "deleted"}
                      /\ pass'[n].answer # <<>> =>
                            /\ pass'[n].answer[1] \in pass'[n].due
                            /\ pass'[n].answer[2] => pass'[n].answer[1] \notin shown'
      BY DEF PassIsJournalled
  <2>1. CASE n = m
    <3>1. pass'[n] = p
        BY <1>3, <2>1 DEF PreviewsInv, PreviewsTypeOK
    <3>2. \A y \in pass[m].due : piece[y].state \in {"delete_pending", "delete_failed", "deleted"}
        BY DEF PreviewsInv, PassIsJournalled
    <3> QED BY <1>1, <1>2, <1>4, <3>1, <3>2
  <2>2. CASE n # m
    <3>1. pass'[n] = pass[n]
        BY <1>3, <2>2 DEF PreviewsInv, PreviewsTypeOK
    <3> QED BY <1>1, <3>1 DEF PreviewsInv, PassIsJournalled
  <2> QED BY <2>1, <2>2
<1> QED BY <1>1, <1>5, <1>6, DeletionKeepsInv

\* The result of a call is recorded, unless another pass has taken over or the request was left
\* half delivered; only what is gone is recorded as deleted.
LEMMA ResultKeepsInv ==
    ASSUME PreviewsInv, NEW m \in Maintainers, FinishDeletion(m)
    PROVE  PreviewsInv'
<1> DEFINE x == pass[m].answer[1]
           ok == pass[m].answer[2]
           row == [state |-> IF ok THEN "deleted" ELSE "delete_failed",
                   waits |-> ~ok, claim |-> "nobody"]
           states == {IF i = x[2] THEN row.state ELSE piece[<<x[1], i>>].state : i \in Chunk}
           rest == pass[m].due \ {x}
           left == IF rest = {} THEN NoPass ELSE [pass[m] EXCEPT !.due = rest, !.answer = <<>>]
<1>1. pass[m].answer # <<>> /\ UNCHANGED <<sender, shown, overdue, scopeErased, mischances>>
    BY DEF FinishDeletion
<1>2. x \in PieceId /\ ok \in BOOLEAN /\ x[1] \in Previews
  <2>1. pass[m].answer \in PieceId \X BOOLEAN
      BY <1>1 DEF PreviewsInv, PreviewsTypeOK
  <2> QED BY <2>1 DEF PieceId
<1>3. ok => x \notin shown
    BY <1>1 DEF PreviewsInv, PassIsJournalled
<1>4. pass[m] \in PassRow
    BY DEF PreviewsInv, PreviewsTypeOK, PassRow
<1>5. /\ left \in PassRow /\ NoPass \in PassRow /\ left.due \subseteq pass[m].due
      /\ left.answer = <<>> /\ NoPass.due = {} /\ NoPass.answer = <<>>
    BY <1>4 DEF PassRow, NoPass
<1>6. row \in PieceRow /\ row.state = IF ok THEN "deleted" ELSE "delete_failed"
    BY <1>2 DEF PieceRow
<1>7. \/ /\ piece[x].state = "delete_pending" /\ piece' = [piece EXCEPT ![x] = row]
         /\ preview' = [preview EXCEPT ![x[1]] = AfterDeletion(x[1], states)]
         /\ pass' = [pass EXCEPT ![m] = left]
      \/ pass' = [pass EXCEPT ![m] = NoPass] /\ UNCHANGED <<piece, preview>>
    BY DEF FinishDeletion
<1>8. AfterDeletion(x[1], states) \in PreviewState \ {"none", "pending_confirmation"}
    BY DEF AfterDeletion, PreviewState
<1> DEFINE after == AfterDeletion(x[1], states)
<1> HIDE DEF x, ok, row, left, after
<1>9. /\ \/ /\ piece[x].state = "delete_pending" /\ piece' = [piece EXCEPT ![x] = row]
            /\ preview' = [preview EXCEPT ![x[1]] = after]
         \/ UNCHANGED <<piece, preview>>
      /\ \E p \in {left, NoPass} : pass' = [pass EXCEPT ![m] = p]
    BY <1>7 DEF after
<1>10. \A y \in PieceId :
         \/ piece'[y] = piece[y]
         \/ /\ y = x /\ piece[y].state = "delete_pending"
            /\ piece'[y].state = IF ok THEN "deleted" ELSE "delete_failed"
    BY <1>2, <1>6, <1>9 DEF PreviewsInv, PreviewsTypeOK
<1>11. \A q \in Previews : preview'[q] = preview[q]
                           \/ preview'[q] \notin {"none", "pending_confirmation"}
    BY <1>2, <1>8, <1>9 DEF after, PreviewsInv, PreviewsTypeOK
<1>12. PreviewsTypeOK'
  <2>1. piece' \in [PieceId -> PieceRow]
      BY <1>2, <1>6, <1>9 DEF PreviewsInv, PreviewsTypeOK
  <2>2. preview' \in [Previews -> PreviewState]
    <3>1. after \in PreviewState
        BY <1>8 DEF after
    <3> QED BY <1>2, <1>9, <3>1 DEF PreviewsInv, PreviewsTypeOK
  <2>3. pass' \in [Maintainers -> PassRow]
      BY <1>5, <1>9 DEF PreviewsInv, PreviewsTypeOK, PassRow
  <2> QED BY <1>1, <2>1, <2>2, <2>3 DEF PreviewsInv, PreviewsTypeOK, PassRow
<1>13. PassIsJournalled'
  <2> SUFFICES ASSUME NEW n \in Maintainers
               PROVE  /\ \A y \in pass'[n].due :
                            piece'[y].state \in {"delete_pending", "delete_failed", "deleted"}
                      /\ pass'[n].answer # <<>> =>
                            /\ pass'[n].answer[1] \in pass'[n].due
                            /\ pass'[n].answer[2] => pass'[n].answer[1] \notin shown'
      BY DEF PassIsJournalled
  <2>1. /\ pass'[n].due \subseteq pass[n].due
        /\ pass'[n].answer = <<>> \/ pass'[n] = pass[n]
      BY <1>5, <1>9 DEF PreviewsInv, PreviewsTypeOK
  <2>2. \A y \in pass[n].due :
           y \in PieceId /\ piece[y].state \in {"delete_pending", "delete_failed", "deleted"}
      BY DEF PreviewsInv, PreviewsTypeOK, PassIsJournalled
  <2>3. \A y \in pass[n].due : piece'[y].state \in {"delete_pending", "delete_failed", "deleted"}
      BY <1>10, <2>2
  <2> QED BY <1>1, <2>1, <2>3 DEF PreviewsInv, PassIsJournalled
<1>14. \A y \in shown' : piece'[y].state = "deleted" => piece[y].state = "deleted"
  <2>1. \A y \in shown : y \in PieceId
      BY DEF PreviewsInv, PreviewsTypeOK
  <2> QED BY <1>1, <1>3, <1>10, <2>1 DEF x, ok
<1>15. \A y \in PieceId :
         \/ piece'[y] = piece[y]
         \/ /\ piece[y].state \in {"sent", "delete_pending", "delete_failed"}
            /\ piece'[y].state \in {"delete_pending", "delete_failed", "deleted"}
    BY <1>10
<1> QED BY <1>1, <1>11, <1>12, <1>13, <1>14, <1>15, DeletionKeepsInv

\* Whatever a step does, the journal stays ahead of the chat.
LEMMA PreviewsInvInductive == PreviewsInv /\ [PreviewsNext]_previewsVars => PreviewsInv'
<1> SUFFICES ASSUME PreviewsInv, [PreviewsNext]_previewsVars PROVE PreviewsInv'
    OBVIOUS
<1>1. CASE UNCHANGED previewsVars
  <2>1. UNCHANGED <<preview, piece, sender, shown, pass>> /\ PreviewsTypeOK'
      BY <1>1 DEF previewsVars, PreviewsInv, PreviewsTypeOK
  <2> QED BY <2>1, JournalRests, PassesRest
<1>2. ASSUME NEW q \in Previews, DeliveryStep(q) PROVE PreviewsInv'
    BY <1>2, ClaimKeepsInv, SendKeepsInv, RecordKeepsInv, RetryKeepsInv, FinishKeepsInv DEF DeliveryStep
<1>3. ASSUME NEW m \in Maintainers, MaintenanceStep(m) PROVE PreviewsInv'
    BY <1>3, SurroundingsKeepInv, DeletionsKeepInv, CallKeepsInv, ResultKeepsInv DEF MaintenanceStep
<1>4. ASSUME NEW q \in Previews,
             IssuePreview(q) \/ ConfirmPreview(q) \/ RefusePreview(q) \/ FallDue(q) \/ EraseScope(q)
      PROVE  PreviewsInv'
    BY <1>4, RequestKeepsInv, ConfirmKeepsInv, SurroundingsKeepInv
<1>5. ASSUME NEW m \in Maintainers, ControlRestarts(m) PROVE PreviewsInv'
    BY <1>5, SurroundingsKeepInv
<1>6. ASSUME NEW x \in PieceId, WaitOver(x) PROVE PreviewsInv'
    BY <1>6, WaitKeepsInv
<1>7. UNCHANGED previewsVars \/ PreviewsNext
    OBVIOUS
<1> QED BY <1>1, <1>2, <1>3, <1>4, <1>5, <1>6, <1>7 DEF PreviewsNext

\* At first there is no request, and nothing is in the chat.
LEMMA PreviewsInvInit == PreviewsInit => PreviewsInv
<1> SUFFICES ASSUME PreviewsInit PROVE PreviewsInv
    OBVIOUS
<1>1. NoPiece \in PieceRow /\ NoPiece.state = "none"
    BY DEF NoPiece, PieceRow
<1>2. Unsent \in SenderRow /\ Unsent.step = "off"
    BY DEF Unsent, SenderRow
<1>3. NoPass \in PassRow /\ NoPass.due = {} /\ NoPass.answer = <<>>
    BY DEF NoPass, PassRow
<1>4. PreviewsTypeOK
    BY <1>1, <1>2, <1>3 DEF PreviewsInit, PreviewsTypeOK, PreviewState, SenderRow, PassRow
<1>5. WaitsToBegin
    BY <1>1, <1>2 DEF PreviewsInit, WaitsToBegin, PieceId
<1>6. HandIsJournalled /\ PassIsJournalled /\ ShownIsKnown
    BY <1>2, <1>3 DEF PreviewsInit, HandIsJournalled, InHand, PassIsJournalled, ShownIsKnown
<1> QED BY <1>4, <1>5, <1>6 DEF PreviewsInv

\* The journal of a preview is ahead of the chat, whatever the fairness.
LEMMA PreviewsSafely == PreviewsInit /\ [][PreviewsNext]_previewsVars => []ShownIsJournalled
<1>1. PreviewsInv => ShownIsJournalled
    BY DEF PreviewsInv, ShownIsKnown, HandIsJournalled, InHand, ShownIsJournalled
<1> QED BY <1>1, PreviewsInvInit, PreviewsInvInductive, PTL

\* Whatever is lost, restarted or overlaps, the journal of a preview knows each of its messages
\* that is in the chat, none that is there is sent again, and none is recorded as deleted.
THEOREM PreviewsSpecShownIsJournalled == PreviewsSpec => []ShownIsJournalled
BY PreviewsSafely, PTL DEF PreviewsSpec

-----------------------------------------------------------------------------
(***************************************************************************)
(* All services of the processes.  Whichever service is in focus, a step   *)
(* is a step of that service and none of the others; so each keeps beside  *)
(* the others what it keeps alone.                                         *)
(***************************************************************************)

\* Each service begins as it does alone.
LEMMA AppServicesBegin ==
    ASSUME AppInit
    PROVE  Init /\ RequestsInit /\ KeysInit /\ OwnerInit /\ UpdatesInit /\ PreviewsInit
BY DEF AppInit

\* A step is a step of each service, or leaves it alone.
LEMMA AppServiceSteps ==
    ASSUME [AppNext]_appVars
    PROVE  /\ [Next]_vars /\ [RequestsNext]_requestsVars /\ [KeysNext]_keysVars
           /\ [OwnerNext]_ownerVars /\ [UpdatesNext]_updatesVars
           /\ [PreviewsNext]_previewsVars
<1>1. CASE UNCHANGED appVars
  BY <1>1 DEF appVars
<1>2. CASE AppNext
  BY <1>2 DEF AppNext, besideDelivery, besideRequests, besideKeys, besideOwner, besideUpdates,
              besidePreviews
<1>. QED
  BY <1>1, <1>2

\* What the services of `app` and `control` keep beside each other: no profile without a key is
\* active, commands take effect once and in order, a run sends one request, the Session has one
\* user, the journal of a preview is ahead of the chat, an output reaches the contact as the
\* ordered output does and the commands take effect as the command stream does.
THEOREM AppSpecSafe ==
    AppSpec => /\ [](ActiveProfileHasKey /\ CommandsOnceInOrder /\ OneRequestPerRun /\ SoleSession)
               /\ []ShownIsJournalled /\ KeepsPromise /\ KeepsStream
<1>1. AppSpec => Spec
  BY AppServicesBegin, AppServiceSteps, PTL DEF AppSpec, Spec
<1>2. AppSpec => RequestsSpec
  BY AppServicesBegin, AppServiceSteps, PTL DEF AppSpec, RequestsSpec
<1>3. AppSpec => KeysInit /\ [][KeysNext]_keysVars
  BY AppServicesBegin, AppServiceSteps, PTL DEF AppSpec
<1>4. AppSpec => OwnerInit /\ [][OwnerNext]_ownerVars
  BY AppServicesBegin, AppServiceSteps, PTL DEF AppSpec
<1>5. AppSpec => UpdatesInit /\ [][UpdatesNext]_updatesVars
  BY AppServicesBegin, AppServiceSteps, PTL DEF AppSpec
<1>6. AppSpec => PreviewsInit /\ [][PreviewsNext]_previewsVars
  BY AppServicesBegin, AppServiceSteps, PTL DEF AppSpec
<1>. QED
  BY <1>1, <1>2, <1>3, <1>4, <1>5, <1>6, KeepsPromiseHolds, RequestsSpecOneRequestPerRun,
     KeysSafely, OwnerSafely, UpdatesSafely, StreamSafely, PreviewsSafely, PTL
=============================================================================
