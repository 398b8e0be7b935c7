--------------------------- MODULE DeliveryProofs ---------------------------
(***************************************************************************)
(* Theorems about Delivery, for any number of groups and chunks and any    *)
(* bound on restarts and mishaps.                                          *)
(***************************************************************************)
EXTENDS Delivery, TLAPS

USE ConstantsAssumption

-----------------------------------------------------------------------------
(* Chunks.                                                                 *)

\* A chunk is a pair of its group and its ordinal.
LEMMA IntentIsPair ==
    ASSUME NEW i \in Intent
    PROVE  /\ GroupOf(i) \in Group /\ Ordinal(i) \in 1..Size[GroupOf(i)]
           /\ Size[GroupOf(i)] \in Nat /\ Ordinal(i) \in Nat
           /\ i = <<GroupOf(i), Ordinal(i)>>
  <1>1. PICK g \in Group : i \in {g} \X (1..Size[g])
    BY DEF Intent
  <1> QED
    BY <1>1 DEF GroupOf, Ordinal, Group

\* Every position of a group is a chunk of it.
LEMMA PairIsIntent ==
    ASSUME NEW g \in Group, NEW n \in 1..Size[g]
    PROVE  <<g, n>> \in Intent /\ GroupOf(<<g, n>>) = g /\ Ordinal(<<g, n>>) = n
  BY DEF Intent, GroupOf, Ordinal

\* A group has a first chunk.
LEMMA FirstIsIntent ==
    ASSUME NEW g \in Group
    PROVE  <<g, 1>> \in Intent
  <1>1. 1 \in 1..Size[g]
    BY DEF Group
  <1> QED
    BY <1>1, PairIsIntent

\* NoIntent is not a chunk.
LEMMA NoIntentIsNone == NoIntent \notin Intent
  BY DEF Intent, NoIntent, Group

\* Whatever its chunks' states, a refreshed group has one of five states.
LEMMA RefreshedState ==
    ASSUME NEW g, NEW st
    PROVE  Refreshed(g, st) \in {"sent", "unknown", "partial", "failed", "sending"}
  BY DEF Refreshed
-----------------------------------------------------------------------------
(* Type correctness.                                                       *)

\* Cancelling touches unclaimed chunks only.
LEMMA CancelUnclaimedEffect ==
    ASSUME TypeOK, NEW S
    PROVE  /\ CancelUnclaimed(S) \in [Intent -> IntentState]
           /\ \A i \in Intent :
                \/ CancelUnclaimed(S)[i] = istate[i]
                \/ /\ istate[i] \in {"pending", "retry_wait"}
                   /\ CancelUnclaimed(S)[i] = "cancelled"
  BY DEF CancelUnclaimed, TypeOK, IntentState

\* Invalidation leaves a group state and chunk states behind.
LEMMA CancelPlannedEffect ==
    ASSUME TypeOK, NEW g \in Group, CancelPlanned(g)
    PROVE  /\ groupState' \in [Group -> GroupState]
           /\ istate' \in [Intent -> IntentState]
           /\ \A i \in Intent :
                \/ istate'[i] = istate[i]
                \/ istate[i] \in {"pending", "retry_wait"} /\ istate'[i] = "cancelled"
           /\ \A h \in Group : \/ groupState'[h] = groupState[h]
                               \/ groupState[h] = "planned"
  <1>1. groupState' \in [Group -> GroupState]
    BY DEF CancelPlanned, TypeOK, GroupState
  <1>2. istate' = istate \/ istate' = CancelUnclaimed(IntentsOf(g))
    BY DEF CancelPlanned
  <1>3. /\ istate' \in [Intent -> IntentState]
        /\ \A i \in Intent :
             \/ istate'[i] = istate[i]
             \/ istate[i] \in {"pending", "retry_wait"} /\ istate'[i] = "cancelled"
    BY <1>2, CancelUnclaimedEffect DEF TypeOK
  <1>4. \A h \in Group : groupState'[h] = groupState[h] \/ groupState[h] = "planned"
    BY DEF CancelPlanned, TypeOK
  <1> QED
    BY <1>1, <1>3, <1>4

\* The turn and its lease stay well typed when the turn is cancelled or completed.
LEMMA TurnEnds ==
    ASSUME TypeOK, NEW g \in Group, NEW projected,
           CancelTurn(g) \/ CompleteTurnIfDelivered(g, projected)
    PROVE  turn' \in [Group -> TurnState] /\ lease' \in [Group -> Nat]
  BY DEF CancelTurn, CompleteTurnIfDelivered, TypeOK, TurnState, NoOwner

\* Every step keeps every variable in its range.
LEMMA TypeStep == TypeOK /\ [Next]_vars => TypeOK'
  <1> SUFFICES ASSUME TypeOK, [Next]_vars PROVE TypeOK'
    OBVIOUS
  <1> USE DEF groupVars, intentVars, laneVars, telegramVars
  <1>1. CASE UNCHANGED vars
    BY <1>1 DEF TypeOK, vars
  <1>2. CASE SelectGroup
    BY <1>2, FirstIsIntent DEF SelectGroup, Selectable, TypeOK
  <1>3. CASE AdmissionRefused
    BY <1>3 DEF AdmissionRefused, Mishap, Idle, TypeOK, Outcome
  <1>4. CASE PreflightClaim
    <2>1. GroupOf(cur) \in Group /\ cur \in Intent
      BY <1>4, IntentIsPair DEF PreflightClaim, TypeOK
    <2>2. lease' \in [Group -> Nat]
      BY <1>4, <2>1 DEF PreflightClaim, TakeLease, LeaseAtPreflight, TypeOK
    <2>3. /\ istate' \in [Intent -> IntentState]
          /\ attemptState' \in [Intent -> AttemptState]
          /\ sendLease' \in [Intent -> BOOLEAN] /\ due' \in [Intent -> BOOLEAN]
      BY <1>4, <2>1 DEF PreflightClaim, TypeOK, IntentState, AttemptState
    <2>4. attempt' \in [Intent -> Nat] /\ token' \in Nat
      BY <1>4, <2>1 DEF PreflightClaim, TypeOK
    <2>5. groupState' \in [Group -> GroupState]
      BY <1>4, <2>1 DEF PreflightClaim, TypeOK, GroupState
    <2> QED
      BY <1>4, <2>1, <2>2, <2>3, <2>4, <2>5 DEF PreflightClaim, TypeOK
  <1>5. CASE PreflightCut
    <2>1. GroupOf(cur) \in Group
      BY <1>5, IntentIsPair DEF PreflightCut, TypeOK
    <2>2. lease' \in [Group -> Nat]
      BY <1>5, <2>1 DEF PreflightCut, TakeLease, LeaseAtPreflight, TypeOK
    <2>3. istate' \in [Intent -> IntentState]
      BY <1>5, CancelUnclaimedEffect DEF PreflightCut
    <2>4. groupState' \in [Group -> GroupState]
      BY <1>5, <2>1 DEF PreflightCut, TypeOK, GroupState
    <2> QED
      BY <1>5, <2>2, <2>3, <2>4 DEF PreflightCut, Idle, TypeOK, Outcome
  <1>6. CASE PreflightNothing
    <2>1. GroupOf(cur) \in Group
      BY <1>6, IntentIsPair DEF PreflightNothing, TypeOK
    <2>2. lease' \in [Group -> Nat]
      BY <1>6, <2>1 DEF PreflightNothing, TakeLease, LeaseAtPreflight, TypeOK
    <2> QED
      BY <1>6, <2>2 DEF PreflightNothing, Idle, TypeOK, Outcome
  <1>7. CASE RefusedAfterClaim
    BY <1>7 DEF RefusedAfterClaim, Mishap, TypeOK, Outcome
  <1>8. CASE CallTelegram
    BY <1>8 DEF CallTelegram, TypeOK
  <1>9. CASE AnswerAccepted
    BY <1>9 DEF AnswerAccepted, TypeOK, Outcome
  <1>10. CASE AnswerRejected
    BY <1>10 DEF AnswerRejected, Mishap, TypeOK, Outcome
  <1>11. CASE AnswerLost
    BY <1>11 DEF AnswerLost, Mishap, TypeOK, Outcome
  <1>12. CASE SettleFenced
    <2>1. cur \in Intent /\ GroupOf(cur) \in Group /\ Ordinal(cur) \in Nat
          /\ Size[GroupOf(cur)] \in Nat /\ Ordinal(cur) \in 1..Size[GroupOf(cur)]
      BY <1>12, IntentIsPair DEF SettleFenced, TypeOK
    <2>2. SettledAs(reply) \in IntentState /\ reply \in AttemptState
      BY DEF SettledAs, TypeOK, IntentState, Outcome, AttemptState
    <2>3. /\ istate' \in [Intent -> IntentState]
          /\ attemptState' \in [Intent -> AttemptState]
          /\ sendLease' \in [Intent -> BOOLEAN] /\ due' \in [Intent -> BOOLEAN]
      BY <1>12, <2>1, <2>2 DEF SettleFenced, TypeOK
    <2>4. groupState' \in [Group -> GroupState]
      BY <1>12, <2>1, RefreshedState DEF SettleFenced, TypeOK, GroupState
    <2>5. /\ pc' \in {"idle", "preflight", "claimed", "waiting", "answered"}
          /\ cur' \in Intent \union {NoIntent} /\ (pc' # "idle" => cur' \in Intent)
          /\ token' \in Nat /\ reply' \in Outcome
      <3>1. CASE reply = "succeeded" /\ Ordinal(cur) < Size[GroupOf(cur)]
        <4>1. Ordinal(cur) + 1 \in 1..Size[GroupOf(cur)]
          BY <2>1, <3>1
        <4>2. <<GroupOf(cur), Ordinal(cur) + 1>> \in Intent
          BY <2>1, <4>1, PairIsIntent
        <4> QED
          BY <1>12, <3>1, <4>2 DEF SettleFenced, Outcome
      <3>2. CASE ~(reply = "succeeded" /\ Ordinal(cur) < Size[GroupOf(cur)])
        BY <1>12, <3>2 DEF SettleFenced, Idle, Outcome
      <3> QED
        BY <3>1, <3>2
    <2> QED
      BY <1>12, <2>3, <2>4, <2>5 DEF SettleFenced, TypeOK
  <1>13. CASE SettleRefused
    BY <1>13 DEF SettleRefused, Idle, TypeOK, Outcome
  <1>14. CASE Recover
    <2>1. istate' \in [Intent -> IntentState] /\ attemptState' \in [Intent -> AttemptState]
      BY <1>14 DEF Recover, RecoveredState, TypeOK, IntentState, AttemptState
    <2>2. groupState' \in [Group -> GroupState]
      BY <1>14, RefreshedState DEF Recover, TypeOK, GroupState
    <2> QED
      BY <1>14, <2>1, <2>2 DEF Recover, TypeOK
  <1>15. CASE Restart
    BY <1>15 DEF Restart, Idle, TypeOK, Outcome
  <1>16. ASSUME NEW g \in Group, GroupStep(g) PROVE TypeOK'
    <2>1. CASE CreateByRun(g)
      BY <2>1, FirstIsIntent DEF CreateByRun, TypeOK, GroupState
    <2>2. CASE CreateByWorker(g)
      BY <2>2 DEF CreateByWorker, TypeOK, GroupState
    <2>3. CASE TurnLeaseLapses(g)
      BY <2>3 DEF TurnLeaseLapses, TypeOK, NoOwner
    <2>4. CASE HumanConfirmed(g)
      <3>1. /\ groupState' \in [Group -> GroupState] /\ istate' \in [Intent -> IntentState]
            /\ turn' \in [Group -> TurnState] /\ lease' \in [Group -> Nat]
        BY <2>4, CancelPlannedEffect, TurnEnds DEF HumanConfirmed
      <3> QED
        BY <2>4, <3>1 DEF HumanConfirmed, TypeOK
    <2>5. CASE HumanPending(g)
      BY <2>5 DEF HumanPending, TypeOK
    <2>6. CASE Incoming(g)
      BY <2>6 DEF Incoming, TypeOK
    <2>7. CASE Invalidate(g)
      <3>1. /\ groupState' \in [Group -> GroupState] /\ istate' \in [Intent -> IntentState]
            /\ turn' \in [Group -> TurnState] /\ lease' \in [Group -> Nat]
        BY <2>7, CancelPlannedEffect, TurnEnds DEF Invalidate
      <3> QED
        BY <2>7, <3>1 DEF Invalidate, TypeOK
    <2> QED
      BY <1>16, <2>1, <2>2, <2>3, <2>4, <2>5, <2>6, <2>7 DEF GroupStep
  <1>17. ASSUME NEW i \in Intent, IntentStep(i) PROVE TypeOK'
    <2>1. CASE SendLeaseLapses(i)
      BY <2>1 DEF SendLeaseLapses, TypeOK
    <2>2. CASE RetryFallsDue(i)
      BY <2>2 DEF RetryFallsDue, TypeOK
    <2>3. CASE Accept(i)
      BY <2>3 DEF Accept, TypeOK
    <2>4. CASE Drop(i)
      BY <2>4 DEF Drop, Mishap, TypeOK
    <2>5. CASE MapMessageId(i)
      <3>1. groupState' \in [Group -> GroupState]
        BY <2>5, IntentIsPair, RefreshedState DEF MapMessageId, TypeOK, GroupState
      <3>2. istate' \in [Intent -> IntentState] /\ attemptState' \in [Intent -> AttemptState]
        BY <2>5 DEF MapMessageId, TypeOK, IntentState, AttemptState
      <3> QED
        BY <2>5, <3>1, <3>2 DEF MapMessageId, TypeOK
    <2>6. CASE Echo(i)
      <3>1. turn' \in [Group -> TurnState] /\ lease' \in [Group -> Nat]
        BY <2>6, IntentIsPair, TurnEnds DEF Echo, TypeOK
      <3>2. groupState' \in [Group -> GroupState]
        BY <2>6, IntentIsPair, RefreshedState DEF Echo, ReconcileGroup, TypeOK, GroupState
      <3>3. echo' \in [Intent -> EchoState] /\ fresh' \in [Group -> BOOLEAN]
        BY <2>6 DEF Echo, Classified, TypeOK, EchoState
      <3> QED
        BY <2>6, <3>1, <3>2, <3>3 DEF Echo, TypeOK
    <2>7. CASE EchoEdited(i)
      <3> DEFINE projected == [echo EXCEPT ![i] = IF Correctable(i) THEN "corrected" ELSE @]
      <3>1. GroupOf(i) \in Group
        BY IntentIsPair
      <3>2. CancelTurn(GroupOf(i)) \/ CompleteTurnIfDelivered(GroupOf(i), projected)
        BY <2>7 DEF EchoEdited
      <3>3. turn' \in [Group -> TurnState] /\ lease' \in [Group -> Nat]
        BY <3>1, <3>2, TurnEnds
      <3>4. groupState' \in [Group -> GroupState] /\ istate' \in [Intent -> IntentState]
        <4>1. CASE Correctable(i)
          BY <2>7, <3>1, <4>1, RefreshedState DEF EchoEdited, ReconcileGroup, TypeOK, GroupState
        <4>2. CASE ~Correctable(i)
          BY <2>7, <3>1, <4>2, CancelPlannedEffect DEF EchoEdited
        <4> QED
          BY <4>1, <4>2
      <3>5. echo' = projected /\ Mishap /\ fresh' = [fresh EXCEPT ![GroupOf(i)] = FALSE]
        BY <2>7 DEF EchoEdited
      <3>6. echo' \in [Intent -> EchoState]
        BY <3>5 DEF TypeOK, EchoState
      <3>7. fresh' \in [Group -> BOOLEAN] /\ adverse' \in Nat
        BY <3>1, <3>5 DEF Mishap, TypeOK
      <3> QED
        BY <2>7, <3>3, <3>4, <3>6, <3>7 DEF EchoEdited, TypeOK
    <2> QED
      BY <1>17, <2>1, <2>2, <2>3, <2>4, <2>5, <2>6, <2>7 DEF IntentStep
  <1> QED
    BY <1>1, <1>2, <1>3, <1>4, <1>5, <1>6, <1>7, <1>8, <1>9, <1>10, <1>11, <1>12, <1>13,
       <1>14, <1>15, <1>16, <1>17 DEF Next, LaneStep

LEMMA TypeInit == Init => TypeOK
  BY DEF Init, TypeOK, GroupState, TurnState, IntentState, AttemptState, EchoState, Outcome,
         NoOwner

\* Every reachable state is well typed: in particular the lane, when it is not idle,
\* always stands at an existing chunk, also after it moved on to the next ordinal.
THEOREM TypeCorrect == Spec => []TypeOK
  BY TypeInit, TypeStep, PTL DEF Spec

-----------------------------------------------------------------------------
(* The inductive invariant.                                                *)

Touched == net \union accepted     \* chunks whose submission left the process
Held == pc \in {"claimed", "waiting", "answered"}

\* What the database says of a chunk against what Telegram did with it.
ChunkInv ==
    /\ NoBlindResend
    /\ SentIsVisible
    /\ net \intersect accepted = {}
    /\ \A i \in Touched : attempt[i] > 0
    /\ \A i \in Intent : attempt[i] > 0 => \A j \in Earlier(i) : istate[j] = "sent"

\* What the lane knows of the chunk it claimed: the chunk is in nobody else's hands,
\* it is untouched until the call, and the answer tells what Telegram did.
LaneInv ==
    /\ Held => attempt[cur] > 0 /\ istate[cur] \in {"sending", "unknown", "sent"}
    /\ pc = "claimed" => cur \notin Touched
    /\ pc = "answered" /\ reply = "succeeded" => cur \in accepted
    /\ pc = "answered" /\ reply \in {"flood_wait", "transient", "permanent"} => cur \notin Touched

\* Before its first claim, and only then, a group may be planned or cancelled.
GroupInv ==
    \A g \in Group : groupState[g] \in {"absent", "planned", "cancelled"} => ~SideEffectStarted(g)

IInv == ChunkInv /\ LaneInv /\ OpenAttemptIsSending /\ GroupInv

LEMMA InvInit == Init => IInv
  BY DEF Init, IInv, ChunkInv, LaneInv, GroupInv, NoBlindResend, SentIsVisible, Touched, Held,
         OpenAttemptIsSending, SideEffectStarted, IntentsOf

\* Chunks ordered before a chunk are chunks of its group.
LEMMA EarlierIsIntent ==
    ASSUME NEW i \in Intent
    PROVE  Earlier(i) \subseteq Intent
  BY DEF Earlier, IntentsOf

\* Cancelling unclaimed chunks disturbs nothing: it moves no chunk that was claimed,
\* settled or submitted.
LEMMA CancellingKeepsChunks ==
    ASSUME TypeOK, ChunkInv, OpenAttemptIsSending, istate' \in [Intent -> IntentState],
           \A i \in Intent :
                \/ istate'[i] = istate[i]
                \/ istate[i] \in {"pending", "retry_wait"} /\ istate'[i] = "cancelled",
           UNCHANGED <<attempt, attemptState, net, accepted>>
    PROVE  ChunkInv' /\ OpenAttemptIsSending'
  <1>1. NoBlindResend' /\ SentIsVisible'
    BY DEF ChunkInv, NoBlindResend, SentIsVisible, TypeOK
  <1>2. \A i \in Intent : attempt'[i] > 0 => \A j \in Earlier(i) : istate'[j] = "sent"
    BY EarlierIsIntent DEF ChunkInv
  <1>3. OpenAttemptIsSending'
    BY DEF OpenAttemptIsSending
  <1> QED
    BY <1>1, <1>2, <1>3 DEF ChunkInv, Touched

\* The lane's chunk keeps its standing when the lane and its chunk stay as they are.
LEMMA LaneKept ==
    ASSUME TypeOK, LaneInv, UNCHANGED <<pc, cur, reply, attempt, net, accepted>>,
           \A i \in Intent : istate[i] \in {"sending", "unknown", "sent"}
                                => istate'[i] \in {"sending", "unknown", "sent"}
    PROVE  LaneInv'
  BY DEF LaneInv, Held, Touched, TypeOK

LEMMA IdleLane ==
    ASSUME pc' = "idle"
    PROVE  LaneInv'
  BY DEF LaneInv, Held

\* Group states other than the three are not constrained; the three need a group
\* whose attempts did not change.
LEMMA GroupKept ==
    ASSUME GroupInv, UNCHANGED attempt,
           \A g \in Group : groupState'[g] \in {"absent", "planned", "cancelled"} =>
                \/ groupState[g] \in {"absent", "planned", "cancelled"}
                \/ ~SideEffectStarted(g)
    PROVE  GroupInv'
  BY DEF GroupInv, SideEffectStarted

LEMMA Invalidated ==
    ASSUME TypeOK, IInv, NEW g \in Group, CancelPlanned(g),
           UNCHANGED <<attempt, attemptState, net, accepted, pc, cur, reply>>
    PROVE  IInv'
  <1>1. ChunkInv' /\ OpenAttemptIsSending'
    BY CancelPlannedEffect, CancellingKeepsChunks DEF IInv
  <1>2. LaneInv'
    BY CancelPlannedEffect, LaneKept DEF IInv
  <1>3. GroupInv'
    BY CancelPlannedEffect, GroupKept DEF IInv
  <1> QED
    BY <1>1, <1>2, <1>3 DEF IInv

\* Nothing that the invariant speaks of changes.
LEMMA Quiet ==
    ASSUME IInv, UNCHANGED <<istate, attempt, attemptState, net, accepted, pc, cur, reply,
                             groupState>>
    PROVE  IInv'
  BY DEF IInv, ChunkInv, LaneInv, GroupInv, NoBlindResend, SentIsVisible, Touched, Held,
         OpenAttemptIsSending, SideEffectStarted

\* A group is refreshed over chunks that stay as they are.
LEMMA Regrouped ==
    ASSUME TypeOK, IInv, NEW i \in Intent, ReconcileGroup(GroupOf(i)),
           UNCHANGED <<istate, attempt, attemptState, net, accepted, pc, cur, reply>>
    PROVE  IInv'
  <1>1. \A g \in Group : groupState'[g] \in {"absent", "planned", "cancelled"} =>
            groupState[g] \in {"absent", "planned", "cancelled"}
    BY RefreshedState DEF ReconcileGroup, TypeOK
  <1>2. GroupInv'
    BY <1>1, GroupKept DEF IInv
  <1> QED
    BY <1>2 DEF IInv, ChunkInv, LaneInv, NoBlindResend, SentIsVisible, Touched, Held,
       OpenAttemptIsSending

\* Only the lane moves, and to a place where it holds nothing.
LEMMA LaneLetsGo ==
    ASSUME IInv, UNCHANGED <<istate, attempt, attemptState, net, accepted, groupState>>,
           pc' \in {"idle", "preflight"}
    PROVE  IInv'
  BY DEF IInv, ChunkInv, LaneInv, GroupInv, NoBlindResend, SentIsVisible, Touched, Held,
         OpenAttemptIsSending, SideEffectStarted

\* The step of each action that moves a chunk.
LEMMA ClaimStep == TypeOK /\ IInv /\ PreflightClaim => IInv'
  <1> SUFFICES ASSUME TypeOK, IInv, PreflightClaim PROVE IInv'
    OBVIOUS
  <1>1. /\ cur \in Intent /\ GroupOf(cur) \in Group
        /\ cur' = cur /\ pc' = "claimed" /\ UNCHANGED <<net, accepted>>
        /\ istate[cur] \in {"pending", "retry_wait"} /\ OrdinalReady(cur)
    BY IntentIsPair DEF PreflightClaim, Claimable, TypeOK, telegramVars
  <1>2. /\ istate' = [istate EXCEPT ![cur] = "sending"]
        /\ attempt' = [attempt EXCEPT ![cur] = @ + 1]
        /\ attemptState' = [attemptState EXCEPT ![cur] = "started"]
        /\ groupState' = [groupState EXCEPT ![GroupOf(cur)] = "sending"]
    BY DEF PreflightClaim
  <1>3. cur \notin Touched
    BY <1>1 DEF IInv, ChunkInv, NoBlindResend, Touched
  <1>4. ChunkInv'
    <2>1. NoBlindResend' /\ SentIsVisible' /\ net' \intersect accepted' = {}
      BY <1>1, <1>2 DEF IInv, ChunkInv, NoBlindResend, SentIsVisible, TypeOK
    <2>2. \A i \in Touched' : attempt'[i] > 0
      BY <1>1, <1>2 DEF IInv, ChunkInv, Touched, TypeOK
    <2>3. \A i \in Intent : attempt'[i] > 0 => \A j \in Earlier(i) : istate'[j] = "sent"
      <3> SUFFICES ASSUME NEW i \in Intent, attempt'[i] > 0, NEW j \in Earlier(i)
                   PROVE  istate'[j] = "sent"
        OBVIOUS
      <3>1. j \in Intent
        BY EarlierIsIntent
      <3>2. istate[j] = "sent"
        <4>1. CASE i = cur
          BY <4>1, <1>1 DEF OrdinalReady
        <4>2. CASE i # cur
          BY <4>2, <1>2 DEF IInv, ChunkInv, TypeOK
        <4> QED
          BY <4>1, <4>2
      <3> QED
        BY <3>1, <3>2, <1>1, <1>2 DEF TypeOK
    <2> QED
      BY <2>1, <2>2, <2>3 DEF ChunkInv
  <1>5. LaneInv'
    <2>1. attempt'[cur] > 0 /\ istate'[cur] = "sending"
      BY <1>1, <1>2 DEF TypeOK
    <2> QED
      BY <2>1, <1>1, <1>3 DEF LaneInv, Held, Touched
  <1>6. OpenAttemptIsSending'
    BY <1>1, <1>2 DEF IInv, OpenAttemptIsSending, TypeOK
  <1>7. GroupInv'
    <2> SUFFICES ASSUME NEW g \in Group, groupState'[g] \in {"absent", "planned", "cancelled"}
                 PROVE  ~SideEffectStarted(g)'
      BY DEF GroupInv
    <2>1. g # GroupOf(cur) /\ groupState'[g] = groupState[g]
      BY <1>1, <1>2 DEF TypeOK
    <2>2. ~SideEffectStarted(g)
      BY <2>1 DEF IInv, GroupInv
    <2>3. \A i \in IntentsOf(g) : i # cur /\ i \in Intent
      BY <2>1 DEF IntentsOf
    <2> QED
      BY <2>2, <2>3, <1>2 DEF SideEffectStarted, TypeOK
  <1> QED
    BY <1>4, <1>5, <1>6, <1>7 DEF IInv

LEMMA CutStep == TypeOK /\ IInv /\ PreflightCut => IInv'
  <1> SUFFICES ASSUME TypeOK, IInv, PreflightCut PROVE IInv'
    OBVIOUS
  <1>1. GroupOf(cur) \in Group /\ pc' = "idle" /\ UNCHANGED <<attempt, attemptState, net, accepted>>
    BY IntentIsPair DEF PreflightCut, Idle, TypeOK, telegramVars
  <1>2. ChunkInv' /\ OpenAttemptIsSending'
    BY <1>1, CancelUnclaimedEffect, CancellingKeepsChunks DEF PreflightCut, IInv
  <1>3. GroupInv'
    <2>1. \A g \in Group : groupState'[g] \in {"absent", "planned", "cancelled"} =>
                \/ groupState[g] \in {"absent", "planned", "cancelled"}
                \/ ~SideEffectStarted(g)
      BY <1>1 DEF PreflightCut, TypeOK
    <2> QED
      BY <2>1, <1>1, GroupKept DEF IInv
  <1> QED
    BY <1>1, <1>2, <1>3, IdleLane DEF IInv

\* A chunk's group refreshed from its chunks is neither planned nor cancelled.
LEMMA SettleStep == TypeOK /\ IInv /\ SettleFenced => IInv'
  <1> SUFFICES ASSUME TypeOK, IInv, SettleFenced PROVE IInv'
    OBVIOUS
  <1>1. /\ cur \in Intent /\ GroupOf(cur) \in Group /\ pc = "answered"
        /\ istate[cur] = "sending" /\ pc' \in {"idle", "preflight"}
        /\ UNCHANGED <<attempt, net, accepted>>
    BY IntentIsPair DEF SettleFenced, FenceHolds, Idle, TypeOK, telegramVars
  <1>2. /\ istate' = [istate EXCEPT ![cur] = SettledAs(reply)]
        /\ attemptState' = [attemptState EXCEPT ![cur] = reply]
        /\ groupState' = [groupState EXCEPT ![GroupOf(cur)] = Refreshed(GroupOf(cur), istate')]
    BY DEF SettleFenced
  <1>3. /\ SettledAs(reply) # "sending" /\ reply # "started"
        /\ SettledAs(reply) = "sent" => cur \in accepted
        /\ cur \in Touched => SettledAs(reply) \in {"sent", "unknown"}
    BY <1>1 DEF SettledAs, IInv, LaneInv, TypeOK, Outcome
  <1>4. ChunkInv'
    <2>1. NoBlindResend' /\ SentIsVisible'
      BY <1>1, <1>2, <1>3 DEF IInv, ChunkInv, NoBlindResend, SentIsVisible, TypeOK, Touched
    <2>2. \A i \in Intent : attempt'[i] > 0 => \A j \in Earlier(i) : istate'[j] = "sent"
      BY <1>1, <1>2, EarlierIsIntent DEF IInv, ChunkInv, TypeOK
    <2> QED
      BY <2>1, <2>2, <1>1 DEF ChunkInv, IInv, Touched
  <1>5. LaneInv'
    BY <1>1 DEF LaneInv, Held
  <1>6. OpenAttemptIsSending'
    BY <1>1, <1>2, <1>3 DEF IInv, OpenAttemptIsSending, TypeOK
  <1>7. GroupInv'
    <2>1. \A g \in Group : groupState'[g] \in {"absent", "planned", "cancelled"} =>
                groupState[g] \in {"absent", "planned", "cancelled"}
      BY <1>1, <1>2, RefreshedState DEF TypeOK
    <2> QED
      BY <2>1, <1>1, GroupKept DEF IInv
  <1> QED
    BY <1>4, <1>5, <1>6, <1>7 DEF IInv

LEMMA RecoverStep == TypeOK /\ IInv /\ Recover => IInv'
  <1> SUFFICES ASSUME TypeOK, IInv, Recover PROVE IInv'
    OBVIOUS
  <1>1. pc' = "idle" /\ UNCHANGED <<attempt, net, accepted>>
    BY DEF Recover, telegramVars, laneVars
  <1>2. \A i \in Intent :
            \/ istate'[i] = istate[i] /\ attemptState'[i] = attemptState[i] /\ i \notin Stale
            \/ istate[i] = "sending" /\ istate'[i] = "unknown" /\ attemptState'[i] = "unknown"
    BY DEF Recover, RecoveredState, Stale
  <1>3. ChunkInv'
    <2>1. NoBlindResend' /\ SentIsVisible'
      BY <1>1, <1>2 DEF IInv, ChunkInv, NoBlindResend, SentIsVisible, TypeOK
    <2>2. \A i \in Intent : attempt'[i] > 0 => \A j \in Earlier(i) : istate'[j] = "sent"
      BY <1>1, <1>2, EarlierIsIntent DEF IInv, ChunkInv
    <2> QED
      BY <2>1, <2>2, <1>1 DEF ChunkInv, IInv, Touched
  <1>4. OpenAttemptIsSending'
    BY <1>2 DEF IInv, OpenAttemptIsSending
  <1>5. GroupInv'
    <2>1. \A g \in Group : groupState'[g] \in {"absent", "planned", "cancelled"} =>
                groupState[g] \in {"absent", "planned", "cancelled"}
      BY RefreshedState DEF Recover
    <2> QED
      BY <2>1, <1>1, GroupKept DEF IInv
  <1> QED
    BY <1>1, <1>3, <1>4, <1>5, IdleLane DEF IInv

LEMMA MapStep == ASSUME NEW i \in Intent PROVE TypeOK /\ IInv /\ MapMessageId(i) => IInv'
  <1> SUFFICES ASSUME TypeOK, IInv, MapMessageId(i) PROVE IInv'
    OBVIOUS
  <1>1. GroupOf(i) \in Group /\ UNCHANGED <<attempt, net, accepted, pc, cur, reply>>
    BY IntentIsPair DEF MapMessageId, telegramVars, laneVars
  <1>2. /\ i \in accepted
        /\ istate' = [istate EXCEPT ![i] = "sent"]
        /\ attemptState' = [attemptState EXCEPT ![i] = IF @ = "started" THEN "succeeded" ELSE @]
        /\ groupState' = [groupState EXCEPT ![GroupOf(i)] = Refreshed(GroupOf(i), istate')]
    BY DEF MapMessageId
  <1>3. ChunkInv'
    <2>1. NoBlindResend' /\ SentIsVisible'
      BY <1>1, <1>2 DEF IInv, ChunkInv, NoBlindResend, SentIsVisible, TypeOK
    <2>2. \A k \in Intent : attempt'[k] > 0 => \A j \in Earlier(k) : istate'[j] = "sent"
      BY <1>1, <1>2, EarlierIsIntent DEF IInv, ChunkInv, TypeOK
    <2> QED
      BY <2>1, <2>2, <1>1 DEF ChunkInv, IInv, Touched
  <1>4. LaneInv'
    BY <1>1, <1>2, LaneKept DEF IInv, TypeOK
  <1>5. OpenAttemptIsSending'
    BY <1>2 DEF IInv, OpenAttemptIsSending, TypeOK
  <1>6. GroupInv'
    <2>1. \A g \in Group : groupState'[g] \in {"absent", "planned", "cancelled"} =>
                groupState[g] \in {"absent", "planned", "cancelled"}
      BY <1>1, <1>2, RefreshedState DEF TypeOK
    <2> QED
      BY <2>1, <1>1, GroupKept DEF IInv
  <1> QED
    BY <1>3, <1>4, <1>5, <1>6 DEF IInv

LEMMA InvStep == TypeOK /\ IInv /\ [Next]_vars => IInv'
  <1> SUFFICES ASSUME TypeOK, IInv, [Next]_vars PROVE IInv'
    OBVIOUS
  <1> USE DEF groupVars, intentVars, laneVars, telegramVars
  <1>1. CASE UNCHANGED vars
    BY <1>1, Quiet DEF vars
  <1>2. CASE SelectGroup \/ AdmissionRefused \/ PreflightNothing \/ SettleRefused \/ Restart
    BY <1>2, LaneLetsGo
       DEF SelectGroup, AdmissionRefused, PreflightNothing, SettleRefused, Restart, Idle
  <1>3. CASE PreflightClaim
    BY <1>3, ClaimStep
  <1>4. CASE PreflightCut
    BY <1>4, CutStep
  <1>5. CASE RefusedAfterClaim \/ AnswerAccepted \/ AnswerLost
    BY <1>5 DEF RefusedAfterClaim, AnswerAccepted, AnswerLost, IInv, ChunkInv, LaneInv, GroupInv,
       NoBlindResend, SentIsVisible, Touched, Held, OpenAttemptIsSending, SideEffectStarted
  <1>6. CASE CallTelegram
    <2>1. cur \in Intent /\ istate[cur] \in {"sending", "unknown", "sent"} /\ attempt[cur] > 0
          /\ cur \notin Touched
      BY <1>6 DEF CallTelegram, IInv, LaneInv, Held, TypeOK
    <2> QED
      BY <2>1, <1>6 DEF CallTelegram, IInv, ChunkInv, LaneInv, GroupInv,
         NoBlindResend, SentIsVisible, Touched, Held, OpenAttemptIsSending, SideEffectStarted
  <1>7. CASE AnswerRejected
    BY <1>7 DEF AnswerRejected, IInv, ChunkInv, LaneInv, GroupInv,
       NoBlindResend, SentIsVisible, Touched, Held, OpenAttemptIsSending, SideEffectStarted
  <1>8. CASE SettleFenced
    BY <1>8, SettleStep
  <1>9. CASE Recover
    BY <1>9, RecoverStep
  <1>10. ASSUME NEW g \in Group, GroupStep(g) PROVE IInv'
    <2>1. CASE CreateByRun(g) \/ CreateByWorker(g)
      <3>1. GroupInv'
        BY <2>1 DEF CreateByRun, CreateByWorker, NextInOrder, IInv, GroupInv, SideEffectStarted,
           TypeOK
      <3>2. ChunkInv' /\ OpenAttemptIsSending'
        BY <2>1 DEF CreateByRun, CreateByWorker, IInv, ChunkInv, NoBlindResend, SentIsVisible,
           Touched, OpenAttemptIsSending
      <3>3. LaneInv'
        BY <2>1 DEF CreateByRun, CreateByWorker, IInv, LaneInv, Held, Touched
      <3> QED
        BY <3>1, <3>2, <3>3 DEF IInv
    <2>2. CASE TurnLeaseLapses(g) \/ HumanPending(g) \/ Incoming(g)
      BY <2>2, Quiet DEF TurnLeaseLapses, HumanPending, Incoming
    <2>3. CASE HumanConfirmed(g) \/ Invalidate(g)
      BY <2>3, Invalidated DEF HumanConfirmed, Invalidate
    <2> QED
      BY <1>10, <2>1, <2>2, <2>3 DEF GroupStep
  <1>11. ASSUME NEW i \in Intent, IntentStep(i) PROVE IInv'
    <2>1. CASE SendLeaseLapses(i) \/ RetryFallsDue(i)
      BY <2>1, Quiet DEF SendLeaseLapses, RetryFallsDue
    <2>2. CASE Accept(i)
      BY <2>2 DEF Accept, IInv, ChunkInv, LaneInv, GroupInv, NoBlindResend, SentIsVisible,
         Touched, Held, OpenAttemptIsSending, SideEffectStarted
    <2>3. CASE Drop(i)
      BY <2>3 DEF Drop, IInv, ChunkInv, LaneInv, GroupInv, NoBlindResend, SentIsVisible,
         Touched, Held, OpenAttemptIsSending, SideEffectStarted
    <2>4. CASE MapMessageId(i)
      BY <2>4, MapStep
    <2>5. CASE EchoEdited(i)
      <3>1. CASE Correctable(i)
        BY <2>5, <3>1, Regrouped DEF EchoEdited
      <3>2. CASE ~Correctable(i)
        BY <2>5, <3>2, IntentIsPair, Invalidated DEF EchoEdited
      <3> QED
        BY <3>1, <3>2
    <2>6. CASE Echo(i)
      <3>1. CASE Classified(i) = "resolved"
        BY <2>6, <3>1, Regrouped DEF Echo
      <3>2. CASE Classified(i) # "resolved"
        BY <2>6, <3>2, Quiet DEF Echo
      <3> QED
        BY <3>1, <3>2
    <2> QED
      BY <1>11, <2>1, <2>2, <2>3, <2>4, <2>5, <2>6 DEF IntentStep
  <1> QED
    BY <1>1, <1>2, <1>3, <1>4, <1>5, <1>6, <1>7, <1>8, <1>9, <1>10, <1>11 DEF Next, LaneStep

THEOREM Invariance == Spec => [](TypeOK /\ IInv)
  <1>1. Init => TypeOK /\ IInv
    BY TypeInit, InvInit
  <1>2. TypeOK /\ IInv /\ [Next]_vars => (TypeOK /\ IInv)'
    BY TypeStep, InvStep
  <1> QED
    BY <1>1, <1>2, PTL DEF Spec

-----------------------------------------------------------------------------
(* What follows from it.                                                   *)

\* A chunk that reached Telegram, or may still reach it, never returns to the states
\* from which the dispatcher claims.
THEOREM NoBlindResendHolds == Spec => []NoBlindResend
  <1>1. IInv => NoBlindResend
    BY DEF IInv, ChunkInv
  <1> QED
    BY <1>1, Invariance, PTL

\* `sent` is never recorded of a chunk the contact cannot see.
THEOREM SentIsVisibleHolds == Spec => []SentIsVisible
  <1>1. IInv => SentIsVisible
    BY DEF IInv, ChunkInv
  <1> QED
    BY <1>1, Invariance, PTL

\* The contact sees a prefix of every output.
THEOREM ChunksInOrderHolds == Spec => []ChunksInOrder
  <1>1. TypeOK /\ IInv => ChunksInOrder
    <2> SUFFICES ASSUME TypeOK, IInv, NEW i \in accepted, NEW j \in Earlier(i)
                 PROVE  j \in accepted
      BY DEF ChunksInOrder
    <2>1. i \in Intent /\ attempt[i] > 0
      BY DEF TypeOK, IInv, ChunkInv, Touched
    <2>2. j \in Intent /\ istate[j] = "sent"
      BY <2>1, EarlierIsIntent DEF IInv, ChunkInv
    <2> QED
      BY <2>2 DEF IInv, ChunkInv, SentIsVisible
  <1> QED
    BY <1>1, Invariance, PTL

\* Every attempt is closed when its chunk leaves `sending`, whoever moves it.
THEOREM OpenAttemptIsSendingHolds == Spec => []OpenAttemptIsSending
  <1>1. IInv => OpenAttemptIsSending
    BY DEF IInv
  <1> QED
    BY <1>1, Invariance, PTL

\* A cancelled group sent nothing.
THEOREM CancelledIsSilentHolds == Spec => []CancelledIsSilent
  <1>1. IInv => CancelledIsSilent
    BY DEF IInv, GroupInv, CancelledIsSilent
  <1> QED
    BY <1>1, Invariance, PTL

-----------------------------------------------------------------------------
(* Step properties.                                                        *)

\* The only steps that change the state of a chunk, and how they do.
LEMMA ChunkMoves ==
    ASSUME TypeOK, [Next]_vars, NEW i \in Intent, istate'[i] # istate[i]
    PROVE  \/ istate[i] \in {"pending", "retry_wait"} /\ istate'[i] \in {"sending", "cancelled"}
           \/ istate[i] = "sending"
           \/ i \in accepted /\ istate'[i] = "sent"
  <1> USE DEF groupVars, intentVars, laneVars, telegramVars
  <1>1. CASE PreflightClaim
    BY <1>1 DEF PreflightClaim, Claimable, TypeOK
  <1>2. CASE PreflightCut
    BY <1>2, CancelUnclaimedEffect DEF PreflightCut
  <1>3. CASE SettleFenced
    BY <1>3 DEF SettleFenced, FenceHolds, TypeOK
  <1>4. CASE Recover
    BY <1>4 DEF Recover, RecoveredState, Stale
  <1>5. ASSUME NEW g \in Group, HumanConfirmed(g) \/ Invalidate(g)
        PROVE  istate[i] \in {"pending", "retry_wait"} /\ istate'[i] = "cancelled"
    BY <1>5, CancelPlannedEffect DEF HumanConfirmed, Invalidate
  <1>6. ASSUME NEW j \in Intent, EchoEdited(j)
        PROVE  istate[i] \in {"pending", "retry_wait"} /\ istate'[i] = "cancelled"
    <2>1. ~Correctable(j) /\ CancelPlanned(GroupOf(j))
      BY <1>6 DEF EchoEdited
    <2> QED
      BY <2>1, IntentIsPair, CancelPlannedEffect
  <1>7. ASSUME NEW j \in Intent, MapMessageId(j) PROVE i \in accepted /\ istate'[i] = "sent"
    BY <1>7 DEF MapMessageId, TypeOK
  <1>8. CASE \/ UNCHANGED vars \/ SelectGroup \/ AdmissionRefused \/ PreflightNothing
             \/ RefusedAfterClaim \/ CallTelegram \/ AnswerAccepted \/ AnswerRejected
             \/ AnswerLost \/ SettleRefused \/ Restart
    BY <1>8 DEF vars, SelectGroup, AdmissionRefused, PreflightNothing, RefusedAfterClaim,
       CallTelegram, AnswerAccepted, AnswerRejected, AnswerLost, SettleRefused, Restart
  <1>9. ASSUME NEW g \in Group, \/ CreateByRun(g) \/ CreateByWorker(g) \/ TurnLeaseLapses(g)
                                \/ HumanPending(g) \/ Incoming(g)
        PROVE  FALSE
    BY <1>9 DEF CreateByRun, CreateByWorker, TurnLeaseLapses, HumanPending, Incoming
  <1>10. ASSUME NEW j \in Intent, \/ SendLeaseLapses(j) \/ RetryFallsDue(j) \/ Accept(j)
                                  \/ Drop(j) \/ Echo(j)
         PROVE  FALSE
    BY <1>10 DEF SendLeaseLapses, RetryFallsDue, Accept, Drop, Echo
  <1> QED
    BY <1>1, <1>2, <1>3, <1>4, <1>5, <1>6, <1>7, <1>8, <1>9, <1>10
       DEF Next, LaneStep, GroupStep, IntentStep

\* Settled outcomes are final; `unknown` is left only for `sent`.
THEOREM OutcomesAreFinalHolds == Spec => OutcomesAreFinal
  <1>1. TypeOK /\ IInv /\ [Next]_vars =>
          [\A i \in Intent :
             /\ istate[i] \in {"sent", "failed", "cancelled"} => istate'[i] = istate[i]
             /\ istate[i] = "unknown" => istate'[i] \in {"unknown", "sent"}]_vars
    <2> SUFFICES ASSUME TypeOK, IInv, [Next]_vars, NEW i \in Intent,
                        istate'[i] # istate[i]
                 PROVE  istate[i] \notin {"sent", "failed", "cancelled"}
                        /\ (istate[i] = "unknown" => istate'[i] = "sent")
      OBVIOUS
    <2>1. i \in accepted => istate[i] \in {"sending", "unknown", "sent"}
      BY DEF IInv, ChunkInv, NoBlindResend
    <2> QED
      BY <2>1, ChunkMoves
  <1> QED
    BY <1>1, Invariance, PTL DEF Spec, OutcomesAreFinal

-----------------------------------------------------------------------------
(* The projection of the system's own messages.                            *)

\* A projected echo is of a visible message, an attributed one of a settled chunk.
EchoInv ==
    \A i \in Intent :
        /\ echo[i] # "none" => i \in accepted
        /\ echo[i] \in Attributed => istate[i] = "sent"
        /\ echo[i] # "human"

\* A turn is completed over attributed messages only.
CompletedInv ==
    \A g \in Group : turn[g] = "completed" => \A i \in IntentsOf(g) : echo[i] \in Attributed

\* The steps that project the echo of a chunk, and how.
LEMMA EchoMoves ==
    ASSUME TypeOK, [Next]_vars, NEW i \in Intent, echo'[i] # echo[i]
    PROVE  \/ i \in accepted /\ echo[i] = "none" /\ echo'[i] = Classified(i)
           \/ echo[i] = "pending" /\ istate[i] = "sent" /\ echo'[i] = "corrected"
  <1> USE DEF groupVars, intentVars, laneVars, telegramVars
  <1>1. CASE UNCHANGED vars \/ LaneStep \/ Restart
    BY <1>1 DEF vars, LaneStep, SelectGroup, AdmissionRefused, PreflightClaim, PreflightCut,
       PreflightNothing, RefusedAfterClaim, CallTelegram, AnswerAccepted, AnswerRejected,
       AnswerLost, SettleFenced, SettleRefused, Recover, Restart
  <1>2. ASSUME NEW g \in Group, GroupStep(g) PROVE FALSE
    BY <1>2 DEF GroupStep, CreateByRun, CreateByWorker, TurnLeaseLapses, HumanConfirmed,
       HumanPending, Incoming, Invalidate
  <1>3. ASSUME NEW j \in Intent, IntentStep(j)
        PROVE  \/ i \in accepted /\ echo[i] = "none" /\ echo'[i] = Classified(i)
               \/ echo[i] = "pending" /\ istate[i] = "sent" /\ echo'[i] = "corrected"
    <2>1. CASE Echo(j)
      BY <2>1 DEF Echo, TypeOK
    <2>2. CASE EchoEdited(j)
      BY <2>2 DEF EchoEdited, Correctable, TypeOK
    <2>3. CASE SendLeaseLapses(j) \/ RetryFallsDue(j) \/ Accept(j) \/ Drop(j) \/ MapMessageId(j)
      BY <2>3 DEF SendLeaseLapses, RetryFallsDue, Accept, Drop, MapMessageId
    <2> QED
      BY <1>3, <2>1, <2>2, <2>3 DEF IntentStep
  <1> QED
    BY <1>1, <1>2, <1>3 DEF Next

\* What the contact has seen stays seen.
LEMMA AcceptedGrows == ASSUME [Next]_vars PROVE accepted \subseteq accepted'
  <1> USE DEF groupVars, intentVars, laneVars, telegramVars
  <1>1. CASE UNCHANGED vars \/ LaneStep \/ Restart
    BY <1>1 DEF vars, LaneStep, SelectGroup, AdmissionRefused, PreflightClaim, PreflightCut,
       PreflightNothing, RefusedAfterClaim, CallTelegram, AnswerAccepted, AnswerRejected,
       AnswerLost, SettleFenced, SettleRefused, Recover, Restart
  <1>2. ASSUME NEW g \in Group, GroupStep(g) PROVE accepted' = accepted
    BY <1>2 DEF GroupStep, CreateByRun, CreateByWorker, TurnLeaseLapses, HumanConfirmed,
       HumanPending, Incoming, Invalidate
  <1>3. ASSUME NEW j \in Intent, IntentStep(j) PROVE accepted \subseteq accepted'
    BY <1>3 DEF IntentStep, SendLeaseLapses, RetryFallsDue, Accept, Drop, MapMessageId, Echo,
       EchoEdited
  <1> QED
    BY <1>1, <1>2, <1>3 DEF Next

\* A turn is completed by a step that leaves every chunk attributed.
LEMMA TurnMoves ==
    ASSUME TypeOK, [Next]_vars, NEW g \in Group, turn'[g] # turn[g], turn'[g] = "completed"
    PROVE  \A i \in IntentsOf(g) : echo'[i] \in Attributed
  <1> USE DEF groupVars, intentVars, laneVars, telegramVars
  <1>1. CASE UNCHANGED vars \/ LaneStep \/ Restart
    BY <1>1 DEF vars, LaneStep, SelectGroup, AdmissionRefused, PreflightClaim, PreflightCut,
       PreflightNothing, RefusedAfterClaim, CallTelegram, AnswerAccepted, AnswerRejected,
       AnswerLost, SettleFenced, SettleRefused, Recover, Restart
  <1>2. ASSUME NEW h \in Group, GroupStep(h) PROVE FALSE
    BY <1>2 DEF GroupStep, CreateByRun, CreateByWorker, TurnLeaseLapses, HumanConfirmed,
       HumanPending, Incoming, Invalidate, CancelTurn, TypeOK
  <1>3. ASSUME NEW j \in Intent, IntentStep(j)
        PROVE  \A i \in IntentsOf(g) : echo'[i] \in Attributed
    <2>1. CASE Echo(j)
      BY <2>1, IntentIsPair DEF Echo, CompleteTurnIfDelivered, TypeOK
    <2>2. CASE EchoEdited(j)
      BY <2>2, IntentIsPair DEF EchoEdited, CompleteTurnIfDelivered, CancelTurn, TypeOK
    <2>3. CASE SendLeaseLapses(j) \/ RetryFallsDue(j) \/ Accept(j) \/ Drop(j) \/ MapMessageId(j)
      BY <2>3 DEF SendLeaseLapses, RetryFallsDue, Accept, Drop, MapMessageId
    <2> QED
      BY <1>3, <2>1, <2>2, <2>3 DEF IntentStep
  <1> QED
    BY <1>1, <1>2, <1>3 DEF Next

\* A settled chunk stays settled.
LEMMA SentStays ==
    ASSUME TypeOK, [Next]_vars, NEW i \in Intent, istate[i] = "sent"
    PROVE  istate'[i] = "sent"
  BY ChunkMoves

\* The echo of a chunk is never read as a message of the account holder: a visible chunk is
\* sent, or it is one of the unsettled chunks that keep the classification open.
LEMMA OwnEchoClassified ==
    ASSUME IInv, NEW i \in Intent, i \in accepted
    PROVE  Classified(i) = IF istate[i] = "sent" THEN "resolved" ELSE "pending"
  <1>1. istate[i] \in {"sending", "unknown", "sent"}
    BY DEF IInv, ChunkInv, NoBlindResend
  <1>2. i \in IntentsOf(GroupOf(i))
    BY DEF IntentsOf
  <1> QED
    BY <1>1, <1>2 DEF Classified

LEMMA EchoStep == TypeOK /\ IInv /\ EchoInv /\ [Next]_vars => EchoInv'
  <1> SUFFICES ASSUME TypeOK, IInv, EchoInv, [Next]_vars, NEW i \in Intent
               PROVE  /\ echo'[i] # "none" => i \in accepted'
                      /\ echo'[i] \in Attributed => istate'[i] = "sent"
                      /\ echo'[i] # "human"
    BY DEF EchoInv
  <1>1. CASE echo'[i] = echo[i]
    BY <1>1, SentStays, AcceptedGrows DEF EchoInv
  <1>2. CASE i \in accepted /\ echo[i] = "none" /\ echo'[i] = Classified(i)
    BY <1>2, OwnEchoClassified, SentStays, AcceptedGrows DEF Attributed
  <1>3. CASE echo[i] = "pending" /\ istate[i] = "sent" /\ echo'[i] = "corrected"
    BY <1>3, SentStays, AcceptedGrows DEF EchoInv
  <1> QED
    BY <1>1, <1>2, <1>3, EchoMoves

LEMMA CompletedStep == TypeOK /\ CompletedInv /\ [Next]_vars => CompletedInv'
  <1> SUFFICES ASSUME TypeOK, CompletedInv, [Next]_vars, NEW g \in Group,
                      turn'[g] = "completed", NEW i \in IntentsOf(g)
               PROVE  echo'[i] \in Attributed
    BY DEF CompletedInv, IntentsOf
  <1>1. CASE turn[g] = "completed"
    <2>1. echo[i] \in Attributed /\ i \in Intent
      BY <1>1 DEF CompletedInv, IntentsOf
    <2> QED
      BY <2>1, EchoMoves DEF Attributed
  <1>2. CASE turn[g] # "completed"
    BY <1>2, TurnMoves
  <1> QED
    BY <1>1, <1>2

THEOREM EchoInvariance == Spec => [](EchoInv /\ CompletedInv)
  <1>1. Init => EchoInv /\ CompletedInv
    BY DEF Init, EchoInv, CompletedInv, Attributed
  <1> QED
    BY <1>1, EchoStep, CompletedStep, Invariance, PTL DEF Spec

\* The system's own message never passes for one of the account holder (_classify_source),
\* whichever of echo, mapping, receipt, recovery and cancellation comes first.
THEOREM OwnEchoNeverHumanHolds == Spec => []OwnEchoNeverHuman
  <1>1. EchoInv => OwnEchoNeverHuman
    BY DEF EchoInv, OwnEchoNeverHuman
  <1> QED
    BY <1>1, EchoInvariance, PTL

\* A completed turn (reconcile_completed_delivery) was answered in full: every chunk is
\* visible, recorded as sent and attributed.
THEOREM CompletedTurnDeliveredHolds == Spec => []CompletedTurnDelivered
  <1>1. EchoInv /\ CompletedInv => CompletedTurnDelivered
    BY DEF EchoInv, CompletedInv, CompletedTurnDelivered, Attributed, IntentsOf
  <1> QED
    BY <1>1, EchoInvariance, PTL

-----------------------------------------------------------------------------
(* Groups and their chunks.                                                *)

\* Group g with the state s, in the words of the states st of its chunks.
ViewOf(g, s, st) ==
    /\ s = "sent" => \A i \in IntentsOf(g) : st[i] = "sent"
    /\ (\A i \in IntentsOf(g) : st[i] = "sent") => s \in {"sent", "partial"}
    /\ s \in {"absent", "planned"} => \A i \in IntentsOf(g) : st[i] = "pending"
    /\ s \in {"partial", "failed"} => \A i \in IntentsOf(g) : st[i] # "unknown"

GroupView == \A g \in Group : ViewOf(g, groupState[g], istate)

\* The lane looks at a group without an unknown chunk, so a closed gate may call it partial.  A
\* chunk of it may be under way: its echo or mapping can refresh the group at any time.
PreflightView == pc = "preflight" => \A i \in IntentsOf(GroupOf(cur)) : istate[i] # "unknown"

\* A chunk is unsettled only after a claim.
ClaimedFirst == \A i \in Intent : istate[i] \in {"sending", "unknown"} => attempt[i] > 0

GroupsInv == GroupView /\ PreflightView /\ ClaimedFirst

\* A group has a first chunk, among its chunks.
LEMMA FirstOfGroup ==
    ASSUME NEW g \in Group
    PROVE  <<g, 1>> \in IntentsOf(g)
  BY FirstIsIntent DEF IntentsOf, GroupOf

\* The set of states of a group, chunk by chunk.
LEMMA StatesOfGroup ==
    ASSUME NEW g \in Group, NEW st, NEW s
    PROVE  {st[i] : i \in IntentsOf(g)} = {s} <=> \A i \in IntentsOf(g) : st[i] = s
  <1>1. <<g, 1>> \in IntentsOf(g)
    BY FirstOfGroup
  <1> QED
    BY <1>1

\* A refreshed group says what its chunks are, whatever they are.
LEMMA RefreshedSays ==
    ASSUME NEW g \in Group, NEW st
    PROVE  ViewOf(g, Refreshed(g, st), st)
  <1> DEFINE states == {st[i] : i \in IntentsOf(g)}
  <1>1. states = {"sent"} <=> \A i \in IntentsOf(g) : st[i] = "sent"
    <2>1. \A s : states = {s} <=> \A i \in IntentsOf(g) : st[i] = s
      BY StatesOfGroup
    <2> QED
      BY <2>1
  <1>2. "unknown" \notin states => \A i \in IntentsOf(g) : st[i] # "unknown"
    OBVIOUS
  <1>3. Refreshed(g, st) = IF states = {"sent"} THEN "sent"
                           ELSE IF "unknown" \in states THEN "unknown"
                           ELSE IF "sent" \in states THEN "partial"
                           ELSE IF "failed" \in states THEN "failed"
                           ELSE "sending"
    BY DEF Refreshed
  <1> HIDE DEF states
  <1> QED
    BY <1>1, <1>2, <1>3 DEF ViewOf

\* Whoever writes chunks and refreshes their groups keeps the view of every group.
LEMMA RefreshKeepsView ==
    ASSUME GroupView,
           \A g \in Group :
                \/ groupState'[g] = Refreshed(g, istate')
                \/ /\ groupState'[g] = groupState[g]
                   /\ \A i \in IntentsOf(g) : istate'[i] = istate[i]
    PROVE  GroupView'
  <1> SUFFICES ASSUME NEW g \in Group PROVE ViewOf(g, groupState'[g], istate')
    BY DEF GroupView
  <1>1. CASE groupState'[g] = Refreshed(g, istate')
    BY <1>1, RefreshedSays
  <1>2. CASE groupState'[g] = groupState[g] /\ \A i \in IntentsOf(g) : istate'[i] = istate[i]
    BY <1>2 DEF GroupView, ViewOf
  <1> QED
    BY <1>1, <1>2

\* ... as one who writes one chunk, or none, and refreshes its group.
LEMMA RefreshGroups ==
    ASSUME TypeOK, GroupView, NEW i \in Intent,
           \A j \in Intent : j # i => istate'[j] = istate[j],
           groupState' = [groupState EXCEPT ![GroupOf(i)] = Refreshed(GroupOf(i), istate')]
    PROVE  GroupView'
  <1>1. ASSUME NEW g \in Group
        PROVE  \/ groupState'[g] = Refreshed(g, istate')
               \/ /\ groupState'[g] = groupState[g]
                  /\ \A j \in IntentsOf(g) : istate'[j] = istate[j]
    <2>1. CASE g = GroupOf(i)
      BY <2>1 DEF TypeOK
    <2>2. CASE g # GroupOf(i)
      BY <2>2 DEF TypeOK, IntentsOf
    <2> QED
      BY <2>1, <2>2
  <1> QED
    BY <1>1, RefreshKeepsView

\* Chunks go one at a time: beside an unsettled one, all others are sent or untried.
LEMMA OneUnsettled ==
    ASSUME TypeOK, IInv, NEW i \in Intent, attempt[i] > 0, istate[i] # "sent",
           NEW j \in IntentsOf(GroupOf(i)), j # i
    PROVE  istate[j] = "sent" \/ ~(attempt[j] > 0)
  <1>1. /\ j \in Intent /\ GroupOf(j) = GroupOf(i) /\ Ordinal(i) \in Nat /\ Ordinal(j) \in Nat
        /\ Ordinal(i) # Ordinal(j)
    <2>1. j \in Intent /\ GroupOf(j) = GroupOf(i)
      BY DEF IntentsOf
    <2>2. i = <<GroupOf(i), Ordinal(i)>> /\ j = <<GroupOf(j), Ordinal(j)>>
      BY <2>1, IntentIsPair
    <2>3. Ordinal(i) \in Nat /\ Ordinal(j) \in Nat
      BY <2>1, IntentIsPair
    <2>4. Ordinal(i) # Ordinal(j)
      BY <2>1, <2>2
    <2> QED
      BY <2>1, <2>3, <2>4
  <1>2. CASE Ordinal(j) < Ordinal(i)
    <2>1. j \in Earlier(i)
      BY <1>2 DEF Earlier
    <2> QED
      BY <2>1 DEF IInv, ChunkInv
  <1>3. CASE Ordinal(i) < Ordinal(j)
    <2>1. i \in Earlier(j)
      BY <1>1, <1>3 DEF Earlier, IntentsOf
    <2> QED
      BY <1>1, <2>1 DEF IInv, ChunkInv
  <1> QED
    BY <1>1, <1>2, <1>3

\* ... so none of the others is under way.
LEMMA OthersAtRest ==
    ASSUME TypeOK, IInv, ClaimedFirst, NEW i \in Intent, attempt[i] > 0, istate[i] # "sent",
           NEW j \in IntentsOf(GroupOf(i)), j # i
    PROVE  j \in Intent /\ istate[j] \notin {"sending", "unknown"}
  BY OneUnsettled DEF ClaimedFirst, IntentsOf

\* An untried chunk is not sent.
LEMMA UntriedIsUnsent ==
    ASSUME TypeOK, IInv, NEW i \in Intent, ~(attempt[i] > 0)
    PROVE  istate[i] # "sent"
  BY DEF IInv, ChunkInv, SentIsVisible, Touched

\* Chunks and group states stay, and the lane does not turn to another group.
LEMMA GroupsKept ==
    ASSUME GroupsInv, UNCHANGED <<istate, groupState, attempt>>,
           pc' = "preflight" => pc = "preflight" /\ cur' = cur
    PROVE  GroupsInv'
  BY DEF GroupsInv, GroupView, ViewOf, PreflightView, ClaimedFirst

\* The lane turns to a group that waits to be taken up, or one it has just created.
LEMMA TakeUpStep ==
    ASSUME TypeOK, GroupsInv, SelectGroup \/ \E g \in Group : CreateByRun(g) \/ CreateByWorker(g)
    PROVE  GroupsInv'
  <1> USE DEF groupVars, intentVars, laneVars, telegramVars
  <1>1. ClaimedFirst'
    BY DEF SelectGroup, CreateByRun, CreateByWorker, GroupsInv, ClaimedFirst
  <1>2. GroupView'
    <2>1. ASSUME NEW g \in Group
          PROVE  /\ \A i \in IntentsOf(g) : istate'[i] = istate[i]
                 /\ \/ groupState'[g] = groupState[g]
                    \/ groupState[g] = "absent" /\ groupState'[g] = "planned"
      BY DEF SelectGroup, CreateByRun, CreateByWorker, NextInOrder, TypeOK
    <2>2. ASSUME NEW g \in Group PROVE ViewOf(g, groupState'[g], istate')
      BY <2>1 DEF GroupsInv, GroupView, ViewOf
    <2> QED
      BY <2>2 DEF GroupView
  <1>3. CASE SelectGroup
    <2>1. PICK g \in Selectable : cur' = <<g, 1>>
      BY <1>3 DEF SelectGroup
    <2>2. g \in Group /\ groupState[g] \in {"planned", "partial"} /\ GroupOf(cur') = g
      BY <2>1 DEF Selectable, GroupOf
    <2>3. \A i \in IntentsOf(g) : istate[i] # "unknown"
      BY <2>2 DEF GroupsInv, GroupView, ViewOf
    <2> QED
      BY <1>1, <1>2, <1>3, <2>2, <2>3 DEF SelectGroup, GroupsInv, PreflightView
  <1>4. ASSUME NEW g \in Group, CreateByRun(g) PROVE GroupsInv'
    <2>1. GroupOf(cur') = g /\ groupState[g] = "absent" /\ UNCHANGED istate
      BY <1>4 DEF CreateByRun, NextInOrder, GroupOf
    <2>2. \A i \in IntentsOf(g) : istate[i] # "unknown"
      BY <2>1 DEF GroupsInv, GroupView, ViewOf
    <2> QED
      BY <1>1, <1>2, <2>1, <2>2 DEF GroupsInv, PreflightView
  <1>5. ASSUME NEW g \in Group, CreateByWorker(g) PROVE GroupsInv'
    BY <1>1, <1>2, <1>5 DEF CreateByWorker, GroupsInv, PreflightView
  <1> QED
    BY <1>3, <1>4, <1>5

\* A claim: the group under preflight has a chunk under way, the lane has left the preflight.
LEMMA ClaimGroups == ASSUME TypeOK, GroupsInv, PreflightClaim PROVE GroupsInv'
  <1>1. /\ cur \in Intent /\ GroupOf(cur) \in Group /\ cur \in IntentsOf(GroupOf(cur))
        /\ istate' = [istate EXCEPT ![cur] = "sending"]
        /\ attempt' = [attempt EXCEPT ![cur] = @ + 1]
        /\ groupState' = [groupState EXCEPT ![GroupOf(cur)] = "sending"]
        /\ pc' = "claimed"
    BY IntentIsPair DEF PreflightClaim, TypeOK, IntentsOf
  <1>2. istate'[cur] = "sending" /\ \A i \in Intent : i # cur => istate'[i] = istate[i]
    BY <1>1 DEF TypeOK
  <1>3. GroupView'
    <2> SUFFICES ASSUME NEW g \in Group PROVE ViewOf(g, groupState'[g], istate')
      BY DEF GroupView
    <2>1. CASE g = GroupOf(cur)
      <3>1. groupState'[g] = "sending"
        BY <1>1, <2>1 DEF TypeOK
      <3> QED
        BY <1>1, <1>2, <2>1, <3>1 DEF ViewOf
    <2>2. CASE g # GroupOf(cur)
      <3>1. groupState'[g] = groupState[g]
        BY <1>1, <2>2 DEF TypeOK
      <3>2. \A i \in IntentsOf(g) : istate'[i] = istate[i]
        BY <1>2, <2>2 DEF IntentsOf
      <3> QED
        BY <3>1, <3>2 DEF GroupsInv, GroupView, ViewOf
    <2> QED
      BY <2>1, <2>2
  <1>4. ClaimedFirst'
    BY <1>1, <1>2 DEF GroupsInv, ClaimedFirst, TypeOK
  <1> QED
    BY <1>1, <1>3, <1>4 DEF GroupsInv, PreflightView

\* A closed gate: a group with a side effect has no unknown chunk and ends partial, one without
\* has not sent its first chunk and ends cancelled.
LEMMA CutGroups == ASSUME TypeOK, IInv, GroupsInv, PreflightCut PROVE GroupsInv'
  <1> DEFINE h == GroupOf(cur)
  <1>1. /\ cur \in Intent /\ h \in Group /\ pc' = "idle" /\ UNCHANGED attempt
        /\ groupState' = [groupState EXCEPT ![h] = IF SideEffectStarted(h) THEN "partial"
                                                   ELSE "cancelled"]
    BY IntentIsPair DEF PreflightCut, Idle, TypeOK
  <1>2. \A i \in IntentsOf(h) : istate[i] # "unknown"
    BY DEF PreflightCut, GroupsInv, PreflightView
  <1>3. \A i \in Intent :
            \/ istate'[i] = istate[i]
            \/ GroupOf(i) = h /\ istate[i] \in {"pending", "retry_wait"} /\ istate'[i] = "cancelled"
    BY DEF PreflightCut, CancelUnclaimed, IntentsOf
  <1>4. GroupView'
    <2> SUFFICES ASSUME NEW g \in Group PROVE ViewOf(g, groupState'[g], istate')
      BY DEF GroupView
    <2>1. CASE g = h /\ SideEffectStarted(h)
      <3>1. groupState'[g] = "partial"
        BY <1>1, <2>1 DEF TypeOK
      <3>2. \A i \in IntentsOf(g) : istate'[i] # "unknown"
        BY <1>2, <1>3, <2>1 DEF IntentsOf
      <3> QED
        BY <3>1, <3>2 DEF ViewOf
    <2>2. CASE g = h /\ ~SideEffectStarted(h)
      <3>1. groupState'[g] = "cancelled"
        BY <1>1, <2>2 DEF TypeOK
      <3>2. <<g, 1>> \in IntentsOf(g) /\ <<g, 1>> \in Intent
        BY FirstOfGroup, FirstIsIntent
      <3>3. ~(attempt[<<g, 1>>] > 0)
        BY <2>2, <3>2 DEF SideEffectStarted
      <3>4. istate'[<<g, 1>>] # "sent"
        BY <1>3, <3>2, <3>3, UntriedIsUnsent
      <3> QED
        BY <3>1, <3>2, <3>4 DEF ViewOf
    <2>3. CASE g # h
      <3>1. groupState'[g] = groupState[g]
        BY <1>1, <2>3 DEF TypeOK
      <3>2. \A i \in IntentsOf(g) : istate'[i] = istate[i]
        BY <1>3, <2>3 DEF IntentsOf
      <3> QED
        BY <3>1, <3>2 DEF GroupsInv, GroupView, ViewOf
    <2> QED
      BY <2>1, <2>2, <2>3
  <1>5. ClaimedFirst'
    BY <1>1, <1>3 DEF GroupsInv, ClaimedFirst
  <1> QED
    BY <1>1, <1>4, <1>5 DEF GroupsInv, PreflightView

\* A settlement, after which the lane turns to the next chunk or rests.
LEMMA SettleGroups == ASSUME TypeOK, IInv, GroupsInv, SettleFenced PROVE GroupsInv'
  <1> DEFINE h == GroupOf(cur)
  <1>1. /\ cur \in Intent /\ h \in Group /\ istate[cur] = "sending" /\ UNCHANGED attempt
        /\ istate' = [istate EXCEPT ![cur] = SettledAs(reply)]
        /\ groupState' = [groupState EXCEPT ![h] = Refreshed(h, istate')]
    BY IntentIsPair DEF SettleFenced, FenceHolds, TypeOK
  <1>2. /\ SettledAs(reply) # "sending" /\ attempt[cur] > 0
        /\ \A i \in Intent : i # cur => istate'[i] = istate[i]
    BY <1>1 DEF SettledAs, GroupsInv, ClaimedFirst, TypeOK
  <1>3. GroupView'
    BY <1>1, <1>2, RefreshGroups DEF GroupsInv
  <1>4. ClaimedFirst'
    BY <1>1, <1>2 DEF GroupsInv, ClaimedFirst, TypeOK
  <1>5. ASSUME pc' = "preflight", NEW i \in IntentsOf(GroupOf(cur'))
        PROVE  istate'[i] # "unknown"
    <2>1. reply = "succeeded" /\ cur' = <<h, Ordinal(cur) + 1>>
      BY <1>5 DEF SettleFenced, Idle
    <2>2. i \in IntentsOf(h) /\ istate'[cur] = "sent"
      BY <1>1, <1>5, <2>1 DEF SettledAs, TypeOK, GroupOf
    <2>3. CASE i = cur
      BY <2>2, <2>3
    <2>4. CASE i # cur
      BY <1>1, <1>2, <2>2, <2>4, OthersAtRest DEF GroupsInv
    <2> QED
      BY <2>3, <2>4
  <1> QED
    BY <1>3, <1>4, <1>5 DEF GroupsInv, PreflightView

\* A mapping refreshes the group of its chunk, also one the lane has just taken up.
LEMMA MapGroups ==
    ASSUME TypeOK, IInv, GroupsInv, NEW i \in Intent, MapMessageId(i) PROVE GroupsInv'
  <1>1. /\ UNCHANGED <<attempt, pc, cur>>
        /\ istate' = [istate EXCEPT ![i] = "sent"]
        /\ groupState' = [groupState EXCEPT ![GroupOf(i)] = Refreshed(GroupOf(i), istate')]
    BY DEF MapMessageId, laneVars
  <1>2. \A j \in Intent : istate'[j] = IF j = i THEN "sent" ELSE istate[j]
    BY <1>1 DEF TypeOK
  <1>3. GroupView'
    BY <1>1, <1>2, RefreshGroups DEF GroupsInv
  <1>4. ClaimedFirst'
    BY <1>1, <1>2 DEF GroupsInv, ClaimedFirst
  <1>5. PreflightView'
    BY <1>1, <1>2 DEF GroupsInv, PreflightView, IntentsOf
  <1> QED
    BY <1>3, <1>4, <1>5 DEF GroupsInv

\* An attributed echo refreshes the group of its chunk and leaves the chunks alone.
LEMMA EchoGroups ==
    ASSUME TypeOK, GroupsInv, NEW i \in Intent, ReconcileGroup(GroupOf(i)),
           UNCHANGED <<istate, attempt, pc, cur>>
    PROVE  GroupsInv'
  <1>1. GroupView'
    BY RefreshGroups DEF ReconcileGroup, GroupsInv
  <1> QED
    BY <1>1 DEF GroupsInv, PreflightView, ClaimedFirst

\* Recovery refreshes every group with a stale chunk, and touches no other.
LEMMA RecoverGroups == ASSUME TypeOK, GroupsInv, Recover PROVE GroupsInv'
  <1>1. /\ pc' = "idle" /\ UNCHANGED attempt
        /\ \A i \in Intent : istate'[i] = IF i \in Stale THEN "unknown" ELSE istate[i]
        /\ \A i \in Stale : i \in Intent /\ istate[i] = "sending"
    BY DEF Recover, RecoveredState, laneVars, Stale
  <1>2. ClaimedFirst'
    BY <1>1 DEF GroupsInv, ClaimedFirst
  <1>3. ASSUME NEW g \in Group
        PROVE  \/ groupState'[g] = Refreshed(g, istate')
               \/ /\ groupState'[g] = groupState[g]
                  /\ \A j \in IntentsOf(g) : istate'[j] = istate[j]
    <2>1. CASE \E i \in Stale : GroupOf(i) = g
      BY <2>1 DEF Recover
    <2>2. CASE ~\E i \in Stale : GroupOf(i) = g
      <3>1. groupState'[g] = groupState[g]
        BY <2>2 DEF Recover
      <3>2. \A j \in IntentsOf(g) : istate'[j] = istate[j]
        BY <1>1, <2>2 DEF IntentsOf
      <3> QED
        BY <3>1, <3>2
    <2> QED
      BY <2>1, <2>2
  <1>4. GroupView'
    BY <1>3, RefreshKeepsView DEF GroupsInv
  <1> QED
    BY <1>1, <1>2, <1>4 DEF GroupsInv, PreflightView

\* Invalidation of a planned group, whose chunks are all pending.
LEMMA CancelGroups ==
    ASSUME TypeOK, GroupsInv, NEW h \in Group, CancelPlanned(h), UNCHANGED <<attempt, pc, cur>>
    PROVE  GroupsInv'
  <1>1. CASE groupState[h] # "planned"
    <2>1. istate' = istate /\ groupState' = groupState
      BY <1>1 DEF CancelPlanned, TypeOK
    <2> QED
      BY <2>1, GroupsKept
  <1>2. CASE groupState[h] = "planned"
    <2>1. /\ \A i \in Intent : istate'[i] = IF i \in IntentsOf(h) THEN "cancelled" ELSE istate[i]
          /\ \A g \in Group : groupState'[g] = IF g = h THEN "cancelled" ELSE groupState[g]
      BY <1>2 DEF CancelPlanned, CancelUnclaimed, GroupsInv, GroupView, ViewOf, TypeOK
    <2>2. GroupView'
      <3> SUFFICES ASSUME NEW g \in Group PROVE ViewOf(g, groupState'[g], istate')
        BY DEF GroupView
      <3>1. CASE g = h
        BY <3>1, <2>1, FirstOfGroup DEF ViewOf, IntentsOf
      <3>2. CASE g # h
        <4>1. \A i \in IntentsOf(g) : istate'[i] = istate[i]
          BY <3>2, <2>1 DEF IntentsOf
        <4> QED
          BY <3>2, <2>1, <4>1 DEF GroupsInv, GroupView, ViewOf
      <3> QED
        BY <3>1, <3>2
    <2>3. ClaimedFirst'
      BY <2>1 DEF GroupsInv, ClaimedFirst
    <2>4. PreflightView'
      BY <2>1 DEF GroupsInv, PreflightView, IntentsOf
    <2> QED
      BY <2>2, <2>3, <2>4 DEF GroupsInv
  <1> QED
    BY <1>1, <1>2

LEMMA GroupsStep == TypeOK /\ IInv /\ GroupsInv /\ [Next]_vars => GroupsInv'
  <1> SUFFICES ASSUME TypeOK, IInv, GroupsInv, [Next]_vars PROVE GroupsInv'
    OBVIOUS
  <1> USE DEF groupVars, intentVars, laneVars, telegramVars
  <1>1. CASE UNCHANGED vars \/ Restart
    BY <1>1, GroupsKept DEF vars, Restart, Idle
  <1>2. CASE LaneStep
    <2>1. CASE \/ AdmissionRefused \/ PreflightNothing \/ RefusedAfterClaim \/ CallTelegram
               \/ AnswerAccepted \/ AnswerRejected \/ AnswerLost \/ SettleRefused
      BY <2>1, GroupsKept DEF AdmissionRefused, PreflightNothing, RefusedAfterClaim, CallTelegram,
         AnswerAccepted, AnswerRejected, AnswerLost, SettleRefused, Idle
    <2> QED
      BY <1>2, <2>1, TakeUpStep, ClaimGroups, CutGroups, SettleGroups, RecoverGroups DEF LaneStep
  <1>3. ASSUME NEW g \in Group, GroupStep(g) PROVE GroupsInv'
    <2>1. CASE CreateByRun(g) \/ CreateByWorker(g)
      BY <2>1, TakeUpStep
    <2>2. CASE TurnLeaseLapses(g) \/ HumanPending(g) \/ Incoming(g)
      BY <2>2, GroupsKept DEF TurnLeaseLapses, HumanPending, Incoming
    <2>3. CASE HumanConfirmed(g) \/ Invalidate(g)
      BY <2>3, CancelGroups DEF HumanConfirmed, Invalidate
    <2> QED
      BY <1>3, <2>1, <2>2, <2>3 DEF GroupStep
  <1>4. ASSUME NEW i \in Intent, IntentStep(i) PROVE GroupsInv'
    <2>1. CASE SendLeaseLapses(i) \/ RetryFallsDue(i) \/ Accept(i) \/ Drop(i)
      BY <2>1, GroupsKept DEF SendLeaseLapses, RetryFallsDue, Accept, Drop
    <2>2. CASE MapMessageId(i)
      BY <2>2, MapGroups
    <2>3. CASE Echo(i)
      <3>1. CASE Classified(i) = "resolved"
        BY <2>3, <3>1, EchoGroups DEF Echo
      <3>2. CASE Classified(i) # "resolved"
        BY <2>3, <3>2, GroupsKept DEF Echo
      <3> QED
        BY <3>1, <3>2
    <2>4. CASE EchoEdited(i)
      <3>1. CASE Correctable(i)
        BY <2>4, <3>1, EchoGroups DEF EchoEdited
      <3>2. CASE ~Correctable(i)
        BY <2>4, <3>2, IntentIsPair, CancelGroups DEF EchoEdited
      <3> QED
        BY <3>1, <3>2
    <2> QED
      BY <1>4, <2>1, <2>2, <2>3, <2>4 DEF IntentStep
  <1> QED
    BY <1>1, <1>2, <1>3, <1>4 DEF Next

THEOREM GroupsInvariance == Spec => []GroupsInv
  <1>1. Init => GroupsInv
    <2> SUFFICES ASSUME Init PROVE GroupsInv
      OBVIOUS
    <2>1. \A g \in Group : groupState[g] = "absent" /\ \A i \in IntentsOf(g) : istate[i] = "pending"
      BY DEF Init, IntentsOf
    <2>2. GroupView
      BY <2>1, FirstOfGroup DEF GroupView, ViewOf
    <2> QED
      BY <2>2 DEF Init, GroupsInv, PreflightView, ClaimedFirst
  <1> QED
    BY <1>1, GroupsStep, Invariance, PTL DEF Spec

\* The state of a group agrees with its chunks, however settlement, mapping, recovery, the echoes'
\* _reconcile_intent (all through _refresh_group), invalidation and the closed gate
\* (_cancel_delivery_remainder) interleave.
THEOREM GroupReflectsChunksHolds == Spec => []GroupReflectsChunks
  <1>1. GroupsInv => GroupReflectsChunks
    <2> SUFFICES ASSUME GroupView, NEW g \in Group
                 PROVE  LET states == {istate[i] : i \in IntentsOf(g)} IN
                        /\ groupState[g] = "sent" => states = {"sent"}
                        /\ states = {"sent"} => groupState[g] \in {"sent", "partial"}
                        /\ groupState[g] \in {"absent", "planned"} => states = {"pending"}
                        /\ groupState[g] \in {"partial", "failed"} => "unknown" \notin states
      BY DEF GroupsInv, GroupReflectsChunks
    <2>1. ViewOf(g, groupState[g], istate)
      BY DEF GroupView
    <2>2. \A s : {istate[i] : i \in IntentsOf(g)} = {s} <=> \A i \in IntentsOf(g) : istate[i] = s
      BY StatesOfGroup
    <2>3. (\A i \in IntentsOf(g) : istate[i] # "unknown")
             => "unknown" \notin {istate[i] : i \in IntentsOf(g)}
      OBVIOUS
    <2> QED
      BY <2>1, <2>2, <2>3 DEF ViewOf
  <1> QED
    BY <1>1, GroupsInvariance, PTL

-----------------------------------------------------------------------------
(* Who may claim.                                                          *)

\* A confirmed human message has ended the output it interrupts.
HumanEndsTurn == \A g \in Group : human[g] = "confirmed" => turn[g] # "output_ready"

LEMMA HumanEndsTurnStep == TypeOK /\ HumanEndsTurn /\ [Next]_vars => HumanEndsTurn'
  <1> SUFFICES ASSUME TypeOK, HumanEndsTurn, [Next]_vars PROVE HumanEndsTurn'
    OBVIOUS
  <1> USE DEF groupVars, intentVars, laneVars, telegramVars
  <1>1. ASSUME UNCHANGED human, \A g \in Group : turn'[g] = turn[g] \/ turn'[g] # "output_ready"
        PROVE  HumanEndsTurn'
    BY <1>1 DEF HumanEndsTurn
  <1>2. CASE UNCHANGED <<turn, human>>
    BY <1>2 DEF HumanEndsTurn
  <1>3. CASE UNCHANGED vars \/ LaneStep \/ Restart
    BY <1>3, <1>2 DEF vars, LaneStep, SelectGroup, AdmissionRefused, PreflightClaim, PreflightCut,
       PreflightNothing, RefusedAfterClaim, CallTelegram, AnswerAccepted, AnswerRejected,
       AnswerLost, SettleFenced, SettleRefused, Recover, Restart
  <1>4. ASSUME NEW g \in Group, GroupStep(g) PROVE HumanEndsTurn'
    <2>1. CASE CreateByRun(g) \/ CreateByWorker(g) \/ TurnLeaseLapses(g) \/ Incoming(g)
      BY <2>1, <1>2 DEF CreateByRun, CreateByWorker, TurnLeaseLapses, Incoming
    <2>2. CASE HumanPending(g)
      BY <2>2 DEF HumanPending, HumanEndsTurn, TypeOK
    <2>3. CASE HumanConfirmed(g)
      BY <2>3 DEF HumanConfirmed, CancelTurn, HumanEndsTurn, TypeOK
    <2>4. CASE Invalidate(g)
      BY <2>4, <1>1 DEF Invalidate, CancelTurn, TypeOK
    <2> QED
      BY <1>4, <2>1, <2>2, <2>3, <2>4 DEF GroupStep
  <1>5. ASSUME NEW i \in Intent, IntentStep(i) PROVE HumanEndsTurn'
    <2>1. CASE SendLeaseLapses(i) \/ RetryFallsDue(i) \/ Accept(i) \/ Drop(i) \/ MapMessageId(i)
      BY <2>1, <1>2 DEF SendLeaseLapses, RetryFallsDue, Accept, Drop, MapMessageId
    <2>2. CASE Echo(i)
      <3>1. UNCHANGED turn \/ turn' = [turn EXCEPT ![GroupOf(i)] = "completed"]
        BY <2>2 DEF Echo, CompleteTurnIfDelivered
      <3> QED
        BY <2>2, <3>1, <1>1 DEF Echo, TypeOK
    <2>3. CASE EchoEdited(i)
      <3>1. \/ UNCHANGED turn \/ turn' = [turn EXCEPT ![GroupOf(i)] = "completed"]
            \/ CancelTurn(GroupOf(i))
        BY <2>3 DEF EchoEdited, CompleteTurnIfDelivered
      <3> QED
        BY <2>3, <3>1, <1>1 DEF EchoEdited, CancelTurn, TypeOK
    <2> QED
      BY <1>5, <2>1, <2>2, <2>3 DEF IntentStep
  <1> QED
    BY <1>3, <1>4, <1>5 DEF Next

\* Chunks are attempted by claims only.
LEMMA OnlyClaimsAttempt ==
    ASSUME [Next]_vars
    PROVE  UNCHANGED attempt \/ PreflightClaim
  BY DEF groupVars, intentVars, laneVars, telegramVars,
     Next, vars, LaneStep, SelectGroup, AdmissionRefused, PreflightCut, PreflightNothing,
     RefusedAfterClaim, CallTelegram, AnswerAccepted, AnswerRejected, AnswerLost, SettleFenced,
     SettleRefused, Recover, Restart, GroupStep, CreateByRun, CreateByWorker, TurnLeaseLapses,
     HumanConfirmed, HumanPending, Incoming, Invalidate, IntentStep, SendLeaseLapses,
     RetryFallsDue, Accept, Drop, MapMessageId, Echo, EchoEdited

\* Nothing is claimed by an instance that does not own the turn, of a revoked output, or
\* after the account holder stepped in.
THEOREM ClaimsAreAuthorizedHolds == Spec => ClaimsAreAuthorized
  <1>1. Init => HumanEndsTurn
    BY DEF Init, HumanEndsTurn
  <1>2. TypeOK /\ HumanEndsTurn /\ [Next]_vars =>
          [\A i \in Intent : attempt'[i] # attempt[i] =>
              /\ turn[GroupOf(i)] = "output_ready" /\ lease'[GroupOf(i)] = instance
              /\ human[GroupOf(i)] # "confirmed"]_vars
    <2> SUFFICES ASSUME TypeOK, HumanEndsTurn, [Next]_vars, NEW i \in Intent,
                        attempt'[i] # attempt[i]
                 PROVE  /\ turn[GroupOf(i)] = "output_ready"
                        /\ lease'[GroupOf(i)] = instance
                        /\ human[GroupOf(i)] # "confirmed"
      OBVIOUS
    <2>1. PreflightClaim
      BY OnlyClaimsAttempt
    <2>2. i = cur /\ GroupOf(i) \in Group
      BY <2>1, IntentIsPair DEF PreflightClaim, TypeOK
    <2>3. turn[GroupOf(i)] = "output_ready" /\ LeaseAtPreflight(GroupOf(i)) = instance
      BY <2>1, <2>2 DEF PreflightClaim, FinalGate
    <2>4. lease'[GroupOf(i)] = instance
      BY <2>1, <2>2, <2>3 DEF PreflightClaim, TakeLease, TypeOK
    <2> QED
      BY <2>2, <2>3, <2>4 DEF HumanEndsTurn
  <1> QED
    BY <1>1, <1>2, TypeInit, TypeStep, HumanEndsTurnStep, PTL DEF Spec, ClaimsAreAuthorized

-----------------------------------------------------------------------------
(* Refinement.                                                             *)

\* The steps that decide over a turn close the output or leave it as it is.
LEMMA TurnStepCloses ==
    ASSUME TypeOK, NEW g \in Group, UNCHANGED <<attempt, accepted>>,
           \/ UNCHANGED turn \/ CancelTurn(g) \/ turn' = [turn EXCEPT ![g] = "completed"]
    PROVE  [Promise!OutputNext]_(Promise!outputVars)
  <1> DEFINE Open == {h \in Group : turn[h] = "output_ready"}
  <1>1. CASE UNCHANGED turn \/ turn[g] # "output_ready"
    <2>1. Open' = Open
      BY <1>1 DEF CancelTurn, TypeOK
    <2> QED
      BY <2>1 DEF Promise!outputVars
  <1>2. CASE turn[g] = "output_ready" /\ ~UNCHANGED turn
    <2>1. g \in Open /\ Open' = Open \ {g}
      BY <1>2 DEF CancelTurn, TypeOK
    <2>2. Promise!Close(g)
      BY <2>1 DEF Promise!Close
    <2> QED
      BY <2>2 DEF Promise!OutputNext
  <1> QED
    BY <1>1, <1>2

LEMMA ClaimReleases ==
    ASSUME TypeOK, IInv, PreflightClaim
    PROVE  [Promise!OutputNext]_(Promise!outputVars)
  <1> DEFINE Released == {i \in Intent : attempt[i] > 0}
  <1>1. /\ cur \in Intent /\ cur[1] \in Group /\ turn[cur[1]] = "output_ready"
        /\ attempt' = [attempt EXCEPT ![cur] = @ + 1]
        /\ UNCHANGED <<turn, accepted>>
    BY IntentIsPair DEF PreflightClaim, FinalGate, GroupOf, TypeOK, telegramVars
  <1>2. Promise!Before(cur) \subseteq accepted
    <2> SUFFICES ASSUME NEW d \in Intent, d[1] = cur[1], d[2] < cur[2] PROVE d \in accepted
      BY DEF Promise!Before
    <2>1. d \in Earlier(cur)
      BY DEF Earlier, IntentsOf, GroupOf, Ordinal
    <2> QED
      BY <2>1 DEF PreflightClaim, OrdinalReady, IInv, ChunkInv, SentIsVisible
  <1>3. CASE attempt[cur] > 0
    <2>1. Released' = Released
      BY <1>1, <1>3 DEF TypeOK
    <2> QED
      BY <1>1, <2>1 DEF Promise!outputVars
  <1>4. CASE ~(attempt[cur] > 0)
    <2>1. cur \notin Released /\ Released' = Released \union {cur}
      BY <1>1, <1>4 DEF TypeOK
    <2>2. PICK c \in Intent : c = cur
      BY <1>1
    <2>3. Promise!Release(c)
      BY <1>1, <1>2, <2>1, <2>2 DEF Promise!Release, Promise!Before
    <2> QED
      BY <2>3 DEF Promise!OutputNext
  <1> QED
    BY <1>3, <1>4

LEMMA AcceptAppears ==
    ASSUME TypeOK, IInv, NEW i \in Intent, Accept(i)
    PROVE  [Promise!OutputNext]_(Promise!outputVars)
  <1>1. attempt[i] > 0 /\ i \notin accepted
    BY DEF Accept, IInv, ChunkInv, Touched
  <1>2. Promise!Appear(i)
    BY <1>1 DEF Accept, Promise!Appear, groupVars, intentVars
  <1> QED
    BY <1>2 DEF Promise!OutputNext

\* Every step of Delivery is a step of OrderedOutput or leaves it alone.
LEMMA PromiseStep ==
    ASSUME TypeOK, IInv, [Next]_vars
    PROVE  [Promise!OutputNext]_(Promise!outputVars)
  <1> USE DEF groupVars, intentVars, laneVars, telegramVars
  <1>1. CASE UNCHANGED <<turn, attempt, accepted>>
    BY <1>1 DEF Promise!outputVars
  <1>2. CASE UNCHANGED vars \/ Restart
    BY <1>2, <1>1 DEF vars, Restart
  <1>3. CASE LaneStep
    <2>1. CASE PreflightClaim
      BY <2>1, ClaimReleases
    <2> QED
      BY <1>3, <1>1, <2>1 DEF LaneStep, SelectGroup, AdmissionRefused, PreflightCut,
         PreflightNothing, RefusedAfterClaim, CallTelegram, AnswerAccepted, AnswerRejected,
         AnswerLost, SettleFenced, SettleRefused, Recover
  <1>4. ASSUME NEW g \in Group, GroupStep(g) PROVE [Promise!OutputNext]_(Promise!outputVars)
    <2>1. CASE HumanConfirmed(g) \/ Invalidate(g)
      BY <2>1, TurnStepCloses DEF HumanConfirmed, Invalidate
    <2> QED
      BY <1>4, <1>1, <2>1 DEF GroupStep, CreateByRun, CreateByWorker, TurnLeaseLapses,
         HumanPending, Incoming
  <1>5. ASSUME NEW i \in Intent, IntentStep(i) PROVE [Promise!OutputNext]_(Promise!outputVars)
    <2>1. CASE Accept(i)
      BY <2>1, AcceptAppears
    <2>2. CASE Echo(i) \/ EchoEdited(i)
      <3>1. /\ GroupOf(i) \in Group /\ UNCHANGED <<attempt, accepted>>
            /\ \/ UNCHANGED turn \/ CancelTurn(GroupOf(i))
               \/ turn' = [turn EXCEPT ![GroupOf(i)] = "completed"]
        BY <2>2, IntentIsPair DEF Echo, EchoEdited, CompleteTurnIfDelivered
      <3> QED
        BY <3>1, TurnStepCloses
    <2> QED
      BY <1>5, <1>1, <2>1, <2>2 DEF IntentStep, SendLeaseLapses, RetryFallsDue, Drop, MapMessageId
  <1> QED
    BY <1>2, <1>3, <1>4, <1>5 DEF Next

\* Delivery implements the ordered output it promises.
THEOREM KeepsPromiseHolds == Spec => KeepsPromise
  <1>1. Init => Promise!OutputInit
    BY DEF Init, Promise!OutputInit
  <1> QED
    BY <1>1, PromiseStep, Invariance, PTL DEF Spec, KeepsPromise, Promise!OutputSpec
=============================================================================
