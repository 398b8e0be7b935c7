---------------------------- MODULE ProactiveBudget ----------------------------
(***************************************************************************)
(* Messages the account sends unasked, and the daily budget they consume.  *)
(* A publisher of the worker process leases the due job of a candidate,    *)
(* lets one model decide, takes a place in every budget the message counts *)
(* in, lets another model write, and creates the group to send or a draft  *)
(* to approve, bound to the place.  The app charges the place in the       *)
(* transaction that opens the first send.  A place that was not charged    *)
(* ends with its deadline.  Publishers may overlap and crash anywhere, the *)
(* conversation may move on at any point.                                  *)
(***************************************************************************)
EXTENDS Integers, FiniteSets

CONSTANTS
    Candidates,
    Publishers,
    Budgets,              \* the budgets of a day: of the account, of a contact, of bypasses
    CountsIn,             \* the budgets a candidate counts in
    DailyLimit,           \* the limit of each
    Drafted,              \* the candidates whose conversation wants a draft to approve
    MaxProactiveAttempts, \* claims of a job
    MaxDisturbances       \* bound: crashes, leases that end under their owner, providers that do not
                          \* answer, conversations that move on, windows that close

ASSUME BudgetConstants ==
    /\ IsFiniteSet(Candidates)
    /\ CountsIn \in [Candidates -> SUBSET Budgets]
    /\ DailyLimit \in [Budgets -> Nat]
    /\ Drafted \subseteq Candidates
    /\ MaxProactiveAttempts \in Nat \ {0} /\ MaxDisturbances \in Nat

VARIABLES
    candidate,   \* state of a candidate
    upToDate,    \* its snapshots are those of the conversation, its window is open
    dueJob,      \* its job
    publisher,   \* what a publisher is doing, and for which candidate
    place,       \* its reservation
    counter,     \* the budgets: places held, places charged
    target,      \* what was published: its group, or its draft
    departed,    \* ghost: messages that left
    disturbances

budgetVars == <<candidate, upToDate, dueJob, publisher, place, counter, target, departed, disturbances>>

CandidateState == {"open", "send_selected", "deferred_once", "evaluated_none", "failed_model"}
Runnable == {"open", "send_selected", "deferred_once"}
DueJobRow == [state : {"pending", "leased", "retry_wait", "succeeded", "expired", "dead_letter"},
              owner : Publishers \cup {"nobody"}, live : BOOLEAN,
              attempts : 0..MaxProactiveAttempts, due : BOOLEAN]
Bucket == [held : Nat, charged : Nat]
PlaceRow == [state : {"none", "held", "send_unknown", "expired"}, fresh : BOOLEAN, bound : BOOLEAN]
TargetState == {"none", "draft", "planned", "sending", "again", "sent", "unknown",
                "cancelled", "partial", "ended"}

Off == [step |-> "off", of |-> "nobody"]

BudgetTypeOK ==
    /\ candidate \in [Candidates -> CandidateState]
    /\ upToDate \in [Candidates -> [snapshot : BOOLEAN, window : BOOLEAN]]
    /\ dueJob \in [Candidates -> DueJobRow]
    /\ publisher \in [Publishers ->
         [step : {"off", "swept", "decide", "reserve", "write", "finish"},
          of : Candidates \cup {"nobody"}]]
    /\ place \in [Candidates -> PlaceRow]
    /\ counter \in [Budgets -> Bucket]
    /\ target \in [Candidates -> TargetState]
    /\ departed \in [Candidates -> 0..2]
    /\ disturbances \in 0..MaxDisturbances

NewDueJob == [state |-> "pending", owner |-> "nobody", live |-> FALSE, attempts |-> 0, due |-> TRUE]

BudgetInit ==
    /\ candidate = [c \in Candidates |-> "open"]
    /\ upToDate = [c \in Candidates |-> [snapshot |-> TRUE, window |-> TRUE]]
    /\ dueJob = [c \in Candidates |-> NewDueJob]
    /\ publisher = [p \in Publishers |-> Off]
    /\ place = [c \in Candidates |-> [state |-> "none", fresh |-> FALSE, bound |-> FALSE]]
    /\ counter = [b \in Budgets |-> [held |-> 0, charged |-> 0]]
    /\ target = [c \in Candidates |-> "none"]
    /\ departed = [c \in Candidates |-> 0]
    /\ disturbances = 0

Turn(p, s) == publisher' = [publisher EXCEPT ![p].step = s]
Drop(p) == publisher' = [publisher EXCEPT ![p] = Off]
Disturbed == disturbances < MaxDisturbances /\ disturbances' = disturbances + 1
Deadline(c) == upToDate[c].window /\ place[c].fresh
worker == <<candidate, dueJob, publisher>>
app == <<place, counter, target, departed>>

-----------------------------------------------------------------------------
(* Places *)

Holds(c) == place[c].state = "held"
Charged(c) == place[c].state = "send_unknown"

\* a group that never began to send, a draft that came to nothing, or none at all
Releasable(c) == target[c] \in {"none", "cancelled", "ended"}
Started(c) == target[c] \in {"sending", "again", "sent", "unknown", "partial"}

\* the rows of the places in S take the state s, and the budgets follow
Settle(S, s) ==
    /\ place' = [c \in Candidates |-> IF c \in S THEN [place[c] EXCEPT !.state = s] ELSE place[c]]
    /\ counter' = [b \in Budgets |->
         LET n == Cardinality({c \in S : b \in CountsIn[c]})
         IN [held |-> counter[b].held - n,
             charged |-> counter[b].charged + (IF s = "send_unknown" THEN n ELSE 0)]]

\* mutant: a place that is only held is no obstacle
RoomBesideCharged(c) == \A b \in CountsIn[c] : counter[b].charged < DailyLimit[b]

HasRoom(c) == \A b \in CountsIn[c] : counter[b].held + counter[b].charged < DailyLimit[b]

-----------------------------------------------------------------------------
(* The passes of a publisher *)

\* a lease that ended, and what becomes of a job that cannot be run again
AfterLease(c) ==
    CASE candidate[c] \notin Runnable -> "succeeded"
      [] ~upToDate[c].window -> "expired"
      [] dueJob[c].attempts >= MaxProactiveAttempts -> "dead_letter"
      [] OTHER -> "retry_wait"

Free(row, s) == [row EXCEPT !.state = s, !.owner = "nobody", !.live = FALSE]

RecoverDue ==
    dueJob' = [c \in Candidates |->
        IF dueJob[c].state = "leased" /\ ~dueJob[c].live
        THEN Free(dueJob[c], AfterLease(c)) ELSE dueJob[c]]

\* what waits to be sent or approved ends with its place
Expirable(c) == target[c] \in {"planned", "draft"}

\* expired targets are ended, and their places given back
Sweep(p) ==
    LET over == {c \in Candidates : Holds(c) /\ ~Deadline(c)}
        ended == {c \in over : Expirable(c)}
    IN /\ publisher[p].step = "off"
       /\ RecoverDue
       /\ target' = [c \in Candidates |->
            IF c \notin ended THEN target[c]
            ELSE IF target[c] = "planned" THEN "cancelled" ELSE "ended"]
       /\ Settle({c \in over : c \in ended \/ Releasable(c)}, "expired")
       /\ Turn(p, "swept")
       /\ UNCHANGED <<candidate, upToDate, departed, disturbances>>

\* jobs that cannot be run any more are closed by whoever claims next
Retired(c) ==
    dueJob[c].state \in {"pending", "retry_wait"}
      /\ (candidate[c] \notin Runnable \/ ~upToDate[c].window
            \/ dueJob[c].attempts >= MaxProactiveAttempts)

\* a job that was interrupted goes on from what it left
Begins(c) ==
    IF place[c].bound THEN "finish" ELSE IF candidate[c] = "open" THEN "decide" ELSE "reserve"

ClaimNext(p, c) ==
    /\ publisher[p].step = "swept"
    /\ dueJob[c].state \in {"pending", "retry_wait"} /\ dueJob[c].due /\ ~Retired(c)
    /\ dueJob' = [d \in Candidates |->
         IF d = c THEN [dueJob[d] EXCEPT !.state = "leased", !.owner = p, !.live = TRUE,
                                         !.attempts = @ + 1]
         ELSE IF Retired(d) THEN Free(dueJob[d], AfterLease(d)) ELSE dueJob[d]]
    /\ publisher' = [publisher EXCEPT ![p] = [step |-> Begins(c), of |-> c]]
    /\ UNCHANGED <<candidate, upToDate, app, disturbances>>

NothingDue(p) ==
    /\ publisher[p].step = "swept"
    /\ \A c \in Candidates :
         ~(dueJob[c].state \in {"pending", "retry_wait"} /\ dueJob[c].due /\ ~Retired(c))
    /\ dueJob' = [c \in Candidates |->
         IF Retired(c) THEN Free(dueJob[c], AfterLease(c)) ELSE dueJob[c]]
    /\ Drop(p)
    /\ UNCHANGED <<candidate, upToDate, app, disturbances>>

-----------------------------------------------------------------------------
(* The job of a candidate *)

Fenced(p) ==
    LET row == dueJob[publisher[p].of] IN row.state = "leased" /\ row.owner = p /\ row.live

\* control, mode, content, activity, evidence and settings are those of the candidate
Gate(c) == candidate[c] \in Runnable /\ upToDate[c].snapshot /\ upToDate[c].window

\* an error that another attempt may cure leaves the candidate as it is; without the lease there
\* is nothing to write
Fail(p, retryable) ==
    LET c == publisher[p].of
    IN /\ IF Fenced(p)
          THEN /\ candidate' = IF retryable THEN candidate
                               ELSE [candidate EXCEPT ![c] = "failed_model"]
               /\ dueJob' = [dueJob EXCEPT ![c] =
                               Free(@, IF retryable THEN AfterLease(c) ELSE "succeeded")]
          ELSE UNCHANGED <<candidate, dueJob>>
       /\ Drop(p)
       /\ UNCHANGED <<upToDate, app>>

\* the decision of the first model is kept; a deferred job is given back for later
RecordDecision(p) ==
    LET c == publisher[p].of
    IN /\ publisher[p].step = "decide" /\ Fenced(p) /\ Gate(c)
       /\ \E action \in {"send_selected", "deferred_once", "evaluated_none"} :
            /\ candidate' = [candidate EXCEPT ![c] = action]
            /\ IF action = "deferred_once"
               THEN /\ dueJob' = [dueJob EXCEPT ![c] =
                        [Free(@, "pending") EXCEPT !.due = FALSE, !.attempts = 0]]
                    /\ Drop(p)
               ELSE /\ Turn(p, IF action = "send_selected" THEN "reserve" ELSE "finish")
                    /\ UNCHANGED dueJob
       /\ UNCHANGED <<upToDate, app, disturbances>>

\* a retry finds the place it took before, as long as the deadline has not passed
ReserveBudget(p) ==
    LET c == publisher[p].of
    IN /\ publisher[p].step = "reserve" /\ Fenced(p) /\ Gate(c)
       /\ \/ Holds(c) /\ Deadline(c) /\ UNCHANGED <<place, counter>>
          \/ /\ place[c].state = "none" /\ HasRoom(c)
             /\ place' = [place EXCEPT ![c] = [state |-> "held", fresh |-> TRUE, bound |-> FALSE]]
             /\ counter' = [b \in Budgets |->
                  IF b \in CountsIn[c] THEN [counter[b] EXCEPT !.held = @ + 1] ELSE counter[b]]
       /\ Turn(p, "write")
       /\ UNCHANGED <<candidate, upToDate, dueJob, target, departed, disturbances>>

CanReserve(c) == (Holds(c) /\ Deadline(c)) \/ (place[c].state = "none" /\ HasRoom(c))
CanPublish(c) == Holds(c) /\ Deadline(c) /\ ~place[c].bound

\* the place is bound to the group or the draft, and no longer to the job
BindTarget(c) == place' = [place EXCEPT ![c].bound = TRUE]

Publish(p) ==
    LET c == publisher[p].of
    IN /\ publisher[p].step = "write" /\ Fenced(p) /\ Gate(c) /\ CanPublish(c)
       /\ target' = [target EXCEPT ![c] = IF c \in Drafted THEN "draft" ELSE "planned"]
       /\ BindTarget(c)
       /\ dueJob' = [dueJob EXCEPT ![c] = Free(@, "succeeded")]
       /\ Drop(p)
       /\ UNCHANGED <<candidate, upToDate, counter, departed, disturbances>>

\* what a transaction of the job refuses is not tried again
Refused(p) ==
    LET c == publisher[p].of
    IN /\ \/ publisher[p].step = "decide" /\ ~Gate(c)
          \/ publisher[p].step = "reserve" /\ ~(Gate(c) /\ CanReserve(c))
          \/ publisher[p].step = "write" /\ ~(Gate(c) /\ CanPublish(c))
       /\ Fail(p, FALSE) /\ UNCHANGED disturbances

LeaseLost(p) ==
    /\ publisher[p].step \in {"decide", "reserve", "write"} /\ ~Fenced(p)
    /\ Fail(p, TRUE) /\ UNCHANGED disturbances

\* a provider that does not answer may answer later; what it answers may not be usable
ModelFails(p) ==
    /\ publisher[p].step \in {"decide", "write"}
    /\ \/ Fail(p, TRUE) /\ Disturbed
       \/ Fail(p, FALSE) /\ UNCHANGED disturbances

CompleteJob(p) ==
    /\ publisher[p].step = "finish"
    /\ dueJob' = IF Fenced(p) THEN [dueJob EXCEPT ![publisher[p].of] = Free(@, "succeeded")]
                 ELSE dueJob
    /\ Drop(p)
    /\ UNCHANGED <<candidate, upToDate, app, disturbances>>

-----------------------------------------------------------------------------
(* The app *)


\* the decision is authorized anew at the last moment
Authorized(c) ==
    upToDate[c].snapshot /\ upToDate[c].window /\ (Holds(c) \/ Charged(c)) /\ place[c].fresh

ApproveDraft(c) ==
    /\ target[c] = "draft" /\ Authorized(c)
    /\ target' = [target EXCEPT ![c] = "planned"]
    /\ UNCHANGED <<worker, upToDate, place, counter, departed, disturbances>>

IgnoreDraft(c) ==
    /\ target[c] = "draft"
    /\ target' = [target EXCEPT ![c] = "ended"]
    /\ UNCHANGED <<worker, upToDate, place, counter, departed, disturbances>>

\* charged once, when the first send is opened
PreflightIntent(c) ==
    /\ target[c] \in {"planned", "again"}
    /\ IF Authorized(c)
       THEN /\ target' = [target EXCEPT ![c] = "sending"]
            /\ IF Holds(c) THEN Settle({c}, "send_unknown") ELSE UNCHANGED <<place, counter>>
       ELSE /\ target' = [target EXCEPT ![c] = IF Started(c) THEN "partial" ELSE "cancelled"]
            /\ UNCHANGED <<place, counter>>
    /\ UNCHANGED <<worker, upToDate, departed, disturbances>>

\* only a message that is known not to have left is sent again
SendMessage(c) ==
    /\ target[c] = "sending"
    /\ \E outcome \in {"sent", "unknown", "again"}, leaves \in BOOLEAN :
        /\ outcome = "sent" => leaves
        /\ outcome = "again" => ~leaves
        /\ target' = [target EXCEPT ![c] = outcome]
        /\ departed' = [departed EXCEPT ![c] = IF leaves THEN @ + 1 ELSE @]
    /\ UNCHANGED <<worker, upToDate, place, counter, disturbances>>

\* a message, a command, an edit: what has not begun to be sent is ended at once
InvalidatePreSend(c) ==
    /\ upToDate[c].snapshot /\ Disturbed
    /\ upToDate' = [upToDate EXCEPT ![c].snapshot = FALSE]
    /\ target' = [target EXCEPT ![c] = CASE @ = "planned" -> "cancelled" [] @ = "draft" -> "ended"
                                         [] OTHER -> @]
    /\ UNCHANGED <<worker, place, counter, departed>>

-----------------------------------------------------------------------------
(* Time and failures *)

WindowEnds(c) ==
    /\ upToDate[c].window /\ Disturbed
    /\ upToDate' = [upToDate EXCEPT ![c].window = FALSE]
    /\ UNCHANGED <<worker, app>>

PlaceEnds(c) ==
    /\ place[c].fresh
    /\ place' = [place EXCEPT ![c].fresh = FALSE]
    /\ UNCHANGED <<worker, upToDate, counter, target, departed, disturbances>>

DeferEnds(c) ==
    /\ ~dueJob[c].due
    /\ dueJob' = [dueJob EXCEPT ![c].due = TRUE]
    /\ UNCHANGED <<candidate, publisher, upToDate, app, disturbances>>

Renews(c) == \E p \in Publishers : dueJob[c].owner = p /\ publisher[p].of = c

\* a publisher renews its lease, a dead one does not
DueLeaseEnds(c) ==
    /\ dueJob[c].live
    /\ dueJob' = [dueJob EXCEPT ![c].live = FALSE]
    /\ IF Renews(c) THEN Disturbed ELSE UNCHANGED disturbances
    /\ UNCHANGED <<candidate, publisher, upToDate, app>>

\* the next process is another owner
PublisherCrashes(p) ==
    /\ publisher[p].step # "off"
    /\ Disturbed
    /\ Drop(p)
    /\ dueJob' = [c \in Candidates |-> IF dueJob[c].owner = p
                                       THEN [dueJob[c] EXCEPT !.owner = "nobody"] ELSE dueJob[c]]
    /\ UNCHANGED <<candidate, upToDate, app>>

PublisherStep(p) ==
    \/ Sweep(p) \/ NothingDue(p) \/ RecordDecision(p) \/ ReserveBudget(p)
    \/ Publish(p) \/ Refused(p) \/ LeaseLost(p) \/ ModelFails(p) \/ CompleteJob(p)
    \/ \E c \in Candidates : ClaimNext(p, c)

TargetStep(c) ==
    PreflightIntent(c) \/ SendMessage(c) \/ ApproveDraft(c) \/ IgnoreDraft(c)

TimePasses(c) == WindowEnds(c) \/ PlaceEnds(c) \/ DeferEnds(c) \/ DueLeaseEnds(c)

BudgetNext ==
    \/ \E p \in Publishers : PublisherStep(p) \/ PublisherCrashes(p)
    \/ \E c \in Candidates : TargetStep(c) \/ InvalidatePreSend(c) \/ TimePasses(c)

\* publishers run, and time passes
BudgetFairness ==
    /\ \A p \in Publishers : WF_budgetVars(PublisherStep(p))
    /\ \A c \in Candidates : WF_budgetVars(PlaceEnds(c))

BudgetSpec == BudgetInit /\ [][BudgetNext]_budgetVars /\ BudgetFairness

-----------------------------------------------------------------------------
(* Properties *)

InBudget(S, b) == Cardinality({c \in S : b \in CountsIn[c]})

\* However publishers overlap, crash and retry, and however late the app and the administrator act:
\* no budget is exceeded, by places or by messages; its counters are those of its places; every
\* message that left was charged, and left once.
BudgetHonoured ==
    /\ \A b \in Budgets :
        /\ counter[b].held = InBudget({c \in Candidates : Holds(c)}, b)
        /\ counter[b].charged = InBudget({c \in Candidates : Charged(c)}, b)
        /\ counter[b].held + counter[b].charged <= DailyLimit[b]
    /\ \A c \in Candidates :
        /\ Started(c) => Charged(c)
        /\ departed[c] <= 1 /\ (departed[c] = 1 => Started(c))

\* where a candidate stands: what began to be sent is charged, whatever its place says
StandingOf(c) ==
    IF Started(c) THEN "charged"
    ELSE IF Holds(c) THEN "held"
    ELSE IF place[c].state = "none" THEN "none" ELSE "given back"

Ration == INSTANCE RationedMessages WITH
    Messages <- Candidates,
    Rations <- Budgets,
    CountedIn <- CountsIn,
    Limit <- DailyLimit,
    SizeOf <- Cardinality,
    standing <- [c \in Candidates |-> StandingOf(c)],
    left <- departed,
    books <- counter

\* Messages are rationed: however publishers overlap, crash and retry, and however late the app,
\* the conversation and the administrator act, a place is taken once and only where there is room,
\* a charge is never given back, a message leaves once and charged, and the counters of the
\* budgets are those of the places in the same transaction (proactive_repository.py,
\* proactive_generation.py, and `preflight_intent` of the app).
KeepsRation == Ration!RationSpec
=============================================================================
