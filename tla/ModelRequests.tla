---------------------------- MODULE ModelRequests ----------------------------
(***************************************************************************)
(* The request of one model run: what is chosen for it and bound to the    *)
(* run as a manifest, the prepared request kept in memory, its             *)
(* reconstruction from the manifest when memory has forgotten it, and the  *)
(* attempts to have it answered.                                           *)
(*                                                                         *)
(* A manifest is a set of sources with their versions.  The prompt, the    *)
(* configuration and the order of the parts never change under a run and   *)
(* are left out.  Meanwhile messages are edited and deleted, memories and  *)
(* summaries replaced and withdrawn, images deleted.                       *)
(***************************************************************************)
EXTENDS Integers, FiniteSets

CONSTANTS ModelAttempts,     \* attempts of the runtime at one run
          ConnectAttempts,   \* connections tried in one attempt
          MaxSourceChanges,  \* bound: changes to the sources
          MaxEvictions       \* bound: prepared requests forgotten

ASSUME AttemptsAssumption == ModelAttempts \in Nat \ {0} /\ ConnectAttempts \in Nat \ {0}

Kind == {"turn message", "recent message", "memory", "summary", "image"}
MaterialVersion == 0..MaxSourceChanges
Manifest == SUBSET (Kind \X MaterialVersion)
CallStep == {"preparing", "connecting", "waiting", "failed", "fencing", "over"}

VARIABLES material,      \* kind -> the version that is current, and whether it stands
          modelRun,      \* the run: its state, and whether it is to be cancelled
          manifest,      \* what is bound to the run; {} before
          atHand,        \* the request in memory; {} when there is none
          call,          \* where the runtime is with the request
          requested,     \* every request a provider was sent for the run
          answers,       \* how often the provider may have worked on it
          overlooked,    \* how often of these it answered with a status that asks to come again
          evictions

requestsVars ==
    <<material, modelRun, manifest, atHand, call, requested, answers, overlooked, evictions>>

RequestsTypeOK ==
    /\ material \in [Kind -> [version : MaterialVersion, stands : BOOLEAN]]
    /\ modelRun \in [state : {"running", "completed", "failed"}, cancelled : BOOLEAN]
    /\ manifest \in Manifest /\ atHand \in Manifest
    /\ call.step \in CallStep
    /\ call.attempt \in 1..ModelAttempts /\ call.tries \in 0..ConnectAttempts
    /\ call.request \in Manifest
    /\ call.failure \in [retryable : BOOLEAN, maySent : BOOLEAN]
    /\ requested \subseteq Manifest
    /\ answers \in 0..ModelAttempts /\ overlooked \in 0..ModelAttempts
    /\ evictions \in 0..MaxEvictions

NoFailure == [retryable |-> FALSE, maySent |-> FALSE]
RequestsInit ==
    /\ material = [k \in Kind |-> [version |-> 0, stands |-> TRUE]]
    /\ modelRun = [state |-> "running", cancelled |-> FALSE]
    /\ manifest = {} /\ atHand = {}
    /\ call = [step |-> "preparing", attempt |-> 1, tries |-> 0, request |-> {},
               failure |-> NoFailure]
    /\ requested = {} /\ answers = 0 /\ overlooked = 0 /\ evictions = 0

Changes == LET told == {material[k].version : k \in Kind} IN
           CHOOSE v \in told : \A w \in told : w <= v
MayRun == modelRun.state = "running" /\ ~modelRun.cancelled
InStep(step) == call.step = step

-----------------------------------------------------------------------------
(* Sources change.  A version is told by the number of the change. *)

\* changes after the run are of no interest
Counts == Changes < MaxSourceChanges /\ call.step # "over"

\* a change to a message of the turn withdraws the run in the same transaction
ChangeSource(k) ==
    /\ material[k].stands /\ Counts
    /\ material' = [material EXCEPT ![k].version = Changes + 1]
    /\ k # "image"
    /\ modelRun' = IF k = "turn message" THEN [modelRun EXCEPT !.cancelled = TRUE] ELSE modelRun
    /\ UNCHANGED <<manifest, atHand, call, requested, answers, overlooked, evictions>>

WithdrawSource(k) ==
    /\ material[k].stands /\ Counts
    /\ material' = [material EXCEPT ![k] = [version |-> Changes + 1, stands |-> FALSE]]
    /\ modelRun' = IF k = "turn message" THEN [modelRun EXCEPT !.cancelled = TRUE] ELSE modelRun
    /\ UNCHANGED <<manifest, atHand, call, requested, answers, overlooked, evictions>>

\* a changed profile, or room for another request
ForgetPrepared ==
    /\ atHand # {} /\ evictions < MaxEvictions /\ call.step # "over"
    /\ atHand' = {}
    /\ evictions' = evictions + 1
    /\ UNCHANGED <<material, modelRun, manifest, call, requested, answers, overlooked>>

-----------------------------------------------------------------------------
(* Preparing *)

MessageExact(k, v) == material[k] = [version |-> v, stands |-> TRUE]
MemoryExact(v) == material["memory"] = [version |-> v, stands |-> TRUE]
SummaryExact(v) == material["summary"] = [version |-> v, stands |-> TRUE]

\* an image has one version, and stands with the message that shows it
ImageExact(v) == material["image"].stands /\ material["turn message"].stands

Exact(k, v) ==
    CASE k = "memory" -> MemoryExact(v)
      [] k = "summary" -> SummaryExact(v)
      [] k = "image" -> ImageExact(v)
      [] OTHER -> MessageExact(k, v)

SourceOf(k) == <<k, material[k].version>>
CurrentOf(kinds) == {SourceOf(k) : k \in kinds}
RecentMessages == {k \in {"recent message"} : material[k].stands}
MemorySources == {k \in {"memory"} : material[k].stands}
SummarySources == {k \in {"summary"} : material[k].stands}
ImageSources == {k \in {"image"} : material[k].stands /\ material["turn message"].stands}

\* what the turn says is there; the rest may be left out for want of room
Selections ==
    {{"turn message"} \cup kept :
        kept \in SUBSET (RecentMessages \cup MemorySources \cup SummarySources \cup ImageSources)}

HasRequest(request) ==
    call' = [call EXCEPT !.step = "connecting", !.request = request, !.tries = 0]
CallFails(retryable, maySent) ==
    call' = [call EXCEPT !.step = "failed", !.request = {},
                         !.failure = [retryable |-> retryable, maySent |-> maySent]]

Over == [step |-> "over", attempt |-> 1, tries |-> 0, request |-> {}, failure |-> NoFailure]

\* the request is kept for the next attempt
Remember(request) == atHand' = request

UsePrepared ==
    /\ InStep("preparing") /\ atHand # {}
    /\ HasRequest(atHand)
    /\ UNCHANGED <<material, modelRun, manifest, atHand, requested, answers, overlooked, evictions>>

\* a manifest is written once, with every source it names
BindManifest(kinds) == manifest' = CurrentOf(kinds)

\* the manifest is bound to a run that has none
PrepareRequest ==
    /\ InStep("preparing") /\ atHand = {}
    /\ manifest = {} /\ MayRun
    /\ \E kinds \in Selections :
        /\ BindManifest(kinds)
        /\ Remember(manifest')
        /\ HasRequest(manifest')
    /\ UNCHANGED <<material, modelRun, requested, answers, overlooked, evictions>>

\* the request is what the manifest says, if all of it still stands
Rebuilt == manifest
AllExact == \A item \in Rebuilt : Exact(item[1], item[2])

LoadPrepared ==
    /\ InStep("preparing") /\ atHand = {}
    /\ manifest # {} /\ MayRun /\ AllExact
    /\ Remember(Rebuilt)
    /\ HasRequest(Rebuilt)
    /\ UNCHANGED <<material, modelRun, manifest, requested, answers, overlooked, evictions>>

\* the run, its snapshot or its sources are no longer what they were; or something else failed
PrepareRefused ==
    /\ InStep("preparing") /\ atHand = {}
    /\ CallFails(FALSE, FALSE)
    /\ UNCHANGED <<material, modelRun, manifest, atHand, requested, answers, overlooked, evictions>>

-----------------------------------------------------------------------------
(* Asking the provider *)

\* an image, the key or the endpoint is not to be had
CompositionFails ==
    /\ InStep("connecting") /\ call.tries = 0
    /\ CallFails(FALSE, FALSE)
    /\ UNCHANGED <<material, modelRun, manifest, atHand, requested, answers, overlooked, evictions>>

\* no connection: the next address is tried
ConnectFails ==
    /\ InStep("connecting")
    /\ IF call.tries + 1 < ConnectAttempts
       THEN call' = [call EXCEPT !.tries = @ + 1]
       ELSE CallFails(TRUE, FALSE)
    /\ UNCHANGED <<material, modelRun, manifest, atHand, requested, answers, overlooked, evictions>>

\* the body of the request comes from the sources alone
Ask(request) == requested' = requested \cup {request}

SendRequest ==
    /\ InStep("connecting")
    /\ Ask(call.request)
    /\ call' = [call EXCEPT !.step = "waiting"]
    /\ UNCHANGED <<material, modelRun, manifest, atHand, answers, overlooked, evictions>>

WorkedOn == answers' = answers + 1

\* a status other than success: for good, or for now (408, 409, 425, 429, 5xx).  The code takes
\* either for a request that was not taken up; the provider may have worked on it all the same
RequestRefused ==
    /\ InStep("waiting")
    /\ \E forNow \in BOOLEAN :
        /\ CallFails(forNow, FALSE)
        /\ \/ UNCHANGED <<answers, overlooked>>
           \/ WorkedOn /\ overlooked' = IF forNow THEN overlooked + 1 ELSE overlooked
    /\ UNCHANGED <<material, modelRun, manifest, atHand, requested, evictions>>

\* the connection broke, time was up, or the answer cannot be read
AnswerIsLost ==
    /\ InStep("waiting")
    /\ WorkedOn
    /\ CallFails(TRUE, TRUE) \/ CallFails(FALSE, FALSE)
    /\ UNCHANGED <<material, modelRun, manifest, atHand, requested, overlooked, evictions>>

Answered ==
    /\ InStep("waiting")
    /\ WorkedOn
    /\ call' = Over
    /\ modelRun' = [modelRun EXCEPT !.state = IF modelRun.cancelled THEN "failed" ELSE "completed"]
    /\ UNCHANGED <<material, manifest, atHand, requested, overlooked, evictions>>

-----------------------------------------------------------------------------
(* The runtime *)

\* tries again whatever became of the request
RetryableOnly == call.attempt < ModelAttempts /\ call.failure.retryable

CanRetry == call.attempt < ModelAttempts /\ call.failure.retryable /\ ~call.failure.maySent

\* the attempt is closed in the journal, and the wait begins
RecordRetry ==
    /\ InStep("failed") /\ CanRetry /\ MayRun
    /\ call' = [call EXCEPT !.step = "fencing"]
    /\ UNCHANGED <<material, modelRun, manifest, atHand, requested, answers, overlooked, evictions>>

\* the wait is over, and the lease of the run is renewed
RetryFence ==
    /\ InStep("fencing") /\ MayRun
    /\ call' = [call EXCEPT !.step = "preparing", !.attempt = @ + 1,
                            !.failure = NoFailure]
    /\ UNCHANGED <<material, modelRun, manifest, atHand, requested, answers, overlooked, evictions>>

\* no retry, or none that may be; or the deadline has passed
EndRun ==
    /\ InStep("failed") \/ InStep("fencing")
    /\ call' = Over
    /\ modelRun' = [modelRun EXCEPT !.state = "failed"]
    /\ UNCHANGED <<material, manifest, atHand, requested, answers, overlooked, evictions>>

\* the monitor ends the attempt of a run that is cancelled, and time ends any; what was sent may
\* be worked on
AttemptEnds ==
    /\ call.step \in {"preparing", "connecting", "waiting"}
    /\ answers' = IF InStep("waiting") THEN answers + 1 ELSE answers
    /\ \/ /\ modelRun.cancelled
          /\ call' = Over
          /\ modelRun' = [modelRun EXCEPT !.state = "failed"]
       \/ CallFails(TRUE, TRUE) /\ UNCHANGED modelRun
    /\ UNCHANGED <<material, manifest, atHand, requested, overlooked, evictions>>

-----------------------------------------------------------------------------
RequestsNext ==
    \/ \E k \in Kind : ChangeSource(k) \/ WithdrawSource(k)
    \/ ForgetPrepared
    \/ UsePrepared \/ PrepareRequest \/ LoadPrepared \/ PrepareRefused
    \/ CompositionFails \/ ConnectFails \/ SendRequest \/ RequestRefused \/ AnswerIsLost \/ Answered
    \/ RecordRetry \/ RetryFence \/ EndRun \/ AttemptEnds

RequestsSpec == RequestsInit /\ [][RequestsNext]_requestsVars

-----------------------------------------------------------------------------
\* However often a run is tried, whatever is edited, withdrawn or forgotten in between, its
\* requests are one and the same, the one bound to it.  While one is out, each earlier one that
\* the provider may have worked on was answered with a status that asks to come again, which the
\* code retries whatever it hides (_error_for_status): no request follows one whose answer was
\* lost, cut off or read, or that was refused for good.
OneRequestPerRun ==
    /\ requested \subseteq {manifest}
    /\ InStep("waiting") => answers = overlooked
=============================================================================
