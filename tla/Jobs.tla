-------------------------------- MODULE Jobs --------------------------------
(***************************************************************************)
(* The durable job queue of the worker: rows of background_jobs, the       *)
(* wake-ups of the transactional outbox, the arq queue in Redis that       *)
(* carries them, and the workers that claim, renew, run and finish a job.  *)
(*                                                                         *)
(* A wake-up says only "job j, dispatch generation g".  Every decision is  *)
(* taken against the row, under the fence of the lease; Redis may lose or  *)
(* repeat a wake-up, a worker may die anywhere, and the scheduler's tick   *)
(* repairs what they leave behind.                                         *)
(*                                                                         *)
(* Time is relative: a lease and a retry delay are the ticks they still    *)
(* have to run, so that a behaviour never runs out of clock.               *)
(***************************************************************************)
EXTENDS Naturals

CONSTANTS
    JobIds,          \* rows of background_jobs
    WorkerIds,       \* slots of the worker process: the jobs it runs at a time
    MaxJobAttempts,  \* max_attempts
    JobLeaseTicks,   \* length of a lease in ticks
    MaxGeneration,   \* bound: dispatch generations from here on are one class
    MaxRearms,       \* bound: how often a finished erasure job is made pending again
    MaxMishaps       \* bound: crashes, lost wake-ups, refusals and failed writes

ASSUME JobsConstants ==
    /\ {MaxJobAttempts, JobLeaseTicks, MaxGeneration} \subseteq Nat \ {0}
    /\ {MaxRearms, MaxMishaps} \subseteq Nat

\* a job that is done once, one that a standing erasure request makes pending again, and
\* one that runs the memory agent
JobKind == {"once", "erasure", "memory"}
JobState == {"absent", "pending", "leased", "retry_wait", "succeeded", "failed", "dead_letter"}
Claimable == {"pending", "retry_wait"}
Generation == 1..MaxGeneration

VARIABLES
    jobKind,     \* job_type of the row
    jobRow,      \* background_jobs
    requestOpen, \* the erasure request of an erasure job is in a state that needs work
    rearms,      \* how often the job was made pending again
    wakeup,      \* transactional_outbox: wakeup[j][g] is none, unpublished or published
    arq,         \* notifications in the arq queue, by job and generation
    exec,        \* the execution a worker is in
    mishaps

jobsVars == <<jobKind, jobRow, requestOpen, rearms, wakeup, arq, exec, mishaps>>

Notice == [job : JobIds, generation : Generation]
Idle == [job |-> "no job", fence |-> 0, attempt |-> 0, stage |-> "idle"]
Execution == [job : JobIds \cup {"no job"}, fence : Nat, attempt : Nat,
              stage : {"idle", "started", "prepared", "generated", "recall retryable",
                       "recall permanent", "ok", "retryable", "permanent"}]

\* the owner of a lease is the process, which runs several jobs at once: it is the fence that
\* tells one execution from another
AbsentRow == [state |-> "absent", attempts |-> 0, later |-> FALSE, lease |-> 0, fence |-> 0,
              generation |-> 1, aged |-> FALSE]
JobRowType == [state : JobState, attempts : 0..MaxJobAttempts, later : BOOLEAN,
               lease : 0..JobLeaseTicks, fence : Nat, generation : Generation, aged : BOOLEAN]

JobsTypeOK ==
    /\ jobKind \in [JobIds -> JobKind]
    /\ jobRow \in [JobIds -> JobRowType]
    /\ requestOpen \in [JobIds -> BOOLEAN]
    /\ rearms \in [JobIds -> 0..MaxRearms]
    /\ wakeup \in [JobIds -> [Generation -> {"none", "unpublished", "published"}]]
    /\ arq \subseteq Notice
    /\ exec \in [WorkerIds -> Execution]
    /\ mishaps \in 0..MaxMishaps

JobsInit ==
    /\ jobKind \in [JobIds -> JobKind]
    /\ jobRow = [j \in JobIds |-> AbsentRow]
    /\ requestOpen = [j \in JobIds |-> jobKind[j] = "erasure"]
    /\ rearms = [j \in JobIds |-> 0]
    /\ wakeup = [j \in JobIds |-> [g \in Generation |-> "none"]]
    /\ arq = {}
    /\ exec = [w \in WorkerIds |-> Idle]
    /\ mishaps = 0

-----------------------------------------------------------------------------
(* The outbox *)

NextGeneration(g) == IF g < MaxGeneration THEN g + 1 ELSE g

\* insert ... on conflict do nothing: a generation is announced once.  MaxGeneration stands
\* for all the later ones, so there it is announced again.
AddWakeup(box, g) ==
    IF box[g] = "none" \/ g = MaxGeneration THEN [box EXCEPT ![g] = "unpublished"] ELSE box

Mishap == mishaps < MaxMishaps /\ mishaps' = mishaps + 1

\* a producer inserts the row and its first wake-up in its own transaction; the producers of
\* erasure and memory work are the scheduler's
CreateJob(j) ==
    /\ jobKind[j] = "once"
    /\ jobRow[j].state = "absent"
    /\ jobRow' = [jobRow EXCEPT ![j].state = "pending"]
    /\ wakeup' = [wakeup EXCEPT ![j] = AddWakeup(@, 1)]
    /\ UNCHANGED <<jobKind, requestOpen, rearms, arq, exec, mishaps>>

DueWakeup(j, g) ==
    /\ wakeup[j][g] = "unpublished"
    /\ jobRow[j].state \in Claimable
    /\ ~jobRow[j].later
    /\ jobRow[j].generation >= g

\* the relay reads a due wake-up, sends it and marks it, in three steps.  The row may change
\* between the first two, and a wake-up may also lie in arq while the row changes: one step does.
\* arq keeps one job per id, and the id is the job and its generation.
PublishWakeup(j, g) ==
    /\ DueWakeup(j, g)
    /\ arq' = arq \cup {[job |-> j, generation |-> g]}
    /\ wakeup' = [wakeup EXCEPT ![j][g] = "published"]
    /\ UNCHANGED <<jobKind, jobRow, requestOpen, rearms, exec, mishaps>>

\* Redis refuses, or the relay dies before it can mark what it has sent: it is sent again
PublishUnmarked(j, g, sent) ==
    /\ DueWakeup(j, g)
    /\ Mishap
    /\ arq' = IF sent THEN arq \cup {[job |-> j, generation |-> g]} ELSE arq
    /\ UNCHANGED <<jobKind, jobRow, requestOpen, rearms, wakeup, exec>>

LoseWakeup(n) ==
    /\ n \in arq
    /\ Mishap
    /\ arq' = arq \ {n}
    /\ UNCHANGED <<jobKind, jobRow, requestOpen, rearms, wakeup, exec>>

-----------------------------------------------------------------------------
(* The consumer *)

IdleSlots == {w \in WorkerIds : exec[w] = Idle}

ClaimableNow(row, g) ==
    /\ row.state \in Claimable
    /\ ~row.later
    /\ row.attempts < MaxJobAttempts
    /\ row.generation >= g

ClaimRow(row) ==
    [row EXCEPT !.state = "leased", !.lease = JobLeaseTicks, !.attempts = @ + 1,
                !.fence = @ + 1]

\* the slots of the process are alike: a notification goes to any free one, and it is gone whether or not it leads to a claim
Consume(w, n) ==
    /\ IdleSlots # {}
    /\ w = CHOOSE v \in IdleSlots : TRUE
    /\ n \in arq
    /\ arq' = arq \ {n}
    /\ IF ClaimableNow(jobRow[n.job], n.generation)
       THEN LET row == ClaimRow(jobRow[n.job])
            IN /\ jobRow' = [jobRow EXCEPT ![n.job] = row]
               /\ exec' = [exec EXCEPT ![w] = [job |-> n.job, fence |-> row.fence,
                                               attempt |-> row.attempts, stage |-> "started"]]
       ELSE UNCHANGED <<jobRow, exec>>
    /\ UNCHANGED <<jobKind, requestOpen, rearms, wakeup, mishaps>>

\* the disk admission of the worker refuses new work: the notification is spent
ConsumeRefused(n) ==
    /\ n \in arq
    /\ Mishap
    /\ arq' = arq \ {n}
    /\ UNCHANGED <<jobKind, jobRow, requestOpen, rearms, wakeup, exec>>

HoldsLease(w) ==
    LET row == jobRow[exec[w].job]
    IN /\ row.state = "leased"
       /\ row.fence = exec[w].fence
       /\ row.lease > 0

\* a renewal that is refused only makes the executor give up sooner, which it may do anyway
Renew(w) ==
    /\ exec[w] # Idle
    /\ HoldsLease(w)
    /\ jobRow' = [jobRow EXCEPT ![exec[w].job].lease = JobLeaseTicks]
    /\ UNCHANGED <<jobKind, requestOpen, rearms, wakeup, arq, exec, mishaps>>

\* the executor of every job but the memory agent's: it runs, and raises or not
RunExecutor(w, outcome) ==
    /\ exec[w].stage = "started"
    /\ jobKind[exec[w].job] # "memory"
    /\ outcome \in {"ok", "retryable", "permanent"}
    /\ exec' = [exec EXCEPT ![w].stage = outcome]
    /\ IF outcome = "ok" /\ jobKind[exec[w].job] = "erasure"
       THEN \E open \in {o \in BOOLEAN : o => rearms[exec[w].job] < MaxRearms} :
                requestOpen' = [requestOpen EXCEPT ![exec[w].job] = @ /\ open]
       ELSE UNCHANGED requestOpen
    /\ UNCHANGED <<jobKind, jobRow, rearms, wakeup, arq, mishaps>>

Succeed(w) ==
    /\ exec[w].stage = "ok"
    /\ jobRow' = IF HoldsLease(w)
                 THEN [jobRow EXCEPT ![exec[w].job] =
                        [@ EXCEPT !.state = "succeeded", !.lease = 0, !.aged = FALSE]]
                 ELSE jobRow
    /\ exec' = [exec EXCEPT ![w] = Idle]
    /\ UNCHANGED <<jobKind, requestOpen, rearms, wakeup, arq, mishaps>>

FailureState(w) ==
    IF exec[w].stage = "permanent" THEN "failed"
    ELSE IF exec[w].attempt >= MaxJobAttempts THEN "dead_letter" ELSE "retry_wait"

FailOrRetry(w) ==
    /\ exec[w].stage \in {"retryable", "permanent"}
    /\ LET j == exec[w].job
           retry == FailureState(w) = "retry_wait"
           generation == IF retry THEN NextGeneration(jobRow[j].generation)
                                  ELSE jobRow[j].generation
       IN IF HoldsLease(w)
          THEN /\ jobRow' = [jobRow EXCEPT ![j] =
                    [@ EXCEPT !.state = FailureState(w), !.lease = 0, !.later = retry,
                              !.generation = generation]]
               /\ wakeup' = IF retry THEN [wakeup EXCEPT ![j] = AddWakeup(@, generation)]
                                     ELSE wakeup
          ELSE UNCHANGED <<jobRow, wakeup>>
    /\ exec' = [exec EXCEPT ![w] = Idle]
    /\ UNCHANGED <<jobKind, requestOpen, rearms, arq, mishaps>>

\* arq cancels the job after its timeout, or the process dies: the lease runs out by itself
ExecutionDies(w) ==
    /\ exec[w] # Idle
    /\ Mishap
    /\ exec' = [exec EXCEPT ![w] = Idle]
    /\ UNCHANGED <<jobKind, jobRow, requestOpen, rearms, wakeup, arq>>

-----------------------------------------------------------------------------
(* The scheduler.  Its tick is one transaction, so that it matters little which process runs   *)
(* it: the lock of the leader is not needed for what follows and not part of this module.      *)

ExpiredLease(j) == jobRow[j].state = "leased" /\ jobRow[j].lease = 0

RecoveredRow(row) ==
    LET retryable == row.attempts < MaxJobAttempts
    IN [row EXCEPT !.state = IF retryable THEN "retry_wait" ELSE "dead_letter",
                   !.later = FALSE,
                   !.generation = IF retryable THEN NextGeneration(@) ELSE @]

\* recover_expired
RecoverExpired ==
    [j \in JobIds |-> IF ExpiredLease(j) THEN RecoveredRow(jobRow[j]) ELSE jobRow[j]]

RecoveryWakeups(rows) ==
    [j \in JobIds |-> IF ExpiredLease(j) /\ rows[j].state = "retry_wait"
                      THEN AddWakeup(wakeup[j], rows[j].generation) ELSE wakeup[j]]

\* an erasure request that needs work and has no job, or one that ended well a while ago
ErasureDue(row, j) ==
    /\ jobKind[j] = "erasure"
    /\ requestOpen[j]
    /\ \/ row.state = "absent"
       \/ row.state = "succeeded" /\ row.aged

\* _enqueue_erasure_requests: the upsert bumps the generation without a wake-up
RearmedRow(row) ==
    IF row.state = "absent" THEN [row EXCEPT !.state = "pending"]
    ELSE [row EXCEPT !.state = "pending", !.attempts = 0, !.later = FALSE,
                     !.generation = NextGeneration(@)]

EnqueueErasures(rows) ==
    [j \in JobIds |-> IF ErasureDue(rows[j], j) THEN RearmedRow(rows[j]) ELSE rows[j]]

\* rebuild_due_notifications: a due job none of whose wake-ups is waiting gets a new one
NeedsWakeup(row, box) ==
    /\ row.state \in Claimable
    /\ ~row.later
    /\ row.attempts < MaxJobAttempts
    /\ \A g \in Generation : box[g] # "unpublished"

\* mutant: the wake-up is announced again under the generation it already had
RebuiltInPlace(row, box) == row

RebuiltRow(row, box) ==
    IF NeedsWakeup(row, box) THEN [row EXCEPT !.generation = NextGeneration(@)] ELSE row
RebuiltBox(row, box) ==
    IF NeedsWakeup(row, box) THEN AddWakeup(box, RebuiltRow(row, box).generation) ELSE box

\* the tick is one transaction: recover, enqueue, rebuild.  rows is what the enqueuers leave;
\* without disk admission nothing is rebuilt
TickRows(rows, admitted) ==
    IF admitted
    THEN [j \in JobIds |-> RebuiltRow(rows[j], RecoveryWakeups(RecoverExpired)[j])]
    ELSE rows
TickBoxes(rows, admitted) ==
    IF admitted
    THEN [j \in JobIds |-> RebuiltBox(rows[j], RecoveryWakeups(RecoverExpired)[j])]
    ELSE RecoveryWakeups(RecoverExpired)

Admission(admitted) == IF admitted THEN UNCHANGED mishaps ELSE Mishap

\* a while passes: leases and retry delays run, a finished job ages past a minute
AgedRow(row) ==
    [row EXCEPT !.lease = IF @ > 0 THEN @ - 1 ELSE 0, !.later = FALSE,
                !.aged = row.state = "succeeded"]

JobTimePasses ==
    /\ jobRow' = [j \in JobIds |-> AgedRow(jobRow[j])]
    /\ jobRow' # jobRow
    /\ UNCHANGED <<jobKind, requestOpen, rearms, wakeup, arq, exec,
                   mishaps>>
=============================================================================
