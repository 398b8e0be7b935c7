----------------------------- MODULE MemoryRuns -----------------------------
(***************************************************************************)
(* The memory agent on the durable job queue.  A generation of memory work *)
(* is a row of memory_jobs; it runs under a parent row of background_jobs, *)
(* and the two are kept in step by nothing but the transactions of the     *)
(* executor (prepare, complete, fail), each fenced by the lease of the     *)
(* parent, and by the scheduler's enqueue_pending.  The provider call lies *)
(* between two of those transactions, so that a second execution may have  *)
(* started when the answer comes.                                          *)
(***************************************************************************)
EXTENDS Jobs

VARIABLES
    memory,     \* memory_jobs
    prepared,   \* the memory lease an execution got from prepare: its job_version
    results     \* how many answers of a generation were committed

memoryVars == <<memory, prepared, results>>
memoryRunsVars == <<jobsVars, memoryVars>>

Outstanding == {"pending", "running", "retry_wait"}
MemoryRow == [state : Outstanding \cup {"succeeded", "dead_letter"}, due : BOOLEAN,
              tried : BOOLEAN, sealed : BOOLEAN, version : Nat, extended : 0..MaxRearms]
FreshMemory == [state |-> "pending", due |-> FALSE, tried |-> FALSE, sealed |-> FALSE,
                version |-> 1, extended |-> 0]

MemoryRunsTypeOK ==
    /\ JobsTypeOK
    /\ memory \in [JobIds -> MemoryRow]
    /\ prepared \in [WorkerIds -> Nat]
    /\ results \in [JobIds -> Nat]

MemoryRunsInit ==
    /\ JobsInit
    /\ memory = [j \in JobIds |-> FreshMemory]
    /\ prepared = [w \in WorkerIds |-> 0]
    /\ results = [j \in JobIds |-> 0]

-----------------------------------------------------------------------------
(* The window of the generation *)

\* a message extends the quiet window of a generation that is still pending, and moves its
\* version; the hard limit ends the extensions (bound: MaxRearms of them)
MessageExtends(j) ==
    /\ jobKind[j] = "memory"
    /\ memory[j].state = "pending"
    /\ memory[j].extended < MaxRearms
    /\ memory' = [memory EXCEPT ![j].due = FALSE, ![j].version = @ + 1, ![j].extended = @ + 1]
    /\ UNCHANGED <<jobsVars, prepared, results>>

QuietElapses(j) ==
    /\ jobKind[j] = "memory"
    /\ ~memory[j].due
    /\ memory' = [memory EXCEPT ![j].due = TRUE]
    /\ UNCHANGED <<jobsVars, prepared, results>>

-----------------------------------------------------------------------------
(* The executor *)

Job(w) == exec[w].job

\* every transaction of the executor locks the parent under its lease, and then the generation
FencedJob(w) == HoldsLease(w)

Stage(w, stage) == exec' = [exec EXCEPT ![w].stage = stage]

\* mutant: prepare does not ask whether the generation is over
DeclinesEarlyOnly(row) == row.state = "pending" /\ ~row.due

\* prepare has nothing to do: the generation is over, or its window was extended meanwhile
Declines(row) ==
    \/ row.state \notin Outstanding
    \/ row.state = "pending" /\ ~row.due

StartsExecution(w) == exec[w].stage = "started" /\ jobKind[Job(w)] = "memory"

PrepareDeclines(w) ==
    /\ StartsExecution(w)
    /\ FencedJob(w)
    /\ Declines(memory[Job(w)])
    /\ Stage(w, "ok")
    /\ UNCHANGED <<jobKind, jobRow, requestOpen, rearms, wakeup, arq, mishaps, memoryVars>>

\* the inputs are sealed once and reloaded by every later attempt
Prepare(w) ==
    /\ StartsExecution(w)
    /\ FencedJob(w)
    /\ ~Declines(memory[Job(w)])
    /\ memory' = [memory EXCEPT ![Job(w)].state = "running", ![Job(w)].tried = TRUE,
                                ![Job(w)].sealed = TRUE, ![Job(w)].version = @ + 1]
    /\ prepared' = [prepared EXCEPT ![w] = memory'[Job(w)].version]
    /\ Stage(w, "prepared")
    /\ UNCHANGED <<jobKind, jobRow, requestOpen, rearms, wakeup, arq, mishaps, results>>

\* prepare raised and its transaction is gone: no lease of a generation is held
PrepareFails(w, outcome) ==
    /\ StartsExecution(w)
    /\ outcome \in (IF ~FencedJob(w) THEN {"recall retryable"}
                    ELSE {"recall retryable", "recall permanent"})
    /\ Stage(w, outcome)
    /\ UNCHANGED <<jobKind, jobRow, requestOpen, rearms, wakeup, arq, mishaps, memoryVars>>

Generate(w, outcome) ==
    /\ exec[w].stage = "prepared"
    /\ outcome \in {"generated", "recall retryable", "recall permanent"}
    /\ Stage(w, outcome)
    /\ UNCHANGED <<jobKind, jobRow, requestOpen, rearms, wakeup, arq, mishaps, memoryVars>>

\* verify_completion and complete_job
MemoryFenceHolds(w) ==
    /\ FencedJob(w)
    /\ memory[Job(w)].state = "running"
    /\ memory[Job(w)].version = prepared[w]

Complete(w) ==
    /\ exec[w].stage = "generated"
    /\ IF MemoryFenceHolds(w)
       THEN /\ memory' = [memory EXCEPT ![Job(w)].state = "succeeded", ![Job(w)].version = @ + 1]
            /\ results' = [results EXCEPT ![Job(w)] = @ + 1]
            /\ Stage(w, "ok")
       ELSE /\ Stage(w, "recall retryable")
            /\ UNCHANGED <<memory, results>>
    /\ UNCHANGED <<jobKind, jobRow, requestOpen, rearms, wakeup, arq, mishaps, prepared>>

\* fail records the outcome in a transaction of its own, and does nothing once the fence of the
\* parent or of the generation is lost
RecordsFailure(w) ==
    /\ FencedJob(w)
    /\ memory[Job(w)].state \in Outstanding
    /\ prepared[w] \in {0, memory[Job(w)].version}

FailedMemory(w) ==
    IF exec[w].stage = "recall permanent" \/ exec[w].attempt >= MaxJobAttempts
    THEN "dead_letter" ELSE "retry_wait"

FailMemory(w) ==
    /\ exec[w].stage \in {"recall retryable", "recall permanent"}
    /\ memory' = IF RecordsFailure(w)
                 THEN [memory EXCEPT ![Job(w)].state = FailedMemory(w), ![Job(w)].version = @ + 1]
                 ELSE memory
    /\ prepared' = [prepared EXCEPT ![w] = 0]
    /\ Stage(w, IF exec[w].stage = "recall permanent" THEN "permanent" ELSE "retryable")
    /\ UNCHANGED <<jobKind, jobRow, requestOpen, rearms, wakeup, arq, mishaps, results>>

-----------------------------------------------------------------------------
(* The scheduler *)

ParentEnded(row) == row.state \in {"failed", "dead_letter"}
ParentMismatch(row, generation) ==
    row.state = "succeeded" /\ (generation.sealed \/ generation.tried)

\* enqueue_pending, on the rows recover_expired has left: end what the parent has ended, ...
EndedMemory(j, row) ==
    IF /\ jobKind[j] = "memory"
       /\ memory[j].state \in Outstanding
       /\ ParentEnded(row) \/ ParentMismatch(row, memory[j])
    THEN [memory[j] EXCEPT !.state = "dead_letter", !.version = @ + 1]
    ELSE memory[j]

\* ... and publish what is due, or publish again what was woken too early
MemoryDue(j, row) ==
    /\ jobKind[j] = "memory"
    /\ memory[j].state = "pending"
    /\ memory[j].due
    /\ \/ row.state = "absent"
       \/ row.state = "succeeded" /\ ~ParentMismatch(row, memory[j])

EnqueueMemory(rows) ==
    [j \in JobIds |-> IF MemoryDue(j, rows[j]) THEN RearmedRow(rows[j]) ELSE rows[j]]

Tick(admitted) ==
    LET erasures == EnqueueErasures(RecoverExpired)
        rows == IF admitted THEN EnqueueMemory(erasures) ELSE erasures
    IN /\ Admission(admitted)
       /\ jobRow' = TickRows(rows, admitted)
       /\ wakeup' = TickBoxes(rows, admitted)
       /\ memory' = IF admitted THEN [j \in JobIds |-> EndedMemory(j, erasures[j])] ELSE memory
       /\ rearms' = [j \in JobIds |-> IF /\ jobKind[j] = "erasure"
                                         /\ ErasureDue(RecoverExpired[j], j)
                                         /\ RecoverExpired[j].state = "succeeded"
                                      THEN rearms[j] + 1 ELSE rearms[j]]
       /\ UNCHANGED <<jobKind, requestOpen, arq, exec, prepared, results>>

-----------------------------------------------------------------------------
(* The specification *)

DropsPreparation(w) == prepared' = IF exec'[w] = Idle THEN [prepared EXCEPT ![w] = 0] ELSE prepared

QueueStep ==
    \/ \E j \in JobIds : CreateJob(j)
    \/ \E j \in JobIds, g \in Generation :
        PublishWakeup(j, g) \/ \E sent \in BOOLEAN : PublishUnmarked(j, g, sent)
    \/ \E n \in arq : LoseWakeup(n)
    \/ \E n \in arq : ConsumeRefused(n) \/ \E w \in WorkerIds : Consume(w, n)
    \/ \E w \in WorkerIds : Renew(w)
    \/ \E w \in WorkerIds, outcome \in {"ok", "retryable", "permanent"} : RunExecutor(w, outcome)
    \/ JobTimePasses

MemoryRunsNext ==
    \/ QueueStep /\ UNCHANGED memoryVars
    \/ \E w \in WorkerIds :
        /\ Succeed(w) \/ FailOrRetry(w) \/ ExecutionDies(w)
        /\ DropsPreparation(w)
        /\ UNCHANGED <<memory, results>>
    \/ \E admitted \in BOOLEAN : Tick(admitted)
    \/ \E j \in JobIds : MessageExtends(j) \/ QuietElapses(j)
    \/ \E w \in WorkerIds : PrepareDeclines(w) \/ Prepare(w) \/ Complete(w) \/ FailMemory(w)
    \/ \E w \in WorkerIds, outcome \in {"generated", "recall retryable", "recall permanent"} :
        PrepareFails(w, outcome) \/ Generate(w, outcome)

\* the loops of a running worker; a tick that is not admitted is a mishap, and bounded
MemoryRunsFairness ==
    /\ WF_memoryRunsVars(/\ \E j \in JobIds, g \in Generation : PublishWakeup(j, g)
                         /\ UNCHANGED memoryVars)
    /\ \A w \in WorkerIds :
        /\ WF_memoryRunsVars(/\ \E outcome \in {"ok", "retryable", "permanent"} :
                                    RunExecutor(w, outcome)
                             /\ UNCHANGED memoryVars)
        /\ WF_memoryRunsVars(/\ Succeed(w) \/ FailOrRetry(w)
                             /\ DropsPreparation(w)
                             /\ UNCHANGED <<memory, results>>)
        /\ WF_memoryRunsVars(\/ PrepareDeclines(w) \/ Prepare(w) \/ Complete(w) \/ FailMemory(w)
                             \/ PrepareFails(w, "recall retryable")
                             \/ Generate(w, "recall retryable"))
    /\ WF_memoryRunsVars(\E w \in WorkerIds, n \in arq : Consume(w, n) /\ UNCHANGED memoryVars)
    /\ WF_memoryRunsVars(Tick(TRUE))
    /\ WF_memoryRunsVars(JobTimePasses /\ UNCHANGED memoryVars)
    /\ \A j \in JobIds : WF_memoryRunsVars(QuietElapses(j))

MemoryRunsSpec == MemoryRunsInit /\ [][MemoryRunsNext]_memoryRunsVars /\ MemoryRunsFairness

-----------------------------------------------------------------------------
(* Properties *)

\* The answer of a generation is committed at most once, whatever executions of it overlapped.
ResultCommittedOnce == \A j \in JobIds : results[j] <= 1

WorkPending(j) ==
    \/ jobKind[j] = "once" /\ jobRow[j].state \in Claimable \cup {"leased"}
    \/ jobKind[j] = "erasure" /\ requestOpen[j] /\ jobRow[j].state \notin {"failed", "dead_letter"}
    \/ jobKind[j] = "memory" /\ memory[j].state \in Outstanding

\* how a piece of work stands: a generation by its own row, an erasure by its request first
Outcome(j) ==
    CASE jobKind[j] = "memory" ->
            IF memory[j].state \in Outstanding THEN "open"
            ELSE IF memory[j].state = "succeeded" THEN "done" ELSE "given_up"
      [] jobKind[j] = "erasure" ->
            IF ~requestOpen[j] THEN "done"
            ELSE IF jobRow[j].state \in {"failed", "dead_letter"} THEN "given_up" ELSE "open"
      [] jobKind[j] = "once" ->
            IF jobRow[j].state = "absent" THEN "unborn"
            ELSE IF jobRow[j].state \in Claimable \cup {"leased"} THEN "open"
            ELSE IF jobRow[j].state = "succeeded" THEN "done" ELSE "given_up"

Settled == INSTANCE SettledWork WITH
    Work <- JobIds,
    kind <- jobKind,
    standing <- [j \in JobIds |-> Outcome(j)],
    sealed <- {j \in JobIds : memory[j].sealed},
    answers <- results

\* Work is settled once and for good: leases that run out under a worker, late answers, lost and
\* repeated wake-ups, recoveries and re-armings reopen nothing that is done or given up, answer
\* no generation twice, and none whose inputs were not sealed (worker_runtime.py, scheduler tick
\* and memory_pipeline.py).
SettlesForGood == Settled!WorkSpec

\* Work that the database records is done or given up in the end, however often a wake-up is
\* lost: a job settles; an erasure request is run again until it is closed or the attempts of
\* its job are used up; a generation of memory work follows its parent to the end.
WorkSettles == \A j \in JobIds : WorkPending(j) ~> ~WorkPending(j)
=============================================================================
