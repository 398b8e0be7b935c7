--------------------------- MODULE MemoryProofs -----------------------------
(***************************************************************************)
(* Theorems about the memory pipeline: the results of its generations, the *)
(* summaries of periods, and the window of messages it has read; for any   *)
(* number of jobs, days and messages.                                      *)
(***************************************************************************)
EXTENDS MemoryRuns, MemoryPeriods, MemoryWindow, SequenceTheorems, FiniteSetTheorems, TLAPS

-----------------------------------------------------------------------------
(***************************************************************************)
(* The results of memory generations. A result is committed once, for any  *)
(* number of jobs, workers and deliveries of a wakeup: a generation has    *)
(* one exactly if it succeeded, and whoever could commit another needs one *)
(* that is not over.                                                       *)
(***************************************************************************)

\* an answer was committed exactly where the generation is over because of it
CommittedIsOver ==
    \A j \in JobIds : /\ memory[j].state = "succeeded" => results[j] = 1
                      /\ memory[j].state # "succeeded" => results[j] = 0

RunsInv ==
    /\ memory \in [JobIds -> MemoryRow]
    /\ results \in [JobIds -> Nat]
    /\ CommittedIsOver

\* a generation goes to another state, and its version moves
LEMMA RowMoves ==
    ASSUME NEW row \in MemoryRow, NEW s \in Outstanding \cup {"succeeded", "dead_letter"}
    PROVE  /\ [row EXCEPT !.state = s, !.version = @ + 1] \in MemoryRow
           /\ [row EXCEPT !.state = s, !.version = @ + 1].state = s
<1>1. [row EXCEPT !.state = s] \in MemoryRow /\ row.version + 1 \in Nat
  BY DEF MemoryRow
<1>. QED
  BY <1>1 DEF MemoryRow

\* the row of one generation is written, and it neither was nor becomes a committed one
LEMMA RowWriteKeepsRuns ==
    ASSUME RunsInv, NEW j \in JobIds, NEW row \in MemoryRow,
           memory' = [memory EXCEPT ![j] = row], results' = results,
           memory[j].state # "succeeded", row.state # "succeeded"
    PROVE  RunsInv'
  BY DEF RunsInv, CommittedIsOver

\* only work that is not over is prepared
LEMMA PrepareKeepsRuns ==
    ASSUME RunsInv, NEW w \in WorkerIds, Prepare(w), Job(w) \in JobIds
    PROVE  RunsInv'
<1> DEFINE row == [memory[Job(w)] EXCEPT !.state = "running", !.tried = TRUE, !.sealed = TRUE,
                                         !.version = @ + 1]
<1>1. row \in MemoryRow /\ row.state # "succeeded" /\ memory[Job(w)].state # "succeeded"
  BY DEF RunsInv, Prepare, Declines, MemoryRow, Outstanding
<1>2. memory' = [memory EXCEPT ![Job(w)] = row] /\ results' = results
  BY DEF Prepare, RunsInv
<1>. QED
  BY <1>1, <1>2, RowWriteKeepsRuns

\* the commit of an answer needs a generation that is running, and ends it
LEMMA CompleteKeepsRuns ==
    ASSUME RunsInv, NEW w \in WorkerIds, Complete(w)
    PROVE  RunsInv'
<1>1. CASE ~MemoryFenceHolds(w)
  BY <1>1 DEF Complete, RunsInv, CommittedIsOver
<1>2. CASE MemoryFenceHolds(w)
  <2>1. /\ memory' = [memory EXCEPT ![Job(w)] = [memory[Job(w)] EXCEPT !.state = "succeeded",
                                                      !.version = @ + 1]]
        /\ results' = [results EXCEPT ![Job(w)] = @ + 1]
        /\ memory[Job(w)].state = "running"
    BY <1>2 DEF Complete, MemoryFenceHolds, RunsInv
  <2>2. CASE Job(w) \in JobIds
    <3>1. memory[Job(w)] \in MemoryRow /\ results[Job(w)] = 0
      BY <2>1, <2>2 DEF RunsInv, CommittedIsOver
    <3>2. memory' \in [JobIds -> MemoryRow] /\ memory'[Job(w)].state = "succeeded"
      BY <2>1, <2>2, <3>1, RowMoves DEF RunsInv
    <3>3. results' \in [JobIds -> Nat] /\ results'[Job(w)] = 1
      BY <2>1, <2>2, <3>1 DEF RunsInv
    <3>4. \A j \in JobIds \ {Job(w)} : memory'[j] = memory[j] /\ results'[j] = results[j]
      BY <2>1 DEF RunsInv
    <3>. QED
      BY <3>2, <3>3, <3>4 DEF RunsInv, CommittedIsOver
  <2>3. CASE Job(w) \notin JobIds
    BY <2>1, <2>3 DEF RunsInv, CommittedIsOver
  <2>. QED
    BY <2>2, <2>3
<1>. QED
  BY <1>1, <1>2

\* a failure is recorded only for work that is not over
LEMMA FailureKeepsRuns ==
    ASSUME RunsInv, NEW w \in WorkerIds, FailMemory(w)
    PROVE  RunsInv'
<1> DEFINE row == [memory[Job(w)] EXCEPT !.state = FailedMemory(w), !.version = @ + 1]
<1>1. CASE RecordsFailure(w) /\ Job(w) \in JobIds
  <2>1. memory[Job(w)] \in MemoryRow /\ memory[Job(w)].state \in Outstanding
    BY <1>1 DEF RunsInv, RecordsFailure
  <2>2. FailedMemory(w) \in {"dead_letter", "retry_wait"}
    BY DEF FailedMemory
  <2>3. row \in MemoryRow /\ row.state # "succeeded" /\ memory[Job(w)].state # "succeeded"
    BY <2>1, <2>2, RowMoves DEF Outstanding
  <2>4. memory' = [memory EXCEPT ![Job(w)] = row] /\ results' = results
    BY <1>1 DEF FailMemory, RunsInv
  <2>. QED
    BY <1>1, <2>3, <2>4, RowWriteKeepsRuns
<1>2. CASE ~(RecordsFailure(w) /\ Job(w) \in JobIds)
  BY <1>2 DEF FailMemory, RunsInv, CommittedIsOver
<1>. QED
  BY <1>1, <1>2

\* the scheduler ends what its parent has ended, unless it is over already
LEMMA TickKeepsRuns ==
    ASSUME RunsInv, NEW admitted \in BOOLEAN, Tick(admitted)
    PROVE  RunsInv'
<1>1. results' = results
  BY DEF Tick
<1>2. ASSUME NEW j \in JobIds, NEW row
      PROVE  \/ EndedMemory(j, row) = memory[j]
             \/ /\ EndedMemory(j, row) \in MemoryRow /\ memory[j].state \in Outstanding
                /\ EndedMemory(j, row).state = "dead_letter"
  <2>1. memory[j] \in MemoryRow
    BY DEF RunsInv
  <2>. QED
    BY <2>1, RowMoves DEF EndedMemory
<1>3. CASE ~admitted
  BY <1>1, <1>3 DEF Tick, RunsInv, CommittedIsOver
<1>4. CASE admitted
  <2>1. memory' = [j \in JobIds |-> EndedMemory(j, EnqueueErasures(RecoverExpired)[j])]
    BY <1>4 DEF Tick
  <2>2. \A j \in JobIds : \/ memory'[j] = memory[j]
                           \/ /\ memory'[j] \in MemoryRow /\ memory[j].state # "succeeded"
                              /\ memory'[j].state # "succeeded"
    BY <1>2, <2>1 DEF Outstanding
  <2>3. memory' \in [JobIds -> MemoryRow]
    BY <2>1, <2>2 DEF RunsInv
  <2>. QED
    BY <1>1, <2>2, <2>3 DEF RunsInv, CommittedIsOver
<1>. QED
  BY <1>3, <1>4

LEMMA WindowKeepsRuns ==
    ASSUME RunsInv, NEW j \in JobIds, MessageExtends(j) \/ QuietElapses(j)
    PROVE  RunsInv'
<1>1. CASE MessageExtends(j)
  <2> DEFINE row == [memory[j] EXCEPT !.due = FALSE, !.version = @ + 1, !.extended = @ + 1]
  <2>1. row \in MemoryRow /\ row.state # "succeeded" /\ memory[j].state # "succeeded"
    BY <1>1, JobsConstants DEF MessageExtends, RunsInv, MemoryRow, Outstanding
  <2>. QED
    BY <1>1, <2>1, RowWriteKeepsRuns DEF MessageExtends, RunsInv
<1>2. CASE QuietElapses(j)
  <2> DEFINE row == [memory[j] EXCEPT !.due = TRUE]
  <2>1. memory[j] \in MemoryRow
    BY DEF RunsInv
  <2>2. row \in MemoryRow /\ row.state = memory[j].state
    BY <2>1 DEF MemoryRow
  <2>3. memory' = [memory EXCEPT ![j] = row] /\ results' = results
    BY <1>2 DEF QuietElapses
  <2> HIDE DEF row
  <2>. QED
    BY <2>2, <2>3 DEF RunsInv, CommittedIsOver
<1>. QED
  BY <1>1, <1>2

LEMMA RunsInvInductive == RunsInv /\ [MemoryRunsNext]_memoryRunsVars => RunsInv'
<1> SUFFICES ASSUME RunsInv, [MemoryRunsNext]_memoryRunsVars PROVE RunsInv'
  OBVIOUS
<1>1. CASE UNCHANGED <<memory, results>>
  BY <1>1 DEF RunsInv, CommittedIsOver
<1>2. ASSUME NEW admitted \in BOOLEAN, Tick(admitted)
      PROVE  RunsInv'
  BY <1>2, TickKeepsRuns
<1>3. ASSUME NEW j \in JobIds, MessageExtends(j) \/ QuietElapses(j)
      PROVE  RunsInv'
  BY <1>3, WindowKeepsRuns
<1>4. ASSUME NEW w \in WorkerIds, Prepare(w)
      PROVE  RunsInv'
  <2>1. CASE Job(w) \in JobIds
    BY <1>4, <2>1, PrepareKeepsRuns
  <2>2. CASE Job(w) \notin JobIds
    BY <1>4, <2>2 DEF Prepare, RunsInv, CommittedIsOver
  <2>. QED
    BY <2>1, <2>2
<1>5. ASSUME NEW w \in WorkerIds, Complete(w) \/ FailMemory(w)
      PROVE  RunsInv'
  BY <1>5, CompleteKeepsRuns, FailureKeepsRuns
<1>6. ASSUME NEW w \in WorkerIds, NEW outcome,
             PrepareDeclines(w) \/ PrepareFails(w, outcome) \/ Generate(w, outcome)
      PROVE  UNCHANGED <<memory, results>>
  BY <1>6 DEF PrepareDeclines, PrepareFails, Generate, memoryVars
<1>7. CASE QueueStep /\ UNCHANGED memoryVars
  BY <1>1, <1>7 DEF memoryVars
<1>8. CASE UNCHANGED memoryRunsVars
  BY <1>1, <1>8 DEF memoryRunsVars, memoryVars
<1>. QED
  BY <1>1, <1>2, <1>3, <1>4, <1>5, <1>6, <1>7, <1>8 DEF MemoryRunsNext

LEMMA RunsInvInit == MemoryRunsInit => RunsInv
  BY JobsConstants DEF MemoryRunsInit, RunsInv, CommittedIsOver, FreshMemory, MemoryRow, Outstanding

\* Fairness plays no part in it, so it holds where the service is one of several too.
LEMMA RunsSafely == MemoryRunsInit /\ [][MemoryRunsNext]_memoryRunsVars => []ResultCommittedOnce
<1>1. ASSUME RunsInv, NEW j \in JobIds
      PROVE  results[j] <= 1
  BY <1>1 DEF RunsInv, CommittedIsOver
<1>2. RunsInv => ResultCommittedOnce
  BY <1>1 DEF ResultCommittedOnce
<1>. QED
  BY <1>2, RunsInvInit, RunsInvInductive, PTL

\* The answer of a generation is committed at most once, for any number of workers: every commit
\* finds the generation running under the version it was prepared with, and ends it for good.
THEOREM RunsSpecResultCommittedOnce == MemoryRunsSpec => []ResultCommittedOnce
BY RunsSafely, PTL DEF MemoryRunsSpec

-----------------------------------------------------------------------------
(***************************************************************************)
(* The lease of a job, for any number of jobs and slots. Two executions of *)
(* one job overlap whenever a lease ran out under the first; at most one   *)
(* of them holds the lease, and one that lost it does not get it back. The *)
(* invariant: every claim raises the fence of its row, so that executions  *)
(* of one job differ by their fence, and none is ahead of its row. The     *)
(* types come with it: that a job is made pending again only so often      *)
(* needs the lease too.                                                    *)
(***************************************************************************)

USE JobsConstants

\* an execution is under way
Working(w) == exec[w] # Idle

FencesApart ==
    /\ \A w \in WorkerIds : Working(w) =>
        exec[w].job \in JobIds /\ exec[w].fence <= jobRow[exec[w].job].fence
    /\ \A v, w \in WorkerIds :
        Working(v) /\ Working(w) /\ exec[v].job = exec[w].job /\ exec[v].fence = exec[w].fence
            => v = w

\* the stages of the memory executor are those of memory jobs
MemoryStage == {"prepared", "generated", "recall retryable", "recall permanent"}
StagesOfKind ==
    \A w \in WorkerIds : exec[w].stage \in MemoryStage => jobKind[exec[w].job] = "memory"

\* an erasure that ended well with its request still open may be made pending once more
RearmLeft(j) == jobKind[j] = "erasure" /\ requestOpen[j] => rearms[j] < MaxRearms
RearmsLeft ==
    /\ \A j \in JobIds : jobRow[j].state = "succeeded" => RearmLeft(j)
    /\ \A w \in WorkerIds : exec[w].stage = "ok" /\ HoldsLease(w) => RearmLeft(exec[w].job)

JobsInv == JobsTypeOK /\ FencesApart /\ StagesOfKind /\ RearmsLeft

\* Of the executions of one job that are under way, one at most holds its lease (the conditions of
\* `renew` and `_finish` in worker_runtime.py).
LeaseIsExclusive ==
    \A v, w \in WorkerIds :
        /\ Working(v) /\ Working(w) /\ exec[v].job = exec[w].job
        /\ HoldsLease(v) /\ HoldsLease(w)
        => v = w

\* what a step may not do: give an execution the lease that it does not hold
LeaseComesBack ==
    \E w \in WorkerIds : /\ Working(w) /\ Working(w)'
                         /\ exec'[w].job = exec[w].job /\ exec'[w].fence = exec[w].fence
                         /\ ~HoldsLease(w) /\ HoldsLease(w)'

\* An execution that lost its lease does not get it back, so that nothing it finds out later is
\* written (worker_runtime.py `renew`, `_finish`).
LostLeaseStaysLost == [][~LeaseComesBack]_memoryRunsVars

\* a row that is written, by anyone but a claim: it keeps its fence, and no lease comes to it
Follows(old, new) ==
    /\ new \in JobRowType
    /\ new.fence = old.fence
    /\ new.state = "leased" /\ new.lease > 0 => old.state = "leased" /\ old.lease > 0

LEMMA NextGenerationType ==
    ASSUME NEW g \in Generation
    PROVE  NextGeneration(g) \in Generation
BY DEF NextGeneration, Generation

LEMMA RecoveredFollows ==
    ASSUME NEW row \in JobRowType
    PROVE  /\ Follows(row, RecoveredRow(row))
           /\ RecoveredRow(row).state \in {"retry_wait", "dead_letter"}
<1> DEFINE g == IF row.attempts < MaxJobAttempts THEN NextGeneration(row.generation)
                ELSE row.generation
<1>1. g \in Generation
    BY NextGenerationType DEF JobRowType
<1>. QED BY <1>1 DEF Follows, RecoveredRow, JobRowType, JobState

LEMMA RearmedFollows ==
    ASSUME NEW row \in JobRowType
    PROVE  Follows(row, RearmedRow(row)) /\ RearmedRow(row).state = "pending"
<1>1. NextGeneration(row.generation) \in Generation
    BY NextGenerationType DEF JobRowType
<1>2. CASE row.state = "absent"
    BY <1>2 DEF Follows, RearmedRow, JobRowType, JobState
<1>3. CASE row.state # "absent"
    <2> DEFINE g == NextGeneration(row.generation)
               new == [row EXCEPT !.state = "pending", !.attempts = 0, !.later = FALSE,
                                  !.generation = g]
    <2>1. RearmedRow(row) = new
        BY <1>3 DEF RearmedRow
    <2>. HIDE DEF g
    <2>2. g \in Generation /\ 0 \in 0..MaxJobAttempts
        BY <1>1 DEF g
    <2>. QED BY <2>1, <2>2 DEF Follows, JobRowType, JobState
<1>. QED BY <1>2, <1>3

LEMMA RebuiltFollows ==
    ASSUME NEW row \in JobRowType, NEW box
    PROVE  Follows(row, RebuiltRow(row, box)) /\ RebuiltRow(row, box).state = row.state
<1>1. NextGeneration(row.generation) \in Generation
    BY NextGenerationType DEF JobRowType
<1>. QED BY <1>1 DEF Follows, RebuiltRow, JobRowType, JobState

LEMMA AgedFollows ==
    ASSUME NEW row \in JobRowType
    PROVE  Follows(row, AgedRow(row)) /\ AgedRow(row).state = row.state
<1> DEFINE t == IF row.lease > 0 THEN row.lease - 1 ELSE 0
           a == row.state = "succeeded"
<1>1. /\ t \in 0..JobLeaseTicks
      /\ t > 0 => row.lease > 0
      /\ a \in BOOLEAN
    BY DEF JobRowType
<1>2. AgedRow(row) = [row EXCEPT !.lease = t, !.later = FALSE, !.aged = a]
    BY DEF AgedRow
<1>. HIDE DEF t, a
<1>. QED BY <1>1, <1>2 DEF Follows, JobRowType

LEMMA ClaimedRow ==
    ASSUME NEW row \in JobRowType, row.attempts < MaxJobAttempts
    PROVE  /\ ClaimRow(row) \in JobRowType
           /\ ClaimRow(row).fence = row.fence + 1
           /\ ClaimRow(row).attempts \in Nat
           /\ ClaimRow(row).state = "leased"
<1>1. /\ row.attempts + 1 \in 0..MaxJobAttempts /\ row.fence + 1 \in Nat
      /\ JobLeaseTicks \in 0..JobLeaseTicks
    BY DEF JobRowType
<1>. DEFINE n == row.attempts + 1
            f == row.fence + 1
            new == [row EXCEPT !.state = "leased", !.lease = JobLeaseTicks, !.attempts = n,
                               !.fence = f]
<1>2. ClaimRow(row) = new
    BY DEF ClaimRow
<1>3. n \in 0..MaxJobAttempts /\ n \in Nat /\ f \in Nat /\ "leased" \in JobState
    BY <1>1 DEF JobState
<1>. HIDE DEF n, f
<1>4. new \in JobRowType /\ new.fence = f /\ new.attempts = n /\ new.state = "leased"
    BY <1>1, <1>3 DEF JobRowType
<1>. QED BY <1>2, <1>3, <1>4 DEF f

LEMMA AddWakeupType ==
    ASSUME NEW box \in [Generation -> {"none", "unpublished", "published"}], NEW g \in Generation
    PROVE  AddWakeup(box, g) \in [Generation -> {"none", "unpublished", "published"}]
BY DEF AddWakeup

-----------------------------------------------------------------------------
(* Steps that claim nothing *)

RowsFollow ==
    /\ jobRow' \in [JobIds -> JobRowType]
    /\ \A j \in JobIds : Follows(jobRow[j], jobRow'[j])

\* an execution goes on under its own fence, or ends
ExecFollows ==
    /\ exec' \in [WorkerIds -> Execution]
    /\ \A w \in WorkerIds : exec'[w] # Idle =>
        exec[w] # Idle /\ exec'[w].job = exec[w].job /\ exec'[w].fence = exec[w].fence

LEMMA RowsKept ==
    ASSUME JobsInv, jobRow' = jobRow
    PROVE  RowsFollow
BY DEF RowsFollow, Follows, JobsInv, JobsTypeOK

LEMMA JobRowWritten ==
    ASSUME JobsInv, NEW j \in JobIds, NEW row, Follows(jobRow[j], row),
           jobRow' = [jobRow EXCEPT ![j] = row]
    PROVE  RowsFollow
BY DEF RowsFollow, Follows, JobsInv, JobsTypeOK

LEMMA ExecKept ==
    ASSUME JobsInv, exec' = exec
    PROVE  ExecFollows
BY DEF ExecFollows, JobsInv, JobsTypeOK

LEMMA IdleStage == Idle.stage = "idle"
BY DEF Idle

LEMMA ExecEnded ==
    ASSUME JobsInv, NEW w \in WorkerIds, exec' = [exec EXCEPT ![w] = Idle]
    PROVE  /\ ExecFollows
           /\ \A v \in WorkerIds : exec'[v].stage = exec[v].stage \/ exec'[v].stage = "idle"
<1>1. Idle \in Execution /\ Idle.stage = "idle"
    BY DEF Idle, Execution
<1>2. exec' \in [WorkerIds -> Execution]
    BY <1>1 DEF JobsInv, JobsTypeOK
<1>3. \A v \in WorkerIds : exec'[v] = exec[v] \/ exec'[v] = Idle
    BY DEF JobsInv, JobsTypeOK
<1>. QED BY <1>1, <1>2, <1>3 DEF ExecFollows

LEMMA StageMoved ==
    ASSUME JobsInv, NEW w \in WorkerIds, exec[w].stage # "idle",
           NEW s \in {"prepared", "generated", "recall retryable", "recall permanent", "ok",
                      "retryable", "permanent"},
           exec' = [exec EXCEPT ![w].stage = s]
    PROVE  /\ ExecFollows
           /\ exec'[w].stage = s
           /\ \A v \in WorkerIds \ {w} : exec'[v] = exec[v]
<1>1. exec \in [WorkerIds -> Execution] /\ exec[w] # Idle
    BY IdleStage DEF JobsInv, JobsTypeOK
<1>2. exec' \in [WorkerIds -> Execution]
    BY <1>1 DEF Execution
<1>3. /\ exec'[w].job = exec[w].job /\ exec'[w].fence = exec[w].fence /\ exec'[w].stage = s
      /\ \A v \in WorkerIds \ {w} : exec'[v] = exec[v]
    BY <1>1 DEF Execution
<1>. QED BY <1>1, <1>2, <1>3 DEF ExecFollows

\* the lease is where it was, or gone
LEMMA LeaseFollows ==
    ASSUME JobsInv, RowsFollow, ExecFollows, NEW w \in WorkerIds, exec'[w] # Idle, HoldsLease(w)'
    PROVE  HoldsLease(w)
<1>1. exec[w].job \in JobIds /\ exec'[w].job = exec[w].job /\ exec'[w].fence = exec[w].fence
    BY DEF ExecFollows, JobsInv, FencesApart, Working
<1>2. Follows(jobRow[exec[w].job], jobRow'[exec[w].job])
    BY <1>1 DEF RowsFollow
<1>. QED BY <1>1, <1>2 DEF HoldsLease, Follows

LEMMA FollowersApart ==
    ASSUME JobsInv, RowsFollow, ExecFollows
    PROVE  FencesApart' /\ ~LeaseComesBack
<1>1. ASSUME NEW w \in WorkerIds, exec'[w] # Idle
      PROVE  exec'[w].job \in JobIds /\ exec'[w].fence <= jobRow'[exec'[w].job].fence
    BY <1>1 DEF ExecFollows, RowsFollow, Follows, JobsInv, FencesApart, Working
<1>2. ASSUME NEW v \in WorkerIds, NEW w \in WorkerIds, exec'[v] # Idle, exec'[w] # Idle,
             exec'[v].job = exec'[w].job, exec'[v].fence = exec'[w].fence
      PROVE  v = w
    BY <1>2 DEF ExecFollows, JobsInv, FencesApart, Working
<1>3. ~LeaseComesBack
    BY LeaseFollows DEF LeaseComesBack, Working
<1>. QED BY <1>1, <1>2, <1>3 DEF FencesApart, Working

\* the types of what is not a row or an execution
OthersTypeOK ==
    /\ jobKind \in [JobIds -> JobKind]
    /\ requestOpen \in [JobIds -> BOOLEAN]
    /\ rearms \in [JobIds -> 0..MaxRearms]
    /\ wakeup \in [JobIds -> [Generation -> {"none", "unpublished", "published"}]]
    /\ arq \subseteq Notice
    /\ mishaps \in 0..MaxMishaps

\* no request is opened again, and no rearm is counted
RequestsFollow ==
    /\ jobKind' = jobKind
    /\ rearms' = rearms
    /\ \A j \in JobIds : requestOpen'[j] => requestOpen[j]

LEMMA InvTypes ==
    ASSUME JobsInv
    PROVE  /\ OthersTypeOK
           /\ jobRow \in [JobIds -> JobRowType]
           /\ exec \in [WorkerIds -> Execution]
           /\ \A w \in WorkerIds : exec[w].stage # "idle" => exec[w] # Idle
           /\ \A w \in WorkerIds : exec[w] # Idle =>
                exec[w].job \in JobIds /\ jobRow[exec[w].job] \in JobRowType
BY IdleStage DEF JobsInv, JobsTypeOK, OthersTypeOK, FencesApart, Working

\* a step that claims nothing keeps the invariant, if a success leaves its request closed or
\* a rearm to spare
LEMMA StepKeepsJobs ==
    ASSUME JobsInv, RowsFollow, ExecFollows, RequestsFollow, OthersTypeOK',
           \A j \in JobIds :
                jobRow'[j].state = "succeeded" => jobRow[j].state = "succeeded" \/ RearmLeft(j),
           \A w \in WorkerIds : exec'[w].stage \in MemoryStage =>
                exec[w].stage \in MemoryStage \/ jobKind[exec[w].job] = "memory",
           \A w \in WorkerIds : exec'[w].stage = "ok" =>
                exec[w].stage = "ok" \/ RearmLeft(exec[w].job)'
    PROVE  JobsInv' /\ ~LeaseComesBack
<1>1. FencesApart' /\ ~LeaseComesBack
    BY FollowersApart
<1>2. JobsTypeOK'
    BY DEF JobsTypeOK, OthersTypeOK, RowsFollow, ExecFollows
<1>3. \A j \in JobIds : RearmLeft(j) => RearmLeft(j)'
    BY DEF RearmLeft, RequestsFollow
<1>4. ASSUME NEW w \in WorkerIds, exec'[w].stage # "idle"
      PROVE  exec'[w] # Idle /\ exec'[w].job = exec[w].job /\ exec[w].job \in JobIds
    BY <1>4, IdleStage DEF ExecFollows, JobsInv, FencesApart, Working
<1>5. StagesOfKind'
    BY <1>4 DEF StagesOfKind, JobsInv, RequestsFollow, MemoryStage
<1>6. ASSUME NEW j \in JobIds, jobRow'[j].state = "succeeded"
      PROVE  RearmLeft(j)'
    BY <1>3, <1>6 DEF JobsInv, RearmsLeft
<1>7. ASSUME NEW w \in WorkerIds, exec'[w].stage = "ok", HoldsLease(w)'
      PROVE  RearmLeft(exec[w].job)'
    <2>1. exec'[w] # Idle /\ exec'[w].job = exec[w].job /\ exec[w].job \in JobIds
        BY <1>4, <1>7
    <2>2. HoldsLease(w)
        BY <1>7, <2>1, LeaseFollows
    <2>3. CASE exec[w].stage = "ok"
        <3>1. RearmLeft(exec[w].job)
            BY <2>2, <2>3 DEF JobsInv, RearmsLeft
        <3>. QED BY <1>3, <2>1, <3>1 DEF RearmLeft
    <2>. QED BY <1>7, <2>3
<1>8. RearmsLeft'
    BY <1>6, <1>7 DEF RearmsLeft
<1>. QED BY <1>1, <1>2, <1>5, <1>8 DEF JobsInv

-----------------------------------------------------------------------------
(* The steps of the queue *)

LEMMA WakeupsKeepJobs ==
    ASSUME JobsInv,
           \/ \E j \in JobIds : CreateJob(j)
           \/ \E j \in JobIds, g \in Generation :
                PublishWakeup(j, g) \/ \E sent \in BOOLEAN : PublishUnmarked(j, g, sent)
           \/ \E n \in arq : LoseWakeup(n)
           \/ \E n \in arq : ConsumeRefused(n)
    PROVE  JobsInv' /\ ~LeaseComesBack
<1>. USE InvTypes
<1>1. ExecFollows
    BY ExecKept DEF CreateJob, PublishWakeup, PublishUnmarked, LoseWakeup, ConsumeRefused
<1>2. RequestsFollow
    BY DEF RequestsFollow, CreateJob, PublishWakeup, PublishUnmarked, LoseWakeup, ConsumeRefused
<1>3. exec' = exec
    BY DEF CreateJob, PublishWakeup, PublishUnmarked, LoseWakeup, ConsumeRefused
<1>4. CASE jobRow' = jobRow /\ OthersTypeOK'
    BY <1>1, <1>2, <1>3, <1>4, RowsKept, StepKeepsJobs
<1>5. ASSUME NEW j \in JobIds, CreateJob(j)
      PROVE  JobsInv' /\ ~LeaseComesBack
    <2> DEFINE row == [jobRow[j] EXCEPT !.state = "pending"]
    <2>1. Follows(jobRow[j], row) /\ row.state = "pending"
        BY DEF Follows, JobRowType, JobState
    <2>2. jobRow' = [jobRow EXCEPT ![j] = row]
        BY <1>5 DEF CreateJob
    <2>3. RowsFollow
        BY <2>1, <2>2, JobRowWritten
    <2>4. 1 \in Generation
        BY DEF Generation
    <2>5. OthersTypeOK'
        BY <1>5, <2>4, AddWakeupType DEF OthersTypeOK, CreateJob
    <2>6. \A i \in JobIds : jobRow'[i].state = "succeeded" => jobRow[i].state = "succeeded"
        BY <2>1, <2>2
    <2>. QED BY <1>1, <1>2, <1>3, <2>3, <2>5, <2>6, StepKeepsJobs
<1>6. ASSUME NEW j \in JobIds, NEW g \in Generation, PublishWakeup(j, g)
      PROVE  jobRow' = jobRow /\ OthersTypeOK'
    BY <1>6 DEF PublishWakeup, OthersTypeOK, Notice
<1>7. ASSUME NEW j \in JobIds, NEW g \in Generation, NEW sent \in BOOLEAN,
             PublishUnmarked(j, g, sent)
      PROVE  jobRow' = jobRow /\ OthersTypeOK'
    BY <1>7 DEF PublishUnmarked, OthersTypeOK, Notice, Mishap
<1>8. ASSUME NEW n \in arq, LoseWakeup(n) \/ ConsumeRefused(n)
      PROVE  jobRow' = jobRow /\ OthersTypeOK'
    BY <1>8 DEF LoseWakeup, ConsumeRefused, OthersTypeOK, Mishap
<1>. QED BY <1>4, <1>5, <1>6, <1>7, <1>8

LEMMA RenewKeepsJobs ==
    ASSUME JobsInv, NEW w \in WorkerIds, Renew(w)
    PROVE  JobsInv' /\ ~LeaseComesBack
<1>. USE InvTypes
<1> DEFINE j == exec[w].job
           row == [jobRow[j] EXCEPT !.lease = JobLeaseTicks]
<1>1. /\ j \in JobIds /\ jobRow[j] \in JobRowType
      /\ jobRow[j].state = "leased" /\ jobRow[j].lease > 0
    BY DEF Renew, HoldsLease
<1>. HIDE DEF j
<1>2. Follows(jobRow[j], row) /\ row.state = "leased"
    <2>1. JobLeaseTicks \in 0..JobLeaseTicks
        OBVIOUS
    <2>. QED BY <1>1, <2>1 DEF Follows, JobRowType
<1>3. jobRow' = [jobRow EXCEPT ![j] = row]
    BY DEF Renew, j
<1>4. RowsFollow
    BY <1>1, <1>2, <1>3, JobRowWritten
<1>5. ExecFollows /\ RequestsFollow /\ exec' = exec /\ OthersTypeOK'
    BY ExecKept DEF Renew, RequestsFollow, OthersTypeOK
<1>6. \A i \in JobIds : jobRow'[i].state = "succeeded" => jobRow[i].state = "succeeded"
    BY <1>1, <1>2, <1>3
<1>. QED BY <1>4, <1>5, <1>6, StepKeepsJobs

\* an executor that ends well with its request open has seen a rearm to spare
LEMMA ExecutorKeepsJobs ==
    ASSUME JobsInv, NEW w \in WorkerIds, NEW outcome, RunExecutor(w, outcome)
    PROVE  JobsInv' /\ ~LeaseComesBack
<1>. USE InvTypes
<1> DEFINE j == exec[w].job
<1>1. j \in JobIds /\ exec[w].stage = "started" /\ outcome \in {"ok", "retryable", "permanent"}
    BY DEF RunExecutor
<1>2. /\ ExecFollows /\ exec'[w].stage = outcome
      /\ \A v \in WorkerIds \ {w} : exec'[v] = exec[v]
    BY <1>1, StageMoved DEF RunExecutor
<1>3. RowsFollow /\ jobRow' = jobRow
    BY RowsKept DEF RunExecutor
<1>4. RequestsFollow /\ OthersTypeOK' /\ (outcome = "ok" => RearmLeft(j)')
    <2>1. CASE outcome = "ok" /\ jobKind[j] = "erasure"
        <3>1. PICK open \in BOOLEAN :
                /\ open => rearms[j] < MaxRearms
                /\ requestOpen' = [requestOpen EXCEPT ![j] = @ /\ open]
            BY <2>1 DEF RunExecutor
        <3>2. requestOpen \in [JobIds -> BOOLEAN]
            BY DEF OthersTypeOK
        <3>3. /\ requestOpen' \in [JobIds -> BOOLEAN]
              /\ requestOpen'[j] => requestOpen[j] /\ open
              /\ \A i \in JobIds \ {j} : requestOpen'[i] = requestOpen[i]
            BY <1>1, <3>1, <3>2
        <3>4. UNCHANGED <<jobKind, jobRow, rearms, wakeup, arq, mishaps>>
            BY DEF RunExecutor
        <3>5. exec'[w].job = exec[w].job
            BY <1>1, <1>2, IdleStage DEF ExecFollows
        <3>6. RequestsFollow /\ OthersTypeOK'
            BY <3>3, <3>4 DEF RequestsFollow, OthersTypeOK
        <3>. QED BY <3>1, <3>3, <3>4, <3>5, <3>6 DEF RearmLeft
    <2>2. CASE ~(outcome = "ok" /\ jobKind[j] = "erasure")
        <3>1. UNCHANGED <<jobKind, jobRow, rearms, wakeup, arq, mishaps, requestOpen>>
            BY <2>2 DEF RunExecutor
        <3>2. exec'[w].job = exec[w].job
            BY <1>1, <1>2, IdleStage DEF ExecFollows
        <3>. QED BY <2>2, <3>1, <3>2 DEF RequestsFollow, OthersTypeOK, RearmLeft
    <2>. QED BY <2>1, <2>2
<1>. QED BY <1>1, <1>2, <1>3, <1>4, StepKeepsJobs DEF MemoryStage

LEMMA SuccessKeepsJobs ==
    ASSUME JobsInv, NEW w \in WorkerIds, Succeed(w)
    PROVE  JobsInv' /\ ~LeaseComesBack
<1>. USE InvTypes
<1> DEFINE j == exec[w].job
           row == [jobRow[j] EXCEPT !.state = "succeeded", !.lease = 0, !.aged = FALSE]
<1>1. j \in JobIds /\ jobRow[j] \in JobRowType /\ exec[w].stage = "ok"
    BY DEF Succeed
<1>2. /\ ExecFollows
      /\ \A v \in WorkerIds : exec'[v].stage = exec[v].stage \/ exec'[v].stage = "idle"
    BY ExecEnded DEF Succeed
<1>3. RequestsFollow /\ OthersTypeOK'
    BY DEF Succeed, RequestsFollow, OthersTypeOK
<1>4. /\ RowsFollow
      /\ \A i \in JobIds :
            jobRow'[i].state = "succeeded" => jobRow[i].state = "succeeded" \/ RearmLeft(i)
    <2>1. CASE HoldsLease(w)
        <3>1. RearmLeft(j)
            BY <1>1, <2>1 DEF JobsInv, RearmsLeft
        <3>2. 0 \in 0..JobLeaseTicks /\ "succeeded" \in JobState /\ FALSE \in BOOLEAN
            BY DEF JobState
        <3>3. jobRow' = [jobRow EXCEPT ![j] = row]
            BY <2>1 DEF Succeed
        <3>. HIDE DEF j
        <3>4. Follows(jobRow[j], row)
            BY <1>1, <3>2 DEF Follows, JobRowType
        <3>5. RowsFollow
            BY <1>1, <3>3, <3>4, JobRowWritten
        <3>6. \A i \in JobIds \ {j} : jobRow'[i] = jobRow[i]
            BY <3>3
        <3>. QED BY <3>1, <3>5, <3>6
    <2>2. CASE ~HoldsLease(w)
        BY <2>2, RowsKept DEF Succeed
    <2>. QED BY <2>1, <2>2
<1>. QED BY <1>2, <1>3, <1>4, StepKeepsJobs DEF MemoryStage

LEMMA FailureKeepsJobs ==
    ASSUME JobsInv, NEW w \in WorkerIds, FailOrRetry(w)
    PROVE  JobsInv' /\ ~LeaseComesBack
<1>. USE InvTypes
<1> DEFINE j == exec[w].job
           s == FailureState(w)
           retry == s = "retry_wait"
           g == IF retry THEN NextGeneration(jobRow[j].generation) ELSE jobRow[j].generation
           row == [jobRow[j] EXCEPT !.state = s, !.lease = 0, !.later = retry, !.generation = g]
<1>1. j \in JobIds /\ jobRow[j] \in JobRowType
    BY DEF FailOrRetry
<1>2. /\ ExecFollows
      /\ \A v \in WorkerIds : exec'[v].stage = exec[v].stage \/ exec'[v].stage = "idle"
    BY ExecEnded DEF FailOrRetry
<1>3. RequestsFollow
    BY DEF FailOrRetry, RequestsFollow
<1>4. CASE ~HoldsLease(w)
    <2>1. RowsFollow /\ jobRow' = jobRow /\ OthersTypeOK'
        BY <1>4, RowsKept DEF FailOrRetry, OthersTypeOK
    <2>. QED BY <1>2, <1>3, <2>1, StepKeepsJobs DEF MemoryStage
<1>5. CASE HoldsLease(w)
    <2>1. /\ s \in JobState /\ s \notin {"leased", "succeeded"} /\ retry \in BOOLEAN
          /\ g \in Generation /\ 0 \in 0..JobLeaseTicks
        BY <1>1, NextGenerationType DEF FailureState, JobState, JobRowType
    <2>2. /\ jobRow' = [jobRow EXCEPT ![j] = row]
          /\ wakeup' = IF retry THEN [wakeup EXCEPT ![j] = AddWakeup(@, g)] ELSE wakeup
          /\ UNCHANGED <<jobKind, requestOpen, rearms, arq, mishaps>>
        BY <1>5 DEF FailOrRetry
    <2>. HIDE DEF j, s, retry, g
    <2>3. Follows(jobRow[j], row) /\ row.state = s
        BY <1>1, <2>1 DEF Follows, JobRowType
    <2>4. RowsFollow
        BY <1>1, <2>2, <2>3, JobRowWritten
    <2>5. \A i \in JobIds : jobRow'[i].state = "succeeded" => jobRow[i].state = "succeeded"
        BY <1>1, <2>1, <2>2, <2>3
    <2>6. AddWakeup(wakeup[j], g) \in [Generation -> {"none", "unpublished", "published"}]
        BY <1>1, <2>1, AddWakeupType DEF OthersTypeOK
    <2>7. OthersTypeOK'
        BY <1>1, <2>2, <2>6 DEF OthersTypeOK
    <2>. QED BY <1>2, <1>3, <2>4, <2>5, <2>7, StepKeepsJobs DEF MemoryStage
<1>. QED BY <1>4, <1>5

LEMMA DeathKeepsJobs ==
    ASSUME JobsInv, NEW w \in WorkerIds, ExecutionDies(w)
    PROVE  JobsInv' /\ ~LeaseComesBack
<1>. USE InvTypes
<1>1. /\ ExecFollows
      /\ \A v \in WorkerIds : exec'[v].stage = exec[v].stage \/ exec'[v].stage = "idle"
    BY ExecEnded DEF ExecutionDies
<1>2. RequestsFollow /\ RowsFollow /\ jobRow' = jobRow
    BY RowsKept DEF ExecutionDies, RequestsFollow
<1>3. OthersTypeOK'
    BY DEF ExecutionDies, Mishap, OthersTypeOK
<1>. QED BY <1>1, <1>2, <1>3, StepKeepsJobs DEF MemoryStage

LEMMA TimeKeepsJobs ==
    ASSUME JobsInv, JobTimePasses
    PROVE  JobsInv' /\ ~LeaseComesBack
<1>. USE InvTypes
<1>1. \A j \in JobIds : /\ jobRow'[j] = AgedRow(jobRow[j]) /\ jobRow[j] \in JobRowType
                        /\ Follows(jobRow[j], jobRow'[j]) /\ jobRow'[j].state = jobRow[j].state
    BY AgedFollows DEF JobTimePasses
<1>2. RowsFollow
    <2>1. \A j \in JobIds : jobRow'[j] \in JobRowType
        BY <1>1 DEF Follows
    <2>2. jobRow' = [j \in JobIds |-> jobRow'[j]]
        BY DEF JobTimePasses
    <2>. QED BY <1>1, <2>1, <2>2 DEF RowsFollow
<1>3. ExecFollows /\ RequestsFollow /\ exec' = exec /\ OthersTypeOK'
    BY ExecKept DEF JobTimePasses, RequestsFollow, OthersTypeOK
<1>. QED BY <1>1, <1>2, <1>3, StepKeepsJobs

\* a claim raises the fence of the row above that of every execution there is
LEMMA ConsumeKeepsJobs ==
    ASSUME JobsInv, NEW w \in WorkerIds, NEW n \in arq, Consume(w, n)
    PROVE  JobsInv' /\ ~LeaseComesBack
<1>. USE InvTypes
<1>1. n.job \in JobIds /\ exec[w] = Idle
    <2>1. w \in IdleSlots
        BY DEF Consume
    <2>. QED BY <2>1 DEF IdleSlots, OthersTypeOK, Notice
<1>2. OthersTypeOK' /\ RequestsFollow
    BY DEF Consume, OthersTypeOK, RequestsFollow
<1>3. CASE ~ClaimableNow(jobRow[n.job], n.generation)
    <2>1. ExecFollows /\ RowsFollow /\ exec' = exec /\ jobRow' = jobRow
        BY <1>3, ExecKept, RowsKept DEF Consume
    <2>. QED BY <1>2, <2>1, StepKeepsJobs
<1>4. CASE ClaimableNow(jobRow[n.job], n.generation)
    <2> DEFINE j == n.job
               row == ClaimRow(jobRow[j])
               new == [job |-> j, fence |-> row.fence, attempt |-> row.attempts,
                       stage |-> "started"]
    <2>1. jobRow' = [jobRow EXCEPT ![j] = row] /\ exec' = [exec EXCEPT ![w] = new]
        BY <1>4 DEF Consume
    <2>2. /\ row \in JobRowType /\ row.fence = jobRow[j].fence + 1 /\ row.state = "leased"
          /\ row.fence \in Nat /\ row.attempts \in Nat /\ jobRow[j].fence \in Nat
        BY <1>1, <1>4, ClaimedRow DEF ClaimableNow, JobRowType
    <2>. HIDE DEF row
    <2>3. new \in Execution /\ new.stage = "started" /\ new.fence = row.fence /\ new.job = j
        BY <1>1, <2>2 DEF Execution
    <2>. HIDE DEF new
    <2>4. /\ jobRow' \in [JobIds -> JobRowType] /\ jobRow'[j] = row
          /\ \A i \in JobIds \ {j} : jobRow'[i] = jobRow[i]
        BY <1>1, <2>1, <2>2
    <2>5. /\ exec' \in [WorkerIds -> Execution] /\ exec'[w] = new
          /\ \A v \in WorkerIds \ {w} : exec'[v] = exec[v]
        BY <2>1, <2>3
    <2>6. JobsTypeOK'
        BY <1>2, <2>4, <2>5 DEF JobsTypeOK, OthersTypeOK
    <2>7. ASSUME NEW v \in WorkerIds, v # w, exec'[v] # Idle
          PROVE  /\ exec'[v] = exec[v] /\ exec[v] # Idle /\ exec[v].job \in JobIds
                 /\ exec[v].fence \in Nat /\ exec[v].fence <= jobRow[exec[v].job].fence
                 /\ exec[v].job = j => exec[v].fence < row.fence
                 /\ HoldsLease(v)' => HoldsLease(v)
        <3>1. exec'[v] = exec[v] /\ exec[v] # Idle
            BY <2>5, <2>7
        <3>2. /\ exec[v].job \in JobIds /\ exec[v].fence \in Nat
              /\ exec[v].fence <= jobRow[exec[v].job].fence
            BY <3>1 DEF JobsInv, FencesApart, Working, Execution
        <3>3. exec[v].job = j => exec[v].fence < row.fence
            BY <2>2, <3>2
        <3>4. HoldsLease(v)' => HoldsLease(v)
            BY <2>4, <3>1, <3>2, <3>3 DEF HoldsLease
        <3>. QED BY <3>1, <3>2, <3>3, <3>4
    <2>8. FencesApart'
        <3>1. ASSUME NEW v \in WorkerIds, exec'[v] # Idle
              PROVE  exec'[v].job \in JobIds /\ exec'[v].fence <= jobRow'[exec'[v].job].fence
            <4>1. CASE v = w
                BY <1>1, <2>2, <2>3, <2>4, <2>5, <4>1
            <4>2. CASE v # w
                BY <2>2, <2>4, <2>7, <3>1, <4>2
            <4>. QED BY <4>1, <4>2
        <3>2. ASSUME NEW u \in WorkerIds, NEW v \in WorkerIds, exec'[u] # Idle, exec'[v] # Idle,
                     exec'[u].job = exec'[v].job, exec'[u].fence = exec'[v].fence
              PROVE  u = v
            <4>1. CASE u # w /\ v # w
                BY <2>7, <3>2, <4>1 DEF JobsInv, FencesApart, Working
            <4>2. CASE u = w /\ v # w
                BY <2>2, <2>3, <2>5, <2>7, <3>2, <4>2
            <4>3. CASE u # w /\ v = w
                BY <2>2, <2>3, <2>5, <2>7, <3>2, <4>3
            <4>. QED BY <4>1, <4>2, <4>3
        <3>. QED BY <3>1, <3>2 DEF FencesApart, Working
    <2>9. StagesOfKind'
        <3>1. ASSUME NEW v \in WorkerIds, exec'[v].stage \in MemoryStage
              PROVE  jobKind[exec'[v].job] = "memory"
            <4>1. v # w
                BY <2>3, <2>5, <3>1 DEF MemoryStage
            <4>2. exec'[v] = exec[v]
                BY <2>5, <4>1
            <4>. QED BY <3>1, <4>2 DEF JobsInv, StagesOfKind
        <3>. QED BY <1>2, <3>1 DEF StagesOfKind, RequestsFollow
    <2>10. RearmsLeft'
        <3>1. \A i : RearmLeft(i)' <=> RearmLeft(i)
            BY DEF Consume, RearmLeft
        <3>2. ASSUME NEW i \in JobIds, jobRow'[i].state = "succeeded"
              PROVE  RearmLeft(i)
            BY <2>2, <2>4, <3>2 DEF JobsInv, RearmsLeft
        <3>3. ASSUME NEW v \in WorkerIds, exec'[v].stage = "ok", HoldsLease(v)'
              PROVE  RearmLeft(exec'[v].job)
            <4>1. v # w /\ exec'[v] # Idle
                BY <2>3, <2>5, <3>3, IdleStage
            <4>. QED BY <2>7, <3>3, <4>1 DEF JobsInv, RearmsLeft
        <3>4. \A v \in WorkerIds : RearmLeft(exec[v].job)' <=> RearmLeft(exec'[v].job)
            BY DEF Consume, RearmLeft
        <3>. QED BY <3>1, <3>2, <3>3, <3>4 DEF RearmsLeft
    <2>11. ~LeaseComesBack
        <3>1. ASSUME NEW v \in WorkerIds, exec[v] # Idle, exec'[v] # Idle, HoldsLease(v)'
              PROVE  HoldsLease(v)
            BY <1>1, <2>7, <3>1
        <3>. QED BY <3>1 DEF LeaseComesBack, Working
    <2>. QED BY <2>6, <2>8, <2>9, <2>10, <2>11 DEF JobsInv
<1>. QED BY <1>3, <1>4

\* what the tick makes of one row
LEMMA TickRow ==
    ASSUME JobsInv, NEW admitted \in BOOLEAN, Tick(admitted), NEW j \in JobIds
    PROVE  /\ Follows(jobRow[j], jobRow'[j])
           /\ jobRow'[j].state = "succeeded" =>
                jobRow[j].state = "succeeded" /\ rearms'[j] = rearms[j]
           /\ rearms'[j] \in 0..MaxRearms
           /\ jobRow[j].state = "leased" /\ jobRow[j].lease > 0 => rearms'[j] = rearms[j]
           /\ wakeup'[j] \in [Generation -> {"none", "unpublished", "published"}]
<1>. USE InvTypes
<1> DEFINE r == RecoverExpired[j]
           e == EnqueueErasures(RecoverExpired)[j]
           m == EnqueueMemory(EnqueueErasures(RecoverExpired))[j]
           box == RecoveryWakeups(RecoverExpired)[j]
           rearmed == ErasureDue(r, j) /\ r.state = "succeeded"
<1>1. /\ Follows(jobRow[j], r) /\ r \in JobRowType
      /\ r.state = "succeeded" => jobRow[j].state = "succeeded"
      /\ r.state = "succeeded" => ~(jobRow[j].state = "leased")
    <2>1. CASE ExpiredLease(j)
        <3>1. r = RecoveredRow(jobRow[j])
            BY <2>1 DEF RecoverExpired
        <3>. QED BY <2>1, <3>1, RecoveredFollows DEF Follows
    <2>2. CASE ~ExpiredLease(j)
        <3>1. r = jobRow[j]
            BY <2>2 DEF RecoverExpired
        <3>. QED BY <3>1 DEF Follows
    <2>. QED BY <2>1, <2>2
<1>2. box \in [Generation -> {"none", "unpublished", "published"}]
    <2>1. box = IF ExpiredLease(j) /\ r.state = "retry_wait"
                THEN AddWakeup(wakeup[j], r.generation) ELSE wakeup[j]
        BY DEF RecoveryWakeups
    <2>2. r.generation \in Generation
        BY <1>1 DEF JobRowType
    <2>. QED BY <2>1, <2>2, AddWakeupType DEF OthersTypeOK
<1>3. /\ Follows(r, e) /\ e \in JobRowType
      /\ e.state = "succeeded" => r.state = "succeeded" /\ ~rearmed
    <2>1. e = IF ErasureDue(r, j) THEN RearmedRow(r) ELSE r
        BY DEF EnqueueErasures
    <2>. HIDE DEF r
    <2>2. CASE ErasureDue(r, j)
        BY <1>1, <2>1, <2>2, RearmedFollows DEF Follows
    <2>3. CASE ~ErasureDue(r, j)
        BY <1>1, <2>1, <2>3 DEF Follows
    <2>. QED BY <2>2, <2>3
<1>4. /\ Follows(e, m) /\ m \in JobRowType
      /\ m.state = "succeeded" => e.state = "succeeded"
    <2>1. m = IF MemoryDue(j, e) THEN RearmedRow(e) ELSE e
        BY DEF EnqueueMemory
    <2>. HIDE DEF e
    <2>2. CASE MemoryDue(j, e)
        BY <1>3, <2>1, <2>2, RearmedFollows DEF Follows
    <2>3. CASE ~MemoryDue(j, e)
        BY <1>3, <2>1, <2>3 DEF Follows
    <2>. QED BY <2>2, <2>3
<1>5. /\ jobRow'[j] = IF admitted THEN RebuiltRow(m, box) ELSE e
      /\ wakeup'[j] = IF admitted THEN RebuiltBox(m, box) ELSE box
      /\ rearms'[j] = IF jobKind[j] = "erasure" /\ rearmed THEN rearms[j] + 1 ELSE rearms[j]
    <2>1. CASE admitted
        BY <2>1 DEF Tick, TickRows, TickBoxes
    <2>2. CASE ~admitted
        BY <2>2 DEF Tick, TickRows, TickBoxes
    <2>. QED BY <2>1, <2>2
<1>6. rearmed => /\ jobKind[j] = "erasure" /\ jobRow[j].state = "succeeded"
                 /\ rearms[j] < MaxRearms
    BY <1>1 DEF ErasureDue, JobsInv, RearmsLeft, RearmLeft
<1>7. rearms[j] \in 0..MaxRearms
    BY DEF OthersTypeOK
<1>. HIDE DEF r, e, m, box, rearmed
<1>8. /\ Follows(m, RebuiltRow(m, box)) /\ RebuiltRow(m, box).state = m.state
      /\ RebuiltBox(m, box) \in [Generation -> {"none", "unpublished", "published"}]
    <2>1. Follows(m, RebuiltRow(m, box)) /\ RebuiltRow(m, box).state = m.state
        BY <1>4, RebuiltFollows
    <2>2. RebuiltRow(m, box).generation \in Generation
        BY <2>1 DEF Follows, JobRowType
    <2>. QED BY <1>2, <2>1, <2>2, AddWakeupType DEF RebuiltBox
<1>9. Follows(jobRow[j], jobRow'[j])
    BY <1>1, <1>3, <1>4, <1>5, <1>8 DEF Follows
<1>10. jobRow'[j].state = "succeeded" => jobRow[j].state = "succeeded" /\ ~rearmed
    BY <1>1, <1>3, <1>4, <1>5, <1>8
<1>11. rearms'[j] \in 0..MaxRearms
    BY <1>5, <1>6, <1>7
<1>. QED BY <1>2, <1>5, <1>6, <1>8, <1>9, <1>10, <1>11

LEMMA TickKeepsJobs ==
    ASSUME JobsInv, NEW admitted \in BOOLEAN, Tick(admitted)
    PROVE  JobsInv' /\ ~LeaseComesBack
<1>. USE InvTypes
<1>1. \A j \in JobIds :
        /\ Follows(jobRow[j], jobRow'[j])
        /\ jobRow'[j].state = "succeeded" =>
             jobRow[j].state = "succeeded" /\ rearms'[j] = rearms[j]
        /\ rearms'[j] \in 0..MaxRearms
        /\ jobRow[j].state = "leased" /\ jobRow[j].lease > 0 => rearms'[j] = rearms[j]
        /\ wakeup'[j] \in [Generation -> {"none", "unpublished", "published"}]
    BY TickRow
<1>2. /\ jobRow' = [j \in JobIds |-> jobRow'[j]]
      /\ wakeup' = [j \in JobIds |-> wakeup'[j]]
      /\ rearms' = [j \in JobIds |-> rearms'[j]]
      /\ UNCHANGED <<jobKind, requestOpen, arq, exec>>
    BY DEF Tick, TickRows, TickBoxes, EnqueueErasures, EnqueueMemory, RecoveryWakeups
<1>3. mishaps' \in 0..MaxMishaps
    BY DEF Tick, Admission, Mishap, OthersTypeOK
<1>4. RowsFollow
    <2>1. \A j \in JobIds : jobRow'[j] \in JobRowType
        BY <1>1 DEF Follows
    <2>. QED BY <1>1, <1>2, <2>1 DEF RowsFollow
<1>5. ExecFollows
    BY <1>2, ExecKept
<1>6. OthersTypeOK'
    BY <1>1, <1>2, <1>3 DEF OthersTypeOK
<1>7. FencesApart' /\ ~LeaseComesBack
    BY <1>4, <1>5, FollowersApart
<1>8. JobsTypeOK'
    BY <1>4, <1>5, <1>6 DEF JobsTypeOK, OthersTypeOK, RowsFollow, ExecFollows
<1>9. StagesOfKind'
    BY <1>2 DEF StagesOfKind, JobsInv
<1>10. \A j : rearms'[j] = rearms[j] /\ RearmLeft(j) => RearmLeft(j)'
    BY <1>2 DEF RearmLeft
<1>11. ASSUME NEW j \in JobIds, jobRow'[j].state = "succeeded"
       PROVE  RearmLeft(j)'
    BY <1>1, <1>10, <1>11 DEF JobsInv, RearmsLeft
<1>12. ASSUME NEW w \in WorkerIds, exec'[w].stage = "ok", HoldsLease(w)'
       PROVE  RearmLeft(exec[w].job)'
    <2>1. exec[w].stage = "ok" /\ exec[w] # Idle /\ exec'[w] # Idle /\ exec[w].job \in JobIds
        BY <1>2, <1>12
    <2>2. HoldsLease(w)
        BY <1>4, <1>5, <1>12, <2>1, LeaseFollows
    <2>3. RearmLeft(exec[w].job) /\ rearms'[exec[w].job] = rearms[exec[w].job]
        BY <1>1, <2>1, <2>2 DEF JobsInv, RearmsLeft, HoldsLease
    <2>. QED BY <1>2, <2>3 DEF RearmLeft
<1>13. RearmsLeft'
    BY <1>11, <1>12 DEF RearmsLeft
<1>. QED BY <1>7, <1>8, <1>9, <1>13 DEF JobsInv

-----------------------------------------------------------------------------
(* The steps of the memory executor *)

LEMMA MemoryStageKeepsJobs ==
    ASSUME JobsInv, NEW w \in WorkerIds, exec[w].stage # "idle", jobKind[exec[w].job] = "memory",
           NEW s \in {"prepared", "generated", "recall retryable", "recall permanent", "ok",
                      "retryable", "permanent"},
           Stage(w, s), UNCHANGED <<jobKind, jobRow, requestOpen, rearms, wakeup, arq, mishaps>>
    PROVE  JobsInv' /\ ~LeaseComesBack
<1>1. /\ ExecFollows /\ exec'[w].stage = s
      /\ \A v \in WorkerIds \ {w} : exec'[v] = exec[v]
    BY StageMoved DEF Stage
<1>2. RowsFollow /\ RequestsFollow /\ OthersTypeOK'
    BY InvTypes, RowsKept DEF RequestsFollow, OthersTypeOK
<1>3. exec'[w].job = exec[w].job /\ RearmLeft(exec[w].job)'
    <2>1. exec'[w].job = exec[w].job
        BY <1>1, IdleStage DEF ExecFollows
    <2>. QED BY <2>1 DEF RearmLeft
<1>. QED BY <1>1, <1>2, <1>3, StepKeepsJobs

LEMMA ExecutorOfMemoryKeepsJobs ==
    ASSUME JobsInv, NEW w \in WorkerIds,
           \/ PrepareDeclines(w) \/ Prepare(w) \/ Complete(w) \/ FailMemory(w)
           \/ \E outcome \in {"generated", "recall retryable", "recall permanent"} :
                PrepareFails(w, outcome) \/ Generate(w, outcome)
    PROVE  JobsInv' /\ ~LeaseComesBack
<1>1. exec[w].stage # "idle" /\ jobKind[exec[w].job] = "memory"
    BY DEF JobsInv, StagesOfKind, MemoryStage, PrepareDeclines, Prepare, Complete, FailMemory,
           PrepareFails, Generate, StartsExecution, Job
<1>2. UNCHANGED <<jobKind, jobRow, requestOpen, rearms, wakeup, arq, mishaps>>
    BY DEF PrepareDeclines, Prepare, Complete, FailMemory, PrepareFails, Generate
<1>3. \E s \in {"prepared", "generated", "recall retryable", "recall permanent", "ok",
                "retryable", "permanent"} : Stage(w, s)
    BY DEF PrepareDeclines, Prepare, Complete, FailMemory, PrepareFails, Generate
<1>. QED BY <1>1, <1>2, <1>3, MemoryStageKeepsJobs

LEMMA JobsStep ==
    ASSUME JobsInv, [MemoryRunsNext]_memoryRunsVars
    PROVE  JobsInv' /\ ~LeaseComesBack
<1>1. CASE UNCHANGED jobsVars
    <2>1. RowsFollow /\ ExecFollows /\ RequestsFollow /\ jobRow' = jobRow /\ exec' = exec
        BY <1>1, RowsKept, ExecKept DEF jobsVars, RequestsFollow
    <2>2. OthersTypeOK'
        BY <1>1, InvTypes DEF jobsVars, OthersTypeOK
    <2>. QED BY <2>1, <2>2, StepKeepsJobs
<1>2. CASE QueueStep
    <2>1. ASSUME NEW n \in arq, NEW w \in WorkerIds, Consume(w, n)
          PROVE  JobsInv' /\ ~LeaseComesBack
        BY <2>1, ConsumeKeepsJobs
    <2>2. ASSUME NEW w \in WorkerIds, Renew(w)
          PROVE  JobsInv' /\ ~LeaseComesBack
        BY <2>2, RenewKeepsJobs
    <2>3. ASSUME NEW w \in WorkerIds, NEW outcome \in {"ok", "retryable", "permanent"},
                 RunExecutor(w, outcome)
          PROVE  JobsInv' /\ ~LeaseComesBack
        BY <2>3, ExecutorKeepsJobs
    <2>. QED BY <1>2, <2>1, <2>2, <2>3, WakeupsKeepJobs, TimeKeepsJobs DEF QueueStep
<1>3. ASSUME NEW w \in WorkerIds, Succeed(w) \/ FailOrRetry(w) \/ ExecutionDies(w)
      PROVE  JobsInv' /\ ~LeaseComesBack
    BY <1>3, SuccessKeepsJobs, FailureKeepsJobs, DeathKeepsJobs
<1>4. ASSUME NEW admitted \in BOOLEAN, Tick(admitted)
      PROVE  JobsInv' /\ ~LeaseComesBack
    BY <1>4, TickKeepsJobs
<1>5. ASSUME NEW j \in JobIds, MessageExtends(j) \/ QuietElapses(j)
      PROVE  UNCHANGED jobsVars
    BY <1>5 DEF MessageExtends, QuietElapses
<1>6. ASSUME NEW w \in WorkerIds,
             \/ PrepareDeclines(w) \/ Prepare(w) \/ Complete(w) \/ FailMemory(w)
             \/ \E outcome \in {"generated", "recall retryable", "recall permanent"} :
                  PrepareFails(w, outcome) \/ Generate(w, outcome)
      PROVE  JobsInv' /\ ~LeaseComesBack
    BY <1>6, ExecutorOfMemoryKeepsJobs
<1>7. CASE UNCHANGED memoryRunsVars
    BY <1>1, <1>7 DEF memoryRunsVars
<1>. QED BY <1>1, <1>2, <1>3, <1>4, <1>5, <1>6, <1>7 DEF MemoryRunsNext

LEMMA JobsInvInit == MemoryRunsInit => JobsInv
<1> SUFFICES ASSUME MemoryRunsInit PROVE JobsInv
    OBVIOUS
<1>1. AbsentRow \in JobRowType /\ Idle \in Execution /\ AbsentRow.state = "absent"
    <2>1. /\ 0 \in 0..MaxJobAttempts /\ 0 \in 0..JobLeaseTicks /\ 0 \in Nat /\ FALSE \in BOOLEAN
          /\ 1 \in Generation /\ "absent" \in JobState
        BY DEF Generation, JobState
    <2>. QED BY <2>1 DEF AbsentRow, JobRowType, Idle, Execution
<1>2. JobsTypeOK
    BY <1>1 DEF MemoryRunsInit, JobsInit, JobsTypeOK
<1>3. \A w \in WorkerIds : exec[w] = Idle
    BY DEF MemoryRunsInit, JobsInit
<1>4. FencesApart
    BY <1>3 DEF FencesApart, Working
<1>5. StagesOfKind
    BY <1>3, IdleStage DEF StagesOfKind, MemoryStage
<1>6. RearmsLeft
    BY <1>1, <1>3, IdleStage DEF RearmsLeft, MemoryRunsInit, JobsInit
<1>. QED BY <1>2, <1>4, <1>5, <1>6 DEF JobsInv

\* what an execution got from prepare is the version of a generation
LEMMA PreparedStep ==
    ASSUME JobsInv, RunsInv, RunsInv', prepared \in [WorkerIds -> Nat],
           [MemoryRunsNext]_memoryRunsVars
    PROVE  prepared' \in [WorkerIds -> Nat]
<1>1. CASE UNCHANGED prepared
    BY <1>1
<1>2. ASSUME NEW w \in WorkerIds, prepared' = [prepared EXCEPT ![w] = 0]
      PROVE  prepared' \in [WorkerIds -> Nat]
    BY <1>2
<1>3. ASSUME NEW w \in WorkerIds, Prepare(w)
      PROVE  prepared' \in [WorkerIds -> Nat]
    <2>1. Job(w) \in JobIds
        BY <1>3, InvTypes DEF Prepare, StartsExecution, Job
    <2>2. memory'[Job(w)].version \in Nat
        BY <2>1 DEF RunsInv, MemoryRow
    <2>3. prepared' = [prepared EXCEPT ![w] = memory'[Job(w)].version]
        BY <1>3 DEF Prepare
    <2>. HIDE DEF Job
    <2>. QED BY <2>2, <2>3
<1>4. ASSUME NEW w \in WorkerIds, FailMemory(w)
      PROVE  prepared' = [prepared EXCEPT ![w] = 0]
    BY <1>4 DEF FailMemory
<1>5. ASSUME NEW w \in WorkerIds, DropsPreparation(w)
      PROVE  prepared' = [prepared EXCEPT ![w] = 0] \/ UNCHANGED prepared
    BY <1>5 DEF DropsPreparation
<1>6. ASSUME NEW w \in WorkerIds, NEW outcome,
             PrepareDeclines(w) \/ Complete(w) \/ PrepareFails(w, outcome) \/ Generate(w, outcome)
      PROVE  UNCHANGED prepared
    BY <1>6 DEF PrepareDeclines, Complete, PrepareFails, Generate, memoryVars
<1>7. ASSUME NEW j \in JobIds, MessageExtends(j) \/ QuietElapses(j)
      PROVE  UNCHANGED prepared
    BY <1>7 DEF MessageExtends, QuietElapses
<1>8. ASSUME NEW admitted \in BOOLEAN, Tick(admitted)
      PROVE  UNCHANGED prepared
    BY <1>8 DEF Tick
<1>9. CASE QueueStep /\ UNCHANGED memoryVars
    BY <1>9 DEF memoryVars
<1>10. CASE UNCHANGED memoryRunsVars
    BY <1>10 DEF memoryRunsVars, memoryVars
<1>. QED BY <1>1, <1>2, <1>3, <1>4, <1>5, <1>6, <1>7, <1>8, <1>9, <1>10 DEF MemoryRunsNext

\* of two holders of the lease of one row, the fence of the row is that of both
LEMMA ExclusiveByFence ==
    ASSUME JobsInv
    PROVE  LeaseIsExclusive
BY DEF JobsInv, FencesApart, LeaseIsExclusive, HoldsLease

LEMMA LeasesSafely ==
    MemoryRunsInit /\ [][MemoryRunsNext]_memoryRunsVars
        => /\ [](MemoryRunsTypeOK /\ LeaseIsExclusive)
           /\ LostLeaseStaysLost
<1> DEFINE Inv == JobsInv /\ RunsInv /\ prepared \in [WorkerIds -> Nat]
<1>1. MemoryRunsInit => Inv
    BY JobsInvInit, RunsInvInit DEF MemoryRunsInit
<1>2. Inv /\ [MemoryRunsNext]_memoryRunsVars => Inv' /\ ~LeaseComesBack
    <2> SUFFICES ASSUME Inv, [MemoryRunsNext]_memoryRunsVars PROVE Inv' /\ ~LeaseComesBack
        OBVIOUS
    <2>1. RunsInv'
        BY RunsInvInductive
    <2>2. JobsInv' /\ ~LeaseComesBack
        BY JobsStep
    <2>3. prepared' \in [WorkerIds -> Nat]
        BY <2>1, PreparedStep
    <2>. QED BY <2>1, <2>2, <2>3
<1>3. Inv => MemoryRunsTypeOK /\ LeaseIsExclusive
    BY ExclusiveByFence DEF MemoryRunsTypeOK, RunsInv, JobsInv
<1>4. Inv /\ [MemoryRunsNext]_memoryRunsVars => [~LeaseComesBack]_memoryRunsVars
    BY <1>2
<1>. HIDE DEF Inv
<1>. QED BY <1>1, <1>2, <1>3, <1>4, PTL DEF LostLeaseStaysLost

\* The columns of the queue, the notices, the executions and the generations of memory work keep
\* their types; in particular no job is tried more often than max_attempts.
THEOREM RunsSpecTypeCorrect == MemoryRunsSpec => []MemoryRunsTypeOK
BY LeasesSafely, PTL DEF MemoryRunsSpec

\* At most one execution of a job holds its lease, however many workers got a wake-up for it:
\* what two overlapping executions find out, one of them alone may write (`_finish`).
THEOREM RunsSpecLeaseIsExclusive == MemoryRunsSpec => []LeaseIsExclusive
BY LeasesSafely, PTL DEF MemoryRunsSpec

\* An execution whose lease ran out or was taken over never holds it again: neither a renewal nor
\* a recovery nor a later claim revives it (worker_runtime.py `renew`, `recover_expired`).
THEOREM RunsSpecLostLeaseStaysLost == MemoryRunsSpec => LostLeaseStaysLost
BY LeasesSafely, PTL DEF MemoryRunsSpec

-----------------------------------------------------------------------------
(***************************************************************************)
(* Work is settled once and for good: MemoryRuns implements SettledWork,   *)
(* for any number of jobs and slots. A job that failed, or that is done    *)
(* once, never leaves its state; a request is not opened again; and a      *)
(* generation ends by the answer of an execution that runs it, so that its *)
(* inputs are sealed, or is given up.                                      *)
(***************************************************************************)

\* what runs was prepared, and its inputs were sealed then
RunningIsSealed == \A j \in JobIds : memory[j].state = "running" => memory[j].sealed

\* how the state of a row may change
StateStep(k, old, new) ==
    /\ old \in {"failed", "dead_letter"} => new = old
    /\ k = "once" /\ old = "succeeded" => new = old
    /\ k = "once" /\ old = "absent" => new \in {"absent", "pending"}
    /\ new = "absent" => old = "absent"

StatesStep == \A j \in JobIds : StateStep(jobKind[j], jobRow[j].state, jobRow'[j].state)

LEMMA StatesKept ==
    ASSUME jobRow' = jobRow
    PROVE  StatesStep
BY DEF StatesStep, StateStep

LEMMA StateWritten ==
    ASSUME JobsInv, NEW j \in JobIds, NEW row, StateStep(jobKind[j], jobRow[j].state, row.state),
           jobRow' = [jobRow EXCEPT ![j] = row]
    PROVE  StatesStep
BY DEF StatesStep, StateStep, JobsInv, JobsTypeOK

\* the end of an execution that holds the lease, and a claim
LEMMA ExecutionStates ==
    ASSUME JobsInv, NEW w \in WorkerIds, Succeed(w) \/ FailOrRetry(w)
    PROVE  StatesStep
<1>. USE InvTypes
<1> DEFINE j == exec[w].job
<1>1. exec[w] # Idle /\ j \in JobIds /\ jobRow[j] \in JobRowType
    BY DEF Succeed, FailOrRetry
<1>2. CASE ~HoldsLease(w)
    BY <1>2, StatesKept DEF Succeed, FailOrRetry
<1>3. CASE HoldsLease(w)
    <2>1. PICK s \in {"succeeded", "failed", "dead_letter", "retry_wait"} :
            \E row : row.state = s /\ jobRow' = [jobRow EXCEPT ![j] = row]
        <3>1. CASE Succeed(w)
            <4> DEFINE row == [jobRow[j] EXCEPT !.state = "succeeded", !.lease = 0, !.aged = FALSE]
            <4>1. row.state = "succeeded"
                BY <1>1 DEF JobRowType
            <4>2. jobRow' = [jobRow EXCEPT ![j] = row]
                BY <1>3, <3>1 DEF Succeed
            <4>. HIDE DEF row, j
            <4>. QED BY <4>1, <4>2
        <3>2. CASE FailOrRetry(w)
            <4> DEFINE s == FailureState(w)
                       g == IF s = "retry_wait" THEN NextGeneration(jobRow[j].generation)
                            ELSE jobRow[j].generation
                       row == [jobRow[j] EXCEPT !.state = s, !.lease = 0,
                                                !.later = s = "retry_wait", !.generation = g]
            <4>1. s \in {"failed", "dead_letter", "retry_wait"}
                BY DEF FailureState
            <4>2. jobRow' = [jobRow EXCEPT ![j] = row]
                BY <1>3, <3>2 DEF FailOrRetry
            <4>. HIDE DEF s, g
            <4>3. row.state = s
                BY <1>1 DEF JobRowType
            <4>. HIDE DEF row, j
            <4>. QED BY <4>1, <4>2, <4>3
        <3>. QED BY <3>1, <3>2
    <2>2. jobRow[j].state = "leased"
        BY <1>3 DEF HoldsLease
    <2>3. PICK row : row.state = s /\ jobRow' = [jobRow EXCEPT ![j] = row]
        BY <2>1
    <2>4. StateStep(jobKind[j], jobRow[j].state, row.state)
        BY <2>2, <2>3 DEF StateStep
    <2>. HIDE DEF j
    <2>. QED BY <1>1, <2>3, <2>4, StateWritten
<1>. QED BY <1>2, <1>3

LEMMA ClaimStates ==
    ASSUME JobsInv, NEW w \in WorkerIds, NEW n \in arq, Consume(w, n)
    PROVE  StatesStep
<1>1. n.job \in JobIds /\ jobRow[n.job] \in JobRowType
    BY InvTypes DEF OthersTypeOK, Notice
<1>2. CASE ~ClaimableNow(jobRow[n.job], n.generation)
    BY <1>2, StatesKept DEF Consume
<1>3. CASE ClaimableNow(jobRow[n.job], n.generation)
    <2> DEFINE row == ClaimRow(jobRow[n.job])
    <2>1. jobRow' = [jobRow EXCEPT ![n.job] = row]
        BY <1>3 DEF Consume
    <2>2. row.state = "leased"
        BY <1>1, <1>3, ClaimedRow DEF ClaimableNow
    <2>. HIDE DEF row
    <2>3. StateStep(jobKind[n.job], jobRow[n.job].state, row.state)
        BY <1>3, <2>2 DEF StateStep, ClaimableNow, Claimable
    <2>. QED BY <1>1, <2>1, <2>3, StateWritten
<1>. QED BY <1>2, <1>3

\* a renewal writes the lease alone, a new job is pending
LEMMA CreationStates ==
    ASSUME JobsInv, \/ \E w \in WorkerIds : Renew(w)
                    \/ \E j \in JobIds : CreateJob(j)
    PROVE  StatesStep
<1>. USE InvTypes
<1>1. ASSUME NEW w \in WorkerIds, Renew(w)
      PROVE  StatesStep
    <2> DEFINE j == exec[w].job
               row == [jobRow[j] EXCEPT !.lease = JobLeaseTicks]
    <2>1. j \in JobIds /\ jobRow[j] \in JobRowType
        BY <1>1 DEF Renew
    <2>2. row.state = jobRow[j].state
        BY <2>1 DEF JobRowType
    <2>3. jobRow' = [jobRow EXCEPT ![j] = row]
        BY <1>1 DEF Renew
    <2>. HIDE DEF row, j
    <2>4. StateStep(jobKind[j], jobRow[j].state, row.state)
        BY <2>2 DEF StateStep
    <2>. QED BY <2>1, <2>3, <2>4, StateWritten
<1>2. ASSUME NEW j \in JobIds, CreateJob(j)
      PROVE  StatesStep
    <2> DEFINE row == [jobRow[j] EXCEPT !.state = "pending"]
    <2>1. row.state = "pending" /\ jobRow[j].state = "absent"
        BY <1>2 DEF CreateJob, JobRowType
    <2>2. jobRow' = [jobRow EXCEPT ![j] = row]
        BY <1>2 DEF CreateJob
    <2>. HIDE DEF row
    <2>3. StateStep(jobKind[j], jobRow[j].state, row.state)
        BY <2>1 DEF StateStep
    <2>. QED BY <2>2, <2>3, StateWritten
<1>. QED BY <1>1, <1>2

LEMMA TimeStates ==
    ASSUME JobsInv, JobTimePasses
    PROVE  StatesStep
<1>1. \A j \in JobIds : jobRow'[j] = AgedRow(jobRow[j]) /\ jobRow[j] \in JobRowType
    BY InvTypes DEF JobTimePasses
<1>2. \A j \in JobIds : jobRow'[j].state = jobRow[j].state
    BY <1>1, AgedFollows
<1>. QED BY <1>2 DEF StatesStep, StateStep

\* the tick recovers a lease that ran out, and makes pending what a request or a generation wants
LEMMA TickStates ==
    ASSUME JobsInv, NEW admitted \in BOOLEAN, Tick(admitted)
    PROVE  StatesStep
<1> SUFFICES ASSUME NEW j \in JobIds
             PROVE  StateStep(jobKind[j], jobRow[j].state, jobRow'[j].state)
    BY DEF StatesStep
<1> DEFINE k == jobKind[j]
           r == RecoverExpired[j]
           e == EnqueueErasures(RecoverExpired)[j]
           m == EnqueueMemory(EnqueueErasures(RecoverExpired))[j]
           box == RecoveryWakeups(RecoverExpired)[j]
<1>1. jobRow[j] \in JobRowType
    BY InvTypes
<1>2. r \in JobRowType /\ StateStep(k, jobRow[j].state, r.state)
    <2>1. CASE ExpiredLease(j)
        <3>1. r = RecoveredRow(jobRow[j]) /\ jobRow[j].state = "leased"
            BY <2>1 DEF RecoverExpired, ExpiredLease
        <3>2. r \in JobRowType /\ r.state \in {"retry_wait", "dead_letter"}
            BY <1>1, <3>1, RecoveredFollows DEF Follows
        <3>. QED BY <3>1, <3>2 DEF StateStep
    <2>2. CASE ~ExpiredLease(j)
        <3>1. r = jobRow[j]
            BY <2>2 DEF RecoverExpired
        <3>. QED BY <1>1, <3>1 DEF StateStep
    <2>. QED BY <2>1, <2>2
<1>3. e \in JobRowType /\ StateStep(k, r.state, e.state) /\ (k = "once" => e.state = r.state)
    <2>1. e = IF ErasureDue(r, j) THEN RearmedRow(r) ELSE r
        BY DEF EnqueueErasures
    <2>. HIDE DEF r
    <2>2. CASE ErasureDue(r, j)
        <3>1. e = RearmedRow(r) /\ k = "erasure" /\ r.state \in {"absent", "succeeded"}
            BY <2>1, <2>2 DEF ErasureDue
        <3>2. e \in JobRowType /\ e.state = "pending"
            BY <1>2, <3>1, RearmedFollows DEF Follows
        <3>. QED BY <3>1, <3>2 DEF StateStep
    <2>3. CASE ~ErasureDue(r, j)
        BY <1>2, <2>1, <2>3 DEF StateStep
    <2>. QED BY <2>2, <2>3
<1>4. m \in JobRowType /\ StateStep(k, e.state, m.state) /\ (k = "once" => m.state = e.state)
    <2>1. m = IF MemoryDue(j, e) THEN RearmedRow(e) ELSE e
        BY DEF EnqueueMemory
    <2>. HIDE DEF e
    <2>2. CASE MemoryDue(j, e)
        <3>1. m = RearmedRow(e) /\ k = "memory" /\ e.state \in {"absent", "succeeded"}
            BY <2>1, <2>2 DEF MemoryDue
        <3>2. m \in JobRowType /\ m.state = "pending"
            BY <1>3, <3>1, RearmedFollows DEF Follows
        <3>. QED BY <3>1, <3>2 DEF StateStep
    <2>3. CASE ~MemoryDue(j, e)
        BY <1>3, <2>1, <2>3 DEF StateStep
    <2>. QED BY <2>2, <2>3
<1>5. jobRow'[j] = IF admitted THEN RebuiltRow(m, box) ELSE e
    <2>1. CASE admitted
        BY <2>1 DEF Tick, TickRows
    <2>2. CASE ~admitted
        BY <2>2 DEF Tick, TickRows
    <2>. QED BY <2>1, <2>2
<1>. HIDE DEF k, r, e, m, box
<1>6. jobRow'[j].state \in {m.state, e.state}
    BY <1>4, <1>5, RebuiltFollows
<1>7. StateStep(k, jobRow[j].state, e.state) /\ StateStep(k, jobRow[j].state, m.state)
    BY <1>2, <1>3, <1>4 DEF StateStep
<1>. QED BY <1>6, <1>7 DEF k

\* the kinds stay, and no request is opened again
LEMMA RequestsStep ==
    ASSUME JobsInv, [MemoryRunsNext]_memoryRunsVars
    PROVE  jobKind' = jobKind /\ \A j \in JobIds : requestOpen'[j] => requestOpen[j]
<1>1. ASSUME UNCHANGED <<jobKind, requestOpen>>
      PROVE  jobKind' = jobKind /\ \A j \in JobIds : requestOpen'[j] => requestOpen[j]
    BY <1>1
<1>2. ASSUME QueueStep
      PROVE  jobKind' = jobKind /\ \A j \in JobIds : requestOpen'[j] => requestOpen[j]
    <2>1. ASSUME NEW w \in WorkerIds, NEW outcome \in {"ok", "retryable", "permanent"},
                 RunExecutor(w, outcome)
          PROVE  jobKind' = jobKind /\ \A j \in JobIds : requestOpen'[j] => requestOpen[j]
        BY <2>1, InvTypes DEF RunExecutor, OthersTypeOK
    <2>. QED BY <1>1, <1>2, <2>1 DEF QueueStep, CreateJob, PublishWakeup, PublishUnmarked,
            LoseWakeup, ConsumeRefused, Consume, Renew, JobTimePasses
<1>3. ASSUME NEW w \in WorkerIds, Succeed(w) \/ FailOrRetry(w) \/ ExecutionDies(w)
      PROVE  UNCHANGED <<jobKind, requestOpen>>
    BY <1>3 DEF Succeed, FailOrRetry, ExecutionDies
<1>4. ASSUME NEW admitted \in BOOLEAN, Tick(admitted)
      PROVE  UNCHANGED <<jobKind, requestOpen>>
    BY <1>4 DEF Tick
<1>5. ASSUME NEW j \in JobIds, MessageExtends(j) \/ QuietElapses(j)
      PROVE  UNCHANGED <<jobKind, requestOpen>>
    BY <1>5 DEF MessageExtends, QuietElapses, jobsVars
<1>6. ASSUME NEW w \in WorkerIds, NEW outcome,
             \/ PrepareDeclines(w) \/ Prepare(w) \/ Complete(w) \/ FailMemory(w)
             \/ PrepareFails(w, outcome) \/ Generate(w, outcome)
      PROVE  UNCHANGED <<jobKind, requestOpen>>
    BY <1>6 DEF PrepareDeclines, Prepare, Complete, FailMemory, PrepareFails, Generate
<1>7. CASE UNCHANGED memoryRunsVars
    BY <1>7 DEF memoryRunsVars, jobsVars
<1>. QED BY <1>1, <1>2, <1>3, <1>4, <1>5, <1>6, <1>7 DEF MemoryRunsNext

LEMMA StatesMove ==
    ASSUME JobsInv, [MemoryRunsNext]_memoryRunsVars
    PROVE  StatesStep
<1>1. CASE QueueStep
    <2>1. ASSUME NEW w \in WorkerIds, NEW outcome \in {"ok", "retryable", "permanent"},
                 RunExecutor(w, outcome)
          PROVE  jobRow' = jobRow
        BY <2>1 DEF RunExecutor
    <2>2. ASSUME \/ \E j \in JobIds, g \in Generation :
                        PublishWakeup(j, g) \/ \E sent \in BOOLEAN : PublishUnmarked(j, g, sent)
                 \/ \E n \in arq : LoseWakeup(n) \/ ConsumeRefused(n)
          PROVE  jobRow' = jobRow
        BY <2>2 DEF PublishWakeup, PublishUnmarked, LoseWakeup, ConsumeRefused
    <2>3. ASSUME NEW n \in arq, NEW w \in WorkerIds, Consume(w, n)
          PROVE  StatesStep
        BY <2>3, ClaimStates
    <2>. QED BY <1>1, <2>1, <2>2, <2>3, CreationStates, TimeStates, StatesKept DEF QueueStep
<1>2. ASSUME NEW w \in WorkerIds, Succeed(w) \/ FailOrRetry(w)
      PROVE  StatesStep
    BY <1>2, ExecutionStates
<1>3. ASSUME NEW w \in WorkerIds, ExecutionDies(w)
      PROVE  jobRow' = jobRow
    BY <1>3 DEF ExecutionDies
<1>4. ASSUME NEW admitted \in BOOLEAN, Tick(admitted)
      PROVE  StatesStep
    BY <1>4, TickStates
<1>5. ASSUME NEW j \in JobIds, MessageExtends(j) \/ QuietElapses(j)
      PROVE  jobRow' = jobRow
    BY <1>5 DEF MessageExtends, QuietElapses, jobsVars
<1>6. ASSUME NEW w \in WorkerIds, NEW outcome,
             \/ PrepareDeclines(w) \/ Prepare(w) \/ Complete(w) \/ FailMemory(w)
             \/ PrepareFails(w, outcome) \/ Generate(w, outcome)
      PROVE  jobRow' = jobRow
    BY <1>6 DEF PrepareDeclines, Prepare, Complete, FailMemory, PrepareFails, Generate
<1>7. CASE UNCHANGED memoryRunsVars
    BY <1>7, StatesKept DEF memoryRunsVars, jobsVars
<1>. QED BY <1>1, <1>2, <1>3, <1>4, <1>5, <1>6, <1>7, StatesKept DEF MemoryRunsNext

-----------------------------------------------------------------------------
(* The generations *)

\* how a generation may change: its inputs stay sealed, it ends by the answer of one that runs
\* it or is given up, and nothing else is answered
GenerationStep(j) ==
    /\ memory[j].sealed => memory'[j].sealed
    /\ memory'[j].sealed /\ ~memory[j].sealed =>
         jobKind[j] = "memory" /\ memory[j].state \in Outstanding
    /\ \/ memory'[j].state = memory[j].state /\ results'[j] = results[j]
       \/ /\ memory[j].state \in Outstanding /\ results'[j] = results[j]
          /\ memory'[j].state \in Outstanding \cup {"dead_letter"}
       \/ /\ jobKind[j] = "memory" /\ memory[j].state = "running"
          /\ memory'[j].state = "succeeded" /\ results'[j] = results[j] + 1
    /\ memory'[j].state = "running" => memory'[j].sealed

GenerationsStep == \A j \in JobIds : GenerationStep(j)

LEMMA GenerationsKept ==
    ASSUME RunningIsSealed, UNCHANGED <<memory, results>>
    PROVE  GenerationsStep
BY DEF GenerationsStep, GenerationStep, RunningIsSealed

LEMMA GenerationWritten ==
    ASSUME RunsInv, RunningIsSealed, NEW j \in JobIds, NEW row, results' = results,
           memory' = [memory EXCEPT ![j] = row],
           memory[j].sealed => row.sealed,
           row.sealed => \/ memory[j].sealed
                         \/ jobKind[j] = "memory" /\ memory[j].state \in Outstanding,
           \/ row.state = memory[j].state
           \/ memory[j].state \in Outstanding /\ row.state \in Outstanding \cup {"dead_letter"},
           row.state = "running" => row.sealed
    PROVE  GenerationsStep
<1>1. memory'[j] = row /\ \A i \in JobIds \ {j} : memory'[i] = memory[i]
    BY DEF RunsInv
<1>2. GenerationStep(j)
    BY <1>1 DEF GenerationStep
<1>3. ASSUME NEW i \in JobIds \ {j}
      PROVE  GenerationStep(i)
    BY <1>1 DEF GenerationStep, RunningIsSealed
<1>. QED BY <1>2, <1>3 DEF GenerationsStep

LEMMA WindowGenerations ==
    ASSUME RunsInv, RunningIsSealed, NEW j \in JobIds, MessageExtends(j) \/ QuietElapses(j)
    PROVE  GenerationsStep
<1>1. memory[j] \in MemoryRow
    BY DEF RunsInv
<1>2. CASE MessageExtends(j)
    <2> DEFINE row == [memory[j] EXCEPT !.due = FALSE, !.version = @ + 1, !.extended = @ + 1]
    <2>1. row.state = memory[j].state /\ row.sealed = memory[j].sealed
        BY <1>1 DEF MemoryRow
    <2>2. memory' = [memory EXCEPT ![j] = row] /\ results' = results
        BY <1>2 DEF MessageExtends, RunsInv
    <2>. HIDE DEF row
    <2>. QED BY <2>1, <2>2, GenerationWritten DEF RunningIsSealed
<1>3. CASE QuietElapses(j)
    <2> DEFINE row == [memory[j] EXCEPT !.due = TRUE]
    <2>1. row.state = memory[j].state /\ row.sealed = memory[j].sealed
        BY <1>1 DEF MemoryRow
    <2>2. memory' = [memory EXCEPT ![j] = row] /\ results' = results
        BY <1>3 DEF QuietElapses
    <2>. HIDE DEF row
    <2>. QED BY <2>1, <2>2, GenerationWritten DEF RunningIsSealed
<1>. QED BY <1>2, <1>3

LEMMA PrepareGenerations ==
    ASSUME RunsInv, RunningIsSealed, NEW w \in WorkerIds, Prepare(w), Job(w) \in JobIds
    PROVE  GenerationsStep
<1> DEFINE j == Job(w)
           row == [memory[j] EXCEPT !.state = "running", !.tried = TRUE, !.sealed = TRUE,
                                    !.version = @ + 1]
<1>1. memory[j] \in MemoryRow
    BY DEF RunsInv
<1>2. row.state = "running" /\ row.sealed
    BY <1>1 DEF MemoryRow
<1>3. memory' = [memory EXCEPT ![j] = row] /\ results' = results
    BY DEF Prepare, RunsInv
<1>4. jobKind[j] = "memory" /\ memory[j].state \in Outstanding
    BY DEF Prepare, StartsExecution, Declines
<1>5. j \in JobIds /\ "running" \in Outstanding
    BY DEF Outstanding
<1>. HIDE DEF row, j
<1>. QED BY <1>2, <1>3, <1>4, <1>5, GenerationWritten

LEMMA CompleteGenerations ==
    ASSUME JobsInv, RunsInv, RunningIsSealed, NEW w \in WorkerIds, Complete(w), Job(w) \in JobIds
    PROVE  GenerationsStep
<1> DEFINE j == Job(w)
           row == [memory[j] EXCEPT !.state = "succeeded", !.version = @ + 1]
<1>1. CASE ~MemoryFenceHolds(w)
    BY <1>1, GenerationsKept DEF Complete
<1>2. CASE MemoryFenceHolds(w)
    <2>1. j \in JobIds /\ memory[j] \in MemoryRow
        BY DEF RunsInv
    <2>2. row.state = "succeeded" /\ row.sealed = memory[j].sealed
        BY <2>1 DEF MemoryRow
    <2>3. memory' = [memory EXCEPT ![j] = row] /\ results' = [results EXCEPT ![j] = @ + 1]
        BY <1>2 DEF Complete, RunsInv
    <2>4. memory[j].state = "running" /\ memory[j].sealed
        BY <1>2, <2>1 DEF MemoryFenceHolds, RunningIsSealed
    <2>5. jobKind[j] = "memory"
        BY DEF Complete, JobsInv, StagesOfKind, MemoryStage, Job
    <2>. HIDE DEF row, j
    <2>6. /\ memory'[j] = row /\ results'[j] = results[j] + 1
          /\ \A i \in JobIds \ {j} : memory'[i] = memory[i] /\ results'[i] = results[i]
        BY <2>1, <2>3 DEF RunsInv
    <2>7. GenerationStep(j)
        BY <2>2, <2>4, <2>5, <2>6 DEF GenerationStep
    <2>8. ASSUME NEW i \in JobIds \ {j}
          PROVE  GenerationStep(i)
        BY <2>6 DEF GenerationStep, RunningIsSealed
    <2>. QED BY <2>7, <2>8 DEF GenerationsStep
<1>. QED BY <1>1, <1>2

LEMMA FailureGenerations ==
    ASSUME RunsInv, RunningIsSealed, NEW w \in WorkerIds, FailMemory(w), Job(w) \in JobIds
    PROVE  GenerationsStep
<1> DEFINE j == Job(w)
           row == [memory[j] EXCEPT !.state = FailedMemory(w), !.version = @ + 1]
<1>1. CASE ~RecordsFailure(w)
    BY <1>1, GenerationsKept DEF FailMemory
<1>2. CASE RecordsFailure(w)
    <2>1. j \in JobIds /\ memory[j] \in MemoryRow /\ memory[j].state \in Outstanding
        BY <1>2 DEF RunsInv, RecordsFailure
    <2>2. FailedMemory(w) \in {"retry_wait", "dead_letter"}
        BY DEF FailedMemory
    <2>3. row.state \in {"retry_wait", "dead_letter"} /\ row.sealed = memory[j].sealed
        BY <2>1, <2>2 DEF MemoryRow
    <2>4. memory' = [memory EXCEPT ![j] = row] /\ results' = results
        BY <1>2 DEF FailMemory, RunsInv
    <2>. HIDE DEF row, j
    <2>. QED BY <2>1, <2>3, <2>4, GenerationWritten DEF Outstanding
<1>. QED BY <1>1, <1>2

LEMMA TickGenerations ==
    ASSUME RunsInv, RunningIsSealed, NEW admitted \in BOOLEAN, Tick(admitted)
    PROVE  GenerationsStep
<1>1. results' = results
    BY DEF Tick
<1>2. CASE ~admitted
    BY <1>1, <1>2, GenerationsKept DEF Tick
<1>3. CASE admitted
    <2>1. memory' = [j \in JobIds |-> EndedMemory(j, EnqueueErasures(RecoverExpired)[j])]
        BY <1>3 DEF Tick
    <2>2. ASSUME NEW j \in JobIds
          PROVE  GenerationStep(j)
        <3> DEFINE row == EnqueueErasures(RecoverExpired)[j]
        <3>1. memory'[j] = EndedMemory(j, row) /\ memory[j] \in MemoryRow
            BY <2>1 DEF RunsInv
        <3>. HIDE DEF row
        <3>2. CASE memory'[j] = memory[j]
            BY <1>1, <3>2 DEF GenerationStep, RunningIsSealed
        <3>3. CASE /\ memory'[j] = [memory[j] EXCEPT !.state = "dead_letter", !.version = @ + 1]
                   /\ memory[j].state \in Outstanding
            <4>1. memory'[j].state = "dead_letter" /\ memory'[j].sealed = memory[j].sealed
                BY <3>1, <3>3 DEF MemoryRow
            <4>. QED BY <1>1, <3>3, <4>1 DEF GenerationStep
        <3>. QED BY <3>1, <3>2, <3>3 DEF EndedMemory
    <2>. QED BY <2>2 DEF GenerationsStep
<1>. QED BY <1>2, <1>3

LEMMA GenerationsMove ==
    ASSUME JobsInv, RunsInv, RunningIsSealed, [MemoryRunsNext]_memoryRunsVars
    PROVE  GenerationsStep
<1>1. CASE UNCHANGED <<memory, results>>
    BY <1>1, GenerationsKept
<1>2. CASE QueueStep /\ UNCHANGED memoryVars
    BY <1>1, <1>2 DEF memoryVars
<1>3. ASSUME NEW admitted \in BOOLEAN, Tick(admitted)
      PROVE  GenerationsStep
    BY <1>3, TickGenerations
<1>4. ASSUME NEW j \in JobIds, MessageExtends(j) \/ QuietElapses(j)
      PROVE  GenerationsStep
    BY <1>4, WindowGenerations
<1>5. ASSUME NEW w \in WorkerIds, Prepare(w) \/ Complete(w) \/ FailMemory(w)
      PROVE  GenerationsStep
    <2>1. exec[w].stage # "idle"
        BY <1>5 DEF Prepare, Complete, FailMemory, StartsExecution
    <2>2. Job(w) \in JobIds
        BY <2>1, InvTypes DEF Job
    <2>. QED BY <1>5, <2>2, PrepareGenerations, CompleteGenerations, FailureGenerations
<1>6. ASSUME NEW w \in WorkerIds, NEW outcome,
             PrepareDeclines(w) \/ PrepareFails(w, outcome) \/ Generate(w, outcome)
      PROVE  UNCHANGED <<memory, results>>
    BY <1>6 DEF PrepareDeclines, PrepareFails, Generate, memoryVars
<1>7. CASE UNCHANGED memoryRunsVars
    BY <1>1, <1>7 DEF memoryRunsVars, memoryVars
<1>. QED BY <1>1, <1>2, <1>3, <1>4, <1>5, <1>6, <1>7 DEF MemoryRunsNext

-----------------------------------------------------------------------------
(* The refinement *)

\* how work of each kind stands
LEMMA OutcomeOfKind ==
    ASSUME NEW j \in JobIds
    PROVE  /\ jobKind[j] = "memory" =>
                Outcome(j) = IF memory[j].state \in Outstanding THEN "open"
                             ELSE IF memory[j].state = "succeeded" THEN "done" ELSE "given_up"
           /\ jobKind[j] = "erasure" =>
                Outcome(j) = IF ~requestOpen[j] THEN "done"
                             ELSE IF jobRow[j].state \in {"failed", "dead_letter"} THEN "given_up"
                             ELSE "open"
           /\ jobKind[j] = "once" =>
                Outcome(j) = IF jobRow[j].state = "absent" THEN "unborn"
                             ELSE IF jobRow[j].state \in Claimable \cup {"leased"} THEN "open"
                             ELSE IF jobRow[j].state = "succeeded" THEN "done" ELSE "given_up"
BY DEF Outcome

\* what a step does to one piece of work
WorkStep(j) ==
    \/ Outcome(j)' = Outcome(j) /\ results'[j] = results[j]
    \/ Outcome(j) = "unborn" /\ Outcome(j)' = "open" /\ results'[j] = results[j]
    \/ Outcome(j) = "open" /\ Outcome(j)' = "given_up" /\ results'[j] = results[j]
    \/ /\ jobKind[j] # "memory" /\ Outcome(j) = "open" /\ Outcome(j)' = "done"
       /\ results'[j] = results[j]
    \/ /\ jobKind[j] = "memory" /\ memory[j].sealed /\ Outcome(j) = "open" /\ Outcome(j)' = "done"
       /\ results'[j] = results[j] + 1
    \/ /\ jobKind[j] = "erasure" /\ Outcome(j) = "given_up" /\ Outcome(j)' = "done"
       /\ results'[j] = results[j]

LEMMA WorkMoves ==
    ASSUME JobsInv, RunsInv, RunningIsSealed, [MemoryRunsNext]_memoryRunsVars, NEW j \in JobIds
    PROVE  WorkStep(j)
<1>1. /\ jobKind'[j] = jobKind[j]
      /\ requestOpen'[j] => requestOpen[j]
      /\ StateStep(jobKind[j], jobRow[j].state, jobRow'[j].state)
      /\ GenerationStep(j)
      /\ memory[j].state = "running" => memory[j].sealed
    BY RequestsStep, StatesMove, GenerationsMove DEF StatesStep, GenerationsStep, RunningIsSealed
<1>2. jobKind[j] \in {"memory", "erasure", "once"}
    BY DEF JobsInv, JobsTypeOK, JobKind
<1>3. JobsInv'
    BY JobsStep
<1>4. jobRow[j].state \in JobState /\ jobRow'[j].state \in JobState
    <2>1. jobRow[j] \in JobRowType /\ jobRow'[j] \in JobRowType
        BY <1>3 DEF JobsInv, JobsTypeOK
    <2>. QED BY <2>1 DEF JobRowType
<1>5. jobKind[j] # "memory" => results'[j] = results[j]
    BY <1>1 DEF GenerationStep
<1>6. CASE jobKind[j] = "memory"
    <2>1. /\ Outcome(j) = IF memory[j].state \in Outstanding THEN "open"
                          ELSE IF memory[j].state = "succeeded" THEN "done" ELSE "given_up"
          /\ Outcome(j)' = IF memory'[j].state \in Outstanding THEN "open"
                           ELSE IF memory'[j].state = "succeeded" THEN "done" ELSE "given_up"
        BY <1>1, <1>6 DEF Outcome
    <2>. QED BY <1>1, <1>6, <2>1 DEF WorkStep, GenerationStep, Outstanding
<1>7. CASE jobKind[j] = "erasure"
    <2>1. /\ Outcome(j) = IF ~requestOpen[j] THEN "done"
                          ELSE IF jobRow[j].state \in {"failed", "dead_letter"} THEN "given_up"
                          ELSE "open"
          /\ Outcome(j)' = IF ~requestOpen'[j] THEN "done"
                           ELSE IF jobRow'[j].state \in {"failed", "dead_letter"} THEN "given_up"
                           ELSE "open"
        BY <1>1, <1>7 DEF Outcome
    <2>. QED BY <1>1, <1>5, <1>7, <2>1 DEF WorkStep, StateStep
<1>8. CASE jobKind[j] = "once"
    <2>1. /\ Outcome(j) = IF jobRow[j].state = "absent" THEN "unborn"
                          ELSE IF jobRow[j].state \in Claimable \cup {"leased"} THEN "open"
                          ELSE IF jobRow[j].state = "succeeded" THEN "done" ELSE "given_up"
          /\ Outcome(j)' = IF jobRow'[j].state = "absent" THEN "unborn"
                           ELSE IF jobRow'[j].state \in Claimable \cup {"leased"} THEN "open"
                           ELSE IF jobRow'[j].state = "succeeded" THEN "done" ELSE "given_up"
        BY <1>1, <1>8 DEF Outcome
    <2>. QED BY <1>1, <1>4, <1>5, <1>8, <2>1 DEF WorkStep, StateStep, JobState, Claimable
<1>. QED BY <1>2, <1>6, <1>7, <1>8

LEMMA LedgerStep ==
    ASSUME JobsInv, RunsInv, RunningIsSealed, [MemoryRunsNext]_memoryRunsVars
    PROVE  Settled!WorkNext /\ RunningIsSealed'
<1>1. JobsInv' /\ RunsInv' /\ GenerationsStep /\ jobKind' = jobKind
    BY JobsStep, RunsInvInductive, GenerationsMove, RequestsStep
<1>2. \A j \in JobIds : WorkStep(j) /\ GenerationStep(j)
    BY <1>1, WorkMoves DEF GenerationsStep
<1>3. \A j \in JobIds : Outcome(j)' \in Settled!Standing
    <2>1. \A j \in JobIds : jobKind'[j] \in {"memory", "erasure", "once"}
        BY <1>1 DEF JobsInv, JobsTypeOK, JobKind
    <2>. QED BY <2>1 DEF Outcome, Settled!Standing
<1>4. results' \in [JobIds -> Nat]
    BY <1>1 DEF RunsInv
<1>5. ASSUME NEW j \in JobIds
      PROVE  /\ Settled!Seals(j)
             /\ \/ Settled!Rests(j) \/ Settled!Begins(j) \/ Settled!GivenUp(j)
                \/ Settled!Succeeds(j) \/ Settled!Answered(j) \/ Settled!LateErasure(j)
    <2>1. Settled!Seals(j)
        <3>1. memory'[j].sealed /\ ~memory[j].sealed =>
                jobKind[j] = "memory" /\ Outcome(j) = "open"
            BY <1>2, OutcomeOfKind DEF GenerationStep
        <3>. QED BY <3>1 DEF Settled!Seals
    <2>. HIDE DEF Outcome
    <2>2. WorkStep(j)
        BY <1>2
    <2>. QED BY <2>1, <2>2 DEF WorkStep, Settled!Rests, Settled!Begins, Settled!GivenUp,
            Settled!Succeeds, Settled!Answered, Settled!LateErasure, Settled!Goes, Settled!Unanswered
<1>6. {j \in JobIds : memory[j].sealed} \subseteq {j \in JobIds : memory'[j].sealed}
    BY <1>2 DEF GenerationStep
<1>7. RunningIsSealed'
    BY <1>2 DEF RunningIsSealed, GenerationStep
<1>. QED BY <1>1, <1>3, <1>4, <1>5, <1>6, <1>7 DEF Settled!WorkNext

LEMMA LedgerInit == MemoryRunsInit => Settled!WorkInit /\ RunningIsSealed
<1> SUFFICES ASSUME MemoryRunsInit PROVE Settled!WorkInit /\ RunningIsSealed
    OBVIOUS
<1>1. \A j \in JobIds : /\ memory[j] = FreshMemory /\ memory[j].state = "pending"
                        /\ ~memory[j].sealed /\ jobRow[j].state = "absent"
                        /\ requestOpen[j] = (jobKind[j] = "erasure")
    BY DEF MemoryRunsInit, JobsInit, FreshMemory, AbsentRow
<1>2. jobKind \in [JobIds -> {"once", "erasure", "memory"}]
    BY DEF MemoryRunsInit, JobsInit, JobKind
<1>3. ASSUME NEW j \in JobIds
      PROVE  Outcome(j) = IF jobKind[j] = "once" THEN "unborn" ELSE "open"
    <2>1. jobKind[j] \in {"once", "erasure", "memory"}
        BY <1>2
    <2>. QED BY <1>1, <2>1, OutcomeOfKind DEF Outstanding
<1>4. {j \in JobIds : memory[j].sealed} = {} /\ results = [j \in JobIds |-> 0]
    BY <1>1 DEF MemoryRunsInit
<1>5. RunningIsSealed
    BY <1>1 DEF RunningIsSealed
<1>. QED BY <1>2, <1>3, <1>4, <1>5 DEF Settled!WorkInit

LEMMA SettlesSafely ==
    MemoryRunsInit /\ [][MemoryRunsNext]_memoryRunsVars => SettlesForGood
<1> DEFINE Inv == JobsInv /\ RunsInv /\ RunningIsSealed
<1>1. MemoryRunsInit => Inv /\ Settled!WorkInit
    BY JobsInvInit, RunsInvInit, LedgerInit
<1>2. Inv /\ [MemoryRunsNext]_memoryRunsVars => Inv' /\ [Settled!WorkNext]_(Settled!workVars)
    BY JobsStep, RunsInvInductive, LedgerStep
<1>. HIDE DEF Inv
<1>. QED BY <1>1, <1>2, PTL DEF SettlesForGood, Settled!WorkSpec

\* Nothing that is done or given up is reopened, no generation is answered twice, and none whose
\* inputs were not sealed, for any number of jobs, slots, attempts and mishaps.
THEOREM RunsSpecSettlesForGood == MemoryRunsSpec => SettlesForGood
BY SettlesSafely, PTL DEF MemoryRunsSpec

-----------------------------------------------------------------------------
(***************************************************************************)
(* A weekly summary never stands on a daily summary that was replaced or   *)
(* invalidated, for any number of days and any contents. With the types    *)
(* the property is inductive: an invalidation that touches a day the week  *)
(* was built from touches the week, and a new summary of the week is built *)
(* from days that are read again when it is published.                     *)
(***************************************************************************)

USE PeriodsConstants

\* what the property needs to know of the types
Summaries == [Period -> SummaryRow]

PeriodsInv ==
    /\ content \in [Days -> DayInput]
    /\ summary \in Summaries
    /\ periodJob \in JobRow({"pending", "sealed"}) \cup {NoJob}
    /\ WeekStandsOnDays

\* the property, of any summaries
Stands(rows) ==
    rows[Week].active =>
        \A d \in Days : rows[Week].from[d] > 0 =>
            rows[d].no = rows[Week].from[d] /\ rows[d].active

LEMMA WeekStands == WeekStandsOnDays <=> Stands(summary)
  BY DEF WeekStandsOnDays, Stands

LEMMA InputsAreSources ==
    ASSUME NEW rows \in Summaries, content \in [Days -> DayInput], NEW p
    PROVE  Inputs(rows, p) \in Sources
  BY DEF Inputs, Sources, Summaries, SummaryRow, DayInput, Period

\* an invalidation takes the week with the days it was built from
LEMMA InvalidateStands ==
    ASSUME NEW rows \in Summaries, NEW ps \in SUBSET Period, Stands(rows)
    PROVE  /\ Invalidate(rows, ps) \in Summaries
           /\ Stands(Invalidate(rows, ps))
           /\ \A p \in Period : /\ Invalidate(rows, ps)[p].no = rows[p].no
                                /\ Invalidate(rows, ps)[p].from = rows[p].from
           /\ \A d \in Days \ ps : Invalidate(rows, ps)[d] = rows[d]
<1>. DEFINE follows == \E d \in Days \cap ps : rows[d].no > 0 /\ rows[Week].from[d] = rows[d].no
            new == Invalidate(rows, ps)
<1>1. new = [q \in Period |-> IF q \in ps \/ (q = Week /\ follows)
                              THEN [rows[q] EXCEPT !.active = FALSE] ELSE rows[q]]
  BY DEF Invalidate
<1>2. \A q \in Period : rows[q] \in SummaryRow
  BY DEF Summaries
<1>. HIDE DEF new, follows
<1>3. new \in Summaries
  BY <1>1, <1>2 DEF Summaries, SummaryRow
<1>4. \A p \in Period : new[p].no = rows[p].no /\ new[p].from = rows[p].from
  BY <1>1, <1>2 DEF SummaryRow
<1>5. \A d \in Days \ ps : new[d] = rows[d]
  BY <1>1 DEF Period
<1>6. ASSUME new[Week].active, NEW d \in Days, new[Week].from[d] > 0
      PROVE  new[d].no = new[Week].from[d] /\ new[d].active
  <2>1. Week \notin ps /\ ~follows
    BY <1>1, <1>2, <1>6 DEF Period, SummaryRow
  <2>2. new[Week] = rows[Week]
    BY <1>1, <2>1 DEF Period
  <2>3. rows[d].no = rows[Week].from[d] /\ rows[d].active
    BY <1>6, <2>2 DEF Stands
  <2>4. d \notin ps
    BY <1>6, <2>1, <2>2, <2>3 DEF follows
  <2>. QED
    BY <1>5, <2>2, <2>3, <2>4
<1>. QED
  BY <1>3, <1>4, <1>5, <1>6 DEF Stands, new

LEMMA ScanKeepsInv == PeriodsInv /\ Scan => PeriodsInv'
<1>. SUFFICES ASSUME PeriodsInv, Scan PROVE PeriodsInv'
  OBVIOUS
<1>. DEFINE outdated == {d \in Days : Outdated(summary, d)}
            days == Invalidate(summary, outdated)
            weeks == {p \in {Week} : Outdated(days, p)}
<1>1. days \in Summaries /\ Stands(days)
  BY WeekStands, InvalidateStands DEF PeriodsInv, Period
<1>2. Invalidate(days, weeks) \in Summaries /\ Stands(Invalidate(days, weeks))
  <2>1. weeks \in SUBSET Period
    BY DEF Period
  <2>. HIDE DEF days, weeks
  <2>. QED
    BY <1>1, <2>1, InvalidateStands
<1>3. summary' = Invalidate(days, weeks)
  BY DEF Scan, AfterScan
<1>4. WeekStandsOnDays'
  BY <1>2, <1>3 DEF WeekStandsOnDays, Stands
<1>5. periodJob' \in JobRow({"pending", "sealed"}) \cup {NoJob}
  <2>. DEFINE rows == AfterScan
  <2>1. rows \in Summaries
    BY <1>2 DEF AfterScan
  <2>2. CASE periodJob' = periodJob
    BY <2>2 DEF PeriodsInv
  <2>3. CASE \E p \in Period : periodJob' = [period |-> p, from |-> Inputs(rows, p),
                                             prior |-> rows[p].no, stage |-> "pending"]
    <3>1. PICK p \in Period : periodJob' = [period |-> p, from |-> Inputs(rows, p),
                                            prior |-> rows[p].no, stage |-> "pending"]
      BY <2>3
    <3>2. Inputs(rows, p) \in Sources /\ rows[p].no \in Nat
      <4>. HIDE DEF rows
      <4>. QED
        BY <2>1, InputsAreSources DEF PeriodsInv, Summaries, SummaryRow
    <3>. QED
      BY <3>1, <3>2 DEF JobRow
  <2>. QED
    BY <2>2, <2>3 DEF Scan, Period
<1>. QED
  BY <1>2, <1>3, <1>4, <1>5 DEF PeriodsInv, Scan

LEMMA PublishKeepsInv == PeriodsInv /\ PublishPeriod => PeriodsInv'
<1>. SUFFICES ASSUME PeriodsInv, PublishPeriod PROVE PeriodsInv'
  OBVIOUS
<1>. DEFINE p == periodJob.period
            rows == IF summary[p].no > 0 THEN Invalidate(summary, {p}) ELSE summary
            new == [rows EXCEPT ![p] = [no |-> @.no + 1, active |-> TRUE,
                                        from |-> periodJob.from]]
<1>1. periodJob # NoJob /\ UNCHANGED content /\ periodJob' = NoJob
  BY DEF PublishPeriod, NoJob, Finish
<1>2. p \in Period /\ periodJob.from \in Sources
  BY <1>1 DEF PeriodsInv, JobRow
<1>3. CASE ~InputsHold
  BY <1>1, <1>3 DEF PublishPeriod, PeriodsInv, WeekStandsOnDays
<1>4. CASE InputsHold
  <2>1. summary' = new
    BY <1>4 DEF PublishPeriod
  <2>2. /\ rows \in Summaries /\ Stands(rows)
        /\ \A q \in Period : rows[q].no = summary[q].no /\ rows[q].from = summary[q].from
        /\ \A d \in Days \ {p} : rows[d] = summary[d]
    BY <1>2, WeekStands, InvalidateStands DEF PeriodsInv, Period
  <2>3. p \in Days /\ summary[p].no > 0 /\ rows[Week].active => rows[Week].from[p] # summary[p].no
    BY <1>2 DEF Invalidate, Period, PeriodsInv, Summaries, SummaryRow
  <2>. HIDE DEF rows, p
  <2>4. new \in Summaries
    BY <1>2, <2>2 DEF Summaries, SummaryRow
  <2>5. ASSUME new[Week].active, NEW d \in Days, new[Week].from[d] > 0
        PROVE  new[d].no = new[Week].from[d] /\ new[d].active
    <3>0. new[p] = [no |-> rows[p].no + 1, active |-> TRUE, from |-> periodJob.from]
          /\ \A q \in Period \ {p} : new[q] = rows[q]
      BY <1>2, <2>2 DEF Summaries
    <3>1. CASE p = Week
      <4>1. periodJob.from = Inputs(summary, Week) /\ DailyComplete(summary)
        BY <1>4, <3>1 DEF InputsHold, Available, p
      <4>2. new[Week].from[d] = IF content[d] = 0 THEN 0 ELSE summary[d].no
        BY <3>0, <3>1, <4>1 DEF Inputs
      <4>3. content[d] # 0 /\ summary[d].active
        BY <2>5, <4>1, <4>2 DEF DailyComplete, Matches
      <4>4. new[d] = summary[d]
        BY <2>2, <3>0, <3>1 DEF Period
      <4>. QED
        BY <4>2, <4>3, <4>4
    <3>2. CASE p # Week
      <4>1. new[Week] = rows[Week]
        BY <3>0, <3>2 DEF Period
      <4>2. rows[d].no = rows[Week].from[d] /\ rows[d].active
        BY <2>2, <2>5, <4>1 DEF Stands
      <4>3. d # p
        BY <1>2, <2>2, <2>3, <2>5, <4>1, <4>2 DEF Period
      <4>. QED
        BY <3>0, <4>1, <4>2, <4>3 DEF Period
    <3>. QED
      BY <3>1, <3>2
  <2>6. WeekStandsOnDays'
    BY <2>1, <2>5 DEF WeekStandsOnDays
  <2>. QED
    BY <1>1, <2>1, <2>4, <2>6 DEF PeriodsInv
<1>. QED
  BY <1>3, <1>4

LEMMA PeriodsInvInductive == PeriodsInv /\ [PeriodsNext]_periodsVars => PeriodsInv'
<1>. SUFFICES ASSUME PeriodsInv, [PeriodsNext]_periodsVars PROVE PeriodsInv'
  OBVIOUS
<1>1. CASE PreparePeriod
  BY <1>1 DEF PreparePeriod, Finish, PeriodsInv, WeekStandsOnDays, JobRow, NoJob
<1>2. CASE PeriodGivesUp
  BY <1>2 DEF PeriodGivesUp, Finish, PeriodsInv, WeekStandsOnDays
<1>3. ASSUME NEW d \in Days, NEW c \in DayInput, ChangeContent(d, c) PROVE PeriodsInv'
  BY <1>3 DEF ChangeContent, PeriodsInv, WeekStandsOnDays
<1>4. CASE FallsQuiet \/ UNCHANGED periodsVars
  BY <1>4 DEF FallsQuiet, periodsVars, PeriodsInv, WeekStandsOnDays
<1>. QED
  BY <1>1, <1>2, <1>3, <1>4, ScanKeepsInv, PublishKeepsInv DEF PeriodsNext

\* Fairness plays no part in it, so it holds where the service is one of several too.
LEMMA PeriodsSafely == PeriodsInit /\ [][PeriodsNext]_periodsVars => []WeekStandsOnDays
<1>1. PeriodsInit => PeriodsInv
  BY DEF PeriodsInit, PeriodsInv, Summaries, SummaryRow, NoSummary, NoSources, Sources,
         WeekStandsOnDays, Period
<1>2. PeriodsInv => WeekStandsOnDays
  BY DEF PeriodsInv
<1>. QED
  BY <1>1, <1>2, PeriodsInvInductive, PTL

\* A weekly summary never outlives a daily summary it was built from (memory_periods.py
\* `invalidate` follows the sources downwards), whichever of scan and publication replaces
\* the day and whatever happens to the messages meanwhile.
THEOREM PeriodsSpecWeekStandsOnDays == PeriodsSpec => []WeekStandsOnDays
BY PeriodsSafely, PTL DEF PeriodsSpec

-----------------------------------------------------------------------------
(***************************************************************************)
(* No message is passed over by the watermark of its kind, and no          *)
(* watermark moves back, for any number of events and any batch. The range *)
(* a generation covers is decided when it completes, but a message below   *)
(* the watermark could still come to count if its event were only stored   *)
(* or its author not known; so the invariant says that everything at or    *)
(* below a watermark is decided, and that every range asked for ends at an *)
(* event that is there, with all the events before it.                     *)
(***************************************************************************)

USE WindowConstants

Stored(e) == source[e] # "none"

\* events are stored in the order of their numbers
StoredInOrder == \A e, f \in Event : f < e /\ Stored(e) => Stored(f)

\* nobody asks for the coverage of an event that is not there
AskedIsStored ==
    /\ \A e \in turnsOver : Stored(e)
    /\ \A i \in DOMAIN gens : Stored(gens[i].hi)

\* what is at or below a watermark will not become a message any more
DecidedBelow ==
    \A k \in WindowKind, e \in Event : e <= watermark[k] => source[e] \in {"eligible", "gone"}

WindowInv == WindowTypeOK /\ StoredInOrder /\ AskedIsStored /\ DecidedBelow /\ NoMessageSkipped

-----------------------------------------------------------------------------
(* Requests for coverage *)

\* the rows of a queue of generations whose ranges end at stored events
Rows == {rows \in Seq(GenerationRow) : \A i \in DOMAIN rows : Stored(rows[i].hi)}

LEMMA LeastGreatest ==
    ASSUME NEW a \in Event, NEW b \in Event
    PROVE  /\ Least(a, b) \in Event /\ Greatest(a, b) \in Event
           /\ Greatest(a, b) \in {a, b} /\ Least(a, b) \in {a, b}
  BY DEF Least, Greatest

LEMMA MergePendingRows ==
    ASSUME NEW rows \in Rows, NEW kind \in WindowKind, NEW lo \in Event, NEW hi \in Event,
           Stored(hi)
    PROVE  MergePending(rows, kind, lo, hi) \in Rows
<1>. DEFINE Joins(i) == rows[i].kind = kind /\ rows[i].stage = "pending"
            New == [kind |-> kind, lo |-> lo, hi |-> hi, stage |-> "pending", from |-> {}]
<1>0. /\ rows \in Seq(GenerationRow)
      /\ \A i \in DOMAIN rows : rows[i] \in GenerationRow /\ Stored(rows[i].hi)
  BY ElementOfSeq DEF Rows
<1>1. CASE \E i \in DOMAIN rows : Joins(i)
  <2>. DEFINE Wider(i) == [rows[i] EXCEPT !.lo = Least(@, lo), !.hi = Greatest(@, hi)]
              merged == [i \in DOMAIN rows |-> IF Joins(i) THEN Wider(i) ELSE rows[i]]
  <2>1. MergePending(rows, kind, lo, hi) = merged
    BY <1>1 DEF MergePending
  <2>2. \A i \in DOMAIN rows : Wider(i) \in GenerationRow /\ Stored(Wider(i).hi)
    <3>. TAKE i \in DOMAIN rows
    <3>1. rows[i].lo \in Event /\ rows[i].hi \in Event
      BY <1>0 DEF GenerationRow
    <3>2. /\ Least(rows[i].lo, lo) \in Event /\ Greatest(rows[i].hi, hi) \in Event
          /\ Greatest(rows[i].hi, hi) \in {rows[i].hi, hi}
      BY <3>1, LeastGreatest
    <3>. QED
      BY <1>0, <3>2 DEF GenerationRow
  <2>3. \A i \in DOMAIN rows : merged[i] \in GenerationRow /\ Stored(merged[i].hi)
    BY <1>0, <2>2
  <2>4. DOMAIN merged = 1..Len(rows) /\ Len(rows) \in Nat
    BY <1>0
  <2>5. merged \in Seq(GenerationRow)
    <3>1. merged \in [1..Len(rows) -> GenerationRow]
      BY <2>3, <2>4
    <3>. HIDE DEF merged
    <3>. QED
      BY <2>4, <3>1
  <2>. QED
    BY <2>1, <2>3, <2>5 DEF Rows
<1>2. CASE ~\E i \in DOMAIN rows : Joins(i)
  <2>1. MergePending(rows, kind, lo, hi) = Append(rows, New)
    BY <1>2 DEF MergePending
  <2>2. New \in GenerationRow /\ New.hi = hi
    BY DEF GenerationRow
  <2>3. Append(rows, New) \in Seq(GenerationRow)
    BY <1>0, <2>2, AppendProperties
  <2>4. \A i \in DOMAIN Append(rows, New) : Stored(Append(rows, New)[i].hi)
    BY <1>0, <2>2, AppendProperties
  <2>. QED
    BY <2>1, <2>3, <2>4 DEF Rows
<1>. QED
  BY <1>1, <1>2

LEMMA TailRows ==
    ASSUME NEW rows \in Rows, rows # <<>>
    PROVE  /\ Tail(rows) \in Rows
           /\ Head(rows) \in GenerationRow /\ Stored(Head(rows).hi)
<1>1. /\ rows \in Seq(GenerationRow)
      /\ \A i \in DOMAIN rows : rows[i] \in GenerationRow /\ Stored(rows[i].hi)
  BY ElementOfSeq DEF Rows
<1>2. /\ Head(rows) \in GenerationRow /\ Tail(rows) \in Seq(GenerationRow)
      /\ Len(rows) \in Nat \ {0} /\ Len(Tail(rows)) = Len(rows) - 1
      /\ \A i \in 1..Len(Tail(rows)) : Tail(rows)[i] = rows[i + 1]
  BY <1>1, HeadTailProperties, EmptySeq
<1>3. \A i \in DOMAIN Tail(rows) : Stored(Tail(rows)[i].hi)
  BY <1>1, <1>2
<1>4. Head(rows) = rows[1] /\ 1 \in DOMAIN rows
  BY <1>1, <1>2
<1>. QED
  BY <1>1, <1>2, <1>3, <1>4 DEF Rows

LEMMA PrependRows ==
    ASSUME NEW rows \in Rows, NEW row \in GenerationRow, Stored(row.hi)
    PROVE  <<row>> \o rows \in Rows
<1>1. /\ rows \in Seq(GenerationRow)
      /\ \A i \in DOMAIN rows : rows[i] \in GenerationRow /\ Stored(rows[i].hi)
  BY ElementOfSeq DEF Rows
<1>2. <<row>> \in Seq(GenerationRow) /\ Len(<<row>>) = 1 /\ <<row>>[1] = row
  OBVIOUS
<1>3. /\ <<row>> \o rows \in Seq(GenerationRow) /\ Len(<<row>> \o rows) = 1 + Len(rows)
      /\ \A i \in 1..(1 + Len(rows)) :
            (<<row>> \o rows)[i] = IF i <= 1 THEN <<row>>[i] ELSE rows[i - 1]
  BY <1>1, <1>2, ConcatProperties
<1>4. \A i \in DOMAIN (<<row>> \o rows) : Stored((<<row>> \o rows)[i].hi)
  BY <1>1, <1>2, <1>3
<1>. QED
  BY <1>3, <1>4 DEF Rows

\* the cutoff lies in the range, or is its end
LEMMA CutoffInRange ==
    ASSUME NEW lo \in Event, NEW hi \in Event
    PROVE  Cutoff(lo, hi) \in lo..hi \cup {hi}
  BY DEF Cutoff
-----------------------------------------------------------------------------
(* The steps *)

LEMMA GensAreRows ==
    ASSUME WindowTypeOK, AskedIsStored
    PROVE  gens \in Rows
  BY DEF WindowTypeOK, AskedIsStored, Rows

\* an event comes in, is projected or goes away: nothing below a watermark begins to count
LEMMA MessagesKeepInv ==
    ASSUME WindowInv, NEW e \in Event,
           StoreEvent(e) \/ ProjectEvent(e) \/ RemoveSource(e) \/ TurnCompletes(e)
    PROVE  WindowInv' /\ UNCHANGED watermark
<1>. USE DEF WindowInv
<1>0. /\ UNCHANGED <<gens, watermark, covered, lost, asked, refreshes, giveUps>>
      /\ source' \in [Event -> SourceState]
      /\ turnsOver' \in SUBSET Event
      /\ removals' \in 0..MaxRemovals
  <2>1. CASE StoreEvent(e)
    BY <2>1 DEF WindowTypeOK, StoreEvent, SourceState
  <2>2. CASE ProjectEvent(e)
    BY <2>2 DEF WindowTypeOK, ProjectEvent, SourceState
  <2>3. CASE RemoveSource(e)
    BY <2>3 DEF WindowTypeOK, RemoveSource, SourceState
  <2>4. CASE TurnCompletes(e)
    BY <2>4 DEF WindowTypeOK, TurnCompletes
  <2>. QED
    BY <2>1, <2>2, <2>3, <2>4
<1>1. WindowTypeOK'
  BY <1>0 DEF WindowTypeOK
<1>2. \A f \in Event : Stored(f) => Stored(f)'
  BY DEF WindowTypeOK, StoreEvent, ProjectEvent, RemoveSource, TurnCompletes, SourceState, Stored
<1>3. \A f \in Event : source[f] \in {"eligible", "gone"} =>
          source'[f] \in {"eligible", "gone"} /\ (source'[f] = "eligible" => source[f] = "eligible")
  BY DEF WindowTypeOK, StoreEvent, ProjectEvent, RemoveSource, TurnCompletes, SourceState
<1>4. StoredInOrder'
  <2>1. CASE StoreEvent(e)
    <3>1. \A f \in Event : Stored(f)' => Stored(f) \/ f = e
      BY <2>1 DEF WindowTypeOK, StoreEvent, Stored
    <3>2. \A f \in Event : f < e => Stored(f)
      BY <2>1 DEF StoreEvent, Stored, Event
    <3>. QED
      BY <1>2, <3>1, <3>2 DEF StoredInOrder
  <2>2. CASE ProjectEvent(e) \/ RemoveSource(e) \/ TurnCompletes(e)
    <3>1. \A f \in Event : Stored(f)' => Stored(f)
      BY <2>2 DEF WindowTypeOK, ProjectEvent, RemoveSource, TurnCompletes, Stored
    <3>. QED
      BY <1>2, <3>1 DEF StoredInOrder
  <2>. QED
    BY <2>1, <2>2
<1>5. AskedIsStored'
  <2>1. \A i \in DOMAIN gens : gens[i].hi \in Event
    <3>1. \A i \in DOMAIN gens : gens[i] \in GenerationRow
      BY DEF WindowTypeOK
    <3>. QED
      BY <3>1 DEF GenerationRow
  <2>2. \A f \in turnsOver' : f \in Event /\ Stored(f)
    BY DEF WindowTypeOK, AskedIsStored, StoreEvent, ProjectEvent, RemoveSource, TurnCompletes, Stored
  <2>. QED
    BY <1>0, <1>2, <2>1, <2>2 DEF AskedIsStored
<1>6. DecidedBelow'
  BY <1>0, <1>3 DEF DecidedBelow
<1>7. NoMessageSkipped'
  BY <1>0, <1>3 DEF DecidedBelow, NoMessageSkipped
<1>. QED
  BY <1>0, <1>1, <1>4, <1>5, <1>6, <1>7

\* a step that touches nothing but the queue and the counts
LEMMA QueueKeepsInv ==
    ASSUME WindowInv, UNCHANGED <<source, watermark, covered>>,
           gens' \in Rows, turnsOver' \in SUBSET turnsOver,
           lost' \in [WindowKind -> SUBSET Event], asked' \in SUBSET Event,
           refreshes' \in 0..MaxRefreshes, removals' \in 0..MaxRemovals,
           giveUps' \in 0..MaxGiveUps
    PROVE  WindowInv' /\ UNCHANGED watermark
<1>. USE DEF WindowInv
<1>1. gens' \in Seq(GenerationRow) /\ \A i \in DOMAIN gens' : Stored(gens'[i].hi)
  BY DEF Rows
<1>2. WindowTypeOK'
  BY <1>1 DEF WindowTypeOK
<1>3. AskedIsStored'
  BY <1>1 DEF AskedIsStored, Stored
<1>4. StoredInOrder' /\ DecidedBelow' /\ NoMessageSkipped'
  BY DEF StoredInOrder, Stored, DecidedBelow, NoMessageSkipped
<1>. QED
  BY <1>2, <1>3, <1>4

LEMMA RefreshKeepsInv ==
    ASSUME WindowInv, NEW e \in Event, RefreshTurn(e)
    PROVE  WindowInv' /\ UNCHANGED watermark
<1>1. e \in turnsOver /\ Stored(e)
  BY DEF WindowInv, RefreshTurn, AskedIsStored
<1>2. MergePending(gens, "episode", e, e) \in Rows
  BY <1>1, GensAreRows, MergePendingRows DEF WindowInv, WindowKind
<1>3. /\ UNCHANGED <<source, watermark, covered, lost, removals, giveUps>>
      /\ gens' = MergePending(gens, "episode", e, e)
      /\ turnsOver' \in SUBSET turnsOver
      /\ asked' = asked \cup {e} /\ refreshes' = refreshes + 1 /\ refreshes < MaxRefreshes
  BY DEF RefreshTurn
<1>. QED
  BY <1>2, <1>3, QueueKeepsInv DEF WindowInv, WindowTypeOK

LEMMA FirstEventInRange ==
    ASSUME WindowTypeOK, NEW row \in GenerationRow
    PROVE  FirstEvent(row) \in Event
  BY DEF WindowTypeOK, GenerationRow, FirstEvent, Least, Event

LEMMA PrepareKeepsInv ==
    ASSUME WindowInv, PrepareGeneration \/ PrepareWaits
    PROVE  WindowInv' /\ UNCHANGED watermark
<1>. DEFINE row == Head(gens)
            lo == FirstEvent(row)
            cut == Cutoff(lo, row.hi)
            rest == Tail(gens)
<1>0. gens # <<>>
  BY DEF PrepareGeneration, PrepareWaits
<1>1. rest \in Rows /\ row \in GenerationRow /\ Stored(row.hi)
  BY <1>0, GensAreRows, TailRows DEF WindowInv
<1>2. row.kind \in WindowKind /\ row.hi \in Event /\ lo \in Event
  BY <1>1, FirstEventInRange DEF WindowInv, GenerationRow
<1>3. cut \in lo..row.hi \cup {row.hi}
  BY <1>2, CutoffInRange
<1>4. cut \in Event /\ cut <= row.hi
  BY <1>2, <1>3 DEF Event
<1>5. Stored(cut)
  BY <1>1, <1>2, <1>4 DEF WindowInv, StoredInOrder, Event
<1>6. UNCHANGED <<source, turnsOver, watermark, covered, lost, asked, refreshes, removals, giveUps>>
  BY DEF PrepareGeneration, PrepareWaits
<1>7. gens' \in Rows
  <2>1. CASE PrepareGeneration
    <3>. DEFINE head == SealInputs(row, lo, cut)
                left == LeaveBacklog(row, cut, rest)
    <3>1. gens' = <<head>> \o left
      BY <2>1 DEF PrepareGeneration
    <3>2. head \in GenerationRow /\ head.hi = cut
      <4>1. Readable(lo, cut) \in SUBSET Event
        BY <1>2, <1>4 DEF Readable, Event
      <4>. HIDE DEF row, lo, cut
      <4>. QED
        BY <1>1, <1>2, <1>4, <4>1 DEF SealInputs, GenerationRow
    <3>3. left \in Rows
      <4>1. CASE cut < row.hi
        <5>1. cut + 1 \in Event
          BY <1>2, <1>4, <4>1 DEF Event
        <5>. QED
          BY <1>1, <1>2, <4>1, <5>1, MergePendingRows DEF LeaveBacklog
      <4>2. CASE ~(cut < row.hi)
        BY <1>1, <4>2 DEF LeaveBacklog
      <4>. QED
        BY <4>1, <4>2
    <3>. HIDE DEF head, left
    <3>. QED
      BY <1>5, <3>1, <3>2, <3>3, PrependRows
  <2>2. CASE PrepareWaits
    <3>. DEFINE head == [row EXCEPT !.stage = "retry_wait"]
    <3>1. gens' = <<head>> \o rest
      BY <2>2 DEF PrepareWaits
    <3>2. head \in GenerationRow /\ head.hi = row.hi
      BY <1>1 DEF GenerationRow
    <3>. HIDE DEF head, rest
    <3>. QED
      BY <1>1, <3>1, <3>2, PrependRows
  <2>. QED
    BY <2>1, <2>2
<1>. QED
  BY <1>6, <1>7, QueueKeepsInv DEF WindowInv, WindowTypeOK

LEMMA DeadLetterKeepsInv ==
    ASSUME WindowInv, gens # <<>>, DeadLetter(Head(gens)),
           UNCHANGED <<source, turnsOver, asked, refreshes, removals>>,
           giveUps' \in 0..MaxGiveUps
    PROVE  WindowInv' /\ UNCHANGED watermark
<1>. DEFINE row == Head(gens)
<1>1. Tail(gens) \in Rows /\ row \in GenerationRow
  BY GensAreRows, TailRows DEF WindowInv
<1>2. row.kind \in WindowKind /\ row.lo \in Event /\ row.hi \in Event
  BY <1>1 DEF GenerationRow
<1>3. row.lo..row.hi \subseteq Event
  BY <1>2 DEF Event
<1>4. gens' = Tail(gens) /\ UNCHANGED <<watermark, covered>>
  BY DEF DeadLetter
<1>5. lost' = [lost EXCEPT ![row.kind] = @ \cup (row.lo..row.hi)]
  BY DEF DeadLetter
<1>6. lost' \in [WindowKind -> SUBSET Event]
  <2>. HIDE DEF row
  <2>. QED
    BY <1>2, <1>3, <1>5 DEF WindowInv, WindowTypeOK
<1>. QED
  BY <1>1, <1>4, <1>6, QueueKeepsInv DEF WindowInv, WindowTypeOK

\* the range is decided when its generation completes, and reaches down to the watermark
LEMMA CoveredKeepsInv ==
    ASSUME WindowInv, NEW row \in GenerationRow, Stored(row.hi),
           SealedHolds(row), Contiguous(row), MoveWatermark(row),
           gens' \in Rows,
           UNCHANGED <<source, turnsOver, lost, asked, refreshes, removals, giveUps>>
    PROVE  WindowInv' /\ \A k \in WindowKind : watermark'[k] >= watermark[k]
<1>. USE DEF WindowInv
<1>0. row.kind \in WindowKind /\ row.lo \in Event /\ row.hi \in Event /\ row.from \subseteq Event
  BY DEF GenerationRow
<1>1. /\ watermark' = [watermark EXCEPT ![row.kind] = row.hi]
      /\ covered' = [covered EXCEPT ![row.kind] = @ \cup row.from]
  BY DEF MoveWatermark, WatermarkAfter
<1>2. /\ row.lo <= watermark[row.kind] + 1
      /\ row.hi >= watermark[row.kind]
      /\ row.from = {e \in row.lo..row.hi : source[e] = "eligible"}
      /\ \A e \in row.lo..row.hi : source[e] \notin {"stored", "pending"}
  BY DEF SealedHolds, Contiguous, RangeDecided, Readable
<1>3. \A k \in WindowKind : watermark'[k] >= watermark[k] /\ watermark[k] \in 0..LastEvent
  BY <1>0, <1>1, <1>2 DEF WindowTypeOK
<1>4. WindowTypeOK'
  <2>1. watermark' \in [WindowKind -> 0..LastEvent] /\ covered' \in [WindowKind -> SUBSET Event]
    BY <1>0, <1>1 DEF WindowTypeOK, Event
  <2>. QED
    BY <2>1 DEF WindowTypeOK, Rows
<1>5. StoredInOrder' /\ AskedIsStored'
  BY DEF StoredInOrder, AskedIsStored, Stored, Rows
\* an event at or below the new watermark is below the old one or in the range
<1>6. ASSUME NEW e \in Event, e <= row.hi, ~(e <= watermark[row.kind])
      PROVE  /\ source[e] \in {"eligible", "gone"}
             /\ source[e] = "eligible" => e \in row.from
  <2>1. e \in row.lo..row.hi
    BY <1>0, <1>2, <1>3, <1>6 DEF Event
  <2>2. Stored(e)
    BY <1>0, <1>6 DEF StoredInOrder, Event
  <2>. QED
    BY <1>2, <2>1, <2>2 DEF Stored, WindowTypeOK, SourceState
<1>7. ASSUME NEW k \in WindowKind, NEW e \in Event, e <= watermark'[k]
      PROVE  source'[e] \in {"eligible", "gone"} /\ (source'[e] = "eligible" => e \in covered'[k])
  <2>1. CASE k = row.kind
    <3>1. watermark'[k] = row.hi /\ covered'[k] = covered[k] \cup row.from
      BY <1>1, <2>1 DEF WindowTypeOK
    <3>2. CASE e <= watermark[k]
      BY <3>1, <3>2 DEF DecidedBelow, NoMessageSkipped
    <3>3. CASE ~(e <= watermark[k])
      BY <1>6, <1>7, <2>1, <3>1, <3>3
    <3>. QED
      BY <3>2, <3>3
  <2>2. CASE k # row.kind
    BY <1>1, <1>7, <2>2 DEF WindowTypeOK, DecidedBelow, NoMessageSkipped
  <2>. QED
    BY <2>1, <2>2
<1>. QED
  BY <1>3, <1>4, <1>5, <1>7 DEF DecidedBelow, NoMessageSkipped

LEMMA CompleteKeepsInv ==
    ASSUME WindowInv, CompleteGeneration
    PROVE  WindowInv' /\ \A k \in WindowKind : watermark'[k] >= watermark[k]
<1>. DEFINE row == Head(gens)
            summaryFrom == watermark["rolling_summary"] + 1
<1>0. gens # <<>> /\ UNCHANGED <<source, turnsOver, asked, refreshes, removals, giveUps>>
  BY DEF CompleteGeneration
<1>1. Tail(gens) \in Rows /\ row \in GenerationRow /\ Stored(row.hi)
  BY <1>0, GensAreRows, TailRows DEF WindowInv
<1>2. CASE SealedHolds(row) /\ Contiguous(row)
  <2>1. MoveWatermark(row) /\ UNCHANGED lost
    BY <1>2 DEF CompleteGeneration
  <2>2. gens' \in Rows
    <3>1. CASE SummaryDue(row.kind, row.hi)
      <4>1. gens' = MergePending(Tail(gens), "rolling_summary", summaryFrom, row.hi)
        BY <1>2, <3>1 DEF CompleteGeneration
      <4>2. Cardinality(Readable(summaryFrom, row.hi)) >= SummaryThreshold
        BY <3>1 DEF SummaryDue
      <4>3. Readable(summaryFrom, row.hi) # {}
        BY <4>2, FS_EmptySet
      <4>4. row.hi \in Event /\ watermark["rolling_summary"] \in 0..LastEvent
        BY <1>1 DEF WindowInv, WindowTypeOK, GenerationRow, WindowKind
      <4>5. summaryFrom \in Event
        BY <4>3, <4>4 DEF Readable, Event
      <4>. HIDE DEF row, summaryFrom
      <4>. QED
        BY <1>1, <4>1, <4>4, <4>5, MergePendingRows DEF WindowKind
    <3>2. CASE ~SummaryDue(row.kind, row.hi)
      BY <1>1, <1>2, <3>2 DEF CompleteGeneration
    <3>. QED
      BY <3>1, <3>2
  <2>. HIDE DEF row
  <2>. QED
    BY <1>0, <1>1, <1>2, <2>1, <2>2, CoveredKeepsInv
<1>3. CASE ~(SealedHolds(row) /\ Contiguous(row))
  <2>1. DeadLetter(row)
    BY <1>3 DEF CompleteGeneration
  <2>2. WindowInv' /\ UNCHANGED watermark
    BY <1>0, <2>1, DeadLetterKeepsInv DEF WindowInv, WindowTypeOK
  <2>. QED
    BY <2>2 DEF WindowInv, WindowTypeOK
<1>. QED
  BY <1>2, <1>3

LEMMA WindowInvInductive ==
    ASSUME WindowInv, [WindowNext]_windowVars
    PROVE  WindowInv' /\ \A k \in WindowKind : watermark'[k] >= watermark[k]
<1>0. (UNCHANGED watermark) => \A k \in WindowKind : watermark'[k] >= watermark[k]
  BY DEF WindowInv, WindowTypeOK
<1>1. ASSUME NEW e \in Event,
             StoreEvent(e) \/ ProjectEvent(e) \/ RemoveSource(e) \/ TurnCompletes(e)
      PROVE  WindowInv' /\ UNCHANGED watermark
  BY <1>1, MessagesKeepInv
<1>2. ASSUME NEW e \in Event, RefreshTurn(e)
      PROVE  WindowInv' /\ UNCHANGED watermark
  BY <1>2, RefreshKeepsInv
<1>3. CASE PrepareGeneration \/ PrepareWaits
  BY <1>0, <1>3, PrepareKeepsInv
<1>4. CASE CompleteGeneration
  BY <1>4, CompleteKeepsInv
<1>5. CASE GenerationGivesUp
  <2>1. giveUps' \in 0..MaxGiveUps
    BY <1>5 DEF GenerationGivesUp, WindowInv, WindowTypeOK
  <2>. QED
    BY <1>0, <1>5, <2>1, DeadLetterKeepsInv DEF GenerationGivesUp
<1>6. CASE UNCHANGED windowVars
  BY <1>0, <1>6 DEF windowVars, WindowInv, WindowTypeOK, StoredInOrder, AskedIsStored, Stored,
                    DecidedBelow, NoMessageSkipped
<1>. QED
  BY <1>0, <1>1, <1>2, <1>3, <1>4, <1>5, <1>6 DEF WindowNext

LEMMA WindowInvInit == WindowInit => WindowInv
  BY DEF WindowInit, WindowInv, WindowTypeOK, SourceState, StoredInOrder, AskedIsStored, Stored,
         DecidedBelow, NoMessageSkipped, Event

\* Fairness plays no part in it, so it holds where the service is one of several too.
LEMMA WindowSafely == WindowInit /\ [][WindowNext]_windowVars => []NoMessageSkipped
<1>1. WindowInv /\ [WindowNext]_windowVars => WindowInv'
  BY WindowInvInductive
<1>2. WindowInv => NoMessageSkipped
  BY DEF WindowInv
<1>. QED
  BY <1>1, <1>2, WindowInvInit, PTL

\* The watermark passes no message unread (memory_pipeline.py `_partition_backlog` and
\* `verify_completion`, memory_results.py `complete`): whatever is projected or decided late and however the
\* requests were merged and split, what is at or below a watermark was read.
THEOREM WindowSpecNoMessageSkipped == WindowSpec => []NoMessageSkipped
BY WindowSafely, PTL DEF WindowSpec

\* A watermark never moves back (the contiguity check of memory_results.py `complete`): no summary is
\* built twice from the same messages.
THEOREM WindowSpecWatermarkAdvances == WindowSpec => WatermarkAdvances
<1>1. WindowInv /\ [WindowNext]_windowVars => WindowInv'
  BY WindowInvInductive
<1>2. WindowInv /\ [WindowNext]_windowVars =>
          [\A k \in WindowKind : watermark'[k] >= watermark[k]]_windowVars
  BY WindowInvInductive
<1>. QED
  BY <1>1, <1>2, WindowInvInit, PTL DEF WindowSpec, WatermarkAdvances
=============================================================================
