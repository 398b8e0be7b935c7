------------------------------ MODULE WorkerServices ------------------------------
(***************************************************************************)
(* The services of the `worker` process and of the operations helpers:     *)
(* durable jobs and the memory generations they run, summaries of periods, *)
(* the window of summarised messages, memories, the rebuild of an embedding*)
(* space, proactive messages, erasure, data exports and a restore.         *)
(*                                                                         *)
(* They share no row that one writes and another reads, so a behaviour of  *)
(* all of them is a behaviour of each, interleaved.  A behaviour of this   *)
(* specification runs one service, the one in focus, while the others      *)
(* rest where they begin.                                                  *)
(***************************************************************************)
EXTENDS MemoryRuns, MemoryPeriods, MemoryWindow, MemoryFacts, Embeddings, ProactiveBudget,
        ScopeErasure, DataExports, RestoreGate

VARIABLE focus   \* the service that runs

workerVars == <<focus, memoryRunsVars, periodsVars, windowVars, factsVars, embeddingVars,
                budgetVars, erasureVars, exportVars, restoreVars>>

Service == {"jobs", "periods", "window", "facts", "embeddings", "budget", "erasure", "exports",
            "restore"}

NothingToReplay ==
    ledgerGiven = {} /\ present = {} /\ (\A s \in Scope : erasure[s] = "none") /\ ~unsettled
NothingToEmbed ==
    /\ activeConfig = MaxConfigs /\ space[activeConfig] = "active"
    /\ \A t \in Texts : body[t] = "replaced"

\* a service out of focus has one initial state, in which it has nothing to do
WorkerInit ==
    /\ focus \in Service
    /\ MemoryRunsInit /\ (focus # "jobs" => \A j \in JobIds : jobKind[j] = "once")
    /\ PeriodsInit /\ (focus # "periods" => \A d \in Days : content[d] = 0)
    /\ WindowInit
    /\ FactsInit
    /\ EmbeddingInit /\ (focus # "embeddings" => NothingToEmbed)
    /\ BudgetInit
    /\ ErasureInit
    /\ ExportInit
    /\ RestoreInit /\ (focus # "restore" => NothingToReplay)

On(service) == focus = service

\* what rests beside the service in focus
besideJobs == <<focus, periodsVars, windowVars, factsVars, embeddingVars, budgetVars,
                erasureVars, exportVars, restoreVars>>
besidePeriods == <<focus, memoryRunsVars, windowVars, factsVars, embeddingVars, budgetVars,
                   erasureVars, exportVars, restoreVars>>
besideWindow == <<focus, memoryRunsVars, periodsVars, factsVars, embeddingVars, budgetVars,
                  erasureVars, exportVars, restoreVars>>
besideFacts == <<focus, memoryRunsVars, periodsVars, windowVars, embeddingVars, budgetVars,
                 erasureVars, exportVars, restoreVars>>
besideEmbeddings == <<focus, memoryRunsVars, periodsVars, windowVars, factsVars, budgetVars,
                      erasureVars, exportVars, restoreVars>>
besideBudget == <<focus, memoryRunsVars, periodsVars, windowVars, factsVars, embeddingVars,
                  erasureVars, exportVars, restoreVars>>
besideErasure == <<focus, memoryRunsVars, periodsVars, windowVars, factsVars, embeddingVars,
                   budgetVars, exportVars, restoreVars>>
besideExports == <<focus, memoryRunsVars, periodsVars, windowVars, factsVars, embeddingVars,
                   budgetVars, erasureVars, restoreVars>>
besideRestore == <<focus, memoryRunsVars, periodsVars, windowVars, factsVars, embeddingVars,
                   budgetVars, erasureVars, exportVars>>

WorkerNext ==
    \/ On("jobs") /\ MemoryRunsNext /\ UNCHANGED besideJobs
    \/ On("periods") /\ PeriodsNext /\ UNCHANGED besidePeriods
    \/ On("window") /\ WindowNext /\ UNCHANGED besideWindow
    \/ On("facts") /\ FactsNext /\ UNCHANGED besideFacts
    \/ On("embeddings") /\ EmbeddingNext /\ UNCHANGED besideEmbeddings
    \/ On("budget") /\ BudgetNext /\ UNCHANGED besideBudget
    \/ On("erasure") /\ ErasureNext /\ UNCHANGED besideErasure
    \/ On("exports") /\ ExportNext /\ UNCHANGED besideExports
    \/ On("restore") /\ RestoreNext /\ UNCHANGED besideRestore

-----------------------------------------------------------------------------
(* The fairness of each service while it is in focus, as in its module *)

JobsFair ==
    /\ WF_memoryRunsVars(/\ On("jobs") /\ UNCHANGED memoryVars
                         /\ \E j \in JobIds, g \in Generation : PublishWakeup(j, g))
    /\ \A w \in WorkerIds :
        /\ WF_memoryRunsVars(/\ On("jobs") /\ UNCHANGED memoryVars
                             /\ \E outcome \in {"ok", "retryable", "permanent"} :
                                    RunExecutor(w, outcome))
        /\ WF_memoryRunsVars(/\ On("jobs") /\ UNCHANGED <<memory, results>>
                             /\ Succeed(w) \/ FailOrRetry(w)
                             /\ DropsPreparation(w))
        /\ WF_memoryRunsVars(/\ On("jobs")
                             /\ \/ PrepareDeclines(w) \/ Prepare(w) \/ Complete(w) \/ FailMemory(w)
                                \/ PrepareFails(w, "recall retryable")
                                \/ Generate(w, "recall retryable"))
    /\ WF_memoryRunsVars(/\ On("jobs") /\ UNCHANGED memoryVars
                         /\ \E w \in WorkerIds, n \in arq : Consume(w, n))
    /\ WF_memoryRunsVars(On("jobs") /\ Tick(TRUE))
    /\ WF_memoryRunsVars(On("jobs") /\ JobTimePasses /\ UNCHANGED memoryVars)
    /\ \A j \in JobIds : WF_memoryRunsVars(On("jobs") /\ QuietElapses(j))

PeriodsFair ==
    /\ WF_periodsVars(On("periods") /\ Scan)
    /\ WF_periodsVars(On("periods") /\ (PreparePeriod \/ PublishPeriod))
    /\ WF_periodsVars(On("periods") /\ FallsQuiet)

WindowFair ==
    /\ WF_windowVars(On("window") /\ (PrepareGeneration \/ CompleteGeneration))
    /\ WF_windowVars(On("window") /\ \E e \in Event : ProjectEvent(e))
    /\ WF_windowVars(On("window") /\ \E e \in Event : RefreshTurn(e))

EmbeddingFair ==
    /\ WF_embeddingVars(On("embeddings") /\ EmbeddingTick)
    /\ WF_embeddingVars(On("embeddings") /\ \E w \in Embedders, p \in Piece : ClaimPiece(w, p))
    /\ \A w \in Embedders : WF_embeddingVars(On("embeddings") /\ EmbedderStep(w))
    /\ \A p \in Piece : WF_embeddingVars(On("embeddings") /\ Orphaned(p) /\ RecoverLease(p))

BudgetFair ==
    /\ \A p \in Publishers : WF_budgetVars(On("budget") /\ PublisherStep(p))
    /\ \A c \in Candidates : WF_budgetVars(On("budget") /\ PlaceEnds(c))

ErasureFair ==
    /\ WF_erasureVars(On("erasure") /\ PrepareErasure)
    /\ WF_erasureVars(On("erasure") /\ OthersSettle)
    /\ \A r \in Reapers : WF_erasureVars(On("erasure") /\ CleanupStep(r))
    /\ \A o \in MediaObject : WF_erasureVars(On("erasure") /\ FallsDueForCleanup(o))

WorkerSpec ==
    /\ WorkerInit /\ [][WorkerNext]_workerVars
    /\ JobsFair /\ PeriodsFair /\ WindowFair /\ EmbeddingFair
    /\ BudgetFair /\ ErasureFair
=============================================================================
