----------------------------- MODULE RestoreGate -----------------------------
(***************************************************************************)
(* A restore: an old backup of the database comes back, with what was      *)
(* erased since, and the cumulative ledger of erasures is replayed before  *)
(* the gate opens.  The runner goes through its stages once; afterwards    *)
(* the operator may run the gate's commands again and the bounded cleanup, *)
(* in any order.  A command that timed out may still take effect.          *)
(*                                                                         *)
(* The commands of the gate are transactions under one advisory lock.  The *)
(* scopes are a memory and a contact; the erasure of an account goes like  *)
(* that of a contact whose row is always there.                            *)
(***************************************************************************)
EXTENDS Integers, Sequences

CONSTANTS MaxCloses    \* bound: how often the gate is closed

Scope == {"memory", "contact"}
OldGeneration == 1
RestoreGeneration == OldGeneration..OldGeneration + MaxCloses

VARIABLES ledgerGiven,   \* the scopes in the ledger the restore is given
          present,       \* the scopes whose row the database has
          holding,       \* the scopes whose content it has
          erasure,       \* scope -> its erasure request
          inventoried,   \* the scopes whose files were checked for the request
          replays,       \* generation and scope of every staged replay
          recorded,      \* the scopes in the database's own ledger
          unsettled,     \* whether a side effect's outcome is open
          gate,          \* its state and generation
          drill,         \* the marker of a passed restore
          stage,         \* the runner's next stage
          evidence,      \* the runner's manifest
          late,          \* the command that timed out and may still take effect
          replica        \* the scopes in the ledger off the host

restoreVars == <<ledgerGiven, present, holding, erasure, inventoried, replays, recorded, unsettled,
                 gate, drill, stage, evidence, late, replica>>

Command == {"close", "stage", "open"}
\* a ledger names a scope once
Ledger == SUBSET Scope
GateRow == [state : {"validating", "open"}, generation : RestoreGeneration]
Evidence == {"none", "PASS", "FAIL"}
Stages == <<"restore", "migrate", "close", "stage", "open", "check">>

RestoreTypeOK ==
    /\ ledgerGiven \in Ledger /\ present \subseteq Scope /\ holding \subseteq Scope
    /\ erasure \in [Scope -> {"none", "requested", "completed"}]
    /\ inventoried \subseteq Scope
    /\ replays \subseteq RestoreGeneration \X Scope
    /\ recorded \in Ledger
    /\ unsettled \in BOOLEAN /\ drill \in BOOLEAN
    /\ gate \in GateRow
    /\ stage \in 1..Len(Stages) + 1
    /\ evidence \in Evidence
    /\ late \in Command \cup {"none"}
    /\ replica \in Ledger

\* A backup agrees with itself: what it records as erased is gone and is in the newer ledger, and
\* a memory is forgotten in one transaction.
BackupAgrees ==
    /\ holding \subseteq present
    /\ \A s \in Scope : erasure[s] # "none" => s \in present
    /\ erasure["memory"] # "requested"
    /\ recorded \subseteq ledgerGiven \ holding

RestoreInit ==
    /\ ledgerGiven \in Ledger /\ present \in SUBSET Scope /\ holding \in SUBSET Scope
    /\ erasure \in [Scope -> {"none", "requested", "completed"}]
    /\ recorded = {s \in Scope : erasure[s] = "completed"}
    /\ inventoried = recorded \ {"memory"}
    /\ replays \in SUBSET ({OldGeneration} \X inventoried)
    /\ unsettled \in BOOLEAN
    /\ BackupAgrees
    /\ gate = [state |-> "open", generation |-> OldGeneration]
    /\ drill = FALSE /\ stage = 1 /\ evidence = "none" /\ late = "none"
    /\ replica = ledgerGiven

Restored == stage > 2    \* the database is there, and its schema is the program's
RunnerDone == evidence # "none"

-----------------------------------------------------------------------------
(* The commands of the gate: what each does to the database *)

gateRows == <<present, holding, erasure, inventoried, replays, recorded, gate, drill>>

CloseGate ==
    /\ gate.generation < OldGeneration + MaxCloses
    /\ gate' = [state |-> "validating", generation |-> gate.generation + 1]
    /\ UNCHANGED <<present, holding, erasure, inventoried, replays, recorded, drill>>

\* a memory the backup does not have is passed over
Memories == ledgerGiven \cap present \cap {"memory"}
ScopesGiven == ledgerGiven \ {"memory"}

\* the content and all that is derived from it
RedactMemories == holding' = holding \ Memories
ReplayMemories(requests) == [s \in Scope |-> IF s \in Memories THEN "completed" ELSE requests[s]]

TargetPresent(s) == s \in present

\* a scope staged in this generation before is left to its cleanup; the others begin again,
\* whatever the backup says of them
StageReplay ==
    LET fresh == {s \in ScopesGiven : <<gate.generation, s>> \notin replays} IN
    /\ gate.state = "validating" /\ (\A s \in ScopesGiven : TargetPresent(s))
    /\ RedactMemories
    /\ erasure' = ReplayMemories([s \in Scope |-> IF s \in fresh THEN "requested" ELSE erasure[s]])
    /\ inventoried' = inventoried \ fresh
    /\ replays' = replays \cup ({gate.generation} \X fresh)
    /\ recorded' = recorded \cup fresh \cup Memories
    /\ UNCHANGED <<present, gate, drill>>

\* takes a scope without an open request for one that was cleaned
NothingPending(s) == erasure[s] # "requested"

ScopeVerified(s) ==
    /\ TargetPresent(s) /\ erasure[s] = "completed" /\ s \in inventoried
    /\ <<gate.generation, s>> \in replays

IntegrityHolds(requests) == \A s \in Scope : requests[s] # "requested"
SideEffectsSettled == ~unsettled

MayOpen ==
    /\ gate.state = "validating"
    /\ \A s \in ScopesGiven : ScopeVerified(s)
    /\ IntegrityHolds(ReplayMemories(erasure)) /\ SideEffectsSettled

\* the marker of a passed restore
WriteMarker == drill' = TRUE

VerifyAndOpen ==
    /\ MayOpen
    /\ RedactMemories
    /\ erasure' = ReplayMemories(erasure)
    /\ recorded' = recorded \cup Memories
    /\ gate' = [gate EXCEPT !.state = "open"]
    /\ WriteMarker
    /\ UNCHANGED <<present, inventoried, replays>>

Takes(command) ==
    CASE command = "close" -> CloseGate
      [] command = "stage" -> StageReplay
      [] command = "open" -> VerifyAndOpen

\* the marker is written before the commit, and stays when the process dies between them
OpenDies == MayOpen /\ WriteMarker

-----------------------------------------------------------------------------
(* The runner *)

Completes(name) ==
    /\ stage <= Len(Stages) /\ Stages[stage] = name /\ ~RunnerDone
    /\ stage' = stage + 1

BringBack(name) ==
    /\ name \in {"restore", "migrate"} /\ Completes(name)
    /\ UNCHANGED <<ledgerGiven, gateRows, unsettled, evidence, late, replica>>

RunCommand(command) ==
    /\ Completes(command)
    /\ Takes(command)
    /\ UNCHANGED <<ledgerGiven, unsettled, evidence, late, replica>>

StageFails ==
    /\ ~RunnerDone /\ stage < Len(Stages)
    /\ evidence' = "FAIL"
    /\ late' \in {"none"} \cup ({Stages[stage]} \cap Command)
    /\ UNCHANGED <<ledgerGiven, gateRows, unsettled, stage, replica>>

\* only the database and the queue run
CheckRuntimeSet ==
    /\ Completes("check")
    /\ evidence' = "PASS"
    /\ UNCHANGED <<ledgerGiven, gateRows, unsettled, late, replica>>

\* something else runs: the gate is closed again, if that succeeds
RuntimeSetInvalid ==
    /\ Completes("check")
    /\ evidence' = "FAIL"
    /\ CloseGate \/ UNCHANGED gateRows
    /\ UNCHANGED <<ledgerGiven, unsettled, late, replica>>

LateCommand ==
    /\ late # "none"
    /\ Takes(late)
    /\ late' = "none"
    /\ UNCHANGED <<ledgerGiven, unsettled, stage, evidence, replica>>

-----------------------------------------------------------------------------
(* The operator, the cleanup, and the copy of the ledger *)

OperatorRuns(command) ==
    /\ RunnerDone /\ Restored
    /\ Takes(command) \/ (command = "open" /\ OpenDies
                          /\ UNCHANGED <<present, holding, erasure, inventoried, replays, recorded,
                                         gate>>)
    /\ UNCHANGED <<ledgerGiven, unsettled, stage, evidence, late, replica>>

CleanScope(s) ==
    /\ RunnerDone /\ Restored /\ s # "memory"
    /\ erasure[s] = "requested" /\ s \in holding
    /\ holding' = holding \ {s}
    /\ UNCHANGED <<ledgerGiven, present, erasure, inventoried, replays, recorded, unsettled, gate,
                   drill, stage, evidence, late, replica>>

\* completes only when no content is left and the files were looked at
ConfirmErasure(s) ==
    /\ RunnerDone /\ Restored /\ s # "memory"
    /\ erasure[s] = "requested" /\ s \notin holding
    /\ erasure' = [erasure EXCEPT ![s] = "completed"]
    /\ inventoried' = inventoried \cup {s}
    /\ recorded' = recorded \cup {s}
    /\ UNCHANGED <<ledgerGiven, present, holding, replays, unsettled, gate, drill, stage, evidence,
                   late, replica>>

SettleEffects ==
    /\ RunnerDone /\ Restored /\ unsettled
    /\ unsettled' = FALSE
    /\ UNCHANGED <<ledgerGiven, gateRows, stage, evidence, late, replica>>

\* the completed erasures; the copy is refused when it lacks one that was copied before
Exported == {s \in recorded : erasure[s] = "completed"}

HistoryRegressed == ~(replica \subseteq Exported)

ReplicateLedger ==
    /\ RunnerDone /\ Restored /\ ~HistoryRegressed /\ Exported # replica
    /\ replica' = Exported
    /\ UNCHANGED <<ledgerGiven, gateRows, unsettled, stage, evidence, late>>

-----------------------------------------------------------------------------
RestoreNext ==
    \/ \E name \in {"restore", "migrate"} : BringBack(name)
    \/ \E command \in Command : RunCommand(command) \/ OperatorRuns(command)
    \/ StageFails \/ CheckRuntimeSet \/ RuntimeSetInvalid \/ LateCommand
    \/ \E s \in Scope : CleanScope(s) \/ ConfirmErasure(s)
    \/ SettleEffects
    \/ ReplicateLedger

RestoreSpec == RestoreInit /\ [][RestoreNext]_restoreVars

-----------------------------------------------------------------------------
\* A gate opened since the restore, and a manifest that says it passed, mean that nothing is left
\* of what the ledger says was erased and that every doubtful side effect was settled; and the
\* copy of the ledger never loses an erasure to the older database.
ErasureSurvivesRestore ==
    /\ (gate.state = "open" /\ gate.generation > OldGeneration) \/ evidence = "PASS" =>
        holding \cap ledgerGiven = {} /\ ~unsettled
    /\ ledgerGiven \subseteq replica
=============================================================================
