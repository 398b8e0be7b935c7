----------------------------- MODULE SessionOwner -----------------------------
(***************************************************************************)
(* The life of the `app` process and the Telegram Session only one such    *)
(* process may use: start, service, the blocked state of a full disk,      *)
(* drain and the end, of several processes that share the Session file and *)
(* one advisory lock in PostgreSQL.                                        *)
(*                                                                         *)
(* Inside a process two tasks run at once: `serve`, in appStage, and the   *)
(* supervisor that drains it, in appDrain.  Either may close the client.   *)
(***************************************************************************)
EXTENDS Integers, FiniteSets

CONSTANTS Apps,               \* processes that may run with the Session file
          MaxSessionMishaps   \* bound: lost connections and failed disconnects

NoApp == "no app"

ASSUME OwnerConstants == NoApp \notin Apps /\ MaxSessionMishaps \in Nat

VARIABLES appStage,    \* how far `serve` has come
          appDrain,    \* how far the supervisor has come
          lockHolder,  \* whose connection holds the advisory lock, in PostgreSQL
          believed,    \* the adapter still has the connection it took the lock with
          lockLost,    \* history: that connection was lost while the process ran
          session,     \* the Telethon client and the Session file
          working,     \* a cycle of the work lane is under way
          diskBlocked, \* the disk was seen full; until the operator restarts it
          sessionMishaps

ownerVars == <<appStage, appDrain, lockHolder, believed, lockLost, session, working, diskBlocked,
               sessionMishaps>>

AppStages == {"down", "admission", "locked", "connecting", "catching up", "serving",
          "unwinding", "unwound",   \* a start that failed gives back what it took
          "blocking", "cleared", "blocked", "returned"}
DrainStep == {"no", "hook", "settle", "final", "release"}
SessionState == {"none", "live", "leaving"}   \* leaving: a disconnect failed

OwnerTypeOK ==
    /\ appStage \in [Apps -> AppStages] /\ appDrain \in [Apps -> DrainStep]
    /\ lockHolder \in Apps \union {NoApp} /\ believed \in [Apps -> BOOLEAN]
    /\ lockLost \in [Apps -> BOOLEAN]
    /\ session \in [Apps -> SessionState]
    /\ working \in [Apps -> BOOLEAN] /\ diskBlocked \in [Apps -> BOOLEAN]
    /\ sessionMishaps \in 0..MaxSessionMishaps

OwnerInit ==
    /\ appStage = [p \in Apps |-> "down"] /\ appDrain = [p \in Apps |-> "no"]
    /\ lockHolder = NoApp
    /\ session = [p \in Apps |-> "none"]
    /\ believed = [p \in Apps |-> FALSE] /\ lockLost = [p \in Apps |-> FALSE]
    /\ working = [p \in Apps |-> FALSE] /\ diskBlocked = [p \in Apps |-> FALSE]
    /\ sessionMishaps = 0

lockVars == <<lockHolder, believed, lockLost>>

SessionMishap == sessionMishaps < MaxSessionMishaps /\ sessionMishaps' = sessionMishaps + 1
\* once blocked, whatever the disk is later
DiskAdmits(p) == ~diskBlocked[p]
\* neither draining nor short of disk
StartAdmitted(p) == appDrain[p] = "no" /\ DiskAdmits(p)
\* Telethon's own lock, held by a start until it ends
StartingClient(p) == appStage[p] \in {"connecting", "catching up"}

\* drain waits for the work lane and the control lane
LanesStopped(p) == ~working[p]

\* Disconnects the client if there is one.  One that fails stays, about to leave.
Disconnect(p, ok) ==
    /\ session' = [session EXCEPT ![p] = IF @ = "none" \/ ok THEN "none" ELSE "leaving"]
    /\ IF ok THEN UNCHANGED sessionMishaps ELSE session[p] # "none" /\ SessionMishap

\* gives the lock back and closes the connection that held it
Unlock(p) ==
    /\ believed' = [believed EXCEPT ![p] = FALSE]
    /\ lockHolder' = IF lockHolder = p THEN NoApp ELSE lockHolder

\* the process is gone; PostgreSQL ends its connection, and with it the lock
Gone(p) ==
    /\ appStage' = [appStage EXCEPT ![p] = "down"] /\ appDrain' = [appDrain EXCEPT ![p] = "no"]
    /\ Unlock(p)
    /\ lockLost' = [lockLost EXCEPT ![p] = FALSE]
    /\ session' = [session EXCEPT ![p] = "none"]
    /\ working' = [working EXCEPT ![p] = FALSE] /\ diskBlocked' = [diskBlocked EXCEPT ![p] = FALSE]
    /\ UNCHANGED sessionMishaps

Moves(p, from, to) == appStage[p] = from /\ appStage' = [appStage EXCEPT ![p] = to]

-----------------------------------------------------------------------------
(* serve: the start *)

\* The container starts it; a schema, account or restore gate that is not ready only makes it
\* fail, as a contended lock does.
Boot(p) ==
    /\ Moves(p, "down", "admission")
    /\ UNCHANGED <<appDrain, lockVars, session, working, diskBlocked, sessionMishaps>>

\* pg_try_advisory_lock, on a connection of its own
AcquireLock(p) ==
    /\ StartAdmitted(p) /\ lockHolder = NoApp
    /\ Moves(p, "admission", "locked")
    /\ lockHolder' = p /\ believed' = [believed EXCEPT ![p] = TRUE]
    /\ UNCHANGED <<appDrain, lockLost, session, working, diskBlocked, sessionMishaps>>

\* Redis answers
ConnectRedis(p) ==
    /\ StartAdmitted(p) /\ Moves(p, "locked", "connecting")
    /\ UNCHANGED <<appDrain, lockVars, session, working, diskBlocked, sessionMishaps>>

\* from here on the Session file is in use: missed updates are projected first
ConnectTelegram(p) ==
    /\ Moves(p, "connecting", "catching up")
    /\ session' = [session EXCEPT ![p] = "live"]
    /\ UNCHANGED <<appDrain, lockVars, working, diskBlocked, sessionMishaps>>

FinishStart(p) ==
    /\ StartAdmitted(p) /\ Moves(p, "catching up", "serving")
    /\ UNCHANGED <<appDrain, lockVars, session, working, diskBlocked, sessionMishaps>>

\* A step is refused or fails, or a drain cancels it.  Telethon disconnects the client it was
\* starting; that may fail as well.
StartFails(p) ==
    /\ appStage[p] \in {"admission", "locked", "connecting", "catching up"}
    /\ Moves(p, appStage[p], "unwinding")
    /\ \E ok \in BOOLEAN : Disconnect(p, ok)
    /\ UNCHANGED <<appDrain, lockVars, working, diskBlocked>>

-----------------------------------------------------------------------------
(* _close_started_resources: the client first, the lock last *)

\* goes on whether or not the client is gone
CloseClientAnyway(p, from, to) ==
    /\ \E ok \in BOOLEAN : Disconnect(p, ok)
    /\ Moves(p, from, to)

\* a client that may still use the Session file keeps its lock
CloseClient(p, from, to) ==
    \E ok \in BOOLEAN : Disconnect(p, ok) /\ Moves(p, from, IF ok THEN to ELSE "returned")

CloseStarted(p) ==
    /\ \/ CloseClient(p, "unwinding", "unwound")
       \/ CloseClient(p, "blocking", "cleared") /\ LanesStopped(p)
    /\ UNCHANGED <<appDrain, lockVars, working, diskBlocked>>

ReleaseStarted(p) ==
    /\ Moves(p, "unwound", "returned") \/ Moves(p, "cleared", "blocked")
    /\ Unlock(p)
    /\ UNCHANGED <<appDrain, lockLost, session, working, diskBlocked, sessionMishaps>>

-----------------------------------------------------------------------------
(* serve: the service *)

\* A cycle of the work lane: a model call, a send, a recovery.  Nothing asks for the lock.
BeginCycle(p) ==
    /\ appStage[p] = "serving" /\ StartAdmitted(p) /\ ~working[p]
    /\ working' = [working EXCEPT ![p] = TRUE]
    /\ UNCHANGED <<appStage, appDrain, lockVars, session, diskBlocked, sessionMishaps>>

EndCycle(p) ==
    /\ working[p] /\ working' = [working EXCEPT ![p] = FALSE]
    /\ UNCHANGED <<appStage, appDrain, lockVars, session, diskBlocked, sessionMishaps>>

\* health and the gate before each operation look at the disk
SeeDiskFull(p) ==
    /\ appStage[p] # "down" /\ appDrain[p] = "no" /\ DiskAdmits(p)
    /\ diskBlocked' = [diskBlocked EXCEPT ![p] = TRUE]
    /\ UNCHANGED <<appStage, appDrain, lockVars, session, working, sessionMishaps>>

\* The process is not to end, which would restart it, but to let go of everything and stay.
EnterBlocked(p) ==
    /\ diskBlocked[p] /\ Moves(p, "serving", "blocking")
    /\ UNCHANGED <<appDrain, lockVars, session, working, diskBlocked, sessionMishaps>>

LeaveBlocked(p) ==
    /\ appDrain[p] # "no" /\ Moves(p, "blocked", "returned")
    /\ UNCHANGED <<appDrain, lockVars, session, working, diskBlocked, sessionMishaps>>

\* The Telethon task or the scheduler has ended, or a task has failed.  serve cancels the others;
\* the Telethon task closes its client as it ends, whatever comes of it.
ServeEnds(p) ==
    /\ Moves(p, "serving", "returned")
    /\ working' = [working EXCEPT ![p] = FALSE]
    /\ \E ok \in BOOLEAN : Disconnect(p, ok)
    /\ appDrain' = [appDrain EXCEPT ![p] = IF @ = "no" THEN "hook" ELSE @]
    /\ UNCHANGED <<lockVars, diskBlocked>>

-----------------------------------------------------------------------------
(* The lock *)

\* PostgreSQL ends the connection: it restarts, or the session is terminated
LoseConnection(p) ==
    /\ lockHolder = p /\ SessionMishap
    /\ lockHolder' = NoApp /\ lockLost' = [lockLost EXCEPT ![p] = TRUE]
    /\ UNCHANGED <<appStage, appDrain, believed, session, working, diskBlocked>>

\* the same backend still holds the same lock
StillHeld(p) == lockHolder = p

\* The heartbeat asks whether the lock is still held.  A wrong answer or none makes the adapter
\* close the connection; readiness is withdrawn, and nothing else is stopped.
ProbeFails(p) ==
    /\ appDrain[p] = "no" /\ believed[p]
    /\ IF StillHeld(p) THEN SessionMishap ELSE UNCHANGED sessionMishaps
    /\ Unlock(p) /\ lockLost' = [lockLost EXCEPT ![p] = TRUE]
    /\ UNCHANGED <<appStage, appDrain, session, working, diskBlocked>>

-----------------------------------------------------------------------------
(* The supervisor *)

\* a signal, or the end of serve, of the heartbeat or of the watchdog's tick
RequestDrain(p) ==
    /\ appStage[p] # "down" /\ appDrain[p] = "no"
    /\ appDrain' = [appDrain EXCEPT ![p] = "hook"]
    /\ UNCHANGED <<appStage, lockVars, session, working, diskBlocked, sessionMishaps>>

\* the drain hook: waits for the lanes to stop, then closes the client; the lock stays
DrainHook(p) ==
    /\ appDrain[p] = "hook" /\ LanesStopped(p) /\ ~StartingClient(p)
    /\ appDrain' = [appDrain EXCEPT ![p] = "settle"]
    /\ \E ok \in BOOLEAN : Disconnect(p, ok)
    /\ UNCHANGED <<appStage, lockVars, working, diskBlocked>>

ServeSettles(p) ==
    /\ appDrain[p] = "settle" /\ appStage[p] = "returned"
    /\ appDrain' = [appDrain EXCEPT ![p] = "final"]
    /\ UNCHANGED <<appStage, lockVars, session, working, diskBlocked, sessionMishaps>>

\* close: the same order again; a disconnect that fails ends the process with its lock
FinalClose(p) ==
    /\ appDrain[p] = "final" /\ Disconnect(p, TRUE)
    /\ appDrain' = [appDrain EXCEPT ![p] = "release"]
    /\ UNCHANGED <<appStage, lockVars, working, diskBlocked>>

FinalRelease(p) == appDrain[p] = "release" /\ Gone(p)

\* only the hook has a deadline
OverdueInHook(p) == appDrain[p] = "hook"

\* one deadline for the drain, from its first moment; the blocked state has one of its own
Overdue(p) == appDrain[p] # "no" \/ appStage[p] = "blocking"

\* os._exit: nothing is released that something may still be using
ForceExit(p) == Overdue(p) /\ Gone(p)

\* the watchdog, a disconnect that failed to the end, or a kill
Crash(p) == appStage[p] # "down" /\ Gone(p)

-----------------------------------------------------------------------------
OwnerNext ==
    \E p \in Apps :
        \/ Boot(p) \/ AcquireLock(p) \/ ConnectRedis(p) \/ ConnectTelegram(p) \/ FinishStart(p)
        \/ StartFails(p) \/ CloseStarted(p) \/ ReleaseStarted(p)
        \/ BeginCycle(p) \/ EndCycle(p) \/ SeeDiskFull(p) \/ EnterBlocked(p) \/ LeaveBlocked(p)
        \/ ServeEnds(p) \/ LoseConnection(p) \/ ProbeFails(p)
        \/ RequestDrain(p) \/ DrainHook(p) \/ ServeSettles(p) \/ FinalClose(p) \/ FinalRelease(p)
        \/ ForceExit(p) \/ Crash(p)

\* Time passes, so a deadline comes, and the supervisor sees that serve has returned.  A cycle
\* need not end, a start need not succeed, and the container need not start again.
OwnerFair ==
    \A p \in Apps :
        /\ WF_ownerVars(ForceExit(p))
        /\ WF_ownerVars(appStage[p] = "returned" /\ RequestDrain(p))

OwnerSpec == OwnerInit /\ [][OwnerNext]_ownerVars /\ OwnerFair

-----------------------------------------------------------------------------
\* Two processes use the Session file at once only after PostgreSQL, or a probe that failed, has
\* taken the lock from one of them: not through a start that fails half way, a disconnect that
\* fails, a drain that races a start, the blocked state, or a process that is killed.
SoleSession ==
    \A p, q \in Apps :
        p # q /\ session[p] # "none" /\ session[q] # "none" => lockLost[p] \/ lockLost[q]

\* A process whose service has ended, or that was told to stop, comes to its end, though a model
\* call hangs, the client does not disconnect, or the disk was full.
DrainEnds ==
    \A p \in Apps : (appDrain[p] # "no" \/ appStage[p] = "returned") ~> appStage[p] = "down"
=============================================================================
