------------------------------ MODULE AppServices ------------------------------
(***************************************************************************)
(* The services of the `app` and `control` processes: the delivery of one  *)
(* output, the request of a model run, model profiles and their keys, the  *)
(* owner of the Telegram Session, the control bot's updates and its context*)
(* previews.                                                               *)
(*                                                                         *)
(* They share no row that one writes and another reads, so a behaviour of  *)
(* all of them is a behaviour of each, interleaved.  A behaviour of this   *)
(* specification runs one service, the one in focus, while the others      *)
(* rest where they begin.                                                  *)
(***************************************************************************)
EXTENDS Delivery, ModelRequests, ModelKeys, SessionOwner, ControlUpdates, ContextPreviews

VARIABLE focus   \* the service that runs

appVars == <<focus, vars, requestsVars, keysVars, ownerVars, updatesVars, previewsVars>>

Service == {"delivery", "requests", "keys", "owner", "updates", "previews"}

\* a service out of focus has one initial state, in which it has nothing to do
AppInit ==
    /\ focus \in Service
    /\ Init
    /\ RequestsInit
    /\ KeysInit
    /\ OwnerInit
    /\ UpdatesInit /\ (focus # "updates" => mix = CHOOSE m \in Mixes : TRUE)
    /\ PreviewsInit

On(service) == focus = service

\* what rests beside the service in focus
besideDelivery == <<focus, requestsVars, keysVars, ownerVars, updatesVars, previewsVars>>
besideRequests == <<focus, vars, keysVars, ownerVars, updatesVars, previewsVars>>
besideKeys == <<focus, vars, requestsVars, ownerVars, updatesVars, previewsVars>>
besideOwner == <<focus, vars, requestsVars, keysVars, updatesVars, previewsVars>>
besideUpdates == <<focus, vars, requestsVars, keysVars, ownerVars, previewsVars>>
besidePreviews == <<focus, vars, requestsVars, keysVars, ownerVars, updatesVars>>

AppNext ==
    \/ On("delivery") /\ Next /\ UNCHANGED besideDelivery
    \/ On("requests") /\ RequestsNext /\ UNCHANGED besideRequests
    \/ On("keys") /\ KeysNext /\ UNCHANGED besideKeys
    \/ On("owner") /\ OwnerNext /\ UNCHANGED besideOwner
    \/ On("updates") /\ UpdatesNext /\ UNCHANGED besideUpdates
    \/ On("previews") /\ PreviewsNext /\ UNCHANGED besidePreviews

-----------------------------------------------------------------------------
(* The fairness of each service while it is in focus, as in its module *)

DeliveryFair ==
    /\ WF_vars(On("delivery") /\ SelectGroup)
    /\ WF_vars(On("delivery") /\ (PreflightClaim \/ PreflightCut \/ PreflightNothing))
    /\ WF_vars(On("delivery") /\ CallTelegram) /\ WF_vars(On("delivery") /\ AnswerAccepted)
    /\ WF_vars(On("delivery") /\ (SettleFenced \/ SettleRefused))
    /\ SF_vars(On("delivery") /\ Recover)
    /\ \A g \in Group : WF_vars(On("delivery") /\ TurnLeaseLapses(g))
    /\ \A i \in Intent :
        /\ WF_vars(On("delivery") /\ SendLeaseLapses(i))
        /\ WF_vars(On("delivery") /\ RetryFallsDue(i))
        /\ WF_vars(On("delivery") /\ Accept(i))

KeysFair ==
    /\ WF_keysVars(On("keys") /\ Compensate)
    /\ \A r \in ModelRuns : WF_keysVars(On("keys") /\ KeepRequest(r))

SessionFair ==
    \A p \in Apps :
        /\ WF_ownerVars(On("owner") /\ ForceExit(p))
        /\ WF_ownerVars(On("owner") /\ appStage[p] = "returned" /\ RequestDrain(p))

UpdatesFair ==
    /\ WF_updatesVars(On("updates") /\ \E u \in Update : LeaseEnds(u))
    /\ WF_updatesVars(On("updates") /\ \E u \in Update : ProcessNext(u))
    /\ \A m \in Pollers : WF_updatesVars(On("updates") /\ PollerStep(m))

PreviewsFair ==
    /\ \A q \in Previews :
        /\ WF_previewsVars(On("previews") /\ DeliveryStep(q))
        /\ WF_previewsVars(On("previews") /\ FallDue(q))
    /\ \A x \in PieceId : WF_previewsVars(On("previews") /\ WaitOver(x))
    /\ \A m \in Maintainers : WF_previewsVars(On("previews") /\ MaintenanceStep(m))

AppSpec ==
    /\ AppInit /\ [][AppNext]_appVars
    /\ DeliveryFair /\ KeysFair /\ SessionFair /\ UpdatesFair
    /\ PreviewsFair
=============================================================================
