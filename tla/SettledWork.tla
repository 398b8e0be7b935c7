----------------------------- MODULE SettledWork -----------------------------
(***************************************************************************)
(* What durable work promises, whatever happens to workers, leases and     *)
(* wake-ups: a piece of work is open until it is done or given up, and     *)
(* neither is taken back.  Work of the memory agent is done by an answer,  *)
(* one for each piece, to inputs that were sealed before and stay sealed.  *)
(* Only an erasure, which may be repeated, is done even after its job was  *)
(* given up.  One transaction may move several pieces of work.             *)
(***************************************************************************)
EXTENDS Naturals

CONSTANT Work

VARIABLES
    kind,       \* "once", "erasure" or "memory"
    standing,   \* unborn, open, done or given up
    sealed,     \* the work whose inputs are sealed
    answers     \* how often a piece of work was answered

workVars == <<kind, standing, sealed, answers>>

Standing == {"unborn", "open", "done", "given_up"}

WorkInit ==
    /\ kind \in [Work -> {"once", "erasure", "memory"}]
    /\ standing = [w \in Work |-> IF kind[w] = "once" THEN "unborn" ELSE "open"]
    /\ sealed = {}
    /\ answers = [w \in Work |-> 0]

Goes(w, from, to) == standing[w] = from /\ standing'[w] = to
Unanswered(w) == answers'[w] = answers[w]

Rests(w) == standing'[w] = standing[w] /\ Unanswered(w)
Begins(w) == Goes(w, "unborn", "open") /\ Unanswered(w)
GivenUp(w) == Goes(w, "open", "given_up") /\ Unanswered(w)
Succeeds(w) == kind[w] # "memory" /\ Goes(w, "open", "done") /\ Unanswered(w)
Answered(w) ==
    /\ kind[w] = "memory" /\ w \in sealed
    /\ Goes(w, "open", "done")
    /\ answers'[w] = answers[w] + 1
LateErasure(w) == kind[w] = "erasure" /\ Goes(w, "given_up", "done") /\ Unanswered(w)

\* the inputs of open work are sealed for good
Seals(w) == w \in sealed' \ sealed => kind[w] = "memory" /\ standing[w] = "open"

WorkNext ==
    /\ kind' = kind
    /\ standing' \in [Work -> Standing] /\ answers' \in [Work -> Nat]
    /\ sealed \subseteq sealed' /\ sealed' \subseteq Work
    /\ \A w \in Work :
        /\ Seals(w)
        /\ \/ Rests(w) \/ Begins(w) \/ GivenUp(w)
           \/ Succeeds(w) \/ Answered(w) \/ LateErasure(w)

WorkSpec == WorkInit /\ [][WorkNext]_workVars
=============================================================================
