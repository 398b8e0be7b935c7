---------------------------- MODULE CommandStream ----------------------------
(***************************************************************************)
(* What the control bot promises, whatever happens to its processes: the   *)
(* updates are handled one after the other in the order they were sent,    *)
(* each once; none is passed before it is handled; what was handled, and   *)
(* was not noise, is answered once at most; and the commands among them    *)
(* are executed once each, in that order.                                  *)
(***************************************************************************)
EXTENDS Naturals, Sequences

VARIABLES
    sent,       \* what the administrator sends: a sequence of kinds
    handled,    \* the updates that took effect
    passed,     \* how many updates are behind
    answered,   \* the updates that were answered
    waiting,    \* the commands that were recorded and not executed
    executed    \* the executed commands, in order

streamVars == <<sent, handled, passed, answered, waiting, executed>>

StreamInit ==
    /\ sent \in Seq({"command", "button", "noise"})
    /\ handled = {} /\ passed = 0 /\ answered = {}
    /\ waiting = {} /\ executed = <<>>

Earlier(u) == 1..(u - 1)

Handle(u) ==
    /\ u \notin handled /\ Earlier(u) \subseteq handled
    /\ handled' = handled \cup {u}
    /\ waiting' = IF sent[u] = "command" THEN waiting \cup {u} ELSE waiting
    /\ UNCHANGED <<sent, passed, answered, executed>>

Answer(u) ==
    /\ u \in handled \ answered /\ sent[u] # "noise"
    /\ answered' = answered \cup {u}
    /\ UNCHANGED <<sent, handled, passed, waiting, executed>>

Pass(u) ==
    /\ u = passed + 1 /\ u \in handled
    /\ passed' = u
    /\ UNCHANGED <<sent, handled, answered, waiting, executed>>

Execute(u) ==
    /\ u \in waiting /\ Earlier(u) \cap waiting = {}
    /\ waiting' = waiting \ {u}
    /\ executed' = Append(executed, u)
    /\ UNCHANGED <<sent, handled, passed, answered>>

StreamNext ==
    \E u \in 1..Len(sent) : Handle(u) \/ Answer(u) \/ Pass(u) \/ Execute(u)

StreamSpec == StreamInit /\ [][StreamNext]_streamVars
=============================================================================
