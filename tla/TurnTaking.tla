----------------------------- MODULE TurnTaking -----------------------------
(***************************************************************************)
(* What the automation promises in a conversation, whatever the contact,   *)
(* the account holder, the administrator and the failures of its processes *)
(* do: one turn gathers messages or thinks at a time, and one thinks or    *)
(* has its reply ready; a turn gathers what is current and unanswered and  *)
(* never comes back once it is over; a reply is offered by the turn that   *)
(* thought of it, once, and released once, while it is still wanted; the   *)
(* contact sees nothing else.  Whoever takes the permission or a message   *)
(* away ends all work and withdraws all offers in the same step.           *)
(***************************************************************************)
EXTENDS Naturals

CONSTANT Turns

VARIABLES
    \* --- the conversation ---
    mode,        \* changes whenever somebody commands, or answers himself
    permitted,   \* the automation may work
    current,     \* the messages as they stand
    answered,    \* messages up to this one have been answered
    \* --- the turns ---
    phase,       \* "absent", "gathering", "thinking", "ready", "over" or "answered"
    sources,     \* the messages a turn is about
    \* --- their replies ---
    offered, released, seen

talkVars == <<mode, permitted, current, answered, phase, sources, offered, released, seen>>

AtWork == {"gathering", "thinking", "ready"}

TalkInit ==
    /\ phase = [t \in Turns |-> "absent"]
    /\ offered = {} /\ released = {} /\ seen = {}

Rests(t) == phase'[t] = phase[t] /\ sources'[t] = sources[t]

Opens(t) ==
    /\ phase[t] = "absent" /\ phase'[t] = "gathering"
    /\ sources'[t] # {} /\ sources'[t] \subseteq current'
    /\ \A m \in sources'[t] : m > answered'
    /\ \A u \in Turns \ {t} : phase'[u] \notin {"gathering", "thinking"}

Gathers(t) ==
    /\ phase[t] = "gathering" /\ phase'[t] = "gathering"
    /\ sources[t] \subseteq sources'[t] /\ sources'[t] \subseteq current'

Thinks(t) ==
    /\ phase[t] = "gathering" /\ phase'[t] = "thinking" /\ sources'[t] = sources[t]
    /\ \A u \in Turns \ {t} : phase'[u] \notin {"thinking", "ready"}

\* the reply is offered: planned in the same step, and never before
Readies(t) ==
    /\ phase[t] = "thinking" /\ phase'[t] = "ready" /\ sources'[t] = sources[t]
    /\ t \notin offered \union released /\ t \in offered'

Ends(t) ==
    /\ phase[t] \in AtWork /\ phase'[t] = "over" /\ sources'[t] = sources[t]
    /\ t \notin offered'

\* also a turn that was over: its reply had been released by then
Answers(t) ==
    /\ phase[t] \in {"ready", "over"} /\ phase'[t] = "answered" /\ sources'[t] = sources[t]
    /\ t \in seen' /\ \A m \in sources[t] : m <= answered'

\* where a reply may be, and how it gets there
Replies ==
    /\ \A t \in offered' \ offered : Readies(t)
    /\ \A t \in released' \ released : /\ t \in offered /\ phase[t] = "ready"
                                       /\ permitted /\ sources[t] \subseteq current
    /\ released \subseteq released' /\ offered' \cap released' = {}
    /\ seen \subseteq seen' /\ seen' \subseteq released'

\* nobody has taken anything away
Undisturbed == mode' = mode /\ (permitted => permitted') /\ current \subseteq current'

AllEnded == offered' = {} /\ \A t \in Turns : phase'[t] \notin AtWork

\* one transaction may end a turn and open the next
TalkNext ==
    /\ \A t \in Turns : Rests(t) \/ Opens(t) \/ Gathers(t) \/ Thinks(t) \/ Readies(t)
                        \/ Ends(t) \/ Answers(t)
    /\ Replies
    /\ answered <= answered'
    /\ Undisturbed \/ AllEnded
    /\ \A t \in Turns : phase'[t] \in AtWork => permitted'

TalkSpec == TalkInit /\ [][TalkNext]_talkVars
=============================================================================
