---------------------------- MODULE OrderedOutput ----------------------------
(***************************************************************************)
(* What outbound delivery promises, whatever happens to processes, leases  *)
(* and answers: the chunks of an output are released to Telegram one after *)
(* the other, the next one only when all earlier ones are visible to the   *)
(* contact, none after the output is closed (revoked or completed), and    *)
(* the contact sees only released chunks, each of them once.               *)
(***************************************************************************)
EXTENDS Naturals

CONSTANTS
    Output,    \* the outputs
    Chunk      \* pairs <<output, position>>

VARIABLES open, released, visible

outputVars == <<open, released, visible>>

Before(c) == {d \in Chunk : d[1] = c[1] /\ d[2] < c[2]}

OutputInit == open = Output /\ released = {} /\ visible = {}

Release(c) ==
    /\ c[1] \in open /\ c \notin released
    /\ Before(c) \subseteq visible
    /\ released' = released \union {c}
    /\ UNCHANGED <<open, visible>>

Appear(c) ==
    /\ c \in released \ visible
    /\ visible' = visible \union {c}
    /\ UNCHANGED <<open, released>>

Close(o) ==
    /\ o \in open
    /\ open' = open \ {o}
    /\ UNCHANGED <<released, visible>>

OutputNext ==
    \/ \E c \in Chunk : Release(c) \/ Appear(c)
    \/ \E o \in Output : Close(o)

OutputSpec == OutputInit /\ [][OutputNext]_outputVars
=============================================================================
