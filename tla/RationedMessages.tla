-------------------------- MODULE RationedMessages --------------------------
(***************************************************************************)
(* What the budgets of unasked messages promise, whatever happens to the   *)
(* processes that write and send them: a message takes a place in every    *)
(* ration it counts in before anything else, when each has one left; the   *)
(* place is given back, and then never taken again, or charged for good;   *)
(* the message leaves when it is charged, and leaves once.  The books are  *)
(* right at every step: they say what the messages stand at.               *)
(***************************************************************************)
EXTENDS Naturals

CONSTANTS
    Messages,
    Rations,
    CountedIn,   \* the rations a message counts in
    Limit,       \* the places of a ration
    SizeOf(_)    \* how many elements a set has

VARIABLES
    standing,    \* "none", "held", "charged" or "given back"
    left,        \* how often a message left
    books        \* for each ration the places held and charged

rationVars == <<standing, left, books>>

Places(s, r) == SizeOf({m \in Messages : standing[m] = s /\ r \in CountedIn[m]})

BooksAreRight ==
    books = [r \in Rations |-> [held |-> Places("held", r), charged |-> Places("charged", r)]]

RationInit ==
    /\ standing = [m \in Messages |-> "none"]
    /\ left = [m \in Messages |-> 0]
    /\ BooksAreRight

Take(m) ==
    /\ standing[m] = "none"
    /\ \A r \in CountedIn[m] : Places("held", r) + Places("charged", r) < Limit[r]
    /\ standing' = [standing EXCEPT ![m] = "held"]
    /\ UNCHANGED left

\* one transaction may give back several places
GiveBack(S) ==
    /\ \A m \in S : standing[m] = "held"
    /\ standing' = [m \in Messages |-> IF m \in S THEN "given back" ELSE standing[m]]
    /\ UNCHANGED left

Charge(m) ==
    /\ standing[m] = "held"
    /\ standing' = [standing EXCEPT ![m] = "charged"]
    /\ UNCHANGED left

Leave(m) ==
    /\ standing[m] = "charged" /\ left[m] = 0
    /\ left' = [left EXCEPT ![m] = 1]
    /\ UNCHANGED standing

\* a step moves messages, and the books with them
RationNext ==
    /\ <<standing, left>>' # <<standing, left>>
    /\ \/ \E m \in Messages : Take(m) \/ Charge(m) \/ Leave(m)
       \/ \E S \in SUBSET Messages : GiveBack(S)
    /\ BooksAreRight'

RationSpec == RationInit /\ [][RationNext]_rationVars
=============================================================================
