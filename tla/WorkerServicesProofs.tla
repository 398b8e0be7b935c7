----------------------- MODULE WorkerServicesProofs -------------------------
(***************************************************************************)
(* Theorems about the services of `worker`: the budgets of proactive       *)
(* messages, and what holds of all services of the process.                *)
(***************************************************************************)
EXTENDS WorkerServices, MemoryProofs, FactsProofs, ErasureProofs, FiniteSetTheorems, TLAPS

-----------------------------------------------------------------------------
(***************************************************************************)
(* The budgets of proactive messages. A counter says how many places are   *)
(* held or charged in its budget, whatever publishers took, lost or gave   *)
(* back; so the invariant states it as the cardinality of a set of         *)
(* candidates, and that what has begun to be sent is charged.              *)
(***************************************************************************)

HeldPlaces == {c \in Candidates : Holds(c)}
ChargedPlaces == {c \in Candidates : Charged(c)}

\* The types of what the argument is about, and a publisher that works has a candidate.
BudgetShape ==
    /\ place \in [Candidates -> PlaceRow]
    /\ counter \in [Budgets -> Bucket]
    /\ target \in [Candidates -> TargetState]
    /\ departed \in [Candidates -> 0..2]
    /\ publisher \in [Publishers ->
         [step : {"off", "swept", "decide", "reserve", "write", "finish"},
          of : Candidates \cup {"nobody"}]]
    /\ \A p \in Publishers : publisher[p].step \notin {"off", "swept"} => publisher[p].of \in Candidates

\* The counters are those of the places.
CountersFollow ==
    \A b \in Budgets : /\ counter[b].held = InBudget(HeldPlaces, b)
                       /\ counter[b].charged = InBudget(ChargedPlaces, b)

WithinLimits == \A b \in Budgets : counter[b].held + counter[b].charged <= DailyLimit[b]

\* What began to be sent is charged, and only what is not sent again may have left.
ChargedBeforeSent ==
    \A c \in Candidates :
        /\ Started(c) => Charged(c)
        /\ departed[c] <= 1
        /\ departed[c] = 1 => target[c] \in {"sent", "unknown"}

BudgetInv == BudgetShape /\ CountersFollow /\ WithinLimits /\ ChargedBeforeSent

-----------------------------------------------------------------------------
(* Counting places *)

\* A set of candidates is finite, and so is what of it counts in a budget.
LEMMA InBudgetIsFinite ==
    ASSUME NEW S \in SUBSET Candidates, NEW b
    PROVE  IsFiniteSet({c \in S : b \in CountsIn[c]}) /\ InBudget(S, b) \in Nat
<1>1. IsFiniteSet(Candidates) BY BudgetConstants
<1>2. {c \in S : b \in CountsIn[c]} \subseteq Candidates OBVIOUS
<1>3. IsFiniteSet({c \in S : b \in CountsIn[c]}) BY <1>1, <1>2, FS_Subset
<1> QED BY <1>3, FS_CardinalityType DEF InBudget

\* Places given back are counted less.
LEMMA InBudgetOfTheRest ==
    ASSUME NEW H \in SUBSET Candidates, NEW S \in SUBSET H, NEW b
    PROVE  InBudget(H \ S, b) = InBudget(H, b) - InBudget(S, b)
<1> DEFINE A == {c \in H : b \in CountsIn[c]}
           B == {c \in S : b \in CountsIn[c]}
<1>1. IsFiniteSet(A) BY InBudgetIsFinite
<1>2. IsFiniteSet(B) BY InBudgetIsFinite
<1>3. A \cap B = B OBVIOUS
<1>4. {c \in H \ S : b \in CountsIn[c]} = A \ B OBVIOUS
<1>5. Cardinality(A \ B) = Cardinality(A) - Cardinality(A \cap B) BY <1>1, <1>2, FS_Difference
<1> QED BY <1>3, <1>4, <1>5 DEF InBudget

\* Places taken are counted more.
LEMMA InBudgetOfBoth ==
    ASSUME NEW H \in SUBSET Candidates, NEW S \in SUBSET Candidates, H \cap S = {}, NEW b
    PROVE  InBudget(H \cup S, b) = InBudget(H, b) + InBudget(S, b)
<1> DEFINE A == {c \in H : b \in CountsIn[c]}
           B == {c \in S : b \in CountsIn[c]}
<1>1. IsFiniteSet(A) BY InBudgetIsFinite
<1>2. IsFiniteSet(B) BY InBudgetIsFinite
<1>3. A \cap B = {} OBVIOUS
<1>4. {c \in H \cup S : b \in CountsIn[c]} = A \cup B OBVIOUS
<1>5. Cardinality(A \cup B) = Cardinality(A) + Cardinality(B) - Cardinality(A \cap B)
    BY <1>1, <1>2, FS_Union
<1>6. Cardinality(A \cap B) = 0 BY <1>3, FS_EmptySet
<1>7. Cardinality(A) \in Nat /\ Cardinality(B) \in Nat BY <1>1, <1>2, FS_CardinalityType
<1>8. InBudget(H \cup S, b) = Cardinality(A \cup B) BY <1>4 DEF InBudget
<1>9. InBudget(H, b) = Cardinality(A) /\ InBudget(S, b) = Cardinality(B) BY DEF InBudget
<1> QED BY <1>5, <1>6, <1>7, <1>8, <1>9

\* One place counts once, in its own budgets.
LEMMA InBudgetOfOne ==
    ASSUME NEW c \in Candidates, NEW b
    PROVE  InBudget({c}, b) = IF b \in CountsIn[c] THEN 1 ELSE 0
<1>1. CASE b \in CountsIn[c]
    <2>1. {d \in {c} : b \in CountsIn[d]} = {c} BY <1>1
    <2> QED BY <1>1, <2>1, FS_Singleton DEF InBudget
<1>2. CASE b \notin CountsIn[c]
    <2>1. {d \in {c} : b \in CountsIn[d]} = {} BY <1>2
    <2> QED BY <1>2, <2>1, FS_EmptySet DEF InBudget
<1> QED BY <1>1, <1>2

-----------------------------------------------------------------------------
(* What a step does to the places *)

\* A step that leaves the states of the places and the counters alone.
LEMMA CountersKept ==
    ASSUME CountersFollow, counter' = counter,
           \A c \in Candidates : place'[c].state = place[c].state
    PROVE  CountersFollow'
<1>1. HeldPlaces' = HeldPlaces BY DEF HeldPlaces, Holds
<1>2. ChargedPlaces' = ChargedPlaces BY DEF ChargedPlaces, Charged
<1> QED BY <1>1, <1>2 DEF CountersFollow, InBudget

\* What the rows and the counters are when the places in S leave the state they were held in.
LEMMA SettleRows ==
    ASSUME BudgetShape, NEW S \in SUBSET Candidates, NEW s \in {"send_unknown", "expired"},
           Settle(S, s)
    PROVE  /\ place' \in [Candidates -> PlaceRow]
           /\ \A c \in Candidates : place'[c].state = IF c \in S THEN s ELSE place[c].state
           /\ \A c \in Candidates : place'[c].bound = place[c].bound
           /\ DOMAIN counter' = Budgets /\ counter' = [b \in Budgets |-> counter'[b]]
           /\ \A b \in Budgets :
                counter'[b] = [held |-> counter[b].held - InBudget(S, b),
                               charged |-> counter[b].charged
                                             + (IF s = "send_unknown" THEN InBudget(S, b) ELSE 0)]
<1>1. \A c \in Candidates : /\ place[c] \in PlaceRow
                            /\ place'[c] = IF c \in S THEN [place[c] EXCEPT !.state = s] ELSE place[c]
    BY DEF Settle, BudgetShape
<1>2. \A c \in Candidates : place'[c] \in PlaceRow
    BY <1>1 DEF PlaceRow
<1>3. place' \in [Candidates -> PlaceRow] BY <1>2 DEF Settle
<1>4. \A c \in Candidates : place'[c].state = IF c \in S THEN s ELSE place[c].state
    BY <1>1 DEF PlaceRow
<1>5. ASSUME NEW c \in Candidates PROVE place'[c].bound = place[c].bound
    <2>1. place[c] \in PlaceRow BY <1>1
    <2>2. [place[c] EXCEPT !.state = s].bound = place[c].bound BY <2>1 DEF PlaceRow
    <2> QED BY <1>1, <2>2
<1>6. \A b \in Budgets :
        counter'[b] = [held |-> counter[b].held - InBudget(S, b),
                       charged |-> counter[b].charged
                                     + (IF s = "send_unknown" THEN InBudget(S, b) ELSE 0)]
    BY DEF Settle, InBudget
<1>7. counter' = [b \in Budgets |-> counter'[b]] BY DEF Settle
<1> QED BY <1>3, <1>4, <1>5, <1>6, <1>7

\* Held places that are charged, or given back, are no longer counted as held.
LEMMA SettleCounters ==
    ASSUME BudgetInv, NEW S \in SUBSET HeldPlaces, NEW s \in {"send_unknown", "expired"},
           Settle(S, s)
    PROVE  /\ place' \in [Candidates -> PlaceRow] /\ counter' \in [Budgets -> Bucket]
           /\ \A c \in Candidates : place'[c].state = IF c \in S THEN s ELSE place[c].state
           /\ CountersFollow' /\ WithinLimits'
<1> S \in SUBSET Candidates BY DEF HeldPlaces
<1>1. /\ place' \in [Candidates -> PlaceRow]
      /\ \A c \in Candidates : place'[c].state = IF c \in S THEN s ELSE place[c].state
      /\ counter' = [b \in Budgets |-> counter'[b]]
      /\ \A b \in Budgets :
                counter'[b] = [held |-> counter[b].held - InBudget(S, b),
                               charged |-> counter[b].charged
                                             + (IF s = "send_unknown" THEN InBudget(S, b) ELSE 0)]
    BY SettleRows DEF BudgetInv
<1>2. HeldPlaces' = HeldPlaces \ S
    BY <1>1 DEF HeldPlaces, Holds
<1>3. ChargedPlaces' = IF s = "send_unknown" THEN ChargedPlaces \cup S ELSE ChargedPlaces
    BY <1>1 DEF ChargedPlaces, Charged, HeldPlaces, Holds
<1>4. ASSUME NEW b \in Budgets
      PROVE  /\ counter'[b] \in Bucket
             /\ counter'[b].held = InBudget(HeldPlaces', b)
             /\ counter'[b].charged = InBudget(ChargedPlaces', b)
             /\ counter'[b].held + counter'[b].charged <= DailyLimit[b]
    <2> DEFINE h == InBudget(HeldPlaces, b)
               k == InBudget(ChargedPlaces, b)
               n == InBudget(S, b)
    <2>1. counter[b].held = h /\ counter[b].charged = k
        BY DEF BudgetInv, CountersFollow
    <2>2. h \in Nat /\ k \in Nat /\ n \in Nat
        BY InBudgetIsFinite DEF HeldPlaces, ChargedPlaces
    <2>3. InBudget(HeldPlaces \ S, b) = h - n /\ InBudget(HeldPlaces \ S, b) \in Nat
        <3>1. HeldPlaces \in SUBSET Candidates /\ HeldPlaces \ S \in SUBSET Candidates
            BY DEF HeldPlaces
        <3>2. InBudget(HeldPlaces \ S, b) = InBudget(HeldPlaces, b) - InBudget(S, b)
            BY <3>1, InBudgetOfTheRest
        <3>3. InBudget(HeldPlaces \ S, b) \in Nat BY <3>1, InBudgetIsFinite
        <3> QED BY <3>2, <3>3
    <2>4. HeldPlaces \subseteq Candidates /\ ChargedPlaces \subseteq Candidates
        BY DEF HeldPlaces, ChargedPlaces
    <2>5. ChargedPlaces \cap S = {}
        BY DEF HeldPlaces, ChargedPlaces, Holds, Charged
    <2>6. InBudget(ChargedPlaces \cup S, b) = k + n
        BY <2>4, <2>5, InBudgetOfBoth
    <2>7. h + k <= DailyLimit[b]
        BY <2>1 DEF BudgetInv, WithinLimits
    <2>8. DailyLimit[b] \in Nat BY BudgetConstants
    <2>9. /\ counter'[b].held = h - n
          /\ counter'[b].charged = IF s = "send_unknown" THEN k + n ELSE k
          /\ counter'[b] = [held |-> counter'[b].held, charged |-> counter'[b].charged]
        BY <1>1, <2>1, <2>2
    <2>10. InBudget(HeldPlaces', b) = h - n BY <1>2, <2>3 DEF InBudget
    <2>11. InBudget(ChargedPlaces', b) = IF s = "send_unknown" THEN k + n ELSE k
        BY <1>3, <2>6 DEF InBudget
    <2>12. counter'[b].held \in Nat /\ counter'[b].charged \in Nat
        <3> HIDE DEF h, k, n
        <3> QED BY <2>2, <2>3, <2>9
    <2>13. counter'[b] \in Bucket BY <2>9, <2>12 DEF Bucket
    <2>14. counter'[b].held + counter'[b].charged <= DailyLimit[b]
        <3> HIDE DEF h, k, n
        <3> QED BY <2>2, <2>3, <2>7, <2>8, <2>9
    <2> QED BY <2>9, <2>10, <2>11, <2>13, <2>14
<1>5. counter' \in [Budgets -> Bucket] BY <1>1, <1>4
<1>6. CountersFollow' BY <1>4 DEF CountersFollow, InBudget
<1>7. WithinLimits' BY <1>4 DEF WithinLimits
<1> QED BY <1>1, <1>5, <1>6, <1>7

-----------------------------------------------------------------------------
(* The steps *)

PublisherShape ==
    /\ publisher \in [Publishers ->
         [step : {"off", "swept", "decide", "reserve", "write", "finish"},
          of : Candidates \cup {"nobody"}]]
    /\ \A p \in Publishers : publisher[p].step \notin {"off", "swept"} => publisher[p].of \in Candidates

\* A publisher that stops keeps the shape.
LEMMA DropKeepsShape ==
    ASSUME PublisherShape, NEW p \in Publishers, Drop(p)
    PROVE  PublisherShape'
BY DEF PublisherShape, Drop, Off

\* So does one that goes on with its candidate, or has swept.
LEMMA TurnKeepsShape ==
    ASSUME PublisherShape, NEW p \in Publishers,
           NEW s \in {"swept", "decide", "reserve", "write", "finish"}, Turn(p, s),
           s # "swept" => publisher[p].of \in Candidates
    PROVE  PublisherShape'
<1>1. publisher' \in [Publishers ->
         [step : {"off", "swept", "decide", "reserve", "write", "finish"},
          of : Candidates \cup {"nobody"}]]
    BY DEF PublisherShape, Turn
<1>2. \A q \in Publishers : publisher'[q].of = publisher[q].of
                         /\ publisher'[q].step = IF q = p THEN s ELSE publisher[q].step
    BY DEF PublisherShape, Turn
<1> QED BY <1>1, <1>2 DEF PublisherShape

\* Nothing but the publishers and their jobs changes.
LEMMA AppKept ==
    ASSUME BudgetInv, UNCHANGED app, PublisherShape'
    PROVE  BudgetInv'
<1>1. BudgetShape' BY DEF BudgetInv, BudgetShape, PublisherShape, app
<1>2. CountersFollow' BY CountersKept DEF BudgetInv, app
<1>3. WithinLimits' BY DEF BudgetInv, WithinLimits, app
<1>4. ChargedBeforeSent' BY DEF BudgetInv, ChargedBeforeSent, Started, Charged, app
<1> QED BY <1>1, <1>2, <1>3, <1>4 DEF BudgetInv

LEMMA ShapeOfInv == ASSUME BudgetInv PROVE PublisherShape
BY DEF BudgetInv, BudgetShape, PublisherShape

LEMMA SweepKeeps == ASSUME BudgetInv, NEW p \in Publishers, Sweep(p) PROVE BudgetInv'
<1> DEFINE over == {c \in Candidates : Holds(c) /\ ~Deadline(c)}
           ended == {c \in over : Expirable(c)}
           S == {c \in over : c \in ended \/ Releasable(c)}
<1>1. S \in SUBSET HeldPlaces BY DEF HeldPlaces
<1>2. /\ Settle(S, "expired") /\ Turn(p, "swept")
      /\ departed' = departed
      /\ target' = [c \in Candidates |->
            IF c \notin ended THEN target[c]
            ELSE IF target[c] = "planned" THEN "cancelled" ELSE "ended"]
    BY DEF Sweep
<1> HIDE DEF S
<1>3. /\ place' \in [Candidates -> PlaceRow] /\ counter' \in [Budgets -> Bucket]
      /\ \A c \in Candidates : place'[c].state = IF c \in S THEN "expired" ELSE place[c].state
      /\ CountersFollow' /\ WithinLimits'
    BY <1>1, <1>2, SettleCounters
<1>4. PublisherShape' BY <1>2, ShapeOfInv, TurnKeepsShape
<1>5. \A c \in Candidates :
        /\ target'[c] \in TargetState
        /\ Started(c)' => Started(c) /\ target'[c] = target[c]
        /\ target[c] \in {"sent", "unknown"} => target'[c] = target[c]
    BY <1>2 DEF Expirable, Started, BudgetInv, BudgetShape, TargetState
<1>6. target' \in [Candidates -> TargetState] BY <1>2, <1>5
<1>7. BudgetShape' BY <1>2, <1>3, <1>4, <1>6 DEF BudgetInv, BudgetShape, PublisherShape
<1>8. \A c \in Candidates : Charged(c) => Charged(c)'
    BY <1>1, <1>3 DEF Charged, HeldPlaces, Holds
<1>9. ChargedBeforeSent' BY <1>2, <1>5, <1>8 DEF BudgetInv, ChargedBeforeSent
<1> QED BY <1>3, <1>7, <1>9 DEF BudgetInv

LEMMA ReserveKeeps == ASSUME BudgetInv, NEW p \in Publishers, ReserveBudget(p) PROVE BudgetInv'
<1> DEFINE c == publisher[p].of
<1>1. publisher[p].step = "reserve" /\ Turn(p, "write") /\ target' = target /\ departed' = departed
    BY DEF ReserveBudget
<1>2. c \in Candidates BY <1>1 DEF BudgetInv, BudgetShape
<1>3. PublisherShape' BY <1>1, <1>2, ShapeOfInv, TurnKeepsShape
<1>4. CASE UNCHANGED <<place, counter>>
    BY <1>1, <1>3, <1>4, AppKept DEF app
<1>5. CASE /\ place[c].state = "none" /\ HasRoom(c)
           /\ place' = [place EXCEPT ![c] = [state |-> "held", fresh |-> TRUE, bound |-> FALSE]]
           /\ counter' = [b \in Budgets |->
                IF b \in CountsIn[c] THEN [counter[b] EXCEPT !.held = @ + 1] ELSE counter[b]]
    <2> HIDE DEF c
    <2>1. /\ place' \in [Candidates -> PlaceRow]
          /\ \A d \in Candidates : place'[d].state = IF d = c THEN "held" ELSE place[d].state
        BY <1>2, <1>5 DEF BudgetInv, BudgetShape, PlaceRow
    <2>2. HeldPlaces' = HeldPlaces \cup {c} /\ ChargedPlaces' = ChargedPlaces
        BY <1>2, <1>5, <2>1 DEF HeldPlaces, ChargedPlaces, Holds, Charged
    <2>3. HeldPlaces \cap {c} = {} /\ HeldPlaces \subseteq Candidates
        BY <1>5 DEF HeldPlaces, Holds
    <2>4. ASSUME NEW b \in Budgets
          PROVE  /\ counter'[b] \in Bucket
                 /\ counter'[b].held = InBudget(HeldPlaces', b)
                 /\ counter'[b].charged = InBudget(ChargedPlaces', b)
                 /\ counter'[b].held + counter'[b].charged <= DailyLimit[b]
        <3>1. counter[b] \in Bucket BY DEF BudgetInv, BudgetShape
        <3>2. counter[b].held \in Nat /\ counter[b].charged \in Nat BY <3>1 DEF Bucket
        <3>3. counter'[b] = IF b \in CountsIn[c] THEN [counter[b] EXCEPT !.held = @ + 1] ELSE counter[b]
            BY <1>5
        <3>4. counter'[b].charged = counter[b].charged BY <3>1, <3>3 DEF Bucket
        <3>5. counter'[b].held = counter[b].held + (IF b \in CountsIn[c] THEN 1 ELSE 0)
            BY <3>1, <3>2, <3>3 DEF Bucket
        <3>6. counter'[b] \in Bucket
            <4>1. counter[b].held + 1 \in Nat BY <3>2
            <4> QED BY <3>1, <3>3, <4>1 DEF Bucket
        <3>7. InBudget({c}, b) = IF b \in CountsIn[c] THEN 1 ELSE 0 BY <1>2, InBudgetOfOne
        <3>8. InBudget(HeldPlaces \cup {c}, b) = InBudget(HeldPlaces, b) + InBudget({c}, b)
            BY <1>2, <2>3, InBudgetOfBoth
        <3>9. counter[b].held = InBudget(HeldPlaces, b) /\ counter[b].charged = InBudget(ChargedPlaces, b)
            BY DEF BudgetInv, CountersFollow
        <3>10. counter'[b].held = InBudget(HeldPlaces', b)
            BY <2>2, <3>5, <3>7, <3>8, <3>9 DEF InBudget
        <3>11. counter'[b].charged = InBudget(ChargedPlaces', b)
            BY <2>2, <3>4, <3>9 DEF InBudget
        <3>12. counter[b].held + counter[b].charged <= DailyLimit[b] BY DEF BudgetInv, WithinLimits
        <3>13. b \in CountsIn[c] => counter[b].held + counter[b].charged < DailyLimit[b]
            BY <1>5 DEF HasRoom
        <3>14. DailyLimit[b] \in Nat BY BudgetConstants
        <3>15. counter'[b].held + counter'[b].charged <= DailyLimit[b]
            BY <3>2, <3>4, <3>5, <3>12, <3>13, <3>14
        <3> QED BY <3>6, <3>10, <3>11, <3>15
    <2>5. counter' \in [Budgets -> Bucket] BY <1>5, <2>4
    <2>6. CountersFollow' BY <2>4 DEF CountersFollow, InBudget
    <2>7. WithinLimits' BY <2>4 DEF WithinLimits
    <2>8. BudgetShape' BY <1>1, <1>3, <2>1, <2>5 DEF BudgetInv, BudgetShape, PublisherShape
    <2>9. \A d \in Candidates : Charged(d) => Charged(d)' BY <1>5, <2>1 DEF Charged
    <2>10. ChargedBeforeSent' BY <1>1, <2>9 DEF BudgetInv, ChargedBeforeSent, Started
    <2> QED BY <2>6, <2>7, <2>8, <2>10 DEF BudgetInv
<1> QED BY <1>4, <1>5 DEF ReserveBudget

LEMMA PublishKeeps == ASSUME BudgetInv, NEW p \in Publishers, Publish(p) PROVE BudgetInv'
<1> DEFINE c == publisher[p].of
<1>1. /\ publisher[p].step = "write" /\ CanPublish(c) /\ Drop(p)
      /\ counter' = counter /\ departed' = departed
      /\ target' = [target EXCEPT ![c] = IF c \in Drafted THEN "draft" ELSE "planned"]
      /\ place' = [place EXCEPT ![c].bound = TRUE]
    BY DEF Publish, BindTarget
<1>2. c \in Candidates BY <1>1 DEF BudgetInv, BudgetShape
<1> HIDE DEF c
<1>3. PublisherShape' BY <1>1, ShapeOfInv, DropKeepsShape
<1>4. /\ place' \in [Candidates -> PlaceRow]
      /\ \A d \in Candidates : place'[d].state = place[d].state
    <2> DEFINE new == [place[c] EXCEPT !.bound = TRUE]
    <2>1. place \in [Candidates -> PlaceRow] /\ place' = [place EXCEPT ![c] = new]
        BY <1>1 DEF BudgetInv, BudgetShape
    <2>2. new \in PlaceRow /\ new.state = place[c].state BY <1>2, <2>1 DEF PlaceRow
    <2> HIDE DEF new
    <2> QED BY <1>2, <2>1, <2>2
<1>5. target' \in [Candidates -> TargetState]
    BY <1>1, <1>2 DEF BudgetInv, BudgetShape, TargetState
<1>6. ~Charged(c) BY <1>1 DEF CanPublish, Holds, Charged
<1>7. departed[c] # 1
    BY <1>2, <1>6 DEF BudgetInv, ChargedBeforeSent, Started
<1>8. ChargedBeforeSent'
    BY <1>1, <1>2, <1>4, <1>5, <1>7 DEF BudgetInv, BudgetShape, ChargedBeforeSent, Started, Charged
<1>9. CountersFollow' BY <1>1, <1>4, CountersKept DEF BudgetInv
<1>10. WithinLimits' BY <1>1 DEF BudgetInv, WithinLimits
<1>11. BudgetShape' BY <1>1, <1>3, <1>4, <1>5 DEF BudgetInv, BudgetShape, PublisherShape
<1> QED BY <1>8, <1>9, <1>10, <1>11 DEF BudgetInv

\* The places are left alone, and the message is: none of those that began to be sent, or one that
\* has been charged.
LEMMA TargetMoves ==
    ASSUME BudgetInv, UNCHANGED <<place, counter, publisher>>, NEW c \in Candidates,
           NEW s \in TargetState, target' = [target EXCEPT ![c] = s],
           NEW n \in 0..1, departed' = [departed EXCEPT ![c] = n],
           s \in {"sending", "again", "sent", "unknown", "partial"} => Charged(c),
           n = 1 => s \in {"sent", "unknown"}
    PROVE  BudgetInv'
<1>1. target' \in [Candidates -> TargetState] /\ departed' \in [Candidates -> 0..2]
    BY DEF BudgetInv, BudgetShape
<1>2. BudgetShape' BY <1>1 DEF BudgetInv, BudgetShape
<1>3. CountersFollow' BY CountersKept DEF BudgetInv
<1>4. WithinLimits' BY DEF BudgetInv, WithinLimits
<1>5. ChargedBeforeSent'
    BY DEF BudgetInv, BudgetShape, ChargedBeforeSent, Started, Charged
<1> QED BY <1>2, <1>3, <1>4, <1>5 DEF BudgetInv

\* What has not left, or may not be asked again, stays as it is.
LEMMA NotDeparted ==
    ASSUME BudgetInv, NEW c \in Candidates, target[c] \notin {"sent", "unknown"}
    PROVE  departed[c] = 0 /\ departed = [departed EXCEPT ![c] = 0]
<1>1. departed[c] \in 0..2 /\ departed[c] <= 1 /\ departed[c] # 1 /\ departed \in [Candidates -> 0..2]
    BY DEF BudgetInv, BudgetShape, ChargedBeforeSent
<1>2. departed[c] = 0 BY <1>1
<1> QED BY <1>1, <1>2

\* The same, of a message that has not left.
LEMMA UnsentTargetMoves ==
    ASSUME BudgetInv, UNCHANGED <<place, counter, publisher, departed>>, NEW c \in Candidates,
           target[c] \notin {"sent", "unknown"},
           NEW s \in TargetState, target' = [target EXCEPT ![c] = s],
           s \in {"sending", "again", "sent", "unknown", "partial"} => Charged(c)
    PROVE  BudgetInv'
<1>1. departed' = [departed EXCEPT ![c] = 0] BY NotDeparted
<1>2. 0 \in 0..1 /\ (0 = 1 => s \in {"sent", "unknown"}) OBVIOUS
<1>3. UNCHANGED <<place, counter, publisher>> OBVIOUS
<1> QED BY <1>1, <1>2, <1>3, TargetMoves

LEMMA PreflightKeeps == ASSUME BudgetInv, NEW c \in Candidates, PreflightIntent(c) PROVE BudgetInv'
<1>1. target[c] \in {"planned", "again"} /\ departed' = departed /\ publisher' = publisher
    BY DEF PreflightIntent, worker
<1>2. departed[c] = 0 /\ departed' = [departed EXCEPT ![c] = 0]
    BY <1>1, NotDeparted
<1>3. CASE Authorized(c) /\ Holds(c)
    <2>1. Settle({c}, "send_unknown") /\ target' = [target EXCEPT ![c] = "sending"]
        BY <1>3 DEF PreflightIntent
    <2>2. {c} \in SUBSET HeldPlaces BY <1>3 DEF HeldPlaces
    <2>3. /\ place' \in [Candidates -> PlaceRow] /\ counter' \in [Budgets -> Bucket]
          /\ \A d \in Candidates : place'[d].state = IF d \in {c} THEN "send_unknown" ELSE place[d].state
          /\ CountersFollow' /\ WithinLimits'
        BY <2>1, <2>2, SettleCounters
    <2>4. target' \in [Candidates -> TargetState]
        BY <2>1 DEF BudgetInv, BudgetShape, TargetState
    <2>5. BudgetShape' BY <1>1, <2>3, <2>4 DEF BudgetInv, BudgetShape
    <2>6. ChargedBeforeSent'
        BY <1>1, <1>2, <2>1, <2>3 DEF BudgetInv, BudgetShape, ChargedBeforeSent, Started, Charged
    <2> QED BY <2>3, <2>5, <2>6 DEF BudgetInv
<1>4. CASE Authorized(c) /\ ~Holds(c)
    <2>1. UNCHANGED <<place, counter>> /\ target' = [target EXCEPT ![c] = "sending"]
        BY <1>4 DEF PreflightIntent
    <2>2. Charged(c) BY <1>4 DEF Authorized
    <2>3. "sending" \in TargetState BY DEF TargetState
    <2> QED BY <1>1, <2>1, <2>2, <2>3, UnsentTargetMoves
<1>5. CASE ~Authorized(c)
    <2> DEFINE s == IF Started(c) THEN "partial" ELSE "cancelled"
    <2>1. UNCHANGED <<place, counter>> /\ target' = [target EXCEPT ![c] = s]
        BY <1>5 DEF PreflightIntent
    <2>2. s \in TargetState BY DEF TargetState
    <2>3. s \in {"sending", "again", "sent", "unknown", "partial"} => Charged(c)
        BY DEF BudgetInv, ChargedBeforeSent
    <2> HIDE DEF s
    <2> QED BY <1>1, <2>1, <2>2, <2>3, UnsentTargetMoves
<1> QED BY <1>3, <1>4, <1>5

LEMMA SendKeeps == ASSUME BudgetInv, NEW c \in Candidates, SendMessage(c) PROVE BudgetInv'
<1>1. target[c] = "sending" /\ UNCHANGED <<place, counter, publisher>> BY DEF SendMessage, worker
<1>2. departed[c] = 0 BY <1>1, NotDeparted
<1>3. Charged(c) BY <1>1 DEF BudgetInv, ChargedBeforeSent, Started
<1>4. PICK outcome \in {"sent", "unknown", "again"}, leaves \in BOOLEAN :
        /\ outcome = "again" => ~leaves
        /\ target' = [target EXCEPT ![c] = outcome]
        /\ departed' = [departed EXCEPT ![c] = IF leaves THEN @ + 1 ELSE @]
    BY DEF SendMessage
<1> DEFINE n == IF leaves THEN 1 ELSE 0
<1>5. departed' = [departed EXCEPT ![c] = n]
    BY <1>2, <1>4 DEF BudgetInv, BudgetShape
<1>6. n \in 0..1 /\ (n = 1 => outcome \in {"sent", "unknown"}) BY <1>4
<1>7. outcome \in TargetState BY DEF TargetState
<1> HIDE DEF n
<1> QED BY <1>1, <1>3, <1>4, <1>5, <1>6, <1>7, TargetMoves

LEMMA DraftKeeps ==
    ASSUME BudgetInv, NEW c \in Candidates, ApproveDraft(c) \/ IgnoreDraft(c)
    PROVE  BudgetInv'
<1>1. PICK s \in {"planned", "ended"} :
        /\ target[c] = "draft" /\ UNCHANGED <<place, counter, publisher, departed>>
        /\ target' = [target EXCEPT ![c] = s]
    BY DEF ApproveDraft, IgnoreDraft, worker
<1>2. s \in TargetState BY DEF TargetState
<1> QED BY <1>1, <1>2, UnsentTargetMoves

LEMMA InvalidateKeeps == ASSUME BudgetInv, NEW c \in Candidates, InvalidatePreSend(c) PROVE BudgetInv'
<1> DEFINE s == CASE target[c] = "planned" -> "cancelled" [] target[c] = "draft" -> "ended"
                  [] OTHER -> target[c]
<1>1. UNCHANGED <<place, counter, publisher, departed>> /\ target' = [target EXCEPT ![c] = s]
    BY DEF InvalidatePreSend, worker, BudgetInv, BudgetShape
<1>2. target[c] \in TargetState /\ departed[c] \in 0..2 /\ departed \in [Candidates -> 0..2]
    BY DEF BudgetInv, BudgetShape
<1>3. s \in TargetState BY <1>2 DEF TargetState
<1>4. /\ s \in {"sending", "again", "sent", "unknown", "partial"} => Charged(c)
      /\ departed[c] = 1 => s \in {"sent", "unknown"}
    BY DEF BudgetInv, ChargedBeforeSent, Started
<1>5. departed[c] \in 0..1 BY <1>2 DEF BudgetInv, ChargedBeforeSent
<1>6. departed' = [departed EXCEPT ![c] = departed[c]] BY <1>1, <1>2
<1> HIDE DEF s
<1> QED BY <1>1, <1>3, <1>4, <1>5, <1>6, TargetMoves

LEMMA PlaceEndsKeeps == ASSUME BudgetInv, NEW c \in Candidates, PlaceEnds(c) PROVE BudgetInv'
<1>1. /\ place' \in [Candidates -> PlaceRow]
      /\ \A d \in Candidates : place'[d].state = place[d].state
    BY DEF PlaceEnds, BudgetInv, BudgetShape, PlaceRow
<1>2. UNCHANGED <<counter, target, departed, publisher>> BY DEF PlaceEnds, worker
<1>3. BudgetShape' BY <1>1, <1>2 DEF BudgetInv, BudgetShape
<1>4. CountersFollow' BY <1>1, <1>2, CountersKept DEF BudgetInv
<1>5. WithinLimits' BY <1>2 DEF BudgetInv, WithinLimits
<1>6. ChargedBeforeSent' BY <1>1, <1>2 DEF BudgetInv, ChargedBeforeSent, Started, Charged
<1> QED BY <1>3, <1>4, <1>5, <1>6 DEF BudgetInv

\* The passes of a publisher that touch no place.
LEMMA PublisherOnly ==
    ASSUME BudgetInv, NEW p \in Publishers,
           \/ NothingDue(p) \/ RecordDecision(p) \/ Refused(p) \/ LeaseLost(p) \/ ModelFails(p)
           \/ CompleteJob(p) \/ PublisherCrashes(p) \/ \E c \in Candidates : ClaimNext(p, c)
    PROVE  BudgetInv'
<1> PublisherShape BY ShapeOfInv
<1>1. UNCHANGED app
    BY DEF NothingDue, RecordDecision, Refused, LeaseLost, ModelFails, CompleteJob,
           PublisherCrashes, ClaimNext, Fail
<1>2. ASSUME RecordDecision(p) PROVE PublisherShape'
    <2>1. publisher[p].of \in Candidates BY <1>2 DEF RecordDecision, PublisherShape
    <2>2. Drop(p) \/ Turn(p, "reserve") \/ Turn(p, "finish")
        BY <1>2 DEF RecordDecision
    <2> QED BY <2>1, <2>2, DropKeepsShape, TurnKeepsShape
<1>3. ASSUME NEW c \in Candidates, ClaimNext(p, c) PROVE PublisherShape'
    <2>1. publisher' = [publisher EXCEPT ![p] = [step |-> Begins(c), of |-> c]] BY <1>3 DEF ClaimNext
    <2>2. Begins(c) \in {"decide", "reserve", "finish"} BY DEF Begins
    <2> QED BY <2>1, <2>2 DEF PublisherShape
<1>4. NothingDue(p) \/ Refused(p) \/ LeaseLost(p) \/ ModelFails(p) \/ CompleteJob(p)
        \/ PublisherCrashes(p) => Drop(p)
    BY DEF NothingDue, Refused, LeaseLost, ModelFails, CompleteJob, PublisherCrashes, Fail
<1>5. PublisherShape' BY <1>2, <1>3, <1>4, DropKeepsShape
<1> QED BY <1>1, <1>5, AppKept

LEMMA BudgetInvInit == BudgetInit => BudgetInv
<1> SUFFICES ASSUME BudgetInit PROVE BudgetInv OBVIOUS
<1>1. BudgetShape
    BY DEF BudgetInit, BudgetShape, PlaceRow, Bucket, TargetState, Off
<1>2. HeldPlaces = {} /\ ChargedPlaces = {}
    BY DEF BudgetInit, HeldPlaces, ChargedPlaces, Holds, Charged
<1>3. \A b : {c \in {} : b \in CountsIn[c]} = {} OBVIOUS
<1>4. \A b : InBudget({}, b) = 0 BY <1>3, FS_EmptySet DEF InBudget
<1>5. CountersFollow BY <1>2, <1>4 DEF BudgetInit, CountersFollow
<1>6. WithinLimits BY BudgetConstants DEF BudgetInit, WithinLimits
<1>7. ChargedBeforeSent BY DEF BudgetInit, ChargedBeforeSent, Started
<1> QED BY <1>1, <1>5, <1>6, <1>7 DEF BudgetInv

LEMMA BudgetInvStep == BudgetInv /\ [BudgetNext]_budgetVars => BudgetInv'
<1> SUFFICES ASSUME BudgetInv, [BudgetNext]_budgetVars PROVE BudgetInv' OBVIOUS
<1>1. ASSUME NEW p \in Publishers, PublisherStep(p) \/ PublisherCrashes(p) PROVE BudgetInv'
    BY <1>1, SweepKeeps, ReserveKeeps, PublishKeeps, PublisherOnly DEF PublisherStep
<1>2. ASSUME NEW c \in Candidates, TargetStep(c) PROVE BudgetInv'
    BY <1>2, PreflightKeeps, SendKeeps, DraftKeeps DEF TargetStep
<1>3. ASSUME NEW c \in Candidates, TimePasses(c) PROVE BudgetInv'
    <2>1. CASE PlaceEnds(c) BY <2>1, PlaceEndsKeeps
    <2>2. CASE WindowEnds(c) \/ DeferEnds(c) \/ DueLeaseEnds(c)
        <3>1. UNCHANGED <<app, publisher>> BY <2>2 DEF WindowEnds, DeferEnds, DueLeaseEnds, worker
        <3>2. PublisherShape' BY <3>1, ShapeOfInv DEF PublisherShape
        <3> QED BY <3>1, <3>2, AppKept
    <2> QED BY <1>3, <2>1, <2>2 DEF TimePasses
<1>4. CASE UNCHANGED budgetVars
    <2>1. UNCHANGED <<app, publisher>> BY <1>4 DEF budgetVars, app
    <2>2. PublisherShape' BY <2>1, ShapeOfInv DEF PublisherShape
    <2> QED BY <2>1, <2>2, AppKept
<1> QED BY <1>1, <1>2, <1>3, <1>4, InvalidateKeeps DEF BudgetNext

LEMMA BudgetInvImplies == BudgetInv => BudgetHonoured
<1> SUFFICES ASSUME BudgetInv PROVE BudgetHonoured OBVIOUS
<1>1. \A b \in Budgets :
        /\ counter[b].held = InBudget({c \in Candidates : Holds(c)}, b)
        /\ counter[b].charged = InBudget({c \in Candidates : Charged(c)}, b)
        /\ counter[b].held + counter[b].charged <= DailyLimit[b]
    BY DEF BudgetInv, CountersFollow, WithinLimits, HeldPlaces, ChargedPlaces
<1>2. \A c \in Candidates :
        /\ Started(c) => Charged(c)
        /\ departed[c] <= 1 /\ (departed[c] = 1 => Started(c))
    BY DEF BudgetInv, ChargedBeforeSent, Started
<1> QED BY <1>1, <1>2 DEF BudgetHonoured

\* Fairness plays no part in it, so it holds where the service is one of several too.
LEMMA BudgetSafely == BudgetInit /\ [][BudgetNext]_budgetVars => []BudgetHonoured
<1>1. BudgetInv /\ [][BudgetNext]_budgetVars => []BudgetInv
    BY BudgetInvStep, PTL
<1> QED BY <1>1, BudgetInvInit, BudgetInvImplies, PTL

\* For any number of publishers, candidates, budgets and limits: no budget is exceeded, its counters
\* are those of its places, and every message that left was charged once and left once.
THEOREM BudgetSpecBudgetHonoured == BudgetSpec => []BudgetHonoured
BY BudgetSafely, PTL DEF BudgetSpec

-----------------------------------------------------------------------------
(***************************************************************************)
(* Messages are rationed.  What a candidate stands at is what its place    *)
(* says, because only what is charged has begun to be sent and all of it   *)
(* has; so a step of the budgets takes a place, gives some back, charges   *)
(* one, sends what is charged, or is not seen.                             *)
(***************************************************************************)

ChargedIsStarted == \A c \in Candidates : Charged(c) => Started(c)

RationInv == BudgetInv /\ ChargedIsStarted

\* The places stay, and no message leaves.
PlacesRest ==
    /\ \A c \in Candidates : place'[c].state = place[c].state
    /\ departed' = departed

\* What one step does to the places and the messages.
PlacesMove ==
    \/ PlacesRest
    \/ \E c \in Candidates :
        /\ departed' = departed
        /\ \A d \in Candidates : d # c => place'[d].state = place[d].state
        /\ \/ place[c].state = "none" /\ HasRoom(c) /\ place'[c].state = "held"
           \/ place[c].state = "held" /\ place'[c].state = "send_unknown"
    \/ \E S \in SUBSET HeldPlaces :
        /\ departed' = departed
        /\ \A d \in Candidates : place'[d].state = IF d \in S THEN "expired" ELSE place[d].state
    \/ \E c \in Candidates :
        /\ \A d \in Candidates : place'[d].state = place[d].state
        /\ Charged(c) /\ departed[c] = 0 /\ departed' = [departed EXCEPT ![c] = 1]

-----------------------------------------------------------------------------
(* What begins to be sent is charged, and the other way round *)

\* A step that charges nothing and ends nothing that has begun to be sent.
LEMMA NothingCharged ==
    ASSUME ChargedIsStarted,
           \A c \in Candidates : Charged(c)' => Charged(c),
           \A c \in Candidates : Started(c) => Started(c)'
    PROVE  ChargedIsStarted'
BY DEF ChargedIsStarted

\* A step that leaves the places and what is sent alone.
LEMMA AppRests ==
    ASSUME RationInv, UNCHANGED app
    PROVE  PlacesMove /\ ChargedIsStarted'
<1>1. PlacesMove BY DEF app, PlacesMove, PlacesRest
<1>2. ChargedIsStarted' BY DEF app, RationInv, ChargedIsStarted, Charged, Started
<1> QED BY <1>1, <1>2

LEMMA SweepMoves ==
    ASSUME RationInv, NEW p \in Publishers, Sweep(p)
    PROVE  PlacesMove /\ ChargedIsStarted'
<1> DEFINE over == {c \in Candidates : Holds(c) /\ ~Deadline(c)}
           ended == {c \in over : Expirable(c)}
           S == {c \in over : c \in ended \/ Releasable(c)}
<1>1. S \in SUBSET HeldPlaces BY DEF HeldPlaces
<1>2. Settle(S, "expired") /\ departed' = departed BY DEF Sweep
<1>3. \A c \in Candidates : target'[c] = IF c \notin ended THEN target[c]
            ELSE IF target[c] = "planned" THEN "cancelled" ELSE "ended"
    BY DEF Sweep
<1>4. \A c \in Candidates : Started(c) => Started(c)'
    BY <1>3 DEF Expirable, Started
<1> HIDE DEF S
<1>5. \A c \in Candidates : place'[c].state = IF c \in S THEN "expired" ELSE place[c].state
    BY <1>1, <1>2, SettleCounters DEF RationInv
<1>6. PlacesMove BY <1>1, <1>2, <1>5 DEF PlacesMove
<1>7. \A c \in Candidates : Charged(c)' => Charged(c) BY <1>5 DEF Charged
<1> QED BY <1>4, <1>6, <1>7, NothingCharged DEF RationInv

LEMMA ReserveMoves ==
    ASSUME RationInv, NEW p \in Publishers, ReserveBudget(p)
    PROVE  PlacesMove /\ ChargedIsStarted'
<1> DEFINE c == publisher[p].of
<1>1. c \in Candidates /\ place \in [Candidates -> PlaceRow]
    BY DEF RationInv, BudgetInv, BudgetShape, ReserveBudget
<1>2. UNCHANGED <<target, departed>> BY DEF ReserveBudget
<1>3. CASE UNCHANGED <<place, counter>>
    BY <1>2, <1>3, AppRests DEF app
<1>4. CASE /\ place[c].state = "none" /\ HasRoom(c)
           /\ place' = [place EXCEPT ![c] = [state |-> "held", fresh |-> TRUE, bound |-> FALSE]]
    <2> HIDE DEF c
    <2>1. \A d \in Candidates : place'[d].state = IF d = c THEN "held" ELSE place[d].state
        BY <1>1, <1>4
    <2>2. PlacesMove BY <1>1, <1>2, <1>4, <2>1 DEF PlacesMove
    <2>3. \A d \in Candidates : Charged(d)' => Charged(d) BY <2>1 DEF Charged
    <2>4. \A d \in Candidates : Started(d) => Started(d)' BY <1>2 DEF Started
    <2> QED BY <2>2, <2>3, <2>4, NothingCharged DEF RationInv
<1> QED BY <1>3, <1>4 DEF ReserveBudget

LEMMA PublishMoves ==
    ASSUME RationInv, NEW p \in Publishers, Publish(p)
    PROVE  PlacesMove /\ ChargedIsStarted'
<1> DEFINE c == publisher[p].of
           s == IF c \in Drafted THEN "draft" ELSE "planned"
<1>1. /\ c \in Candidates /\ place \in [Candidates -> PlaceRow]
      /\ target \in [Candidates -> TargetState]
    BY DEF RationInv, BudgetInv, BudgetShape, Publish
<1>2. /\ CanPublish(c) /\ departed' = departed
      /\ target' = [target EXCEPT ![c] = s]
      /\ place' = [place EXCEPT ![c].bound = TRUE]
    BY DEF Publish, BindTarget
<1>3. ~Started(c)
    BY <1>1, <1>2 DEF RationInv, BudgetInv, ChargedBeforeSent, CanPublish, Holds, Charged
<1> HIDE DEF c, s
<1>4. \A d \in Candidates : place'[d].state = place[d].state
    <2> DEFINE new == [place[c] EXCEPT !.bound = TRUE]
    <2>1. place' = [place EXCEPT ![c] = new] BY <1>1, <1>2
    <2>2. new.state = place[c].state BY <1>1 DEF PlaceRow
    <2> HIDE DEF new
    <2> QED BY <1>1, <2>1, <2>2
<1>5. PlacesMove BY <1>2, <1>4 DEF PlacesMove, PlacesRest
<1>6. \A d \in Candidates : Charged(d)' => Charged(d) BY <1>4 DEF Charged
<1>7. \A d \in Candidates : Started(d) => Started(d)' BY <1>1, <1>2, <1>3 DEF Started
<1> QED BY <1>5, <1>6, <1>7, NothingCharged DEF RationInv

LEMMA PreflightMoves ==
    ASSUME RationInv, NEW c \in Candidates, PreflightIntent(c)
    PROVE  PlacesMove /\ ChargedIsStarted'
<1>1. target \in [Candidates -> TargetState] /\ departed' = departed
    BY DEF RationInv, BudgetInv, BudgetShape, PreflightIntent
<1>2. CASE Authorized(c) /\ Holds(c)
    <2>1. Settle({c}, "send_unknown") /\ target' = [target EXCEPT ![c] = "sending"]
        BY <1>2 DEF PreflightIntent
    <2>2. {c} \in SUBSET HeldPlaces BY <1>2 DEF HeldPlaces
    <2>3. \A d \in Candidates :
            place'[d].state = IF d \in {c} THEN "send_unknown" ELSE place[d].state
        BY <2>1, <2>2, SettleCounters DEF RationInv
    <2>4. PlacesMove BY <1>1, <1>2, <2>3 DEF PlacesMove, Holds
    <2>5. ChargedIsStarted'
        BY <1>1, <2>1, <2>3 DEF RationInv, ChargedIsStarted, Charged, Started
    <2> QED BY <2>4, <2>5
<1>3. CASE ~(Authorized(c) /\ Holds(c))
    <2> DEFINE s == IF Authorized(c) THEN "sending" ELSE IF Started(c) THEN "partial" ELSE "cancelled"
    <2>1. UNCHANGED <<place, counter>> /\ target' = [target EXCEPT ![c] = s]
        BY <1>3 DEF PreflightIntent
    <2>2. Started(c) => s \in {"sending", "partial"} OBVIOUS
    <2> HIDE DEF s
    <2>3. PlacesMove BY <1>1, <2>1 DEF PlacesMove, PlacesRest
    <2>4. \A d \in Candidates : Charged(d)' => Charged(d) BY <2>1 DEF Charged
    <2>5. \A d \in Candidates : Started(d) => Started(d)' BY <1>1, <2>1, <2>2 DEF Started
    <2> QED BY <2>3, <2>4, <2>5, NothingCharged DEF RationInv
<1> QED BY <1>2, <1>3

LEMMA SendMoves ==
    ASSUME RationInv, NEW c \in Candidates, SendMessage(c)
    PROVE  PlacesMove /\ ChargedIsStarted'
<1>1. target[c] = "sending" /\ place' = place BY DEF SendMessage
<1>2. departed[c] = 0 /\ departed = [departed EXCEPT ![c] = 0]
    BY <1>1, NotDeparted DEF RationInv
<1>3. Charged(c) BY <1>1 DEF RationInv, BudgetInv, ChargedBeforeSent, Started
<1>4. PICK outcome \in {"sent", "unknown", "again"}, leaves \in BOOLEAN :
        /\ target' = [target EXCEPT ![c] = outcome]
        /\ departed' = [departed EXCEPT ![c] = IF leaves THEN @ + 1 ELSE @]
    BY DEF SendMessage
<1>5. departed' = [departed EXCEPT ![c] = 1] \/ departed' = departed
    <2>1. CASE leaves BY <1>2, <1>4, <2>1
    <2>2. CASE ~leaves
        <3>1. departed' = [departed EXCEPT ![c] = 0] BY <1>2, <1>4, <2>2
        <3> QED BY <1>2, <3>1
    <2> QED BY <2>1, <2>2
<1>6. PlacesMove BY <1>1, <1>2, <1>3, <1>5 DEF PlacesMove, PlacesRest
<1>7. \A d \in Candidates : Charged(d)' => Charged(d) BY <1>1 DEF Charged
<1>8. \A d \in Candidates : Started(d) => Started(d)'
    BY <1>4 DEF RationInv, BudgetInv, BudgetShape, Started
<1> QED BY <1>6, <1>7, <1>8, NothingCharged DEF RationInv

\* A draft, what was planned, or a place whose time is over: none has begun to be sent.
LEMMA UnsentMoves ==
    ASSUME RationInv, NEW c \in Candidates,
           ApproveDraft(c) \/ IgnoreDraft(c) \/ InvalidatePreSend(c) \/ PlaceEnds(c)
    PROVE  PlacesMove /\ ChargedIsStarted'
<1>1. target \in [Candidates -> TargetState] /\ place \in [Candidates -> PlaceRow]
    BY DEF RationInv, BudgetInv, BudgetShape
<1>2. departed' = departed BY DEF ApproveDraft, IgnoreDraft, InvalidatePreSend, PlaceEnds
<1>3. \A d \in Candidates : place'[d].state = place[d].state
    <2>1. CASE PlaceEnds(c)
        <3> DEFINE new == [place[c] EXCEPT !.fresh = FALSE]
        <3>1. place' = [place EXCEPT ![c] = new] BY <1>1, <2>1 DEF PlaceEnds
        <3>2. new.state = place[c].state BY <1>1 DEF PlaceRow
        <3> HIDE DEF new
        <3> QED BY <1>1, <3>1, <3>2
    <2>2. CASE ~PlaceEnds(c)
        BY <2>2 DEF ApproveDraft, IgnoreDraft, InvalidatePreSend
    <2> QED BY <2>1, <2>2
<1>4. \A d \in Candidates : Started(d) => Started(d)'
    BY <1>1 DEF ApproveDraft, IgnoreDraft, InvalidatePreSend, PlaceEnds, Started
<1>5. PlacesMove BY <1>2, <1>3 DEF PlacesMove, PlacesRest
<1>6. \A d \in Candidates : Charged(d)' => Charged(d) BY <1>3 DEF Charged
<1> QED BY <1>4, <1>5, <1>6, NothingCharged DEF RationInv

LEMMA StepMovesPlaces ==
    ASSUME RationInv, [BudgetNext]_budgetVars
    PROVE  PlacesMove /\ ChargedIsStarted'
<1>1. ASSUME NEW p \in Publishers,
             \/ NothingDue(p) \/ RecordDecision(p) \/ Refused(p) \/ LeaseLost(p) \/ ModelFails(p)
             \/ CompleteJob(p) \/ PublisherCrashes(p) \/ \E c \in Candidates : ClaimNext(p, c)
      PROVE  UNCHANGED app
    BY <1>1 DEF NothingDue, RecordDecision, Refused, LeaseLost, ModelFails, CompleteJob,
                PublisherCrashes, ClaimNext, Fail
<1>2. ASSUME NEW p \in Publishers, PublisherStep(p) \/ PublisherCrashes(p)
      PROVE  PlacesMove /\ ChargedIsStarted'
    BY <1>1, <1>2, AppRests, SweepMoves, ReserveMoves, PublishMoves DEF PublisherStep
<1>3. ASSUME NEW c \in Candidates, TargetStep(c) \/ InvalidatePreSend(c)
      PROVE  PlacesMove /\ ChargedIsStarted'
    BY <1>3, PreflightMoves, SendMoves, UnsentMoves DEF TargetStep
<1>4. ASSUME NEW c \in Candidates, TimePasses(c)
      PROVE  PlacesMove /\ ChargedIsStarted'
    <2>1. CASE PlaceEnds(c) BY <2>1, UnsentMoves
    <2>2. CASE WindowEnds(c) \/ DeferEnds(c) \/ DueLeaseEnds(c)
        <3>1. UNCHANGED app BY <2>2 DEF WindowEnds, DeferEnds, DueLeaseEnds
        <3> QED BY <3>1, AppRests
    <2> QED BY <1>4, <2>1, <2>2 DEF TimePasses
<1>5. CASE UNCHANGED budgetVars
    <2>1. UNCHANGED app BY <1>5 DEF budgetVars, app
    <2> QED BY <2>1, AppRests
<1> QED BY <1>2, <1>3, <1>4, <1>5 DEF BudgetNext

-----------------------------------------------------------------------------
(* The steps as those of the abstract rations *)

Standings == [c \in Candidates |-> StandingOf(c)]

\* what a candidate stands at whose place is in the state s
Meaning(s) ==
    CASE s = "none" -> "none" [] s = "held" -> "held"
      [] s = "send_unknown" -> "charged" [] s = "expired" -> "given back"

StandingsFollow == Standings = [c \in Candidates |-> Meaning(place[c].state)]

\* A candidate stands at what its place says.
LEMMA StandsAsPlace == RationInv => StandingsFollow
<1> SUFFICES ASSUME RationInv, NEW c \in Candidates
             PROVE  StandingOf(c) = Meaning(place[c].state)
    BY DEF StandingsFollow, Standings
<1>1. place[c].state \in {"none", "held", "send_unknown", "expired"}
    BY DEF RationInv, BudgetInv, BudgetShape, PlaceRow
<1>2. Started(c) <=> Charged(c)
    BY DEF RationInv, BudgetInv, ChargedBeforeSent, ChargedIsStarted
<1> QED BY <1>1, <1>2 DEF StandingOf, Charged, Holds, Meaning

\* What counts in a ration are the places of the budget.
LEMMA PlacesOfRation ==
    ASSUME RationInv, NEW b
    PROVE  /\ Ration!Places("held", b) = InBudget(HeldPlaces, b)
           /\ Ration!Places("charged", b) = InBudget(ChargedPlaces, b)
<1>1. ASSUME NEW c \in Candidates
      PROVE  (Standings[c] = "held" <=> Holds(c)) /\ (Standings[c] = "charged" <=> Charged(c))
    <2>1. place[c].state \in {"none", "held", "send_unknown", "expired"}
        BY DEF RationInv, BudgetInv, BudgetShape, PlaceRow
    <2>2. Standings[c] = Meaning(place[c].state) BY StandsAsPlace DEF StandingsFollow
    <2> QED BY <2>1, <2>2 DEF Meaning, Holds, Charged
<1>2. {c \in Candidates : Standings[c] = "held" /\ b \in CountsIn[c]}
         = {c \in HeldPlaces : b \in CountsIn[c]}
    BY <1>1 DEF HeldPlaces
<1>3. {c \in Candidates : Standings[c] = "charged" /\ b \in CountsIn[c]}
         = {c \in ChargedPlaces : b \in CountsIn[c]}
    BY <1>1 DEF ChargedPlaces
<1>4. \A s : Ration!Places(s, b)
              = Cardinality({c \in Candidates : Standings[c] = s /\ b \in CountsIn[c]})
    BY DEF Ration!Places, Standings
<1>5. Ration!Places("held", b) = Cardinality({c \in HeldPlaces : b \in CountsIn[c]})
    BY <1>2, <1>4
<1>6. Ration!Places("charged", b) = Cardinality({c \in ChargedPlaces : b \in CountsIn[c]})
    BY <1>3, <1>4
<1> QED BY <1>5, <1>6 DEF InBudget

\* The counters are the books of the rations.
LEMMA BooksFollow == RationInv => Ration!BooksAreRight
<1> SUFFICES ASSUME RationInv PROVE Ration!BooksAreRight OBVIOUS
<1>1. ASSUME NEW b \in Budgets
      PROVE  counter[b] = [held |-> Ration!Places("held", b), charged |-> Ration!Places("charged", b)]
    <2>1. counter[b] \in Bucket BY DEF RationInv, BudgetInv, BudgetShape
    <2>2. /\ counter[b].held = InBudget(HeldPlaces, b)
          /\ counter[b].charged = InBudget(ChargedPlaces, b)
        BY DEF RationInv, BudgetInv, CountersFollow
    <2>3. counter[b] = [held |-> counter[b].held, charged |-> counter[b].charged]
        BY <2>1 DEF Bucket
    <2> QED BY <2>2, <2>3, PlacesOfRation
<1>2. counter \in [Budgets -> Bucket] BY DEF RationInv, BudgetInv, BudgetShape
<1> QED BY <1>1, <1>2 DEF Ration!BooksAreRight

\* As the places move, so do the standings.
LEMMA StandingsMove ==
    ASSUME RationInv, StandingsFollow, StandingsFollow', PlacesMove
    PROVE  \/ UNCHANGED <<Standings, departed>>
           \/ \E c \in Candidates : Ration!Take(c) \/ Ration!Charge(c) \/ Ration!Leave(c)
           \/ \E S \in SUBSET Candidates : Ration!GiveBack(S)
<1>1. /\ Standings = [c \in Candidates |-> Meaning(place[c].state)]
      /\ Standings' = [c \in Candidates |-> Meaning(place'[c].state)]
    BY DEF StandingsFollow
<1>0. /\ Meaning("none") = "none" /\ Meaning("held") = "held"
      /\ Meaning("send_unknown") = "charged" /\ Meaning("expired") = "given back"
    BY DEF Meaning
<1>2. CASE PlacesRest
    BY <1>1, <1>2 DEF PlacesRest
<1>3. ASSUME NEW c \in Candidates, departed' = departed,
             \A d \in Candidates : d # c => place'[d].state = place[d].state,
             place[c].state = "none" /\ HasRoom(c) /\ place'[c].state = "held"
      PROVE  Ration!Take(c)
    <2>1. Standings[c] = "none" /\ Standings' = [Standings EXCEPT ![c] = "held"] BY <1>1, <1>0, <1>3
    <2>2. \A b \in CountsIn[c] :
            Ration!Places("held", b) + Ration!Places("charged", b) < DailyLimit[b]
        <3>1. ASSUME NEW b \in CountsIn[c]
              PROVE  Ration!Places("held", b) + Ration!Places("charged", b) < DailyLimit[b]
            <4>1. b \in Budgets BY BudgetConstants
            <4>2. /\ counter[b].held = InBudget(HeldPlaces, b)
                  /\ counter[b].charged = InBudget(ChargedPlaces, b)
                BY <4>1 DEF RationInv, BudgetInv, CountersFollow
            <4>3. counter[b].held + counter[b].charged < DailyLimit[b] BY <1>3 DEF HasRoom
            <4> QED BY <4>2, <4>3, PlacesOfRation
        <3> QED BY <3>1
    <2> QED BY <1>3, <2>1, <2>2 DEF Ration!Take, Standings
<1>4. ASSUME NEW c \in Candidates, departed' = departed,
             \A d \in Candidates : d # c => place'[d].state = place[d].state,
             place[c].state = "held" /\ place'[c].state = "send_unknown"
      PROVE  Ration!Charge(c)
    <2>1. Standings[c] = "held" /\ Standings' = [Standings EXCEPT ![c] = "charged"] BY <1>1, <1>0, <1>4
    <2> QED BY <1>4, <2>1 DEF Ration!Charge, Standings
<1>5. ASSUME NEW S \in SUBSET HeldPlaces, departed' = departed,
             \A d \in Candidates : place'[d].state = IF d \in S THEN "expired" ELSE place[d].state
      PROVE  S \in SUBSET Candidates /\ Ration!GiveBack(S)
    <2>1. S \in SUBSET Candidates /\ \A c \in S : place[c].state = "held"
        BY DEF HeldPlaces, Holds
    <2>2. /\ \A c \in S : Standings[c] = "held"
          /\ Standings' = [c \in Candidates |-> IF c \in S THEN "given back" ELSE Standings[c]]
        BY <1>1, <1>0, <1>5, <2>1
    <2> QED BY <1>5, <2>1, <2>2 DEF Ration!GiveBack, Standings
<1>6. ASSUME NEW c \in Candidates,
             \A d \in Candidates : place'[d].state = place[d].state,
             Charged(c) /\ departed[c] = 0 /\ departed' = [departed EXCEPT ![c] = 1]
      PROVE  Ration!Leave(c)
    <2>1. Standings[c] = "charged" /\ Standings' = Standings BY <1>1, <1>0, <1>6 DEF Charged
    <2> QED BY <1>6, <2>1 DEF Ration!Leave, Standings
<1> QED BY <1>2, <1>3, <1>4, <1>5, <1>6 DEF PlacesMove

LEMMA RationStep ==
    ASSUME RationInv, [BudgetNext]_budgetVars
    PROVE  RationInv' /\ [Ration!RationNext]_(Ration!rationVars)
<1>1. PlacesMove /\ ChargedIsStarted' BY StepMovesPlaces
<1>2. BudgetInv' BY BudgetInvStep DEF RationInv
<1>3. RationInv' BY <1>1, <1>2 DEF RationInv
<1>4. /\ Ration!BooksAreRight /\ Ration!BooksAreRight'
      /\ StandingsFollow /\ StandingsFollow'
    BY <1>3, BooksFollow, StandsAsPlace, PTL
<1>5. CASE UNCHANGED <<Standings, departed>>
    <2>1. counter' = counter
        BY <1>4, <1>5 DEF Ration!BooksAreRight, Ration!Places, Standings
    <2>2. UNCHANGED Ration!rationVars BY <1>5, <2>1 DEF Ration!rationVars, Standings
    <2> QED BY <1>3, <2>2
<1>6. CASE /\ ~UNCHANGED <<Standings, departed>>
           /\ \/ \E c \in Candidates : Ration!Take(c) \/ Ration!Charge(c) \/ Ration!Leave(c)
              \/ \E S \in SUBSET Candidates : Ration!GiveBack(S)
    <2>1. Ration!RationNext BY <1>4, <1>6 DEF Ration!RationNext, Standings
    <2> QED BY <1>3, <2>1
<1> QED BY <1>1, <1>3, <1>4, <1>5, <1>6, StandingsMove

LEMMA RationBegins == BudgetInit => RationInv /\ Ration!RationInit
<1> SUFFICES ASSUME BudgetInit PROVE RationInv /\ Ration!RationInit OBVIOUS
<1>1. ChargedIsStarted BY DEF BudgetInit, ChargedIsStarted, Charged
<1>2. RationInv BY <1>1, BudgetInvInit DEF RationInv
<1>3. Ration!BooksAreRight BY <1>2, BooksFollow
<1>4. \A c \in Candidates : StandingOf(c) = "none"
    BY DEF BudgetInit, StandingOf, Started, Holds
<1> QED BY <1>2, <1>3, <1>4 DEF Ration!RationInit, BudgetInit

\* Fairness plays no part in it, so it holds where the service is one of several too.
LEMMA RationsSafely == BudgetInit /\ [][BudgetNext]_budgetVars => KeepsRation
<1>1. RationInv /\ [BudgetNext]_budgetVars => RationInv' /\ [Ration!RationNext]_(Ration!rationVars)
    BY RationStep
<1> QED BY <1>1, RationBegins, PTL DEF KeepsRation, Ration!RationSpec

\* For any number of publishers, candidates, budgets and limits the messages are rationed: a place is
\* taken once and where there is room, charges are final, what leaves is charged and leaves once,
\* and the counters are right at every step.
THEOREM BudgetSpecKeepsRation == BudgetSpec => KeepsRation
BY RationsSafely, PTL DEF BudgetSpec

-----------------------------------------------------------------------------
(***************************************************************************)
(* All services of the process.  Whichever service is in focus, a step of  *)
(* the process is a step of that service and none of the others; so each   *)
(* keeps in the process what it keeps alone.                               *)
(***************************************************************************)

\* Each service begins as it does alone.
LEMMA ServicesBegin ==
    ASSUME WorkerInit
    PROVE  /\ MemoryRunsInit /\ PeriodsInit /\ WindowInit /\ FactsInit /\ EmbeddingInit
           /\ BudgetInit /\ ErasureInit /\ ExportInit /\ RestoreInit
BY DEF WorkerInit

\* A step of the process is a step of each service, or leaves it alone.
LEMMA ServiceSteps ==
    ASSUME [WorkerNext]_workerVars
    PROVE  /\ [MemoryRunsNext]_memoryRunsVars /\ [PeriodsNext]_periodsVars
           /\ [WindowNext]_windowVars /\ [FactsNext]_factsVars
           /\ [EmbeddingNext]_embeddingVars /\ [BudgetNext]_budgetVars
           /\ [ErasureNext]_erasureVars /\ [ExportNext]_exportVars /\ [RestoreNext]_restoreVars
<1>1. CASE UNCHANGED workerVars BY <1>1 DEF workerVars
<1>2. CASE WorkerNext
    BY <1>2 DEF WorkerNext, besideJobs, besidePeriods, besideWindow, besideFacts, besideEmbeddings,
                besideBudget, besideErasure, besideExports, besideRestore
<1> QED BY <1>1, <1>2

\* What the services keep in the one process they run in (processes/worker.py): a job has one
\* lease and a lost one stays lost, work is settled once and for good, summaries stand on what they were
\* built from, no message is passed over, budgets hold, a key has one memory, and what was
\* forgotten or erased stays so.
THEOREM WorkerSpecSafe ==
    WorkerSpec => /\ [](/\ ResultCommittedOnce /\ WeekStandsOnDays /\ NoMessageSkipped
                        /\ BudgetHonoured /\ OneActivePerKey /\ ForgottenLeavesNothing
                        /\ ErasedScopeIsEmpty /\ ErasedExportIsGone /\ ErasureSurvivesRestore
                        /\ VectorsFollowTexts /\ LeaseIsExclusive)
                  /\ LostLeaseStaysLost /\ SettlesForGood /\ KeepsRation
<1>1. WorkerSpec => MemoryRunsInit /\ [][MemoryRunsNext]_memoryRunsVars
    BY ServicesBegin, ServiceSteps, PTL DEF WorkerSpec
<1>2. WorkerSpec => PeriodsInit /\ [][PeriodsNext]_periodsVars
    BY ServicesBegin, ServiceSteps, PTL DEF WorkerSpec
<1>3. WorkerSpec => WindowInit /\ [][WindowNext]_windowVars
    BY ServicesBegin, ServiceSteps, PTL DEF WorkerSpec
<1>4. WorkerSpec => FactsSpec
    BY ServicesBegin, ServiceSteps, PTL DEF WorkerSpec, FactsSpec
<1>5. WorkerSpec => EmbeddingInit /\ [][EmbeddingNext]_embeddingVars
    BY ServicesBegin, ServiceSteps, PTL DEF WorkerSpec
<1>6. WorkerSpec => BudgetInit /\ [][BudgetNext]_budgetVars
    BY ServicesBegin, ServiceSteps, PTL DEF WorkerSpec
<1>7. WorkerSpec => ErasureInit /\ [][ErasureNext]_erasureVars
    BY ServicesBegin, ServiceSteps, PTL DEF WorkerSpec
<1>8. WorkerSpec => ExportSpec
    BY ServicesBegin, ServiceSteps, PTL DEF WorkerSpec, ExportSpec
<1>9. WorkerSpec => RestoreSpec
    BY ServicesBegin, ServiceSteps, PTL DEF WorkerSpec, RestoreSpec
<1> QED BY <1>1, <1>2, <1>3, <1>4, <1>5, <1>6, <1>7, <1>8, <1>9,
           RunsSafely, LeasesSafely, SettlesSafely, PeriodsSafely, WindowSafely, FactsSpecOneActivePerKey,
           FactsSpecForgottenLeavesNothing, EmbeddingsSafely, BudgetSafely,
           RationsSafely, ErasureSafely,
           ExportSpecErasedExportIsGone, RestoreSpecErasureSurvives, PTL
=============================================================================
