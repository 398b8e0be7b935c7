---------------------------- MODULE FactsProofs -----------------------------
(***************************************************************************)
(* Theorems about what is remembered: the memories of a conversation and   *)
(* the vectors they are found by; for any number of keys, generations,     *)
(* proposals and pieces of text.                                           *)
(***************************************************************************)
EXTENDS MemoryFacts, Embeddings, SequenceTheorems, TLAPS

-----------------------------------------------------------------------------
(***************************************************************************)
(* The memories of a conversation. One of them is active for a key,        *)
(* because a proposal writes an active memory only under a key that is     *)
(* free or is given up by the memory whose place it takes; and nothing is  *)
(* left of a forgotten one, because its texts and those of the proposals   *)
(* that name it go in the step that forgets it, and nothing is written to  *)
(* it afterwards.                                                          *)
(***************************************************************************)

NoneOrOne == {<<>>} \cup {<<m>> : m \in MemoryId}

FactRow ==
    [op : {"create", "update", "supersede", "invalidate", "merge"}, key : Keys,
     targets : UNION {[1..n -> MemoryId] : n \in 0..2}, seen : UNION {[1..n -> Nat] : n \in 0..2},
     root : Root, state : {"candidate", "accepted", "rejected", "invalidated"},
     into : NoneOrOne, kept : BOOLEAN]

ReviewLine ==
    [kind : {"accept", "reject", "forget"}, row : Nat, memory : NoneOrOne, version : Nat,
     state : {"pending", "confirmed", "applied", "rejected", "expired"}]

MemoryRows == [MemoryId -> [status : {"absent", "active", "superseded", "invalidated", "forgotten"},
                            version : Nat]]
VersionRow == [made : BOOLEAN, body : Nat, roots : SUBSET Root]
VersionRows == [MemoryId -> [1..MaxVersion -> VersionRow]]

\* An operation that changes a memory names it.
NamesItsTarget(p) == p.op \notin {"create", "supersede"} => 1 \in DOMAIN p.targets

MemoriesShape == memories \in MemoryRows /\ versions \in VersionRows

ProposalsShape ==
    /\ proposals \in Seq(FactRow) /\ Len(proposals) <= MaxProposals
    /\ \A p \in DOMAIN proposals : NamesItsTarget(proposals[p])

ManifestsShape ==
    /\ revision \in [Quotes -> 0..MaxQuoteEdits]
    /\ offered \in [Generations -> UNION {[S -> Nat] : S \in SUBSET MemoryId}]
    /\ cited \in [Generations -> {<<>>} \cup [Quotes -> 0..MaxQuoteEdits]]

\* A review names a proposal or a memory, one that waits to be carried out is a review.
ReviewsShape ==
    /\ reviews \in Seq(ReviewLine)
    /\ \A r \in DOMAIN reviews : IF reviews[r].kind = "forget" THEN reviews[r].memory[1] \in MemoryId
                                 ELSE reviews[r].row \in DOMAIN proposals
    /\ confirmed \in Seq(Nat)
    /\ \A i \in DOMAIN confirmed : confirmed[i] \in DOMAIN reviews

FactsInv ==
    /\ MemoriesShape /\ ProposalsShape /\ ManifestsShape /\ ReviewsShape
    /\ OneActivePerKey /\ ForgottenLeavesNothing

-----------------------------------------------------------------------------
(* Sequences *)

\* A row that is added comes last, and the others stay.
LEMMA RowAdded ==
    ASSUME NEW S, NEW s \in Seq(S), NEW e \in S
    PROVE  /\ Append(s, e) \in Seq(S) /\ Len(Append(s, e)) = Len(s) + 1
           /\ DOMAIN Append(s, e) = DOMAIN s \cup {Len(s) + 1}
           /\ \A i \in DOMAIN s : Append(s, e)[i] = s[i]
           /\ Append(s, e)[Len(s) + 1] = e
<1>1. /\ Append(s, e) \in Seq(S) /\ Len(Append(s, e)) = Len(s) + 1
      /\ \A i \in 1..Len(s) : Append(s, e)[i] = s[i]
      /\ Append(s, e)[Len(s) + 1] = e
    BY AppendProperties
<1>2. Len(s) \in Nat /\ DOMAIN s = 1..Len(s) BY LenProperties
<1>3. DOMAIN Append(s, e) = 1..Len(s) + 1 BY <1>1, LenProperties
<1>4. 1..Len(s) + 1 = (1..Len(s)) \cup {Len(s) + 1} BY <1>2
<1> QED BY <1>1, <1>2, <1>3, <1>4

\* A row that is written again leaves the others.
LEMMA RowRewrittenInPlace ==
    ASSUME NEW S, NEW s \in Seq(S), NEW i \in DOMAIN s, NEW e \in S
    PROVE  /\ [s EXCEPT ![i] = e] \in Seq(S) /\ Len([s EXCEPT ![i] = e]) = Len(s)
           /\ DOMAIN [s EXCEPT ![i] = e] = DOMAIN s
           /\ \A j \in DOMAIN s : [s EXCEPT ![i] = e][j] = IF j = i THEN e ELSE s[j]
<1>1. DOMAIN s = 1..Len(s) BY LenProperties
<1> QED BY <1>1, ExceptSeq

\* A function on the numbers of rows is a table of rows.
LEMMA TableOfRows ==
    ASSUME NEW S, NEW T, NEW s \in Seq(S), NEW t \in [DOMAIN s -> T]
    PROVE  t \in Seq(T) /\ Len(t) = Len(s) /\ DOMAIN t = DOMAIN s
<1>1. Len(s) \in Nat /\ DOMAIN s = 1..Len(s) BY LenProperties
<1>2. t \in [1..Len(s) -> T] BY <1>1
<1>3. t \in Seq(T) BY <1>1, <1>2, SeqDef
<1>4. Len(t) \in Nat /\ DOMAIN t = 1..Len(t) BY <1>3, LenProperties
<1>5. 1..Len(t) = 1..Len(s) BY <1>1, <1>2, <1>4
<1>6. Len(t) = Len(s) BY <1>1, <1>4, <1>5
<1> QED BY <1>1, <1>3, <1>6

\* The oldest of what waits is taken off.
LEMMA HeadTaken ==
    ASSUME NEW S, NEW s \in Seq(S), s # <<>>
    PROVE  /\ Tail(s) \in Seq(S) /\ Head(s) = s[1] /\ 1 \in DOMAIN s
           /\ \A i \in DOMAIN Tail(s) : \E j \in DOMAIN s : Tail(s)[i] = s[j]
<1>1. Len(s) \in Nat \ {0} /\ DOMAIN s = 1..Len(s) BY LenProperties, EmptySeq
<1>2. /\ Tail(s) \in Seq(S) /\ Len(Tail(s)) = Len(s) - 1
      /\ \A i \in 1..Len(Tail(s)) : Tail(s)[i] = s[i + 1]
    BY HeadTailProperties
<1>3. DOMAIN Tail(s) = 1..Len(s) - 1 BY <1>2, LenProperties
<1>4. ASSUME NEW i \in DOMAIN Tail(s) PROVE \E j \in DOMAIN s : Tail(s)[i] = s[j]
    <2>1. i + 1 \in DOMAIN s /\ Tail(s)[i] = s[i + 1] BY <1>1, <1>2, <1>3
    <2> QED BY <2>1
<1> QED BY <1>1, <1>2, <1>4

-----------------------------------------------------------------------------
(* What becomes of the memories *)

Name == ({"answer"} \X (1..MaxOrdinal)) \cup ({"row"} \X Row)

LEMMA RowTargets ==
    ASSUME NEW p \in FactRow
    PROVE  /\ p.op \in {"create", "update", "supersede", "invalidate", "merge"} /\ p.key \in Keys
           /\ p.root \in Root
           /\ \A i \in DOMAIN p.targets : p.targets[i] \in MemoryId
BY DEF FactRow

\* A proposal writes a memory with its key.
LEMMA WrittenIsMemory ==
    ASSUME NEW p \in FactRow, NamesItsTarget(p), NEW named \in Name, Applicable(p)
    PROVE  /\ Written(p, named) \in MemoryId
           /\ KeyOf(Written(p, named)) = p.key
           /\ ~IsNew(p) => /\ Active(Written(p, named))
                           /\ Written(p, named) = p.targets[1] /\ 1 \in DOMAIN p.targets
<1>1. CASE IsNew(p)
    <2>1. Written(p, named) = <<named[1], named[2], p.key>> BY <1>1 DEF Written
    <2>2. p.key \in Keys BY RowTargets
    <2>3. \/ named[1] = "answer" /\ named[2] \in 1..MaxOrdinal
          \/ named[1] = "row" /\ named[2] \in Row
        BY DEF Name
    <2>4. <<named[1], named[2], p.key>> \in MemoryId BY <2>2, <2>3 DEF MemoryId
    <2> QED BY <1>1, <2>1, <2>4 DEF KeyOf
<1>2. CASE ~IsNew(p)
    <2>1. /\ 1 \in DOMAIN p.targets /\ Written(p, named) = p.targets[1]
          /\ p.op \in {"update", "invalidate", "merge"}
        BY <1>2, RowTargets DEF Written, IsNew, NamesItsTarget
    <2>2. MayChange(p.targets[1], p.seen[1], p) BY <2>1 DEF Applicable
    <2> QED BY <1>2, <2>1, <2>2, RowTargets DEF MayChange
<1> QED BY <1>1, <1>2

\* Applying a proposal to memories that are as it saw them.
LEMMA ApplyKeeps ==
    ASSUME FactsInv, NEW p \in FactRow, NamesItsTarget(p), NEW named \in Name, NEW row \in Nat,
           Applicable(p), KeyIsFree(p), ApplyTo(p, row, named)
    PROVE  /\ MemoriesShape' /\ OneActivePerKey'
           /\ \A m \in MemoryId : memories'[m].status = "forgotten" =>
                /\ memories[m].status = "forgotten" /\ m # Written(p, named)
                /\ versions'[m] = versions[m]
<1> DEFINE m == Written(p, named)
           v == WrittenVersion(p)
           s == IF p.op = "invalidate" THEN "invalidated" ELSE "active"
           gone == CASE p.op = "supersede" -> {p.targets[1]}
                     [] p.op = "merge" -> {p.targets[i] : i \in 2..Len(p.targets)}
                     [] OTHER -> {}
<1>1. /\ v <= MaxVersion
      /\ memories' = [n \in MemoryId |->
              IF n = m THEN [status |-> s, version |-> v]
              ELSE IF n \in gone THEN [memories[n] EXCEPT !.status = "superseded"]
              ELSE memories[n]]
      /\ versions' = [versions EXCEPT ![m][v] = InsertVersion(@, row, p.root)]
    BY DEF ApplyTo
<1>2. /\ m \in MemoryId /\ KeyOf(m) = p.key
      /\ ~IsNew(p) => Active(m) /\ m = p.targets[1] /\ 1 \in DOMAIN p.targets
    BY WrittenIsMemory
<1>3. memories \in MemoryRows /\ versions \in VersionRows BY DEF FactsInv, MemoriesShape
<1>4. v \in Nat /\ v >= 1
    <2>1. CASE IsNew(p) BY <2>1 DEF WrittenVersion
    <2>2. CASE ~IsNew(p)
        <3>1. memories[p.targets[1]].version \in Nat BY <1>2, <1>3, <2>2 DEF MemoryRows
        <3> QED BY <2>2, <3>1 DEF WrittenVersion
    <2> QED BY <2>1, <2>2
<1>5. /\ v \in 1..MaxVersion /\ p.root \in Root
    BY <1>1, <1>4, FactsConstants, RowTargets
<1> HIDE DEF m, v, gone
<1>6. \A n \in MemoryId :
        /\ memories'[n].status = IF n = m THEN s ELSE IF n \in gone THEN "superseded" ELSE memories[n].status
        /\ memories'[n] \in [status : {"absent", "active", "superseded", "invalidated", "forgotten"},
                             version : Nat]
    BY <1>1, <1>3, <1>4 DEF MemoryRows
<1>7. memories' \in MemoryRows BY <1>1, <1>6 DEF MemoryRows
<1>8. versions' \in VersionRows /\ \A n \in MemoryId \ {m} : versions'[n] = versions[n]
    <2>1. versions[m][v] \in VersionRow BY <1>2, <1>3, <1>5 DEF VersionRows
    <2>2. InsertVersion(versions[m][v], row, p.root) \in VersionRow
        BY <1>5, <2>1 DEF InsertVersion, VersionRow
    <2> QED BY <1>1, <1>2, <1>3, <1>5, <2>2 DEF VersionRows
<1>9. ASSUME NEW n \in MemoryId, n # m, Active(n)', Active(m)' PROVE KeyOf(n) # KeyOf(m)
    <2>1. Active(n) /\ n \notin gone BY <1>6, <1>9 DEF Active
    <2>2. CASE IsNew(p)
        <3>1. KeyOf(n) = p.key => p.op = "supersede" /\ n = p.targets[1]
            BY <2>1, <2>2 DEF KeyIsFree, IsNew
        <3> QED BY <1>2, <2>1, <3>1 DEF gone
    <2>3. CASE ~IsNew(p)
        BY <1>2, <1>9, <2>1, <2>3 DEF FactsInv, OneActivePerKey
    <2> QED BY <2>2, <2>3
<1>10. \A n \in MemoryId \ {m} : Active(n)' => Active(n) BY <1>6 DEF Active
<1>11. OneActivePerKey'
    <2> SUFFICES ASSUME NEW a \in MemoryId, NEW b \in MemoryId, Active(a)', Active(b)', KeyOf(a) = KeyOf(b)
                 PROVE  a = b
        BY DEF OneActivePerKey, KeyOf
    <2>1. CASE a = m \/ b = m BY <1>9, <2>1
    <2>2. CASE a # m /\ b # m BY <1>10, <2>2 DEF FactsInv, OneActivePerKey
    <2> QED BY <2>1, <2>2
<1>12. \A n \in MemoryId : memories'[n].status = "forgotten" =>
            memories[n].status = "forgotten" /\ n # m /\ versions'[n] = versions[n]
    BY <1>6, <1>8
<1> QED BY <1>7, <1>8, <1>11, <1>12 DEF MemoriesShape, m

\* Forgetting a memory, whoever asked.
LEMMA ForgetMemoryKeeps ==
    ASSUME FactsInv, NEW m \in MemoryId, ForgetMemory(m)
    PROVE  /\ MemoriesShape' /\ ProposalsShape' /\ OneActivePerKey' /\ ForgottenLeavesNothing'
           /\ DOMAIN proposals' = DOMAIN proposals
<1>1. /\ memories' = [memories EXCEPT ![m].status = "forgotten"]
      /\ versions' = [versions EXCEPT ![m] = [v \in 1..MaxVersion |-> [versions[m][v] EXCEPT !.body = 0]]]
      /\ proposals' = [p \in DOMAIN proposals |->
           IF p \notin About(m) THEN proposals[p]
           ELSE [proposals[p] EXCEPT !.kept = FALSE,
                                     !.state = IF @ = "accepted" THEN @ ELSE "invalidated"]]
    BY DEF ForgetMemory, FactsInv, MemoriesShape, VersionRows
<1>2. /\ memories \in MemoryRows /\ versions \in VersionRows
      /\ proposals \in Seq(FactRow) /\ Len(proposals) <= MaxProposals
    BY DEF FactsInv, MemoriesShape, ProposalsShape
<1>3. memories' \in MemoryRows
      /\ \A n \in MemoryId : memories'[n].status = IF n = m THEN "forgotten" ELSE memories[n].status
    BY <1>1, <1>2 DEF MemoryRows
<1>4. /\ versions' \in VersionRows
      /\ \A v \in 1..MaxVersion : versions'[m][v].body = 0
      /\ \A n \in MemoryId \ {m} : versions'[n] = versions[n]
    <2>1. ASSUME NEW v \in 1..MaxVersion
          PROVE  /\ [versions[m][v] EXCEPT !.body = 0] \in VersionRow
                 /\ [versions[m][v] EXCEPT !.body = 0].body = 0
        <3>1. versions[m][v] \in VersionRow BY <1>2 DEF VersionRows
        <3> QED BY <3>1 DEF VersionRow
    <2> DEFINE emptied == [v \in 1..MaxVersion |-> [versions[m][v] EXCEPT !.body = 0]]
    <2>2. emptied \in [1..MaxVersion -> VersionRow] /\ \A v \in 1..MaxVersion : emptied[v].body = 0
        BY <2>1
    <2> HIDE DEF emptied
    <2>3. versions' = [versions EXCEPT ![m] = emptied] BY <1>1 DEF emptied
    <2> QED BY <1>2, <2>2, <2>3 DEF VersionRows
<1>5. \A p \in DOMAIN proposals :
        /\ proposals[p] \in FactRow /\ proposals'[p] \in FactRow
        /\ proposals'[p].op = proposals[p].op /\ proposals'[p].targets = proposals[p].targets
        /\ proposals'[p].into = proposals[p].into
        /\ proposals'[p].kept => proposals[p].kept /\ p \notin About(m)
    <2> SUFFICES ASSUME NEW p \in DOMAIN proposals
                 PROVE  /\ proposals[p] \in FactRow /\ proposals'[p] \in FactRow
                        /\ proposals'[p].op = proposals[p].op
                        /\ proposals'[p].targets = proposals[p].targets
                        /\ proposals'[p].into = proposals[p].into
                        /\ proposals'[p].kept => proposals[p].kept /\ p \notin About(m)
        OBVIOUS
    <2>1. proposals[p] \in FactRow BY <1>2, LenProperties
    <2>2. CASE p \notin About(m) BY <1>1, <2>1, <2>2
    <2>3. CASE p \in About(m)
        <3> DEFINE q == proposals[p]
                   s == IF q.state = "accepted" THEN q.state ELSE "invalidated"
        <3>1. proposals'[p] = [q EXCEPT !.kept = FALSE, !.state = s] BY <1>1, <2>3
        <3>2. s \in {"candidate", "accepted", "rejected", "invalidated"} BY <2>1 DEF FactRow
        <3> HIDE DEF q, s
        <3>3. q \in FactRow BY <2>1 DEF q
        <3>4. proposals'[p] \in FactRow BY <3>1, <3>2, <3>3 DEF FactRow
        <3>5. /\ proposals'[p].op = q.op /\ proposals'[p].targets = q.targets
              /\ proposals'[p].into = q.into /\ proposals'[p].kept = FALSE
            BY <3>1, <3>3 DEF FactRow
        <3> QED BY <2>1, <3>4, <3>5 DEF q
    <2> QED BY <2>2, <2>3
<1>6. proposals' \in [DOMAIN proposals -> FactRow] BY <1>1, <1>5
<1>7. proposals' \in Seq(FactRow) /\ Len(proposals') = Len(proposals) /\ DOMAIN proposals' = DOMAIN proposals
    BY <1>2, <1>6, TableOfRows
<1>8. ProposalsShape' BY <1>2, <1>5, <1>7 DEF FactsInv, ProposalsShape, NamesItsTarget
<1>9. OneActivePerKey' BY <1>3 DEF FactsInv, OneActivePerKey, Active, KeyOf
<1>10. ForgottenLeavesNothing'
    <2> SUFFICES ASSUME NEW n \in MemoryId, memories'[n].status = "forgotten"
                 PROVE  /\ \A v \in 1..MaxVersion : versions'[n][v].body = 0
                        /\ \A p \in DOMAIN proposals :
                            n \in {proposals'[p].targets[i] : i \in DOMAIN proposals'[p].targets}
                              \/ proposals'[p].into = <<n>>
                            => ~proposals'[p].kept
        BY <1>7 DEF ForgottenLeavesNothing
    <2>1. CASE n = m
        <3>1. \A p \in DOMAIN proposals :
                n \in {proposals[p].targets[i] : i \in DOMAIN proposals[p].targets}
                  \/ proposals[p].into = <<n>>
                => p \in About(m)
            BY <2>1 DEF About
        <3> QED BY <1>4, <1>5, <2>1, <3>1
    <2>2. CASE n # m
        <3>1. memories[n].status = "forgotten" /\ versions'[n] = versions[n] BY <1>3, <1>4, <2>2
        <3> QED BY <1>5, <3>1 DEF FactsInv, ForgottenLeavesNothing
    <2> QED BY <2>1, <2>2
<1> QED BY <1>3, <1>4, <1>7, <1>8, <1>9, <1>10 DEF MemoriesShape

-----------------------------------------------------------------------------
(* A generation *)

LEMMA EndKeepsManifests ==
    ASSUME ManifestsShape, NEW g \in Generations, EndGeneration(g), revision' = revision
    PROVE  ManifestsShape'
<1>1. Resting \in UNION {[S -> Nat] : S \in SUBSET MemoryId}
    <2>1. Resting \in [{} -> Nat] BY DEF Resting
    <2>2. {} \in SUBSET MemoryId OBVIOUS
    <2> QED BY <2>1, <2>2
<1> HIDE DEF Resting
<1> QED BY <1>1 DEF ManifestsShape, EndGeneration

LEMMA SealKeeps == ASSUME FactsInv, NEW g \in Generations, SealManifest(g) PROVE FactsInv'
<1>1. UNCHANGED <<memories, versions, proposals, revision, reviews, confirmed>> BY DEF SealManifest
<1>2. PICK chosen \in SUBSET Offerable :
        offered' = [offered EXCEPT ![g] = [m \in chosen |-> memories[m].version]]
    BY DEF SealManifest
<1>3. [m \in chosen |-> memories[m].version] \in UNION {[S -> Nat] : S \in SUBSET MemoryId}
    <2>1. chosen \in SUBSET MemoryId BY DEF Offerable
    <2>2. \A m \in MemoryId : memories[m].version \in Nat
        BY DEF FactsInv, MemoriesShape, MemoryRows
    <2>3. [m \in chosen |-> memories[m].version] \in [chosen -> Nat] BY <2>1, <2>2
    <2> QED BY <2>1, <2>3
<1>4. cited' = [cited EXCEPT ![g] = revision] BY DEF SealManifest
<1>5. ManifestsShape' BY <1>1, <1>2, <1>3, <1>4 DEF FactsInv, ManifestsShape
<1> QED BY <1>1, <1>5 DEF FactsInv, MemoriesShape, ProposalsShape, ReviewsShape, OneActivePerKey,
                          Active, KeyOf, ForgottenLeavesNothing

\* What the model may propose is about memories that were offered, and they are active.
LEMMA ProposedRow ==
    ASSUME FactsInv, NEW g \in Generations, InUse(g), SourcesStand(g),
           NEW a \in Answer(g), NEW x \in Quotes,
           NEW state \in {"candidate", "accepted"}, NEW into \in NoneOrOne
    PROVE  /\ Proposed(g, a, x, state, into) \in FactRow
           /\ NamesItsTarget(Proposed(g, a, x, state, into))
           /\ \A i \in DOMAIN a.targets : Active(a.targets[i])
<1>1. PICK S \in SUBSET MemoryId : offered[g] \in [S -> Nat]
    BY DEF FactsInv, ManifestsShape
<1>2. cited[g] \in [Quotes -> 0..MaxQuoteEdits] BY DEF FactsInv, ManifestsShape, InUse
<1> DEFINE T == DOMAIN offered[g]
<1>3. T \subseteq MemoryId /\ \A m \in T : offered[g][m] \in Nat BY <1>1
<1>4. /\ a.op \in {"create", "update", "supersede", "invalidate", "merge"} /\ a.key \in Keys
      /\ \/ a.targets \in [1..0 -> T] /\ a.op = "create"
         \/ a.targets \in [1..1 -> T] /\ a.op # "create"
         \/ a.targets \in [1..2 -> T] /\ a.op = "merge"
    BY DEF Answer
<1>5. PICK n \in 0..2 : a.targets \in [1..n -> T] /\ (n = 0 => a.op = "create")
    BY <1>4
<1> HIDE DEF T
<1>6. a.targets \in [1..n -> MemoryId] BY <1>3, <1>5
<1>7. a.targets \in UNION {[1..k -> MemoryId] : k \in 0..2} BY <1>6
<1> DEFINE seen == [i \in DOMAIN a.targets |-> offered[g][a.targets[i]]]
<1>8. seen \in [1..n -> Nat] BY <1>3, <1>5
<1>9. seen \in UNION {[1..k -> Nat] : k \in 0..2} BY <1>8
<1>10. <<x, cited[g][x]>> \in Root BY <1>2 DEF Root
<1> HIDE DEF seen
<1>11. Proposed(g, a, x, state, into) =
        [op |-> a.op, key |-> a.key, targets |-> a.targets, seen |-> seen,
         root |-> <<x, cited[g][x]>>, state |-> state, into |-> into, kept |-> TRUE]
    BY DEF Proposed, seen
<1>12. Proposed(g, a, x, state, into) \in FactRow
    BY <1>4, <1>7, <1>9, <1>10, <1>11 DEF FactRow
<1>13. NamesItsTarget(Proposed(g, a, x, state, into)) BY <1>5, <1>11 DEF NamesItsTarget
<1>14. \A i \in DOMAIN a.targets : Active(a.targets[i]) BY <1>5 DEF SourcesStand, T
<1> QED BY <1>12, <1>13, <1>14

\* A proposal that is added to the table and what it names: nothing forgotten, or what it wrote.
LEMMA ProposalAdded ==
    ASSUME FactsInv, NEW p \in FactRow, NamesItsTarget(p), Len(proposals) < MaxProposals,
           proposals' = Append(proposals, p), UNCHANGED <<reviews, confirmed>>,
           \A m \in MemoryId : memories'[m].status = "forgotten" =>
                /\ memories[m].status = "forgotten"
                /\ versions'[m] = versions[m]
                /\ p.into # <<m>>
                /\ \A i \in DOMAIN p.targets : p.targets[i] # m
    PROVE  ProposalsShape' /\ ReviewsShape' /\ ForgottenLeavesNothing'
<1> DEFINE n == Len(proposals) + 1
<1>1. proposals \in Seq(FactRow) /\ Len(proposals) \in Nat
    BY LenProperties DEF FactsInv, ProposalsShape
<1>2. /\ proposals' \in Seq(FactRow) /\ Len(proposals') = Len(proposals) + 1
      /\ DOMAIN proposals' = DOMAIN proposals \cup {n}
      /\ \A i \in DOMAIN proposals : proposals'[i] = proposals[i]
      /\ proposals'[n] = p
    BY <1>1, RowAdded
<1>3. Len(proposals) + 1 <= MaxProposals BY <1>1, FactsConstants
<1> HIDE DEF n
<1>4. ProposalsShape' BY <1>2, <1>3 DEF FactsInv, ProposalsShape
<1>5. ReviewsShape' BY <1>2 DEF FactsInv, ReviewsShape
<1>6. ForgottenLeavesNothing'
    <2> SUFFICES ASSUME NEW m \in MemoryId, memories'[m].status = "forgotten"
                 PROVE  /\ \A v \in 1..MaxVersion : versions'[m][v].body = 0
                        /\ \A q \in DOMAIN proposals' :
                            m \in {proposals'[q].targets[i] : i \in DOMAIN proposals'[q].targets}
                              \/ proposals'[q].into = <<m>>
                            => ~proposals'[q].kept
        BY DEF ForgottenLeavesNothing
    <2>1. memories[m].status = "forgotten" /\ versions'[m] = versions[m] OBVIOUS
    <2>2. ~(m \in {p.targets[i] : i \in DOMAIN p.targets} \/ p.into = <<m>>) OBVIOUS
    <2> QED BY <1>2, <2>1, <2>2 DEF FactsInv, ForgottenLeavesNothing
<1> QED BY <1>4, <1>5, <1>6

LEMMA CandidateKeeps == ASSUME FactsInv, NEW g \in Generations, RecordCandidate(g) PROVE FactsInv'
<1>1. /\ InUse(g) /\ SourcesStand(g) /\ Len(proposals) < MaxProposals /\ EndGeneration(g)
      /\ UNCHANGED <<memories, versions, revision, reviews, confirmed>>
    BY DEF RecordCandidate
<1>2. PICK a \in Answer(g), x \in Quotes :
        proposals' = Append(proposals, Proposed(g, a, x, "candidate", <<>>))
    BY DEF RecordCandidate
<1> DEFINE p == Proposed(g, a, x, "candidate", <<>>)
<1>3. <<>> \in NoneOrOne BY DEF NoneOrOne
<1>4. p \in FactRow /\ NamesItsTarget(p) /\ \A i \in DOMAIN a.targets : Active(a.targets[i])
    BY <1>1, <1>3, ProposedRow
<1>5. p.into = <<>> /\ p.targets = a.targets BY DEF Proposed
<1> HIDE DEF p
<1>6. \A m \in MemoryId : memories'[m].status = "forgotten" =>
                /\ memories[m].status = "forgotten"
                /\ versions'[m] = versions[m]
                /\ p.into # <<m>>
                /\ \A i \in DOMAIN p.targets : p.targets[i] # m
    BY <1>1, <1>4, <1>5 DEF Active
<1>7. proposals' = Append(proposals, p) BY <1>2 DEF p
<1>8. ProposalsShape' /\ ReviewsShape' /\ ForgottenLeavesNothing'
    BY <1>1, <1>4, <1>6, <1>7, ProposalAdded
<1>9. ManifestsShape' BY <1>1, EndKeepsManifests DEF FactsInv
<1> QED BY <1>1, <1>8, <1>9 DEF FactsInv, MemoriesShape, OneActivePerKey, Active, KeyOf

LEMMA AcceptKeeps == ASSUME FactsInv, NEW g \in Generations, RecordAndAccept(g) PROVE FactsInv'
<1>1. /\ InUse(g) /\ SourcesStand(g) /\ Len(proposals) < MaxProposals /\ EndGeneration(g)
      /\ UNCHANGED <<revision, reviews, confirmed>>
    BY DEF RecordAndAccept
<1>2. PICK a \in Answer(g), x \in Quotes, ordinal \in 1..MaxOrdinal :
        LET named == <<"answer", ordinal>>
            p == Proposed(g, a, x, "accepted", <<Written(a, named)>>)
        IN /\ Applicable(p) /\ KeyIsFree(p) /\ SuccessorThere(p, named)
           /\ proposals' = Append(proposals, p)
           /\ ApplyTo(p, Len(proposals) + 1, named)
    BY DEF RecordAndAccept
<1> DEFINE named == <<"answer", ordinal>>
           into == <<Written(a, named)>>
           p == Proposed(g, a, x, "accepted", into)
<1>3. named \in Name BY DEF Name
<1>4. /\ Applicable(p) /\ KeyIsFree(p) /\ proposals' = Append(proposals, p)
      /\ ApplyTo(p, Len(proposals) + 1, named)
    BY <1>2
<1>5. p.op = a.op /\ p.key = a.key /\ p.targets = a.targets /\ p.into = into BY DEF Proposed
<1>6. Written(p, named) = Written(a, named) BY <1>5 DEF Written, IsNew
<1>7. <<>> \in NoneOrOne BY DEF NoneOrOne
<1>8. Proposed(g, a, x, "accepted", <<>>) \in FactRow
        /\ NamesItsTarget(Proposed(g, a, x, "accepted", <<>>))
        /\ \A i \in DOMAIN a.targets : Active(a.targets[i])
    BY <1>1, <1>7, ProposedRow
<1>9. Written(a, named) \in MemoryId
    <2> DEFINE q == Proposed(g, a, x, "accepted", <<>>)
    <2>1. q.op = p.op /\ q.key = p.key /\ q.targets = p.targets /\ q.seen = p.seen /\ q.root = p.root
        BY DEF Proposed
    <2>2. Applicable(q) BY <1>4, <2>1 DEF Applicable, MayChange
    <2>3. Written(q, named) = Written(p, named) BY <2>1 DEF Written, IsNew
    <2> HIDE DEF p
    <2> QED BY <1>3, <1>6, <1>8, <2>2, <2>3, WrittenIsMemory
<1>10. into \in NoneOrOne BY <1>9 DEF NoneOrOne
<1> HIDE DEF into, named
<1>11. p \in FactRow /\ NamesItsTarget(p) BY <1>1, <1>10, ProposedRow
<1> HIDE DEF p
<1>12. Len(proposals) + 1 \in Nat BY LenProperties DEF FactsInv, ProposalsShape
<1>13. /\ MemoriesShape' /\ OneActivePerKey'
       /\ \A m \in MemoryId : memories'[m].status = "forgotten" =>
                /\ memories[m].status = "forgotten" /\ m # Written(p, named)
                /\ versions'[m] = versions[m]
    BY <1>3, <1>4, <1>11, <1>12, ApplyKeeps
<1>14. \A m \in MemoryId : memories'[m].status = "forgotten" =>
                /\ memories[m].status = "forgotten"
                /\ versions'[m] = versions[m]
                /\ p.into # <<m>>
                /\ \A i \in DOMAIN p.targets : p.targets[i] # m
    BY <1>5, <1>6, <1>8, <1>13 DEF Active, into
<1>15. ProposalsShape' /\ ReviewsShape' /\ ForgottenLeavesNothing'
    BY <1>1, <1>4, <1>11, <1>14, ProposalAdded
<1>16. ManifestsShape' BY <1>1, EndKeepsManifests DEF FactsInv
<1> QED BY <1>13, <1>15, <1>16 DEF FactsInv

LEMMA SourcesKeep ==
    ASSUME FactsInv,
           \/ \E g \in Generations : DropAnswer(g)
           \/ \E x \in Quotes : EditQuote(x)
    PROVE  FactsInv'
<1>1. UNCHANGED <<memories, versions, proposals, reviews, confirmed>> BY DEF DropAnswer, EditQuote
<1>2. ManifestsShape'
    <2>1. ASSUME NEW g \in Generations, DropAnswer(g) PROVE ManifestsShape'
        BY <2>1, EndKeepsManifests DEF FactsInv, DropAnswer
    <2>2. ASSUME NEW x \in Quotes, EditQuote(x) PROVE ManifestsShape'
        <3>1. revision[x] \in 0..MaxQuoteEdits /\ revision[x] < MaxQuoteEdits
            BY <2>2 DEF EditQuote, FactsInv, ManifestsShape
        <3>2. revision[x] + 1 \in 0..MaxQuoteEdits BY <3>1, FactsConstants
        <3> QED BY <2>2, <3>2 DEF EditQuote, FactsInv, ManifestsShape
    <2> QED BY <2>1, <2>2
<1> QED BY <1>1, <1>2 DEF FactsInv, MemoriesShape, ProposalsShape, ReviewsShape, OneActivePerKey,
                          Active, KeyOf, ForgottenLeavesNothing

LEMMA ErasureKeeps == ASSUME FactsInv, NEW m \in MemoryId, ReconcileErasure(m) PROVE FactsInv'
<1>1. ForgetMemory(m) /\ UNCHANGED <<revision, offered, cited, reviews, confirmed>>
    BY DEF ReconcileErasure
<1>2. /\ MemoriesShape' /\ ProposalsShape' /\ OneActivePerKey' /\ ForgottenLeavesNothing'
      /\ DOMAIN proposals' = DOMAIN proposals
    BY <1>1, ForgetMemoryKeeps
<1> QED BY <1>1, <1>2 DEF FactsInv, ManifestsShape, ReviewsShape

-----------------------------------------------------------------------------
(* Reviews *)

\* A row of the reviews ends or is confirmed; what it is about stays.
LEMMA ReviewMoves ==
    ASSUME reviews \in Seq(ReviewLine), NEW r \in DOMAIN reviews,
           NEW s \in {"pending", "confirmed", "applied", "rejected", "expired"},
           reviews' = [reviews EXCEPT ![r].state = s]
    PROVE  /\ reviews' \in Seq(ReviewLine) /\ DOMAIN reviews' = DOMAIN reviews
           /\ \A q \in DOMAIN reviews : /\ reviews'[q].kind = reviews[q].kind
                                        /\ reviews'[q].row = reviews[q].row
                                        /\ reviews'[q].memory = reviews[q].memory
<1> DEFINE line == [reviews[r] EXCEPT !.state = s]
<1>1. reviews[r] \in ReviewLine BY LenProperties
<1>2. /\ line \in ReviewLine /\ line.kind = reviews[r].kind /\ line.row = reviews[r].row
      /\ line.memory = reviews[r].memory
    BY <1>1 DEF ReviewLine
<1>3. reviews' = [reviews EXCEPT ![r] = line] OBVIOUS
<1> HIDE DEF line
<1> QED BY <1>2, <1>3, RowRewrittenInPlace

LEMMA IssueKeeps == ASSUME FactsInv, IssueReview PROVE FactsInv'
<1>1. UNCHANGED <<memories, versions, proposals, revision, offered, cited, confirmed>>
    BY DEF IssueReview
<1>2. PICK line \in ReviewLine :
        /\ reviews' = Append(reviews, line)
        /\ IF line.kind = "forget" THEN line.memory[1] \in MemoryId ELSE line.row \in DOMAIN proposals
    <2>1. ASSUME NEW p \in DOMAIN proposals, NEW kind \in {"accept", "reject"},
                 NewReview(kind, p, <<>>, 0)
          PROVE  \E line \in ReviewLine :
                    /\ reviews' = Append(reviews, line)
                    /\ IF line.kind = "forget" THEN line.memory[1] \in MemoryId
                       ELSE line.row \in DOMAIN proposals
        <3> DEFINE line == [kind |-> kind, row |-> p, memory |-> <<>>, version |-> 0, state |-> "pending"]
        <3>1. p \in Nat BY LenProperties DEF FactsInv, ProposalsShape
        <3>2. <<>> \in NoneOrOne BY DEF NoneOrOne
        <3>3. line \in ReviewLine BY <3>1, <3>2 DEF ReviewLine
        <3>4. reviews' = Append(reviews, line) BY <2>1 DEF NewReview
        <3>5. line.kind # "forget" /\ line.row = p OBVIOUS
        <3> QED BY <3>3, <3>4, <3>5
    <2>2. ASSUME NEW m \in MemoryId, NewReview("forget", 0, <<m>>, memories[m].version)
          PROVE  \E line \in ReviewLine :
                    /\ reviews' = Append(reviews, line)
                    /\ IF line.kind = "forget" THEN line.memory[1] \in MemoryId
                       ELSE line.row \in DOMAIN proposals
        <3> DEFINE line == [kind |-> "forget", row |-> 0, memory |-> <<m>>,
                            version |-> memories[m].version, state |-> "pending"]
        <3>1. memories[m].version \in Nat BY DEF FactsInv, MemoriesShape, MemoryRows
        <3>2. <<m>> \in NoneOrOne BY DEF NoneOrOne
        <3>3. line \in ReviewLine BY <3>1, <3>2 DEF ReviewLine
        <3>4. reviews' = Append(reviews, line) BY <2>2 DEF NewReview
        <3>5. line.kind = "forget" /\ line.memory[1] = m OBVIOUS
        <3> QED BY <3>3, <3>4, <3>5
    <2> QED BY <2>1, <2>2 DEF IssueReview
<1>3. /\ reviews' \in Seq(ReviewLine) /\ DOMAIN reviews' = DOMAIN reviews \cup {Len(reviews) + 1}
      /\ \A r \in DOMAIN reviews : reviews'[r] = reviews[r]
      /\ reviews'[Len(reviews) + 1] = line
    BY <1>2, RowAdded DEF FactsInv, ReviewsShape
<1>4. ReviewsShape' BY <1>1, <1>2, <1>3 DEF FactsInv, ReviewsShape
<1> QED BY <1>1, <1>4 DEF FactsInv, MemoriesShape, ProposalsShape, ManifestsShape, OneActivePerKey,
                          Active, KeyOf, ForgottenLeavesNothing

LEMMA ConfirmKeeps == ASSUME FactsInv, NEW r \in DOMAIN reviews, ConfirmReview(r) PROVE FactsInv'
<1>1. UNCHANGED <<memories, versions, proposals, revision, offered, cited>> BY DEF ConfirmReview
<1>2. PICK s \in {"confirmed", "rejected", "expired"} : reviews' = [reviews EXCEPT ![r].state = s]
    BY DEF ConfirmReview
<1>3. reviews \in Seq(ReviewLine) /\ confirmed \in Seq(Nat) /\ r \in Nat
    BY LenProperties DEF FactsInv, ReviewsShape
<1>4. /\ reviews' \in Seq(ReviewLine) /\ DOMAIN reviews' = DOMAIN reviews
      /\ \A q \in DOMAIN reviews : /\ reviews'[q].kind = reviews[q].kind
                                   /\ reviews'[q].row = reviews[q].row
                                   /\ reviews'[q].memory = reviews[q].memory
    BY <1>2, <1>3, ReviewMoves
<1>5. confirmed' \in Seq(Nat) /\ \A i \in DOMAIN confirmed' : confirmed'[i] \in DOMAIN reviews
    <2>1. CASE confirmed' = confirmed BY <1>3, <2>1 DEF FactsInv, ReviewsShape
    <2>2. CASE confirmed' = Append(confirmed, r)
        BY <1>3, <2>2, RowAdded DEF FactsInv, ReviewsShape
    <2> QED BY <2>1, <2>2 DEF ConfirmReview
<1>6. ReviewsShape' BY <1>1, <1>4, <1>5 DEF FactsInv, ReviewsShape
<1> QED BY <1>1, <1>6 DEF FactsInv, MemoriesShape, ProposalsShape, ManifestsShape, OneActivePerKey,
                          Active, KeyOf, ForgottenLeavesNothing

\* Two fields of a stored proposal change, the rest of it stays.
LEMMA FactRowMoves ==
    ASSUME NEW p \in FactRow, NEW state \in {"accepted", "rejected"}
    PROVE  LET moved == [p EXCEPT !.state = state]
           IN /\ moved \in FactRow /\ moved.op = p.op /\ moved.targets = p.targets
              /\ moved.into = p.into /\ moved.kept = p.kept
BY DEF FactRow

LEMMA FactRowBecomes ==
    ASSUME NEW p \in FactRow, NEW into \in NoneOrOne
    PROVE  LET moved == [p EXCEPT !.into = into]
           IN /\ moved \in FactRow /\ moved.op = p.op /\ moved.targets = p.targets
              /\ moved.into = into /\ moved.kept = p.kept
BY DEF FactRow

\* A reviewed candidate changes its state, and what it became.
LEMMA ProposalMoves ==
    ASSUME FactsInv, NEW i \in DOMAIN proposals,
           NEW state \in {"accepted", "rejected"}, NEW into \in NoneOrOne,
           \/ proposals' = [proposals EXCEPT ![i].state = state, ![i].into = into]
           \/ proposals' = [proposals EXCEPT ![i].state = state] /\ into = proposals[i].into,
           \A m \in MemoryId : memories'[m].status = "forgotten" =>
                /\ memories[m].status = "forgotten" /\ versions'[m] = versions[m]
                /\ into = proposals[i].into \/ into # <<m>>
    PROVE  ProposalsShape' /\ ForgottenLeavesNothing' /\ DOMAIN proposals' = DOMAIN proposals
<1> DEFINE p == proposals[i]
           moved == [p EXCEPT !.state = state]
           became == [moved EXCEPT !.into = into]
<1>1. proposals \in Seq(FactRow) /\ Len(proposals) <= MaxProposals /\ p \in FactRow
    BY LenProperties DEF FactsInv, ProposalsShape
<1>2. /\ moved \in FactRow /\ moved.op = p.op /\ moved.targets = p.targets
      /\ moved.into = p.into /\ moved.kept = p.kept
    BY <1>1, FactRowMoves
<1>3. /\ became \in FactRow /\ became.op = moved.op /\ became.targets = moved.targets
      /\ became.into = into /\ became.kept = moved.kept
    <2> HIDE DEF moved
    <2> QED BY <1>2, FactRowBecomes
<1>4. PICK row : /\ proposals' = [proposals EXCEPT ![i] = row]
                 /\ row \in FactRow /\ row.op = p.op /\ row.targets = p.targets
                 /\ row.into = into /\ row.kept = p.kept
    <2>1. CASE proposals' = [proposals EXCEPT ![i].state = state] /\ into = p.into
        <3>1. proposals' = [proposals EXCEPT ![i] = moved] BY <2>1
        <3> HIDE DEF moved, p
        <3> QED BY <1>2, <2>1, <3>1
    <2>2. CASE proposals' = [proposals EXCEPT ![i].state = state, ![i].into = into]
        <3>1. proposals' = [proposals EXCEPT ![i] = became] BY <1>1, <2>2
        <3> HIDE DEF moved, became, p
        <3> QED BY <1>2, <1>3, <3>1
    <2> QED BY <2>1, <2>2
<1> HIDE DEF moved, became
<1>6. /\ proposals' \in Seq(FactRow) /\ Len(proposals') = Len(proposals)
      /\ DOMAIN proposals' = DOMAIN proposals
      /\ \A j \in DOMAIN proposals : proposals'[j] = IF j = i THEN row ELSE proposals[j]
    BY <1>1, <1>4, RowRewrittenInPlace
<1>7. ProposalsShape' BY <1>1, <1>4, <1>6 DEF FactsInv, ProposalsShape, NamesItsTarget
<1>8. ForgottenLeavesNothing'
    <2> SUFFICES ASSUME NEW m \in MemoryId, memories'[m].status = "forgotten"
                 PROVE  /\ \A v \in 1..MaxVersion : versions'[m][v].body = 0
                        /\ \A q \in DOMAIN proposals :
                            m \in {proposals'[q].targets[k] : k \in DOMAIN proposals'[q].targets}
                              \/ proposals'[q].into = <<m>>
                            => ~proposals'[q].kept
        BY <1>6 DEF ForgottenLeavesNothing
    <2>1. /\ memories[m].status = "forgotten" /\ versions'[m] = versions[m]
          /\ into = p.into \/ into # <<m>>
        OBVIOUS
    <2>2. /\ \A v \in 1..MaxVersion : versions[m][v].body = 0
          /\ \A q \in DOMAIN proposals :
                m \in {proposals[q].targets[k] : k \in DOMAIN proposals[q].targets}
                  \/ proposals[q].into = <<m>>
                => ~proposals[q].kept
        BY <2>1 DEF FactsInv, ForgottenLeavesNothing
    <2>3. ASSUME NEW q \in DOMAIN proposals,
                 m \in {proposals'[q].targets[k] : k \in DOMAIN proposals'[q].targets}
                   \/ proposals'[q].into = <<m>>
          PROVE  ~proposals'[q].kept
        <3>1. CASE q # i
            <4>1. proposals'[q] = proposals[q] BY <1>6, <3>1
            <4> QED BY <2>2, <2>3, <4>1
        <3>2. CASE q = i
            <4>1. proposals'[q] = row BY <1>6, <3>2
            <4>2. m \in {p.targets[k] : k \in DOMAIN p.targets} \/ into = <<m>>
                <5>1. proposals'[q].targets = p.targets /\ proposals'[q].into = into
                    BY <1>4, <4>1
                <5> HIDE DEF p
                <5> QED BY ONLY <2>3, <5>1
            <4>3. m \in {p.targets[k] : k \in DOMAIN p.targets} \/ p.into = <<m>>
                BY <2>1, <4>2
            <4>4. ~p.kept BY <2>2, <4>3
            <4> QED BY <1>4, <4>1, <4>4
        <3> QED BY <3>1, <3>2
    <2> QED BY <2>1, <2>2, <2>3
<1> QED BY <1>6, <1>7, <1>8

LEMMA CarryOutKeeps ==
    ASSUME FactsInv, NEW r \in DOMAIN reviews, ReviewStands(r), ~ReviewRefused(r), CarryOut(r)
    PROVE  /\ MemoriesShape' /\ ProposalsShape' /\ OneActivePerKey' /\ ForgottenLeavesNothing'
           /\ DOMAIN proposals' = DOMAIN proposals
<1> DEFINE i == reviews[r].row
           p == proposals[i]
<1>1. reviews[r].kind \in {"accept", "reject", "forget"} /\ i \in Nat
    <2>1. reviews[r] \in ReviewLine BY LenProperties DEF FactsInv, ReviewsShape
    <2> QED BY <2>1 DEF ReviewLine
<1>2. CASE reviews[r].kind = "forget"
    <2>1. reviews[r].memory[1] \in MemoryId BY <1>2 DEF FactsInv, ReviewsShape
    <2>2. ForgetMemory(reviews[r].memory[1]) BY <1>2 DEF CarryOut, ForgetReviewed
    <2> QED BY <2>1, <2>2, ForgetMemoryKeeps
<1>3. reviews[r].kind # "forget" => i \in DOMAIN proposals /\ p \in FactRow /\ NamesItsTarget(p)
                                    /\ i \in Row
    <2> SUFFICES ASSUME reviews[r].kind # "forget"
                 PROVE  i \in DOMAIN proposals /\ p \in FactRow /\ NamesItsTarget(p) /\ i \in Row
        OBVIOUS
    <2>1. i \in DOMAIN proposals BY DEF FactsInv, ReviewsShape
    <2>2. /\ p \in FactRow /\ Len(proposals) \in Nat /\ i \in 1..Len(proposals)
          /\ Len(proposals) <= MaxProposals
        BY <2>1, LenProperties DEF FactsInv, ProposalsShape
    <2>3. i \in Row BY <2>2, FactsConstants DEF Row
    <2>4. NamesItsTarget(p) BY <2>1 DEF FactsInv, ProposalsShape
    <2> QED BY <2>1, <2>2, <2>3, <2>4
<1>4. CASE reviews[r].kind = "reject"
    <2>1. proposals' = [proposals EXCEPT ![i].state = "rejected"] /\ UNCHANGED <<memories, versions>>
        BY <1>4 DEF CarryOut
    <2>2. p.into \in NoneOrOne BY <1>3, <1>4 DEF FactRow
    <2> HIDE DEF i
    <2>3. ProposalsShape' /\ ForgottenLeavesNothing' /\ DOMAIN proposals' = DOMAIN proposals
        BY <1>3, <1>4, <2>1, <2>2, ProposalMoves
    <2> QED BY <2>1, <2>3 DEF FactsInv, MemoriesShape, OneActivePerKey, Active, KeyOf
<1>5. CASE reviews[r].kind = "accept"
    <2> DEFINE named == ReviewedName(r)
               w == Written(p, named)
    <2>1. /\ ApplyTo(p, i, named)
          /\ proposals' = [proposals EXCEPT ![i].state = "accepted", ![i].into = <<w>>]
        BY <1>5 DEF CarryOut
    <2>2. Applicable(p) /\ KeyIsFree(p) BY <1>5 DEF ReviewRefused
    <2>3. named \in Name BY <1>3, <1>5 DEF ReviewedName, Name
    <2> HIDE DEF i, p, named
    <2>4. w \in MemoryId BY <1>3, <1>5, <2>2, <2>3, WrittenIsMemory
    <2>5. /\ MemoriesShape' /\ OneActivePerKey'
          /\ \A m \in MemoryId : memories'[m].status = "forgotten" =>
                /\ memories[m].status = "forgotten" /\ m # w
                /\ versions'[m] = versions[m]
        BY <1>1, <1>3, <1>5, <2>1, <2>2, <2>3, ApplyKeeps
    <2> HIDE DEF w
    <2> DEFINE into == <<w>>
    <2>6. into \in NoneOrOne BY <2>4 DEF NoneOrOne
    <2>7. \A m \in MemoryId : memories'[m].status = "forgotten" =>
                /\ memories[m].status = "forgotten" /\ versions'[m] = versions[m]
                /\ into = proposals[i].into \/ into # <<m>>
        BY <2>5
    <2>8. proposals' = [proposals EXCEPT ![i].state = "accepted", ![i].into = into] BY <2>1
    <2> HIDE DEF into
    <2>9. ProposalsShape' /\ ForgottenLeavesNothing' /\ DOMAIN proposals' = DOMAIN proposals
        BY <1>3, <1>5, <2>6, <2>7, <2>8, ProposalMoves
    <2> QED BY <2>5, <2>9
<1> QED BY <1>1, <1>2, <1>4, <1>5

LEMMA ExecuteKeeps == ASSUME FactsInv, ExecuteReview PROVE FactsInv'
<1>1. confirmed # <<>> /\ confirmed' = Tail(confirmed) /\ UNCHANGED <<revision, offered, cited>>
    BY DEF ExecuteReview
<1> DEFINE r == NextReview
<1>2. confirmed \in Seq(Nat) /\ reviews \in Seq(ReviewLine) BY DEF FactsInv, ReviewsShape
<1>3. r \in DOMAIN reviews BY <1>1, <1>2, HeadTaken DEF NextReview, FactsInv, ReviewsShape
<1>4. PICK s \in {"applied", "rejected", "expired"} : reviews' = [reviews EXCEPT ![r].state = s]
    BY DEF ExecuteReview, EndReview
<1> HIDE DEF r
<1>5. /\ reviews' \in Seq(ReviewLine) /\ DOMAIN reviews' = DOMAIN reviews
      /\ \A q \in DOMAIN reviews : /\ reviews'[q].kind = reviews[q].kind
                                   /\ reviews'[q].row = reviews[q].row
                                   /\ reviews'[q].memory = reviews[q].memory
    BY <1>2, <1>3, <1>4, ReviewMoves
<1>6. confirmed' \in Seq(Nat) /\ \A i \in DOMAIN confirmed' : confirmed'[i] \in DOMAIN reviews
    <2>1. /\ Tail(confirmed) \in Seq(Nat)
          /\ \A i \in DOMAIN Tail(confirmed) : \E j \in DOMAIN confirmed : Tail(confirmed)[i] = confirmed[j]
        BY <1>1, <1>2, HeadTaken
    <2> QED BY <1>1, <2>1 DEF FactsInv, ReviewsShape
<1>7. /\ MemoriesShape' /\ ProposalsShape' /\ OneActivePerKey' /\ ForgottenLeavesNothing'
      /\ DOMAIN proposals' = DOMAIN proposals
    <2>1. CASE UNCHANGED <<memories, versions, proposals>>
        BY <2>1 DEF FactsInv, MemoriesShape, ProposalsShape, OneActivePerKey, Active, KeyOf,
                    ForgottenLeavesNothing
    <2>2. CASE ReviewStands(r) /\ ~ReviewRefused(r) /\ CarryOut(r)
        BY <1>3, <2>2, CarryOutKeeps
    <2> QED BY <2>1, <2>2 DEF ExecuteReview, r
<1>8. ReviewsShape' BY <1>5, <1>6, <1>7 DEF FactsInv, ReviewsShape
<1>9. ManifestsShape' BY <1>1 DEF FactsInv, ManifestsShape
<1> QED BY <1>7, <1>8, <1>9 DEF FactsInv

-----------------------------------------------------------------------------
LEMMA FactsInvInit == FactsInit => FactsInv
<1> SUFFICES ASSUME FactsInit PROVE FactsInv OBVIOUS
<1>1. MemoriesShape
    BY FactsConstants DEF FactsInit, MemoriesShape, MemoryRows, VersionRows, VersionRow, NoVersion
<1>2. /\ proposals = <<>> /\ reviews = <<>> /\ confirmed = <<>> BY DEF FactsInit
<1>3. ProposalsShape BY <1>2, FactsConstants DEF ProposalsShape
<1>4. ReviewsShape BY <1>2 DEF ReviewsShape
<1>5. ManifestsShape
    <2>1. Resting \in [{} -> Nat] BY DEF Resting
    <2>2. {} \in SUBSET MemoryId OBVIOUS
    <2>3. Resting \in UNION {[S -> Nat] : S \in SUBSET MemoryId} BY <2>1, <2>2
    <2> HIDE DEF Resting
    <2> QED BY <2>3, FactsConstants DEF FactsInit, ManifestsShape
<1>6. OneActivePerKey BY DEF FactsInit, OneActivePerKey, Active
<1>7. ForgottenLeavesNothing BY DEF FactsInit, ForgottenLeavesNothing
<1> QED BY <1>1, <1>3, <1>4, <1>5, <1>6, <1>7 DEF FactsInv

LEMMA FactsInvStep == FactsInv /\ [FactsNext]_factsVars => FactsInv'
<1> SUFFICES ASSUME FactsInv, [FactsNext]_factsVars PROVE FactsInv' OBVIOUS
<1>1. CASE UNCHANGED factsVars
    BY <1>1 DEF factsVars, FactsInv, MemoriesShape, ProposalsShape, ManifestsShape, ReviewsShape,
                OneActivePerKey, Active, KeyOf, ForgottenLeavesNothing
<1>2. CASE FactsNext
    BY <1>2, SealKeeps, CandidateKeeps, AcceptKeeps, SourcesKeep, ErasureKeeps, IssueKeeps,
       ConfirmKeeps, ExecuteKeeps DEF FactsNext
<1> QED BY <1>1, <1>2

\* For any keys, messages and numbers of generations, proposals, versions and reviews: two active
\* memories never answer for one key.
THEOREM FactsSpecOneActivePerKey == FactsSpec => []OneActivePerKey
<1>1. FactsInv /\ [][FactsNext]_factsVars => []FactsInv
    BY FactsInvStep, PTL
<1>2. FactsInv => OneActivePerKey BY DEF FactsInv
<1> QED BY <1>1, <1>2, FactsInvInit, PTL DEF FactsSpec

\* Likewise: a forgotten memory leaves no text, in a version or in a proposal that made it or meant it.
THEOREM FactsSpecForgottenLeavesNothing == FactsSpec => []ForgottenLeavesNothing
<1>1. FactsInv /\ [][FactsNext]_factsVars => []FactsInv
    BY FactsInvStep, PTL
<1>2. FactsInv => ForgottenLeavesNothing BY DEF FactsInv
<1> QED BY <1>1, <1>2, FactsInvInit, PTL DEF FactsSpec

-----------------------------------------------------------------------------
(***************************************************************************)
(* The vectors of the texts. No record of a text that is gone waits for a  *)
(* vector or has one, and the space in use has a record of every text that *)
(* was staged; the latter is inductive only for the active space, which    *)
(* was staged in full when it was activated.                               *)
(***************************************************************************)

EmbeddingShape ==
    /\ space \in [Config -> SpaceState]
    /\ body \in [Texts -> BodyState]
    /\ record \in [Piece -> RecordState]
    /\ embedJob \in [Piece -> [state : {"none", "pending", "leased", "finished", "dead_letter"},
                               attempt : Nat]]
    /\ embedding \in [Embedders ->
         [at : Progress, piece : Piece \cup {<<0, "none">>}, attempt : Nat]]
    /\ \A w \in Embedders : embedding[w].at # "idle" => embedding[w].piece \in Piece

\* Nothing of a text that is gone is ready or waits.
GoneHasNoVector ==
    \A p \in Piece : body[p[2]] = "forgotten" \/ erasing = "done" => record[p] \notin {"pending", "ready"}

\* The space in use lacks no text that was staged.
ActiveIsStaged ==
    \A p \in Piece :
        space[p[1]] = "active" /\ body[p[2]] = "staged" /\ erasing = "no" => record[p] # "none"

EmbeddingInv == EmbeddingShape /\ GoneHasNoVector /\ ActiveIsStaged

LEMMA PieceParts == \A p \in Piece : p[1] \in Config /\ p[2] \in Texts /\ p = <<p[1], p[2]>>
BY DEF Piece

LEMMA EmbeddingInvInit == EmbeddingInit => EmbeddingInv
<1> SUFFICES ASSUME EmbeddingInit PROVE EmbeddingInv OBVIOUS
<1>1. EmbeddingShape
    BY DEF EmbeddingInit, EmbeddingShape, SpaceState, BodyState, RecordState, Progress, EmbedderIdle
<1>2. GoneHasNoVector BY DEF EmbeddingInit, GoneHasNoVector
<1>3. ActiveIsStaged
    <2>1. \A t \in Texts : body[t] # "staged" BY DEF EmbeddingInit
    <2> QED BY <2>1, PieceParts DEF ActiveIsStaged
<1> QED BY <1>1, <1>2, <1>3 DEF EmbeddingInv

-----------------------------------------------------------------------------
(* The texts *)

LEMMA StageKeeps == ASSUME EmbeddingInv, NEW t \in Texts, StageText(t) PROVE EmbeddingInv'
<1>1. /\ body[t] \in {"unstaged", "absent"} /\ erasing = "no" /\ erasing' = erasing
      /\ body' = [body EXCEPT ![t] = "staged"]
      /\ record' = [p \in Piece |-> IF p[2] = t /\ TakesRecords(p[1]) /\ record[p] = "none"
                              THEN "pending" ELSE record[p]]
      /\ UNCHANGED <<space, embedJob, embedding>> /\ EmbeddingShape
    BY DEF StageText, Staged, EmbeddingInv
<1>2. EmbeddingShape' BY <1>1 DEF EmbeddingShape, BodyState, RecordState
<1>3. \A u \in Texts : body'[u] = IF u = t THEN "staged" ELSE body[u]
    BY <1>1 DEF EmbeddingShape
<1>4. GoneHasNoVector' BY <1>1, <1>3, PieceParts DEF EmbeddingInv, GoneHasNoVector
<1>5. ActiveIsStaged'
    BY <1>1, <1>3, PieceParts DEF EmbeddingInv, ActiveIsStaged, TakesRecords, EmbeddingShape
<1> QED BY <1>2, <1>4, <1>5 DEF EmbeddingInv

\* A text that arrives or is replaced.
LEMMA TextMoves ==
    ASSUME EmbeddingInv, NEW t \in Texts, MessageArrives(t) \/ ReplaceText(t)
    PROVE  EmbeddingInv'
<1>1. /\ erasing' = erasing /\ UNCHANGED <<space, record, embedJob, embedding>> /\ EmbeddingShape
      /\ \E s \in {"unstaged", "replaced"} : body' = [body EXCEPT ![t] = s]
    BY DEF MessageArrives, ReplaceText, EmbeddingInv
<1>2. /\ EmbeddingShape'
      /\ \A u \in Texts : body'[u] = body[u] \/ body'[u] \in {"unstaged", "replaced"}
    BY <1>1 DEF EmbeddingShape, BodyState
<1> QED BY <1>1, <1>2, PieceParts DEF EmbeddingInv, GoneHasNoVector, ActiveIsStaged

LEMMA ForgetKeeps == ASSUME EmbeddingInv, NEW t \in Texts, ForgetText(t) PROVE EmbeddingInv'
<1>1. /\ erasing' = erasing /\ UNCHANGED <<space, embedJob, embedding>> /\ EmbeddingShape
      /\ body' = [body EXCEPT ![t] = "forgotten"]
      /\ record' = [p \in Piece |-> IF p[2] = t /\ record[p] # "none" THEN "invalidated"
                                    ELSE record[p]]
    BY DEF ForgetText, EmbeddingInv
<1>2. EmbeddingShape' BY <1>1 DEF EmbeddingShape, BodyState, RecordState
<1>3. \A u \in Texts : body'[u] = IF u = t THEN "forgotten" ELSE body[u]
    BY <1>1 DEF EmbeddingShape
<1>4. GoneHasNoVector' BY <1>1, <1>3, PieceParts DEF EmbeddingInv, GoneHasNoVector
<1>5. ActiveIsStaged' BY <1>1, <1>3, PieceParts DEF EmbeddingInv, ActiveIsStaged
<1> QED BY <1>2, <1>4, <1>5 DEF EmbeddingInv

LEMMA ErasingKeeps == ASSUME EmbeddingInv, WithdrawTexts \/ DeleteRecords PROVE EmbeddingInv'
<1>1. /\ UNCHANGED <<space, body, embedJob, embedding>> /\ EmbeddingShape
      /\ erasing' # "no"
      /\ \/ (erasing' = erasing \/ erasing' = "requested") /\ record' = record
         \/ record' = [p \in Piece |-> "none"]
    BY DEF WithdrawTexts, DeleteRecords, EmbeddingInv
<1>2. EmbeddingShape' BY <1>1 DEF EmbeddingShape, RecordState
<1> QED BY <1>1, <1>2 DEF EmbeddingInv, GoneHasNoVector, ActiveIsStaged

LEMMA RollbackKeeps == ASSUME EmbeddingInv, NEW c \in Config, RequestRollback(c) PROVE EmbeddingInv'
<1>1. /\ UNCHANGED <<body, erasing, record, embedJob, embedding>> /\ EmbeddingShape
      /\ space' = [space EXCEPT ![c] = "building"]
    BY DEF RequestRollback, EmbeddingInv
<1>2. EmbeddingShape' BY <1>1 DEF EmbeddingShape, SpaceState
<1>3. \A d \in Config : space'[d] = "active" => space[d] = "active" BY <1>1 DEF EmbeddingShape
<1> QED BY <1>1, <1>2, <1>3, PieceParts DEF EmbeddingInv, GoneHasNoVector, ActiveIsStaged

-----------------------------------------------------------------------------
(* The tick *)

LEMMA TickKeeps == ASSUME EmbeddingInv, EmbeddingTick PROVE EmbeddingInv'
<1>1. /\ UNCHANGED <<body, erasing, embedding>> /\ EmbeddingShape
      /\ space' = AdvancedSpaces
      /\ record' = [p \in Piece |->
                     IF GivenUp(p) THEN "failed"
                     ELSE IF WithoutJob(p) /\ p[2] \notin CurrentTargets THEN "invalidated"
                     ELSE BackfilledRecords[p]]
      /\ embedJob' = [p \in Piece |-> IF WithoutJob(p) /\ p[2] \in CurrentTargets
                                    THEN [embedJob[p] EXCEPT !.state = "pending"]
                                    ELSE embedJob[p]]
    BY DEF EmbeddingTick, EmbeddingInv
<1>2. \A p \in Piece : /\ BackfilledRecords[p] \in RecordState
                       /\ \/ BackfilledRecords[p] = record[p]
                          \/ BackfilledRecords[p] = "pending" /\ p[2] \in CurrentTargets
    BY <1>1, PieceParts DEF EmbeddingShape, BackfilledRecords, RecordState, Missing
<1>3. \A p \in Piece : /\ record'[p] \in RecordState
                       /\ record'[p] = "none" => record[p] = "none"
                       /\ record'[p] \in {"pending", "ready"} =>
                            record'[p] = record[p] \/ p[2] \in CurrentTargets
    BY <1>1, <1>2 DEF RecordState
<1>4. space' \in [Config -> SpaceState]
    <2>1. \A c \in Config : EnsuredSpaces[c] \in SpaceState
        BY <1>1 DEF EnsuredSpaces, EmbeddingShape, SpaceState
    <2> QED BY <1>1, <2>1 DEF AdvancedSpaces, SpaceState
<1>5. embedJob' \in [Piece -> [state : {"none", "pending", "leased", "finished", "dead_letter"},
                               attempt : Nat]]
    BY <1>1 DEF EmbeddingShape
<1>6. record' \in [Piece -> RecordState] BY <1>1, <1>3
<1>7. EmbeddingShape' BY <1>1, <1>4, <1>5, <1>6 DEF EmbeddingShape
<1>8. GoneHasNoVector' BY <1>1, <1>3 DEF EmbeddingInv, GoneHasNoVector, CurrentTargets
<1>9. \A c \in Config : space'[c] = "active" => space[c] = "active" \/ Covered(c)
    <2>1. \A c \in Config : EnsuredSpaces[c] = "active" => space[c] = "active"
        BY <1>1 DEF EnsuredSpaces, EmbeddingShape
    <2> QED BY <1>1, <2>1 DEF AdvancedSpaces, Switches
<1>10. ActiveIsStaged'
    <2> SUFFICES ASSUME NEW p \in Piece, space'[p[1]] = "active", body[p[2]] = "staged", erasing = "no",
                        record'[p] = "none"
                 PROVE  FALSE
        BY <1>1 DEF ActiveIsStaged
    <2>1. record[p] = "none" BY <1>3
    <2>2. p[2] \in CurrentTargets BY PieceParts DEF CurrentTargets
    <2>3. CASE space[p[1]] = "active" BY <2>1, <2>3 DEF EmbeddingInv, ActiveIsStaged
    <2>4. CASE Covered(p[1])
        <3>1. record[<<p[1], p[2]>>] = "ready" BY <2>2, <2>4 DEF Covered
        <3> QED BY <2>1, <3>1, PieceParts
    <2> QED BY <1>9, <2>3, <2>4, PieceParts
<1> QED BY <1>7, <1>8, <1>10 DEF EmbeddingInv

-----------------------------------------------------------------------------
(* The job of a record *)

\* A slot moves on with its piece, or is free again.
LEMMA SlotMoves ==
    ASSUME EmbeddingShape, NEW w \in Embedders,
           \/ \E progress \in Progress \ {"idle"} : embedding[w].at # "idle" /\ Reaches(w, progress)
           \/ embedding' = [embedding EXCEPT ![w] = EmbedderIdle]
           \/ embedding' = embedding
    PROVE  /\ embedding' \in [Embedders -> [at : Progress, piece : Piece \cup {<<0, "none">>}, attempt : Nat]]
           /\ \A v \in Embedders : embedding'[v].at # "idle" => embedding'[v].piece \in Piece
<1>1. CASE \E progress \in Progress \ {"idle"} : embedding[w].at # "idle" /\ Reaches(w, progress)
    <2>1. PICK progress \in Progress \ {"idle"} :
            embedding[w].at # "idle" /\ embedding' = [embedding EXCEPT ![w].at = progress]
        BY <1>1 DEF Reaches
    <2>2. embedding' \in [Embedders -> [at : Progress, piece : Piece \cup {<<0, "none">>}, attempt : Nat]]
        BY <2>1 DEF EmbeddingShape
    <2>3. \A v \in Embedders : embedding'[v].piece = embedding[v].piece
                            /\ (v # w => embedding'[v].at = embedding[v].at)
        BY <2>1 DEF EmbeddingShape
    <2> QED BY <2>1, <2>2, <2>3 DEF EmbeddingShape
<1>2. CASE embedding' = [embedding EXCEPT ![w] = EmbedderIdle]
    BY <1>2 DEF EmbeddingShape, EmbedderIdle, Progress
<1>3. CASE embedding' = embedding BY <1>3 DEF EmbeddingShape
<1> QED BY <1>1, <1>2, <1>3

\* A job takes another state.
LEMMA JobMoves ==
    ASSUME EmbeddingShape, NEW p,
           NEW s \in {"none", "pending", "leased", "finished", "dead_letter"},
           embedJob' = [embedJob EXCEPT ![p].state = s]
    PROVE  embedJob' \in [Piece -> [state : {"none", "pending", "leased", "finished", "dead_letter"},
                                    attempt : Nat]]
BY DEF EmbeddingShape

\* The texts and the spaces stand, and a record that becomes ready is of a text that stands.
LEMMA RecordMoves ==
    ASSUME EmbeddingInv, UNCHANGED <<space, body, erasing>>,
           record' \in [Piece -> RecordState],
           \A p \in Piece : /\ record'[p] = "none" => record[p] = "none"
                            /\ record'[p] \in {"pending", "ready"} =>
                                 record'[p] = record[p] \/ p[2] \in CurrentTargets
    PROVE  GoneHasNoVector' /\ ActiveIsStaged'
<1>1. GoneHasNoVector' BY DEF EmbeddingInv, GoneHasNoVector, CurrentTargets
<1>2. ActiveIsStaged' BY DEF EmbeddingInv, ActiveIsStaged
<1> QED BY <1>1, <1>2

\* A record takes a state that is not that of a vector.
LEMMA RecordsStand ==
    ASSUME EmbeddingInv, UNCHANGED <<space, body, erasing>>,
           \/ record' = record
           \/ \E p \in Piece, s \in {"invalidated", "failed"} : record' = [record EXCEPT ![p] = s]
    PROVE  record' \in [Piece -> RecordState] /\ GoneHasNoVector' /\ ActiveIsStaged'
<1>1. record \in [Piece -> RecordState] BY DEF EmbeddingInv, EmbeddingShape
<1>2. CASE record' = record BY <1>1, <1>2, RecordMoves
<1>3. CASE \E p \in Piece, s \in {"invalidated", "failed"} : record' = [record EXCEPT ![p] = s]
    <2>1. PICK p \in Piece, s \in {"invalidated", "failed"} : record' = [record EXCEPT ![p] = s]
        BY <1>3
    <2>2. /\ record' \in [Piece -> RecordState]
          /\ \A q \in Piece : record'[q] = IF q = p THEN s ELSE record[q]
        BY <1>1, <2>1 DEF RecordState
    <2> QED BY <2>2, RecordMoves
<1> QED BY <1>2, <1>3

LEMMA ClaimPieceKeeps ==
    ASSUME EmbeddingInv, NEW w \in Embedders, NEW p \in Piece, ClaimPiece(w, p)
    PROVE  EmbeddingInv'
<1>1. /\ UNCHANGED <<space, body, erasing, record>> /\ EmbeddingShape
      /\ embedJob' = [embedJob EXCEPT ![p] = [state |-> "leased", attempt |-> @.attempt + 1]]
      /\ embedding' = [embedding EXCEPT ![w] = [at |-> "claimed", piece |-> p,
                                                attempt |-> embedJob[p].attempt + 1]]
    BY DEF ClaimPiece, EmbeddingInv
<1>2. embedJob[p].attempt + 1 \in Nat BY <1>1 DEF EmbeddingShape
<1>3. embedJob' \in [Piece -> [state : {"none", "pending", "leased", "finished", "dead_letter"},
                               attempt : Nat]]
    BY <1>1, <1>2 DEF EmbeddingShape
<1>4. /\ embedding' \in [Embedders -> [at : Progress, piece : Piece \cup {<<0, "none">>}, attempt : Nat]]
      /\ \A v \in Embedders : embedding'[v].at # "idle" => embedding'[v].piece \in Piece
    BY <1>1, <1>2 DEF EmbeddingShape, Progress
<1>5. EmbeddingShape' BY <1>1, <1>3, <1>4 DEF EmbeddingShape
<1>6. GoneHasNoVector' /\ ActiveIsStaged' BY <1>1, RecordsStand
<1> QED BY <1>5, <1>6 DEF EmbeddingInv

LEMMA PreparationProgress ==
    ASSUME NEW w \in Embedders
    PROVE  Preparation(w) \in Progress \ {"idle"}
BY DEF Preparation, Progress

LEMMA CompleteKeeps == ASSUME EmbeddingInv, NEW w \in Embedders, CompletePiece(w) PROVE EmbeddingInv'
<1> DEFINE p == embedding[w].piece
<1>1. /\ UNCHANGED <<space, body, erasing, embedJob>> /\ EmbeddingShape
      /\ embedding[w].at = "calling"
      /\ Reaches(w, IF PreparedAgain(w) = "calling" THEN "done" ELSE PreparedAgain(w))
      /\ record' = IF PreparedAgain(w) = "calling" THEN [record EXCEPT ![p] = "ready"] ELSE record
    BY DEF CompletePiece, EmbeddingInv
<1>2. p \in Piece BY <1>1 DEF EmbeddingShape
<1>3. /\ embedding' \in [Embedders -> [at : Progress, piece : Piece \cup {<<0, "none">>}, attempt : Nat]]
      /\ \A v \in Embedders : embedding'[v].at # "idle" => embedding'[v].piece \in Piece
    <2>1. (IF PreparedAgain(w) = "calling" THEN "done" ELSE PreparedAgain(w)) \in Progress \ {"idle"}
        BY PreparationProgress DEF PreparedAgain, Progress
    <2> QED BY <1>1, <2>1, SlotMoves
<1>4. PreparedAgain(w) = "calling" => p[2] \in CurrentTargets
    <2>1. record[p] \in RecordState BY <1>1, <1>2 DEF EmbeddingShape
    <2> QED BY <2>1 DEF PreparedAgain, Preparation, RecordState
<1>5. record' \in [Piece -> RecordState] /\ GoneHasNoVector' /\ ActiveIsStaged'
    <2>1. CASE PreparedAgain(w) = "calling"
        <3>1. /\ record' \in [Piece -> RecordState]
              /\ \A q \in Piece : record'[q] = IF q = p THEN "ready" ELSE record[q]
            BY <1>1, <1>2, <2>1 DEF EmbeddingShape, RecordState
        <3> QED BY <1>1, <1>4, <2>1, <3>1, RecordMoves
    <2>2. CASE PreparedAgain(w) # "calling" BY <1>1, <2>2, RecordsStand
    <2> QED BY <2>1, <2>2
<1>6. EmbeddingShape' BY <1>1, <1>3, <1>5 DEF EmbeddingShape
<1> QED BY <1>5, <1>6 DEF EmbeddingInv

\* The other steps of a slot, and leases that are taken back.
LEMMA SlotKeeps ==
    ASSUME EmbeddingInv, NEW w \in Embedders,
           \/ PreparePiece(w) \/ ProviderRefuses(w) \/ RecordFailure(w) \/ SettlePiece(w)
           \/ EmbedderDies(w)
    PROVE  EmbeddingInv'
<1>1. UNCHANGED <<space, body, erasing>> /\ EmbeddingShape
    BY DEF PreparePiece, ProviderRefuses, RecordFailure, SettlePiece, EmbedderDies, EmbeddingInv
<1>2. /\ embedding' \in [Embedders -> [at : Progress, piece : Piece \cup {<<0, "none">>}, attempt : Nat]]
      /\ \A v \in Embedders : embedding'[v].at # "idle" => embedding'[v].piece \in Piece
    <2>1. \/ \E progress \in Progress \ {"idle"} : embedding[w].at # "idle" /\ Reaches(w, progress)
          \/ embedding' = [embedding EXCEPT ![w] = EmbedderIdle]
        <3>1. CASE PreparePiece(w) BY <3>1, PreparationProgress DEF PreparePiece
        <3>2. CASE ProviderRefuses(w) BY <3>2 DEF ProviderRefuses, Progress
        <3>3. CASE RecordFailure(w) BY <3>3 DEF RecordFailure, MustRecordFailure, Progress
        <3>4. CASE SettlePiece(w) \/ EmbedderDies(w) BY <3>4 DEF SettlePiece, EmbedderDies
        <3> QED BY <3>1, <3>2, <3>3, <3>4
    <2> QED BY <1>1, <2>1, SlotMoves
<1>3. \/ record' = record
      \/ \E p \in Piece, s \in {"invalidated", "failed"} : record' = [record EXCEPT ![p] = s]
    <2>1. CASE RecordFailure(w)
        <3>1. embedding[w].piece \in Piece
            BY <1>1, <2>1 DEF RecordFailure, MustRecordFailure, EmbeddingShape
        <3> QED BY <2>1, <3>1 DEF RecordFailure
    <2>2. CASE ~RecordFailure(w)
        BY <2>2 DEF PreparePiece, ProviderRefuses, SettlePiece, EmbedderDies
    <2> QED BY <2>1, <2>2
<1>4. record' \in [Piece -> RecordState] /\ GoneHasNoVector' /\ ActiveIsStaged'
    BY <1>1, <1>3, RecordsStand
<1>5. embedJob' \in [Piece -> [state : {"none", "pending", "leased", "finished", "dead_letter"},
                               attempt : Nat]]
    <2>1. \/ embedJob' = embedJob
          \/ \E s \in {"pending", "finished"} :
                embedJob' = [embedJob EXCEPT ![embedding[w].piece].state = s]
        BY DEF PreparePiece, ProviderRefuses, RecordFailure, SettlePiece, EmbedderDies
    <2>2. CASE embedJob' = embedJob BY <1>1, <2>2 DEF EmbeddingShape
    <2> QED BY <1>1, <2>1, <2>2, JobMoves
<1>6. EmbeddingShape' BY <1>1, <1>2, <1>4, <1>5 DEF EmbeddingShape
<1> QED BY <1>4, <1>6 DEF EmbeddingInv

LEMMA LeaseKeeps == ASSUME EmbeddingInv, NEW p \in Piece, RecoverLease(p) PROVE EmbeddingInv'
<1>1. /\ UNCHANGED <<space, body, erasing, record, embedding>> /\ EmbeddingShape
      /\ \E s \in {"pending", "dead_letter"} : embedJob' = [embedJob EXCEPT ![p].state = s]
    BY DEF RecoverLease, EmbeddingInv
<1>2. EmbeddingShape' BY <1>1, JobMoves DEF EmbeddingShape
<1> QED BY <1>1, <1>2 DEF EmbeddingInv, GoneHasNoVector, ActiveIsStaged

LEMMA EmbeddingInvStep == EmbeddingInv /\ [EmbeddingNext]_embeddingVars => EmbeddingInv'
<1> SUFFICES ASSUME EmbeddingInv, [EmbeddingNext]_embeddingVars PROVE EmbeddingInv' OBVIOUS
<1>1. CASE ActivateConfig \/ UNCHANGED embeddingVars
    <2>1. UNCHANGED <<space, body, erasing, record, embedJob, embedding>>
        BY <1>1 DEF ActivateConfig, embeddingVars
    <2> QED BY <2>1 DEF EmbeddingInv, EmbeddingShape, GoneHasNoVector, ActiveIsStaged
<1>2. ASSUME NEW w \in Embedders, EmbedderStep(w) \/ ProviderRefuses(w) \/ EmbedderDies(w)
      PROVE  EmbeddingInv'
    BY <1>2, CompleteKeeps, SlotKeeps DEF EmbedderStep
<1> QED BY <1>1, <1>2, StageKeeps, TextMoves, ForgetKeeps, ErasingKeeps, RollbackKeeps, TickKeeps,
           ClaimPieceKeeps, LeaseKeeps DEF EmbeddingNext

\* Fairness plays no part in it, so it holds where the service is one of several too.
LEMMA EmbeddingsSafely == EmbeddingInit /\ [][EmbeddingNext]_embeddingVars => []VectorsFollowTexts
<1>1. EmbeddingInv /\ [][EmbeddingNext]_embeddingVars => []EmbeddingInv
    BY EmbeddingInvStep, PTL
<1>2. EmbeddingInv => VectorsFollowTexts
    BY DEF EmbeddingInv, GoneHasNoVector, ActiveIsStaged, CurrentTargets, VectorsFollowTexts
<1> QED BY <1>1, <1>2, EmbeddingInvInit, PTL

\* For any number of configurations, texts and slots: no vector of a text that was forgotten or erased
\* is ready or computed, and the space in use lacks no current text.
THEOREM EmbeddingSpecVectorsFollowTexts == EmbeddingSpec => []VectorsFollowTexts
BY EmbeddingsSafely, PTL DEF EmbeddingSpec
=============================================================================
