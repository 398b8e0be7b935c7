---------------------------- MODULE MemoryFacts ----------------------------
(***************************************************************************)
(* The memories of one conversation and how they change: a generation is   *)
(* offered the active memories and answers with a proposal, which is       *)
(* applied, kept for review or dropped; the administrator reviews the      *)
(* candidates and has memories forgotten; erasure requests forget them.    *)
(*                                                                         *)
(* A proposal is named by its place in the table, a memory by what its     *)
(* identity is derived from: the proposal's number inside the model's      *)
(* answer, or the stored row when a reviewed candidate is accepted, and    *)
(* the semantic key.  A rejected answer only leaves its row and is not     *)
(* kept here.  Memories have one type; a differing type is refused where a *)
(* differing key is.                                                       *)
(***************************************************************************)
EXTENDS Integers, Sequences

CONSTANTS Keys,            \* semantic keys
          Quotes,          \* messages that evidence cites
          Generations,     \* generations under way at the same time
          MaxOrdinal,      \* proposals in one answer
          MaxProposals,    \* bound: proposals recorded
          MaxVersion,      \* bound: versions of a memory
          MaxReviews,      \* bound: review actions issued
          MaxQuoteEdits    \* bound: edits of the cited messages

ASSUME FactsConstants ==
    /\ MaxOrdinal \in Nat /\ MaxProposals \in Nat /\ MaxVersion \in Nat
    /\ MaxReviews \in Nat /\ MaxQuoteEdits \in Nat

Row == 1..MaxProposals
MemoryId == ({"answer"} \X (1..MaxOrdinal) \X Keys) \cup ({"row"} \X Row \X Keys)
KeyOf(m) == m[3]
Root == Quotes \X (0..MaxQuoteEdits)

VARIABLES memories,     \* identity -> its row of memories
          versions,     \* identity -> version number -> its row of memory_versions
          proposals,    \* rows of memory_proposals with their targets and evidence
          revision,     \* message -> its current revision
          offered,      \* generation -> memories in its manifest with their versions
          cited,        \* generation -> revision of each message in its manifest
          reviews,      \* rows of memory_review_actions
          confirmed     \* confirmed reviews, oldest first

factsVars == <<memories, versions, proposals, revision, offered, cited, reviews, confirmed>>

ProposalRow ==
    [op : {"create", "update", "supersede", "invalidate", "merge"}, key : Keys,
     targets : Seq(MemoryId), seen : Seq(1..MaxVersion), root : Root,
     state : {"candidate", "accepted", "rejected", "invalidated"},
     into : {<<>>} \cup Seq(MemoryId), kept : BOOLEAN]
ReviewRow ==
    [kind : {"accept", "reject", "forget"}, row : 0..MaxProposals, memory : Seq(MemoryId),
     version : 0..MaxVersion, state : {"pending", "confirmed", "applied", "rejected", "expired"}]
\* the messages of a manifest with their revisions, and its memories with their versions
SealedMessages == {<<>>} \cup [Quotes -> 0..MaxQuoteEdits]
SealedMemories(o) == DOMAIN o \subseteq MemoryId /\ \A m \in DOMAIN o : o[m] \in 1..MaxVersion

NoVersion == [made |-> FALSE, body |-> 0, roots |-> {}]
Resting == [m \in {} |-> 0]

FactsTypeOK ==
    /\ memories \in [MemoryId -> [status : {"absent", "active", "superseded", "invalidated", "forgotten"},
                                  version : 0..MaxVersion]]
    /\ versions \in [MemoryId -> [1..MaxVersion ->
                        [made : BOOLEAN, body : 0..MaxProposals, roots : SUBSET Root]]]
    /\ Len(proposals) <= MaxProposals
    /\ \A p \in DOMAIN proposals :
        proposals[p] \in ProposalRow
    /\ revision \in [Quotes -> 0..MaxQuoteEdits]
    /\ \A g \in Generations : SealedMemories(offered[g]) /\ cited[g] \in SealedMessages
    /\ \A r \in DOMAIN reviews : reviews[r] \in ReviewRow
    /\ \A i \in DOMAIN confirmed : reviews[confirmed[i]].state = "confirmed"

FactsInit ==
    /\ memories = [m \in MemoryId |-> [status |-> "absent", version |-> 0]]
    /\ versions = [m \in MemoryId |-> [v \in 1..MaxVersion |-> NoVersion]]
    /\ proposals = <<>>
    /\ revision = [x \in Quotes |-> 0]
    /\ offered = [g \in Generations |-> Resting]
    /\ cited = [g \in Generations |-> <<>>]
    /\ reviews = <<>>
    /\ confirmed = <<>>

Active(m) == memories[m].status = "active"
Current(m) == versions[m][memories[m].version]
IsCurrent(root) == revision[root[1]] = root[2]
InUse(g) == cited[g] # <<>>

-----------------------------------------------------------------------------
(* Applying a proposal *)

\* the target is as the proposal saw it, and is about the same thing
MayChange(t, seen, p) ==
    /\ Active(t) /\ memories[t].version = seen
    /\ p.op \in {"update", "invalidate", "merge"} => KeyOf(t) = p.key

\* what the transaction requires of the evidence and the targets a proposal names
Applicable(p) ==
    /\ IsCurrent(p.root)
    /\ \A i \in DOMAIN p.targets : MayChange(p.targets[i], p.seen[i], p)

\* a check that only a memory taking the place of another needs
KeyIsFreeToSupersede(p) ==
    p.op = "supersede" => \A m \in MemoryId : Active(m) /\ KeyOf(m) = p.key => m = p.targets[1]

\* a new memory needs a free key, unless it takes the place of the memory that holds it
KeyIsFree(p) ==
    p.op \in {"create", "supersede"} =>
        \A m \in MemoryId : Active(m) /\ KeyOf(m) = p.key => p.op = "supersede" /\ m = p.targets[1]

IsNew(p) == p.op \in {"create", "supersede"}

\* the memory a proposal writes: named is the first part of a new identity
Written(p, named) == IF IsNew(p) THEN <<named[1], named[2], p.key>> ELSE p.targets[1]

\* a memory that gives its key away names its successor before that is inserted, and the foreign
\* key is checked at once
SuccessorThere(p, named) ==
    p.op = "supersede" /\ KeyOf(p.targets[1]) = p.key => memories[Written(p, named)].status # "absent"

WrittenVersion(p) == IF IsNew(p) THEN 1 ELSE memories[p.targets[1]].version + 1

\* an insert keeps a row that is there already; the evidence is added to it all the same
InsertVersion(old, row, root) ==
    [made |-> TRUE, body |-> IF old.made THEN old.body ELSE row, roots |-> old.roots \cup {root}]

\* memories and versions after proposal p, stored as row, was applied
ApplyTo(p, row, named) ==
    LET m == Written(p, named)
        v == WrittenVersion(p)
        gone == CASE p.op = "supersede" -> {p.targets[1]}
                  [] p.op = "merge" -> {p.targets[i] : i \in 2..Len(p.targets)}
                  [] OTHER -> {}
    IN /\ v <= MaxVersion
       /\ memories' = [n \in MemoryId |->
              IF n = m
              THEN [status |-> IF p.op = "invalidate" THEN "invalidated" ELSE "active", version |-> v]
              ELSE IF n \in gone THEN [memories[n] EXCEPT !.status = "superseded"]
              ELSE memories[n]]
       /\ versions' = [versions EXCEPT ![m][v] = InsertVersion(@, row, p.root)]

-----------------------------------------------------------------------------
(* A generation *)

\* memories fit to be offered: active, with a text, and all of their evidence current
Offerable == {m \in MemoryId : Active(m) /\ Current(m).body # 0 /\ \A e \in Current(m).roots : IsCurrent(e)}

\* the manifest is sealed over the current messages and some of the memories: sizes limit them
SealManifest(g) ==
    /\ ~InUse(g)
    /\ \E chosen \in SUBSET Offerable :
        offered' = [offered EXCEPT ![g] = [m \in chosen |-> memories[m].version]]
    /\ cited' = [cited EXCEPT ![g] = revision]
    /\ UNCHANGED <<memories, versions, proposals, revision, reviews, confirmed>>

\* the sources are read again when the answer is there
SourcesStand(g) ==
    /\ cited[g] = revision
    /\ \A m \in DOMAIN offered[g] :
        Active(m) /\ memories[m].version = offered[g][m] /\ Current(m).body # 0

EndGeneration(g) ==
    /\ offered' = [offered EXCEPT ![g] = Resting]
    /\ cited' = [cited EXCEPT ![g] = <<>>]

\* what a model may propose: only what was offered can be a target
Answer(g) ==
    LET Asked(op, n) == [op : {op}, key : Keys, targets : [1..n -> DOMAIN offered[g]]]
    IN {a \in Asked("create", 0) \cup Asked("update", 1) \cup Asked("supersede", 1)
              \cup Asked("invalidate", 1) \cup Asked("merge", 2) :
          a.op = "merge" => a.targets[1] # a.targets[2]}

Proposed(g, a, x, state, into) ==
    [op |-> a.op, key |-> a.key, targets |-> a.targets,
     seen |-> [i \in DOMAIN a.targets |-> offered[g][a.targets[i]]],
     root |-> <<x, cited[g][x]>>, state |-> state, into |-> into, kept |-> TRUE]

\* evidence or confidence ask for a person: the proposal is stored and nothing else
RecordCandidate(g) ==
    /\ InUse(g) /\ SourcesStand(g) /\ Len(proposals) < MaxProposals
    /\ \E a \in Answer(g), x \in Quotes :
        proposals' = Append(proposals, Proposed(g, a, x, "candidate", <<>>))
    /\ EndGeneration(g)
    /\ UNCHANGED <<memories, versions, revision, reviews, confirmed>>

\* the proposal is stored and applied in one transaction; its identity comes from its number in
\* the answer
RecordAndAccept(g) ==
    /\ InUse(g) /\ SourcesStand(g) /\ Len(proposals) < MaxProposals
    /\ \E a \in Answer(g), x \in Quotes, ordinal \in 1..MaxOrdinal :
        LET named == <<"answer", ordinal>>
            p == Proposed(g, a, x, "accepted", <<Written(a, named)>>)
        IN /\ Applicable(p) /\ KeyIsFree(p) /\ SuccessorThere(p, named)
           /\ proposals' = Append(proposals, p)
           /\ ApplyTo(p, Len(proposals) + 1, named)
    /\ EndGeneration(g)
    /\ UNCHANGED <<revision, reviews, confirmed>>

\* a conflict or an error rolls the whole answer back, as does a source that changed; a provider
\* may fail too
DropAnswer(g) ==
    /\ InUse(g)
    /\ EndGeneration(g)
    /\ UNCHANGED <<memories, versions, proposals, revision, reviews, confirmed>>

EditQuote(x) ==
    /\ revision[x] < MaxQuoteEdits
    /\ revision' = [revision EXCEPT ![x] = @ + 1]
    /\ UNCHANGED <<memories, versions, proposals, offered, cited, reviews, confirmed>>

-----------------------------------------------------------------------------
(* Forgetting *)

\* only what made it
AboutAsResult(m) == {p \in DOMAIN proposals : proposals[p].into = <<m>>}

\* proposals with a target, a result or a piece of evidence in common with memory m
About(m) ==
    LET roots == UNION {versions[m][v].roots : v \in 1..MaxVersion}
    IN {p \in DOMAIN proposals :
          \/ \E i \in DOMAIN proposals[p].targets : proposals[p].targets[i] = m
          \/ proposals[p].into = <<m>>
          \/ proposals[p].root \in roots}

ForgetMemory(m) ==
    /\ memories' = [memories EXCEPT ![m].status = "forgotten"]
    /\ versions' = [versions EXCEPT ![m] = [v \in 1..MaxVersion |-> [@[v] EXCEPT !.body = 0]]]
    /\ proposals' = [p \in DOMAIN proposals |->
           IF p \notin About(m) THEN proposals[p]
           ELSE [proposals[p] EXCEPT !.kept = FALSE,
                                     !.state = IF @ = "accepted" THEN @ ELSE "invalidated"]]

\* an erasure request for one memory
ReconcileErasure(m) ==
    /\ memories[m].status \notin {"absent", "forgotten"}
    /\ ForgetMemory(m)
    /\ UNCHANGED <<revision, offered, cited, reviews, confirmed>>

-----------------------------------------------------------------------------
(* Reviews *)

Candidate(p) == proposals[p].state = "candidate"

NewReview(kind, row, memory, version) ==
    reviews' = Append(reviews, [kind |-> kind, row |-> row, memory |-> memory,
                                version |-> version, state |-> "pending"])

\* the buttons under a listed candidate or memory; the row keeps the version they were listed with
IssueReview ==
    /\ Len(reviews) < MaxReviews
    /\ \/ \E p \in DOMAIN proposals, kind \in {"accept", "reject"} :
            Candidate(p) /\ NewReview(kind, p, <<>>, 0)
       \/ \E m \in MemoryId : Active(m) /\ NewReview("forget", 0, <<m>>, memories[m].version)
    /\ UNCHANGED <<memories, versions, proposals, revision, offered, cited, confirmed>>

TargetsStand(p) ==
    \A i \in DOMAIN p.targets : Active(p.targets[i]) /\ memories[p.targets[i]].version = p.seen[i]

\* what is checked when a review is confirmed, and again when it is carried out
ReviewStands(r) ==
    IF reviews[r].kind = "forget"
    THEN LET m == reviews[r].memory[1] IN Active(m) /\ memories[m].version = reviews[r].version
    ELSE LET p == proposals[reviews[r].row] IN
         Candidate(reviews[r].row) /\ IsCurrent(p.root) /\ TargetsStand(p)

ConfirmReview(r) ==
    /\ reviews[r].state = "pending"
    /\ \/ /\ ReviewStands(r)
          /\ reviews' = [reviews EXCEPT ![r].state = "confirmed"]
          /\ confirmed' = Append(confirmed, r)
       \/ /\ ~ReviewStands(r)
          /\ reviews' = [reviews EXCEPT ![r].state = "rejected"]
          /\ UNCHANGED confirmed
       \/ /\ reviews' = [reviews EXCEPT ![r].state = "expired"]
          /\ UNCHANGED confirmed
    /\ UNCHANGED <<memories, versions, proposals, revision, offered, cited>>

\* the row of a reviewed candidate names the memory that comes of it
ReviewedName(r) == <<"row", reviews[r].row>>

ForgetReviewed(r) == ForgetMemory(reviews[r].memory[1])

CarryOut(r) ==
    LET p == proposals[reviews[r].row] IN
    CASE reviews[r].kind = "accept" ->
            /\ SuccessorThere(p, ReviewedName(r))
            /\ ApplyTo(p, reviews[r].row, ReviewedName(r))
            /\ proposals' = [proposals EXCEPT ![reviews[r].row].state = "accepted",
                                              ![reviews[r].row].into = <<Written(p, ReviewedName(r))>>]
      [] reviews[r].kind = "reject" ->
            /\ proposals' = [proposals EXCEPT ![reviews[r].row].state = "rejected"]
            /\ UNCHANGED <<memories, versions>>
      [] reviews[r].kind = "forget" -> ForgetReviewed(r)

NextReview == Head(confirmed)

ReviewRefused(r) ==
    /\ reviews[r].kind = "accept"
    /\ LET p == proposals[reviews[r].row] IN ~(Applicable(p) /\ KeyIsFree(p))

EndReview(r, state) == reviews' = [reviews EXCEPT ![r].state = state]

\* the oldest confirmed review; a conflict undoes the change and ends the review as rejected, an
\* error leaves it where it is until it expires
ExecuteReview ==
    /\ confirmed # <<>>
    /\ confirmed' = Tail(confirmed)
    /\ \/ /\ ReviewStands(NextReview) /\ ~ReviewRefused(NextReview)
          /\ CarryOut(NextReview)
          /\ EndReview(NextReview, "applied")
       \/ /\ ~ReviewStands(NextReview) \/ ReviewRefused(NextReview)
          /\ EndReview(NextReview, "rejected")
          /\ UNCHANGED <<memories, versions, proposals>>
       \/ /\ EndReview(NextReview, "expired")
          /\ UNCHANGED <<memories, versions, proposals>>
    /\ UNCHANGED <<revision, offered, cited>>

-----------------------------------------------------------------------------
FactsNext ==
    \/ \E g \in Generations :
        SealManifest(g) \/ RecordCandidate(g) \/ RecordAndAccept(g) \/ DropAnswer(g)
    \/ \E x \in Quotes : EditQuote(x)
    \/ \E m \in MemoryId : ReconcileErasure(m)
    \/ IssueReview
    \/ \E r \in DOMAIN reviews : ConfirmReview(r)
    \/ ExecuteReview

FactsSpec == FactsInit /\ [][FactsNext]_factsVars

-----------------------------------------------------------------------------
\* Two memories of a conversation never answer for the same key.  Generations overlap and a review
\* waits while they complete, so the key a proposal saw free, or saw held by its target, may be
\* taken when it is applied.
OneActivePerKey ==
    \A m, n \in MemoryId : Active(m) /\ Active(n) /\ KeyOf(m) = KeyOf(n) => m = n

\* A forgotten memory leaves no text behind: not in an earlier version, and not in a proposal that
\* made it or wanted to change it.
ForgottenLeavesNothing ==
    \A m \in MemoryId : memories[m].status = "forgotten" =>
        /\ \A v \in 1..MaxVersion : versions[m][v].body = 0
        /\ \A p \in DOMAIN proposals :
            m \in {proposals[p].targets[i] : i \in DOMAIN proposals[p].targets}
              \/ proposals[p].into = <<m>>
            => ~proposals[p].kept
=============================================================================
