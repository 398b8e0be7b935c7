----------------------------- MODULE Embeddings -----------------------------
(***************************************************************************)
(* The embedding spaces of an account.  A new configuration of the         *)
(* embedding profile gets a shadow space; the worker's tick backfills it   *)
(* with a record for every current text, jobs compute the vectors at the   *)
(* provider, and the tick switches to the shadow when it covers all of     *)
(* them.  Meanwhile texts are written, replaced, forgotten and erased.     *)
(*                                                                         *)
(* A text has one chunk.  The tick's batches are larger than what there is *)
(* to do, except that of the spaces it looks at.                           *)
(***************************************************************************)
EXTENDS Integers, FiniteSets

CONSTANTS MemoryTexts,       \* versions of memories and of summaries
          MessageTexts,      \* revisions of messages
          MaxConfigs,        \* bound: versions of the profile's configuration
          MaxPieces,         \* bound: records that may be made
          SpaceBatch,        \* building spaces a tick looks at
          Embedders,         \* slots of the worker
          MaxEmbedAttempts,
          MaxEmbedMishaps    \* bound: dead workers and leases that lapse too early

Config == 1..MaxConfigs
Texts == MemoryTexts \cup MessageTexts
Piece == Config \X Texts

VARIABLES activeConfig,   \* the profile's active configuration
          space,          \* configuration -> the state of its space
          body,           \* text -> what it is to its conversation
          erasing,        \* the erasure of the contact or the account
          record,         \* piece -> the state of its embedding record
          embedJob,       \* piece -> state and attempts of its job; an attempt is its fence
          embedding,      \* slot -> the piece and attempt it works on, and how far it is
          embedMishaps

embeddingVars == <<activeConfig, space, body, erasing, record, embedJob, embedding, embedMishaps>>

SpaceState == {"none", "building", "active", "retired", "failed"}
RecordState == {"none", "pending", "ready", "invalidated", "failed"}
\* a message is first stored without a record; the memory run that reads it stages one
BodyState == {"absent", "unstaged", "staged", "replaced", "forgotten"}
Progress == {"idle", "claimed", "calling", "source gone", "unusable", "retryable", "done",
             "given up"}
EmbedderIdle == [at |-> "idle", piece |-> <<0, "none">>, attempt |-> 0]

EmbeddingTypeOK ==
    /\ activeConfig \in Config
    /\ space \in [Config -> SpaceState]
    /\ body \in [Texts -> BodyState]
    /\ erasing \in {"no", "requested", "done"}
    /\ record \in [Piece -> RecordState]
    /\ embedJob \in [Piece -> [state : {"none", "pending", "leased", "finished", "dead_letter"},
                               attempt : 0..MaxEmbedAttempts]]
    /\ \A w \in Embedders : \/ embedding[w] = EmbedderIdle
                            \/ /\ embedding[w].at \in Progress /\ embedding[w].piece \in Piece
                               /\ embedding[w].attempt \in 1..MaxEmbedAttempts
    /\ embedMishaps \in 0..MaxEmbedMishaps

\* texts of before, and a space without one, or no space yet
EmbeddingInit ==
    /\ activeConfig \in Config
    /\ body \in [Texts -> {"absent", "replaced"}]
    /\ Cardinality({t \in Texts : body[t] = "absent"}) * (MaxConfigs + 1 - activeConfig)
          <= MaxPieces
    /\ space \in {[c \in Config |-> "none"],
                 [c \in Config |-> IF c = activeConfig THEN "active" ELSE "none"]}
    /\ erasing = "no"
    /\ record = [p \in Piece |-> "none"]
    /\ embedJob = [p \in Piece |-> [state |-> "none", attempt |-> 0]]
    /\ embedding = [w \in Embedders |-> EmbedderIdle]
    /\ embedMishaps = 0

CurrentTargets == {t \in Texts : body[t] \in {"unstaged", "staged"} /\ erasing = "no"}
TakesRecords(c) == space[c] \in {"building", "active"}

-----------------------------------------------------------------------------
(* Texts and the configuration *)

\* a pending record in every space that takes them; a record that is there is left as it is
Staged(t) == [p \in Piece |-> IF p[2] = t /\ TakesRecords(p[1]) /\ record[p] = "none"
                              THEN "pending" ELSE record[p]]

\* a memory or a summary is published, or a memory run completes that read the message
StageText(t) ==
    /\ body[t] = (IF t \in MessageTexts THEN "unstaged" ELSE "absent") /\ erasing = "no"
    /\ body' = [body EXCEPT ![t] = "staged"]
    /\ record' = Staged(t)
    /\ UNCHANGED <<activeConfig, space, erasing, embedJob, embedding, embedMishaps>>

MessageArrives(t) ==
    /\ t \in MessageTexts /\ body[t] = "absent" /\ erasing = "no"
    /\ body' = [body EXCEPT ![t] = "unstaged"]
    /\ UNCHANGED <<activeConfig, space, erasing, record, embedJob, embedding, embedMishaps>>

\* a newer version or revision: the records of this one are left to their jobs
ReplaceText(t) ==
    /\ t \in CurrentTargets
    /\ body' = [body EXCEPT ![t] = "replaced"]
    /\ UNCHANGED <<activeConfig, space, erasing, record, embedJob, embedding, embedMishaps>>

\* a memory is forgotten, a summary invalidated, with every record of it
ForgetText(t) ==
    /\ t \in MemoryTexts /\ body[t] \in {"staged", "replaced"}
    /\ body' = [body EXCEPT ![t] = "forgotten"]
    /\ record' = [p \in Piece |-> IF p[2] = t /\ record[p] # "none" THEN "invalidated"
                                  ELSE record[p]]
    /\ UNCHANGED <<activeConfig, space, erasing, embedJob, embedding, embedMishaps>>

\* the contact or the account is to be erased: nothing of it is a target from then on, and the
\* cleanup deletes the records
WithdrawTexts ==
    /\ erasing = "no"
    /\ erasing' = "requested"
    /\ UNCHANGED <<activeConfig, space, body, record, embedJob, embedding, embedMishaps>>

DeleteRecords ==
    /\ erasing = "requested"
    /\ erasing' = "done"
    /\ record' = [p \in Piece |-> "none"]
    /\ UNCHANGED <<activeConfig, space, body, embedJob, embedding, embedMishaps>>

\* a configuration that comes back is a new version
ActivateConfig ==
    /\ activeConfig < MaxConfigs
    /\ activeConfig' = activeConfig + 1
    /\ UNCHANGED <<space, body, erasing, record, embedJob, embedding, embedMishaps>>

RequestRollback(c) ==
    /\ space[c] = "retired"
    /\ space' = [space EXCEPT ![c] = "building"]
    /\ UNCHANGED <<activeConfig, body, erasing, record, embedJob, embedding, embedMishaps>>

-----------------------------------------------------------------------------
(* The tick, one transaction *)

EnsuredSpaces == [space EXCEPT ![activeConfig] = IF @ = "none" THEN "building" ELSE @]

\* the oldest of the spaces that build
LookedAt ==
    LET building == {c \in Config : EnsuredSpaces[c] = "building"} IN
    {c \in building : Cardinality({b \in building : b < c}) < SpaceBatch}

Missing(c) == {t \in CurrentTargets : record[<<c, t>>] = "none"}
Covered(c) == \A t \in CurrentTargets : record[<<c, t>>] = "ready"
HasFailed(c) == \E t \in CurrentTargets : record[<<c, t>>] = "failed"

BackfilledRecords == [p \in Piece |-> IF p[1] \in LookedAt /\ p[2] \in Missing(p[1])
                                      THEN "pending" ELSE record[p]]

Switches(c) == c \in LookedAt /\ Covered(c) /\ c = activeConfig

AdvancedSpaces ==
    [c \in Config |->
        IF Switches(c) THEN "active"
        ELSE IF c \in LookedAt /\ Missing(c) = {} /\ HasFailed(c) THEN "failed"
        ELSE IF space[c] = "active" /\ \E b \in Config : Switches(b) THEN "retired"
        ELSE EnsuredSpaces[c]]

WithoutJob(p) == BackfilledRecords[p] = "pending" /\ embedJob[p].state = "none"

\* the last attempt died without a word
LeftPending(p) == FALSE
GivenUp(p) == BackfilledRecords[p] = "pending" /\ embedJob[p].state = "dead_letter"

EmbeddingTick ==
    /\ space' = AdvancedSpaces
    /\ record' = [p \in Piece |->
                     IF GivenUp(p) THEN "failed"
                     ELSE IF WithoutJob(p) /\ p[2] \notin CurrentTargets THEN "invalidated"
                     ELSE BackfilledRecords[p]]
    /\ embedJob' = [p \in Piece |-> IF WithoutJob(p) /\ p[2] \in CurrentTargets
                                    THEN [embedJob[p] EXCEPT !.state = "pending"]
                                    ELSE embedJob[p]]
    /\ UNCHANGED <<activeConfig, body, erasing, embedding, embedMishaps>>

-----------------------------------------------------------------------------
(* The job of a record *)

ClaimPiece(w, p) ==
    /\ embedding[w] = EmbedderIdle
    /\ embedJob[p].state = "pending" /\ embedJob[p].attempt < MaxEmbedAttempts
    /\ embedJob' = [embedJob EXCEPT ![p] = [state |-> "leased", attempt |-> @.attempt + 1]]
    /\ embedding' = [embedding EXCEPT ![w] = [at |-> "claimed", piece |-> p,
                                              attempt |-> embedJob[p].attempt + 1]]
    /\ UNCHANGED <<activeConfig, space, body, erasing, record, embedMishaps>>

Owns(w) == /\ embedJob[embedding[w].piece].state = "leased"
           /\ embedJob[embedding[w].piece].attempt = embedding[w].attempt

\* what prepare finds under the fence; it runs again before the vector is stored
Preparation(w) ==
    LET p == embedding[w].piece IN
    CASE ~Owns(w) -> "retryable"
      [] Owns(w) /\ record[p] \in {"ready", "invalidated", "failed"} -> "done"
      [] Owns(w) /\ record[p] = "none" -> "unusable"
      [] Owns(w) /\ record[p] = "pending" /\ p[2] \notin CurrentTargets -> "source gone"
      [] Owns(w) /\ record[p] = "pending" /\ p[2] \in CurrentTargets /\ ~TakesRecords(p[1])
            -> "unusable"
      [] OTHER -> "calling"

PreparedBefore(w) == "calling"
PreparedAgain(w) == Preparation(w)

Reaches(w, progress) == embedding' = [embedding EXCEPT ![w].at = progress]

PreparePiece(w) ==
    /\ embedding[w].at = "claimed"
    /\ Reaches(w, Preparation(w))
    /\ UNCHANGED <<activeConfig, space, body, erasing, record, embedJob, embedMishaps>>

CompletePiece(w) ==
    /\ embedding[w].at = "calling"
    /\ Reaches(w, IF PreparedAgain(w) = "calling" THEN "done" ELSE PreparedAgain(w))
    /\ record' = IF PreparedAgain(w) = "calling"
                 THEN [record EXCEPT ![embedding[w].piece] = "ready"] ELSE record
    /\ UNCHANGED <<activeConfig, space, body, erasing, embedJob, embedMishaps>>

ProviderRefuses(w) ==
    /\ embedding[w].at = "calling"
    /\ \E progress \in {"unusable", "retryable"} : Reaches(w, progress)
    /\ UNCHANGED <<activeConfig, space, body, erasing, record, embedJob, embedMishaps>>

\* for good, or because the attempts are spent
MustRecordFailure(w) ==
    \/ embedding[w].at \in {"source gone", "unusable"}
    \/ embedding[w].at = "retryable" /\ embedding[w].attempt = MaxEmbedAttempts

RecordFailure(w) ==
    LET p == embedding[w].piece IN
    /\ MustRecordFailure(w)
    /\ record' = IF Owns(w) /\ record[p] = "pending"
                 THEN [record EXCEPT ![p] = IF embedding[w].at = "source gone" THEN "invalidated"
                                            ELSE "failed"]
                 ELSE record
    /\ Reaches(w, "given up")
    /\ UNCHANGED <<activeConfig, space, body, erasing, embedJob, embedMishaps>>

\* the consumer settles the job, under the fence
SettlePiece(w) ==
    /\ embedding[w].at \in {"done", "given up", "retryable"} /\ ~MustRecordFailure(w)
    /\ embedJob' = IF Owns(w)
                   THEN [embedJob EXCEPT ![embedding[w].piece].state =
                            IF embedding[w].at = "retryable" THEN "pending" ELSE "finished"]
                   ELSE embedJob
    /\ embedding' = [embedding EXCEPT ![w] = EmbedderIdle]
    /\ UNCHANGED <<activeConfig, space, body, erasing, record, embedMishaps>>

EmbedMishap == embedMishaps < MaxEmbedMishaps /\ embedMishaps' = embedMishaps + 1

EmbedderDies(w) ==
    /\ EmbedMishap /\ embedding[w] # EmbedderIdle
    /\ embedding' = [embedding EXCEPT ![w] = EmbedderIdle]
    /\ UNCHANGED <<activeConfig, space, body, erasing, record, embedJob>>

\* expired leases are taken back; a live worker's expires when it could not renew it
Orphaned(p) ==
    embedJob[p].state = "leased" /\ ~\E w \in Embedders : embedding[w].piece = p /\ Owns(w)

RecoverLease(p) ==
    /\ embedJob[p].state = "leased"
    /\ IF Orphaned(p) THEN UNCHANGED embedMishaps ELSE EmbedMishap
    /\ embedJob' = [embedJob EXCEPT ![p].state = IF embedJob[p].attempt < MaxEmbedAttempts
                                                 THEN "pending" ELSE "dead_letter"]
    /\ UNCHANGED <<activeConfig, space, body, erasing, record, embedding>>

-----------------------------------------------------------------------------
EmbedderStep(w) ==
    \/ PreparePiece(w) \/ CompletePiece(w) \/ RecordFailure(w) \/ SettlePiece(w)

EmbeddingNext ==
    \/ \E t \in Texts : \/ StageText(t) \/ MessageArrives(t) \/ ReplaceText(t)
                        \/ ForgetText(t)
    \/ WithdrawTexts \/ DeleteRecords
    \/ ActivateConfig
    \/ \E c \in Config : RequestRollback(c)
    \/ EmbeddingTick
    \/ \E w \in Embedders : \/ EmbedderStep(w) \/ ProviderRefuses(w) \/ EmbedderDies(w)
                            \/ \E p \in Piece : ClaimPiece(w, p)
    \/ \E p \in Piece : RecoverLease(p)

\* The worker ticks every minute and takes jobs; a step of it ends.
EmbeddingFairness ==
    /\ WF_embeddingVars(EmbeddingTick)
    /\ WF_embeddingVars(\E w \in Embedders, p \in Piece : ClaimPiece(w, p))
    /\ \A w \in Embedders : WF_embeddingVars(EmbedderStep(w))
    /\ \A p \in Piece : WF_embeddingVars(Orphaned(p) /\ RecoverLease(p))

EmbeddingSpec == EmbeddingInit /\ [][EmbeddingNext]_embeddingVars /\ EmbeddingFairness

-----------------------------------------------------------------------------
\* Whatever the provider still computes when a text is forgotten or erased is thrown away: no
\* record of it is ready or waits for a vector; and the space in use has a record of every
\* current text that was staged, for nothing ever backfills an active space.
VectorsFollowTexts ==
    /\ \A p \in Piece : body[p[2]] = "forgotten" \/ erasing = "done" =>
          record[p] \notin {"pending", "ready"}
    /\ \A p \in Piece : /\ space[p[1]] = "active" /\ body[p[2]] = "staged"
                        /\ p[2] \in CurrentTargets
                        => record[p] # "none"

\* A rebuild comes to an end, whatever workers die: the space of the configuration in force is
\* switched to, or given up because a record of it failed.
RebuildSettles == <>[](space[activeConfig] \in {"active", "failed"})
=============================================================================
