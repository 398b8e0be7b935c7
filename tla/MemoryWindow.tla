---------------------------- MODULE MemoryWindow ----------------------------
(***************************************************************************)
(* How the events of one conversation reach its memory.  Every completed   *)
(* turn asks for its events to be covered; the requests are merged into    *)
(* the pending generation of their kind, and the oldest unfinished         *)
(* generation of the conversation is the only one that runs.  A generation *)
(* starts right after the watermark of its kind, seals the messages of at  *)
(* most BatchSize events, leaves the rest to a generation behind it, and   *)
(* moves the watermark when the messages it sealed are still the messages  *)
(* of its range.  A finished episode asks for a rolling summary.           *)
(***************************************************************************)
EXTENDS Naturals, FiniteSets, Sequences

CONSTANTS
    LastEvent,        \* bound: the events of the conversation are 1..LastEvent
    BatchSize,        \* most messages one generation reads
    SummaryThreshold, \* uncovered messages that make a rolling summary due
    MaxRefreshes,     \* bound: executions of the job that follows a completed turn
    MaxRemovals,      \* bound: messages deleted or replaced by an edit
    MaxGiveUps        \* bound: generations that fail for good

ASSUME WindowConstants ==
    /\ LastEvent \in Nat /\ MaxRefreshes \in Nat /\ MaxRemovals \in Nat /\ MaxGiveUps \in Nat
    /\ BatchSize \in Nat \ {0}
    /\ SummaryThreshold \in Nat \ {0}

Event == 1..LastEvent
WindowKind == {"episode", "rolling_summary"}

VARIABLES
    source,      \* the message behind an event
    turnsOver,   \* events whose turn is completed and whose refresh job has not succeeded
    gens,        \* unfinished generations, oldest first
    watermark,   \* the last event covered, for each kind
    covered,     \* ghost: events read by a succeeded generation of the kind
    lost,        \* ghost: events in the range of a dead-lettered generation of the kind
    asked,       \* ghost: events a completed turn asked to be covered
    refreshes, removals, giveUps

windowVars ==
    <<source, turnsOver, gens, watermark, covered, lost, asked, refreshes, removals, giveUps>>

\* stored: not projected yet; pending: human or own message, not known yet; gone: deleted or edited
SourceState == {"none", "stored", "pending", "eligible", "gone"}

GenerationRow == [kind : WindowKind, lo : Event, hi : Event,
                  stage : {"pending", "retry_wait", "sealed"}, from : SUBSET Event]

WindowTypeOK ==
    /\ source \in [Event -> SourceState]
    /\ turnsOver \subseteq Event
    /\ gens \in Seq(GenerationRow)
    /\ watermark \in [WindowKind -> 0..LastEvent]
    /\ covered \in [WindowKind -> SUBSET Event]
    /\ lost \in [WindowKind -> SUBSET Event]
    /\ asked \subseteq Event
    /\ refreshes \in 0..MaxRefreshes
    /\ removals \in 0..MaxRemovals
    /\ giveUps \in 0..MaxGiveUps

WindowInit ==
    /\ source = [e \in Event |-> "none"]
    /\ turnsOver = {}
    /\ gens = <<>>
    /\ watermark = [k \in WindowKind |-> 0]
    /\ covered = [k \in WindowKind |-> {}]
    /\ lost = [k \in WindowKind |-> {}]
    /\ asked = {}
    /\ refreshes = 0 /\ removals = 0 /\ giveUps = 0

-----------------------------------------------------------------------------
(* The messages *)

StoreEvent(e) ==
    /\ source[e] = "none"
    /\ \A f \in 1..(e - 1) : source[f] # "none"
    /\ source' = [source EXCEPT ![e] = "stored"]
    /\ UNCHANGED <<turnsOver, gens, watermark, covered, lost, asked, refreshes, removals, giveUps>>

\* the projection of an event, and the later decision what a pending message is
ProjectEvent(e) ==
    /\ \/ source[e] = "stored" /\ \E s \in {"pending", "eligible", "gone"} :
                                        source' = [source EXCEPT ![e] = s]
       \/ source[e] = "pending" /\ source' = [source EXCEPT ![e] = "eligible"]
    /\ UNCHANGED <<turnsOver, gens, watermark, covered, lost, asked, refreshes, removals, giveUps>>

\* a deletion, or an edit: the new revision belongs to an event of its own
RemoveSource(e) ==
    /\ removals < MaxRemovals
    /\ source[e] = "eligible"
    /\ source' = [source EXCEPT ![e] = "gone"]
    /\ removals' = removals + 1
    /\ UNCHANGED <<turnsOver, gens, watermark, covered, lost, asked, refreshes, giveUps>>

TurnCompletes(e) ==
    /\ source[e] = "eligible"
    /\ refreshes + Cardinality(turnsOver) < MaxRefreshes
    /\ turnsOver' = turnsOver \cup {e}
    /\ UNCHANGED <<source, gens, watermark, covered, lost, asked, refreshes, removals, giveUps>>

Readable(lo, hi) == {e \in lo..hi : source[e] = "eligible"}

-----------------------------------------------------------------------------
(* Requests for coverage *)

Least(a, b) == IF a < b THEN a ELSE b
Greatest(a, b) == IF a < b THEN b ELSE a

\* one pending generation per kind: its range grows, or a new one is added behind the others
MergePending(rows, kind, lo, hi) ==
    IF \E i \in DOMAIN rows : rows[i].kind = kind /\ rows[i].stage = "pending"
    THEN [i \in DOMAIN rows |->
            IF rows[i].kind = kind /\ rows[i].stage = "pending"
            THEN [rows[i] EXCEPT !.lo = Least(@, lo), !.hi = Greatest(@, hi)]
            ELSE rows[i]]
    ELSE Append(rows, [kind |-> kind, lo |-> lo, hi |-> hi, stage |-> "pending", from |-> {}])

\* the job of a completed turn, which may run again when its success was not recorded
RefreshTurn(e) ==
    /\ e \in turnsOver
    /\ refreshes < MaxRefreshes
    /\ gens' = MergePending(gens, "episode", e, e)
    /\ turnsOver' \in {turnsOver, turnsOver \ {e}}
    /\ asked' = asked \cup {e}
    /\ refreshes' = refreshes + 1
    /\ UNCHANGED <<source, watermark, covered, lost, removals, giveUps>>

-----------------------------------------------------------------------------
(* A generation *)

\* nothing between the watermark and the range stays behind
FirstEvent(row) == Least(row.lo, watermark[row.kind] + 1)

\* the batch is full, and the next event has a message it cannot take
FullBefore(lo, hi, e) ==
    e + 1 \in Readable(lo, hi) /\ Cardinality(Readable(lo, e)) = BatchSize

\* the last event of a range the batch can take
Cutoff(lo, hi) ==
    IF \E e \in lo..hi : FullBefore(lo, hi, e)
    THEN CHOOSE e \in lo..hi : FullBefore(lo, hi, e)
    ELSE hi

\* mutant: what the batch does not take is forgotten
KeepHeadOnly(row, cut, rest) == rest

\* what the batch does not take is asked for again
LeaveBacklog(row, cut, rest) ==
    IF cut < row.hi THEN MergePending(rest, row.kind, cut + 1, row.hi) ELSE rest

\* mutant: an event that is not projected has no message, and is no reason to wait
DecidedWhenProjected(lo, hi) == \A e \in lo..hi : source[e] # "pending"

\* every event of the range is projected, and no message waits for its author to be known
RangeDecided(lo, hi) == \A e \in lo..hi : source[e] \notin {"stored", "pending"}

\* the inputs are read, and sealed as the manifest of the generation
SealInputs(row, lo, cut) ==
    [row EXCEPT !.lo = lo, !.hi = cut, !.stage = "sealed", !.from = Readable(lo, cut)]

PrepareGeneration ==
    /\ gens # <<>>
    /\ LET row == Head(gens)
           lo == FirstEvent(row)
           cut == Cutoff(lo, row.hi)
       IN /\ row.stage \in {"pending", "retry_wait"}
          /\ RangeDecided(lo, cut)
          /\ gens' = <<SealInputs(row, lo, cut)>> \o LeaveBacklog(row, cut, Tail(gens))
    /\ UNCHANGED <<source, turnsOver, watermark, covered, lost, asked, refreshes, removals, giveUps>>

\* the whole of prepare is undone, and the generation no longer grows
PrepareWaits ==
    /\ gens # <<>>
    /\ LET row == Head(gens)
           lo == FirstEvent(row)
       IN /\ row.stage = "pending"
          /\ ~RangeDecided(lo, Cutoff(lo, row.hi))
          /\ gens' = <<[row EXCEPT !.stage = "retry_wait"]>> \o Tail(gens)
    /\ UNCHANGED <<source, turnsOver, watermark, covered, lost, asked, refreshes, removals, giveUps>>

\* the sealed messages are the messages of the range still
SealedHolds(row) ==
    /\ RangeDecided(row.lo, row.hi)
    /\ Readable(row.lo, row.hi) = row.from

Contiguous(row) ==
    /\ row.lo <= watermark[row.kind] + 1
    /\ row.hi >= watermark[row.kind]

SummaryDue(kind, hi) ==
    /\ kind = "episode"
    /\ Cardinality(Readable(watermark["rolling_summary"] + 1, hi)) >= SummaryThreshold

DeadLetter(row) ==
    /\ gens' = Tail(gens)
    /\ lost' = [lost EXCEPT ![row.kind] = @ \cup (row.lo..row.hi)]
    /\ UNCHANGED <<watermark, covered>>

\* the watermark of the kind goes to the end of the range
WatermarkAfter(row) == [watermark EXCEPT ![row.kind] = row.hi]

\* together with what the generation found out: proposals or a new version of the summary
MoveWatermark(row) ==
    /\ watermark' = WatermarkAfter(row)
    /\ covered' = [covered EXCEPT ![row.kind] = @ \cup row.from]

CompleteGeneration ==
    /\ gens # <<>>
    /\ LET row == Head(gens) IN
          /\ row.stage = "sealed"
          /\ IF SealedHolds(row) /\ Contiguous(row)
             THEN /\ MoveWatermark(row)
                  /\ gens' = IF SummaryDue(row.kind, row.hi)
                             THEN MergePending(Tail(gens), "rolling_summary",
                                               watermark["rolling_summary"] + 1, row.hi)
                             ELSE Tail(gens)
                  /\ UNCHANGED lost
             ELSE DeadLetter(row)
    /\ UNCHANGED <<source, turnsOver, asked, refreshes, removals, giveUps>>

\* the model's answer is rejected, the input is too large, or the attempts are used up
GenerationGivesUp ==
    /\ gens # <<>>
    /\ giveUps < MaxGiveUps
    /\ DeadLetter(Head(gens))
    /\ giveUps' = giveUps + 1
    /\ UNCHANGED <<source, turnsOver, asked, refreshes, removals>>

WindowNext ==
    \/ \E e \in Event :
        StoreEvent(e) \/ ProjectEvent(e) \/ RemoveSource(e) \/ TurnCompletes(e) \/ RefreshTurn(e)
    \/ PrepareGeneration \/ PrepareWaits \/ CompleteGeneration \/ GenerationGivesUp

WindowFairness ==
    /\ WF_windowVars(PrepareGeneration \/ CompleteGeneration)
    /\ WF_windowVars(\E e \in Event : ProjectEvent(e))
    /\ WF_windowVars(\E e \in Event : RefreshTurn(e))

WindowSpec == WindowInit /\ [][WindowNext]_windowVars /\ WindowFairness

-----------------------------------------------------------------------------
(* Properties *)

\* The watermark passes no message unread: whatever turns complete in whatever order, and
\* whatever is projected late, each message at or below the watermark of a kind was read by a
\* succeeded generation of the kind.
NoMessageSkipped ==
    \A k \in WindowKind, e \in Event :
        (e <= watermark[k] /\ source[e] = "eligible") => e \in covered[k]

\* The watermark never moves back, so that no summary is built twice from the same messages.
WatermarkAdvances == [][\A k \in WindowKind : watermark'[k] >= watermark[k]]_windowVars

\* The backlog a batch leaves behind is not forgotten: every event a completed turn asked for ends
\* up at or below the watermark, or in the range of a generation that was given up.
BacklogIsCovered == <>[](\A e \in asked : e <= watermark["episode"] \/ e \in lost["episode"])
=============================================================================
