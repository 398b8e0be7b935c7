--------------------------- MODULE MemoryPeriods ---------------------------
(***************************************************************************)
(* Calendar summaries of one conversation: a summary per day that has      *)
(* ended, built from the messages of the day, and one per week, built from *)
(* the summaries of its days.  A scan compares what every summary was      *)
(* built from with what is there now, invalidates what no longer agrees    *)
(* and schedules one job at a time.  The provider call of a job lies       *)
(* between two transactions, and messages of the past keep changing: they  *)
(* arrive late, are edited and are deleted.                                *)
(***************************************************************************)
EXTENDS Naturals, FiniteSets

CONSTANTS
    Days,               \* ended days of one week
    Contents,           \* what the messages of a day may amount to; 0 is no message at all
    MaxContentChanges   \* bound: changes of the messages of the past

Week == "week"

ASSUME PeriodsConstants ==
    /\ Week \notin Days
    /\ Contents \subseteq Nat \ {0}
    /\ MaxContentChanges \in Nat

Period == Days \cup {Week}

VARIABLES
    content,      \* the canonical messages of a day
    quiet,        \* ready: nothing pending and the last event is fifteen minutes old
    summary,      \* the current version of the summary of a period
    periodJob,    \* the unfinished consolidation job, if there is one
    pastJobs,     \* the finished ones: an identity is never scheduled again
    changes

periodsVars == <<content, quiet, summary, periodJob, pastJobs, changes>>

DayInput == Contents \cup {0}

\* what a summary is built from: the messages of the one day, or the number of the version of the
\* summary of every day that has messages
Sources == [Days -> Nat]
NoSources == [d \in Days |-> 0]

NoSummary == [no |-> 0, active |-> FALSE, from |-> NoSources]
SummaryRow == [no : Nat, active : BOOLEAN, from : Sources]
NoJob == [period |-> "none", from |-> NoSources, prior |-> 0, stage |-> "none"]
JobRow(stages) == [period : Period, from : Sources, prior : Nat, stage : stages]

PeriodsTypeOK ==
    /\ content \in [Days -> DayInput]
    /\ quiet \in BOOLEAN
    /\ summary \in [Period -> SummaryRow]
    /\ periodJob \in JobRow({"pending", "sealed"}) \cup {NoJob}
    /\ pastJobs \subseteq JobRow({"succeeded", "dead"})
    /\ changes \in 0..MaxContentChanges

PeriodsInit ==
    /\ content \in [Days -> DayInput]
    /\ quiet = TRUE
    /\ summary = [p \in Period |-> NoSummary]
    /\ periodJob = NoJob
    /\ pastJobs = {}
    /\ changes = 0

-----------------------------------------------------------------------------
(* What a summary should be built from *)

Matches(row, from) == row.active /\ row.from = from

\* inputs of a period, given the summaries; the week can be built when no day is missing
Inputs(rows, p) ==
    [d \in Days |-> IF content[d] = 0 \/ p \notin {d, Week} THEN 0
                    ELSE IF p = Week THEN rows[d].no ELSE content[d]]

\* every day with messages has a current summary of exactly these messages
DailyComplete(rows) ==
    \A d \in Days : content[d] # 0 => Matches(rows[d], Inputs(rows, d))

Available(rows, p) == p = Week => DailyComplete(rows)

\* an invalidated version takes with it every version built from it
Invalidate(rows, ps) ==
    LET follows == \E d \in Days \cap ps : rows[d].no > 0 /\ rows[Week].from[d] = rows[d].no
    IN [q \in Period |-> IF q \in ps \/ (q = Week /\ follows)
                         THEN [rows[q] EXCEPT !.active = FALSE] ELSE rows[q]]

-----------------------------------------------------------------------------
(* The scan *)

\* mutant: the version to be replaced is not part of the identity
IdentityOfSources(rows, p) == [period |-> p, from |-> Inputs(rows, p), prior |-> 0]

Identity(rows, p) == [period |-> p, from |-> Inputs(rows, p), prior |-> rows[p].no]
IdentityOf(job) == [period |-> job.period, from |-> job.from, prior |-> job.prior]
KnownIdentities == {IdentityOf(j) : j \in pastJobs}

\* a summary whose inputs are gone or have changed
Outdated(rows, p) ==
    IF Available(rows, p) THEN ~Matches(rows[p], Inputs(rows, p)) ELSE rows[p].no > 0

\* mutant: the scan leaves the week alone, and so does the invalidation of a day
AfterScanOfDays ==
    [q \in Period |-> IF q \in Days /\ Outdated(summary, q)
                     THEN [summary[q] EXCEPT !.active = FALSE] ELSE summary[q]]

\* days are looked at before the week
AfterScan ==
    LET days == Invalidate(summary, {d \in Days : Outdated(summary, d)})
    IN Invalidate(days, {p \in {Week} : Outdated(days, p)})

Schedulable(rows, p) ==
    /\ Available(rows, p)
    /\ ~Matches(rows[p], Inputs(rows, p))
    /\ Inputs(rows, p) # NoSources
    /\ Identity(rows, p) \notin KnownIdentities

\* one transaction per conversation, under its lock; the first period in order gets the job
Scan ==
    LET rows == AfterScan
        days == {d \in Days : Schedulable(rows, d)}
        candidates == IF days # {} THEN days ELSE {p \in {Week} : Schedulable(rows, p)}
    IN /\ summary' = rows
       /\ IF quiet /\ periodJob = NoJob /\ candidates # {}
          THEN \E p \in candidates :
                periodJob' = [period |-> p, from |-> Inputs(rows, p), prior |-> rows[p].no,
                              stage |-> "pending"]
          ELSE UNCHANGED periodJob
       /\ UNCHANGED <<content, quiet, pastJobs, changes>>

-----------------------------------------------------------------------------
(* The job *)

Finish(stage) ==
    /\ pastJobs' = pastJobs \cup {[periodJob EXCEPT !.stage = stage]}
    /\ periodJob' = NoJob

InputsHold ==
    /\ Available(summary, periodJob.period)
    /\ Inputs(summary, periodJob.period) = periodJob.from

\* job_inputs: the inputs of the scan are still there, and are sealed
PreparePeriod ==
    /\ periodJob.stage = "pending"
    /\ quiet
    /\ IF InputsHold
       THEN /\ periodJob' = [periodJob EXCEPT !.stage = "sealed"]
            /\ UNCHANGED pastJobs
       ELSE Finish("dead")
    /\ UNCHANGED <<content, quiet, summary, changes>>

\* verify_completion reads the inputs once more before the new version replaces the old
PublishPeriod ==
    /\ periodJob.stage = "sealed"
    /\ quiet
    /\ IF InputsHold
       THEN LET p == periodJob.period
                rows == IF summary[p].no > 0 THEN Invalidate(summary, {p}) ELSE summary
            IN /\ summary' = [rows EXCEPT ![p] = [no |-> @.no + 1, active |-> TRUE,
                                                 from |-> periodJob.from]]
               /\ Finish("succeeded")
       ELSE /\ Finish("dead")
            /\ UNCHANGED summary
    /\ UNCHANGED <<content, quiet, changes>>

\* the output is rejected, or the attempts run out, as they do while the conversation is busy
PeriodGivesUp ==
    /\ periodJob # NoJob
    /\ Finish("dead")
    /\ UNCHANGED <<content, quiet, summary, changes>>

-----------------------------------------------------------------------------
(* The messages of the past *)

ChangeContent(d, c) ==
    /\ changes < MaxContentChanges
    /\ content[d] # c
    /\ content' = [content EXCEPT ![d] = c]
    /\ changes' = changes + 1
    /\ quiet' = FALSE
    /\ UNCHANGED <<summary, periodJob, pastJobs>>

FallsQuiet ==
    /\ ~quiet
    /\ quiet' = TRUE
    /\ UNCHANGED <<content, summary, periodJob, pastJobs, changes>>

PeriodsNext ==
    \/ Scan
    \/ PreparePeriod \/ PublishPeriod \/ PeriodGivesUp
    \/ \E d \in Days, c \in DayInput : ChangeContent(d, c)
    \/ FallsQuiet

PeriodsFairness ==
    /\ WF_periodsVars(Scan)
    /\ WF_periodsVars(PreparePeriod \/ PublishPeriod)
    /\ WF_periodsVars(FallsQuiet)

PeriodsSpec == PeriodsInit /\ [][PeriodsNext]_periodsVars /\ PeriodsFairness

-----------------------------------------------------------------------------
(* Properties *)

\* A weekly summary never outlives a daily summary it was built from: invalidate follows the
\* sources downwards, whichever of scan and publish invalidates the day.
WeekStandsOnDays ==
    summary[Week].active =>
        \A d \in Days : summary[Week].from[d] > 0 =>
            /\ summary[d].no = summary[Week].from[d]
            /\ summary[d].active

Spent(p) ==
    [period |-> p, from |-> Inputs(summary, p), prior |-> summary[p].no] \in KnownIdentities

\* Once the past has stopped changing, every period whose days are there gets the summary of what
\* is there, unless the job for exactly these inputs is spent: an identity is scheduled once.
PeriodsCatchUp ==
    <>[](\A p \in Period :
            Available(summary, p) => \/ Matches(summary[p], Inputs(summary, p))
                                    \/ Inputs(summary, p) = NoSources
                                    \/ Spent(p))
=============================================================================
