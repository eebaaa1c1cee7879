---------------------------- MODULE MCStatistics ----------------------------
(***************************************************************************)
(* Small instances, for one run of TLC, of the jobs that count what was    *)
(* stored: the daily statistics, the backfill below the start block and    *)
(* the recount of pruned spans.  Each behaviour moves one of them; the     *)
(* others stay at a first state.                                           *)
(***************************************************************************)
EXTENDS DailyStats, StatsBackfill, NodeRecount, TLC

VARIABLE part   \* the job that runs

-----------------------------------------------------------------------------
\* Days 0 and 1 have two blocks, day 2 one.
Transactions == [n \in 0..LastBlock |-> <<1, 2, 0, 1, 2>>[n + 1]]

DailyCalm == [interval |-> TRUE, from |-> 2, last |-> 3, writers |-> 1, forks |-> 0, prunes |-> 0, faults |-> 0,
              others |-> 0, refills |-> 0, crashes |-> 0]
DailyTroubles == {
    [DailyCalm EXCEPT !.from = 3, !.writers = 2],               \* a block below, noted by another writer
    [DailyCalm EXCEPT !.last = 4],
    [DailyCalm EXCEPT !.from = 0, !.forks = 1],
    [DailyCalm EXCEPT !.last = 2, !.forks = 1],                 \* a revert lowers the mark over blocks not stored yet
    [DailyCalm EXCEPT !.from = 3, !.crashes = 1],
    [DailyCalm EXCEPT !.faults = 1],
    [DailyCalm EXCEPT !.refills = 1, !.prunes = 1],
    [DailyCalm EXCEPT !.last = 2, !.others = 2],                \* another process folds too
    [DailyCalm EXCEPT !.interval = FALSE, !.from = 3]}

-----------------------------------------------------------------------------
\* The balance keys of the blocks below START_BLOCK.
Keys0 == 0 :> {1} @@ 1 :> {1, 2} @@ 2 :> {3} @@ 3 :> {2} @@ 4 :> {}

BackfillCalm == [refused |-> {}, unread |-> {}, never |-> {}, faults |-> 0, crashes |-> 0, heads |-> 0, traces |-> TRUE]
Mishaps == {
    [BackfillCalm EXCEPT !.refused = {1, 2}, !.faults = 2],
    [BackfillCalm EXCEPT !.faults = 2, !.crashes = 1],
    [BackfillCalm EXCEPT !.refused = {1, 2}, !.crashes = 2, !.traces = FALSE],
    [BackfillCalm EXCEPT !.unread = {1, 2}, !.never = {1}, !.heads = 1]}

-----------------------------------------------------------------------------
RecountCalm == [genesis |-> FALSE, repair |-> TRUE, undecided |-> {}, refused |-> {}, faults |-> 0, drifts |-> 0,
                merges |-> 0, retained |-> 0, crashes |-> 0]
Recounts == {
    [RecountCalm EXCEPT !.undecided = {1}, !.faults = 2, !.crashes = 1],
    [RecountCalm EXCEPT !.refused = {2}, !.drifts = 1, !.genesis = TRUE, !.retained = 1],
    [RecountCalm EXCEPT !.drifts = 2, !.merges = 1, !.genesis = TRUE, !.retained = 1],
    [RecountCalm EXCEPT !.drifts = 2, !.merges = 1, !.faults = 1],
    [RecountCalm EXCEPT !.drifts = 1, !.repair = FALSE, !.retained = 1]}

-----------------------------------------------------------------------------
statisticsVars == <<part, dailyVars, backfillVars, recountVars>>

StatisticsInit ==
    /\ part \in {"daily", "backfill", "recount"}
    /\ IF part = "daily" THEN DailyInit ELSE DailyInitWith(DailyCalm)
    /\ IF part = "backfill" THEN BackfillInit ELSE BackfillInitWith(BackfillCalm)
    /\ IF part = "recount" THEN RecountInit ELSE RecountInitWith(RecountCalm)

StatisticsNext ==
    \/ part = "daily" /\ DailyNext /\ UNCHANGED <<part, backfillVars, recountVars>>
    \/ part = "backfill" /\ BackfillNext /\ UNCHANGED <<part, dailyVars, recountVars>>
    \/ part = "recount" /\ RecountNext /\ UNCHANGED <<part, dailyVars, backfillVars>>

\* The fairness of the job that runs.
StatisticsFairness ==
    \/ part = "daily" /\ DailyFairness
    \/ part = "backfill" /\ BackfillFairness
    \/ part = "recount" /\ RecountFairness

StatisticsSpec == StatisticsInit /\ [][StatisticsNext]_statisticsVars /\ StatisticsFairness

-----------------------------------------------------------------------------
\* Type invariant of the daily statistics, the backfill and the recount.
StatisticsTypeOK == DailyTypeOK /\ BackfillTypeOK /\ RecountTypeOK

\* EventuallyCounted, of the daily statistics that run: each stored block ends up counted in its day (dailyThrottle,
\* FoldDailyStats).
DaysEventuallyCounted == part = "daily" => EventuallyCounted

\* BackfillCompletes, of the backfill that runs (RunStatsBackfill).
BackfillEventuallyCompletes == part = "backfill" => BackfillCompletes

\* EverySpanReached, of the recount that runs (recountPrunedSpans).
SpansEventuallyReached == part = "recount" => EverySpanReached
=============================================================================
