--------------------------- MODULE StatsBackfill ---------------------------
(***************************************************************************)
(* The stats backfill (indexer/stats_backfill.go, db/backfill.go): blocks  *)
(* 0 .. Target, below START_BLOCK, are counted from the node batch after   *)
(* batch, each batch in one transaction with its progress; a batch keeps   *)
(* what it fetched and built for its retry; a block the node refuses is    *)
(* counted without what it refuses after StrictTries answers; the balances *)
(* of the keys touched are read as it goes, a failed one last; and the     *)
(* completion waits for catch-up to store the blocks from START_BLOCK to   *)
(* the first one daily_stats aggregated.                                   *)
(*                                                                         *)
(* What a block adds to the running counters, to its span and to its day   *)
(* is one copy of it; keys are numbers, in the order they are read.        *)
(***************************************************************************)
EXTENDS Integers, FiniteSets, FiniteSetsExt, Functions

CONSTANTS
    Target,             \* START_BLOCK - 1
    AggregateFrom,      \* the first block daily_stats aggregates, on a day after START_BLOCK's
    BatchBlocks,        \* STATS_BACKFILL_BATCH_BLOCKS
    SpanBlocks,         \* the ledger's span grid
    StrictTries,        \* strictBlockTries
    KeysPerRead,        \* balanceKeysPerRead
    KeysOf,             \* block -> the balance keys it touches
    BackfillScenarios   \* bound: what the node refuses, and how often each trouble may happen

VARIABLES
    backfill,     \* the stats_backfill row
    copies,       \* block -> copies of it in the running counters, the stage, the ledger and the days
    closedSpans,  \* ledger_spans with source 'node'
    pendingKeys,  \* stats_backfill_balance_keys: key -> its newest block
    currentAt,      \* current balances: key -> the block each is at, -1 for none
    walker,       \* the RunStatsBackfill loop
    upper,        \* catch-up's side: the blocks from START_BLOCK stored, and whether daily_stats started
    refusals,     \* history variable: block -> how often the node answered that it cannot serve it
    mishaps       \* what is left of the scenario's troubles

backfillVars == <<backfill, copies, closedSpans, pendingKeys, currentAt, walker, upper, refusals, mishaps>>
bfTables     == <<backfill, copies, closedSpans, pendingKeys>>

Below     == 0 .. Target
FromStart == Target + 1 .. AggregateFrom - 1
BalKey    == UNION {KeysOf[n] : n \in Below}
HeadBlock == AggregateFrom

BackfillTrouble == [refused : SUBSET Below, unread : SUBSET BalKey, never : SUBSET BalKey, faults : Nat, crashes : Nat,
                    heads : Nat, traces : BOOLEAN]

ASSUME BackfillAssumption ==
    /\ Target \in Nat /\ AggregateFrom \in Nat /\ AggregateFrom > Target
    /\ BatchBlocks \in Nat \ {0} /\ SpanBlocks \in Nat \ {0} /\ StrictTries \in Nat \ {0} /\ KeysPerRead \in Nat \ {0}
    /\ \A n \in Below : KeysOf[n] \subseteq Nat /\ IsFiniteSet(KeysOf[n])
    /\ BackfillScenarios \subseteq BackfillTrouble

\* spanOf: the grid, cut at Target + 1.
SpanLo(n) == (n \div SpanBlocks) * SpanBlocks
SpanHi(lo) == Min({lo + SpanBlocks, Target + 1})

\* Where a block's copies are: nowhere yet, in the stage of its span, or in the ledger.
Copy      == [running : Nat, stage : Nat, ledger : Nat, day : Nat]
FreshCopy == [running |-> 0, stage |-> 0, ledger |-> 0, day |-> 0]
Staged    == [running |-> 1, stage |-> 1, ledger |-> 0, day |-> 1]
InLedger  == [running |-> 1, stage |-> 0, ledger |-> 1, day |-> 1]

\* What is kept of a batch for its retry.
BatchRetry == [from : -1 .. Target, to : -1 .. Target + 1, fetched : SUBSET Below, built : 0 .. BatchBlocks]
NoRetry    == [from |-> -1, to |-> -1, fetched |-> {}, built |-> 0]
NoFailing  == [block |-> 0, tries |-> 0]
StoppedLoop == [pc |-> "down", retry |-> NoRetry, failing |-> NoFailing, lenient |-> {}, readAfter |-> 0, done |-> FALSE]

Walker == [pc : {"down", "step", "complete", "read", "ended"}, retry : BatchRetry, failing : [block : Below, tries : Nat],
           lenient : SUBSET Below, readAfter : BalKey \cup {0}, done : BOOLEAN]

\* ReconcileForStart, PrepareStatsBackfill, InitStatsBackfill: the row is created once, on a database without a block
\* at or below Target; until every block is counted the process starts only on a node that traces old blocks.
Prepare ==
    /\ walker.pc = "down"
    /\ mishaps.traces \/ backfill.through = Target
    /\ backfill' = [backfill EXCEPT !.exists = TRUE]
    /\ walker' = [StoppedLoop EXCEPT !.pc = "step"]
    /\ UNCHANGED <<copies, closedSpans, pendingKeys, currentAt, upper, refusals, mishaps>>

-----------------------------------------------------------------------------
(* step: the next batch *)

From == backfill.through + 1
To   == Min({From + BatchBlocks, Target + 1})
Counting == walker.pc = "step" /\ ~backfill.complete /\ backfill.through < Target

\* The retry of the batch that failed, or a new one.
Retry == IF walker.retry.from = From /\ walker.retry.to = To THEN walker.retry
         ELSE [from |-> From, to |-> To, fetched |-> {}, built |-> 0]

Unfetched == (From .. To - 1) \ Retry.fetched

\* The fetches run side by side: one that fails fails the step, and keeps the blocks the others fetched.
FetchBlocks(S) ==
    /\ Counting /\ Unfetched # {}
    /\ S = Unfetched \/ mishaps.faults > 0
    /\ walker' = [walker EXCEPT !.retry = [Retry EXCEPT !.fetched = @ \cup S], !.pc = IF S = Unfetched THEN "step" ELSE "read"]
    /\ mishaps' = IF S = Unfetched THEN mishaps ELSE [mishaps EXCEPT !.faults = @ - 1]
    /\ UNCHANGED <<bfTables, currentAt, upper, refusals>>

\* The next block to build, those before it kept from an earlier try.
NextBuilt == From + Retry.built
Building  == Counting /\ Unfetched = {} /\ NextBuilt < To

BuildBlock ==
    /\ Building
    /\ NextBuilt \notin mishaps.refused
    /\ walker' = [walker EXCEPT !.retry = [Retry EXCEPT !.built = @ + 1]]
    /\ UNCHANGED <<bfTables, currentAt, upper, refusals, mishaps>>

\* A failure that is not the node's answer fails the step and does not count.
BuildFails ==
    /\ Building /\ mishaps.faults > 0
    /\ walker' = [walker EXCEPT !.retry = Retry, !.pc = "read"]
    /\ mishaps' = [mishaps EXCEPT !.faults = @ - 1]
    /\ UNCHANGED <<bfTables, currentAt, upper, refusals>>

\* givesUp: refusals of one block in a row.
Tried == IF walker.failing.block = NextBuilt THEN [walker.failing EXCEPT !.tries = @ + 1]
         ELSE [block |-> NextBuilt, tries |-> 1]

BuildRefused ==
    /\ Building
    /\ NextBuilt \in mishaps.refused
    /\ refusals' = [refusals EXCEPT ![NextBuilt] = @ + 1]
    /\ IF Tried.tries < StrictTries
       THEN walker' = [walker EXCEPT !.retry = Retry, !.failing = Tried, !.pc = "read"]
       ELSE walker' = [walker EXCEPT !.retry = [Retry EXCEPT !.built = @ + 1], !.failing = Tried, !.lenient = @ \cup {NextBuilt}]
    /\ UNCHANGED <<bfTables, currentAt, upper, mishaps>>

\* The build without what is refused fails as well, on something else.
LenientFails ==
    /\ Building /\ NextBuilt \in mishaps.refused /\ Tried.tries >= StrictTries /\ mishaps.faults > 0
    /\ refusals' = [refusals EXCEPT ![NextBuilt] = @ + 1]
    /\ walker' = [walker EXCEPT !.retry = Retry, !.failing = Tried, !.pc = "read"]
    /\ mishaps' = [mishaps EXCEPT !.faults = @ - 1]
    /\ UNCHANGED <<bfTables, currentAt, upper>>

\* Mutant: the stage of a closed span is kept besides the ledger rows it became.
KeptInStage(n, hi) == [copies[n] EXCEPT !.stage = IF n \in From .. To - 1 THEN @ + 1 ELSE @, !.ledger = IF hi <= To THEN @ + 1 ELSE @]

\* addToStage, and ledger_stage_commit once the batch reaches the span's end.
InSpan(n, hi) ==
    LET stage == copies[n].stage + (IF n \in From .. To - 1 THEN 1 ELSE 0)
    IN IF hi <= To THEN [copies[n] EXCEPT !.ledger = @ + stage, !.stage = 0] ELSE [copies[n] EXCEPT !.stage = stage]

\* addDay, and addDailyParts: what the batch's blocks add to their days.
DayParts(n) == IF n \in From .. To - 1 THEN 1 ELSE 0
InDay(n)    == copies[n].day + DayParts(n)

\* The batch's keys, each at its newest block.
KeysOfBatch == UNION {KeysOf[n] : n \in From .. To - 1}
NewestOf(k) == Max({n \in From .. To - 1 : k \in KeysOf[n]} \cup (IF k \in DOMAIN pendingKeys THEN {pendingKeys[k]} ELSE {}))

\* What CommitBackfillBatch writes, in one transaction: the shared rows and counters, the spans, the days, the keys
\* and the progress.
ApplyBatch ==
    LET batch == From .. To - 1
        los   == {SpanLo(n) : n \in batch}
    IN /\ copies' = [n \in Below |->
              LET moved == IF SpanLo(n) \in los THEN InSpan(n, SpanHi(SpanLo(n))) ELSE copies[n]
              IN [moved EXCEPT !.running = @ + (IF n \in batch THEN 1 ELSE 0), !.day = InDay(n)]]
       /\ closedSpans' = closedSpans \cup {lo \in los : SpanHi(lo) <= To}
       /\ pendingKeys' = [k \in DOMAIN pendingKeys \cup KeysOfBatch |-> IF k \in KeysOfBatch THEN NewestOf(k) ELSE pendingKeys[k]]
       /\ backfill' = [backfill EXCEPT !.through = To - 1]

Committing == Counting /\ Unfetched = {} /\ NextBuilt = To

CommitBackfillBatch ==
    /\ Committing
    /\ ApplyBatch
    /\ walker' = [walker EXCEPT !.retry = NoRetry, !.pc = "read"]
    /\ UNCHANGED <<currentAt, upper, refusals, mishaps>>

\* The commit's answer is lost, and the transaction was applied or not: the next step reads the progress again.
CommitUnknown ==
    /\ Committing /\ mishaps.faults > 0
    /\ mishaps' = [mishaps EXCEPT !.faults = @ - 1]
    /\ ApplyBatch \/ UNCHANGED bfTables
    /\ walker' = [walker EXCEPT !.retry = NoRetry, !.pc = "read"]
    /\ UNCHANGED <<currentAt, upper, refusals>>

-----------------------------------------------------------------------------
(* Completion *)

\* backfillWait, and the check under daily_stats_advance's lock.
CatchupReached == upper.started /\ FromStart \subseteq upper.stored

CompleteCheck ==
    /\ walker.pc = "step" /\ ~backfill.complete /\ backfill.through = Target
    /\ walker' = [walker EXCEPT !.pc = IF CatchupReached THEN "complete" ELSE "read"]
    /\ UNCHANGED <<bfTables, currentAt, upper, refusals, mishaps>>

CompleteStatsBackfill ==
    /\ walker.pc = "complete"
    /\ backfill' = [backfill EXCEPT !.complete = CatchupReached]
    /\ walker' = [walker EXCEPT !.pc = "read", !.done = CatchupReached]
    /\ UNCHANGED <<copies, closedSpans, pendingKeys, currentAt, upper, refusals, mishaps>>

StepDone ==
    /\ walker.pc = "step" /\ backfill.complete
    /\ walker' = [walker EXCEPT !.pc = "read", !.done = TRUE]
    /\ UNCHANGED <<bfTables, currentAt, upper, refusals, mishaps>>

-----------------------------------------------------------------------------
(* readBalances *)

FirstKeys(S) == {k \in S : Cardinality({j \in S : j < k}) < KeysPerRead}

\* Mutant: every pass starts at the first key.
FromFirst == FirstKeys(DOMAIN pendingKeys)

\* The keys after the last one taken, from the first again at the end.
NextBackfillBalanceKeys ==
    LET after == {k \in DOMAIN pendingKeys : k > walker.readAfter}
    IN FirstKeys(IF after = {} THEN DOMAIN pendingKeys ELSE after)

\* SettleBackfillBalances: a balance read is stored at its key's block unless the head path stored a later one.
SettledAt(k) == Max({currentAt[k], pendingKeys[k]})

\* The keys read, or found not to be a token's, are dropped; the others stay for the next pass.
ReadBalances ==
    LET keys    == NextBackfillBalanceKeys
        settled == keys \ mishaps.unread
    IN /\ walker.pc = "read"
       /\ currentAt' = [k \in BalKey |-> IF k \in settled THEN SettledAt(k) ELSE currentAt[k]]
       /\ pendingKeys' = Restrict(pendingKeys, DOMAIN pendingKeys \ settled)
       /\ walker' = [walker EXCEPT !.pc = IF walker.done /\ keys = {} THEN "ended" ELSE "step",
                                   !.readAfter = IF keys = {} THEN 0 ELSE Max(keys)]
       /\ UNCHANGED <<backfill, copies, closedSpans, upper, refusals, mishaps>>

\* The node that does not trace old blocks is replaced by one that does.
TracesBack ==
    /\ ~mishaps.traces
    /\ mishaps' = [mishaps EXCEPT !.traces = TRUE]
    /\ UNCHANGED <<bfTables, currentAt, walker, upper, refusals>>

\* The node answers a key's read again, or for the first time.
ReadRecovers(k) ==
    /\ k \in mishaps.unread \ mishaps.never
    /\ mishaps' = [mishaps EXCEPT !.unread = @ \ {k}]
    /\ UNCHANGED <<bfTables, currentAt, walker, upper, refusals>>

-----------------------------------------------------------------------------
(* Around it *)

CatchupStores(n) ==
    /\ n \in FromStart \ upper.stored
    /\ upper' = [upper EXCEPT !.stored = @ \cup {n}]
    /\ UNCHANGED <<bfTables, currentAt, walker, refusals, mishaps>>

DailyStatsStart ==
    /\ ~upper.started
    /\ upper' = [upper EXCEPT !.started = TRUE]
    /\ UNCHANGED <<bfTables, currentAt, walker, refusals, mishaps>>

\* The head path stores a key's balance at its own block.
HeadBalance(k) ==
    /\ mishaps.heads > 0
    /\ currentAt' = [currentAt EXCEPT ![k] = HeadBlock]
    /\ mishaps' = [mishaps EXCEPT !.heads = @ - 1]
    /\ UNCHANGED <<bfTables, walker, upper, refusals>>

BackfillCrash ==
    /\ mishaps.crashes > 0 /\ walker.pc # "down"
    /\ mishaps' = [mishaps EXCEPT !.crashes = @ - 1]
    /\ walker' = StoppedLoop
    /\ UNCHANGED <<bfTables, currentAt, upper, refusals>>

BackfillInitWith(s) ==
    /\ mishaps = s
    /\ backfill = [exists |-> FALSE, through |-> -1, complete |-> FALSE]
    /\ copies = [n \in Below |-> FreshCopy]
    /\ closedSpans = {} /\ pendingKeys = <<>>
    /\ currentAt = [k \in BalKey |-> -1]
    /\ walker = StoppedLoop
    /\ upper = [stored |-> {}, started |-> FALSE]
    /\ refusals = [n \in Below |-> 0]

BackfillInit == \E s \in BackfillScenarios : BackfillInitWith(s)

BackfillStep ==
    \/ Prepare
    \/ \E S \in SUBSET Below : S \subseteq Unfetched /\ FetchBlocks(S)
    \/ BuildBlock \/ BuildFails \/ BuildRefused \/ LenientFails
    \/ CommitBackfillBatch \/ CommitUnknown
    \/ CompleteCheck \/ CompleteStatsBackfill \/ StepDone
    \/ ReadBalances

BackfillNext ==
    \/ BackfillStep
    \/ \E k \in BalKey : ReadRecovers(k) \/ HeadBalance(k)
    \/ \E n \in FromStart : CatchupStores(n)
    \/ DailyStatsStart
    \/ TracesBack
    \/ BackfillCrash

BackfillSpec == BackfillInit /\ [][BackfillNext]_backfillVars

\* The loop runs, catch-up stores every block, daily_stats starts, the node traces again, and a read that can recover does.
BackfillFairness ==
    /\ WF_backfillVars(BackfillStep)
    /\ WF_backfillVars(DailyStatsStart) /\ WF_backfillVars(TracesBack)
    /\ \A n \in FromStart : WF_backfillVars(CatchupStores(n))
    /\ \A k \in BalKey : WF_backfillVars(ReadRecovers(k))

-----------------------------------------------------------------------------
\* Type invariant.
BackfillTypeOK ==
    /\ backfill \in [exists : BOOLEAN, through : -1 .. Target, complete : BOOLEAN]
    /\ copies \in [Below -> Copy]
    /\ closedSpans \subseteq Below
    /\ DOMAIN pendingKeys \subseteq BalKey /\ pendingKeys \in [DOMAIN pendingKeys -> Below]
    /\ walker \in Walker
    /\ currentAt \in [BalKey -> -1 .. HeadBlock]
    /\ upper \in [stored : SUBSET FromStart, started : BOOLEAN]
    /\ refusals \in [Below -> Nat]
    /\ mishaps \in BackfillTrouble

\* Whatever failed, was retried, or was applied without an answer: a block up to the progress counts once in the
\* running counters and its day, and once in the ledger or, in the span still open, the stage (CommitBackfillBatch).
\* Once it is complete it has counted every block, and the blocks daily_stats did not aggregate are all stored
\* (CompleteStatsBackfill).  A block is counted without what the node refuses only after StrictTries refusals of that
\* block (givesUp).
BackfilledOnce ==
    /\ \A n \in Below :
        copies[n] = IF n > backfill.through THEN FreshCopy ELSE IF SpanLo(n) \in closedSpans THEN InLedger ELSE Staged
    /\ backfill.complete => backfill.through = Target /\ FromStart \subseteq upper.stored
    /\ \A n \in walker.lenient : refusals[n] >= StrictTries

\* What the proofs need besides: a span is closed only once all of it is counted, the completion is tried only with
\* every block counted, and the refusals in a row are among those there were.
BackfillInv ==
    /\ BackfillTypeOK
    /\ BackfilledOnce
    /\ \A lo \in closedSpans : SpanHi(lo) <= backfill.through + 1
    /\ walker.pc = "complete" => backfill.through = Target
    /\ walker.failing.tries <= refusals[walker.failing.block]

\* The backfill completes, and every key whose balance the node can ever read is read, although others fail on
\* every pass (RunStatsBackfill, readBalances).
BackfillCompletes == <>[](backfill.complete /\ DOMAIN pendingKeys \subseteq mishaps.never)

=============================================================================
