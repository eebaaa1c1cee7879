-------------------------- MODULE LedgerRetention --------------------------
(***************************************************************************)
(* History in block ranges, the ledger of closed spans, and retention.     *)
(* Every history table has one partition per range of history_partitions.  *)
(* The ledger closer counts final, complete spans of blocks in block       *)
(* order.  Retention bounds the legacy range once (the cut), keeps ranges  *)
(* ahead of the head, and takes whole ranges below the window away: the    *)
(* watermark moves past a range in one transaction; then its tables are    *)
(* detached, archived and dropped, one at a time.  A start recounts the    *)
(* running totals from the retained rows and the pruned spans.             *)
(*                                                                         *)
(* A block has one row in every table, and a total is a number of blocks.  *)
(* The tables are 1..Tables in the order of HistoryTables: 1 is blocks,    *)
(* and the first p.off of range p are no longer read through their parent. *)
(* Closing a span is one step; a wait that ends because a reader or the    *)
(* closer keeps a lock is a "busy" outcome.  START_BLOCK is 0.             *)
(***************************************************************************)
EXTENDS Integers, FiniteSets, FiniteSetsExt

CONSTANTS Tables,         \* how many history tables there are
          PartitionBlocks, SpanBlocks, RetainBlocks, CompactSpans,
          PruneFloorGap, MaxReorgDepth, MaxPartitionsPerEnsure,
          DayBlocks,      \* blocks per UTC day
          NodeAhead,      \* bound: how far above the stored head the node's head is read
          GateBlocks,     \* bound: the blocks ingest stores while the closer waits for the history-DDL gate
          Genesis,        \* {0} where block 0 is stored, or {}: ingest that starts on an empty database skips it
          HighestBlock,       \* bound: the highest block stored
          RetentionScenarios       \* the troubles a behaviour may meet: how often each may happen, and the chain's last block

Trouble  == {"jumps", "reverts", "busy", "crashes", "wipes", "dependents"}
Scenario == [times : [Trouble -> Nat], last : 0..HighestBlock]

ASSUME LedgerRetentionAssumption ==
    /\ Tables \in Nat \ {0} /\ PartitionBlocks \in Nat \ {0, 1} /\ SpanBlocks \in Nat \ {0}
    /\ DayBlocks \in Nat \ {0} /\ MaxPartitionsPerEnsure \in Nat \ {0} /\ HighestBlock \in Nat \ {0}
    /\ PruneFloorGap \in Nat \ {0} /\ RetainBlocks \in Nat /\ RetainBlocks >= PruneFloorGap
    /\ MaxReorgDepth \in 0..PruneFloorGap /\ CompactSpans \in Nat \ {1}
    /\ NodeAhead \in Nat /\ GateBlocks \in Nat /\ GateBlocks < PruneFloorGap + PartitionBlocks
    /\ Genesis \subseteq {0} /\ RetentionScenarios \subseteq Scenario

VARIABLES
    present,     \* the blocks that have rows in some partition
    total,      \* the running total, moved by every write and revert
    missingBlocks,    \* missing_block_ranges, block by block
    fetched,    \* the blocks catch-up's workers hold and have not written yet
    dailyFrom,  \* where daily_stats counts from: after the newest day's first fold or revert; -1: not started
    parts,      \* history_partitions, and how far each range's tables are detached and dropped
    cutAt,      \* the bound of the cut's check on the legacy tables
    checks,     \* on how many of them the check is (the last ones: it is dropped in order)
    pruned,     \* prune_state.pruned_through
    spans,      \* ledger_spans and the totals of their rows
    archives,   \* history_archives: the tables of a range that are archived
    mark,       \* wipe_in_progress: "none", made by this process ("new"), or found by its start
    proc,       \* the process: "down", the steps of its start, "up"
    ens,        \* the holder of ensureMu
    ret,        \* retention's pass
    closer,     \* the ledger closer
    deps,       \* the ranges objects outside the indexer depend on, by their lower bound
    peak,       \* history variable: the highest block this chain's head reached
    era,        \* history variable: the wipes finished or begun
    left        \* the troubles left to the behaviour, and the chain's last block

chainVars  == <<present, total, missingBlocks, fetched, dailyFrom, peak>>
rangeVars  == <<parts, cutAt, checks>>
ledgerVars == <<pruned, spans, archives>>
procVars   == <<mark, proc, ens, ret, closer, era>>
retentionVars == <<present, total, missingBlocks, fetched, dailyFrom, parts, cutAt, checks, pruned, spans, archives, mark, proc, ens,
          ret, closer, deps, peak, era, left>>

Unbounded == -1
NoDay     == -1

Partition == [lo : Nat, hi : Nat \cup {Unbounded}, legacy : BOOLEAN, state : {"attached", "detaching", "detached"},
              off : 0..Tables, pending : BOOLEAN, gone : 0..Tables]
NewRange(lo, hi) == [lo |-> lo, hi |-> hi, legacy |-> FALSE, state |-> "attached", off |-> 0, pending |-> FALSE,
                     gone |-> 0]

Spend(t) == left.times[t] > 0 /\ left' = [left EXCEPT !.times[t] = @ - 1]

-----------------------------------------------------------------------------
(* What the queries read. *)

Holds(p, n) == p.lo <= n /\ (p.hi = Unbounded \/ n < p.hi)

\* The rows of table t read through its parent: a partition detached, or pending, is not among them.
Visible(t) == {n \in present : \E p \in parts : Holds(p, n) /\ p.off < t}

\* GetLatestBlockNumber; 0 on an empty table.
StoredHead == Max(Visible(1) \cup {0})

\* Mutant: the watermark is not looked at.
HistoryFromZero == 0

\* history_from(): the first retained block.
HistoryFrom == IF pruned > 0 THEN pruned + 1 ELSE 0

HistoryCut == ~ \E p \in parts : p.legacy /\ p.hi = Unbounded

Day(n) == n \div DayBlocks

\* The daily_stats watermark: as far as blocks follow on from where it counts.  Its fold runs after every write; a
\* fold that lags only makes a prune wait and a revert's day smaller.
Daily == LET rows == Visible(1)
         IN IF dailyFrom = NoDay THEN NoDay
            ELSE Max({dailyFrom} \cup {n \in rows : n > dailyFrom /\ (dailyFrom + 1)..n \subseteq rows})

ClosedThrough == Max({s.hi : s \in spans} \cup {0})

\* A row of block n finds a partition in every table, and no check of a cut refuses it.
Insertable(n) == \E p \in parts : Holds(p, n) /\ p.off = 0 /\ ~(p.legacy /\ checks > 0 /\ n >= cutAt)

\* prune_offsets: the pruned spans' totals.
PruneOffset == MapThenSumSet(LAMBDA s : s.blocks, {s \in spans : s.hi <= HistoryFrom})

\* countRetained: the rows of the parent minus those of the ranges at or below the watermark still attached to it.
PrunedButAttached(t) == {p \in parts : p.hi # Unbounded /\ p.hi <= HistoryFrom /\ p.off < t}
\* Mutant: a range past the watermark is counted until its table is detached.
CountParent(t) == Cardinality(Visible(t))

CountRetained(t) ==
    LET rows   == Visible(t)
        taken == PrunedButAttached(t)
    IN Cardinality(rows) - Cardinality({n \in rows : \E p \in taken : Holds(p, n)})

\* history_range_complete: no missing range touches it and every block from the first retained one (or 1) is stored.
RangeComplete(p) ==
    LET first == Max({p.lo, HistoryFrom, 1})
    IN /\ ~ \E n \in missingBlocks : first <= n /\ n < p.hi
       /\ Cardinality({n \in present : Holds(p, n) /\ n >= first}) = p.hi - first

\* prune_day_floor: the day of the newest stored block at or below the reorg floor, or of the watermark.
DayFloor ==
    LET head  == StoredHead
        below == {n \in Visible(1) : n <= head - PruneFloorGap}
    IN IF below # {} THEN Day(Max(below))
       ELSE IF pruned > 0 /\ Visible(1) # {} THEN Day(pruned) ELSE NoDay

\* Mutant: a day that a reorg may still reach does not keep a range.
BeforeAnyDay(p) == DayFloor # NoDay

\* history_range_before_reorg_day
BeforeReorgDay(p) ==
    LET floor == DayFloor
    IN floor # NoDay /\ \A n \in present : Holds(p, n) => Day(n) < floor

OldestAttached == {p \in parts : p.state = "attached" /\ \A q \in parts : q.state = "attached" => p.lo <= q.lo}

\* What pruneOldest requires of the oldest attached range before it asks for it to be pruned.
MayPrune(p) ==
    /\ p.hi # Unbounded /\ Daily # NoDay /\ StoredHead >= RetainBlocks
    /\ p.hi - 1 <= StoredHead - RetainBlocks /\ p.hi - 1 + PruneFloorGap <= StoredHead /\ p.hi - 1 <= Daily
    /\ BeforeReorgDay(p)
    /\ \E s \in spans : s.hi = p.hi
    /\ RangeComplete(p)

\* What prune_advance requires of it again, in its transaction: all of it but the window.
Advances(p) ==
    /\ p.hi # Unbounded /\ Daily # NoDay
    /\ p.hi - 1 <= StoredHead - PruneFloorGap /\ p.hi - 1 <= Daily
    /\ BeforeReorgDay(p)
    /\ RangeComplete(p)
    /\ \E s \in spans : s.hi = p.hi

-----------------------------------------------------------------------------
(* Ingest, catch-up, reverts and daily_stats, as far as the ranges and the ledger see them. *)

Up == proc = "up"

StoreRow(n) == present' = present \cup {n} /\ total' = total + 1

\* daily_stats_advance starts at the newest day's first stored block, whatever is missing below it.
DailyStart(n) == dailyFrom' = IF dailyFrom = NoDay
                              THEN Max({0, Min({m \in Visible(1) \cup {n} : Day(m) = Day(n)}) - 1}) ELSE dailyFrom

\* The next block; or, after a stall, the node's head, and the blocks between are missing, recorded or not.
Ingest ==
    /\ Up
    /\ \E n \in {StoredHead + 1, StoredHead + 2} :
        /\ n <= left.last /\ Insertable(n)
        /\ StoreRow(n) /\ DailyStart(n)
        /\ peak' = Max({peak, n})
        /\ \/ n = StoredHead + 1 /\ UNCHANGED <<missingBlocks, left>>
           \/ n = StoredHead + 2 /\ Spend("jumps") /\ missingBlocks' \in {missingBlocks, missingBlocks \cup {StoredHead + 1}}
    /\ UNCHANGED <<fetched, rangeVars, ledgerVars, procVars, deps>>

\* The rescan for blocks that are not stored and not recorded.
FindMissing ==
    /\ Up
    /\ LET gaps == {n \in Max({HistoryFrom, 1})..StoredHead : n \notin Visible(1)}
       IN gaps \ missingBlocks # {} /\ missingBlocks' = missingBlocks \cup gaps
    /\ UNCHANGED <<present, total, fetched, dailyFrom, peak, rangeVars, ledgerVars, procVars, deps, left>>

FetchMissing ==
    /\ Up
    /\ \E n \in missingBlocks \ fetched : n >= HistoryFrom /\ fetched' = fetched \cup {n}
    /\ UNCHANGED <<present, total, missingBlocks, dailyFrom, peak, rangeVars, ledgerVars, procVars, deps, left>>

\* A fetched block is written: no change where it is stored already, an error where no partition takes it.  A
\* second worker may still hold it.
WriteMissing ==
    /\ Up
    /\ \E n \in fetched :
        /\ fetched' \in {fetched, fetched \ {n}}
        /\ \/ n \in Visible(1) /\ missingBlocks' = missingBlocks \ {n} /\ UNCHANGED <<present, total>>
           \/ n \notin Visible(1) /\ Insertable(n) /\ StoreRow(n) /\ missingBlocks' = missingBlocks \ {n}
           \/ n \notin Visible(1) /\ ~Insertable(n) /\ UNCHANGED <<present, total, missingBlocks>>
    /\ UNCHANGED <<dailyFrom, peak, rangeVars, ledgerVars, procVars, deps, left>>

\* daily_stats_invalidate refuses a block whose day is partly pruned.
DayRefused(n) == pruned > 0 /\ Day(n) <= Day(pruned) /\ Daily >= n

\* DeleteBlock of the head, within the depth a reorg reaches; its whole day is counted again.
RevertStored ==
    /\ Up /\ StoredHead > 0 /\ StoredHead > peak - MaxReorgDepth /\ ~DayRefused(StoredHead)
    /\ Spend("reverts")
    /\ present' = present \ {StoredHead} /\ total' = total - 1
    /\ dailyFrom' = IF Daily >= StoredHead THEN Min({n \in Visible(1) : Day(n) >= Day(StoredHead)}) - 1 ELSE dailyFrom
    /\ UNCHANGED <<missingBlocks, fetched, peak, rangeVars, ledgerVars, procVars, deps>>

-----------------------------------------------------------------------------
(* ensureMu: gaps above the watermark are filled and ranges are kept ahead of the head. *)

EnsIdle == [pc |-> "idle", by |-> "none", todo |-> {}, upto |-> 0, made |-> 0]

\* Mutant: no gap is filled.
NoGapRanges == {}

\* The gaps of fillHistoryGaps between the first retained block and the highest range, in ranges of the newest
\* one's size, a shorter one first.
NewestSize == LET sized == {p \in parts : ~p.legacy} IN
              IF sized = {} THEN 0 ELSE LET p == CHOOSE p \in sized : \A q \in sized : q.lo <= p.lo IN p.hi - p.lo
CoveredBelow(p) == Max({q.hi : q \in {q \in parts : q.lo < p.lo}} \cup {HistoryFrom})
FirstChunk(length, size) == IF length % size = 0 THEN size ELSE length % size
Chunks(a, b, size) ==
    LET first == FirstChunk(b - a, size)
    IN {<<a, a + first>>} \cup {<<x, x + size>> : x \in {x \in (a + first)..(b - 1) : (x - a - first) % size = 0}}
GapRanges ==
    IF NewestSize = 0 \/ ~HistoryCut THEN {}
    ELSE UNION {Chunks(CoveredBelow(p), p.lo, NewestSize) : p \in {p \in parts : p.lo > CoveredBelow(p)}}

HighestBound == Max({p.hi : p \in parts})

\* EnsurePartitionsAhead takes the lock and reads the gaps in one snapshot with the watermark.  A call that finds
\* nothing to create changes nothing.
EnsureStart(by, head) ==
    /\ ens.pc = "idle"
    /\ ens' = [pc |-> "fill", by |-> by, todo |-> GapRanges, upto |-> head + 2 * PartitionBlocks, made |-> 0]
NothingToEnsure(head) == GapRanges = {} /\ (HistoryCut => HighestBound > head + 2 * PartitionBlocks)

\* The keeper reads the higher of the stored head and the node's.
KeepPartitionsAhead ==
    /\ Up /\ \E node \in StoredHead..(StoredHead + NodeAhead) : EnsureStart("keeper", node) /\ ~NothingToEnsure(node)
    /\ UNCHANGED <<chainVars, rangeVars, ledgerVars, mark, proc, ret, closer, era, deps, left>>

\* createInGap, lowest first: only from the first retained block up and where no range is; else the fill ends.
CreateInGap ==
    /\ ens.pc = "fill" /\ ens.todo # {}
    /\ LET g == CHOOSE g \in ens.todo : \A h \in ens.todo : g[1] <= h[1]
       IN IF g[1] >= HistoryFrom /\ ~ \E p \in parts : \E n \in g[1]..(g[2] - 1) : Holds(p, n)
          THEN parts' = parts \cup {NewRange(g[1], g[2])} /\ ens' = [ens EXCEPT !.todo = @ \ {g}]
          ELSE parts' = parts /\ ens' = [ens EXCEPT !.todo = {}]
    /\ UNCHANGED <<chainVars, cutAt, checks, ledgerVars, mark, proc, ret, closer, era, deps, left>>

\* finishDetached reads the ranges past the watermark and takes the lowest first; none is left: pruneOldest.
PastWatermark == {p.lo : p \in {p \in parts : p.state # "attached"}}
RangeAt(lo)   == CHOOSE p \in parts : p.lo = lo
FinishFrom(todo) ==
    [ret EXCEPT !.todo = todo,
                !.pc = IF todo = {} THEN "prune"
                       ELSE IF RangeAt(Min(todo)).state = "detaching" THEN "detach" ELSE "archive"]

\* EnsureHistoryPartitions: one more range above the highest, until one starts above the target.
Extending == ens.pc = "fill" /\ ens.todo = {}
MoreAhead == ens.by \notin {"repair", "wipe"} /\ HistoryCut /\ HighestBound <= ens.upto /\ ens.made < MaxPartitionsPerEnsure
ExtendHistory ==
    /\ Extending /\ MoreAhead
    /\ parts' = parts \cup {NewRange(HighestBound, HighestBound + PartitionBlocks)}
    /\ ens' = [ens EXCEPT !.made = @ + 1]
    /\ UNCHANGED <<chainVars, cutAt, checks, ledgerVars, mark, proc, ret, closer, era, deps, left>>

\* The lock is released, and its holder goes on.
EnsureEnd ==
    /\ Extending /\ ~MoreAhead
    /\ ens' = EnsIdle
    /\ ret' = IF ens.by = "pass" THEN FinishFrom(PastWatermark) ELSE ret
    /\ proc' = CASE ens.by = "start" -> (IF mark = "none" THEN "release" ELSE "wipe")
                 [] ens.by = "repair" -> "reseed"
                 [] ens.by = "wipe" -> "unmark"
                 [] OTHER -> proc
    /\ UNCHANGED <<chainVars, rangeVars, ledgerVars, mark, closer, era, deps, left>>

Ensure == CreateInGap \/ ExtendHistory \/ EnsureEnd

-----------------------------------------------------------------------------
(* The ledger closer. *)

CloserIdle == [pc |-> "idle", lo |-> 0, hi |-> 0, since |-> 0]

\* ledger_next_span: from the closed prefix's end to the next grid point or range bound.
NextLo == Max({ClosedThrough, HistoryFrom})
\* Mutant: the bounds of ranges do not end a span.
NextGridPoint == (NextLo \div SpanBlocks + 1) * SpanBlocks
NextHi == LET lo == NextLo
              bounds == {b \in {p.lo : p \in parts} \cup {p.hi : p \in parts} : b > lo}
          IN Min({(lo \div SpanBlocks + 1) * SpanBlocks} \cup bounds)

\* The closer reads it before it waits for the gate; one that cannot become final within the wait changes nothing.
LedgerNextSpan ==
    /\ Up /\ closer.pc = "idle" /\ NextHi - 1 + PruneFloorGap <= StoredHead + GateBlocks
    /\ closer' = [pc |-> "gate", lo |-> NextLo, hi |-> NextHi, since |-> StoredHead]
    /\ UNCHANGED <<chainVars, rangeVars, ledgerVars, mark, proc, ens, ret, era, deps, left>>

\* The history-DDL gate, which retention and a wipe hold for the length of their DDL.
GateHeld == ret.pc \in {"constrain", "validate", "cutfinish", "undo", "detach", "drop"}
            \/ proc \in {"wipe", "truncated", "forgotten", "uncovered", "unmark"}

\* Mutant: a span is final as soon as it is stored.
SpanFinalAtHead(hi) == hi - 1 <= StoredHead

SpanFinal(hi)        == hi - 1 + PruneFloorGap <= StoredHead
SpanComplete(lo, hi) ==
    /\ ~ \E n \in missingBlocks : lo <= n /\ n < hi
    /\ Cardinality({n \in Visible(1) : Max({lo, 1}) <= n /\ n < hi}) = hi - Max({lo, 1})

\* ledger_close_span, the gate held shared: nothing where the span is no longer the next, not final or not complete.
LedgerCloseSpan ==
    /\ closer.pc = "gate" /\ ~GateHeld /\ StoredHead <= closer.since + GateBlocks
    /\ closer' = CloserIdle
    /\ IF closer.lo = NextLo /\ SpanFinal(closer.hi) /\ SpanComplete(closer.lo, closer.hi)
       THEN spans' = spans \cup {[lo |-> closer.lo, hi |-> closer.hi, checked |-> FALSE, merged |-> FALSE,
                                  blocks |-> Cardinality({n \in Visible(1) : closer.lo <= n /\ n < closer.hi})]}
       ELSE spans' = spans
    /\ UNCHANGED <<chainVars, rangeVars, pruned, archives, mark, proc, ens, ret, era, deps, left>>

\* lockGateShared gives up after GateWait.
LedgerGateTimeout ==
    /\ closer.pc = "gate" /\ (GateHeld \/ StoredHead > closer.since + GateBlocks)
    /\ closer' = CloserIdle
    /\ UNCHANGED <<chainVars, rangeVars, ledgerVars, mark, proc, ens, ret, era, deps, left>>

\* The recount from the node finds a pruned span as the ledger has it.
VerifySpan ==
    /\ Up /\ CompactSpans > 0
    /\ \E s \in spans : /\ s.hi <= HistoryFrom /\ ~s.checked
                         /\ spans' = (spans \ {s}) \cup {[s EXCEPT !.checked = TRUE]}
    /\ UNCHANGED <<chainVars, rangeVars, pruned, archives, procVars, deps, left>>

\* ledger_compact: the oldest run of CompactSpans verified pruned spans that follow one another becomes one.
Runs == {r \in SUBSET {s \in spans : s.checked /\ ~s.merged /\ s.hi <= HistoryFrom} :
            /\ Cardinality(r) = CompactSpans
            /\ \A s \in spans : s.lo >= Min({x.lo : x \in r}) /\ s.hi <= Max({x.hi : x \in r}) => s \in r
            /\ MapThenSumSet(LAMBDA s : s.hi - s.lo, r) = Max({s.hi : s \in r}) - Min({s.lo : s \in r})}
LedgerCompact ==
    /\ Up /\ CompactSpans > 0 /\ Runs # {}
    /\ LET lowest(r) == Min({s.lo : s \in r})
           run == CHOOSE r \in Runs : \A q \in Runs : lowest(r) <= lowest(q)
       IN spans' = (spans \ run) \cup {[lo |-> lowest(run), hi |-> Max({s.hi : s \in run}), checked |-> FALSE,
                                        merged |-> TRUE, blocks |-> MapThenSumSet(LAMBDA s : s.blocks, run)]}
    /\ UNCHANGED <<chainVars, rangeVars, pruned, archives, procVars, deps, left>>

-----------------------------------------------------------------------------
(* Retention: a pass cuts the history if it is not, ensures ranges ahead, finishes the ranges past the watermark *)
(* and prunes the oldest ones, one after the other. *)

RetIdle(margin) == [pc |-> "idle", next |-> "idle", start |-> 0, tables |-> 0, again |-> FALSE, margin |-> margin,
                    todo |-> {}]
PassEnds == ret' = RetIdle(ret.margin)
Goto(pc) == ret' = [ret EXCEPT !.pc = pc]

\* retentionPass starts with the cut, or, once the history is cut, with the ranges ahead.
RetentionPass ==
    /\ Up /\ ret.pc = "idle" /\ ~HistoryCut
    /\ ret' = [RetIdle(ret.margin) EXCEPT !.pc = "undo", !.next = "cut"]
    /\ UNCHANGED <<chainVars, rangeVars, ledgerVars, mark, proc, ens, closer, era, deps, left>>

\* dropCutChecks under the gate, table by table: nothing once the history is cut.  While a transaction holds a
\* table it waits and tries again, the gate released in between (releaseLeftoverCut).
DropCutChecks ==
    /\ ret.pc = "undo"
    /\ \/ /\ HistoryCut \/ checks = 0
          /\ Goto(ret.next) /\ UNCHANGED <<checks, left>>
       \/ ~HistoryCut /\ checks > 0 /\ checks' = checks - 1 /\ UNCHANGED <<ret, left>>
       \/ ~HistoryCut /\ checks > 0 /\ Spend("busy") /\ Goto("held") /\ UNCHANGED checks
    /\ UNCHANGED <<chainVars, parts, cutAt, ledgerVars, mark, proc, ens, closer, era, deps>>

ReleaseAgain ==
    /\ ret.pc = "held" /\ Goto("undo")
    /\ UNCHANGED <<chainVars, rangeVars, ledgerVars, mark, proc, ens, closer, era, deps, left>>

\* cutHistory: the cut is placed above the higher of the stored head and the node's (when it was read).
CutStart ==
    /\ ret.pc = "cut"
    /\ \E base \in StoredHead..(StoredHead + NodeAhead) : cutAt' = base + 2 * PartitionBlocks + ret.margin
    /\ ret' = [ret EXCEPT !.pc = "constrain", !.start = StoredHead]
    /\ UNCHANGED <<chainVars, parts, checks, ledgerVars, mark, proc, ens, closer, era, deps, left>>

Abandon == [ret EXCEPT !.pc = "undo", !.next = "idle"]

\* history_cut_constrain: from here a legacy row at or above the cut is refused.
CutConstrain ==
    /\ ret.pc = "constrain"
    /\ \/ checks' = Tables /\ ret' = [ret EXCEPT !.pc = "validate", !.tables = 0] /\ UNCHANGED left
       \/ Spend("busy") /\ ret' = Abandon /\ UNCHANGED checks
    /\ UNCHANGED <<chainVars, parts, cutAt, ledgerVars, mark, proc, ens, closer, era, deps>>

\* nextCutMargin
NearCut == StoredHead + PartitionBlocks >= cutAt
Widened == [Abandon EXCEPT !.margin = Max({2 * @, 2 * (StoredHead - ret.start)})]

\* One table's check is validated; the head has come near the cut meanwhile, or the next table follows.
CutValidate ==
    /\ ret.pc = "validate"
    /\ ret' = IF \E n \in present : n >= cutAt THEN Abandon
              ELSE IF NearCut THEN Widened
              ELSE IF ret.tables + 1 < Tables THEN [ret EXCEPT !.tables = @ + 1]
              ELSE [ret EXCEPT !.pc = "cutfinish", !.again = FALSE]
    /\ UNCHANGED <<chainVars, rangeVars, ledgerVars, mark, proc, ens, closer, era, deps, left>>

\* history_cut_finish: the legacy range is bounded and the first range above it created.  A transaction that holds
\* a table is waited out while the head stays away from the cut.
CutFinish ==
    /\ ret.pc = "cutfinish"
    /\ \/ /\ ~(ret.again /\ NearCut)
          /\ parts' = {[p EXCEPT !.hi = cutAt] : p \in parts} \cup {NewRange(cutAt, cutAt + PartitionBlocks)}
          /\ Goto("ensure") /\ UNCHANGED left
       \/ /\ ~(ret.again /\ NearCut)
          /\ Spend("busy") /\ ret' = [ret EXCEPT !.again = TRUE] /\ UNCHANGED parts
       \/ ret.again /\ NearCut /\ ret' = Widened /\ UNCHANGED <<parts, left>>
    /\ UNCHANGED <<chainVars, cutAt, checks, ledgerVars, mark, proc, ens, closer, era, deps>>

PassEnsure ==
    /\ Up /\ (ret.pc = "ensure" \/ (ret.pc = "idle" /\ HistoryCut))
    /\ IF NothingToEnsure(StoredHead)
       THEN ens.pc = "idle" /\ ret' = FinishFrom(PastWatermark) /\ UNCHANGED ens
       ELSE EnsureStart("pass", StoredHead) /\ Goto("ensuring")
    /\ UNCHANGED <<chainVars, rangeVars, ledgerVars, mark, proc, closer, era, deps, left>>

Current == RangeAt(Min(ret.todo))
Becomes(p, q) == parts' = (parts \ {p}) \cup {q}

\* Mutant: a detach does not look whether the table is still a partition.
DetachAgain(p) == Becomes(p, [p EXCEPT !.off = @ + 1])

\* detachRange of p, a table at a time: a table whose readers outlast the wait stays as it was, or pending.
DetachStep(p) ==
    \/ ~p.pending /\ p.off < Tables /\ Becomes(p, [p EXCEPT !.off = @ + 1])
    \/ p.pending /\ Becomes(p, [p EXCEPT !.pending = FALSE])
DetachWait(p) ==
    /\ p.pending \/ p.off < Tables
    /\ \/ parts' = parts
       \/ ~p.pending /\ Becomes(p, [p EXCEPT !.off = @ + 1, !.pending = TRUE])
Detached(p) == ~p.pending /\ p.off = Tables

DetachRange ==
    /\ ret.pc = "detach"
    /\ \/ DetachStep(Current) /\ UNCHANGED <<ret, left>>
       \/ DetachWait(Current) /\ Spend("busy") /\ PassEnds
       \/ Detached(Current) /\ Becomes(Current, [Current EXCEPT !.state = "detached"]) /\ Goto("archive")
          /\ UNCHANGED left
    /\ UNCHANGED <<chainVars, cutAt, checks, ledgerVars, mark, proc, ens, closer, era, deps>>

\* archiveRange, with an archive directory set: a table that has a record is not archived again.
Archived(lo) == {a.table : a \in {a \in archives : a.lo = lo}}
ArchiveRange ==
    /\ ret.pc = "archive"
    /\ LET rest == (1..Tables) \ Archived(Current.lo)
       IN \/ rest = {} /\ Goto("drop") /\ UNCHANGED <<archives, left>>
          \/ /\ rest # {} /\ UNCHANGED <<ret, left>>
             /\ archives' = archives \cup {[lo |-> Current.lo, table |-> Min(rest), era |-> era]}
          \/ rest # {} /\ Spend("busy") /\ PassEnds /\ UNCHANGED archives
    /\ UNCHANGED <<chainVars, rangeVars, pruned, spans, mark, proc, ens, closer, era, deps>>

\* The last table dropped, the range is forgotten and its rows are gone.
DropStep(p) ==
    IF p.gone + 1 < Tables
    THEN Becomes(p, [p EXCEPT !.gone = @ + 1]) /\ UNCHANGED present
    ELSE parts' = parts \ {p} /\ present' = {n \in present : ~Holds(p, n)}

\* dropRange: a range with dependents stays on disk and the next ones follow.
DropRange ==
    /\ ret.pc = "drop"
    /\ LET p == Current
           done == ret' = FinishFrom(ret.todo \ {p.lo})
       IN \/ p.lo \in deps /\ done /\ UNCHANGED <<parts, present, left>>
          \/ /\ p.lo \notin deps
             /\ DropStep(p) /\ (IF p.gone + 1 < Tables THEN UNCHANGED ret ELSE done) /\ UNCHANGED left
          \/ p.lo \notin deps /\ Spend("busy") /\ PassEnds /\ UNCHANGED <<parts, present>>
    /\ UNCHANGED <<total, missingBlocks, fetched, dailyFrom, peak, cutAt, checks, ledgerVars, mark, proc, ens, closer, era, deps>>

\* pruneOldest's checks; a range wholly at or below the watermark goes the way of a pruned one.
Pruned(p) == LET todo == PastWatermark \cup {p.lo}
             IN ret' = IF Min(todo) = p.lo THEN [ret EXCEPT !.pc = "detach", !.todo = todo] ELSE FinishFrom(todo)
BelowWatermark(p) == p.hi # Unbounded /\ pruned > 0 /\ p.hi - 1 <= pruned
PruneOldest ==
    /\ ret.pc = "prune"
    /\ \/ \E p \in OldestAttached : /\ BelowWatermark(p)
                                    /\ Becomes(p, [p EXCEPT !.state = "detaching"]) /\ Pruned(p)
       \/ \E p \in OldestAttached : ~BelowWatermark(p) /\ MayPrune(p) /\ Goto("advance") /\ UNCHANGED parts
       \/ (\A p \in OldestAttached : ~BelowWatermark(p) /\ ~MayPrune(p)) /\ PassEnds /\ UNCHANGED parts
    /\ UNCHANGED <<chainVars, cutAt, checks, ledgerVars, mark, proc, ens, closer, era, deps, left>>

\* prune_advance: checks it all again and moves the watermark, in one transaction; or raises and ends the pass.
PruneAdvance ==
    /\ ret.pc = "advance"
    /\ \/ \E p \in OldestAttached :
            /\ Advances(p)
            /\ missingBlocks' = {n \in missingBlocks : n >= p.hi}
            /\ Becomes(p, [p EXCEPT !.state = "detaching"])
            /\ pruned' = Max({pruned, p.hi - 1})
            /\ Pruned(p)
       \/ (\A p \in OldestAttached : ~Advances(p)) /\ PassEnds /\ UNCHANGED <<missingBlocks, parts, pruned>>
    /\ UNCHANGED <<present, total, fetched, dailyFrom, peak, cutAt, checks, spans, archives, mark, proc, ens, closer, era,
                   deps, left>>

Retention == \/ RetentionPass \/ DropCutChecks \/ ReleaseAgain \/ CutStart \/ CutConstrain \/ CutValidate
             \/ CutFinish \/ DetachRange \/ ArchiveRange \/ DropRange
             \/ PruneOldest \/ PruneAdvance

-----------------------------------------------------------------------------
(* Stops, starts and the wipe of a chain reset. *)

ProcessStop ==
    /\ proc # "down" /\ Spend("crashes")
    /\ proc' = "down" /\ mark' = (IF mark = "none" THEN "none" ELSE "found")
    /\ ens' = EnsIdle /\ ret' = RetIdle(0) /\ closer' = CloserIdle /\ fetched' = {}
    /\ UNCHANGED <<present, total, missingBlocks, dailyFrom, peak, rangeVars, ledgerVars, era, deps>>

\* main: ranges ahead of the head before anything else.
StartEnsure ==
    /\ proc = "down" /\ EnsureStart("start", StoredHead) /\ proc' = "ensuring"
    /\ UNCHANGED <<chainVars, rangeVars, ledgerVars, mark, ret, closer, era, deps, left>>

\* Reconcile: ReleaseAbandonedCut tries each table once and leaves the check where a transaction holds it.
StartRelease ==
    /\ proc = "release"
    /\ \/ HistoryCut /\ UNCHANGED <<checks, left>>
       \/ ~HistoryCut /\ checks' = 0 /\ UNCHANGED left
       \/ ~HistoryCut /\ checks > 0 /\ Spend("busy") /\ checks' \in 1..checks
    /\ proc' = "repair"
    /\ UNCHANGED <<chainVars, parts, cutAt, ledgerVars, mark, ens, ret, closer, era, deps>>

StartRepair ==
    /\ proc = "repair" /\ EnsureStart("repair", 0) /\ proc' = "repairing"
    /\ UNCHANGED <<chainVars, rangeVars, ledgerVars, mark, ret, closer, era, deps, left>>

\* reseedCounters: the totals are recounted.  The indexer may then find that the chain was reset.
StartReseed ==
    /\ proc = "reseed"
    /\ total' = CountRetained(1) + PruneOffset
    /\ \/ proc' = "up" /\ UNCHANGED left
       \/ Spend("wipes") /\ proc' = "wipe"
    /\ UNCHANGED <<present, missingBlocks, fetched, dailyFrom, peak, rangeVars, ledgerVars, mark, ens, ret, closer, era, deps>>

\* WipeAllData: the mark and the truncates (a detached table keeps its rows); the ledger and the archive records;
\* the watermark; then the ranges past it are dropped without an archive and the gaps filled from block 0.
WipeChain ==
    /\ proc = "wipe" /\ proc' = "truncated"
    /\ IF mark = "none" THEN mark' = "new" /\ era' = era + 1 ELSE UNCHANGED <<mark, era>>
    /\ present' = {n \in present : \E p \in parts : Holds(p, n) /\ p.off > 0}
    /\ total' = 0 /\ missingBlocks' = {} /\ dailyFrom' = NoDay /\ peak' = 0
    /\ UNCHANGED <<fetched, rangeVars, ledgerVars, ens, ret, closer, deps, left>>

\* Mutant: the archive records outlive the chain.
WipeSpans ==
    /\ proc = "truncated" /\ proc' = "forgotten"
    /\ spans' = {}
    /\ UNCHANGED <<chainVars, rangeVars, pruned, archives, mark, ens, ret, closer, era, deps, left>>

WipeLedger ==
    /\ proc = "truncated" /\ proc' = "forgotten"
    /\ spans' = {} /\ archives' = {}
    /\ UNCHANGED <<chainVars, rangeVars, pruned, mark, ens, ret, closer, era, deps, left>>

WipeWatermark ==
    /\ proc = "forgotten" /\ proc' = "uncovered"
    /\ pruned' = 0
    /\ UNCHANGED <<chainVars, rangeVars, spans, archives, mark, ens, ret, closer, era, deps, left>>

\* coverHistoryFromZero: a range with dependents fails the wipe, until they are gone.
WipeRange ==
    /\ proc = "uncovered" /\ ens.pc = "idle"
    /\ \E p \in parts : /\ p.state # "attached"
                         /\ \A q \in parts : q.state # "attached" => p.lo <= q.lo
                         /\ IF Detached(p) THEN p.lo \notin deps /\ DropStep(p) ELSE DetachStep(p) /\ UNCHANGED present
    /\ UNCHANGED <<total, missingBlocks, fetched, dailyFrom, peak, cutAt, checks, ledgerVars, procVars, deps, left>>

WipeCover ==
    /\ proc = "uncovered" /\ \A p \in parts : p.state = "attached"
    /\ EnsureStart("wipe", 0) /\ UNCHANGED proc
    /\ UNCHANGED <<chainVars, rangeVars, ledgerVars, mark, ret, closer, era, deps, left>>

\* A wipe resumed at the start is followed by the rest of Reconcile, one the indexer asked for by ingest.
WipeEnd ==
    /\ proc = "unmark" /\ proc' = (IF mark = "found" THEN "release" ELSE "up") /\ mark' = "none"
    /\ UNCHANGED <<chainVars, rangeVars, ledgerVars, ens, ret, closer, era, deps, left>>

ProcessStart == StartEnsure \/ StartRelease \/ StartRepair \/ StartReseed \/ WipeChain \/ WipeLedger \/ WipeWatermark
         \/ WipeRange \/ WipeCover \/ WipeEnd

\* The operator drops the objects that depend on a range's tables.
DropDependents ==
    /\ deps # {} /\ deps' = {}
    /\ UNCHANGED <<chainVars, rangeVars, ledgerVars, procVars, left>>

-----------------------------------------------------------------------------
\* An empty database, with genesis stored or not, that the current schema has just been given.
RetentionInitWith(s) ==
    /\ present = Genesis /\ total = Cardinality(present)
    /\ missingBlocks = {} /\ fetched = {} /\ dailyFrom = NoDay /\ peak = 0
    /\ parts = {[NewRange(0, Unbounded) EXCEPT !.legacy = TRUE]} /\ cutAt = 0 /\ checks = 0
    /\ pruned = 0 /\ spans = {} /\ archives = {}
    /\ mark = "none" /\ proc = "down" /\ ens = EnsIdle /\ ret = RetIdle(0) /\ closer = CloserIdle
    /\ left = s /\ deps = (IF left.times["dependents"] > 0 THEN {0} ELSE {}) /\ era = 0

RetentionInit == \E s \in RetentionScenarios : RetentionInitWith(s)

RetentionNext == \/ Ingest \/ FindMissing \/ FetchMissing \/ WriteMissing \/ RevertStored
        \/ KeepPartitionsAhead \/ Ensure
        \/ LedgerNextSpan \/ LedgerCloseSpan \/ LedgerGateTimeout \/ VerifySpan \/ LedgerCompact
        \/ Retention \/ PassEnsure
        \/ ProcessStop \/ ProcessStart \/ DropDependents

RetentionSpec == RetentionInit /\ [][RetentionNext]_retentionVars

-----------------------------------------------------------------------------
(* Properties. *)

Filler == [pc : {"idle", "fill"}, by : {"none", "start", "repair", "wipe", "keeper", "pass"}, todo : SUBSET (Nat \X Nat),
           upto : Nat, made : Nat]
Pass   == [pc : {"idle", "undo", "held", "cut", "constrain", "validate", "cutfinish", "ensure", "ensuring", "detach",
                 "archive", "drop", "prune", "advance"},
           next : {"idle", "cut"}, start : Nat, tables : Nat, again : BOOLEAN, margin : Nat, todo : SUBSET Nat]

\* Every variable has its type.
RetentionTypeOK ==
    /\ present \subseteq 0..HighestBlock /\ missingBlocks \subseteq 0..HighestBlock /\ fetched \subseteq 0..HighestBlock
    /\ total \in Nat /\ dailyFrom \in Nat \cup {NoDay} /\ peak \in 0..HighestBlock
    /\ parts \subseteq Partition /\ cutAt \in Nat /\ checks \in 0..Tables
    /\ pruned \in Nat
    /\ spans \subseteq [lo : Nat, hi : Nat, blocks : Nat, checked : BOOLEAN, merged : BOOLEAN]
    /\ archives \subseteq [lo : Nat, table : 1..Tables, era : Nat]
    /\ mark \in {"none", "new", "found"} /\ era \in Nat /\ deps \subseteq Nat /\ left \in Scenario
    /\ proc \in {"down", "ensuring", "release", "repair", "repairing", "reseed", "up", "wipe", "truncated",
                 "forgotten", "uncovered", "unmark"}
    /\ ens \in Filler /\ ret \in Pass /\ closer.pc \in {"idle", "gate"}

\* A start may find any state: at every moment the re-seed's recount of every table (retained rows, without the
\* pruned ranges still attached, plus the pruned spans) is the running total it replaces, tables half detached or
\* dropped included (reseedChainCounters, prunedButAttached).
RecountExact == mark = "none" => \A t \in 1..Tables : CountRetained(t) + PruneOffset = total

\* The closed spans and the rows above them make up the running total: what the running check compares
\* (ledger_running_diff_chain_token).  No revert, late write or compaction changes a block a span has counted.
RunningExact ==
    mark = "none" => MapThenSumSet(LAMBDA s : s.blocks, spans) + Cardinality({n \in Visible(1) : n >= ClosedThrough})
                     = total

\* A revert within the reorg depth is never refused because its day is partly pruned (daily_stats_invalidate).
ReorgDayKept ==
    \A n \in Visible(1) : n > 0 /\ n > peak - MaxReorgDepth => ~DayRefused(n)

\* From the first retained block to the highest range every block has exactly one range, an attached one, and none
\* below it is attached (fillHistoryGaps, history_partitions_ensure, history_cut_finish, prune_advance).  Block 0 is
\* left out: a wipe can make a range of it alone, and once that is pruned the watermark is still 0.
RangesCovered ==
    mark = "none" =>
        /\ \A p, q \in parts : p # q => p.hi # Unbounded /\ (p.hi <= q.lo \/ q.hi <= p.lo)
        /\ \A p \in parts : IF p.state = "attached" THEN p.hi = Unbounded \/ p.hi > HistoryFrom
                            ELSE p.hi # Unbounded /\ p.hi <= Max({HistoryFrom, 1})
        /\ HistoryCut => \A n \in Max({HistoryFrom, 1})..(HighestBound - 1) : \E p \in parts : Holds(p, n)

\* No range bound above the watermark lies inside a closed span, so that a range to prune is whole spans
\* (ledger_next_span; docs/LEDGER.md).
SpansWhole ==
    \A s \in spans : \A p \in parts : \A b \in {p.lo, p.hi} : b > HistoryFrom => ~(s.lo < b /\ b < s.hi)

\* A pruned range's table is dropped only once it is archived, with this chain's rows (archiveRange, WipeAllData).
ArchivedBeforeDrop ==
    mark = "none" => \A p \in parts : \A t \in 1..p.gone : [lo |-> p.lo, table |-> t, era |-> era] \in archives

\* No write, however late, stores a block at or below the watermark again.
PrunedStaysPruned == [][\A n \in present' \ present : pruned > 0 => n > pruned]_retentionVars
-----------------------------------------------------------------------------
(* The inductive invariant of the ranges. *)

\* A table is taken off its parent only past the watermark, and dropped only once all are off.
RangeShape(p) ==
    /\ p.hi = Unbounded \/ p.lo < p.hi
    /\ p.hi = Unbounded => p.legacy /\ p.lo = 0 /\ p.state = "attached"
    /\ p.state = "attached" => p.off = 0 /\ ~p.pending
    /\ p.gone > 0 \/ p.state = "detached" => Detached(p)

RangesApart == \A p, q \in parts : p # q => p.hi # Unbounded /\ (p.hi <= q.lo \/ q.hi <= p.lo)

\* The highest range is attached, and of the current size once the history is cut.
Topmost(p) == /\ p.state = "attached"
              /\ p.hi = Unbounded \/ (~p.legacy /\ p.hi >= 2 /\ \A q \in parts : q.hi <= p.hi)

\* The gaps to fill lie below the highest range's bound.
GapsBelow(todo) == \A g \in todo : g \in Nat \X Nat /\ g[1] < g[2] /\ \E p \in parts : g[2] <= p.hi

RangesInv ==
    /\ parts \subseteq Partition /\ IsFiniteSet(parts) /\ pruned \in Nat
    /\ \A p \in parts : RangeShape(p)
    /\ RangesApart
    /\ \E p \in parts : Topmost(p)
    /\ \A p \in parts : p.state = "attached" => p.lo >= HistoryFrom
    /\ GapsBelow(ens.todo)

\* Who runs when: retention and catch-up only while the process is up, and each holder of ensureMu from its own step.
Holders == {<<"start", "ensuring">>, <<"repair", "repairing">>, <<"wipe", "uncovered">>, <<"keeper", "up">>, <<"pass", "up">>}
ProcessInv ==
    /\ ens \in Filler /\ ret \in Pass /\ cutAt \in Nat
    /\ mark \in {"none", "new", "found"}
    /\ proc \in {"release", "repair", "repairing", "reseed", "up"} => mark = "none"
    /\ proc \in {"truncated", "forgotten", "uncovered", "unmark"} => mark # "none"
    /\ ret.pc # "idle" => Up
    /\ fetched # {} => Up
    /\ ens.pc = "fill" => <<ens.by, proc>> \in Holders
    /\ ret.pc \in {"undo", "held", "cut", "constrain", "validate", "cutfinish"} => ~HistoryCut
    /\ ret.pc \in {"constrain", "validate", "cutfinish"} => cutAt > 0

\* A wipe: what the steps done so far have left behind.
WipeInv ==
    /\ mark # "none" => \A n \in present : \E p \in parts : Holds(p, n) /\ p.off > 0
    /\ proc \in {"forgotten", "uncovered", "unmark"} => archives = {}
    /\ proc \in {"uncovered", "unmark"} => pruned = 0
    /\ proc = "unmark" \/ (proc = "uncovered" /\ ens.pc = "fill") => \A p \in parts : p.state = "attached"

\* A range past the watermark lies below it.
PastIsBelow == mark = "none" => \A p \in parts : p.state # "attached" => p.hi <= Max({HistoryFrom, 1})

\* The gap a wipe still has to fill.
InGap(n) == \E g \in ens.todo : g[1] <= n /\ n < g[2]
Gapless(from) == \A n \in from..(HighestBound - 1) : \E p \in parts : Holds(p, n)
WipeFills ==
    proc = "uncovered" /\ ens.pc = "fill" =>
        /\ HistoryCut => \A n \in 0..(HighestBound - 1) : InGap(n) \/ \E p \in parts : Holds(p, n)
        /\ \A g, h \in ens.todo : g # h => g[2] <= h[1] \/ h[2] <= g[1]
        /\ \A g \in ens.todo : \A p \in parts : p.hi <= g[1] \/ g[2] <= p.lo
CoverInv ==
    /\ mark = "none" /\ HistoryCut => Gapless(Max({HistoryFrom, 1}))
    /\ proc = "unmark" /\ HistoryCut => Gapless(0)
    /\ WipeFills

\* Rows: a range past the watermark keeps every block until it is detached, and no reorg reaches the watermark or
\* its day.
RowsInv ==
    /\ present \subseteq 0..HighestBlock /\ peak \in Nat /\ left \in Scenario
    /\ missingBlocks \subseteq 1..HighestBlock /\ fetched \subseteq 1..HighestBlock
    /\ \A n \in missingBlocks \cup fetched : n <= peak
    /\ mark = "none" =>
        /\ \A n \in present : n <= peak
        /\ \A p \in parts : p.state # "attached" /\ p.off = 0 =>
                \A n \in p.lo..(p.hi - 1) : n > 0 => n \in present
        /\ pruned > 0 => /\ pruned + MaxReorgDepth <= peak
                         /\ \E m \in 0..peak : m + MaxReorgDepth <= peak /\ Day(pruned) < Day(m)

\* Archives: only this chain's records, and the range whose tables are dropped has one for each.
PassInv ==
    ret.pc \in {"detach", "archive", "drop"} =>
        /\ ret.todo # {}
        /\ \A lo \in ret.todo : \E p \in parts : p.lo = lo /\ p.state # "attached"
        /\ Current.state = (IF ret.pc = "detach" THEN "detaching" ELSE "detached")
ArchivesInv ==
    /\ archives \subseteq [lo : Nat, table : 1..Tables, era : Nat] /\ era \in Nat
    /\ mark = "none" => \A a \in archives : a.era = era
    /\ PassInv
    /\ ret.pc = "drop" => \A t \in 1..Tables : [lo |-> Min(ret.todo), table |-> t, era |-> era] \in archives
    /\ ArchivedBeforeDrop

RetentionInv == RangesInv /\ ProcessInv /\ WipeInv /\ PastIsBelow /\ CoverInv /\ RowsInv /\ ArchivesInv
=============================================================================
