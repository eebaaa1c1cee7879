----------------------------- MODULE DailyStats -----------------------------
(***************************************************************************)
(* daily_stats: the throttle that starts a fold (indexer.go), the fold     *)
(* that counts in a snapshot and applies under lock (4670, 1)              *)
(* (daily_fold.go, migrations 021 and 037), the days noted because a block *)
(* was stored below the watermark, a revert's invalidation, retention, and *)
(* the refill from the node (daily_refill.go).                             *)
(*                                                                         *)
(* A block is the number of its transactions; the addresses it touches are *)
(* 1 .. that number.  Of a day's sums blocks, block-time pairs,            *)
(* transactions, active addresses and the transactions before the day are  *)
(* kept.  The generation, only ever compared with a snapshot's, is a flag. *)
(***************************************************************************)
EXTENDS Integers, FiniteSets, FiniteSetsExt, Functions, TLC

CONSTANTS
    LastBlock,        \* bound: blocks 0 .. LastBlock, all of which the node has
    DayBlocks,        \* a day is a run of this many blocks
    FoldMaxBlocks,    \* DailyStatsFoldMaxBlocks
    FoldCounts,       \* foldCounts
    FoldStalls,       \* foldStallsBeforeLocked
    RunEvery,         \* without an interval a run starts on every RunEvery-th block (100)
    FirstChain,       \* the node's blocks: their transactions
    DailyScenarios    \* bound: which troubles a behaviour may meet, and how often

VARIABLES
    node,       \* the node's chain
    blocks,     \* the stored blocks (Absent: not stored)
    prunedTo,   \* pruned_through
    prunedTxs,  \* prune_offset of transactions_total
    mark,       \* daily_stats_watermark.last_block, NoMark before the first
    acc,        \* daily_stats_acc, a function on the aggregated days
    sets,       \* daily_active_addresses
    rows,       \* daily_stats, a function on its days
    stale,      \* the generation (or a first_seen move) differs from the last snapshot's
    saved,      \* daily_stats_refill: the days a refill has counted
    late,       \* lateDays: watermark, days, searched
    writing,    \* stored blocks whose writer has not noted them yet
    throttle,   \* dailyStatsThrottle
    run,        \* the fold in flight
    stalls,     \* foldStalls
    cutShort,   \* history variable: retention reached a day with blocks uncounted (only a refill repairs it)
    owed        \* what is left of the scenario's troubles

dailyTables == <<blocks, prunedTo, prunedTxs, mark, acc, sets, rows>>
dailyVars   == <<node, dailyTables, stale, saved, late, writing, throttle, run, stalls, cutShort, owed>>

DBlock  == 0 .. LastBlock
DDay    == 0 .. LastBlock \div DayBlocks
Absent  == -1
NoMark  == -2
Null    == -1
DayOf(n) == n \div DayBlocks

Stored    == {n \in DBlock : blocks[n] # Absent}
Retained(n) == prunedTo = 0 \/ n > prunedTo
On(d, S)  == {n \in S : DayOf(n) = d}
TxsOf(S)  == MapThenSumSet(LAMBDA n : blocks[n], S)
AddrsOf(S) == UNION {1 .. blocks[n] : n \in S}

\* What the stored blocks S of a day add up to; a block makes a pair with the one before it, if that is stored.
Sums(S) == [first  |-> Min(S), blocks |-> Cardinality(S),
            pairs  |-> Cardinality({n \in S : n - 1 \in Stored}),
            txs    |-> TxsOf(S), active |-> Cardinality(AddrsOf(S)), before |-> Null]

\* The transactions of the stored blocks before a day, and those pruned.
TxsBefore(d) == TxsOf({n \in Stored : DayOf(n) < d}) + prunedTxs

-----------------------------------------------------------------------------
(* Counting: what stageAdvance, recountDays and rewriteFrom make of the aggregate. *)

\* The next contiguous stored blocks above the watermark, at most FoldMaxBlocks.
Upto == LET whole == {u \in mark + 1 .. mark + FoldMaxBlocks : mark + 1 .. u \subseteq Stored}
        IN IF whole = {} THEN mark ELSE Max(whole)

\* stageAdvance: the new blocks' sums added to their days.
AddedDay(d, S) ==
    LET s     == Sums(S)
        fresh == Cardinality(AddrsOf(S) \ sets[d])
    IN IF d \notin DOMAIN acc THEN [s EXCEPT !.active = fresh]
       ELSE [first  |-> Min({acc[d].first, s.first}), blocks |-> acc[d].blocks + s.blocks,
             pairs  |-> acc[d].pairs + s.pairs, txs |-> acc[d].txs + s.txs,
             active |-> acc[d].active + fresh, before |-> acc[d].before]

\* A new day's earlier transactions follow from the last day that had them before this statement.
WithBefore(a) ==
    [d \in DOMAIN a |->
        IF a[d].before # Null THEN a[d]
        ELSE LET known == {p \in DOMAIN a : p < d /\ a[p].before # Null}
             IN [a[d] EXCEPT !.before = IF known = {} THEN TxsBefore(d)
                                        ELSE a[Max(known)].before + a[Max(known)].txs]]

Advanced(new) ==
    LET days == {DayOf(n) : n \in new}
    IN WithBefore([d \in days |-> AddedDay(d, On(d, new))] @@ acc)

\* writeDaysSQL
DayRow(s) == [blocks |-> s.blocks, txs |-> s.txs, active |-> s.active, cumulative |-> s.before + s.txs]
RowsOf(a, days) == [d \in days \cap DOMAIN a |-> DayRow(a[d])]

\* Mutant: each day's earlier transactions are left as the advance set them.
KeepBefore(a, from) == a

\* rewriteFrom: the earlier transactions of every aggregated day from one on.
Rewritten(a, from) ==
    LET prev == {p \in DOMAIN a : p < from}
        base == IF prev = {} \/ a[Max(prev)].before = Null THEN TxsBefore(from)
                ELSE a[Max(prev)].before + a[Max(prev)].txs
    IN [d \in DOMAIN a |->
            IF d < from THEN a[d]
            ELSE [a[d] EXCEPT !.before =
                    base + MapThenSumSet(LAMBDA p : a[p].txs, {p \in DOMAIN a : from <= p /\ p < d})]]

RewrittenRows(a, from) ==
    LET prev == {p \in DOMAIN a : p < from}
    IN RowsOf(a, {d \in DDay : d >= IF prev = {} THEN from ELSE Max(prev)})

\* recountDays: a day can be recounted once none of its blocks up to the watermark is missing.
UpTo(d, upto)  == {n \in On(d, Stored) : n <= upto}
Whole(d, upto) ==
    LET S == UpTo(d, upto)
    IN /\ S # {}
       /\ Cardinality(S) = Max(S) - Min(S) + 1
       /\ Min(S) = Min(Stored) \/ Min(S) - 1 \in Stored
       /\ Max(S) = upto \/ Max(S) + 1 \in Stored

PartlyPruned == LET kept == {n \in Stored : n > prunedTo}
                IN IF prunedTo > 0 /\ kept # {} THEN DayOf(Min(kept)) ELSE Null

\* The days recounted with the first: those before the aggregated ones, and the day after each complete day, whose
\* first block's pair crosses the boundary.
Group(first, complete, upto, a) ==
    LET aggregated == DOMAIN a
        before     == IF aggregated = {} THEN {} ELSE first .. Min(aggregated) - 1
        nextDay(d) == DayOf(Max(UpTo(d, upto)) + 1)
        hasNext(d) == d \in complete /\ Max(UpTo(d, upto)) + 1 \in Stored
        grown[k \in 0 .. LastBlock] ==
            IF k = 0 THEN {first} \cup before
            ELSE grown[k - 1] \cup {nextDay(d) : d \in {e \in grown[k - 1] : hasNext(e)}}
    IN grown[LastBlock]

-----------------------------------------------------------------------------
(* countFold: one staged fold, from one snapshot. *)

NoFold == [pc |-> "idle"]

\* stageRecountedSets and daily_stats_fold_apply: the address sets after the fold; recounted are the days set anew.
SetsAfter(recounted, new, upto) ==
    LET today == IF upto \in Stored THEN DayOf(upto) ELSE Null
        fresh(d) == IF d \in recounted THEN AddrsOf(UpTo(d, upto)) ELSE AddrsOf(On(d, new))
        added(d) == IF d \in recounted /\ d < today THEN {} ELSE fresh(d)
        gone(d)  == IF today # Null /\ d \in recounted /\ d >= today THEN sets[d] \ fresh(d) ELSE {}
        kept(d)  == new = {} \/ d >= DayOf(upto) - 1
    IN [d \in DDay |-> IF kept(d) THEN (sets[d] \ gone(d)) \cup added(d) ELSE {}]

CountFold(days) ==
    LET upto      == Upto
        new       == mark + 1 .. upto
        a         == IF new = {} THEN acc ELSE Advanced(new)
        left      == {d \in days : d > PartlyPruned}
        complete  == {d \in left : Whole(d, upto)}
        recounted == IF complete = {} THEN {} ELSE Group(Min(complete), complete, upto, a)
        b         == [d \in {e \in recounted : UpTo(e, upto) # {}} |-> Sums(UpTo(d, upto))] @@ a
        firsts    == (IF complete = {} THEN {} ELSE {Min(complete)})
                     \cup (IF new # {} /\ DayOf(mark + 1) # DayOf(upto) THEN {DayOf(mark + 1)} ELSE {})
        c         == IF firsts = {} THEN b ELSE Rewritten(b, Min(firsts))
    IN [mark    |-> mark, pruned |-> prunedTo, upto |-> upto,
        nothing |-> new = {} /\ complete = {},
        acc     |-> c,
        sets    |-> SetsAfter(recounted, new, upto),
        rows    |-> (IF firsts = {} THEN <<>> ELSE RewrittenRows(c, Min(firsts)))
                    @@ (IF new = {} THEN <<>> ELSE RowsOf(a, {d \in DDay : d >= DayOf(mark + 1)})),
        later   |-> complete \ recounted,
        pending |-> {d \in left \ complete : UpTo(d, upto) # {}}]

-----------------------------------------------------------------------------
(* The throttle: due, markDirty, arm, disarm and done, under its mutex. *)

Interval == owed.interval

\* Mutant: a run's end leaves the days marked meanwhile to the next block.
NotArmed(t) == t

\* arm: a deferred run is scheduled when days wait, none is in flight and none is scheduled.
Armed(t) == [t EXCEPT !.armed = @ \/ (Interval /\ ~t.running /\ t.dirty)]

\* due: whether a run starts; block 0 stands for the timer's call.
Due(t, n) == /\ ~t.running /\ t.dirty
             /\ IF Interval THEN ~t.recent ELSE n % RunEvery = 0

\* scheduleDailyStats: start a run, or arm the timer.
Schedule(t, n) ==
    IF Due(t, n)
    THEN /\ throttle' = [t EXCEPT !.dirty = FALSE, !.recent = TRUE, !.running = TRUE]
         /\ run' = [pc |-> "take"]
    ELSE /\ throttle' = Armed(t)
         /\ UNCHANGED run

-----------------------------------------------------------------------------
(* Blocks are stored and noted, reverted, and pruned. *)

\* A block's transaction commits: realtime's, in order from where it started, or catch-up's below, in any order;
\* nothing is stored above a stale block.
IngestBlock(n) ==
    /\ n \notin Stored /\ Retained(n) /\ n <= owed.last
    /\ n > owed.from => n - 1 \in Stored
    /\ \A m \in Stored : m < n => blocks[m] = node[m]
    /\ Cardinality(writing) < owed.writers
    /\ blocks' = [blocks EXCEPT ![n] = node[n]]
    /\ writing' = writing \cup {[block |-> n, txs |-> node[n]]}
    /\ UNCHANGED <<node, prunedTo, prunedTxs, mark, acc, sets, rows, stale, saved, late, throttle, run, stalls, owed, cutShort>>

\* noteBlock
NoteBlock(n) == IF late.mark # NoMark /\ n > late.mark THEN late
                ELSE [late EXCEPT !.days = @ \cup {DayOf(n)}]

\* Its writer goes on: the day is noted and marked dirty; a block without transactions only arms the timer.
FinishBlock(w) ==
    /\ w \in writing
    /\ writing' = writing \ {w}
    /\ late' = NoteBlock(w.block)
    /\ LET t == [throttle EXCEPT !.dirty = TRUE]
       IN IF w.txs = 0 THEN throttle' = Armed(t) /\ UNCHANGED run
          ELSE Schedule(t, w.block)
    /\ UNCHANGED <<node, dailyTables, stale, saved, stalls, owed, cutShort>>

\* The node reorgs from a block on; a day a refill has counted, or retention has reached, is out of a reorg's reach.
NodeForks(k) ==
    /\ owed.forks > 0 /\ DayOf(k) > DayOf(prunedTo) /\ \A d \in DOMAIN saved : DayOf(k) > d
    /\ node' = [n \in DBlock |-> IF n >= k THEN (node[n] + 1) % 3 ELSE node[n]]
    /\ owed' = [owed EXCEPT !.forks = @ - 1]
    /\ UNCHANGED <<dailyTables, stale, saved, late, writing, throttle, run, stalls, cutShort>>

\* daily_stats_invalidate of a counted block: its day and the later ones are counted again.
AccBefore(d) == [e \in {x \in DOMAIN acc : x < d} |-> acc[e]]
FirstFrom(d) == Min({n \in Stored : DayOf(n) >= d})

\* keepDailyStatsWatermarkOnStoredBlocks
KeepMark(w, a) ==
    LET below  == {n \in Stored : n <= w}
        firsts == {a[d].first : d \in DOMAIN a} \cap {n \in DBlock : n <= w}
    IN IF below = {} \/ firsts = {} THEN w ELSE Min({w, Max({Max(below), Min(firsts) - 1})})

\* DeleteBlock of the highest stored block, on a fork the node has left.
RevertBlock(n) ==
    /\ n \in Stored /\ n = Max(Stored) /\ blocks[n] # node[n]
    /\ stale' = TRUE
    /\ IF mark # NoMark /\ mark >= n
       THEN LET d == DayOf(n)
            IN /\ prunedTo = 0 \/ d > DayOf(prunedTo)
               /\ acc'  = AccBefore(d)
               /\ sets' = [e \in DDay |-> IF e < d THEN sets[e] ELSE {}]
               /\ mark' = KeepMark(FirstFrom(d) - 1, AccBefore(d))
       ELSE /\ mark' = IF mark = NoMark THEN mark ELSE KeepMark(mark, acc)
            /\ UNCHANGED <<acc, sets>>
    /\ blocks' = [blocks EXCEPT ![n] = Absent]
    /\ UNCHANGED <<node, prunedTo, prunedTxs, rows, saved, late, writing, throttle, run, stalls, owed, cutShort>>

\* A day's aggregate is what its stored blocks up to the watermark add up to; the pair its first block makes with a
\* late block of a partly pruned day, which is not recounted, may be missing.
Exact(d) ==
    /\ d \in DOMAIN acc
    /\ LET s        == Sums(UpTo(d, mark))
           pairLost == s.first > 0 /\ DayOf(s.first - 1) <= PartlyPruned
       IN [acc[d] EXCEPT !.before = Null, !.pairs = IF pairLost THEN s.pairs ELSE @] = s

\* Its earlier transactions are those of all earlier counted blocks, pruned ones included.
Carried(d) == acc[d].before = TxsOf({n \in Stored : n <= mark /\ DayOf(n) < d}) + prunedTxs

\* Nothing is left to count or to recount.
Quiet == late.searched /\ late.days = {} /\ run = NoFold /\ writing = {}

\* prune_advance, as the daily tables see it: a complete range, counted, of days before the reorg window's.
Prune(p) ==
    /\ owed.prunes > 0 /\ prunedTo < p /\ p <= mark
    /\ {n \in DBlock : prunedTo < n /\ n <= p} \cup (IF prunedTo = 0 THEN {0} ELSE {}) \subseteq Stored
    /\ \A n \in Stored : blocks[n] = node[n]
    /\ DayOf(p) < DayOf(Max(Stored))
    /\ prunedTo' = p
    /\ prunedTxs' = prunedTxs + TxsOf({n \in Stored : n <= p})
    /\ blocks' = [n \in DBlock |-> IF n <= p THEN Absent ELSE blocks[n]]
    /\ cutShort' = (cutShort \/ \E d \in 0 .. DayOf(p + 1) :
                      \/ ~(UpTo(d, mark) # {} /\ Exact(d) /\ Carried(d))
                      \/ \E n \in DBlock \ Stored : DayOf(n) = d /\ Retained(n) /\ n <= mark)
    /\ owed' = [owed EXCEPT !.prunes = @ - 1]
    /\ UNCHANGED <<node, mark, acc, sets, rows, stale, saved, late, writing, throttle, run, stalls>>

-----------------------------------------------------------------------------
(* AdvanceDailyStats, one action for each of its transactions. *)

GiveBack(days) == [late EXCEPT !.days = @ \cup days]

\* take
FoldTake ==
    /\ run.pc = "take"
    /\ run' = [pc |-> IF late.searched THEN "start" ELSE "search", days |-> late.days,
               search |-> ~late.searched, searched |-> FALSE]
    /\ late' = [late EXCEPT !.days = {}]
    /\ UNCHANGED <<node, dailyTables, stale, saved, writing, throttle, stalls, owed, cutShort>>

\* searchLateDays: the days whose blocks up to the watermark are not all counted.
Uncounted(d) ==
    LET S == UpTo(d, mark)
    IN /\ S # {}
       /\ IF d \in DOMAIN acc THEN acc[d].blocks # Cardinality(S) \/ acc[d].pairs # Sums(S).pairs
          ELSE d \notin DOMAIN rows \/ rows[d].blocks # Cardinality(S)

FoldSearch ==
    /\ run.pc = "search"
    /\ run' = [run EXCEPT !.pc = "start", !.searched = mark # NoMark,
                          !.days = @ \cup (IF mark = NoMark THEN {} ELSE {d \in DDay : Uncounted(d)})]
    /\ UNCHANGED <<node, dailyTables, stale, saved, late, writing, throttle, stalls, owed, cutShort>>

\* Mutant: a run's end is not noted.
NeverDone(t) == Armed(t)

\* The deferred calls of a run's goroutine: done, then arm.
Ended(t) == Armed([t EXCEPT !.running = FALSE])

\* startDailyStatsWatermark: the newest day's first block is known to be its first.
CanStart ==
    /\ Stored # {}
    /\ LET first == FirstFrom(DayOf(Max(Stored)))
       IN first - 1 \in Stored \/ \A n \in Stored : n >= first

FoldStart ==
    /\ run.pc = "start"
    /\ IF mark # NoMark \/ CanStart
       THEN /\ mark' = IF mark # NoMark THEN mark ELSE FirstFrom(DayOf(Max(Stored))) - 1
            /\ run' = [pc |-> "count", days |-> run.days, search |-> run.search, searched |-> run.searched,
                       left |-> run.days, pending |-> {}, tries |-> 0]
            /\ UNCHANGED <<late, throttle>>
       ELSE /\ run' = NoFold /\ late' = GiveBack(run.days) /\ throttle' = Ended(throttle)
            /\ UNCHANGED mark
    /\ UNCHANGED <<node, blocks, prunedTo, prunedTxs, acc, sets, rows, stale, saved, writing, stalls, owed, cutShort>>

Ending(upto, done, pending) ==
    [pc |-> "end", days |-> run.days, search |-> run.search, searched |-> run.searched,
     upto |-> upto, done |-> done, pending |-> pending]

\* countFold, in its own read-only snapshot.
FoldCount ==
    /\ run.pc = "count"
    /\ stale' = FALSE
    /\ LET c == CountFold(run.left)
       IN run' = IF c.nothing THEN Ending(mark, TRUE, run.pending \cup c.pending)
                 ELSE [pc |-> "apply", days |-> run.days, search |-> run.search, searched |-> run.searched,
                       left |-> run.left, pending |-> run.pending, tries |-> run.tries, count |-> c]
    /\ UNCHANGED <<node, dailyTables, saved, late, writing, throttle, stalls, owed, cutShort>>

\* Mutant: the fold compares the watermark only.
SameMark(c) == mark = c.mark

\* daily_stats_fold_apply's condition: nothing the count read has changed but by ingest.
Unchanged(c) == mark = c.mark /\ ~stale /\ prunedTo = c.pruned

Apply(c) == /\ acc' = c.acc /\ sets' = c.sets /\ rows' = c.rows @@ rows /\ mark' = c.upto

FoldApply ==
    /\ run.pc = "apply" /\ Unchanged(run.count)
    /\ LET c == run.count
       IN /\ Apply(c)
          /\ run' = IF c.upto - c.mark < FoldMaxBlocks /\ c.later = {}
                    THEN Ending(c.upto, TRUE, run.pending \cup c.pending)
                    ELSE [pc |-> "count", days |-> run.days, search |-> run.search, searched |-> run.searched,
                          left |-> c.later, pending |-> run.pending \cup c.pending, tries |-> 0]
    /\ stalls' = 0
    /\ UNCHANGED <<node, blocks, prunedTo, prunedTxs, stale, saved, late, writing, throttle, owed, cutShort>>

\* A refused apply counts again; the last one ends the call, or has the next advance under the lock.
FoldRefused ==
    /\ run.pc = "apply" /\ ~Unchanged(run.count)
    /\ IF run.tries + 1 < FoldCounts
       THEN /\ run' = [pc |-> "count", days |-> run.days, search |-> run.search, searched |-> run.searched,
                       left |-> run.left, pending |-> run.pending, tries |-> run.tries + 1]
            /\ UNCHANGED stalls
       ELSE IF stalls + 1 < FoldStalls
       THEN /\ run' = Ending(run.count.mark, FALSE, {}) /\ stalls' = stalls + 1
       ELSE /\ run' = [pc |-> "locked", days |-> run.days, search |-> run.search, searched |-> run.searched]
            /\ stalls' = 0
    /\ UNCHANGED <<node, dailyTables, stale, saved, late, writing, throttle, owed, cutShort>>

\* lockedFold: daily_stats_advance and the days it spans rewritten, under the lock throughout.
FoldLocked ==
    /\ run.pc = "locked"
    /\ LET new   == mark + 1 .. Upto
           a     == IF new = {} THEN acc ELSE Advanced(new)
           spans == new # {} /\ DayOf(mark + 1) # DayOf(Upto)
           b     == IF spans THEN Rewritten(a, DayOf(mark + 1)) ELSE a
       IN /\ acc' = b
          /\ sets' = SetsAfter({}, new, Upto)
          /\ rows' = (IF spans THEN RewrittenRows(b, DayOf(mark + 1)) ELSE <<>>)
                     @@ (IF new = {} THEN <<>> ELSE RowsOf(b, {d \in DDay : d >= DayOf(mark + 1)})) @@ rows
          /\ mark' = Upto
          /\ run' = Ending(Upto, FALSE, {})
    /\ stale' = TRUE
    /\ UNCHANGED <<node, blocks, prunedTo, prunedTxs, saved, late, writing, throttle, stalls, owed, cutShort>>

\* giveBack, advanced and the goroutine's deferred calls.
FoldEnd ==
    /\ run.pc = "end"
    /\ late' = [mark |-> run.upto, days |-> late.days \cup (IF run.done THEN run.pending ELSE run.days),
                searched |-> late.searched \/ (run.searched /\ run.done)]
    /\ throttle' = Ended(throttle)
    /\ run' = NoFold
    /\ UNCHANGED <<node, dailyTables, stale, saved, writing, stalls, owed, cutShort>>

\* A transaction of the fold fails, also the apply's after it has committed: every day is given back and marked again.
FoldFails ==
    /\ owed.faults > 0 /\ run.pc \in {"search", "start", "count", "apply", "locked"}
    /\ \/ UNCHANGED <<mark, acc, sets, rows>>
       \/ run.pc = "apply" /\ Unchanged(run.count) /\ Apply(run.count)
    /\ late' = GiveBack(run.days)
    /\ throttle' = Ended([throttle EXCEPT !.dirty = TRUE])
    /\ run' = NoFold
    /\ owed' = [owed EXCEPT !.faults = @ - 1]
    /\ UNCHANGED <<node, blocks, prunedTo, prunedTxs, stale, saved, writing, stalls, cutShort>>

-----------------------------------------------------------------------------
(* Time, other writers of the daily tables, the refill, and a stop of the process. *)

\* The interval since the last run passes.
IntervalPasses ==
    /\ throttle.recent
    /\ throttle' = [throttle EXCEPT !.recent = FALSE]
    /\ UNCHANGED <<node, dailyTables, stale, saved, late, writing, run, stalls, owed, cutShort>>

\* The timer a deferred run was armed with; a run started meanwhile may have begun a new interval.
TimerFires ==
    /\ throttle.armed
    /\ Schedule([throttle EXCEPT !.armed = FALSE], 0)
    /\ UNCHANGED <<node, dailyTables, stale, saved, late, writing, stalls, owed, cutShort>>

\* recountPendingDays: a rebase moved a first_seen, and the address columns are recounted under the lock.
RecountColumns ==
    /\ owed.others > 0
    /\ stale' = TRUE
    /\ owed' = [owed EXCEPT !.others = @ - 1]
    /\ UNCHANGED <<node, dailyTables, saved, late, writing, throttle, run, stalls, cutShort>>

\* dayRange: the blocks of a day at the node, found by their timestamps.
DayRange(d) == {n \in DBlock : DayOf(n) = d}

\* countDay: what the node's blocks of a day add up to; without bodies the active addresses stay unknown.
CountDay(d, bodies) ==
    LET S == DayRange(d)
    IN [first  |-> Min(S), last |-> Max(S), blocks |-> Cardinality(S), pairs |-> Cardinality({n \in S : n > 0}),
        txs    |-> MapThenSumSet(LAMBDA n : node[n], S),
        active |-> IF bodies THEN Cardinality(UNION {1 .. node[n] : n \in S}) ELSE Null]

\* SaveRefillDay: the checkpoint of a counted day.
SaveRefillDay(d, r) == saved' = (d :> r) @@ saved

\* RefillDailyStats counts a day from the node, if it is over at the node's head, and checkpoints it.  The operator
\* runs it for days whose blocks ingest has stored, and has the rows written (RefillWrite) when no fold is owed.
RefillDay(d, bodies) ==
    /\ owed.refills > 0 /\ d \notin DOMAIN saved
    /\ {n \in DBlock : Retained(n) /\ DayOf(n) <= d} \subseteq Stored /\ \A n \in Stored : blocks[n] = node[n]
    /\ \E n \in 0 .. owed.last : DayOf(n) = d + 1
    /\ SaveRefillDay(d, CountDay(d, bodies))
    /\ UNCHANGED <<node, dailyTables, stale, late, writing, throttle, run, stalls, owed, cutShort>>

\* The refilled days' rows and aggregates; what the refill did not fetch keeps its value.
RefilledAcc ==
    [d \in DOMAIN saved |->
        LET old == IF d \in DOMAIN acc THEN acc[d] ELSE [active |-> 0, before |-> Null]
            s   == saved[d]
        IN [first |-> s.first, blocks |-> s.blocks, pairs |-> s.pairs, txs |-> s.txs,
            active |-> IF s.active = Null THEN old.active ELSE s.active, before |-> old.before]] @@ acc
RefilledRows ==
    [d \in DOMAIN saved |->
        LET old == IF d \in DOMAIN rows THEN rows[d] ELSE [active |-> 0, cumulative |-> 0]
            s   == saved[d]
        IN [blocks |-> s.blocks, txs |-> s.txs, cumulative |-> old.cumulative,
            active |-> IF s.active = Null THEN old.active ELSE s.active]] @@ rows

\* refill_ends: the days in an unbroken run down from the newest row, each with the transactions up to its end.
EndOf(r, d) ==
    TxsOf({n \in Stored : n <= mark}) + prunedTxs - MapThenSumSet(LAMBDA e : r[e].txs, {e \in DOMAIN r : e > d})
Run(r) == {d \in DOMAIN r : d .. Max(DOMAIN r) \subseteq DOMAIN r}

\* WriteRefilledDailyStats: refused when a day ends above the watermark.
RefillWrite ==
    /\ owed.refills > 0 /\ saved # <<>> /\ \A d \in DOMAIN saved : saved[d].last <= mark
    /\ Quiet /\ \A n \in DBlock : Retained(n) /\ n <= mark => n \in Stored
    /\ rows # <<>> /\ Max(DOMAIN rows) = DayOf(mark)
    /\ LET r == RefilledRows
           a == RefilledAcc
       IN /\ rows' = [d \in DOMAIN r |-> IF d \in Run(r) THEN [r[d] EXCEPT !.cumulative = EndOf(r, d)] ELSE r[d]]
          /\ acc'  = [d \in DOMAIN a |-> IF d \in Run(r) THEN [a[d] EXCEPT !.before = EndOf(r, d) - r[d].txs] ELSE a[d]]
    /\ stale' = TRUE
    /\ cutShort' = (cutShort /\ ~(0 .. PartlyPruned \subseteq DOMAIN saved))
    /\ owed' = [owed EXCEPT !.refills = @ - 1]
    /\ UNCHANGED <<node, blocks, prunedTo, prunedTxs, mark, sets, saved, late, writing, throttle, run, stalls>>

NothingLate == [mark |-> NoMark, days |-> {}, searched |-> FALSE]
Rested      == [recent |-> FALSE, running |-> FALSE, armed |-> FALSE, dirty |-> FALSE]

\* A stop forgets the notes, the throttle and the run; the next block after the start marks its day dirty.
DailyCrash ==
    /\ owed.crashes > 0 /\ \E n \in DBlock \ Stored : Retained(n) /\ n <= owed.last
    /\ late' = NothingLate /\ throttle' = Rested /\ run' = NoFold /\ stalls' = 0 /\ writing' = {}
    /\ owed' = [owed EXCEPT !.crashes = @ - 1]
    /\ UNCHANGED <<node, dailyTables, stale, saved, cutShort>>

DailyInitWith(s) ==
    /\ node = FirstChain /\ blocks = [n \in DBlock |-> Absent] /\ prunedTo = 0 /\ prunedTxs = 0
    /\ mark = NoMark /\ acc = <<>> /\ sets = [d \in DDay |-> {}] /\ rows = <<>>
    /\ stale = FALSE /\ saved = <<>> /\ late = NothingLate /\ writing = {}
    /\ throttle = Rested /\ run = NoFold /\ stalls = 0 /\ cutShort = FALSE
    /\ owed = s

DailyInit == \E s \in DailyScenarios : DailyInitWith(s)

FoldStep == FoldTake \/ FoldSearch \/ FoldStart \/ FoldCount \/ FoldApply \/ FoldRefused \/ FoldLocked \/ FoldEnd

DailyNext ==
    \/ \E n \in DBlock : IngestBlock(n) \/ RevertBlock(n) \/ NodeForks(n) \/ Prune(n)
    \/ \E w \in writing : FinishBlock(w)
    \/ FoldTake \/ FoldSearch \/ FoldStart \/ FoldCount \/ FoldApply \/ FoldRefused \/ FoldLocked \/ FoldEnd
    \/ FoldFails \/ IntervalPasses \/ TimerFires \/ RecountColumns
    \/ \E d \in DDay, b \in BOOLEAN : RefillDay(d, b)
    \/ RefillWrite \/ DailyCrash

DailySpec == DailyInit /\ [][DailyNext]_dailyVars

-----------------------------------------------------------------------------
(* What the tables hold. *)

Acc(a)  == /\ DOMAIN a \subseteq DDay
           /\ \A d \in DOMAIN a : a[d].first \in DBlock /\ a[d].blocks \in 1 .. DayBlocks /\ a[d].before >= Null

\* A day never counts more blocks than it has, and a fold is in flight exactly when the throttle says so.
DailyTypeOK ==
    /\ blocks \in [DBlock -> Absent .. 2] /\ mark \in NoMark .. LastBlock
    /\ Acc(acc) /\ sets \in [DDay -> SUBSET (1 .. 2)] /\ DOMAIN rows \subseteq DDay
    /\ late.days \subseteq DDay /\ late.mark \in NoMark .. LastBlock
    /\ stalls \in 0 .. FoldStalls - 1
    /\ (run = NoFold) = ~throttle.running

TakenDays == IF run.pc \in {"idle", "take"} THEN {} ELSE run.days
Noted(d)  == \/ d \in late.days \cup TakenDays \cup {DayOf(w.block) : w \in writing}
             \/ ~late.searched /\ Uncounted(d)

\* A day's first block makes its pair with the block before it, which may be a late one.
PairNoted(d) == LET first == Min(UpTo(d, mark)) IN first > 0 /\ Noted(DayOf(first - 1))

\* However blocks arrive, are reverted and stored again, and whatever a fold's snapshot missed: every day with stored
\* blocks at or below the watermark is counted exactly, or something still leads to its recount (a note, a fold that
\* has taken it, a block whose writer is about to note it, or the search the next fold makes).
CountedOrNoted ==
    \A d \in DDay : mark # NoMark /\ UpTo(d, mark) # {} /\ d > PartlyPruned =>
        Exact(d) \/ Noted(d) \/ PairNoted(d)

\* With no day to recount, each day's earlier transactions are those of all earlier blocks, pruned ones included, and
\* its row is what its aggregate says: the sum is carried through every later day, not only the day recounted.  A day
\* retention took before it was counted is out of the fold's reach; a refill of the pruned days repairs the sum.
CarriedExactly ==
    Quiet /\ ~cutShort => \A d \in DOMAIN acc : d > PartlyPruned => Carried(d) /\ rows[d] = DayRow(acc[d])

(***************************************************************************)
(* The goroutines keep running, the chain's blocks are stored, forks are   *)
(* reverted, the timer fires and time passes; troubles are bounded.        *)
(***************************************************************************)
DailyFairness ==
    /\ WF_dailyVars(\E n \in DBlock : IngestBlock(n)) /\ WF_dailyVars(\E n \in DBlock : RevertBlock(n))
    /\ WF_dailyVars(\E w \in writing : FinishBlock(w))
    /\ WF_dailyVars(IntervalPasses) /\ WF_dailyVars(TimerFires)
    /\ []<>(run = NoFold) \/ []<><<run # NoFold /\ run' # run>>_dailyVars

DailyLiveSpec == DailySpec /\ DailyFairness

\* With an interval set, every stored block is eventually counted, whatever order the blocks came in: a day marked
\* dirty while a run is in flight, or by the last block before a quiet period, is not left to a next block.  Two things
\* do wait for a next block: what a stop of the process forgot, which the search of the next run finds, and what a run
\* left whose counts were all refused (stalls), which marks no day dirty again.
EventuallyCounted ==
    owed.interval =>
        <>[](\/ stalls > 0
             \/ /\ mark = owed.last
                /\ \A d \in DDay : UpTo(d, mark) # {} /\ d > PartlyPruned =>
                        Exact(d) \/ (~late.searched /\ Uncounted(d)))
=============================================================================
