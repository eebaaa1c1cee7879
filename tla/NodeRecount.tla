---------------------------- MODULE NodeRecount ----------------------------
(***************************************************************************)
(* The recount of pruned ledger spans from the node (indexer/              *)
(* node_recount.go, span_counter.go, db/span_totals.go): the pruned span   *)
(* checked longest ago is counted block by block, a block's reads tried    *)
(* SpanBlockReads times, and settled against its ledger rows if it is      *)
(* still the span that was counted; compaction (db/migrations/030) may     *)
(* merge it meanwhile.  A span that fails Defers times in a row, or that   *)
(* the node cannot judge, goes to the back of the queue.                   *)
(*                                                                         *)
(* A span's ledger rows are the set of blocks they count; the order of     *)
(* checked_at is the order of line, the spans never checked before it.     *)
(***************************************************************************)
EXTENDS Integers, Sequences, FiniteSets, FiniteSetsExt, SequencesExt, Functions

CONSTANTS
    SpanWidth,        \* LEDGER_SPAN_BLOCKS
    LastSpanBlock,    \* the closed spans cover 0 .. LastSpanBlock
    SpanBlockReads,   \* spanBlockReads
    Defers,           \* nodeRecountFailuresBeforeDefer
    RecountScenarios  \* bound: what the node refuses, and how often each trouble may happen

VARIABLES
    spans,        \* ledger_spans and their rows: lo -> [hi, counts, state, merged]
    fresh,        \* spans never checked
    line,         \* spans in the order of checked_at
    historyFrom,  \* history_from()
    count,        \* RecountPrunedSpan: the span being counted
    counter,      \* spanCounter: failingLo, failures, unchecked
    trouble       \* what is left of the scenario's troubles

recountVars == <<spans, fresh, line, historyFrom, count, counter, trouble>>
spanVars    == <<spans, fresh, line>>

SpanState == {"unchecked", "ok", "drift", "repaired", "quarantined"}

\* What ingest or the backfill counted in [lo, hi): block 0 only where it was stored or backfilled.
Truth(lo, hi) == (lo .. hi - 1) \ (IF trouble.genesis THEN {} ELSE {0})

NotCounting == [pc |-> "idle", lo |-> -1, hi |-> -1, next |-> 0, attempt |-> 1, got |-> {}, why |-> "none"]
NewCounter  == [failingLo |-> -1, failures |-> 0, unchecked |-> <<>>]

-----------------------------------------------------------------------------
(* The queue *)

Prunable(lo) == spans[lo].hi <= historyFrom /\ spans[lo].state # "quarantined"

\* The span of due checked longest ago: those never checked first, by lo, then by checked_at.
LongestAgo(due) ==
    LET new == due \cap fresh
        old == SelectSeq(line, LAMBDA lo : lo \in due)
    IN IF new # {} THEN {Min(new)} ELSE IF old # <<>> THEN {Head(old)} ELSE {}

\* NextPrunedSpan.
NextPruned == LongestAgo({lo \in DOMAIN spans : Prunable(lo)})

\* checked_at = now().
ToBack(lo) ==
    /\ fresh' = fresh \ {lo}
    /\ line' = IF lo \in DOMAIN spans THEN Append(SelectSeq(line, LAMBDA k : k # lo), lo) ELSE line

\* PrunedSpanFrom: block 0 counts if the span's blocks_total is its width.
PrunedSpanFrom(lo, hi) == IF lo = 0 /\ Cardinality(spans[lo].counts) # hi - lo THEN 1 ELSE lo

TakeSpan ==
    /\ count.pc = "idle"
    /\ \E lo \in NextPruned :
           count' = [NotCounting EXCEPT !.pc = "count", !.lo = lo, !.hi = spans[lo].hi,
                                        !.next = PrunedSpanFrom(lo, spans[lo].hi)]
    /\ UNCHANGED <<spanVars, historyFrom, counter, trouble>>

-----------------------------------------------------------------------------
(* spanCounter.count *)

Reading == count.pc = "count" /\ count.next < count.hi

\* Permanent refusals of the node, or a passing failure.
Undecidable == Reading /\ count.next \in trouble.undecided
ReadRefused == Reading /\ count.next \in trouble.refused

ReadBlock ==
    /\ Reading /\ ~Undecidable /\ ~ReadRefused
    /\ count' = [count EXCEPT !.got = @ \cup {count.next}, !.next = @ + 1, !.attempt = 1]
    /\ UNCHANGED <<spanVars, historyFrom, counter, trouble>>

\* A failed read of a block is tried again, and fails the count on the last try.
ReadFails(why) ==
    /\ \/ why = "undecided" /\ Undecidable /\ UNCHANGED trouble
       \/ why = "failing" /\ ReadRefused /\ UNCHANGED trouble
       \/ /\ why = "failing" /\ Reading /\ trouble.faults > 0
          /\ trouble' = [trouble EXCEPT !.faults = @ - 1]
    /\ count' = IF count.attempt < SpanBlockReads THEN [count EXCEPT !.attempt = @ + 1]
                ELSE [count EXCEPT !.pc = "failed", !.why = why]
    /\ UNCHANGED <<spanVars, historyFrom, counter>>

-----------------------------------------------------------------------------
(* RecountPrunedSpan, after the count *)

\* leftUnchecked.
LeftUnchecked(lo, why) == [k \in DOMAIN counter.unchecked \cup {lo} |-> IF k = lo THEN why ELSE counter.unchecked[k]]

\* Mutant: the span that failed too often is not sent to the back of the queue.
NotDeferred(failures) ==
    /\ counter' = [counter EXCEPT !.failingLo = count.lo, !.failures = failures,
                                  !.unchecked = LeftUnchecked(count.lo, count.why)]
    /\ UNCHANGED <<fresh, line, trouble>>

\* DeferPrunedSpan, and the record of why; the write may fail.
DeferSpan(failures) ==
    \/ /\ ToBack(count.lo)
       /\ counter' = [counter EXCEPT !.failingLo = count.lo, !.failures = failures,
                                     !.unchecked = LeftUnchecked(count.lo, count.why)]
       /\ UNCHANGED trouble
    \/ /\ trouble.faults > 0
       /\ trouble' = [trouble EXCEPT !.faults = @ - 1]
       /\ counter' = [counter EXCEPT !.failingLo = count.lo, !.failures = failures]
       /\ UNCHANGED <<fresh, line>>

Failures       == IF counter.failingLo = count.lo THEN counter.failures + 1 ELSE 1
FailedTooOften == Failures >= Defers

CountFailed ==
    /\ count.pc = "failed" /\ count.why = "failing"
    /\ count' = NotCounting
    /\ IF FailedTooOften THEN DeferSpan(0)
       ELSE /\ counter' = [counter EXCEPT !.failingLo = count.lo, !.failures = Failures]
            /\ UNCHANGED <<fresh, line, trouble>>
    /\ UNCHANGED <<spans, historyFrom>>

CountUndecided ==
    /\ count.pc = "failed" /\ count.why = "undecided"
    /\ count' = NotCounting
    /\ \/ /\ ToBack(count.lo)
          /\ counter' = [counter EXCEPT !.unchecked = LeftUnchecked(count.lo, "undecided")]
          /\ UNCHANGED trouble
       \/ /\ trouble.faults > 0
          /\ trouble' = [trouble EXCEPT !.faults = @ - 1]
          /\ UNCHANGED <<fresh, line, counter>>
    /\ UNCHANGED <<spans, historyFrom>>

\* ledger_span_settle: a first drift is repaired with the rows counted, a second quarantines the span.
Settled(span, got) ==
    LET settledBefore == span.state \in {"repaired", "quarantined"}
    IN IF span.counts = got THEN [span EXCEPT !.state = IF settledBefore THEN @ ELSE "ok"]
       ELSE IF settledBefore THEN [span EXCEPT !.state = "quarantined"]
       ELSE IF ~trouble.repair THEN [span EXCEPT !.state = "drift"]
       ELSE [span EXCEPT !.state = "repaired", !.counts = got]

\* Mutant: the span is looked up by lo alone.
SameLo == count.lo \in DOMAIN spans

\* The stored span is the range counted, under compaction's lock.
SameSpan == count.lo \in DOMAIN spans /\ spans[count.lo].hi = count.hi

Counted == count.pc = "count" /\ count.next = count.hi
ResetFailures == IF counter.failingLo = count.lo THEN 0 ELSE counter.failures

\* spanCounter.checked: forget the spans inside the one settled.
StillUnchecked == Restrict(counter.unchecked, {k \in DOMAIN counter.unchecked : k < count.lo \/ k >= count.hi})

SettleNodeSpan ==
    /\ Counted
    /\ count' = NotCounting
    /\ IF SameSpan
       THEN /\ spans' = [spans EXCEPT ![count.lo] = Settled(@, count.got)]
            /\ ToBack(count.lo)
            /\ counter' = [counter EXCEPT !.failures = ResetFailures, !.unchecked = StillUnchecked]
       ELSE /\ counter' = [counter EXCEPT !.failures = ResetFailures]
            /\ UNCHANGED spanVars
    /\ UNCHANGED <<historyFrom, trouble>>

SettleFails ==
    /\ Counted /\ trouble.faults > 0
    /\ count' = NotCounting
    /\ counter' = [counter EXCEPT !.failures = ResetFailures]
    /\ trouble' = [trouble EXCEPT !.faults = @ - 1]
    /\ UNCHANGED <<spanVars, historyFrom>>

-----------------------------------------------------------------------------
(* Around it *)

\* RecountRetainedSpan: the retained span checked longest ago, from its stored rows, under the history-DDL gate.
RecountRetained ==
    /\ trouble.retained > 0
    /\ \E lo \in LongestAgo({k \in DOMAIN spans : k >= historyFrom /\ spans[k].state # "quarantined"}) :
           /\ spans' = [spans EXCEPT ![lo] = Settled(@, Truth(lo, spans[lo].hi))]
           /\ ToBack(lo)
    /\ trouble' = [trouble EXCEPT !.retained = @ - 1]
    /\ UNCHANGED <<historyFrom, count, counter>>

PruneSpan ==
    /\ historyFrom <= LastSpanBlock
    /\ historyFrom' = historyFrom + SpanWidth
    /\ UNCHANGED <<spanVars, count, counter, trouble>>

\* ledger_compact: the oldest pair of spans, pruned, verified and not merged before, becomes one, not checked yet.
Pairs == {lo \in DOMAIN spans : /\ spans[lo].hi \in DOMAIN spans
                                /\ \A k \in {lo, spans[lo].hi} : /\ spans[k].state \in {"ok", "repaired"} /\ ~spans[k].merged
                                                                 /\ spans[k].hi <= historyFrom}

Compact ==
    /\ trouble.merges > 0 /\ Pairs # {}
    /\ LET lo == Min(Pairs)
           mid == spans[lo].hi
           merged == [hi |-> spans[mid].hi, counts |-> spans[lo].counts \cup spans[mid].counts, state |-> "unchecked", merged |-> TRUE]
       IN /\ spans' = [k \in DOMAIN spans \ {mid} |-> IF k = lo THEN merged ELSE spans[k]]
          /\ fresh' = (fresh \ {mid}) \cup {lo}
          /\ line' = SelectSeq(line, LAMBDA k : k \notin {lo, mid})
    /\ trouble' = [trouble EXCEPT !.merges = @ - 1]
    /\ UNCHANGED <<historyFrom, count, counter>>

\* What the recount is for: a span's rows lose a block (or block 0 is counted that should not be).
Drift(lo, b) ==
    /\ trouble.drifts > 0
    /\ spans' = [spans EXCEPT ![lo].counts = IF b \in @ THEN @ \ {b} ELSE @ \cup {b}]
    /\ trouble' = [trouble EXCEPT !.drifts = @ - 1]
    /\ UNCHANGED <<fresh, line, historyFrom, count, counter>>

RecountCrash ==
    /\ trouble.crashes > 0
    /\ trouble' = [trouble EXCEPT !.crashes = @ - 1]
    /\ count' = NotCounting /\ counter' = NewCounter
    /\ UNCHANGED <<spanVars, historyFrom>>

Los == {n \in 0 .. LastSpanBlock : n % SpanWidth = 0}

RecountInitWith(s) ==
    /\ trouble = s
    /\ spans = [lo \in Los |-> [hi |-> lo + SpanWidth, counts |-> Truth(lo, lo + SpanWidth), state |-> "unchecked", merged |-> FALSE]]
    /\ fresh = Los /\ line = <<>>
    /\ historyFrom = SpanWidth
    /\ count = NotCounting /\ counter = NewCounter

RecountInit == \E s \in RecountScenarios : RecountInitWith(s)

RecountStep ==
    \/ TakeSpan \/ ReadBlock
    \/ \E why \in {"undecided", "failing"} : ReadFails(why)
    \/ CountFailed \/ CountUndecided
    \/ SettleNodeSpan \/ SettleFails

RecountNext ==
    \/ RecountStep
    \/ \E lo \in DOMAIN spans : \E b \in lo .. spans[lo].hi - 1 : Drift(lo, b)
    \/ RecountRetained \/ PruneSpan \/ Compact \/ RecountCrash

RecountSpec == RecountInit /\ [][RecountNext]_recountVars

\* The recount's loop runs.
RecountFairness == WF_recountVars(RecountStep)

-----------------------------------------------------------------------------
\* Type invariant; every span is in the queue once.
RecountTypeOK ==
    /\ \A lo \in DOMAIN spans : /\ spans[lo].hi \in lo + 1 .. LastSpanBlock + 1 /\ spans[lo].state \in SpanState
                                /\ spans[lo].counts \subseteq lo .. spans[lo].hi - 1
    /\ fresh \cup ToSet(line) = DOMAIN spans /\ fresh \cap ToSet(line) = {}
    /\ Len(line) = Cardinality(ToSet(line))
    /\ counter.failures \in 0 .. Defers /\ count.attempt \in 1 .. SpanBlockReads

\* A repair leaves the span with the blocks it covers, whatever was merged, pruned or recounted while the node was
\* read (SettleNodeSpan); but for block 0, which a span whose blocks_total drifted is taken not to have counted.
RepairsTrue ==
    [][\A lo \in DOMAIN spans \cap DOMAIN spans' :
           spans[lo].state # "repaired" /\ spans'[lo].state = "repaired"
               => spans'[lo].counts \ {0} = Truth(lo, spans'[lo].hi) \ {0}]_recountVars

\* Every pruned span is recounted again and again, although others fail, or cannot be judged, every time
\* (DeferPrunedSpan, NextPrunedSpan).
EverySpanReached == \A lo \in Los : []<>(lo \notin DOMAIN spans \/ ~Prunable(lo) \/ count.lo = lo)

=============================================================================
