--------------------------- MODULE RetentionProofs ---------------------------
(***************************************************************************)
(* Proofs about LedgerRetention for every size of range, span and day and  *)
(* every schedule of the indexer, retention, stops and wipes: the ranges   *)
(* cover the retained blocks, what is pruned stays pruned and is archived  *)
(* before it is dropped, and no reorg reaches a day that is partly pruned. *)
(***************************************************************************)
EXTENDS LedgerRetention, NaturalFacts, FiniteSetTheorems, TLAPS

-----------------------------------------------------------------------------
(* Maxima, minima and counts *)

LEMMA MaxIs ==
    ASSUME NEW S \in SUBSET Int, NEW x \in S, \A y \in S : y <= x
    PROVE  Max(S) = x
<1>1. \A z \in S : (\A y \in S : z >= y) <=> z = x
  OBVIOUS
<1> QED BY <1>1 DEF Max

LEMMA MaxOfTwo ==
    ASSUME NEW a \in Int, NEW b \in Int
    PROVE  Max({a, b}) = IF a >= b THEN a ELSE b
<1>1. {a, b} \in SUBSET Int /\ a \in {a, b} /\ b \in {a, b}
  OBVIOUS
<1>2. CASE a >= b
  BY <1>1, <1>2, MaxIs
<1>3. CASE ~(a >= b)
  BY <1>1, <1>3, MaxIs
<1> QED BY <1>2, <1>3

LEMMA MaxOfThree ==
    ASSUME NEW a \in Int, NEW b \in Int, NEW c \in Int
    PROVE  LET m == Max({a, b, c}) IN m \in {a, b, c} /\ m >= a /\ m >= b /\ m >= c
<1>1. {a, b, c} \in SUBSET Int
  OBVIOUS
<1>2. ASSUME NEW m \in {a, b, c}, m >= a, m >= b, m >= c PROVE Max({a, b, c}) = m
  BY <1>1, <1>2, MaxIs
<1>3. \E m \in {a, b, c} : m >= a /\ m >= b /\ m >= c
  <2>1. CASE a >= b /\ a >= c
    BY <2>1
  <2>2. CASE b >= a /\ b >= c
    BY <2>2
  <2>3. CASE c >= a /\ c >= b
    BY <2>3
  <2> QED BY <2>1, <2>2, <2>3
<1> QED BY <1>2, <1>3

LEMMA MaxOfFinite ==
    ASSUME NEW S \in SUBSET Nat, IsFiniteSet(S), S # {}
    PROVE  Max(S) \in S /\ \A y \in S : y <= Max(S)
<1>1. PICK x \in S : \A y \in S : y <= x
  BY GreatestOfFinite
<1>2. S \in SUBSET Int
  OBVIOUS
<1> QED BY <1>1, <1>2, MaxIs

LEMMA MinOfNaturals ==
    ASSUME NEW S \in SUBSET Nat, S # {}
    PROVE  Min(S) \in S /\ \A y \in S : Min(S) <= y
<1>1. PICK x \in S : \A y \in S : x <= y
  BY LeastNatural
<1> QED BY <1>1 DEF Min

LEMMA MinIs ==
    ASSUME NEW S \in SUBSET Nat, NEW x \in S, \A y \in S : x <= y
    PROVE  Min(S) = x
<1>1. \A z \in S : (\A y \in S : z <= y) <=> z = x
  OBVIOUS
<1> QED BY <1>1 DEF Min

\* A part of an interval that has as many elements is the interval.
LEMMA FullInterval ==
    ASSUME NEW a \in Int, NEW b \in Int, NEW S \in SUBSET (a..b), Cardinality(S) = b + 1 - a, a <= b
    PROVE  S = a..b
<1>1. IsFiniteSet(a..b) /\ Cardinality(a..b) = b - a + 1
  BY FS_Interval
<1> DEFINE R == a..b
<1>2. Cardinality(R) = Cardinality(S) => R = S
  <2>1. IsFiniteSet(R) /\ S \in SUBSET R
    BY <1>1
  <2> HIDE DEF R
  <2> QED BY <2>1, FS_Subset
<1> QED BY <1>1, <1>2

\* Days follow blocks.
LEMMA DayMonotone ==
    ASSUME NEW m \in Nat, NEW n \in Nat
    PROVE  Day(m) \in Nat /\ (m <= n => Day(m) <= Day(n))
<1>1. DayBlocks \in Nat /\ DayBlocks > 0
  BY LedgerRetentionAssumption
<1>2. m \div DayBlocks \in Nat
  BY <1>1
<1>3. m <= n => m \div DayBlocks <= n \div DayBlocks
  BY <1>1
<1> QED BY <1>2, <1>3 DEF Day

-----------------------------------------------------------------------------
(* Ranges *)

\* The fields of a range.
LEMMA PartitionFields ==
    ASSUME NEW p \in Partition
    PROVE  /\ p.lo \in Nat /\ p.hi \in Int /\ p.hi >= -1 /\ p.legacy \in BOOLEAN /\ p.pending \in BOOLEAN
           /\ p.state \in {"attached", "detaching", "detached"} /\ p.off \in Nat /\ p.off <= Tables
           /\ p.gone \in Nat /\ p.gone <= Tables
<1>1. Tables \in Nat
  BY LedgerRetentionAssumption
<1> QED BY <1>1 DEF Partition, Unbounded

LEMMA NewRangeIs ==
    ASSUME NEW lo \in Nat, NEW hi \in Nat \cup {Unbounded}
    PROVE  LET r == NewRange(lo, hi)
           IN /\ r \in Partition /\ r.lo = lo /\ r.hi = hi /\ r.legacy = FALSE /\ r.state = "attached" /\ r.off = 0
              /\ r.pending = FALSE /\ r.gone = 0
<1>1. Tables \in Nat
  BY LedgerRetentionAssumption
<1> QED BY <1>1 DEF NewRange, Partition

\* A block is in one range, and a lower bound is one range's.
LEMMA OneRange ==
    ASSUME RangesInv, NEW p \in parts, NEW q \in parts
    PROVE  /\ \A n \in Nat : Holds(p, n) /\ Holds(q, n) => p = q
           /\ p.lo = q.lo => p = q
<1>1. /\ p.lo \in Nat /\ p.hi \in Int /\ q.lo \in Nat /\ q.hi \in Int
  BY PartitionFields DEF RangesInv
<1>2. RangeShape(p) /\ RangeShape(q)
  BY DEF RangesInv
<1>3. p # q => p.hi # Unbounded /\ q.hi # Unbounded /\ (p.hi <= q.lo \/ q.hi <= p.lo)
  BY DEF RangesInv, RangesApart
<1> QED BY <1>1, <1>2, <1>3 DEF Holds, RangeShape

LEMMA RangeAtIs ==
    ASSUME RangesInv, NEW p \in parts
    PROVE  RangeAt(p.lo) = p
<1>1. \A q \in parts : q.lo = p.lo <=> q = p
  BY OneRange
<1> QED BY <1>1 DEF RangeAt

LEMMA HistoryFromNat ==
    ASSUME pruned \in Nat
    PROVE  HistoryFrom \in Nat /\ (pruned = 0 => HistoryFrom = 0) /\ (pruned > 0 => HistoryFrom = pruned + 1)
BY DEF HistoryFrom

\* The first retained block above block 0.
LEMMA FirstRetained ==
    ASSUME pruned \in Nat
    PROVE  LET m == Max({HistoryFrom, 1}) IN m \in Nat /\ m >= 1 /\ m >= HistoryFrom /\ m = pruned + 1
<1>1. HistoryFrom \in Nat /\ (pruned = 0 => HistoryFrom = 0) /\ (pruned > 0 => HistoryFrom = pruned + 1)
  BY HistoryFromNat
<1>2. Max({HistoryFrom, 1}) = IF HistoryFrom >= 1 THEN HistoryFrom ELSE 1
  BY <1>1, MaxOfTwo
<1> QED BY <1>1, <1>2

\* Once the history is cut every range has a bound.
LEMMA CutBounds ==
    ASSUME RangesInv
    PROVE  /\ HistoryCut => \A p \in parts : p.hi # Unbounded /\ p.hi \in Nat /\ p.lo < p.hi
           /\ ~HistoryCut => \E p \in parts : p.hi = Unbounded /\ p.legacy /\ p.lo = 0 /\ p.state = "attached" /\ parts = {p}
<1>1. \A p \in parts : RangeShape(p) /\ p.lo \in Nat /\ p.hi \in Int /\ p.hi >= -1
  BY PartitionFields DEF RangesInv
<1>2. HistoryCut => \A p \in parts : p.hi # Unbounded /\ p.hi \in Nat /\ p.lo < p.hi
  BY <1>1 DEF HistoryCut, RangeShape, Unbounded
<1>3. ASSUME ~HistoryCut
      PROVE  \E p \in parts : p.hi = Unbounded /\ p.legacy /\ p.lo = 0 /\ p.state = "attached" /\ parts = {p}
  <2>1. PICK p \in parts : p.legacy /\ p.hi = Unbounded
    BY <1>3 DEF HistoryCut
  <2>2. \A q \in parts : q = p
    BY <2>1 DEF RangesInv, RangesApart
  <2> QED BY <1>1, <2>1, <2>2 DEF RangeShape
<1> QED BY <1>2, <1>3

\* The highest range's bound.
LEMMA TopIs ==
    ASSUME RangesInv, HistoryCut
    PROVE  /\ HighestBound \in Nat /\ HighestBound >= 2
           /\ \A q \in parts : q.hi <= HighestBound
           /\ \E p \in parts : Topmost(p) /\ p.hi = HighestBound /\ ~p.legacy
<1>1. PICK p \in parts : Topmost(p)
  BY DEF RangesInv
<1>2. \A q \in parts : q.hi # Unbounded /\ q.hi \in Nat
  BY CutBounds
<1>3. ~p.legacy /\ p.hi >= 2 /\ \A q \in parts : q.hi <= p.hi
  BY <1>1, <1>2 DEF Topmost
<1> DEFINE his == {q.hi : q \in parts}
<1>4. his \in SUBSET Int /\ p.hi \in his /\ \A y \in his : y <= p.hi
  BY <1>2, <1>3
<1>5. Max(his) = p.hi
  <2> HIDE DEF his
  <2> QED BY <1>4, MaxIs
<1>6. HighestBound = p.hi
  BY <1>5 DEF HighestBound
<1> QED BY <1>1, <1>2, <1>3, <1>6
-----------------------------------------------------------------------------
(* Rows *)

\* What is read through the blocks table, and its head.
LEMMA HeadIs ==
    ASSUME RowsInv
    PROVE  /\ IsFiniteSet(present) /\ Visible(1) \subseteq present /\ present \subseteq Nat
           /\ StoredHead \in Nat /\ StoredHead <= HighestBlock
           /\ \A n \in Visible(1) : n <= StoredHead
           /\ StoredHead = 0 \/ StoredHead \in Visible(1)
<1>1. HighestBlock \in Nat /\ 0 \in Int /\ HighestBlock \in Int
  BY LedgerRetentionAssumption
<1>2. IsFiniteSet(0..HighestBlock)
  BY <1>1, FS_Interval
<1>3. present \subseteq 0..HighestBlock
  BY DEF RowsInv
<1>4. IsFiniteSet(present)
  BY <1>2, <1>3, FS_Subset
<1> DEFINE V == Visible(1)
<1>5. V \subseteq present
  BY DEF Visible
<1>6. IsFiniteSet(V)
  BY <1>4, <1>5, FS_Subset
<1> HIDE DEF V
<1> DEFINE W == V \cup {0}
<1>7. IsFiniteSet(W)
  BY <1>6, FS_AddElement
<1>8. W \in SUBSET Nat /\ W # {}
  BY <1>1, <1>3, <1>5
<1>9. Max(W) \in W /\ \A y \in W : y <= Max(W)
  <2> HIDE DEF W
  <2> QED BY <1>7, <1>8, MaxOfFinite
<1>10. StoredHead = Max(W)
  BY DEF StoredHead, V
<1>11. StoredHead \in W /\ \A y \in W : y <= StoredHead
  BY <1>9, <1>10
<1>12. StoredHead \in Nat /\ StoredHead <= HighestBlock
  BY <1>1, <1>3, <1>5, <1>8, <1>11
<1> QED BY <1>1, <1>3, <1>4, <1>5, <1>11, <1>12 DEF V

\* A row is read through the blocks table exactly when the range that holds it is wholly attached to it.
LEMMA VisibleIn ==
    ASSUME RangesInv, NEW n \in Nat, NEW p \in parts, Holds(p, n)
    PROVE  n \in Visible(1) <=> n \in present /\ p.off = 0
<1>1. \A q \in parts : Holds(q, n) => q = p
  BY OneRange
<1>2. p.off \in Nat
  BY PartitionFields DEF RangesInv
<1> QED BY <1>1, <1>2 DEF Visible

\* A trouble that is spent.
LEMMA SpendType ==
    ASSUME left \in Scenario, NEW t \in Trouble, Spend(t)
    PROVE  left' \in Scenario /\ left'.last = left.last
<1>1. /\ left.times \in [Trouble -> Nat] /\ left.times[t] \in Nat /\ left.times[t] > 0
      /\ left' = [left EXCEPT !.times[t] = @ - 1]
  BY DEF Scenario, Spend
<1> QED BY <1>1 DEF Scenario

-----------------------------------------------------------------------------
(* Steps that leave a part of the invariant's variables alone *)

LEMMA RangesFrame ==
    ASSUME RangesInv, UNCHANGED <<parts, pruned>>, ens'.todo = ens.todo \/ ens'.todo = {}
    PROVE  RangesInv'
BY DEF RangesInv, RangesApart, Topmost, GapsBelow, HistoryFrom

LEMMA WipeFrame ==
    ASSUME WipeInv, UNCHANGED <<mark, parts, proc, archives, pruned>>, mark # "none" => present' \subseteq present,
           proc = "uncovered" => ens'.pc = ens.pc
    PROVE  WipeInv'
BY DEF WipeInv

LEMMA PastFrame ==
    ASSUME PastIsBelow, UNCHANGED <<mark, parts, pruned>>
    PROVE  PastIsBelow'
BY DEF PastIsBelow, HistoryFrom

LEMMA CoverFrame ==
    ASSUME CoverInv, UNCHANGED <<mark, parts, pruned, proc>>, proc = "uncovered" => UNCHANGED ens
    PROVE  CoverInv'
BY DEF CoverInv, Gapless, WipeFills, InGap, HistoryFrom, HistoryCut, HighestBound

LEMMA RowsFrame ==
    ASSUME RowsInv, UNCHANGED <<present, peak, missingBlocks, fetched, parts, pruned, mark>>,
           left' \in Scenario
    PROVE  RowsInv'
BY DEF RowsInv

LEMMA ArchivesFrame ==
    ASSUME ArchivesInv, UNCHANGED <<archives, era, mark, parts>>,
           UNCHANGED ret \/ ret'.pc \notin {"detach", "archive", "drop"}
    PROVE  ArchivesInv'
<1>1. CASE UNCHANGED ret
  <2>1. ret' = ret /\ parts' = parts /\ archives' = archives /\ era' = era /\ mark' = mark
    BY <1>1
  <2> QED BY <2>1, Zenon DEF ArchivesInv, PassInv, ArchivedBeforeDrop, Current, RangeAt
<1>2. CASE ret'.pc \notin {"detach", "archive", "drop"}
  <2>1. PassInv' /\ ret'.pc # "drop"
    BY <1>2 DEF PassInv
  <2>2. parts' = parts /\ archives' = archives /\ era' = era /\ mark' = mark
    OBVIOUS
  <2> QED BY <2>1, <2>2, Zenon DEF ArchivesInv, ArchivedBeforeDrop
<1> QED BY <1>1, <1>2

\* A step that moves none of them.
LEMMA AllFrame ==
    ASSUME RetentionInv, UNCHANGED <<present, peak, missingBlocks, fetched, parts, pruned, mark, proc, archives, era, cutAt>>,
           UNCHANGED <<ens, ret, left>>
    PROVE  RetentionInv'
<1>1. left' \in Scenario
  BY DEF RetentionInv, RowsInv
<1>2. RangesInv' /\ WipeInv' /\ PastIsBelow' /\ CoverInv' /\ RowsInv' /\ ArchivesInv'
  BY <1>1, RangesFrame, WipeFrame, PastFrame, CoverFrame, RowsFrame, ArchivesFrame DEF RetentionInv
<1>3. ProcessInv'
  BY DEF RetentionInv, ProcessInv, Up, HistoryCut
<1> QED BY <1>2, <1>3 DEF RetentionInv
LEMMA ProcessFrame ==
    ASSUME ProcessInv, UNCHANGED <<mark, proc, ens, ret, cutAt, parts>>, fetched' # {} => Up
    PROVE  ProcessInv'
BY DEF ProcessInv, Up, HistoryCut

-----------------------------------------------------------------------------
(* The empty database *)

LEMMA RetentionStarts ==
    ASSUME RetentionInit
    PROVE  RetentionInv
<1>1. PICK s \in RetentionScenarios : RetentionInitWith(s)
  BY DEF RetentionInit
<1>2. s \in Scenario /\ Tables \in Nat /\ Tables > 0 /\ HighestBlock \in Nat /\ HighestBlock > 0 /\ Genesis \subseteq {0}
  BY LedgerRetentionAssumption
<1> DEFINE L == [NewRange(0, Unbounded) EXCEPT !.legacy = TRUE]
<1>3. /\ L.lo = 0 /\ L.hi = Unbounded /\ L.legacy = TRUE /\ L.state = "attached" /\ L.off = 0 /\ L.pending = FALSE
      /\ L.gone = 0
  BY DEF NewRange
<1>4. L \in Partition
  <2>1. NewRange(0, Unbounded) \in Partition
    BY NewRangeIs
  <2> QED BY <2>1 DEF Partition
<1>5. /\ present = Genesis /\ missingBlocks = {} /\ fetched = {} /\ peak = 0 /\ cutAt = 0 /\ pruned = 0 /\ archives = {}
      /\ mark = "none" /\ proc = "down" /\ ens = EnsIdle /\ ret = RetIdle(0) /\ era = 0 /\ left = s /\ parts = {L}
  BY <1>1 DEF RetentionInitWith
<1> HIDE DEF L
<1>6. /\ ens.pc = "idle" /\ ens.todo = {} /\ ens \in Filler /\ ret.pc = "idle" /\ ret \in Pass
  BY <1>5 DEF EnsIdle, RetIdle, Filler, Pass
<1>7. RangesInv
  <2>1. parts \subseteq Partition /\ pruned \in Nat /\ HistoryFrom = 0
    BY <1>4, <1>5 DEF HistoryFrom
  <2>2. IsFiniteSet(parts)
    BY <1>5, FS_Singleton
  <2>3. RangeShape(L) /\ Topmost(L) /\ RangesApart
    BY <1>3, <1>5 DEF RangeShape, Topmost, RangesApart, Unbounded
  <2>4. L.lo >= HistoryFrom /\ GapsBelow(ens.todo)
    BY <1>3, <1>6, <2>1 DEF GapsBelow
  <2> QED BY <1>5, <2>1, <2>2, <2>3, <2>4 DEF RangesInv
<1>8. ~HistoryCut
  BY <1>3, <1>5 DEF HistoryCut
<1>9. ProcessInv /\ WipeInv
  BY <1>5, <1>6 DEF ProcessInv, WipeInv
<1>10. PastIsBelow /\ CoverInv
  BY <1>3, <1>5, <1>8 DEF PastIsBelow, CoverInv, WipeFills
<1>11. RowsInv
  BY <1>2, <1>3, <1>5 DEF RowsInv
<1>12. ArchivesInv
  BY <1>3, <1>5, <1>6 DEF ArchivesInv, PassInv, ArchivedBeforeDrop
<1> QED BY <1>7, <1>9, <1>10, <1>11, <1>12 DEF RetentionInv

-----------------------------------------------------------------------------
(* Ingest, catch-up and reverts *)

LEMMA IngestStep ==
    ASSUME RetentionInv, Ingest
    PROVE  RetentionInv'
<1> USE DEF RetentionInv
<1>0. /\ UNCHANGED <<fetched, parts, cutAt, pruned, archives, mark, proc, ens, ret, era>>
      /\ Up
  BY DEF Ingest, rangeVars, ledgerVars, procVars
<1>1. mark = "none"
  BY <1>0 DEF ProcessInv, Up
<1>2. PICK n \in {StoredHead + 1, StoredHead + 2} :
        /\ n <= left.last /\ present' = present \cup {n} /\ peak' = Max({peak, n})
        /\ \/ missingBlocks' = missingBlocks /\ left' = left
           \/ n = StoredHead + 2 /\ Spend("jumps") /\ missingBlocks' \in {missingBlocks, missingBlocks \cup {StoredHead + 1}}
  BY DEF Ingest, StoreRow
<1>3. StoredHead \in Nat /\ HighestBlock \in Nat /\ left.last \in Nat /\ left.last <= HighestBlock
  BY HeadIs, LedgerRetentionAssumption DEF RowsInv, Scenario
<1>4. n \in 1..HighestBlock /\ (n = StoredHead + 2 => StoredHead + 1 \in 1..HighestBlock)
  BY <1>2, <1>3
<1>5. peak' \in Nat /\ peak' >= peak /\ peak' >= n
  BY <1>2, <1>4, MaxOfTwo DEF RowsInv
<1>6. left' \in Scenario
  BY <1>2, SpendType DEF RowsInv, Trouble
<1>7. RowsInv'
  <2>1. present' \subseteq 0..HighestBlock /\ missingBlocks' \subseteq 1..HighestBlock /\ fetched' \subseteq 1..HighestBlock
    <3>1. n \in 0..HighestBlock
      BY <1>3, <1>4
    <3>2. present' \subseteq 0..HighestBlock /\ fetched' \subseteq 1..HighestBlock
      BY <1>0, <1>2, <3>1 DEF RowsInv
    <3>3. missingBlocks' \subseteq missingBlocks \cup {StoredHead + 1} /\ (missingBlocks' # missingBlocks => n = StoredHead + 2)
      BY <1>2
    <3>4. missingBlocks \subseteq 1..HighestBlock
      BY DEF RowsInv
    <3>5. missingBlocks' \subseteq 1..HighestBlock
      BY <1>4, <3>3, <3>4
    <3> QED BY <3>2, <3>5
  <2>2. \A m \in present' \cup missingBlocks' \cup fetched' : m <= peak'
    <3>1. \A m \in present \cup missingBlocks \cup fetched : m \in Nat /\ m <= peak
      BY <1>1, <1>3 DEF RowsInv
    <3>2. peak \in Nat /\ StoredHead + 1 <= n
      BY <1>2, <1>3 DEF RowsInv
    <3>3. present' \cup missingBlocks' \cup fetched' \subseteq present \cup missingBlocks \cup fetched \cup {n, StoredHead + 1}
      BY <1>0, <1>2
    <3>4. \A m \in present \cup missingBlocks \cup fetched \cup {n, StoredHead + 1} : m <= peak'
      BY <1>3, <1>4, <1>5, <3>1, <3>2
    <3> QED BY <3>3, <3>4
  <2>3. \A q \in parts' : q.state # "attached" /\ q.off = 0 => \A m \in q.lo..(q.hi - 1) : m > 0 => m \in present'
    BY <1>0, <1>1, <1>2 DEF RowsInv
  <2>4. pruned' > 0 => /\ pruned' + MaxReorgDepth <= peak'
                       /\ \E m \in 0..peak' : m + MaxReorgDepth <= peak' /\ Day(pruned') < Day(m)
    <3>1. SUFFICES ASSUME pruned > 0
                   PROVE  /\ pruned + MaxReorgDepth <= peak'
                          /\ \E m \in 0..peak' : m + MaxReorgDepth <= peak' /\ Day(pruned) < Day(m)
      BY <1>0
    <3>2. MaxReorgDepth \in Nat /\ pruned \in Nat /\ peak \in Nat
      BY LedgerRetentionAssumption DEF RangesInv, RowsInv
    <3>3. PICK m \in 0..peak : m + MaxReorgDepth <= peak /\ Day(pruned) < Day(m)
      BY <1>1, <3>1 DEF RowsInv
    <3>4. pruned + MaxReorgDepth <= peak
      BY <1>1, <3>1 DEF RowsInv
    <3>5. m \in 0..peak' /\ m + MaxReorgDepth <= peak' /\ pruned + MaxReorgDepth <= peak'
      BY <1>5, <3>2, <3>3, <3>4
    <3> QED BY <3>3, <3>5
  <2> QED BY <1>5, <1>6, <2>1, <2>2, <2>3, <2>4 DEF RowsInv
<1>8. RangesInv' /\ PastIsBelow' /\ CoverInv'
  BY <1>0, RangesFrame, PastFrame, CoverFrame
<1>9. WipeInv' /\ ArchivesInv'
  BY <1>0, <1>1, WipeFrame, ArchivesFrame
<1>10. ProcessInv'
  BY <1>0, ProcessFrame
<1> QED BY <1>7, <1>8, <1>9, <1>10

\* The rescan and the fetches only move the lists of missing blocks.
LEMMA MissingStep ==
    ASSUME RetentionInv, FindMissing \/ FetchMissing
    PROVE  RetentionInv'
<1> USE DEF RetentionInv
<1>0. /\ UNCHANGED <<present, peak, parts, cutAt, pruned, archives, mark, proc, ens, ret, era, left>>
      /\ Up
  BY DEF FindMissing, FetchMissing, rangeVars, ledgerVars, procVars
<1>1. missingBlocks' \subseteq 1..HighestBlock /\ fetched' \subseteq 1..HighestBlock
  <2>1. CASE FetchMissing
    BY <2>1 DEF FetchMissing, RowsInv
  <2>2. CASE FindMissing
    <3>1. Max({HistoryFrom, 1}) \in Nat /\ Max({HistoryFrom, 1}) >= 1
      BY FirstRetained DEF RangesInv
    <3>2. StoredHead \in Nat /\ StoredHead <= HighestBlock /\ HighestBlock \in Nat
      BY HeadIs, LedgerRetentionAssumption
    <3>3. \A n \in Max({HistoryFrom, 1})..StoredHead : n \in 1..HighestBlock
      BY <3>1, <3>2
    <3> QED BY <2>2, <3>3 DEF FindMissing, RowsInv
  <2> QED BY <2>1, <2>2
<1>2. RowsInv'
  <2>1. \A n \in missingBlocks' \cup fetched' : n <= peak
    <3>1. CASE FetchMissing
      BY <3>1 DEF FetchMissing, RowsInv
    <3>2. CASE FindMissing
      <4>1. StoredHead \in Nat /\ Max({HistoryFrom, 1}) \in Nat /\ peak \in Nat /\ mark = "none"
        BY <1>0, HeadIs, FirstRetained DEF RangesInv, RowsInv, ProcessInv, Up
      <4>2. StoredHead <= peak
        BY <4>1, HeadIs DEF RowsInv
      <4>3. \A n \in Max({HistoryFrom, 1})..StoredHead : n <= peak
        BY <4>1, <4>2
      <4>4. \A n \in missingBlocks' \cup fetched' :
                n \in missingBlocks \cup fetched \/ n \in Max({HistoryFrom, 1})..StoredHead
        BY <3>2 DEF FindMissing
      <4> QED BY <4>3, <4>4 DEF RowsInv
    <3> QED BY <3>1, <3>2
  <2> QED BY <1>0, <1>1, <2>1 DEF RowsInv
<1>3. RangesInv' /\ PastIsBelow' /\ CoverInv' /\ WipeInv' /\ ArchivesInv'
  BY <1>0, RangesFrame, PastFrame, CoverFrame, WipeFrame, ArchivesFrame
<1>4. ProcessInv'
  BY <1>0, ProcessFrame
<1> QED BY <1>2, <1>3, <1>4

\* A late block is at or below the head, so at or below the peak.
LEMMA WriteMissingStep ==
    ASSUME RetentionInv, WriteMissing
    PROVE  RetentionInv'
<1> USE DEF RetentionInv
<1>0. /\ UNCHANGED <<peak, parts, cutAt, pruned, archives, mark, proc, ens, ret, era, left>>
      /\ Up
  BY DEF WriteMissing, rangeVars, ledgerVars, procVars
<1>1. mark = "none"
  BY <1>0 DEF ProcessInv, Up
<1>2. PICK n \in fetched :
        /\ fetched' \in {fetched, fetched \ {n}} /\ missingBlocks' \subseteq missingBlocks
        /\ present' \in {present, present \cup {n}}
  BY DEF WriteMissing, StoreRow
<1>3. n \in 1..HighestBlock /\ n <= peak /\ HighestBlock \in Nat
  BY LedgerRetentionAssumption DEF RowsInv
<1>4. RowsInv'
  <2>1. n \in 0..HighestBlock
    BY <1>3
  <2>2. present' \subseteq 0..HighestBlock /\ fetched' \subseteq fetched /\ present \subseteq present'
    BY <1>2, <2>1 DEF RowsInv
  <2>3. \A m \in present' : m <= peak
    BY <1>1, <1>2, <1>3 DEF RowsInv
  <2>4. \A q \in parts : q.state # "attached" /\ q.off = 0 => \A m \in q.lo..(q.hi - 1) : m > 0 => m \in present'
    BY <1>1, <2>2 DEF RowsInv
  <2> QED BY <1>0, <1>2, <2>2, <2>3, <2>4 DEF RowsInv
<1>5. RangesInv' /\ PastIsBelow' /\ CoverInv' /\ ArchivesInv'
  BY <1>0, RangesFrame, PastFrame, CoverFrame, ArchivesFrame
<1>6. WipeInv'
  BY <1>0, <1>1, WipeFrame
<1>7. ProcessInv'
  BY <1>0, ProcessFrame
<1> QED BY <1>4, <1>5, <1>6, <1>7

\* A revert takes a block above the watermark.
LEMMA RevertStep ==
    ASSUME RetentionInv, RevertStored
    PROVE  RetentionInv'
<1> USE DEF RetentionInv
<1>0. /\ UNCHANGED <<peak, missingBlocks, fetched, parts, cutAt, pruned, archives, mark, proc, ens, ret, era>>
      /\ Up /\ StoredHead > peak - MaxReorgDepth /\ present' = present \ {StoredHead} /\ Spend("reverts")
  BY DEF RevertStored, rangeVars, ledgerVars, procVars
<1>1. mark = "none"
  BY <1>0 DEF ProcessInv, Up
<1>2. left' \in Scenario
  BY <1>0, SpendType DEF RowsInv, Trouble
<1>3. pruned \in Nat /\ peak \in Nat /\ MaxReorgDepth \in Nat /\ StoredHead \in Nat
  BY HeadIs, LedgerRetentionAssumption DEF RangesInv, RowsInv
<1>4. pruned > 0 => pruned < StoredHead
  BY <1>0, <1>1, <1>3 DEF RowsInv
<1>5. ASSUME NEW q \in parts, q.state # "attached", q.off = 0, NEW m \in q.lo..(q.hi - 1), m > 0
      PROVE  m \in present'
  <2>1. q.hi <= pruned + 1
    BY <1>1, <1>3, <1>5, FirstRetained DEF PastIsBelow
  <2>2. q.lo \in Nat /\ q.hi \in Int
    BY PartitionFields DEF RangesInv
  <2>3. m <= pruned
    BY <1>3, <1>5, <2>1, <2>2
  <2>4. m # StoredHead
    BY <1>3, <1>4, <1>5, <2>2, <2>3
  <2>5. m \in present
    BY <1>1, <1>5 DEF RowsInv
  <2> QED BY <1>0, <2>4, <2>5
<1>6. RowsInv'
  <2>1. present' \subseteq present
    BY <1>0
  <2> QED BY <1>0, <1>1, <1>2, <1>5, <2>1 DEF RowsInv
<1>7. RangesInv' /\ PastIsBelow' /\ CoverInv' /\ ArchivesInv'
  BY <1>0, RangesFrame, PastFrame, CoverFrame, ArchivesFrame
<1>8. WipeInv'
  BY <1>0, <1>1, WipeFrame
<1>9. ProcessInv'
  BY <1>0, ProcessFrame
<1> QED BY <1>6, <1>7, <1>8, <1>9
-----------------------------------------------------------------------------
(* Gaps *)

\* A number in terms of its quotient and remainder, and multiples in order.
LEMMA Quotient ==
    ASSUME NEW a \in Nat, NEW d \in Nat \ {0}
    PROVE  \E q \in Nat : \E r \in 0..(d - 1) : a = q * d + r /\ a % d = r
<1>1. a \div d \in Nat
  OBVIOUS
<1>2. a % d \in 0..(d - 1)
  OBVIOUS
<1>3. a = d * (a \div d) + (a % d)
  OBVIOUS
<1>4. ASSUME NEW q \in Nat PROVE d * q = q * d
  OBVIOUS
<1> QED BY <1>1, <1>2, <1>3, <1>4

LEMMA Multiples ==
    ASSUME NEW j \in Nat, NEW k \in Nat, NEW d \in Nat \ {0}
    PROVE  /\ j * d \in Nat /\ k * d \in Nat /\ (k * d) % d = 0
           /\ j * d < k * d => j < k
           /\ j < k => j * d + d <= k * d
<1>1. j * d \in Nat /\ k * d \in Nat
  OBVIOUS
<1>2. (k * d) % d = 0
  OBVIOUS
<1>3. j * d < k * d => j < k
  OBVIOUS
<1>4. j < k => j * d + d <= k * d
  OBVIOUS
<1> QED BY <1>1, <1>2, <1>3, <1>4

\* The first chunk of a gap leaves a multiple of the size.
LEMMA FirstChunkIs ==
    ASSUME NEW length \in Nat \ {0}, NEW size \in Nat \ {0}
    PROVE  LET first == FirstChunk(length, size)
           IN first \in 1..size /\ \E k \in Nat : length = first + k * size
<1>1. PICK q \in Nat, r \in 0..(size - 1) : length = q * size + r /\ length % size = r
  BY Quotient
<1>2. CASE r = 0
  <2>1. FirstChunk(length, size) = size
    BY <1>1, <1>2 DEF FirstChunk
  <2>2. q # 0
    BY <1>1, <1>2
  <2>3. q - 1 \in Nat /\ q * size = size + (q - 1) * size
    BY <2>2
  <2>4. length = size + (q - 1) * size
    <3>1. q * size \in Nat
      OBVIOUS
    <3> QED BY <1>1, <1>2, <2>3, <3>1
  <2> QED BY <2>1, <2>3, <2>4
<1>3. CASE r # 0
  <2>1. FirstChunk(length, size) = r
    BY <1>1, <1>3 DEF FirstChunk
  <2>2. length = r + q * size
    <3>1. q * size \in Nat
      OBVIOUS
    <3> QED BY <1>1, <3>1
  <2>3. r \in 1..size
    BY <1>3
  <2> QED BY <2>1, <2>2, <2>3
<1> QED BY <1>2, <1>3

\* Chunks cut a gap up.
LEMMA ChunksCut ==
    ASSUME NEW a \in Nat, NEW b \in Nat, a < b, NEW size \in Nat \ {0}
    PROVE  /\ \A g \in Chunks(a, b, size) : g \in Nat \X Nat /\ a <= g[1] /\ g[1] < g[2] /\ g[2] <= b
           /\ \A n \in a..(b - 1) : \E g \in Chunks(a, b, size) : g[1] <= n /\ n < g[2]
           /\ \A g, h \in Chunks(a, b, size) : g # h => g[2] <= h[1] \/ h[2] <= g[1]
<1> DEFINE first == FirstChunk(b - a, size)
           At(j) == a + first + j * size
<1>1. b - a \in Nat \ {0}
  OBVIOUS
<1>2. first \in 1..size /\ \E k \in Nat : b - a = first + k * size
  BY <1>1, FirstChunkIs
<1>3. PICK k \in Nat : b - a = first + k * size
  BY <1>2
<1>4. Chunks(a, b, size) = {<<a, a + first>>} \cup {<<x, x + size>> : x \in {x \in (a + first)..(b - 1) : (x - a - first) % size = 0}}
  BY DEF Chunks
<1> HIDE DEF first
<1>5. first \in Nat /\ first >= 1 /\ first <= size /\ a + first \in Nat /\ k * size \in Nat /\ b = a + first + k * size
  <2>1. k * size \in Nat
    OBVIOUS
  <2> QED BY <1>2, <1>3, <2>1
<1>6. \A j \in Nat : At(j) \in Nat /\ At(j) >= a + first /\ At(j) - a - first = j * size
  <2> SUFFICES ASSUME NEW j \in Nat PROVE At(j) \in Nat /\ At(j) >= a + first /\ At(j) - a - first = j * size
    OBVIOUS
  <2>1. j * size \in Nat
    OBVIOUS
  <2> QED BY <1>5, <2>1
<1>7. \A j \in 0..(k - 1) : At(j) + size <= b
  <2> SUFFICES ASSUME NEW j \in 0..(k - 1) PROVE At(j) + size <= b
    OBVIOUS
  <2>1. j \in Nat /\ j < k
    OBVIOUS
  <2>2. j * size + size <= k * size /\ j * size \in Nat
    BY <2>1, Multiples
  <2> QED BY <1>5, <2>2
<1>8. ASSUME NEW x \in (a + first)..(b - 1), (x - a - first) % size = 0
      PROVE  \E j \in 0..(k - 1) : x = At(j)
  <2>1. x - a - first \in Nat
    BY <1>5, <1>8
  <2>2. PICK j \in Nat, r \in 0..(size - 1) : x - a - first = j * size + r /\ (x - a - first) % size = r
    BY <2>1, Quotient
  <2>3. j * size \in Nat
    OBVIOUS
  <2>4. x - a - first = j * size
    BY <1>8, <2>2, <2>3
  <2>5. j * size < k * size
    BY <1>5, <1>8, <2>3, <2>4
  <2>6. j < k
    BY <2>5, Multiples
  <2>7. x = At(j)
    BY <1>5, <1>8, <2>3, <2>4
  <2> QED BY <2>6, <2>7
<1>9. ASSUME NEW j \in 0..(k - 1)
      PROVE  <<At(j), At(j) + size>> \in Chunks(a, b, size)
  <2>1. At(j) \in (a + first)..(b - 1)
    BY <1>5, <1>6, <1>7
  <2>2. (j * size) % size = 0
    BY Multiples
  <2>3. (At(j) - a - first) % size = 0
    BY <1>6, <2>2
  <2> HIDE DEF At
  <2> QED BY <1>4, <2>1, <2>3
<1>10. <<a, a + first>> \in Chunks(a, b, size)
  BY <1>4
<1>11. ASSUME NEW g \in Chunks(a, b, size)
       PROVE  g = <<a, a + first>> \/ \E j \in 0..(k - 1) : g = <<At(j), At(j) + size>>
  <2> HIDE DEF At
  <2> QED BY <1>4, <1>8
<1>12. ASSUME NEW g \in Chunks(a, b, size)
       PROVE  g \in Nat \X Nat /\ a <= g[1] /\ g[1] < g[2] /\ g[2] <= b
  <2>1. CASE g = <<a, a + first>>
    BY <1>5, <2>1
  <2>2. ASSUME NEW j \in 0..(k - 1), g = <<At(j), At(j) + size>>
        PROVE  g \in Nat \X Nat /\ a <= g[1] /\ g[1] < g[2] /\ g[2] <= b
    <3>1. At(j) \in Nat /\ At(j) >= a + first /\ At(j) + size <= b
      BY <1>6, <1>7
    <3> HIDE DEF At
    <3> QED BY <1>5, <2>2, <3>1
  <2> QED BY <1>11, <2>1, <2>2
<1>13. ASSUME NEW n \in a..(b - 1)
       PROVE  \E g \in Chunks(a, b, size) : g[1] <= n /\ n < g[2]
  <2>1. CASE n < a + first
    BY <1>10, <2>1
  <2>2. CASE ~(n < a + first)
    <3>1. n - a - first \in Nat
      BY <1>5, <2>2
    <3>2. PICK j \in Nat, r \in 0..(size - 1) : n - a - first = j * size + r
      BY <3>1, Quotient
    <3>3. j * size \in Nat
      OBVIOUS
    <3>4. j * size < k * size
      BY <1>5, <3>2, <3>3
    <3>5. j \in 0..(k - 1)
      BY <3>4, Multiples
    <3>6. At(j) <= n /\ n < At(j) + size
      BY <1>5, <3>2, <3>3
    <3> DEFINE c == <<At(j), At(j) + size>>
    <3>7. c \in Chunks(a, b, size)
      BY <1>9, <3>5
    <3>8. c[1] <= n /\ n < c[2]
      BY <3>6
    <3> HIDE DEF c
    <3> QED BY <3>7, <3>8
  <2> QED BY <2>1, <2>2
<1>14. ASSUME NEW i \in Nat, NEW j \in Nat, i < j
       PROVE  At(i) + size <= At(j)
  <2>1. i * size + size <= j * size /\ i * size \in Nat /\ j * size \in Nat
    BY <1>14, Multiples
  <2> QED BY <1>5, <2>1
<1>15. ASSUME NEW g \in Chunks(a, b, size), NEW h \in Chunks(a, b, size), g # h
       PROVE  g[2] <= h[1] \/ h[2] <= g[1]
  <2>1. CASE g = <<a, a + first>> /\ h = <<a, a + first>>
    BY <1>15, <2>1
  <2>2. ASSUME g = <<a, a + first>>, NEW j \in 0..(k - 1), h = <<At(j), At(j) + size>>
        PROVE  g[2] <= h[1]
    <3>1. At(j) >= a + first
      BY <1>6
    <3> HIDE DEF At
    <3> QED BY <2>2, <3>1
  <2>3. ASSUME h = <<a, a + first>>, NEW j \in 0..(k - 1), g = <<At(j), At(j) + size>>
        PROVE  h[2] <= g[1]
    <3>1. At(j) >= a + first
      BY <1>6
    <3> HIDE DEF At
    <3> QED BY <2>3, <3>1
  <2>4. ASSUME NEW i \in 0..(k - 1), g = <<At(i), At(i) + size>>, NEW j \in 0..(k - 1), h = <<At(j), At(j) + size>>
        PROVE  g[2] <= h[1] \/ h[2] <= g[1]
    <3>1. i # j
      BY <1>15, <2>4
    <3>2. At(i) + size <= At(j) \/ At(j) + size <= At(i)
      <4>1. i \in Nat /\ j \in Nat /\ (i < j \/ j < i)
        BY <3>1
      <4> HIDE DEF At
      <4> QED BY <1>14, <4>1
    <3> HIDE DEF At
    <3> QED BY <2>4, <3>2
  <2> QED BY <1>11, <2>1, <2>2, <2>3, <2>4
<1> HIDE DEF At
<1> QED BY <1>12, <1>13, <1>15
\* Finitely many ranges have finitely many bounds.
LEMMA BoundsFinite ==
    ASSUME NEW S, IsFiniteSet(S)
    PROVE  IsFiniteSet({p.lo : p \in S}) /\ IsFiniteSet({p.hi : p \in S})
<1>1. [p \in S |-> p.lo] \in Surjection(S, {p.lo : p \in S})
  BY DEF Surjection
<1>2. [p \in S |-> p.hi] \in Surjection(S, {p.hi : p \in S})
  BY DEF Surjection
<1>3. IsFiniteSet({p.lo : p \in S})
  BY <1>1, FS_Surjection
<1>4. IsFiniteSet({p.hi : p \in S})
  BY <1>2, FS_Surjection
<1> QED BY <1>3, <1>4

\* How far the ranges below one reach.
LEMMA CoveredIs ==
    ASSUME RangesInv, HistoryCut, NEW p \in parts
    PROVE  /\ CoveredBelow(p) \in Nat /\ CoveredBelow(p) >= HistoryFrom
           /\ \A q \in parts : q.lo < p.lo => q.hi <= CoveredBelow(p)
           /\ CoveredBelow(p) = HistoryFrom \/ \E q \in parts : q.lo < p.lo /\ q.hi = CoveredBelow(p)
<1> DEFINE below == {q \in parts : q.lo < p.lo}
           his == {q.hi : q \in below}
           W == his \cup {HistoryFrom}
<1>1. HistoryFrom \in Nat
  BY HistoryFromNat DEF RangesInv
<1>2. \A q \in parts : q.hi \in Nat
  BY CutBounds
<1>3. IsFiniteSet(below)
  BY FS_Subset DEF RangesInv
<1>4. IsFiniteSet(his)
  <2> HIDE DEF below
  <2> QED BY <1>3, BoundsFinite
<1>5. IsFiniteSet(W)
  <2> HIDE DEF his
  <2> QED BY <1>4, FS_AddElement
<1>6. W \in SUBSET Nat /\ W # {}
  BY <1>1, <1>2
<1>7. Max(W) \in W /\ \A y \in W : y <= Max(W)
  <2> HIDE DEF W
  <2> QED BY <1>5, <1>6, MaxOfFinite
<1>8. CoveredBelow(p) = Max(W)
  BY DEF CoveredBelow
<1> QED BY <1>6, <1>7, <1>8

\* A cut history has a range of the current size.
LEMMA NewestSizeIs ==
    ASSUME RangesInv, HistoryCut
    PROVE  NewestSize \in Nat \ {0}
<1> DEFINE sized == {p \in parts : ~p.legacy}
           los == {p.lo : p \in sized}
<1>1. sized # {}
  BY TopIs
<1>2. IsFiniteSet(sized)
  BY FS_Subset DEF RangesInv
<1>3. \A p \in parts : p.lo \in Nat /\ p.hi \in Nat /\ p.lo < p.hi
  BY CutBounds, PartitionFields DEF RangesInv
<1>4. los \in SUBSET Nat /\ los # {}
  BY <1>1, <1>3
<1>5. IsFiniteSet(los)
  <2> HIDE DEF sized
  <2> QED BY <1>2, BoundsFinite
<1>6. PICK m \in los : \A l \in los : l <= m
  <2> HIDE DEF los
  <2> QED BY <1>4, <1>5, GreatestOfFinite
<1>7. \E p \in sized : \A q \in sized : q.lo <= p.lo
  BY <1>6
<1> DEFINE newest == CHOOSE p \in sized : \A q \in sized : q.lo <= p.lo
<1>8. newest \in sized
  BY <1>7
<1>9. NewestSize = newest.hi - newest.lo
  BY <1>1 DEF NewestSize
<1> HIDE DEF newest
<1> QED BY <1>3, <1>8, <1>9

\* A gap is cut up from where the ranges below it end.
LEMMA GapOf ==
    ASSUME RangesInv, NEW g \in GapRanges
    PROVE  /\ HistoryCut
           /\ \E p \in parts : /\ p.lo > CoveredBelow(p) /\ g \in Chunks(CoveredBelow(p), p.lo, NewestSize)
                               /\ g \in Nat \X Nat /\ CoveredBelow(p) <= g[1] /\ g[1] < g[2] /\ g[2] <= p.lo
<1>1. HistoryCut
  BY DEF GapRanges
<1>2. PICK p \in parts : p.lo > CoveredBelow(p) /\ g \in Chunks(CoveredBelow(p), p.lo, NewestSize)
  BY <1>1 DEF GapRanges
<1>3. CoveredBelow(p) \in Nat /\ p.lo \in Nat /\ NewestSize \in Nat \ {0}
  BY <1>1, CoveredIs, NewestSizeIs, PartitionFields DEF RangesInv
<1>4. g \in Nat \X Nat /\ CoveredBelow(p) <= g[1] /\ g[1] < g[2] /\ g[2] <= p.lo
  BY <1>2, <1>3, ChunksCut
<1> QED BY <1>1, <1>2, <1>4

LEMMA GapsType ==
    ASSUME RangesInv
    PROVE  GapRanges \in SUBSET (Nat \X Nat) /\ GapsBelow(GapRanges)
<1>1. ASSUME NEW g \in GapRanges
      PROVE  g \in Nat \X Nat /\ g[1] < g[2] /\ \E p \in parts : g[2] <= p.hi
  <2>1. PICK p \in parts : g \in Nat \X Nat /\ g[1] < g[2] /\ g[2] <= p.lo
    BY GapOf
  <2>2. p.lo < p.hi /\ p.lo \in Nat /\ p.hi \in Nat
    BY GapOf, CutBounds, PartitionFields DEF RangesInv
  <2>3. g[2] <= p.hi
    BY <2>1, <2>2
  <2> QED BY <2>1, <2>3
<1> QED BY <1>1 DEF GapsBelow

\* The gaps are apart from each other and from the ranges, and leave nothing out.
LEMMA GapsFill ==
    ASSUME RangesInv
    PROVE  /\ \A g, h \in GapRanges : g # h => g[2] <= h[1] \/ h[2] <= g[1]
           /\ \A g \in GapRanges : \A p \in parts : p.hi <= g[1] \/ g[2] <= p.lo
           /\ HistoryCut => \A n \in HistoryFrom..(HighestBound - 1) :
                                \/ \E g \in GapRanges : g[1] <= n /\ n < g[2]
                                \/ \E p \in parts : Holds(p, n)
<1>0. \A p \in parts : p.lo \in Nat /\ p.hi \in Int
  BY PartitionFields DEF RangesInv
<1>1. ASSUME NEW g \in GapRanges, NEW h \in GapRanges, g # h
      PROVE  g[2] <= h[1] \/ h[2] <= g[1]
  <2>0. HistoryCut
    BY GapOf
  <2>1. PICK p \in parts : /\ p.lo > CoveredBelow(p) /\ g \in Chunks(CoveredBelow(p), p.lo, NewestSize)
                           /\ g \in Nat \X Nat /\ CoveredBelow(p) <= g[1] /\ g[1] < g[2] /\ g[2] <= p.lo
    BY GapOf
  <2>2. PICK q \in parts : /\ q.lo > CoveredBelow(q) /\ h \in Chunks(CoveredBelow(q), q.lo, NewestSize)
                           /\ h \in Nat \X Nat /\ CoveredBelow(q) <= h[1] /\ h[1] < h[2] /\ h[2] <= q.lo
    BY GapOf
  <2>3. /\ CoveredBelow(p) \in Nat /\ CoveredBelow(q) \in Nat /\ NewestSize \in Nat \ {0}
        /\ p.lo \in Nat /\ q.lo \in Nat /\ p.hi \in Nat /\ q.hi \in Nat /\ p.lo < p.hi /\ q.lo < q.hi
    BY <2>0, <1>0, CoveredIs, NewestSizeIs, CutBounds
  <2>4. CASE p.lo = q.lo
    <3>1. p = q
      BY <2>4, OneRange
    <3> QED BY <1>1, <2>1, <2>2, <2>3, <3>1, ChunksCut
  <2>5. CASE p.lo < q.lo
    <3>1. p.hi <= CoveredBelow(q)
      BY <2>0, <2>5, CoveredIs
    <3> QED BY <2>1, <2>2, <2>3, <3>1
  <2>6. CASE q.lo < p.lo
    <3>1. q.hi <= CoveredBelow(p)
      BY <2>0, <2>6, CoveredIs
    <3> QED BY <2>1, <2>2, <2>3, <3>1
  <2> QED BY <2>3, <2>4, <2>5, <2>6
<1>2. ASSUME NEW g \in GapRanges, NEW q \in parts
      PROVE  q.hi <= g[1] \/ g[2] <= q.lo
  <2>0. HistoryCut
    BY GapOf
  <2>1. PICK p \in parts : /\ g \in Nat \X Nat /\ CoveredBelow(p) <= g[1] /\ g[1] < g[2] /\ g[2] <= p.lo
    BY GapOf
  <2>2. CoveredBelow(p) \in Nat /\ (q.lo < p.lo => q.hi <= CoveredBelow(p))
    BY <2>0, CoveredIs
  <2> QED BY <1>0, <2>1, <2>2
<1>3. ASSUME HistoryCut, NEW n \in HistoryFrom..(HighestBound - 1), \A p \in parts : ~Holds(p, n)
      PROVE  \E g \in GapRanges : g[1] <= n /\ n < g[2]
  <2>1. HistoryFrom \in Nat /\ n \in Nat /\ n >= HistoryFrom
    BY HistoryFromNat DEF RangesInv
  <2> DEFINE above == {p \in parts : p.lo > n}
             los == {p.lo : p \in above}
  <2>2. PICK t \in parts : t.hi = HighestBound /\ HighestBound \in Nat
    BY <1>3, TopIs
  <2>3. \A p \in parts : p.hi \in Nat /\ p.lo \in Nat /\ p.hi # Unbounded
    BY <1>0, <1>3, CutBounds
  <2>4. \A p \in parts : p.lo > n \/ p.hi <= n
    BY <1>3, <2>1, <2>3 DEF Holds
  <2>5. t \in above
    BY <2>1, <2>2, <2>3, <2>4
  <2>6. los \in SUBSET Nat /\ los # {}
    BY <2>3, <2>5
  <2>7. PICK l \in los : \A m \in los : l <= m
    <3> HIDE DEF los
    <3> QED BY <2>6, LeastNatural
  <2>8. PICK p \in above : \A q \in above : p.lo <= q.lo
    BY <2>7
  <2>9. p \in parts /\ p.lo > n
    BY <2>8
  <2>10. CoveredBelow(p) \in Nat /\ CoveredBelow(p) <= n
    <3>1. CoveredBelow(p) \in Nat
      BY <1>3, <2>9, CoveredIs
    <3>2. ASSUME NEW q \in parts, q.lo < p.lo PROVE q.hi <= n
      <4>1. ~(q.lo > n)
        BY <2>3, <2>8, <2>9, <3>2
      <4> QED BY <2>4, <4>1
    <3> QED BY <1>3, <2>1, <2>9, <3>1, <3>2, CoveredIs
  <2>11. NewestSize \in Nat \ {0} /\ p.lo \in Nat /\ CoveredBelow(p) < p.lo
    BY <1>3, <2>1, <2>3, <2>9, <2>10, NewestSizeIs
  <2>12. n \in CoveredBelow(p)..(p.lo - 1)
    BY <2>1, <2>9, <2>10, <2>11
  <2>13. PICK g \in Chunks(CoveredBelow(p), p.lo, NewestSize) : g[1] <= n /\ n < g[2]
    BY <2>10, <2>11, <2>12, ChunksCut
  <2>14. g \in GapRanges
    BY <1>3, <2>9, <2>11, <2>13 DEF GapRanges
  <2> QED BY <2>13, <2>14
<1> QED BY <1>1, <1>2, <1>3
-----------------------------------------------------------------------------
(* Retention's pass *)

\* A step that moves only the pass, the checks of a cut and the troubles.
LEMMA RetFrame ==
    ASSUME RetentionInv, UNCHANGED <<present, peak, missingBlocks, fetched, parts, pruned, mark, proc, archives, era, ens>>,
           left' \in Scenario, ret' \in Pass, cutAt' \in Nat,
           ret'.pc \notin {"detach", "archive", "drop"},
           ret'.pc # "idle" => Up,
           ret'.pc \in {"undo", "held", "cut", "constrain", "validate", "cutfinish"} => ~HistoryCut,
           ret'.pc \in {"constrain", "validate", "cutfinish"} => cutAt' > 0
    PROVE  RetentionInv'
<1>1. RangesInv' /\ WipeInv' /\ PastIsBelow' /\ CoverInv' /\ RowsInv'
  BY RangesFrame, WipeFrame, PastFrame, CoverFrame, RowsFrame DEF RetentionInv
<1>2. ArchivesInv'
  BY ArchivesFrame DEF RetentionInv
<1>3. ProcessInv'
  BY DEF RetentionInv, ProcessInv, Up, HistoryCut
<1> QED BY <1>1, <1>2, <1>3 DEF RetentionInv

\* The fields of a pass after a step.
LEMMA PassType ==
    ASSUME ret \in Pass
    PROVE  /\ ret.margin \in Nat /\ ret.todo \in SUBSET Nat /\ ret.start \in Nat /\ ret.tables \in Nat
           /\ RetIdle(ret.margin) \in Pass /\ RetIdle(ret.margin).pc = "idle"
           /\ Abandon \in Pass /\ Abandon.pc = "undo"
<1>1. ret.margin \in Nat /\ ret.todo \in SUBSET Nat /\ ret.start \in Nat /\ ret.tables \in Nat
  BY DEF Pass
<1>2. RetIdle(ret.margin) \in Pass /\ RetIdle(ret.margin).pc = "idle"
  BY <1>1 DEF Pass, RetIdle
<1>3. Abandon \in Pass /\ Abandon.pc = "undo"
  BY DEF Pass, Abandon
<1> QED BY <1>1, <1>2, <1>3

PassPcs == {"idle", "undo", "held", "cut", "constrain", "validate", "cutfinish", "ensure", "ensuring", "detach", "archive",
            "drop", "prune", "advance"}

LEMMA GotoIs ==
    ASSUME ret \in Pass, NEW pc \in PassPcs, Goto(pc)
    PROVE  ret' \in Pass /\ ret'.pc = pc /\ ret'.todo = ret.todo
BY DEF Pass, Goto, PassPcs

LEMMA WidenedType ==
    ASSUME RowsInv, ret \in Pass
    PROVE  Widened \in Pass /\ Widened.pc = "undo"
<1> DEFINE m == Max({2 * ret.margin, 2 * (StoredHead - ret.start)})
<1>1. StoredHead \in Nat /\ ret.margin \in Nat /\ ret.start \in Nat
  BY HeadIs, PassType
<1>2. 2 * ret.margin \in Int /\ 2 * ret.margin >= 0 /\ 2 * (StoredHead - ret.start) \in Int
  BY <1>1
<1>3. m \in Nat
  BY <1>2, MaxOfTwo
<1>4. Abandon \in Pass /\ Abandon.pc = "undo" /\ Abandon.margin = ret.margin
  BY PassType DEF Abandon, Pass
<1>5. Widened = [Abandon EXCEPT !.margin = m]
  BY <1>4 DEF Widened
<1> HIDE DEF m
<1> QED BY <1>3, <1>4, <1>5 DEF Pass

\* The steps of the cut before it is finished, and the pass's first.
LEMMA CutStep ==
    ASSUME RetentionInv, RetentionPass \/ DropCutChecks \/ ReleaseAgain \/ CutStart \/ CutConstrain \/ CutValidate
    PROVE  RetentionInv'
<1> USE DEF RetentionInv
<1>0. /\ UNCHANGED <<present, peak, missingBlocks, fetched, parts, pruned, mark, proc, archives, era, ens>>
      /\ ret \in Pass /\ cutAt \in Nat /\ left \in Scenario
  BY DEF RetentionPass, DropCutChecks, ReleaseAgain, CutStart, CutConstrain, CutValidate, chainVars, rangeVars, ledgerVars,
         ProcessInv, RowsInv
<1>1. CASE RetentionPass
  <2>1. ret' \in Pass /\ ret'.pc = "undo" /\ UNCHANGED <<cutAt, left>> /\ Up /\ ~HistoryCut
    BY <1>0, <1>1, PassType DEF RetentionPass, rangeVars, Pass
  <2> QED BY <1>0, <2>1, RetFrame
<1>2. CASE DropCutChecks
  <2>1. ret.pc = "undo" /\ Up /\ ~HistoryCut /\ UNCHANGED cutAt
    BY <1>2 DEF DropCutChecks, ProcessInv
  <2>2. left' \in Scenario
    BY <1>0, <1>2, SpendType DEF DropCutChecks, Trouble
  <2>3. ret' \in Pass /\ ret'.pc \in {"idle", "cut", "undo", "held"}
    <3>1. ret.next \in {"idle", "cut"}
      BY <1>0 DEF Pass
    <3>2. CASE Goto(ret.next)
      BY <1>0, <3>1, <3>2, GotoIs DEF PassPcs
    <3>3. CASE UNCHANGED ret
      BY <1>0, <2>1, <3>3
    <3>4. CASE Goto("held")
      BY <1>0, <3>4, GotoIs DEF PassPcs
    <3> QED BY <1>2, <3>2, <3>3, <3>4 DEF DropCutChecks
  <2> QED BY <1>0, <2>1, <2>2, <2>3, RetFrame
<1>3. CASE ReleaseAgain
  <2>1. ret.pc = "held" /\ Up /\ ~HistoryCut /\ UNCHANGED <<cutAt, left>>
    BY <1>3 DEF ReleaseAgain, ProcessInv, rangeVars
  <2>2. ret' \in Pass /\ ret'.pc = "undo"
    BY <1>0, <1>3, GotoIs DEF ReleaseAgain, PassPcs
  <2> QED BY <1>0, <2>1, <2>2, RetFrame
<1>4. CASE CutStart
  <2>1. ret.pc = "cut" /\ Up /\ ~HistoryCut /\ UNCHANGED left
    BY <1>4 DEF CutStart, ProcessInv
  <2>2. StoredHead \in Nat /\ ret.margin \in Nat /\ PartitionBlocks \in Nat /\ PartitionBlocks > 0 /\ NodeAhead \in Nat
    BY <1>0, HeadIs, PassType, LedgerRetentionAssumption
  <2>3. PICK base \in StoredHead..(StoredHead + NodeAhead) : cutAt' = base + 2 * PartitionBlocks + ret.margin
    BY <1>4 DEF CutStart
  <2>4. cutAt' \in Nat /\ cutAt' > 0
    BY <2>2, <2>3
  <2>5. ret' \in Pass /\ ret'.pc = "constrain"
    BY <1>0, <1>4, <2>2 DEF CutStart, Pass
  <2> QED BY <1>0, <2>1, <2>4, <2>5, RetFrame
<1>5. CASE CutConstrain
  <2>1. ret.pc = "constrain" /\ Up /\ ~HistoryCut /\ UNCHANGED cutAt /\ cutAt > 0
    BY <1>5 DEF CutConstrain, ProcessInv
  <2>2. left' \in Scenario
    BY <1>0, <1>5, SpendType DEF CutConstrain, Trouble
  <2>3. ret' \in Pass /\ ret'.pc \in {"validate", "undo"}
    <3>1. CASE ret' = [ret EXCEPT !.pc = "validate", !.tables = 0]
      BY <1>0, <3>1 DEF Pass
    <3>2. CASE ret' = Abandon
      BY <1>0, <3>2, PassType
    <3> QED BY <1>5, <3>1, <3>2 DEF CutConstrain
  <2> QED BY <1>0, <2>1, <2>2, <2>3, RetFrame
<1>6. CASE CutValidate
  <2>1. ret.pc = "validate" /\ Up /\ ~HistoryCut /\ UNCHANGED <<cutAt, left>> /\ cutAt > 0
    BY <1>6 DEF CutValidate, ProcessInv, rangeVars
  <2>2. ret' \in Pass /\ ret'.pc \in {"validate", "undo", "cutfinish"}
    <3>1. CASE ret' = Abandon
      BY <1>0, <3>1, PassType
    <3>2. CASE ret' = Widened
      BY <1>0, <3>2, WidenedType
    <3>3. CASE ret' = [ret EXCEPT !.tables = @ + 1]
      <4>1. ret.tables + 1 \in Nat
        BY <1>0, PassType
      <4> QED BY <1>0, <2>1, <3>3, <4>1 DEF Pass
    <3>4. CASE ret' = [ret EXCEPT !.pc = "cutfinish", !.again = FALSE]
      BY <1>0, <3>4 DEF Pass
    <3> QED BY <1>6, <3>1, <3>2, <3>3, <3>4 DEF CutValidate
  <2> QED BY <1>0, <2>1, <2>2, RetFrame
<1> QED BY <1>1, <1>2, <1>3, <1>4, <1>5, <1>6
-----------------------------------------------------------------------------
(* Changes of the set of ranges *)

LEMMA HighestIs ==
    ASSUME NEW P, NEW t \in P, \A q \in P : q.hi \in Int /\ q.hi <= t.hi
    PROVE  Max({q.hi : q \in P}) = t.hi
<1> DEFINE his == {q.hi : q \in P}
<1>1. his \in SUBSET Int /\ t.hi \in his /\ \A y \in his : y <= t.hi
  OBVIOUS
<1> HIDE DEF his
<1>2. Max(his) = t.hi
  BY <1>1, MaxIs
<1> QED BY <1>2 DEF his

\* One range past the watermark in the place of another, which is not the highest.
LEMMA ReplaceRange ==
    ASSUME RangesInv, NEW p \in parts, NEW q \in Partition,
           q.lo = p.lo, q.hi = p.hi, q.hi # Unbounded, RangeShape(q), q.state # "attached",
           NEW t \in parts \ {p}, Topmost(t),
           parts' = (parts \ {p}) \cup {q}, pruned' \in Nat, ens'.todo = ens.todo,
           \A r \in parts \ {p} : r.state = "attached" => r.lo >= HistoryFrom'
    PROVE  /\ RangesInv'
           /\ HistoryCut /\ HistoryCut'
           /\ HighestBound' = HighestBound
           /\ \A n : (\E r \in parts' : Holds(r, n)) <=> \E r \in parts : Holds(r, n)
<1>0. \A r \in parts : r \in Partition /\ RangeShape(r) /\ r.lo \in Nat /\ r.hi \in Int
  BY PartitionFields DEF RangesInv
<1>1. HistoryCut
  <2>1. ~HistoryCut => p.hi = Unbounded
    BY CutBounds
  <2> QED BY <2>1
<1>2. \A r \in parts : r.hi # Unbounded
  BY <1>1, CutBounds
<1>3. HistoryCut'
  BY <1>2 DEF HistoryCut
<1>4. \A r \in parts : r.hi <= t.hi
  BY <1>2 DEF Topmost
<1>5. \A r \in parts' : r \in Partition /\ RangeShape(r) /\ r.hi \in Int /\ r.hi <= t.hi
  BY <1>0, <1>4
<1>6. t \in parts' /\ t.state = "attached" /\ ~t.legacy /\ t.hi >= 2
  BY <1>2 DEF Topmost
<1>7. Topmost(t)'
  BY <1>5, <1>6 DEF Topmost
<1>8. HighestBound' = t.hi /\ HighestBound = t.hi
  BY <1>0, <1>4, <1>5, <1>6, HighestIs DEF HighestBound
<1>9. IsFiniteSet(parts')
  <2>1. IsFiniteSet(parts \ {p})
    BY FS_RemoveElement DEF RangesInv
  <2> QED BY <2>1, FS_AddElement
<1>10. RangesApart'
  BY DEF RangesInv, RangesApart
<1>11. GapsBelow(ens.todo)'
  <2>1. \A g \in ens.todo : g \in Nat \X Nat /\ g[1] < g[2] /\ \E r \in parts : g[2] <= r.hi
    BY DEF RangesInv, GapsBelow
  <2>2. \A r \in parts : \E u \in parts' : u.hi = r.hi
    OBVIOUS
  <2>3. \A g \in ens'.todo : g \in Nat \X Nat /\ g[1] < g[2] /\ \E r \in parts' : g[2] <= r.hi
    BY <2>1, <2>2
  <2> QED BY <2>3 DEF GapsBelow
<1>12. \A r \in parts' : r.state = "attached" => r.lo >= HistoryFrom'
  OBVIOUS
<1>13. RangesInv'
  BY <1>5, <1>6, <1>7, <1>9, <1>10, <1>11, <1>12 DEF RangesInv
<1>14. \A n : (\E r \in parts' : Holds(r, n)) <=> \E r \in parts : Holds(r, n)
  <2>1. \A n : Holds(q, n) <=> Holds(p, n)
    BY DEF Holds
  <2> QED BY <2>1
<1> QED BY <1>1, <1>3, <1>8, <1>13, <1>14

\* A range past the watermark forgotten.
LEMMA RemoveRange ==
    ASSUME RangesInv, NEW p \in parts, p.state # "attached",
           parts' = parts \ {p}, UNCHANGED pruned, ens'.todo = ens.todo
    PROVE  /\ RangesInv'
           /\ HistoryCut /\ HistoryCut'
           /\ HighestBound' = HighestBound
<1>0. \A r \in parts : r \in Partition /\ RangeShape(r) /\ r.lo \in Nat /\ r.hi \in Int
  BY PartitionFields DEF RangesInv
<1>1. HistoryCut
  <2>1. ~HistoryCut => p.state = "attached"
    BY CutBounds
  <2> QED BY <2>1
<1>2. \A r \in parts : r.hi # Unbounded
  BY <1>1, CutBounds
<1>3. HistoryCut'
  BY <1>2 DEF HistoryCut
<1>4. PICK t \in parts : Topmost(t)
  BY DEF RangesInv
<1>5. t.state = "attached" /\ ~t.legacy /\ t.hi >= 2 /\ \A r \in parts : r.hi <= t.hi
  BY <1>2, <1>4 DEF Topmost
<1>6. t \in parts'
  BY <1>5
<1>7. Topmost(t)'
  BY <1>5 DEF Topmost
<1>8. HighestBound' = t.hi /\ HighestBound = t.hi
  BY <1>0, <1>5, <1>6, HighestIs DEF HighestBound
<1>9. IsFiniteSet(parts')
  BY FS_RemoveElement DEF RangesInv
<1>10. RangesApart'
  BY DEF RangesInv, RangesApart
<1>11. GapsBelow(ens.todo)'
  <2>1. \A g \in ens.todo : g \in Nat \X Nat /\ g[1] < g[2] /\ \E r \in parts : g[2] <= r.hi
    BY DEF RangesInv, GapsBelow
  <2>2. ASSUME NEW g \in ens.todo PROVE g[2] <= t.hi
    <3>1. PICK r \in parts : g[2] <= r.hi
      BY <2>1
    <3>2. r.hi <= t.hi
      BY <1>5
    <3> QED BY <1>0, <2>1, <3>1, <3>2
  <2> QED BY <1>6, <2>1, <2>2 DEF GapsBelow
<1>12. RangesInv'
  BY <1>0, <1>6, <1>7, <1>9, <1>10, <1>11 DEF RangesInv, HistoryFrom
<1> QED BY <1>1, <1>3, <1>8, <1>12

\* A new range, where no range is: below the highest bound or right above it.
LEMMA AddRange ==
    ASSUME RangesInv, HistoryCut, NEW a \in Nat, NEW b \in Nat, a < b, a >= HistoryFrom,
           \A p \in parts : p.hi <= a \/ b <= p.lo,
           b <= HighestBound \/ a = HighestBound,
           parts' = parts \cup {NewRange(a, b)}, UNCHANGED pruned, ens'.todo \subseteq ens.todo
    PROVE  /\ RangesInv' /\ HistoryCut'
           /\ HighestBound' = (IF a = HighestBound THEN b ELSE HighestBound)
           /\ \A n : (\E r \in parts' : Holds(r, n)) <=> (\E r \in parts : Holds(r, n)) \/ (a <= n /\ n < b)
<1> DEFINE N == NewRange(a, b)
<1>0. \A r \in parts : r \in Partition /\ RangeShape(r) /\ r.lo \in Nat /\ r.hi \in Nat /\ r.hi # Unbounded /\ r.lo < r.hi
  BY CutBounds, PartitionFields DEF RangesInv
<1>1. /\ N \in Partition /\ N.lo = a /\ N.hi = b /\ N.legacy = FALSE /\ N.state = "attached" /\ N.off = 0
      /\ N.pending = FALSE /\ N.gone = 0
  <2>1. b \in Nat \cup {Unbounded}
    OBVIOUS
  <2> QED BY <2>1, NewRangeIs
<1> HIDE DEF N
<1>2. parts' = parts \cup {N}
  BY DEF N
<1>3. RangeShape(N) /\ N.hi # Unbounded
  BY <1>1 DEF RangeShape, Unbounded
<1>4. HistoryCut'
  BY <1>0, <1>2, <1>3 DEF HistoryCut
<1>5. PICK t \in parts : Topmost(t) /\ t.hi = HighestBound /\ ~t.legacy
  BY TopIs
<1>6. HighestBound \in Nat /\ HighestBound >= 2 /\ t.state = "attached" /\ \A r \in parts : r.hi <= HighestBound
  BY <1>5, TopIs DEF Topmost
<1>7. \E u \in parts' : /\ u.state = "attached" /\ ~u.legacy /\ u.hi >= 2
                        /\ u.hi = (IF a = HighestBound THEN b ELSE HighestBound) /\ \A r \in parts' : r.hi <= u.hi
  <2>1. CASE a = HighestBound
    <3>1. N \in parts' /\ b >= 2
      BY <1>2, <1>6, <2>1
    <3>2. \A r \in parts' : r.hi <= b
      <4>1. \A r \in parts : r.hi <= b
        BY <1>0, <1>6, <2>1
      <4> QED BY <1>1, <1>2, <4>1
    <3> QED BY <1>1, <2>1, <3>1, <3>2
  <2>2. CASE a # HighestBound
    <3>1. b <= HighestBound
      BY <2>2
    <3>2. \A r \in parts' : r.hi <= t.hi
      BY <1>1, <1>2, <1>5, <1>6, <3>1
    <3> QED BY <1>2, <1>5, <1>6, <2>2, <3>2
  <2> QED BY <2>1, <2>2
<1>8. PICK u \in parts' : /\ u.state = "attached" /\ ~u.legacy /\ u.hi >= 2
                          /\ u.hi = (IF a = HighestBound THEN b ELSE HighestBound) /\ \A r \in parts' : r.hi <= u.hi
  BY <1>7
<1>9. Topmost(u)'
  BY <1>8 DEF Topmost
<1>10. \A r \in parts' : r \in Partition /\ RangeShape(r) /\ r.hi \in Int
  BY <1>0, <1>1, <1>2, <1>3
<1>11. HighestBound' = u.hi
  BY <1>8, <1>10, HighestIs DEF HighestBound
<1>12. IsFiniteSet(parts')
  BY <1>2, FS_AddElement DEF RangesInv
<1>13. RangesApart'
  <2>1. \A r, s \in parts : r # s => r.hi # Unbounded /\ (r.hi <= s.lo \/ s.hi <= r.lo)
    BY DEF RangesInv, RangesApart
  <2>2. \A r \in parts : r.hi <= N.lo \/ N.hi <= r.lo
    BY <1>1
  <2>3. \A r, s \in parts' : r # s => r.hi # Unbounded /\ (r.hi <= s.lo \/ s.hi <= r.lo)
    BY <1>0, <1>2, <1>3, <2>1, <2>2
  <2> QED BY <2>3 DEF RangesApart
<1>14. GapsBelow(ens.todo)'
  BY <1>2 DEF RangesInv, GapsBelow
<1>15. \A r \in parts' : r.state = "attached" => r.lo >= HistoryFrom'
  BY <1>1, <1>2 DEF RangesInv, HistoryFrom
<1>16. RangesInv'
  BY <1>9, <1>10, <1>12, <1>13, <1>14, <1>15 DEF RangesInv
<1>17. \A n : (\E r \in parts' : Holds(r, n)) <=> (\E r \in parts : Holds(r, n)) \/ (a <= n /\ n < b)
  <2>1. \A n : Holds(N, n) <=> a <= n /\ n < b
    BY <1>1, <1>3 DEF Holds
  <2> QED BY <1>2, <2>1
<1> QED BY <1>4, <1>8, <1>11, <1>16, <1>17
-----------------------------------------------------------------------------
(* The ranges a pass still has to finish *)

\* The range a pass is at, after a step.
LEMMA CurrentNext ==
    ASSUME RangesInv', NEW p \in parts', p.lo = Min(ret'.todo)
    PROVE  Current' = p
<1>1. \A q \in parts' : q \in Partition /\ q.lo \in Nat /\ q.hi \in Int /\ RangeShape(q)
  BY PartitionFields DEF RangesInv
<1>2. \A q \in parts' : p # q => p.hi # Unbounded /\ q.hi # Unbounded /\ (p.hi <= q.lo \/ q.hi <= p.lo)
  BY DEF RangesInv, RangesApart
<1>3. \A q \in parts' : q.lo = p.lo <=> q = p
  BY <1>1, <1>2 DEF RangeShape
<1>4. (CHOOSE q \in parts' : q.lo = Min(ret'.todo)) = p
  BY <1>3
<1> QED BY <1>4 DEF Current, RangeAt

LEMMA PassNext ==
    ASSUME RangesInv', ret'.pc \in {"detach", "archive", "drop"} =>
              /\ ret'.todo # {}
              /\ \A lo \in ret'.todo : \E p \in parts' : p.lo = lo /\ p.state # "attached"
              /\ \E p \in parts' : /\ p.lo = Min(ret'.todo)
                                   /\ p.state = (IF ret'.pc = "detach" THEN "detaching" ELSE "detached")
    PROVE  PassInv'
<1>1. SUFFICES ASSUME ret'.pc \in {"detach", "archive", "drop"}
               PROVE  /\ ret'.todo # {}
                      /\ \A lo \in ret'.todo : \E p \in parts' : p.lo = lo /\ p.state # "attached"
                      /\ Current'.state = (IF ret'.pc = "detach" THEN "detaching" ELSE "detached")
  BY DEF PassInv
<1>2. PICK p \in parts' : /\ p.lo = Min(ret'.todo)
                          /\ p.state = (IF ret'.pc = "detach" THEN "detaching" ELSE "detached")
  BY <1>1
<1>3. Current' = p
  BY <1>2, CurrentNext
<1> QED BY <1>1, <1>2, <1>3

\* Where a pass stands among them.
LEMMA CurrentIs ==
    ASSUME RangesInv, ProcessInv, PassInv, ret.pc \in {"detach", "archive", "drop"}
    PROVE  /\ ret.todo \in SUBSET Nat /\ ret.todo # {} /\ Min(ret.todo) \in ret.todo
           /\ \A lo \in ret.todo : \E p \in parts : p.lo = lo /\ p.state # "attached"
           /\ Current \in parts /\ Current.lo = Min(ret.todo) /\ Current.state # "attached"
           /\ Current.state = (IF ret.pc = "detach" THEN "detaching" ELSE "detached")
<1>1. ret.todo \in SUBSET Nat /\ ret.todo # {}
  BY DEF ProcessInv, Pass, PassInv
<1>2. Min(ret.todo) \in ret.todo
  BY <1>1, MinOfNaturals
<1>3. PICK p \in parts : p.lo = Min(ret.todo) /\ p.state # "attached"
  BY <1>2 DEF PassInv
<1>4. Current = p
  BY <1>3, RangeAtIs DEF Current
<1> QED BY <1>1, <1>2, <1>3, <1>4 DEF PassInv

LEMMA FinishIs ==
    ASSUME RangesInv, ret \in Pass, NEW todo \in SUBSET Nat,
           todo # {} => \E p \in parts : p.lo = Min(todo) /\ p.state # "attached"
    PROVE  LET r == FinishFrom(todo)
           IN /\ r \in Pass /\ r.todo = todo /\ r.pc \in {"prune", "detach", "archive"}
              /\ r.pc # "prune" =>
                    /\ todo # {}
                    /\ \E p \in parts : /\ p.lo = Min(todo)
                                        /\ p.state = (IF r.pc = "detach" THEN "detaching" ELSE "detached")
<1> DEFINE c == IF todo = {} THEN "prune"
                ELSE IF RangeAt(Min(todo)).state = "detaching" THEN "detach" ELSE "archive"
<1>1. FinishFrom(todo) = [ret EXCEPT !.todo = todo, !.pc = c]
  BY DEF FinishFrom
<1>2. c \in {"prune", "detach", "archive"} /\ (c = "prune" <=> todo = {})
  OBVIOUS
<1>3. ASSUME todo # {}
      PROVE  \E p \in parts : p.lo = Min(todo) /\ p.state = (IF c = "detach" THEN "detaching" ELSE "detached")
  <2>2. PICK p \in parts : p.lo = Min(todo) /\ p.state # "attached"
    BY <1>3
  <2>3. RangeAt(Min(todo)) = p
    BY <2>2, RangeAtIs
  <2>4. p.state \in {"detaching", "detached"}
    BY <2>2, PartitionFields DEF RangesInv
  <2>5. p.state = (IF c = "detach" THEN "detaching" ELSE "detached")
    BY <1>3, <2>3, <2>4
  <2> QED BY <2>2, <2>5
<1> HIDE DEF c
<1>4. /\ FinishFrom(todo) \in Pass /\ FinishFrom(todo).todo = todo /\ FinishFrom(todo).pc = c
  BY <1>1, <1>2 DEF Pass
<1> QED BY <1>2, <1>3, <1>4

LEMMA PastIs ==
    ASSUME RangesInv
    PROVE  PastWatermark \in SUBSET Nat /\ \A lo \in PastWatermark : \E p \in parts : p.lo = lo /\ p.state # "attached"
<1>1. \A p \in parts : p.lo \in Nat
  BY PartitionFields DEF RangesInv
<1> QED BY <1>1 DEF PastWatermark

\* A pass that turns to the ranges past the watermark.
LEMMA FinishStep ==
    ASSUME RetentionInv, RangesInv', UNCHANGED <<archives, era, mark, parts>>, ret' = FinishFrom(PastWatermark)
    PROVE  ArchivesInv' /\ ret' \in Pass /\ ret'.pc \in {"prune", "detach", "archive"}
<1>1. ret \in Pass
  BY DEF RetentionInv, ProcessInv
<1>2. /\ ret' \in Pass /\ ret'.todo = PastWatermark /\ ret'.pc \in {"prune", "detach", "archive"}
      /\ ret'.pc # "prune" =>
            /\ PastWatermark # {}
            /\ \E p \in parts : /\ p.lo = Min(PastWatermark)
                                /\ p.state = (IF ret'.pc = "detach" THEN "detaching" ELSE "detached")
  <2>1. PastWatermark # {} => Min(PastWatermark) \in PastWatermark
    BY PastIs, MinOfNaturals DEF RetentionInv
  <2> QED BY <1>1, <2>1, PastIs, FinishIs DEF RetentionInv
<1>3. PassInv'
  BY <1>2, PastIs, PassNext DEF RetentionInv
<1>4. ArchivesInv'
  BY <1>2, <1>3 DEF RetentionInv, ArchivesInv, ArchivedBeforeDrop
<1> QED BY <1>2, <1>4

-----------------------------------------------------------------------------
(* ensureMu *)

LEMMA EnsureStarts ==
    ASSUME RetentionInv, UNCHANGED <<parts, pruned>>, NEW by \in {"start", "repair", "wipe", "keeper", "pass"},
           NEW head \in Nat, EnsureStart(by, head)
    PROVE  /\ RangesInv' /\ ens' \in Filler /\ ens'.pc = "fill" /\ ens'.by = by /\ ens'.todo = GapRanges
           /\ ens.pc = "idle"
<1>1. GapRanges \in SUBSET (Nat \X Nat) /\ GapsBelow(GapRanges)
  BY GapsType DEF RetentionInv
<1>2. head + 2 * PartitionBlocks \in Nat
  BY LedgerRetentionAssumption
<1> DEFINE gaps == GapRanges
           upto == head + 2 * PartitionBlocks
<1>3. ens' = [pc |-> "fill", by |-> by, todo |-> gaps, upto |-> upto, made |-> 0] /\ ens.pc = "idle"
  BY DEF EnsureStart
<1>4. gaps \in SUBSET (Nat \X Nat) /\ upto \in Nat /\ 0 \in Nat
  BY <1>1, <1>2
<1> HIDE DEF gaps, upto
<1>5. ens' \in Filler /\ ens'.pc = "fill" /\ ens'.by = by /\ ens'.todo = gaps
  BY <1>3, <1>4 DEF Filler
<1>6. ens'.todo = GapRanges
  BY <1>5 DEF gaps
<1>7. GapsBelow(ens.todo)'
  BY <1>1, <1>6 DEF GapsBelow
<1>8. RangesInv'
  BY <1>7 DEF RetentionInv, RangesInv, RangesApart, Topmost, HistoryFrom
<1> QED BY <1>3, <1>5, <1>6, <1>8

LEMMA KeepStep ==
    ASSUME RetentionInv, KeepPartitionsAhead
    PROVE  RetentionInv'
<1> USE DEF RetentionInv
<1>0. /\ UNCHANGED <<present, peak, missingBlocks, fetched, parts, cutAt, pruned, archives, mark, proc, ret, era, left>>
      /\ Up /\ left' \in Scenario
  BY DEF KeepPartitionsAhead, chainVars, rangeVars, ledgerVars, RowsInv
<1>1. StoredHead \in Nat /\ NodeAhead \in Nat
  BY HeadIs, LedgerRetentionAssumption
<1>2. PICK node \in StoredHead..(StoredHead + NodeAhead) : EnsureStart("keeper", node)
  BY DEF KeepPartitionsAhead
<1>3. node \in Nat
  BY <1>1
<1>4. RangesInv' /\ ens' \in Filler /\ ens'.pc = "fill" /\ ens'.by = "keeper"
  BY <1>0, <1>2, <1>3, EnsureStarts
<1>5. PastIsBelow' /\ CoverInv' /\ WipeInv' /\ ArchivesInv' /\ RowsInv'
  BY <1>0, PastFrame, CoverFrame, WipeFrame, ArchivesFrame, RowsFrame DEF Up
<1>6. ProcessInv'
  BY <1>0, <1>4 DEF ProcessInv, Up, HistoryCut, Holders
<1> QED BY <1>4, <1>5, <1>6

LEMMA PassEnsureStep ==
    ASSUME RetentionInv, PassEnsure
    PROVE  RetentionInv'
<1> USE DEF RetentionInv
<1>0. /\ UNCHANGED <<present, peak, missingBlocks, fetched, parts, cutAt, pruned, archives, mark, proc, era, left>>
      /\ Up /\ left' \in Scenario
  BY DEF PassEnsure, chainVars, rangeVars, ledgerVars, RowsInv
<1>1. PastIsBelow' /\ CoverInv' /\ WipeInv' /\ RowsInv'
  BY <1>0, PastFrame, CoverFrame, WipeFrame, RowsFrame DEF Up
<1>2. CASE ret' = FinishFrom(PastWatermark) /\ UNCHANGED ens
  <2>1. RangesInv'
    BY <1>0, <1>2, RangesFrame
  <2>2. ArchivesInv' /\ ret' \in Pass /\ ret'.pc \in {"prune", "detach", "archive"}
    BY <1>0, <1>2, <2>1, FinishStep
  <2>3. ProcessInv'
    BY <1>0, <1>2, <2>2 DEF ProcessInv, Up
  <2> QED BY <1>1, <2>1, <2>2, <2>3
<1>3. CASE EnsureStart("pass", StoredHead) /\ Goto("ensuring")
  <2>1. RangesInv' /\ ens' \in Filler /\ ens'.pc = "fill" /\ ens'.by = "pass"
    BY <1>0, <1>3, HeadIs, EnsureStarts
  <2>2. ret' \in Pass /\ ret'.pc = "ensuring"
    BY <1>3, GotoIs DEF ProcessInv, PassPcs
  <2>3. ArchivesInv'
    BY <1>0, <2>2, ArchivesFrame
  <2>4. ProcessInv'
    BY <1>0, <2>1, <2>2 DEF ProcessInv, Up, Holders
  <2> QED BY <1>1, <2>1, <2>3, <2>4
<1> QED BY <1>2, <1>3 DEF PassEnsure
\* A new range disturbs nothing about the pass or the rows.
LEMMA AddArchives ==
    ASSUME RetentionInv, RangesInv', NEW N, parts' = parts \cup {N}, N.state = "attached", N.gone = 0,
           UNCHANGED <<archives, era, mark, ret>>
    PROVE  ArchivesInv'
<1> USE DEF RetentionInv
<1>1. PassInv'
  <2>1. SUFFICES ASSUME ret'.pc \in {"detach", "archive", "drop"}
                 PROVE  /\ ret'.todo # {}
                        /\ \A lo \in ret'.todo : \E p \in parts' : p.lo = lo /\ p.state # "attached"
                        /\ \E p \in parts' : /\ p.lo = Min(ret'.todo)
                                             /\ p.state = (IF ret'.pc = "detach" THEN "detaching" ELSE "detached")
    BY PassNext
  <2> QED BY <2>1, CurrentIs DEF ArchivesInv
<1>2. ArchivedBeforeDrop'
  BY DEF ArchivesInv, ArchivedBeforeDrop
<1> QED BY <1>1, <1>2 DEF ArchivesInv

LEMMA AddRows ==
    ASSUME RowsInv, NEW N, parts' = parts \cup {N}, N.state = "attached",
           UNCHANGED <<present, peak, missingBlocks, fetched, pruned, mark, left>>
    PROVE  RowsInv'
BY DEF RowsInv

\* The lowest gap.
LEMMA LowestGap ==
    ASSUME RangesInv, ens.todo # {}
    PROVE  LET g == CHOOSE g \in ens.todo : \A h \in ens.todo : g[1] <= h[1]
           IN g \in ens.todo
<1> DEFINE los == {h[1] : h \in ens.todo}
<1>1. los \in SUBSET Nat /\ los # {}
  BY DEF RangesInv, GapsBelow
<1>2. PICK l \in los : \A m \in los : l <= m
  <2> HIDE DEF los
  <2> QED BY <1>1, LeastNatural
<1>3. \E g \in ens.todo : \A h \in ens.todo : g[1] <= h[1]
  BY <1>2
<1> QED BY <1>3

LEMMA CreateStep ==
    ASSUME RetentionInv, CreateInGap
    PROVE  RetentionInv'
<1> USE DEF RetentionInv
<1>0. /\ UNCHANGED <<present, peak, missingBlocks, fetched, cutAt, pruned, archives, mark, proc, ret, era, left>>
      /\ ens.pc = "fill" /\ ens.todo # {} /\ left' \in Scenario /\ ens \in Filler
  BY DEF CreateInGap, chainVars, ledgerVars, RowsInv, ProcessInv
<1> DEFINE g == CHOOSE g \in ens.todo : \A h \in ens.todo : g[1] <= h[1]
<1>1. g \in ens.todo
  BY <1>0, LowestGap
<1>2. g \in Nat \X Nat /\ g[1] \in Nat /\ g[2] \in Nat /\ g[1] < g[2] /\ \E p \in parts : g[2] <= p.hi
  <2>1. \A h \in ens.todo : h \in Nat \X Nat /\ h[1] < h[2] /\ \E p \in parts : h[2] <= p.hi
    BY DEF RangesInv, GapsBelow
  <2> HIDE DEF g
  <2> QED BY <1>1, <2>1
<1>3. HistoryCut
  <2>1. SUFFICES ASSUME ~HistoryCut PROVE FALSE
    OBVIOUS
  <2>2. \A p \in parts : p.hi = Unbounded
    BY <2>1, CutBounds
  <2> QED BY <1>2, <2>2 DEF Unbounded
<1>4. \A p \in parts : p.hi \in Nat /\ p.hi # Unbounded /\ p.lo \in Nat /\ p.lo < p.hi
  BY <1>3, CutBounds, PartitionFields DEF RangesInv
<1>5. HighestBound \in Nat /\ g[2] <= HighestBound
  <2>1. HighestBound \in Nat /\ \A q \in parts : q.hi <= HighestBound
    BY <1>3, TopIs
  <2> QED BY <1>2, <1>4, <2>1
<1> DEFINE free == g[1] >= HistoryFrom /\ ~ \E p \in parts : \E n \in g[1]..(g[2] - 1) : Holds(p, n)
<1>6. free => parts' = parts \cup {NewRange(g[1], g[2])} /\ ens' = [ens EXCEPT !.todo = @ \ {g}]
  BY DEF CreateInGap
<1>7. ~free => parts' = parts /\ ens' = [ens EXCEPT !.todo = {}]
  BY DEF CreateInGap
<1>8. proc = "uncovered" => free
  <2>1. SUFFICES ASSUME proc = "uncovered" PROVE free
    OBVIOUS
  <2>2. pruned = 0 /\ HistoryFrom = 0
    BY <2>1, HistoryFromNat DEF WipeInv, RangesInv
  <2>3. \A p \in parts : p.hi <= g[1] \/ g[2] <= p.lo
    BY <1>0, <1>1, <2>1 DEF CoverInv, WipeFills
  <2>4. ASSUME NEW p \in parts, NEW n \in g[1]..(g[2] - 1), Holds(p, n) PROVE FALSE
    BY <1>2, <1>4, <2>3, <2>4 DEF Holds
  <2> QED BY <1>2, <2>2, <2>4
<1>9. /\ ens' \in Filler /\ ens'.pc = "fill" /\ ens'.by = ens.by /\ ens'.todo \subseteq ens.todo
      /\ free => ens'.todo = ens.todo \ {g}
      /\ ~free => ens'.todo = {}
  <2>1. ens.todo \in SUBSET (Nat \X Nat)
    BY <1>0 DEF Filler
  <2> HIDE DEF free, g
  <2>2. CASE free
    BY <1>0, <1>6, <2>1, <2>2 DEF Filler
  <2>3. CASE ~free
    BY <1>0, <1>7, <2>1, <2>3 DEF Filler
  <2> QED BY <2>2, <2>3
<1>10. <<ens.by, proc>> \in Holders /\ proc # "unmark"
  BY <1>0 DEF ProcessInv, Holders
<1>11. CASE ~free
  <2>1. parts' = parts /\ proc # "uncovered" /\ ens'.todo = {}
    BY <1>7, <1>8, <1>9, <1>11
  <2> HIDE DEF free, g
  <2>2. RangesInv' /\ PastIsBelow' /\ CoverInv' /\ WipeInv' /\ ArchivesInv' /\ RowsInv'
    BY <1>0, <2>1, RangesFrame, PastFrame, CoverFrame, WipeFrame, ArchivesFrame, RowsFrame
  <2>3. ProcessInv'
    BY <1>0, <1>9, <1>10, <2>1 DEF ProcessInv, Up, HistoryCut
  <2> QED BY <2>2, <2>3
<1>12. CASE free
  <2> DEFINE N == NewRange(g[1], g[2])
  <2>1. \A p \in parts : p.hi <= g[1] \/ g[2] <= p.lo
    <3> SUFFICES ASSUME NEW p \in parts, p.hi > g[1], p.lo < g[2] PROVE FALSE
      BY <1>2, <1>4
    <3>1. p.lo \in Nat /\ p.hi \in Nat /\ p.lo < p.hi
      BY <1>4
    <3>2. CASE p.lo <= g[1]
      <4>1. g[1] \in g[1]..(g[2] - 1) /\ Holds(p, g[1])
        BY <1>2, <3>1, <3>2 DEF Holds
      <4> QED BY <1>12, <4>1
    <3>3. CASE p.lo > g[1]
      <4>1. p.lo \in g[1]..(g[2] - 1) /\ Holds(p, p.lo)
        BY <1>2, <3>1, <3>3 DEF Holds
      <4> QED BY <1>12, <4>1
    <3> QED BY <1>2, <3>1, <3>2, <3>3
  <2>2. parts' = parts \cup {N} /\ ens'.todo = ens.todo \ {g} /\ g[1] >= HistoryFrom
    BY <1>6, <1>9, <1>12
  <2>3. N.state = "attached" /\ N.gone = 0 /\ N.off = 0 /\ N.lo = g[1] /\ N.hi = g[2]
    BY DEF NewRange
  <2> HIDE DEF free, g
  <2>4. /\ RangesInv' /\ HistoryCut'
        /\ HighestBound' = (IF g[1] = HighestBound THEN g[2] ELSE HighestBound)
        /\ \A n : (\E r \in parts' : Holds(r, n)) <=> (\E r \in parts : Holds(r, n)) \/ (g[1] <= n /\ n < g[2])
    BY <1>0, <1>2, <1>3, <1>5, <1>9, <2>1, <2>2, AddRange
  <2> HIDE DEF N
  <2>5. HighestBound' = HighestBound
    BY <1>2, <1>5, <2>4
  <2>6. ArchivesInv' /\ RowsInv'
    BY <1>0, <2>2, <2>3, <2>4, AddArchives, AddRows
  <2>7. ProcessInv'
    BY <1>0, <1>3, <1>9, <1>10, <2>4 DEF ProcessInv, Up
  <2>8. WipeInv' /\ PastIsBelow'
    BY <1>0, <1>9, <2>2, <2>3 DEF WipeInv, PastIsBelow, HistoryFrom
  <2>9. mark' = "none" /\ HistoryCut' => Gapless(Max({HistoryFrom, 1}))'
    BY <1>0, <1>3, <2>4, <2>5 DEF CoverInv, Gapless, HistoryFrom
  <2>10. WipeFills'
    <3>1. SUFFICES ASSUME proc = "uncovered"
                   PROVE  /\ \A n \in 0..(HighestBound' - 1) : InGap(n)' \/ \E p \in parts' : Holds(p, n)
                          /\ \A h, k \in ens'.todo : h # k => h[2] <= k[1] \/ k[2] <= h[1]
                          /\ \A h \in ens'.todo : \A p \in parts' : p.hi <= h[1] \/ h[2] <= p.lo
      BY <1>0 DEF WipeFills
    <3>2. /\ \A n \in 0..(HighestBound - 1) : InGap(n) \/ \E p \in parts : Holds(p, n)
          /\ \A h, k \in ens.todo : h # k => h[2] <= k[1] \/ k[2] <= h[1]
          /\ \A h \in ens.todo : \A p \in parts : p.hi <= h[1] \/ h[2] <= p.lo
      BY <1>0, <1>3, <3>1 DEF CoverInv, WipeFills
    <3>3. \A n : InGap(n) => InGap(n)' \/ (g[1] <= n /\ n < g[2])
      BY <2>2 DEF InGap
    <3>4. \A n \in 0..(HighestBound' - 1) : InGap(n)' \/ \E p \in parts' : Holds(p, n)
      BY <2>4, <2>5, <3>2, <3>3
    <3>5. \A h \in ens'.todo : \A p \in parts' : p.hi <= h[1] \/ h[2] <= p.lo
      BY <1>1, <2>2, <2>3, <3>2
    <3>6. \A h, k \in ens'.todo : h # k => h[2] <= k[1] \/ k[2] <= h[1]
      BY <2>2, <3>2
    <3> QED BY <3>4, <3>5, <3>6
  <2>11. CoverInv'
    BY <1>0, <1>10, <2>9, <2>10 DEF CoverInv
  <2> QED BY <2>4, <2>6, <2>7, <2>8, <2>11
<1> QED BY <1>11, <1>12

LEMMA ExtendStep ==
    ASSUME RetentionInv, ExtendHistory
    PROVE  RetentionInv'
<1> USE DEF RetentionInv
<1>0. /\ UNCHANGED <<present, peak, missingBlocks, fetched, cutAt, pruned, archives, mark, proc, ret, era, left>>
      /\ ens.pc = "fill" /\ ens.by \notin {"repair", "wipe"} /\ HistoryCut /\ ens \in Filler
      /\ parts' = parts \cup {NewRange(HighestBound, HighestBound + PartitionBlocks)}
      /\ ens' = [ens EXCEPT !.made = @ + 1]
  BY DEF ExtendHistory, Extending, MoreAhead, chainVars, ledgerVars, ProcessInv
<1>1. /\ ens' \in Filler /\ ens'.pc = ens.pc /\ ens'.by = ens.by /\ ens'.todo = ens.todo
  <2>1. ens.made + 1 \in Nat
    BY <1>0 DEF Filler
  <2> QED BY <1>0, <2>1 DEF Filler
<1> DEFINE a == HighestBound
           b == HighestBound + PartitionBlocks
           N == NewRange(a, b)
<1>2. a \in Nat /\ b \in Nat /\ a < b
  BY <1>0, TopIs, LedgerRetentionAssumption
<1>3. \A p \in parts : p.hi <= a
  BY <1>0, TopIs
<1>4. a >= HistoryFrom
  <2>1. PICK t \in parts : Topmost(t) /\ t.hi = HighestBound
    BY <1>0, TopIs
  <2>2. t.lo >= HistoryFrom /\ t.lo < t.hi /\ t.lo \in Nat /\ t.hi \in Nat /\ HistoryFrom \in Nat
    BY <1>0, <2>1, CutBounds, PartitionFields, HistoryFromNat DEF Topmost, RangesInv
  <2> QED BY <2>1, <2>2
<1>5. N.state = "attached" /\ N.gone = 0 /\ N.off = 0 /\ parts' = parts \cup {N}
  BY <1>0 DEF NewRange
<1>6. a = HighestBound
  OBVIOUS
<1> HIDE DEF a, b
<1>7. /\ RangesInv' /\ HistoryCut' /\ HighestBound' = b
      /\ \A n : (\E r \in parts' : Holds(r, n)) <=> (\E r \in parts : Holds(r, n)) \/ (a <= n /\ n < b)
  <2>1. parts' = parts \cup {NewRange(a, b)}
    BY <1>5
  <2> HIDE DEF N
  <2> QED BY <1>0, <1>1, <1>2, <1>3, <1>4, <1>6, <2>1, AddRange
<1> HIDE DEF N
<1>8. ArchivesInv' /\ RowsInv'
  BY <1>0, <1>5, <1>7, AddArchives, AddRows
<1>9. ProcessInv'
  BY <1>0, <1>1, <1>7 DEF ProcessInv, Up
<1>10. proc \notin {"uncovered", "unmark"}
  BY <1>0 DEF ProcessInv, Holders
<1>11. WipeInv' /\ PastIsBelow'
  BY <1>0, <1>5, <1>10 DEF WipeInv, PastIsBelow, HistoryFrom
<1>12. mark' = "none" => Gapless(Max({HistoryFrom, 1}))'
  <2>1. SUFFICES ASSUME mark = "none", NEW n \in Max({HistoryFrom, 1})..(b - 1)
                 PROVE  \E r \in parts' : Holds(r, n)
    BY <1>0, <1>7 DEF Gapless, HistoryFrom
  <2>2. Max({HistoryFrom, 1}) \in Nat
    BY FirstRetained DEF RangesInv
  <2>3. n < a => n \in Max({HistoryFrom, 1})..(HighestBound - 1)
    BY <1>2, <1>6, <2>2
  <2>4. n < a => \E r \in parts : Holds(r, n)
    BY <1>0, <2>1, <2>3 DEF CoverInv, Gapless
  <2>5. n < a \/ (a <= n /\ n < b)
    BY <1>2, <2>2
  <2> QED BY <1>7, <2>4, <2>5
<1>13. CoverInv'
  BY <1>0, <1>10, <1>12 DEF CoverInv, WipeFills
<1> QED BY <1>7, <1>8, <1>9, <1>11, <1>13
\* Steps of the process outside a wipe's last part.
LEMMA WipeQuiet ==
    ASSUME WipeInv, UNCHANGED <<mark, parts, present>>, proc' \notin {"forgotten", "uncovered", "unmark"}
    PROVE  WipeInv'
BY DEF WipeInv

LEMMA CoverQuiet ==
    ASSUME CoverInv, UNCHANGED <<mark, parts, pruned>>, proc' \notin {"uncovered", "unmark"}
    PROVE  CoverInv'
BY DEF CoverInv, Gapless, WipeFills, HistoryFrom, HistoryCut, HighestBound

LEMMA EnsureEndStep ==
    ASSUME RetentionInv, EnsureEnd
    PROVE  RetentionInv'
<1> USE DEF RetentionInv
<1>0. /\ UNCHANGED <<present, peak, missingBlocks, fetched, parts, cutAt, pruned, archives, mark, era, left>>
      /\ ens.pc = "fill" /\ ens.todo = {} /\ left' \in Scenario /\ ens' = EnsIdle
      /\ <<ens.by, proc>> \in Holders /\ ret \in Pass
  BY DEF EnsureEnd, Extending, chainVars, rangeVars, ledgerVars, RowsInv, ProcessInv
<1>1. ens' \in Filler /\ ens'.pc = "idle" /\ ens'.todo = {}
  BY <1>0 DEF EnsIdle, Filler
<1>2. RangesInv' /\ PastIsBelow' /\ RowsInv'
  BY <1>0, <1>1, RangesFrame, PastFrame, RowsFrame
<1>3. CASE ens.by = "pass"
  <2>1. proc = "up" /\ proc' = "up" /\ ret' = FinishFrom(PastWatermark)
    BY <1>0, <1>3 DEF EnsureEnd, Holders
  <2>2. ArchivesInv' /\ ret' \in Pass /\ ret'.pc \in {"prune", "detach", "archive"}
    BY <1>0, <1>2, <2>1, FinishStep
  <2>3. ProcessInv'
    BY <1>0, <1>1, <2>1, <2>2 DEF ProcessInv, Up
  <2>4. WipeInv' /\ CoverInv'
    BY <1>0, <2>1, WipeQuiet, CoverQuiet
  <2> QED BY <1>2, <2>2, <2>3, <2>4
<1>4. CASE ens.by # "pass"
  <2>1. ret' = ret
    BY <1>4 DEF EnsureEnd
  <2>2. ArchivesInv'
    BY <1>0, <2>1, ArchivesFrame
  <2>3. CASE ens.by = "keeper"
    <3>1. proc = "up" /\ proc' = "up"
      BY <1>0, <2>3 DEF EnsureEnd, Holders
    <3>2. ProcessInv'
      BY <1>0, <1>1, <2>1, <3>1 DEF ProcessInv, Up, HistoryCut
    <3>3. WipeInv' /\ CoverInv'
      BY <1>0, <3>1, WipeQuiet, CoverQuiet
    <3> QED BY <1>2, <2>2, <3>2, <3>3
  <2>4. CASE ens.by \in {"start", "repair"}
    <3>1. /\ proc # "up" /\ proc' \in {"release", "wipe", "reseed"}
          /\ proc' \in {"release", "reseed"} => mark = "none"
      BY <1>0, <2>4 DEF EnsureEnd, Holders, ProcessInv
    <3>2. ProcessInv'
      BY <1>0, <1>1, <2>1, <3>1 DEF ProcessInv, Up, HistoryCut
    <3>3. WipeInv' /\ CoverInv'
      BY <1>0, <3>1, WipeQuiet, CoverQuiet
    <3> QED BY <1>2, <2>2, <3>2, <3>3
  <2>5. CASE ens.by = "wipe"
    <3>1. proc = "uncovered" /\ proc' = "unmark"
      BY <1>0, <2>5 DEF EnsureEnd, Holders
    <3>2. ProcessInv'
      BY <1>0, <1>1, <2>1, <3>1 DEF ProcessInv, Up, HistoryCut
    <3>3. WipeInv'
      BY <1>0, <3>1 DEF WipeInv
    <3>4. CoverInv'
      <4>1. HistoryCut => Gapless(0)
        BY <1>0, <3>1 DEF CoverInv, WipeFills, InGap, Gapless
      <4>2. mark # "none"
        BY <3>1 DEF ProcessInv
      <4> QED BY <1>0, <3>1, <4>1, <4>2 DEF CoverInv, WipeFills, Gapless, HistoryCut, HighestBound
    <3> QED BY <1>2, <2>2, <3>2, <3>3, <3>4
  <2> QED BY <1>0, <1>4, <2>3, <2>4, <2>5 DEF Holders
<1> QED BY <1>3, <1>4

-----------------------------------------------------------------------------
(* The cut *)

LEMMA CutFinishStep ==
    ASSUME RetentionInv, CutFinish
    PROVE  RetentionInv'
<1> USE DEF RetentionInv
<1>0. /\ UNCHANGED <<present, peak, missingBlocks, fetched, cutAt, pruned, archives, mark, proc, ens, era>>
      /\ ret.pc = "cutfinish" /\ ret \in Pass /\ Up /\ ~HistoryCut /\ cutAt \in Nat /\ cutAt > 0 /\ mark = "none"
      /\ left \in Scenario
  BY DEF CutFinish, chainVars, ledgerVars, RowsInv, ProcessInv, Up
<1>1. CASE /\ parts' = {[p EXCEPT !.hi = cutAt] : p \in parts} \cup {NewRange(cutAt, cutAt + PartitionBlocks)}
           /\ Goto("ensure") /\ UNCHANGED left
  <2>1. PICK L \in parts : L.hi = Unbounded /\ L.legacy /\ L.lo = 0 /\ L.state = "attached" /\ parts = {L}
    BY <1>0, CutBounds
  <2>2. /\ L \in Partition /\ L.off = 0 /\ L.pending = FALSE /\ L.gone = 0
    <3>1. L \in Partition /\ RangeShape(L) /\ Tables > 0
      BY LedgerRetentionAssumption DEF RangesInv
    <3>2. L.off = 0 /\ ~L.pending /\ L.pending \in BOOLEAN /\ L.gone \in Nat
      BY <2>1, <3>1, PartitionFields DEF RangeShape
    <3>3. L.gone = 0
      BY <3>1, <3>2 DEF RangeShape, Detached
    <3> QED BY <3>1, <3>2, <3>3
  <2> DEFINE K == [L EXCEPT !.hi = cutAt]
             b == cutAt + PartitionBlocks
             N == NewRange(cutAt, b)
  <2>3. /\ K \in Partition /\ K.lo = 0 /\ K.hi = cutAt /\ K.legacy = L.legacy /\ K.state = "attached" /\ K.off = 0
        /\ K.pending = FALSE /\ K.gone = 0
    BY <1>0, <2>1, <2>2 DEF Partition
  <2>4. b \in Nat /\ b > cutAt /\ b >= 2
    BY <1>0, LedgerRetentionAssumption
  <2>5. /\ N \in Partition /\ N.lo = cutAt /\ N.hi = b /\ N.legacy = FALSE /\ N.state = "attached" /\ N.off = 0
        /\ N.pending = FALSE /\ N.gone = 0
    <3>1. b \in Nat \cup {Unbounded}
      BY <2>4
    <3> HIDE DEF b
    <3> QED BY <1>0, <3>1, NewRangeIs
  <2>6. parts' = {K, N}
    BY <1>1, <2>1
  <2>7. ens.todo = {}
    <3>1. \A g \in ens.todo : g \in Nat \X Nat /\ \E p \in parts : g[2] <= p.hi
      BY DEF RangesInv, GapsBelow
    <3>2. \A g \in ens.todo : g[2] \in Nat /\ g[2] <= -1
      BY <2>1, <3>1 DEF Unbounded
    <3> QED BY <3>2
  <2>8. pruned = 0
    <3>1. pruned \in Nat /\ HistoryFrom <= 0
      BY <2>1, HistoryFromNat DEF RangesInv
    <3> QED BY <3>1, HistoryFromNat
  <2> HIDE DEF K, b, N
  <2>9. HistoryFrom' = 0
    BY <1>0, <2>8 DEF HistoryFrom
  <2>10. K.hi # Unbounded /\ N.hi # Unbounded
    BY <1>0, <2>3, <2>4, <2>5 DEF Unbounded
  <2>11. RangesInv'
    <3>1. RangeShape(K) /\ RangeShape(N)
      BY <1>0, <2>3, <2>4, <2>5, <2>10 DEF RangeShape
    <3>2. RangesApart'
      <4>1. K.hi <= N.lo
        BY <1>0, <2>3, <2>5
      <4> QED BY <2>6, <2>10, <4>1 DEF RangesApart
    <3>3. \E p \in parts' : Topmost(p)'
      <4>1. N.state = "attached" /\ ~N.legacy /\ N.hi >= 2 /\ K.hi <= N.hi /\ N.hi <= N.hi
        BY <1>0, <2>3, <2>4, <2>5
      <4>2. \E p \in parts' : p.state = "attached" /\ ~p.legacy /\ p.hi >= 2 /\ \A q \in parts' : q.hi <= p.hi
        BY <2>6, <4>1
      <4> QED BY <4>2 DEF Topmost
    <3>4. IsFiniteSet(parts')
      <4>1. IsFiniteSet({K}) /\ {K, N} = {K} \cup {N}
        BY FS_Singleton
      <4> QED BY <2>6, <4>1, FS_AddElement
    <3>5. \A p \in parts' : p.lo >= HistoryFrom'
      BY <1>0, <2>3, <2>5, <2>6, <2>9
    <3>6. GapsBelow(ens.todo)'
      BY <1>0, <2>7 DEF GapsBelow
    <3> QED BY <1>0, <2>3, <2>5, <2>6, <2>8, <3>1, <3>2, <3>3, <3>4, <3>5, <3>6 DEF RangesInv
  <2>12. ret' \in Pass /\ ret'.pc = "ensure"
    BY <1>0, <1>1, GotoIs DEF PassPcs
  <2>13. ProcessInv'
    BY <1>0, <2>12 DEF ProcessInv, Up
  <2>14. WipeInv' /\ PastIsBelow'
    BY <1>0, <2>3, <2>5, <2>6 DEF WipeInv, PastIsBelow, Up
  <2>15. HighestBound' = b
    <3>1. \A q \in parts' : q.hi \in Int /\ q.hi <= N.hi
      BY <1>0, <2>3, <2>4, <2>5, <2>6
    <3>2. N \in parts'
      BY <2>6
    <3> QED BY <2>5, <3>1, <3>2, HighestIs DEF HighestBound
  <2>16. Gapless(Max({HistoryFrom, 1}))'
    <3>1. Max({HistoryFrom', 1}) = 1
      BY <2>9, MaxOfTwo
    <3>2. SUFFICES ASSUME NEW n \in 1..(b - 1) PROVE \E r \in parts' : Holds(r, n)
      BY <2>15, <3>1 DEF Gapless
    <3>3. Holds(K, n) \/ Holds(N, n)
      BY <1>0, <2>3, <2>4, <2>5 DEF Holds
    <3> QED BY <2>6, <3>3
  <2>17. CoverInv'
    BY <1>0, <2>16 DEF CoverInv, WipeFills, Up
  <2>18. RowsInv'
    BY <1>0, <1>1, <2>3, <2>5, <2>6 DEF RowsInv
  <2>19. ArchivesInv'
    BY <1>0, <2>3, <2>5, <2>6, <2>12 DEF ArchivesInv, PassInv, ArchivedBeforeDrop
  <2> QED BY <2>11, <2>13, <2>14, <2>17, <2>18, <2>19
<1>2. CASE UNCHANGED parts
  <2>1. left' \in Scenario
    BY <1>0, <1>1, SpendType DEF CutFinish, Trouble
  <2>2. ret' \in Pass /\ ret'.pc \in {"cutfinish", "undo", "ensure"}
    <3>1. CASE ret' = [ret EXCEPT !.again = TRUE]
      BY <1>0, <3>1 DEF Pass
    <3>2. CASE ret' = Widened
      BY <1>0, <3>2, WidenedType
    <3>3. CASE Goto("ensure")
      BY <1>0, <3>3, GotoIs DEF PassPcs
    <3> QED BY <3>1, <3>2, <3>3 DEF CutFinish
  <2> QED BY <1>0, <1>2, <2>1, <2>2, RetFrame
<1> QED BY <1>1, <1>2 DEF CutFinish
-----------------------------------------------------------------------------
(* Stops and starts *)

LEMMA StopStep ==
    ASSUME RetentionInv, ProcessStop
    PROVE  RetentionInv'
<1> USE DEF RetentionInv
<1>0. /\ UNCHANGED <<present, peak, missingBlocks, parts, cutAt, pruned, archives, era>>
      /\ Spend("crashes") /\ proc' = "down" /\ mark' = (IF mark = "none" THEN "none" ELSE "found")
      /\ ens' = EnsIdle /\ ret' = RetIdle(0) /\ fetched' = {}
  BY DEF ProcessStop, rangeVars, ledgerVars
<1>1. left' \in Scenario
  BY <1>0, SpendType DEF RowsInv, Trouble
<1>2. ens' \in Filler /\ ens'.pc = "idle" /\ ens'.todo = {} /\ ret' \in Pass /\ ret'.pc = "idle"
  BY <1>0 DEF EnsIdle, RetIdle, Filler, Pass
<1>3. (mark' = "none" <=> mark = "none") /\ mark' \in {"none", "new", "found"}
  BY <1>0
<1>4. RangesInv'
  BY <1>0, <1>2, RangesFrame
<1>5. ProcessInv' /\ WipeInv'
  BY <1>0, <1>2, <1>3 DEF ProcessInv, WipeInv
<1>6. PastIsBelow'
  BY <1>0, <1>3 DEF PastIsBelow, HistoryFrom
<1>7. CoverInv'
  BY <1>0, <1>3 DEF CoverInv, WipeFills, Gapless, HistoryFrom, HistoryCut, HighestBound
<1>8. RowsInv'
  BY <1>0, <1>1, <1>3 DEF RowsInv
<1>9. ArchivesInv'
  BY <1>0, <1>2, <1>3 DEF ArchivesInv, PassInv, ArchivedBeforeDrop
<1> QED BY <1>4, <1>5, <1>6, <1>7, <1>8, <1>9

\* A start, up to the wipe it may have to finish.
LEMMA StartStep ==
    ASSUME RetentionInv, StartEnsure \/ StartRelease \/ StartRepair \/ StartReseed
    PROVE  RetentionInv'
<1> USE DEF RetentionInv
<1>0. /\ UNCHANGED <<present, peak, missingBlocks, fetched, parts, cutAt, pruned, archives, mark, ret, era>>
      /\ proc # "up"
  BY DEF StartEnsure, StartRelease, StartRepair, StartReseed, chainVars, rangeVars, ledgerVars
<1>1. left' \in Scenario
  <2>1. left \in Scenario
    BY DEF RowsInv
  <2> QED BY <2>1, SpendType DEF StartEnsure, StartRelease, StartRepair, StartReseed, Trouble
<1>2. ret.pc = "idle" /\ fetched = {} /\ ret \in Pass /\ ens \in Filler
  BY <1>0 DEF ProcessInv, Up
<1>3. PastIsBelow' /\ RowsInv' /\ ArchivesInv'
  BY <1>0, <1>1, PastFrame, RowsFrame, ArchivesFrame
<1>4. proc' \in {"ensuring", "repair", "repairing", "up", "wipe"}
  BY DEF StartEnsure, StartRelease, StartRepair, StartReseed
<1>5. WipeInv' /\ CoverInv'
  BY <1>0, <1>4, WipeQuiet, CoverQuiet
<1>6. CASE StartEnsure \/ StartRepair
  <2>1. PICK by \in {"start", "repair"}, head \in Nat : EnsureStart(by, head) /\ <<by, proc'>> \in Holders
                                                       /\ (by = "repair" => proc = "repair")
    BY <1>6, HeadIs DEF StartEnsure, StartRepair, Holders
  <2>2. RangesInv' /\ ens' \in Filler /\ ens'.pc = "fill" /\ ens'.by = by
    BY <1>0, <2>1, EnsureStarts
  <2>3. proc' = "repairing" => mark = "none"
    BY <2>1 DEF ProcessInv, Holders
  <2>4. ProcessInv'
    BY <1>0, <1>2, <1>4, <2>1, <2>2, <2>3 DEF ProcessInv, Up, Holders
  <2> QED BY <1>3, <1>5, <2>2, <2>4
<1>7. CASE StartRelease \/ StartReseed
  <2>1. UNCHANGED ens /\ proc \in {"release", "reseed"}
    BY <1>7 DEF StartRelease, StartReseed
  <2>2. RangesInv'
    BY <1>0, <2>1, RangesFrame
  <2>3. mark = "none" /\ ens.pc # "fill"
    BY <2>1 DEF ProcessInv, Holders
  <2>4. ens.pc = "idle"
    BY <1>2, <2>3 DEF Filler
  <2>5. ProcessInv'
    BY <1>0, <1>2, <1>4, <2>1, <2>3, <2>4 DEF ProcessInv, Up
  <2> QED BY <1>3, <1>5, <2>2, <2>5
<1> QED BY <1>6, <1>7

-----------------------------------------------------------------------------
(* The wipe *)

LEMMA WipeChainStep ==
    ASSUME RetentionInv, WipeChain
    PROVE  RetentionInv'
<1> USE DEF RetentionInv
<1>0. /\ UNCHANGED <<fetched, parts, cutAt, pruned, archives, ens, ret, left>>
      /\ proc = "wipe" /\ proc' = "truncated"
      /\ present' = {n \in present : \E p \in parts : Holds(p, n) /\ p.off > 0}
      /\ missingBlocks' = {} /\ peak' = 0
  BY DEF WipeChain, rangeVars, ledgerVars
<1>1. ret.pc = "idle" /\ fetched = {} /\ ens.pc # "fill"
  BY <1>0 DEF ProcessInv, Up, Holders
<1>2. mark' \in {"new", "found"} /\ era' \in Nat
  <2>1. era \in Nat /\ mark \in {"none", "new", "found"}
    BY DEF ArchivesInv, ProcessInv
  <2>2. CASE mark = "none"
    BY <2>1, <2>2 DEF WipeChain
  <2>3. CASE mark # "none"
    BY <2>1, <2>3 DEF WipeChain
  <2> QED BY <2>2, <2>3
<1>3. RangesInv'
  BY <1>0, RangesFrame
<1>4. ProcessInv'
  BY <1>0, <1>1, <1>2 DEF ProcessInv, Up
<1>5. WipeInv' /\ PastIsBelow' /\ CoverInv'
  BY <1>0, <1>2 DEF WipeInv, PastIsBelow, CoverInv, WipeFills
<1>6. RowsInv'
  BY <1>0, <1>1, <1>2 DEF RowsInv
<1>7. ArchivesInv'
  BY <1>0, <1>1, <1>2 DEF ArchivesInv, PassInv, ArchivedBeforeDrop
<1> QED BY <1>3, <1>4, <1>5, <1>6, <1>7

\* The ledger and the archive records; the watermark.
LEMMA WipeForgetStep ==
    ASSUME RetentionInv, WipeLedger \/ WipeWatermark
    PROVE  RetentionInv'
<1> USE DEF RetentionInv
<1>0. /\ UNCHANGED <<present, peak, missingBlocks, fetched, parts, cutAt, mark, ens, ret, era, left>>
      /\ <<proc, proc'>> \in {<<"truncated", "forgotten">>, <<"forgotten", "uncovered">>}
      /\ archives' \in {archives, {}} /\ pruned' \in {pruned, 0}
      /\ proc' = "forgotten" => archives' = {}
      /\ proc' = "uncovered" => archives' = archives /\ pruned' = 0
  BY DEF WipeLedger, WipeWatermark, chainVars, rangeVars
<1>1. ret.pc = "idle" /\ ens.pc # "fill" /\ mark # "none"
  BY <1>0 DEF ProcessInv, Up, Holders
<1>2. RangesInv'
  <2>1. pruned \in Nat /\ pruned' \in Nat
    BY <1>0 DEF RangesInv
  <2>2. HistoryFrom \in Nat /\ HistoryFrom' <= HistoryFrom /\ HistoryFrom' \in Nat
    <3>1. pruned' = pruned \/ pruned' = 0
      BY <1>0
    <3>3. HistoryFrom \in Nat
      BY <2>1, HistoryFromNat
    <3>4. CASE pruned' = pruned
      <4>1. HistoryFrom' = HistoryFrom
        BY <3>4 DEF HistoryFrom
      <4> QED BY <3>3, <4>1
    <3>5. CASE pruned' = 0
      <4>1. HistoryFrom' = 0
        BY <3>5 DEF HistoryFrom
      <4> QED BY <3>3, <4>1
    <3> QED BY <3>1, <3>4, <3>5
  <2>3. \A p \in parts : p.lo \in Nat /\ (p.state = "attached" => p.lo >= HistoryFrom)
    BY PartitionFields DEF RangesInv
  <2>4. \A p \in parts : p.state = "attached" => p.lo >= HistoryFrom'
    BY <2>2, <2>3
  <2> QED BY <1>0, <2>1, <2>4 DEF RangesInv, RangesApart, Topmost, GapsBelow
<1>3. ProcessInv'
  BY <1>0, <1>1 DEF ProcessInv, Up
<1>4. WipeInv' /\ PastIsBelow' /\ CoverInv'
  BY <1>0, <1>1 DEF WipeInv, PastIsBelow, CoverInv, WipeFills
<1>5. RowsInv'
  BY <1>0, <1>1 DEF RowsInv
<1>6. ArchivesInv'
  BY <1>0, <1>1 DEF ArchivesInv, PassInv, ArchivedBeforeDrop
<1> QED BY <1>2, <1>3, <1>4, <1>5, <1>6

LEMMA WipeCoverStep ==
    ASSUME RetentionInv, WipeCover
    PROVE  RetentionInv'
<1> USE DEF RetentionInv
<1>0. /\ UNCHANGED <<present, peak, missingBlocks, fetched, parts, cutAt, pruned, archives, mark, proc, ret, era, left>>
      /\ proc = "uncovered" /\ EnsureStart("wipe", 0) /\ \A p \in parts : p.state = "attached"
      /\ left' \in Scenario
  BY DEF WipeCover, chainVars, rangeVars, ledgerVars, RowsInv
<1>1. /\ RangesInv' /\ ens' \in Filler /\ ens'.pc = "fill" /\ ens'.by = "wipe" /\ ens'.todo = GapRanges
  BY <1>0, EnsureStarts
<1>2. ProcessInv'
  BY <1>0, <1>1 DEF ProcessInv, Up, HistoryCut, Holders
<1>3. WipeInv' /\ PastIsBelow' /\ RowsInv' /\ ArchivesInv'
  BY <1>0, PastFrame, RowsFrame, ArchivesFrame DEF WipeInv
<1>4. WipeFills'
  <2>1. HistoryFrom = 0
    BY <1>0, HistoryFromNat DEF WipeInv, RangesInv
  <2>2. /\ \A g, h \in GapRanges : g # h => g[2] <= h[1] \/ h[2] <= g[1]
        /\ \A g \in GapRanges : \A p \in parts : p.hi <= g[1] \/ g[2] <= p.lo
        /\ HistoryCut => \A n \in 0..(HighestBound - 1) :
                            \/ \E g \in GapRanges : g[1] <= n /\ n < g[2]
                            \/ \E p \in parts : Holds(p, n)
    BY <2>1, GapsFill
  <2>3. \A n : InGap(n)' <=> \E g \in GapRanges : g[1] <= n /\ n < g[2]
    BY <1>1 DEF InGap
  <2>4. HighestBound' = HighestBound /\ (HistoryCut' <=> HistoryCut)
    BY <1>0 DEF HighestBound, HistoryCut
  <2>5. HistoryCut' => \A n \in 0..(HighestBound' - 1) : InGap(n)' \/ \E p \in parts' : Holds(p, n)
    BY <1>0, <2>2, <2>3, <2>4
  <2>6. /\ \A g, h \in ens'.todo : g # h => g[2] <= h[1] \/ h[2] <= g[1]
        /\ \A g \in ens'.todo : \A p \in parts' : p.hi <= g[1] \/ g[2] <= p.lo
    BY <1>0, <1>1, <2>2
  <2> QED BY <2>5, <2>6 DEF WipeFills
<1>5. mark # "none"
  BY <1>0 DEF ProcessInv
<1>6. CoverInv'
  BY <1>0, <1>4, <1>5 DEF CoverInv
<1> QED BY <1>1, <1>2, <1>3, <1>6

LEMMA WipeEndStep ==
    ASSUME RetentionInv, WipeEnd
    PROVE  RetentionInv'
<1> USE DEF RetentionInv
<1>0. /\ UNCHANGED <<present, peak, missingBlocks, fetched, parts, cutAt, pruned, archives, ens, ret, era, left>>
      /\ proc = "unmark" /\ proc' \in {"release", "up"} /\ mark' = "none"
  BY DEF WipeEnd, chainVars, rangeVars, ledgerVars
<1>1. /\ ret.pc = "idle" /\ ens.pc # "fill" /\ mark # "none" /\ fetched = {} /\ pruned = 0 /\ archives = {}
      /\ \A p \in parts : p.state = "attached"
  BY <1>0 DEF ProcessInv, Up, Holders, WipeInv
<1>2. \A p \in parts : p.off = 0 /\ p.gone = 0
  <2>1. \A p \in parts : RangeShape(p) /\ p.gone \in Nat
    BY PartitionFields DEF RangesInv
  <2>2. Tables > 0 /\ Tables \in Nat
    BY LedgerRetentionAssumption
  <2> QED BY <1>1, <2>1, <2>2 DEF RangeShape, Detached
<1>3. present = {}
  BY <1>1, <1>2 DEF WipeInv
<1>4. RangesInv'
  BY <1>0, RangesFrame
<1>5. ProcessInv'
  BY <1>0, <1>1 DEF ProcessInv, Up
<1>6. WipeInv' /\ PastIsBelow'
  BY <1>0, <1>1 DEF WipeInv, PastIsBelow
<1>7. CoverInv'
  <2>1. Max({HistoryFrom, 1}) \in Nat
    BY FirstRetained DEF RangesInv
  <2>2. HistoryCut => Gapless(0) /\ HighestBound \in Nat
    BY <1>0, TopIs DEF CoverInv
  <2>3. HistoryCut => Gapless(Max({HistoryFrom, 1}))
    <3>1. SUFFICES ASSUME HistoryCut, NEW n \in Max({HistoryFrom, 1})..(HighestBound - 1)
                   PROVE  \E p \in parts : Holds(p, n)
      BY DEF Gapless
    <3>2. n \in 0..(HighestBound - 1)
      BY <2>1, <2>2, <3>1
    <3> QED BY <2>2, <3>1, <3>2 DEF Gapless
  <2> QED BY <1>0, <2>3 DEF CoverInv, WipeFills, Gapless, HistoryFrom, HistoryCut, HighestBound
<1>8. RowsInv'
  BY <1>0, <1>1, <1>3 DEF RowsInv
<1>9. ArchivesInv'
  BY <1>0, <1>1, <1>2 DEF ArchivesInv, PassInv, ArchivedBeforeDrop
<1> QED BY <1>4, <1>5, <1>6, <1>7, <1>8, <1>9
-----------------------------------------------------------------------------
(* A range past the watermark loses its tables *)

\* The steps of a detach, of a drop and of the states, and what they leave of a range's shape.
LEMMA DetachShape ==
    ASSUME NEW p \in Partition, RangeShape(p), p.state # "attached", ~Detached(p),
           NEW q, \/ ~p.pending /\ p.off < Tables /\ q = [p EXCEPT !.off = @ + 1]
                  \/ p.pending /\ q = [p EXCEPT !.pending = FALSE]
                  \/ ~p.pending /\ p.off < Tables /\ q = [p EXCEPT !.off = @ + 1, !.pending = TRUE]
    PROVE  /\ q \in Partition /\ q.lo = p.lo /\ q.hi = p.hi /\ RangeShape(q) /\ q.state = p.state /\ q.off >= p.off
           /\ q.gone = p.gone
<1>1. Tables \in Nat /\ p.off \in Nat /\ p.gone \in Nat /\ p.hi \in Int /\ p.lo \in Nat
  BY PartitionFields, LedgerRetentionAssumption
<1>2. p.gone = 0 /\ p.state = "detaching" /\ p.hi # Unbounded /\ p.lo < p.hi
  BY <1>1, PartitionFields DEF RangeShape
<1>3. p.off < Tables => p.off + 1 \in 0..Tables
  BY <1>1
<1>4. /\ q \in Partition /\ q.lo = p.lo /\ q.hi = p.hi /\ q.state = p.state /\ q.off \in {p.off, p.off + 1} /\ q.gone = p.gone
  <2>1. CASE ~p.pending /\ p.off < Tables /\ q = [p EXCEPT !.off = @ + 1]
    BY <1>3, <2>1 DEF Partition
  <2>2. CASE p.pending /\ q = [p EXCEPT !.pending = FALSE]
    BY <2>2 DEF Partition
  <2>3. CASE ~p.pending /\ p.off < Tables /\ q = [p EXCEPT !.off = @ + 1, !.pending = TRUE]
    BY <1>3, <2>3 DEF Partition
  <2> QED BY <2>1, <2>2, <2>3
<1>5. q.off >= p.off
  BY <1>1, <1>4
<1>6. RangeShape(q)
  BY <1>2, <1>4 DEF RangeShape
<1> QED BY <1>4, <1>5, <1>6

LEMMA DetachedShape ==
    ASSUME NEW p \in Partition, RangeShape(p), p.state # "attached", Detached(p),
           NEW q, \/ q = [p EXCEPT !.state = "detached"]
                  \/ p.gone + 1 < Tables /\ q = [p EXCEPT !.gone = @ + 1]
    PROVE  /\ q \in Partition /\ q.lo = p.lo /\ q.hi = p.hi /\ RangeShape(q) /\ q.state \in {p.state, "detached"} /\ q.off = p.off
           /\ q = [p EXCEPT !.state = "detached"] => q.state = "detached" /\ q.gone = p.gone
           /\ q = [p EXCEPT !.gone = @ + 1] => q.state = p.state
<1>1. Tables \in Nat /\ p.off \in Nat /\ p.gone \in Nat /\ p.hi \in Int /\ p.lo \in Nat
  BY PartitionFields, LedgerRetentionAssumption
<1>2. p.hi # Unbounded /\ p.lo < p.hi
  BY DEF RangeShape
<1>3. p.gone + 1 < Tables => p.gone + 1 \in 0..Tables
  BY <1>1
<1>4. /\ q \in Partition /\ q.lo = p.lo /\ q.hi = p.hi /\ q.state \in {p.state, "detached"} /\ q.off = p.off /\ q.pending = p.pending
  <2>1. CASE q = [p EXCEPT !.state = "detached"]
    BY <2>1 DEF Partition
  <2>2. CASE p.gone + 1 < Tables /\ q = [p EXCEPT !.gone = @ + 1]
    BY <1>3, <2>2 DEF Partition
  <2> QED BY <2>1, <2>2
<1>5. RangeShape(q)
  BY <1>2, <1>4 DEF RangeShape, Detached
<1>6. /\ q = [p EXCEPT !.state = "detached"] => q.state = "detached" /\ q.gone = p.gone
      /\ q = [p EXCEPT !.gone = @ + 1] => q.state = p.state
  BY DEF Partition
<1> QED BY <1>4, <1>5, <1>6

\* Such a step disturbs no part of the invariant but the archives'.
LEMMA MoveRange ==
    ASSUME RetentionInv, NEW p \in parts, p.state # "attached",
           NEW q \in Partition, q.lo = p.lo, q.hi = p.hi, RangeShape(q), q.state # "attached", q.off >= p.off,
           parts' = (parts \ {p}) \cup {q},
           UNCHANGED <<present, peak, missingBlocks, fetched, pruned, archives, mark, proc, ens>>, left' \in Scenario
    PROVE  RangesInv' /\ HistoryCut /\ HistoryCut' /\ WipeInv' /\ PastIsBelow' /\ CoverInv' /\ RowsInv'
<1> USE DEF RetentionInv
<1>0. p.off \in Nat /\ q.off \in Nat /\ RangeShape(p) /\ p.hi # Unbounded
  <2>1. RangeShape(p) /\ p \in Partition
    BY DEF RangesInv
  <2> QED BY <2>1, PartitionFields DEF RangeShape
<1>1. PICK t \in parts \ {p} : Topmost(t)
  BY DEF RangesInv, Topmost
<1>2. \A r \in parts \ {p} : r.state = "attached" => r.lo >= HistoryFrom'
  BY DEF RangesInv, HistoryFrom
<1>3. /\ RangesInv' /\ HistoryCut /\ HistoryCut' /\ HighestBound' = HighestBound
      /\ \A n : (\E r \in parts' : Holds(r, n)) <=> \E r \in parts : Holds(r, n)
  <2>1. pruned' \in Nat /\ ens'.todo = ens.todo /\ q.hi # Unbounded
    BY <1>0 DEF RangesInv
  <2> QED BY <1>1, <1>2, <2>1, ReplaceRange
<1>4. \A n : Holds(q, n) <=> Holds(p, n)
  BY DEF Holds
<1>5. proc # "unmark" /\ ~(proc = "uncovered" /\ ens.pc = "fill")
  BY DEF WipeInv
<1>6. WipeInv'
  <2>1. mark # "none" => \A n \in present : \E r \in parts' : Holds(r, n) /\ r.off > 0
    <3>1. SUFFICES ASSUME mark # "none", NEW n \in present PROVE \E r \in parts' : Holds(r, n) /\ r.off > 0
      OBVIOUS
    <3>2. PICK r \in parts : Holds(r, n) /\ r.off > 0
      BY <3>1 DEF WipeInv
    <3>3. CASE r = p
      <4>1. q.off > 0
        BY <1>0, <3>2, <3>3
      <4> QED BY <1>4, <3>2, <3>3, <4>1
    <3>4. CASE r # p
      BY <3>2, <3>4
    <3> QED BY <3>3, <3>4
  <2> QED BY <1>5, <2>1 DEF WipeInv
<1>7. PastIsBelow'
  BY DEF PastIsBelow, HistoryFrom
<1>8. CoverInv'
  BY <1>3, <1>5 DEF CoverInv, WipeFills, Gapless, HistoryFrom
<1>9. RowsInv'
  <2>1. mark = "none" => \A r \in parts' : r.state # "attached" /\ r.off = 0 =>
                              \A n \in r.lo..(r.hi - 1) : n > 0 => n \in present
    <3>1. q.off = 0 => p.off = 0
      BY <1>0
    <3> QED BY <3>1 DEF RowsInv
  <2> QED BY <2>1 DEF RowsInv
<1> QED BY <1>3, <1>6, <1>7, <1>8, <1>9

\* Nor does forgetting a range whose tables are all dropped.
LEMMA ForgetRange ==
    ASSUME RetentionInv, NEW p \in parts, p.state # "attached",
           parts' = parts \ {p}, present' = {n \in present : ~Holds(p, n)},
           UNCHANGED <<peak, missingBlocks, fetched, pruned, archives, mark, proc, ens>>, left' \in Scenario
    PROVE  RangesInv' /\ HistoryCut /\ HistoryCut' /\ WipeInv' /\ PastIsBelow' /\ CoverInv' /\ RowsInv'
<1> USE DEF RetentionInv
<1>1. /\ RangesInv' /\ HistoryCut /\ HistoryCut' /\ HighestBound' = HighestBound
  BY RemoveRange
<1>2. proc # "unmark" /\ ~(proc = "uncovered" /\ ens.pc = "fill")
  BY DEF WipeInv
<1>3. WipeInv'
  <2>1. mark # "none" => \A n \in present' : \E r \in parts' : Holds(r, n) /\ r.off > 0
    BY DEF WipeInv
  <2> QED BY <1>2, <2>1 DEF WipeInv
<1>4. PastIsBelow'
  BY DEF PastIsBelow, HistoryFrom
<1>5. CoverInv'
  <2>1. ASSUME mark = "none" PROVE Gapless(Max({HistoryFrom, 1}))'
    <3>1. Max({HistoryFrom, 1}) = pruned + 1 /\ pruned \in Nat
      BY FirstRetained DEF RangesInv
    <3>2. p.hi <= pruned + 1 /\ p.hi \in Nat /\ p.hi # Unbounded
      BY <1>1, <2>1, <3>1, CutBounds DEF PastIsBelow
    <3>3. SUFFICES ASSUME NEW n \in (pruned + 1)..(HighestBound - 1) PROVE \E r \in parts' : Holds(r, n)
      BY <1>1, <3>1 DEF Gapless, HistoryFrom
    <3>4. PICK r \in parts : Holds(r, n)
      BY <1>1, <2>1, <3>1 DEF CoverInv, Gapless
    <3>5. ~Holds(p, n)
      BY <1>1, <3>1, <3>2, TopIs DEF Holds
    <3> QED BY <3>4, <3>5
  <2> QED BY <1>2, <2>1 DEF CoverInv, WipeFills
<1>6. RowsInv'
  <2>1. ASSUME mark = "none", NEW r \in parts', r.state # "attached", r.off = 0, NEW n \in r.lo..(r.hi - 1), n > 0
        PROVE  n \in present'
    <3>1. n \in present
      BY <2>1 DEF RowsInv
    <3>2. r \in parts /\ r # p /\ r.lo \in Nat /\ r.hi \in Int
      BY <2>1, PartitionFields DEF RangesInv
    <3>3. n \in Nat /\ Holds(r, n)
      BY <2>1, <3>2 DEF Holds
    <3>4. ~Holds(p, n)
      BY <3>2, <3>3, OneRange
    <3> QED BY <3>1, <3>4
  <2>2. present' \subseteq present
    OBVIOUS
  <2> QED BY <2>1, <2>2 DEF RowsInv
<1> QED BY <1>1, <1>3, <1>4, <1>5, <1>6
LEMMA WipeRangeStep ==
    ASSUME RetentionInv, WipeRange
    PROVE  RetentionInv'
<1> USE DEF RetentionInv
<1>0. /\ UNCHANGED <<peak, missingBlocks, fetched, cutAt, pruned, archives, mark, proc, ens, ret, era, left>>
      /\ proc = "uncovered" /\ ens.pc = "idle" /\ left' \in Scenario
  BY DEF WipeRange, ledgerVars, procVars, RowsInv
<1>1. PICK p \in parts : /\ p.state # "attached"
                         /\ IF Detached(p) THEN DropStep(p) ELSE DetachStep(p) /\ UNCHANGED present
  BY DEF WipeRange
<1>2. p \in Partition /\ RangeShape(p)
  BY DEF RangesInv
<1>3. RangesInv' /\ HistoryCut' /\ WipeInv' /\ PastIsBelow' /\ CoverInv' /\ RowsInv'
  <2>1. CASE ~Detached(p)
    <3>1. UNCHANGED present /\ DetachStep(p)
      BY <1>1, <2>1
    <3>2. PICK q : /\ parts' = (parts \ {p}) \cup {q}
                   /\ \/ ~p.pending /\ p.off < Tables /\ q = [p EXCEPT !.off = @ + 1]
                      \/ p.pending /\ q = [p EXCEPT !.pending = FALSE]
      BY <3>1 DEF DetachStep, Becomes
    <3>3. q \in Partition /\ q.lo = p.lo /\ q.hi = p.hi /\ RangeShape(q) /\ q.state = p.state /\ q.off >= p.off
      BY <1>1, <1>2, <2>1, <3>2, DetachShape
    <3> QED BY <1>0, <1>1, <3>1, <3>2, <3>3, MoveRange
  <2>2. CASE Detached(p) /\ p.gone + 1 < Tables
    <3> DEFINE q == [p EXCEPT !.gone = @ + 1]
    <3>1. parts' = (parts \ {p}) \cup {q} /\ UNCHANGED present
      BY <1>1, <2>2 DEF DropStep, Becomes
    <3>2. /\ q \in Partition /\ q.lo = p.lo /\ q.hi = p.hi /\ RangeShape(q) /\ q.state = p.state /\ q.off = p.off
      BY <1>1, <1>2, <2>2, DetachedShape
    <3>3. q.off >= p.off
      BY <1>2, <3>2, PartitionFields
    <3> HIDE DEF q
    <3> QED BY <1>0, <1>1, <3>1, <3>2, <3>3, MoveRange
  <2>3. CASE Detached(p) /\ ~(p.gone + 1 < Tables)
    <3>1. parts' = parts \ {p} /\ present' = {n \in present : ~Holds(p, n)}
      BY <1>1, <2>3 DEF DropStep
    <3> QED BY <1>0, <1>1, <3>1, ForgetRange
  <2> QED BY <2>1, <2>2, <2>3
<1>4. mark # "none" /\ ret.pc = "idle"
  BY <1>0 DEF ProcessInv, Up
<1>5. ProcessInv'
  BY <1>0, <1>4 DEF ProcessInv, Up
<1>6. ArchivesInv'
  BY <1>0, <1>4 DEF ArchivesInv, PassInv, ArchivedBeforeDrop
<1> QED BY <1>3, <1>5, <1>6

-----------------------------------------------------------------------------
(* Retention finishes the ranges past the watermark *)

LEMMA DetachStepInv ==
    ASSUME RetentionInv, DetachRange
    PROVE  RetentionInv'
<1> USE DEF RetentionInv
<1>0. /\ UNCHANGED <<present, peak, missingBlocks, fetched, cutAt, pruned, archives, mark, proc, ens, era>>
      /\ ret.pc = "detach" /\ ret \in Pass /\ Up /\ mark = "none" /\ left \in Scenario
  BY DEF DetachRange, chainVars, ledgerVars, ProcessInv, Up, RowsInv
<1> DEFINE p == Current
<1>1. /\ ret.todo \in SUBSET Nat /\ ret.todo # {}
      /\ \A lo \in ret.todo : \E r \in parts : r.lo = lo /\ r.state # "attached"
      /\ p \in parts /\ p.lo = Min(ret.todo) /\ p.state = "detaching"
  BY <1>0, CurrentIs DEF ArchivesInv
<1> HIDE DEF p
<1>2. p \in Partition /\ RangeShape(p)
  BY <1>1 DEF RangesInv
<1>3. left' \in Scenario
  BY <1>0, SpendType DEF DetachRange, Trouble
<1>4. ASSUME NEW q \in Partition, q.lo = p.lo, q.hi = p.hi, RangeShape(q), q.state # "attached", q.off >= p.off, q.gone = p.gone,
             parts' = (parts \ {p}) \cup {q},
             \/ UNCHANGED ret /\ q.state = "detaching"
             \/ Goto("archive") /\ q.state = "detached"
             \/ PassEnds
      PROVE  RetentionInv'
  <2>1. RangesInv' /\ HistoryCut /\ HistoryCut' /\ WipeInv' /\ PastIsBelow' /\ CoverInv' /\ RowsInv'
    BY <1>0, <1>1, <1>3, <1>4, MoveRange
  <2>2. /\ ret' \in Pass
        /\ \/ ret'.pc = "idle"
           \/ ret'.todo = ret.todo /\ ret'.pc = "detach" /\ q.state = "detaching"
           \/ ret'.todo = ret.todo /\ ret'.pc = "archive" /\ q.state = "detached"
    <3>1. CASE UNCHANGED ret /\ q.state = "detaching"
      BY <1>0, <3>1
    <3>2. CASE Goto("archive") /\ q.state = "detached"
      BY <1>0, <3>2, GotoIs DEF PassPcs
    <3>3. CASE PassEnds
      BY <1>0, <3>3, PassType DEF PassEnds
    <3> QED BY <1>4, <3>1, <3>2, <3>3
  <2>3. ProcessInv'
    BY <1>0, <2>1, <2>2 DEF ProcessInv, Up
  <2>4. PassInv'
    <3>1. \A lo \in ret.todo : \E r \in parts' : r.lo = lo /\ r.state # "attached"
      BY <1>1, <1>4
    <3>2. q \in parts' /\ q.lo = Min(ret.todo)
      BY <1>1, <1>4
    <3> QED BY <1>1, <2>1, <2>2, <3>1, <3>2, PassNext
  <2>5. ArchivedBeforeDrop'
    <3>1. \A r \in parts : \A t \in 1..r.gone : [lo |-> r.lo, table |-> t, era |-> era] \in archives
      BY <1>0 DEF ArchivesInv, ArchivedBeforeDrop
    <3> QED BY <1>0, <1>1, <1>4, <3>1 DEF ArchivedBeforeDrop
  <2>6. ArchivesInv'
    BY <1>0, <2>2, <2>4, <2>5 DEF ArchivesInv
  <2> QED BY <2>1, <2>3, <2>6
<1>5. CASE DetachStep(p) /\ UNCHANGED ret
  <2>1. ~Detached(p)
    <3>1. p.pending \in BOOLEAN /\ p.off \in Nat /\ Tables \in Nat
      BY <1>2, PartitionFields, LedgerRetentionAssumption
    <3> QED BY <1>5, <3>1 DEF DetachStep, Detached
  <2>2. PICK q : /\ parts' = (parts \ {p}) \cup {q}
                 /\ \/ ~p.pending /\ p.off < Tables /\ q = [p EXCEPT !.off = @ + 1]
                    \/ p.pending /\ q = [p EXCEPT !.pending = FALSE]
    BY <1>5 DEF DetachStep, Becomes
  <2>3. /\ q \in Partition /\ q.lo = p.lo /\ q.hi = p.hi /\ RangeShape(q) /\ q.state = p.state /\ q.off >= p.off
        /\ q.gone = p.gone
    BY <1>1, <1>2, <2>1, <2>2, DetachShape
  <2> QED BY <1>1, <1>4, <1>5, <2>2, <2>3
<1>6. CASE DetachWait(p) /\ PassEnds
  <2>1. ~Detached(p)
    <3>1. p.pending \in BOOLEAN /\ p.off \in Nat /\ Tables \in Nat
      BY <1>2, PartitionFields, LedgerRetentionAssumption
    <3> QED BY <1>6, <3>1 DEF DetachWait, Detached
  <2>2. CASE parts' = parts
    <3>1. ret' \in Pass /\ ret'.pc = "idle"
      BY <1>0, <1>6, PassType DEF PassEnds
    <3>2. cutAt \in Nat
      BY DEF ProcessInv
    <3> QED BY <1>0, <1>3, <2>2, <3>1, <3>2, RetFrame
  <2>3. CASE ~p.pending /\ Becomes(p, [p EXCEPT !.off = @ + 1, !.pending = TRUE])
    <3>1. p.off < Tables
      BY <1>6, <2>3 DEF DetachWait
    <3>2. PICK q : parts' = (parts \ {p}) \cup {q} /\ q = [p EXCEPT !.off = @ + 1, !.pending = TRUE]
      BY <2>3 DEF Becomes
    <3>3. /\ q \in Partition /\ q.lo = p.lo /\ q.hi = p.hi /\ RangeShape(q) /\ q.state = p.state /\ q.off >= p.off
          /\ q.gone = p.gone
      BY <1>1, <1>2, <2>1, <2>3, <3>1, <3>2, DetachShape
    <3> QED BY <1>1, <1>4, <1>6, <3>2, <3>3
  <2> QED BY <1>6, <2>2, <2>3 DEF DetachWait
<1>7. CASE Detached(p) /\ Becomes(p, [p EXCEPT !.state = "detached"]) /\ Goto("archive")
  <2>1. PICK q : parts' = (parts \ {p}) \cup {q} /\ q = [p EXCEPT !.state = "detached"]
    BY <1>7 DEF Becomes
  <2>2. /\ q \in Partition /\ q.lo = p.lo /\ q.hi = p.hi /\ RangeShape(q) /\ q.state = "detached" /\ q.off = p.off
        /\ q.gone = p.gone
    BY <1>1, <1>2, <1>7, <2>1, DetachedShape
  <2>3. q.off >= p.off
    BY <1>2, <2>2, PartitionFields
  <2> QED BY <1>4, <1>7, <2>1, <2>2, <2>3
<1> QED BY <1>5, <1>6, <1>7 DEF DetachRange, p

LEMMA ArchiveStep ==
    ASSUME RetentionInv, ArchiveRange
    PROVE  RetentionInv'
<1> USE DEF RetentionInv
<1>0. /\ UNCHANGED <<present, peak, missingBlocks, fetched, parts, cutAt, pruned, mark, proc, ens, era>>
      /\ ret.pc = "archive" /\ ret \in Pass /\ Up /\ mark = "none" /\ left \in Scenario /\ cutAt \in Nat
  BY DEF ArchiveRange, chainVars, rangeVars, ProcessInv, Up, RowsInv
<1> DEFINE p == Current
           rest == (1..Tables) \ Archived(p.lo)
<1>1. /\ ret.todo \in SUBSET Nat /\ ret.todo # {}
      /\ \A lo \in ret.todo : \E r \in parts : r.lo = lo /\ r.state # "attached"
      /\ p \in parts /\ p.lo = Min(ret.todo) /\ p.state = "detached"
  BY <1>0, CurrentIs DEF ArchivesInv
<1>2. p.lo \in Nat
  BY <1>1, PartitionFields DEF RangesInv
<1>3. left' \in Scenario
  BY <1>0, SpendType DEF ArchiveRange, Trouble
<1>4. RangesInv' /\ PastIsBelow' /\ RowsInv'
  BY <1>0, <1>3, RangesFrame, PastFrame, RowsFrame
<1>5. CoverInv'
  BY <1>0, CoverFrame DEF Up
<1>6. WipeInv'
  BY <1>0, WipeQuiet DEF Up
<1>7. archives \subseteq [lo : Nat, table : 1..Tables, era : Nat] /\ era \in Nat /\ \A a \in archives : a.era = era
  BY <1>0 DEF ArchivesInv
<1>8. /\ \/ rest = {} /\ Goto("drop") /\ UNCHANGED archives
         \/ rest # {} /\ UNCHANGED ret /\ archives' = archives \cup {[lo |-> p.lo, table |-> Min(rest), era |-> era]}
         \/ PassEnds /\ UNCHANGED archives
  BY DEF ArchiveRange
<1> HIDE DEF p
<1>9. ASSUME rest = {}, NEW t \in 1..Tables PROVE [lo |-> p.lo, table |-> t, era |-> era] \in archives
  <2>1. PICK a \in archives : a.lo = p.lo /\ a.table = t
    BY <1>9 DEF Archived
  <2>2. a \in [lo : Nat, table : 1..Tables, era : Nat] /\ a.era = era
    BY <1>7, <2>1
  <2>3. a = [lo |-> p.lo, table |-> t, era |-> era]
    BY <2>1, <2>2
  <2> QED BY <2>1, <2>3
<1>10. rest # {} => Min(rest) \in 1..Tables
  <2>1. rest \in SUBSET Nat
    BY LedgerRetentionAssumption
  <2>2. rest # {} => Min(rest) \in rest
    <3> HIDE DEF rest
    <3> QED BY <2>1, MinOfNaturals
  <2> QED BY <2>2
<1> HIDE DEF rest
<1>11. archives \subseteq archives' /\ archives' \subseteq [lo : Nat, table : 1..Tables, era : Nat] /\ \A a \in archives' : a.era = era
  BY <1>2, <1>7, <1>8, <1>10
<1>12. /\ ret' \in Pass
       /\ \/ ret'.pc = "idle"
          \/ ret'.todo = ret.todo /\ ret'.pc \in {"archive", "drop"}
       /\ ret'.pc = "drop" => rest = {}
  <2>1. CASE rest = {} /\ Goto("drop")
    BY <1>0, <2>1, GotoIs DEF PassPcs
  <2>2. CASE UNCHANGED ret
    BY <1>0, <2>2
  <2>3. CASE PassEnds
    BY <1>0, <2>3, PassType DEF PassEnds
  <2> QED BY <1>8, <2>1, <2>2, <2>3
<1>13. ProcessInv'
  BY <1>0, <1>12 DEF ProcessInv, Up
<1>14. PassInv'
  BY <1>0, <1>1, <1>4, <1>12, PassNext
<1>15. ret'.pc = "drop" => \A t \in 1..Tables : [lo |-> Min(ret'.todo), table |-> t, era |-> era] \in archives'
  BY <1>1, <1>9, <1>11, <1>12
<1>16. ArchivedBeforeDrop'
  BY <1>0, <1>11 DEF ArchivesInv, ArchivedBeforeDrop
<1>17. ArchivesInv'
  BY <1>0, <1>7, <1>11, <1>14, <1>15, <1>16 DEF ArchivesInv
<1> QED BY <1>4, <1>5, <1>6, <1>13, <1>17
LEMMA DropStepInv ==
    ASSUME RetentionInv, DropRange
    PROVE  RetentionInv'
<1> USE DEF RetentionInv
<1>0. /\ UNCHANGED <<peak, missingBlocks, fetched, cutAt, pruned, archives, mark, proc, ens, era>>
      /\ ret.pc = "drop" /\ ret \in Pass /\ Up /\ mark = "none" /\ left \in Scenario /\ cutAt \in Nat
  BY DEF DropRange, ledgerVars, ProcessInv, Up, RowsInv
<1> DEFINE p == Current
           rest == ret.todo \ {p.lo}
<1>1. /\ ret.todo \in SUBSET Nat /\ ret.todo # {}
      /\ \A lo \in ret.todo : \E r \in parts : r.lo = lo /\ r.state # "attached"
      /\ p \in parts /\ p.lo = Min(ret.todo) /\ p.state = "detached"
  BY <1>0, CurrentIs DEF ArchivesInv
<1>2. left' \in Scenario
  BY <1>0, SpendType DEF DropRange, Trouble
<1>3. \/ ret' = FinishFrom(rest) /\ UNCHANGED <<parts, present>>
      \/ DropStep(p) /\ (IF p.gone + 1 < Tables THEN UNCHANGED ret ELSE ret' = FinishFrom(rest))
      \/ PassEnds /\ UNCHANGED <<parts, present>>
  BY DEF DropRange
<1> HIDE DEF p
<1>4. p \in Partition /\ RangeShape(p) /\ Detached(p)
  BY <1>1 DEF RangesInv, RangeShape
<1>5. \A t \in 1..Tables : [lo |-> p.lo, table |-> t, era |-> era] \in archives
  BY <1>0, <1>1 DEF ArchivesInv
<1>6. \A r \in parts : \A t \in 1..r.gone : [lo |-> r.lo, table |-> t, era |-> era] \in archives
  BY <1>0 DEF ArchivesInv, ArchivedBeforeDrop
<1>7. /\ rest \in SUBSET Nat
      /\ \A lo \in rest : \E r \in parts \ {p} : r.lo = lo /\ r.state # "attached"
      /\ rest # {} => Min(rest) \in rest
  <2>1. rest \in SUBSET Nat
    BY <1>1
  <2>2. \A lo \in rest : \E r \in parts \ {p} : r.lo = lo /\ r.state # "attached"
    BY <1>1
  <2>3. rest # {} => Min(rest) \in rest
    <3> HIDE DEF rest
    <3> QED BY <2>1, MinOfNaturals
  <2> QED BY <2>1, <2>2, <2>3
<1> HIDE DEF rest
<1>8. /\ FinishFrom(rest) \in Pass /\ FinishFrom(rest).todo = rest /\ FinishFrom(rest).pc \in {"prune", "detach", "archive"}
      /\ FinishFrom(rest).pc # "prune" =>
            /\ rest # {}
            /\ \E r \in parts : /\ r.lo = Min(rest)
                                /\ r.state = (IF FinishFrom(rest).pc = "detach" THEN "detaching" ELSE "detached")
  <2>1. RangesInv /\ ret \in Pass /\ rest \in SUBSET Nat
    BY <1>0, <1>7
  <2>2. rest # {} => \E r \in parts : r.lo = Min(rest) /\ r.state # "attached"
    BY <1>7
  <2> QED BY <2>1, <2>2, FinishIs, Zenon
<1>9. \A r \in parts : rest # {} /\ r.lo = Min(rest) => r # p
  <2>1. SUFFICES ASSUME NEW r \in parts, rest # {}, r.lo = Min(rest) PROVE r # p
    OBVIOUS
  <2>2. PICK s \in parts \ {p} : s.lo = Min(rest)
    BY <1>7, <2>1
  <2> QED BY <1>1, <2>1, <2>2, OneRange
<1>10. ASSUME ret' = FinishFrom(rest), RangesInv', parts \ {p} \subseteq parts', parts' \subseteq parts,
              HistoryCut'
       PROVE  ProcessInv' /\ ArchivesInv'
  <2>1. ProcessInv'
    BY <1>0, <1>8, <1>10 DEF ProcessInv, Up
  <2>2. PassInv'
    <3>1. \A lo \in rest : \E r \in parts' : r.lo = lo /\ r.state # "attached"
      BY <1>7, <1>10
    <3>2. ret'.pc # "prune" =>
            /\ rest # {}
            /\ \E r \in parts' : /\ r.lo = Min(rest)
                                 /\ r.state = (IF ret'.pc = "detach" THEN "detaching" ELSE "detached")
      BY <1>8, <1>9, <1>10
    <3> QED BY <1>8, <1>10, <3>1, <3>2, PassNext
  <2>3. ArchivedBeforeDrop'
    BY <1>0, <1>6, <1>10 DEF ArchivedBeforeDrop
  <2>4. ArchivesInv'
    BY <1>0, <1>8, <1>10, <2>2, <2>3 DEF ArchivesInv
  <2> QED BY <2>1, <2>4
<1>11. CASE ret' = FinishFrom(rest) /\ UNCHANGED <<parts, present>>
  <2>1. RangesInv' /\ PastIsBelow' /\ RowsInv'
    BY <1>0, <1>2, <1>11, RangesFrame, PastFrame, RowsFrame
  <2>2. CoverInv' /\ WipeInv'
    BY <1>0, <1>11, CoverFrame, WipeQuiet DEF Up
  <2>3. HistoryCut'
    <3>1. ~HistoryCut => \A r \in parts : r.state = "attached"
      BY CutBounds
    <3>2. HistoryCut
      BY <1>1, <3>1
    <3> QED BY <1>11, <3>2 DEF HistoryCut
  <2> QED BY <1>10, <1>11, <2>1, <2>2, <2>3
<1>12. CASE DropStep(p) /\ p.gone + 1 < Tables /\ UNCHANGED ret
  <2>1. PICK q : parts' = (parts \ {p}) \cup {q} /\ q = [p EXCEPT !.gone = @ + 1] /\ UNCHANGED present
    BY <1>12 DEF DropStep, Becomes
  <2>2. /\ q \in Partition /\ q.lo = p.lo /\ q.hi = p.hi /\ RangeShape(q) /\ q.state = "detached" /\ q.off = p.off
    BY <1>1, <1>4, <1>12, <2>1, DetachedShape
  <2>3. q.off >= p.off /\ q.gone \in Nat /\ q.gone <= Tables
    BY <1>4, <2>2, PartitionFields
  <2>4. RangesInv' /\ HistoryCut' /\ WipeInv' /\ PastIsBelow' /\ CoverInv' /\ RowsInv'
    BY <1>0, <1>1, <1>2, <2>1, <2>2, <2>3, MoveRange
  <2>5. ProcessInv'
    BY <1>0, <1>12, <2>4 DEF ProcessInv, Up
  <2>6. PassInv'
    <3>1. \A lo \in ret.todo : \E r \in parts' : r.lo = lo /\ r.state # "attached"
      BY <1>1, <2>1, <2>2
    <3>2. q \in parts' /\ q.lo = Min(ret.todo)
      BY <1>1, <2>1, <2>2
    <3> QED BY <1>0, <1>1, <1>12, <2>2, <2>4, <3>1, <3>2, PassNext
  <2>7. ArchivedBeforeDrop'
    <3>1. \A t \in 1..q.gone : t \in 1..Tables
      BY <2>3, LedgerRetentionAssumption
    <3>2. \A t \in 1..q.gone : [lo |-> q.lo, table |-> t, era |-> era] \in archives
      BY <1>5, <2>2, <3>1
    <3> QED BY <1>0, <1>6, <2>1, <3>2 DEF ArchivedBeforeDrop
  <2>8. ArchivesInv'
    BY <1>0, <1>12, <2>6, <2>7 DEF ArchivesInv
  <2> QED BY <2>4, <2>5, <2>8
<1>13. CASE DropStep(p) /\ ~(p.gone + 1 < Tables) /\ ret' = FinishFrom(rest)
  <2>1. parts' = parts \ {p} /\ present' = {n \in present : ~Holds(p, n)}
    BY <1>13 DEF DropStep
  <2>2. RangesInv' /\ HistoryCut' /\ WipeInv' /\ PastIsBelow' /\ CoverInv' /\ RowsInv'
    BY <1>0, <1>1, <1>2, <2>1, ForgetRange
  <2> QED BY <1>10, <1>13, <2>1, <2>2
<1>14. CASE PassEnds /\ UNCHANGED <<parts, present>>
  <2>1. ret' \in Pass /\ ret'.pc = "idle"
    BY <1>0, <1>14, PassType DEF PassEnds
  <2> QED BY <1>0, <1>2, <1>14, <2>1, RetFrame
<1> QED BY <1>3, <1>11, <1>12, <1>13, <1>14
-----------------------------------------------------------------------------
(* Retention prunes the oldest attached range *)

\* An attached range lies above the watermark, so pruneOldest finds none below it.
LEMMA PruneOldestStep ==
    ASSUME RetentionInv, PruneOldest
    PROVE  RetentionInv'
<1> USE DEF RetentionInv
<1>0. /\ UNCHANGED <<present, peak, missingBlocks, fetched, cutAt, pruned, archives, mark, proc, ens, era, left>>
      /\ ret.pc = "prune" /\ ret \in Pass /\ Up /\ left' \in Scenario /\ cutAt \in Nat
  BY DEF PruneOldest, chainVars, ledgerVars, ProcessInv, Up, RowsInv
<1>1. ASSUME NEW p \in OldestAttached PROVE ~BelowWatermark(p)
  <2>1. p \in parts /\ p.state = "attached"
    BY DEF OldestAttached
  <2>2. p.lo \in Nat /\ p.hi \in Int /\ RangeShape(p) /\ p.lo >= HistoryFrom /\ pruned \in Nat
    BY <2>1, PartitionFields DEF RangesInv
  <2> QED BY <2>2, HistoryFromNat DEF BelowWatermark, RangeShape
<1>2. (Goto("advance") \/ PassEnds) /\ UNCHANGED parts
  BY <1>1 DEF PruneOldest
<1>3. ret' \in Pass /\ ret'.pc \in {"advance", "idle"}
  <2>1. CASE Goto("advance")
    BY <1>0, <2>1, GotoIs DEF PassPcs
  <2>2. CASE PassEnds
    BY <1>0, <2>2, PassType DEF PassEnds
  <2> QED BY <1>2, <2>1, <2>2
<1> QED BY <1>0, <1>2, <1>3, RetFrame

\* A range that prune_advance may take: the head is above it, and so is the highest range.
LEMMA HeadAbove ==
    ASSUME RetentionInv, NEW p \in parts, p.state = "attached", Advances(p)
    PROVE  /\ p.hi \in Nat /\ p.lo < p.hi /\ p.hi # Unbounded
           /\ p.hi - 1 + PruneFloorGap <= StoredHead
           /\ \E t \in parts \ {p} : Topmost(t)
<1> USE DEF RetentionInv
<1>1. p.lo \in Nat /\ p.hi \in Int /\ p.hi >= -1 /\ RangeShape(p)
  BY PartitionFields DEF RangesInv
<1>2. p.hi # Unbounded /\ p.lo < p.hi /\ p.hi \in Nat
  BY <1>1 DEF Advances, RangeShape
<1>3. PruneFloorGap \in Nat /\ PruneFloorGap >= 1 /\ StoredHead \in Nat
  BY LedgerRetentionAssumption, HeadIs
<1>4. p.hi - 1 + PruneFloorGap <= StoredHead
  BY <1>2, <1>3 DEF Advances
<1>5. StoredHead >= p.hi /\ StoredHead > 0
  BY <1>1, <1>2, <1>3, <1>4
<1>6. StoredHead \in Visible(1)
  BY <1>5, HeadIs
<1>7. PICK r \in parts : Holds(r, StoredHead)
  BY <1>6 DEF Visible
<1>8. r.lo \in Nat /\ r.hi \in Int /\ RangeShape(r)
  BY PartitionFields DEF RangesInv
<1>9. r # p
  BY <1>2, <1>3, <1>5, <1>7 DEF Holds
<1>10. r.hi # Unbounded /\ StoredHead < r.hi
  BY <1>7, <1>9 DEF RangesInv, RangesApart, Holds
<1>11. r.hi > p.hi
  BY <1>2, <1>3, <1>5, <1>8, <1>10
<1>12. PICK t \in parts : Topmost(t)
  BY DEF RangesInv
<1>13. t # p
  <2>1. SUFFICES ASSUME t = p PROVE FALSE
    OBVIOUS
  <2>2. r.hi <= p.hi
    BY <1>2, <1>12, <2>1 DEF Topmost
  <2> QED BY <1>2, <1>8, <1>11, <2>2
<1> QED BY <1>2, <1>4, <1>12, <1>13

\* Every block of it from block 1 up is stored.
LEMMA CompleteRange ==
    ASSUME RetentionInv, NEW p \in parts, p.state = "attached", p.hi \in Nat, p.hi # Unbounded, RangeComplete(p)
    PROVE  \A n \in p.lo..(p.hi - 1) : n > 0 => n \in present
<1> USE DEF RetentionInv
<1> DEFINE first == Max({p.lo, HistoryFrom, 1})
           S == {n \in present : Holds(p, n) /\ n >= first}
<1>1. p.lo \in Nat /\ HistoryFrom \in Nat /\ p.lo >= HistoryFrom
  BY PartitionFields, HistoryFromNat DEF RangesInv
<1>2. first \in {p.lo, HistoryFrom, 1} /\ first >= p.lo /\ first >= HistoryFrom /\ first >= 1
  <2>1. p.lo \in Int /\ HistoryFrom \in Int /\ 1 \in Int
    BY <1>1
  <2> QED BY <2>1, MaxOfThree
<1>3. first \in Nat
  BY <1>1, <1>2
<1>4. Cardinality(S) = p.hi - first
  BY DEF RangeComplete
<1>5. S \in SUBSET present /\ \A n \in S : n \in first..(p.hi - 1)
  <2>1. present \subseteq Nat
    BY HeadIs
  <2> QED BY <1>3, <2>1 DEF Holds
<1> HIDE DEF S, first
<1>6. SUFFICES ASSUME NEW n \in p.lo..(p.hi - 1), n > 0 PROVE n \in present
  OBVIOUS
<1>7. n \in first..(p.hi - 1)
  BY <1>1, <1>2, <1>3, <1>6
<1>8. first \in Int /\ p.hi - 1 \in Int /\ first <= p.hi - 1 /\ Cardinality(S) = (p.hi - 1) + 1 - first
  BY <1>3, <1>4, <1>7
<1>9. S \in SUBSET (first..(p.hi - 1))
  BY <1>5
<1>10. S = first..(p.hi - 1)
  BY <1>8, <1>9, FullInterval
<1> QED BY <1>5, <1>7, <1>10

\* No reorg reaches the day of its last block.
LEMMA ReorgDay ==
    ASSUME RetentionInv, mark = "none", NEW p \in parts, p.state = "attached", Advances(p), p.hi - 1 > 0
    PROVE  \E m \in 0..peak : m + MaxReorgDepth <= peak /\ Day(p.hi - 1) < Day(m)
<1> USE DEF RetentionInv
<1>1. p.hi \in Nat /\ p.lo < p.hi /\ p.hi # Unbounded /\ p.lo \in Nat
  BY HeadAbove, PartitionFields DEF RangesInv
<1>2. RangeComplete(p) /\ BeforeReorgDay(p)
  BY DEF Advances
<1>3. p.hi - 1 \in present /\ Holds(p, p.hi - 1)
  <2>1. p.hi - 1 \in p.lo..(p.hi - 1)
    BY <1>1
  <2>2. p.hi - 1 \in present
    BY <1>1, <1>2, <2>1, CompleteRange
  <2> QED BY <1>1, <2>1, <2>2 DEF Holds
<1>4. DayFloor # NoDay /\ Day(p.hi - 1) < DayFloor
  BY <1>2, <1>3 DEF BeforeReorgDay
<1> DEFINE below == {n \in Visible(1) : n <= StoredHead - PruneFloorGap}
<1>5. /\ MaxReorgDepth \in Nat /\ PruneFloorGap \in Nat /\ MaxReorgDepth <= PruneFloorGap
      /\ StoredHead \in Nat /\ peak \in Nat /\ pruned \in Nat
  BY LedgerRetentionAssumption, HeadIs DEF RowsInv, RangesInv
<1>6. below # {}
  <2>1. SUFFICES ASSUME below = {} PROVE FALSE
    OBVIOUS
  <2>2. pruned > 0 /\ DayFloor = Day(pruned)
    BY <1>4, <2>1 DEF DayFloor
  <2>3. pruned <= p.hi - 1
    BY <1>1, <1>5, HistoryFromNat DEF RangesInv
  <2>4. Day(pruned) <= Day(p.hi - 1) /\ Day(pruned) \in Nat /\ Day(p.hi - 1) \in Nat
    <3>1. p.hi - 1 \in Nat
      BY <1>1
    <3> QED BY <1>5, <2>3, <3>1, DayMonotone
  <2> QED BY <1>4, <2>2, <2>4
<1>7. DayFloor = Day(Max(below))
  BY <1>6 DEF DayFloor
<1>8. Max(below) \in below
  <2>1. below \subseteq present /\ IsFiniteSet(present) /\ present \subseteq Nat
    BY HeadIs
  <2> HIDE DEF below
  <2>2. IsFiniteSet(below) /\ below \in SUBSET Nat
    BY <2>1, FS_Subset
  <2> QED BY <1>6, <2>2, MaxOfFinite
<1>9. Max(below) \in Nat /\ Max(below) <= StoredHead - PruneFloorGap /\ StoredHead <= peak
  <2>1. Max(below) \in Visible(1) /\ Max(below) <= StoredHead - PruneFloorGap
    BY <1>8
  <2>2. Max(below) \in Nat
    BY <2>1, HeadIs
  <2>3. StoredHead = 0 \/ StoredHead \in present
    BY HeadIs
  <2>4. StoredHead <= peak
    BY <1>5, <2>3 DEF RowsInv
  <2> QED BY <2>1, <2>2, <2>4
<1> HIDE DEF below
<1>10. Max(below) \in 0..peak /\ Max(below) + MaxReorgDepth <= peak
  BY <1>5, <1>9
<1> QED BY <1>4, <1>7, <1>10
\* prune_advance: the watermark moves to the range's last block and the range goes past it.
LEMMA AdvanceStep ==
    ASSUME RetentionInv, PruneAdvance
    PROVE  RetentionInv'
<1> USE DEF RetentionInv
<1>0. /\ UNCHANGED <<present, peak, fetched, cutAt, archives, mark, proc, ens, era, left>>
      /\ ret.pc = "advance" /\ ret \in Pass /\ Up /\ mark = "none" /\ left \in Scenario /\ cutAt \in Nat
  BY DEF PruneAdvance, ProcessInv, Up, RowsInv
<1>1. CASE PassEnds /\ UNCHANGED <<missingBlocks, parts, pruned>>
  <2>1. ret' \in Pass /\ ret'.pc = "idle"
    BY <1>0, <1>1, PassType DEF PassEnds
  <2>2. left' \in Scenario /\ cutAt' \in Nat
    BY <1>0
  <2> QED BY <1>0, <1>1, <2>1, <2>2, RetFrame
<1>2. ASSUME NEW p \in OldestAttached, Advances(p),
             missingBlocks' = {n \in missingBlocks : n >= p.hi},
             Becomes(p, [p EXCEPT !.state = "detaching"]),
             pruned' = Max({pruned, p.hi - 1}),
             Pruned(p)
      PROVE  RetentionInv'
  <2>1. p \in parts /\ p.state = "attached" /\ \A r \in parts : r.state = "attached" => p.lo <= r.lo
    BY DEF OldestAttached
  <2>2. /\ p.hi \in Nat /\ p.lo < p.hi /\ p.hi # Unbounded
        /\ p.hi - 1 + PruneFloorGap <= StoredHead
    BY <1>2, <2>1, HeadAbove
  <2>3. PICK t \in parts \ {p} : Topmost(t)
    BY <1>2, <2>1, HeadAbove
  <2>4. p \in Partition /\ RangeShape(p) /\ p.lo \in Nat /\ p.lo >= HistoryFrom /\ pruned \in Nat
    BY <2>1, PartitionFields DEF RangesInv
  <2>5. p.off = 0 /\ ~p.pending /\ p.gone = 0
    <3>1. p.gone \in Nat /\ p.off \in Nat /\ Tables \in Nat /\ Tables > 0
      BY <2>4, PartitionFields, LedgerRetentionAssumption
    <3> QED BY <2>1, <2>4, <3>1 DEF RangeShape, Detached
  <2>6. PICK q : parts' = (parts \ {p}) \cup {q} /\ q = [p EXCEPT !.state = "detaching"]
    BY <1>2 DEF Becomes
  <2>7. /\ q \in Partition /\ q.lo = p.lo /\ q.hi = p.hi /\ q.state = "detaching" /\ q.off = 0 /\ q.gone = 0
        /\ q.pending = p.pending
    BY <2>4, <2>5, <2>6 DEF Partition
  <2>8. RangeShape(q)
    BY <2>2, <2>5, <2>7 DEF RangeShape
  <2>9. pruned' = p.hi - 1 /\ pruned' \in Nat /\ pruned <= pruned'
    <3>1. pruned <= p.hi - 1
      BY <2>2, <2>4, HistoryFromNat
    <3>2. p.hi - 1 \in Nat
      BY <2>2, <2>4
    <3>3. Max({pruned, p.hi - 1}) = IF pruned >= p.hi - 1 THEN pruned ELSE p.hi - 1
      BY <2>4, <3>2, MaxOfTwo
    <3> QED BY <1>2, <2>4, <3>1, <3>2, <3>3
  <2>10. Max({HistoryFrom', 1}) = p.hi /\ HistoryFrom' <= p.hi /\ HistoryFrom' \in Nat
    <3>1. HistoryFrom' = IF p.hi - 1 > 0 THEN p.hi ELSE 0
      BY <2>2, <2>9 DEF HistoryFrom
    <3>2. HistoryFrom' \in Nat /\ HistoryFrom' <= p.hi
      BY <2>2, <3>1
    <3>3. Max({HistoryFrom', 1}) = IF HistoryFrom' >= 1 THEN HistoryFrom' ELSE 1
      BY <3>2, MaxOfTwo
    <3> QED BY <2>2, <2>4, <3>1, <3>2, <3>3
  <2>11. \A r \in parts \ {p} : r.state = "attached" => r.lo >= p.hi
    <3>1. SUFFICES ASSUME NEW r \in parts \ {p}, r.state = "attached" PROVE r.lo >= p.hi
      OBVIOUS
    <3>2. r.lo \in Nat /\ r.hi \in Int /\ RangeShape(r) /\ p.lo <= r.lo
      BY <2>1, <3>1, PartitionFields DEF RangesInv
    <3>3. r.hi # Unbounded /\ (p.hi <= r.lo \/ r.hi <= p.lo)
      BY <2>1, <3>1 DEF RangesInv, RangesApart
    <3> QED BY <2>2, <2>4, <3>2, <3>3 DEF RangeShape
  <2>12. \A r \in parts \ {p} : r.state = "attached" => r.lo >= HistoryFrom'
    <3>1. \A r \in parts : r.lo \in Nat
      BY PartitionFields DEF RangesInv
    <3> QED BY <2>2, <2>10, <2>11, <3>1
  <2>13. /\ RangesInv' /\ HistoryCut /\ HistoryCut' /\ HighestBound' = HighestBound
         /\ \A n : (\E r \in parts' : Holds(r, n)) <=> \E r \in parts : Holds(r, n)
    <3>1. q.hi # Unbounded /\ q.state # "attached" /\ ens'.todo = ens.todo
      BY <1>0, <2>2, <2>7
    <3> QED BY <2>1, <2>3, <2>6, <2>7, <2>8, <2>9, <2>12, <3>1, ReplaceRange
  <2>14. WipeInv'
    BY <1>0 DEF WipeInv, Up
  <2>15. PastIsBelow'
    <3>1. \A r \in parts : r.state # "attached" => r.hi <= p.hi
      <4>1. SUFFICES ASSUME NEW r \in parts, r.state # "attached" PROVE r.hi <= p.hi
        OBVIOUS
      <4>2. Max({HistoryFrom, 1}) = pruned + 1
        BY <2>4, FirstRetained
      <4>3. r.hi <= pruned + 1 /\ r.hi \in Int
        BY <1>0, <4>1, <4>2, PartitionFields DEF PastIsBelow, RangesInv
      <4> QED BY <2>2, <2>4, <2>9, <4>3
    <3>2. \A r \in parts' : r \in parts \/ r.hi = p.hi
      BY <2>6, <2>7
    <3>3. \A r \in parts' : r.state # "attached" => r.hi <= p.hi
      BY <2>2, <3>1, <3>2
    <3> QED BY <2>10, <3>3 DEF PastIsBelow
  <2>16. CoverInv'
    <3>1. Gapless(Max({HistoryFrom, 1}))'
      <4>1. SUFFICES ASSUME NEW n \in p.hi..(HighestBound - 1) PROVE \E r \in parts : Holds(r, n)
        BY <2>10, <2>13 DEF Gapless
      <4>2. Max({HistoryFrom, 1}) = pruned + 1
        BY <2>4, FirstRetained
      <4>3. HighestBound \in Nat
        BY <2>13, TopIs
      <4>4. n \in (pruned + 1)..(HighestBound - 1)
        BY <2>2, <2>4, <2>9, <4>1, <4>3
      <4> QED BY <1>0, <2>13, <4>2, <4>4 DEF CoverInv, Gapless
    <3> QED BY <1>0, <3>1 DEF CoverInv, WipeFills, Up
  <2>17. RowsInv'
    <3>1. \A r \in parts' : r.state # "attached" /\ r.off = 0 => \A n \in r.lo..(r.hi - 1) : n > 0 => n \in present
      <4>1. \A n \in q.lo..(q.hi - 1) : n > 0 => n \in present
        BY <1>2, <2>1, <2>2, <2>7, CompleteRange DEF Advances
      <4>2. \A r \in parts : r.state # "attached" /\ r.off = 0 => \A n \in r.lo..(r.hi - 1) : n > 0 => n \in present
        BY <1>0 DEF RowsInv
      <4> QED BY <2>6, <4>1, <4>2
    <3>2. pruned' + MaxReorgDepth <= peak
      <4>1. /\ MaxReorgDepth \in Nat /\ PruneFloorGap \in Nat /\ MaxReorgDepth <= PruneFloorGap
            /\ StoredHead \in Nat /\ peak \in Nat
        BY LedgerRetentionAssumption, HeadIs DEF RowsInv
      <4>2. StoredHead = 0 \/ StoredHead \in present
        BY HeadIs
      <4>3. StoredHead <= peak
        BY <1>0, <4>1, <4>2 DEF RowsInv
      <4> QED BY <2>2, <2>9, <4>1, <4>3
    <3>3. pruned' > 0 => \E m \in 0..peak : m + MaxReorgDepth <= peak /\ Day(pruned') < Day(m)
      <4>1. p.hi - 1 > 0 => \E m \in 0..peak : m + MaxReorgDepth <= peak /\ Day(p.hi - 1) < Day(m)
        BY <1>0, <1>2, <2>1, ReorgDay
      <4> QED BY <2>9, <4>1
    <3>4. missingBlocks' \subseteq missingBlocks
      BY <1>2
    <3> QED BY <1>0, <3>1, <3>2, <3>3, <3>4 DEF RowsInv
  <2> DEFINE todo == PastWatermark \cup {p.lo}
  <2>18. /\ todo \in SUBSET Nat /\ todo # {}
         /\ \A lo \in todo \ {p.lo} : \E r \in parts : r.lo = lo /\ r.state # "attached"
    BY <2>4, PastIs
  <2>19. \A lo \in todo : \E r \in parts' : r.lo = lo /\ r.state # "attached"
    BY <2>1, <2>6, <2>7, <2>18
  <2>20. ret' = IF Min(todo) = p.lo THEN [ret EXCEPT !.pc = "detach", !.todo = todo] ELSE FinishFrom(todo)
    BY <1>2 DEF Pruned
  <2> HIDE DEF todo
  <2>21. Min(todo) \in todo
    BY <2>18, MinOfNaturals
  <2>22. /\ ret' \in Pass /\ ret'.todo = todo /\ ret'.pc \in {"prune", "detach", "archive"}
         /\ ret'.pc # "prune" => \E r \in parts' : /\ r.lo = Min(todo)
                                                   /\ r.state = (IF ret'.pc = "detach" THEN "detaching" ELSE "detached")
    <3>1. CASE Min(todo) = p.lo
      <4>1. ret' \in Pass /\ ret'.todo = todo /\ ret'.pc = "detach"
        BY <1>0, <2>18, <2>20, <3>1 DEF Pass
      <4> QED BY <2>6, <2>7, <3>1, <4>1
    <3>2. CASE Min(todo) # p.lo
      <4>1. ret' = FinishFrom(todo)
        BY <2>20, <3>2
      <4>2. \E r \in parts : r.lo = Min(todo) /\ r.state # "attached"
        BY <2>18, <2>21, <3>2
      <4>3. /\ ret' \in Pass /\ ret'.todo = todo /\ ret'.pc \in {"prune", "detach", "archive"}
            /\ ret'.pc # "prune" => \E r \in parts : /\ r.lo = Min(todo)
                                                     /\ r.state = (IF ret'.pc = "detach" THEN "detaching" ELSE "detached")
        BY <1>0, <2>18, <4>1, <4>2, FinishIs
      <4> QED BY <2>1, <2>6, <4>3
    <3> QED BY <3>1, <3>2
  <2>23. ProcessInv'
    BY <1>0, <2>13, <2>22 DEF ProcessInv, Up
  <2>24. PassInv'
    BY <2>13, <2>18, <2>19, <2>22, PassNext
  <2>25. ArchivedBeforeDrop'
    <3>1. \A r \in parts : \A k \in 1..r.gone : [lo |-> r.lo, table |-> k, era |-> era] \in archives
      BY <1>0 DEF ArchivesInv, ArchivedBeforeDrop
    <3>2. \A r \in parts' : r \in parts \/ r.gone = 0
      BY <2>6, <2>7
    <3>3. \A r \in parts' : \A k \in 1..r.gone : [lo |-> r.lo, table |-> k, era |-> era] \in archives
      BY <3>1, <3>2
    <3> QED BY <1>0, <3>3 DEF ArchivedBeforeDrop
  <2>26. ArchivesInv'
    BY <1>0, <2>22, <2>24, <2>25 DEF ArchivesInv
  <2> QED BY <2>13, <2>14, <2>15, <2>16, <2>17, <2>23, <2>26
<1> QED BY <1>1, <1>2 DEF PruneAdvance

-----------------------------------------------------------------------------
(* The inductive invariant *)

\* The ledger closer and the operator move none of its variables.
LEMMA LedgerStep ==
    ASSUME RetentionInv, \/ LedgerNextSpan \/ LedgerCloseSpan \/ LedgerGateTimeout \/ VerifySpan \/ LedgerCompact
                         \/ DropDependents \/ UNCHANGED retentionVars
    PROVE  RetentionInv'
<1>1. UNCHANGED <<present, peak, missingBlocks, fetched, parts, pruned, mark, proc, archives, era, cutAt, ens, ret, left>>
  BY DEF LedgerNextSpan, LedgerCloseSpan, LedgerGateTimeout, VerifySpan, LedgerCompact, DropDependents, retentionVars,
         chainVars, rangeVars, ledgerVars, procVars
<1> QED BY <1>1, AllFrame

LEMMA RetentionSteps ==
    ASSUME RetentionInv, [RetentionNext]_retentionVars
    PROVE  RetentionInv'
<1>1. CASE \/ Ingest \/ FindMissing \/ FetchMissing \/ WriteMissing \/ RevertStored
  BY <1>1, IngestStep, MissingStep, WriteMissingStep, RevertStep
<1>2. CASE KeepPartitionsAhead \/ Ensure \/ PassEnsure
  BY <1>2, KeepStep, CreateStep, ExtendStep, EnsureEndStep, PassEnsureStep DEF Ensure
<1>3. CASE \/ LedgerNextSpan \/ LedgerCloseSpan \/ LedgerGateTimeout \/ VerifySpan \/ LedgerCompact
           \/ DropDependents \/ UNCHANGED retentionVars
  BY <1>3, LedgerStep
<1>4. CASE Retention
  BY <1>4, CutStep, CutFinishStep, DetachStepInv, ArchiveStep, DropStepInv, PruneOldestStep, AdvanceStep DEF Retention
<1>5. CASE ProcessStop \/ ProcessStart
  BY <1>5, StopStep, StartStep, WipeChainStep, WipeForgetStep, WipeRangeStep, WipeCoverStep, WipeEndStep DEF ProcessStart
<1> QED BY <1>1, <1>2, <1>3, <1>4, <1>5 DEF RetentionNext

\* The inductive invariant of the ranges: the ranges of history_partitions lie apart and cover what is retained, a
\* range past the watermark keeps its rows until it is detached, and each wipe, cut, prune and drop is where its
\* own earlier steps have left it, whatever else runs (src/internal/db/retention.go, prune_advance, WipeAllData).
THEOREM RetentionInvariant == RetentionSpec => []RetentionInv
<1>1. RetentionInit => RetentionInv
  BY RetentionStarts
<1>2. RetentionInv /\ [RetentionNext]_retentionVars => RetentionInv'
  BY RetentionSteps
<1> QED BY <1>1, <1>2, PTL DEF RetentionSpec
-----------------------------------------------------------------------------
(* What the inductive invariant implies *)

\* A pruned range's table is dropped only once this chain's rows of it are archived: dropRange and archiveRange,
\* with passes that end early, restarts and wipes in between.
THEOREM TablesArchivedFirst == RetentionSpec => []ArchivedBeforeDrop
<1>1. RetentionInv => ArchivedBeforeDrop
  BY DEF RetentionInv, ArchivesInv
<1> QED BY <1>1, RetentionInvariant, PTL

\* From the first retained block up every block has exactly one range, an attached one, and no attached range lies
\* below: fillHistoryGaps, EnsureHistoryPartitions and history_cut_finish against prune_advance and a wipe.
THEOREM RetainedCovered == RetentionSpec => []RangesCovered
<1>1. ASSUME RetentionInv PROVE RangesCovered
  <2> USE <1>1 DEF RetentionInv
  <2>1. SUFFICES ASSUME mark = "none"
                 PROVE  /\ RangesApart
                        /\ \A p \in parts : IF p.state = "attached" THEN p.hi = Unbounded \/ p.hi > HistoryFrom
                                            ELSE p.hi # Unbounded /\ p.hi <= Max({HistoryFrom, 1})
                        /\ HistoryCut => Gapless(Max({HistoryFrom, 1}))
    BY DEF RangesCovered, RangesApart, Gapless
  <2>2. ASSUME NEW p \in parts
        PROVE  IF p.state = "attached" THEN p.hi = Unbounded \/ p.hi > HistoryFrom
               ELSE p.hi # Unbounded /\ p.hi <= Max({HistoryFrom, 1})
    <3>1. p.lo \in Nat /\ p.hi \in Int /\ RangeShape(p) /\ HistoryFrom \in Nat
      BY PartitionFields, HistoryFromNat DEF RangesInv
    <3>2. CASE p.state = "attached"
      <4>1. p.lo >= HistoryFrom
        BY <3>2 DEF RangesInv
      <4> QED BY <3>1, <3>2, <4>1 DEF RangeShape
    <3>3. CASE p.state # "attached"
      BY <2>1, <3>1, <3>3 DEF RangeShape, PastIsBelow
    <3> QED BY <3>2, <3>3
  <2> QED BY <2>1, <2>2 DEF RangesInv, CoverInv
<1> QED BY <1>1, RetentionInvariant, PTL

\* daily_stats_invalidate never refuses a revert within the reorg depth because its day is partly pruned: the floor
\* prune_advance keeps below the head outlasts every reorg and every later prune.
THEOREM ReorgDaysKept == RetentionSpec => []ReorgDayKept
<1>1. ASSUME RetentionInv PROVE ReorgDayKept
  <2> USE <1>1 DEF RetentionInv
  <2>1. SUFFICES ASSUME NEW n \in Visible(1), n > peak - MaxReorgDepth, pruned > 0, Day(n) <= Day(pruned)
                 PROVE  FALSE
    BY DEF ReorgDayKept, DayRefused
  <2>2. n \in present /\ n \in Nat
    BY HeadIs
  <2>3. mark = "none"
    <3>1. SUFFICES ASSUME mark # "none" PROVE FALSE
      OBVIOUS
    <3>2. PICK p \in parts : Holds(p, n) /\ p.off > 0
      BY <2>2, <3>1 DEF WipeInv
    <3>3. p.off = 0
      BY <2>1, <2>2, <3>2, VisibleIn
    <3> QED BY <3>2, <3>3
  <2>4. PICK m \in 0..peak : m + MaxReorgDepth <= peak /\ Day(pruned) < Day(m)
    BY <2>1, <2>3 DEF RowsInv
  <2>5. peak \in Nat /\ MaxReorgDepth \in Nat /\ pruned \in Nat
    BY LedgerRetentionAssumption DEF RowsInv, RangesInv
  <2>6. m \in Nat /\ m <= n
    BY <2>1, <2>2, <2>4, <2>5
  <2>7. Day(m) \in Nat /\ Day(n) \in Nat /\ Day(pruned) \in Nat /\ Day(m) <= Day(n)
    BY <2>2, <2>5, <2>6, DayMonotone
  <2> QED BY <2>1, <2>4, <2>7
<1> QED BY <1>1, RetentionInvariant, PTL

\* A block that a partition takes and no table has lies above the watermark.
LEMMA InsertedAbove ==
    ASSUME RetentionInv, mark = "none", pruned > 0, NEW n \in Nat, n > 0, n \notin present, Insertable(n)
    PROVE  n > pruned
<1> USE DEF RetentionInv
<1>1. PICK p \in parts : Holds(p, n) /\ p.off = 0
  BY DEF Insertable
<1>2. p.lo \in Nat /\ p.hi \in Int /\ RangeShape(p) /\ pruned \in Nat
  BY PartitionFields DEF RangesInv
<1>3. p.state = "attached"
  <2>1. SUFFICES ASSUME p.state # "attached" PROVE FALSE
    OBVIOUS
  <2>2. n \in p.lo..(p.hi - 1)
    BY <1>1, <1>2, <2>1 DEF Holds, RangeShape
  <2> QED BY <1>1, <2>1, <2>2 DEF RowsInv
<1>4. p.lo >= HistoryFrom
  BY <1>3 DEF RangesInv
<1> QED BY <1>1, <1>2, <1>4, HistoryFromNat DEF Holds

\* Only ingest and catch-up store a row.
LEMMA RowsOnlyStored ==
    ASSUME RetentionNext, ~Ingest, ~WriteMissing
    PROVE  present' \subseteq present
<1>1. CASE \/ FindMissing \/ FetchMissing \/ RevertStored \/ KeepPartitionsAhead \/ Ensure \/ PassEnsure
  BY <1>1 DEF FindMissing, FetchMissing, RevertStored, KeepPartitionsAhead, Ensure, CreateInGap, ExtendHistory, EnsureEnd,
              PassEnsure, chainVars
<1>2. CASE \/ LedgerNextSpan \/ LedgerCloseSpan \/ LedgerGateTimeout \/ VerifySpan \/ LedgerCompact \/ DropDependents
  BY <1>2 DEF LedgerNextSpan, LedgerCloseSpan, LedgerGateTimeout, VerifySpan, LedgerCompact, DropDependents, chainVars
<1>3. CASE Retention
  <2>1. CASE \/ RetentionPass \/ DropCutChecks \/ ReleaseAgain \/ CutStart \/ CutConstrain \/ CutValidate \/ CutFinish
    BY <2>1 DEF RetentionPass, DropCutChecks, ReleaseAgain, CutStart, CutConstrain, CutValidate, CutFinish, chainVars
  <2>2. CASE DetachRange \/ ArchiveRange \/ PruneOldest \/ PruneAdvance
    BY <2>2 DEF DetachRange, ArchiveRange, PruneOldest, PruneAdvance, chainVars
  <2>3. CASE DropRange
    BY <2>3 DEF DropRange, DropStep
  <2> QED BY <1>3, <2>1, <2>2, <2>3 DEF Retention
<1>4. CASE ProcessStop \/ ProcessStart
  <2>1. CASE ProcessStop \/ StartEnsure \/ StartRelease \/ StartRepair \/ StartReseed
    BY <2>1 DEF ProcessStop, StartEnsure, StartRelease, StartRepair, StartReseed, chainVars
  <2>2. CASE WipeLedger \/ WipeWatermark \/ WipeCover \/ WipeEnd
    BY <2>2 DEF WipeLedger, WipeWatermark, WipeCover, WipeEnd, chainVars
  <2>3. CASE WipeChain \/ WipeRange
    BY <2>3 DEF WipeChain, WipeRange, DropStep
  <2> QED BY <1>4, <2>1, <2>2, <2>3 DEF ProcessStart
<1> QED BY <1>1, <1>2, <1>3, <1>4 DEF RetentionNext

\* No write stores a block at or below the watermark again: neither ingest nor a block that catch-up's workers
\* fetched before prune_advance moved the watermark and write after it.
THEOREM PrunedNeverStored == RetentionSpec => PrunedStaysPruned
<1>1. ASSUME RetentionInv, RetentionNext
      PROVE  \A n \in present' \ present : pruned > 0 => n > pruned
  <2> USE <1>1 DEF RetentionInv
  <2>1. SUFFICES ASSUME NEW n \in present' \ present, pruned > 0 PROVE n > pruned
    OBVIOUS
  <2>2. CASE Ingest
    <3>1. PICK k \in {StoredHead + 1, StoredHead + 2} : Insertable(k) /\ present' = present \cup {k}
      BY <2>2 DEF Ingest, StoreRow
    <3>2. k = n /\ k \in Nat /\ k > 0
      BY <2>1, <3>1, HeadIs
    <3>3. mark = "none"
      BY <2>2 DEF Ingest, Up, ProcessInv
    <3> QED BY <2>1, <3>1, <3>2, <3>3, InsertedAbove
  <2>3. CASE WriteMissing
    <3>1. PICK k \in fetched : present' = present \/ (Insertable(k) /\ present' = present \cup {k})
      BY <2>3 DEF WriteMissing, StoreRow
    <3>2. k = n /\ Insertable(k)
      BY <2>1, <3>1
    <3>3. k \in Nat /\ k > 0
      BY LedgerRetentionAssumption DEF RowsInv
    <3>4. mark = "none"
      BY <2>3 DEF WriteMissing, Up, ProcessInv
    <3> QED BY <2>1, <3>2, <3>3, <3>4, InsertedAbove
  <2>4. CASE ~Ingest /\ ~WriteMissing
    BY <1>1, <2>1, <2>4, RowsOnlyStored
  <2> QED BY <2>2, <2>3, <2>4
<1>2. RetentionInv /\ [RetentionNext]_retentionVars => [\A n \in present' \ present : pruned > 0 => n > pruned]_retentionVars
  BY <1>1
<1> QED BY <1>2, RetentionInvariant, PTL DEF RetentionSpec, PrunedStaysPruned
=============================================================================
