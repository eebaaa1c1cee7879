--------------------------- MODULE BackfillProofs ---------------------------
(***************************************************************************)
(* Proofs about StatsBackfill for every start block, batch and span size   *)
(* and every set of troubles: the type invariant, and that whatever fails  *)
(* or is applied without an answer, each block is counted once.            *)
(***************************************************************************)
EXTENDS StatsBackfill, NaturalFacts, FiniteSetTheorems, TLAPS

USE DEF bfTables, Below

\* The sizes, without what BackfillAssumption says of the keys and the troubles.
LEMMA Sizes ==
    /\ Target \in Nat /\ AggregateFrom \in Nat /\ AggregateFrom > Target
    /\ BatchBlocks \in Nat \ {0} /\ SpanBlocks \in Nat \ {0} /\ StrictTries \in Nat \ {0}
BY BackfillAssumption

\* The smaller of two integers.
LEMMA MinOfTwo ==
    ASSUME NEW a \in Int, NEW b \in Int
    PROVE  Min({a, b}) = IF a <= b THEN a ELSE b
BY DEF Min

\* A finite set of naturals has a greatest one.
LEMMA MaxOfFinite ==
    ASSUME NEW S, S # {}, IsFiniteSet(S), S \subseteq Nat
    PROVE  Max(S) \in S
<1>1. \E n \in S : \A m \in S : m <= n
  BY GreatestOfFinite
<1>2. \E n \in S : \A m \in S : n >= m
  BY <1>1
<1> QED BY <1>2 DEF Max

\* The larger of two integers.
LEMMA MaxOfTwo ==
    ASSUME NEW a \in Int, NEW b \in Int
    PROVE  Max({a, b}) \in {a, b}
<1>1. \E n \in {a, b} : \A m \in {a, b} : n >= m
  OBVIOUS
<1> QED BY <1>1 DEF Max

\* A block is inside its span, which ends at Target + 1 at the latest (spanOf).
LEMMA SpanBounds ==
    ASSUME NEW n \in Below
    PROVE  /\ SpanLo(n) \in 0 .. n
           /\ SpanHi(SpanLo(n)) \in n + 1 .. Target + 1
<1> USE Sizes
<1>1. /\ (n \div SpanBlocks) * SpanBlocks \in Nat
      /\ (n \div SpanBlocks) * SpanBlocks <= n
      /\ n < (n \div SpanBlocks) * SpanBlocks + SpanBlocks
  OBVIOUS
<1>2. ASSUME NEW lo \in Nat, lo <= n, n < lo + SpanBlocks
      PROVE  SpanHi(lo) \in n + 1 .. Target + 1
  <2>1. SpanHi(lo) = IF lo + SpanBlocks <= Target + 1 THEN lo + SpanBlocks ELSE Target + 1
    BY MinOfTwo DEF SpanHi
  <2> QED BY <1>2, <2>1
<1> QED BY <1>1, <1>2 DEF SpanLo

\* The keys of the blocks below START_BLOCK are finitely many.
LEMMA KeysFinite == IsFiniteSet(BalKey) /\ BalKey \subseteq Nat
<1> DEFINE sets == {KeysOf[n] : n \in Below}
<1>1. IsFiniteSet(Below)
  BY BackfillAssumption, FS_Interval
<1>2. IsFiniteSet(sets)
  <2> DEFINE keys == [n \in Below |-> KeysOf[n]]
  <2>1. keys \in Surjection(Below, sets)
    BY DEF Surjection
  <2> QED BY <1>1, <2>1, FS_Surjection
<1>3. \A S \in sets : IsFiniteSet(S) /\ S \subseteq Nat
  BY BackfillAssumption
<1>4. IsFiniteSet(UNION sets)
  <2> HIDE DEF sets
  <2> QED BY <1>2, <1>3, FS_UNION
<1> QED BY <1>3, <1>4 DEF BalKey

\* A batch starts after the progress, holds at least a block and at most BatchBlocks, and stays below START_BLOCK; what
\* is kept of it for a retry is of the retry's type.
LEMMA BatchBounds ==
    ASSUME BackfillTypeOK, Counting
    PROVE  /\ From \in Below /\ From = backfill.through + 1
           /\ To \in From + 1 .. Target + 1 /\ To <= From + BatchBlocks
           /\ Retry \in BatchRetry
           /\ Unfetched \subseteq Below
<1> USE Sizes
<1>1. From \in Below /\ From = backfill.through + 1
  <2>1. backfill.through \in -1 .. Target
    BY DEF BackfillTypeOK
  <2> QED BY <2>1 DEF Counting, From
<1>2. To \in From + 1 .. Target + 1 /\ To <= From + BatchBlocks
  <2>1. To = IF From + BatchBlocks <= Target + 1 THEN From + BatchBlocks ELSE Target + 1
    BY <1>1, MinOfTwo DEF To
  <2> QED BY <1>1, <2>1
<1>3. Retry \in BatchRetry
  <2>1. walker.retry \in BatchRetry
    BY DEF BackfillTypeOK, Walker
  <2>2. [from |-> From, to |-> To, fetched |-> {}, built |-> 0] \in BatchRetry
    BY <1>1, <1>2 DEF BatchRetry
  <2> QED BY <2>1, <2>2 DEF Retry
<1>4. Unfetched \subseteq Below
  BY <1>1, <1>2 DEF Unfetched
<1> QED BY <1>1, <1>2, <1>3, <1>4

-----------------------------------------------------------------------------
\* A record of copies is one of the three when its numbers are.
LEMMA CopyIs ==
    ASSUME NEW c \in Copy
    PROVE  /\ c = FreshCopy <=> c.running = 0 /\ c.stage = 0 /\ c.ledger = 0 /\ c.day = 0
           /\ c = Staged <=> c.running = 1 /\ c.stage = 1 /\ c.ledger = 0 /\ c.day = 1
           /\ c = InLedger <=> c.running = 1 /\ c.stage = 0 /\ c.ledger = 1 /\ c.day = 1
BY DEF Copy, FreshCopy, Staged, InLedger

LEMMA CopyType == FreshCopy \in Copy /\ Staged \in Copy /\ InLedger \in Copy
BY DEF Copy, FreshCopy, Staged, InLedger

\* A batch of counted blocks: each of its keys is kept at a block below START_BLOCK.
LEMMA KeysAdded ==
    ASSUME BackfillTypeOK, Counting, ApplyBatch
    PROVE  DOMAIN pendingKeys' \subseteq BalKey /\ pendingKeys' \in [DOMAIN pendingKeys' -> Below]
<1>1. From \in Below /\ To \in From + 1 .. Target + 1
  BY BatchBounds
<1>2. DOMAIN pendingKeys \subseteq BalKey /\ pendingKeys \in [DOMAIN pendingKeys -> Below]
  BY DEF BackfillTypeOK
<1>3. KeysOfBatch \subseteq BalKey
  BY <1>1, Sizes DEF KeysOfBatch, BalKey
<1>4. ASSUME NEW k \in KeysOfBatch PROVE NewestOf(k) \in Below
  <2> DEFINE here  == {n \in From .. To - 1 : k \in KeysOf[n]}
             noted == IF k \in DOMAIN pendingKeys THEN {pendingKeys[k]} ELSE {}
  <2>1. here \cup noted \subseteq Below
    BY <1>1, <1>2, Sizes
  <2>2. here # {}
    BY DEF KeysOfBatch
  <2>3. IsFiniteSet(here \cup noted)
    <3>1. IsFiniteSet(Below)
      BY Sizes, FS_Interval
    <3> QED BY <2>1, <3>1, FS_Subset
  <2>4. Max(here \cup noted) \in here \cup noted
    <3> HIDE DEF here, noted
    <3> QED BY <2>1, <2>2, <2>3, MaxOfFinite
  <2> QED BY <2>1, <2>4 DEF NewestOf
<1>5. pendingKeys' = [k \in DOMAIN pendingKeys \cup KeysOfBatch |-> IF k \in KeysOfBatch THEN NewestOf(k) ELSE pendingKeys[k]]
  BY DEF ApplyBatch
<1> QED BY <1>2, <1>3, <1>4, <1>5

\* The heart of it: a batch applied once brings each of its blocks to one copy, in the ledger where the batch reaches
\* the end of the span and in the stage where it does not, and leaves the copies of every other block right.
LEMMA BatchCounted ==
    ASSUME BackfillInv, Counting, ApplyBatch
    PROVE  /\ backfill'.through = To - 1 /\ backfill'.complete = backfill.complete
           /\ backfill' \in [exists : BOOLEAN, through : -1 .. Target, complete : BOOLEAN]
           /\ copies' \in [Below -> Copy]
           /\ closedSpans' \subseteq Below
           /\ \A lo \in closedSpans' : SpanHi(lo) <= To
           /\ \A n \in Below :
                copies'[n] = IF n > To - 1 THEN FreshCopy ELSE IF SpanLo(n) \in closedSpans' THEN InLedger ELSE Staged
<1> DEFINE batch == From .. To - 1
           los   == {SpanLo(n) : n \in batch}
<1>1. From \in Below /\ From = backfill.through + 1 /\ To \in From + 1 .. Target + 1 /\ Target \in Nat
  BY BatchBounds, Sizes DEF BackfillInv
<1>2. backfill' = [backfill EXCEPT !.through = To - 1]
  BY DEF ApplyBatch
<1>3. closedSpans' = closedSpans \cup {lo \in los : SpanHi(lo) <= To}
  BY DEF ApplyBatch
<1>4. ASSUME NEW n \in Below
      PROVE  copies'[n] = [(IF SpanLo(n) \in los THEN InSpan(n, SpanHi(SpanLo(n))) ELSE copies[n])
                             EXCEPT !.running = @ + (IF n \in batch THEN 1 ELSE 0), !.day = InDay(n)]
  BY DEF ApplyBatch
<1>5. /\ backfill \in [exists : BOOLEAN, through : -1 .. Target, complete : BOOLEAN]
      /\ closedSpans \subseteq Below
      /\ \A lo \in closedSpans : SpanHi(lo) <= From
  BY <1>1 DEF BackfillInv, BackfillTypeOK
<1>6. batch \subseteq Below
  BY <1>1
<1>7. \A n \in Below : SpanLo(n) \in 0 .. n /\ SpanHi(SpanLo(n)) \in n + 1 .. Target + 1
  BY SpanBounds
<1>8. closedSpans' \subseteq Below /\ \A lo \in closedSpans' : SpanHi(lo) <= To
  <2>1. \A lo \in los : lo \in Below
    BY <1>1, <1>6, <1>7
  <2>2. \A lo \in closedSpans : lo \in Below /\ SpanHi(lo) <= To
    <3>1. \A lo \in Below : SpanHi(lo) \in Int
      <4> TAKE lo \in Below
      <4>1. SpanHi(lo) = IF lo + SpanBlocks <= Target + 1 THEN lo + SpanBlocks ELSE Target + 1
        BY Sizes, MinOfTwo DEF SpanHi
      <4> QED BY <4>1, Sizes
    <3> QED BY <1>1, <1>5, <3>1
  <2> QED BY <1>3, <2>1, <2>2
<1>9. ASSUME NEW n \in Below
      PROVE  /\ copies'[n] \in Copy
             /\ copies'[n] = IF n > To - 1 THEN FreshCopy ELSE IF SpanLo(n) \in closedSpans' THEN InLedger ELSE Staged
  <2> DEFINE lo   == SpanLo(n)
             hi   == SpanHi(SpanLo(n))
             plus == IF n \in batch THEN 1 ELSE 0
             moved == IF lo \in los THEN InSpan(n, hi) ELSE copies[n]
  <2>1. n \in Int /\ hi \in n + 1 .. Target + 1 /\ copies[n] \in Copy /\ plus \in Nat
    BY <1>1, <1>7 DEF BackfillInv, BackfillTypeOK
  <2>2. copies[n] = IF n > From - 1 THEN FreshCopy ELSE IF lo \in closedSpans THEN InLedger ELSE Staged
    <3>1. copies[n] = IF n > backfill.through THEN FreshCopy ELSE IF lo \in closedSpans THEN InLedger ELSE Staged
      BY DEF BackfillInv, BackfilledOnce
    <3>2. backfill.through = From - 1
      BY <1>1, <1>5
    <3> QED BY <3>1, <3>2
  <2>3. lo \in los => lo \notin closedSpans
    <3>1. SUFFICES ASSUME NEW m \in batch, SpanLo(m) \in closedSpans PROVE FALSE
      OBVIOUS
    <3>2. m \in Below /\ SpanHi(SpanLo(m)) \in m + 1 .. Target + 1 /\ SpanHi(SpanLo(m)) <= From /\ From <= m
      BY <1>1, <1>5, <1>6, <1>7, <3>1
    <3> QED BY <1>1, <3>2
  <2>4. copies[n].running \in Nat /\ copies[n].stage \in Nat /\ copies[n].ledger \in Nat /\ copies[n].day \in Nat
    BY <2>1 DEF Copy
  <2>5. /\ moved \in Copy /\ moved.running = copies[n].running
        /\ moved.stage = IF lo \in los THEN IF hi <= To THEN 0 ELSE copies[n].stage + plus ELSE copies[n].stage
        /\ moved.ledger = IF lo \in los /\ hi <= To THEN copies[n].ledger + (copies[n].stage + plus) ELSE copies[n].ledger
    <3>1. CASE lo \in los /\ hi <= To
      <4> DEFINE sum == copies[n].ledger + (copies[n].stage + plus)
      <4>1. moved = [copies[n] EXCEPT !.ledger = sum, !.stage = 0]
        BY <3>1 DEF InSpan
      <4>2. sum \in Nat /\ 0 \in Nat
        BY <2>1, <2>4
      <4>3. moved \in Copy /\ moved.running = copies[n].running /\ moved.stage = 0 /\ moved.ledger = sum
        <5> HIDE DEF moved, sum
        <5> QED BY <2>1, <4>1, <4>2 DEF Copy
      <4> HIDE DEF moved
      <4> QED BY <3>1, <4>3
    <3>2. CASE lo \in los /\ ~(hi <= To)
      <4> DEFINE sum == copies[n].stage + plus
      <4>1. moved = [copies[n] EXCEPT !.stage = sum]
        BY <3>2 DEF InSpan
      <4>2. sum \in Nat
        BY <2>1, <2>4
      <4>3. moved \in Copy /\ moved.running = copies[n].running /\ moved.stage = sum /\ moved.ledger = copies[n].ledger
        <5> HIDE DEF moved, sum
        <5> QED BY <2>1, <4>1, <4>2 DEF Copy
      <4> HIDE DEF moved
      <4> QED BY <3>2, <4>3
    <3>3. CASE lo \notin los
      BY <2>1, <3>3
    <3> QED BY <3>1, <3>2, <3>3
  <2>6. /\ copies'[n] \in Copy
        /\ copies'[n].running = copies[n].running + plus /\ copies'[n].day = copies[n].day + plus
        /\ copies'[n].stage = moved.stage /\ copies'[n].ledger = moved.ledger
    <3> DEFINE run == moved.running + plus
               day == copies[n].day + plus
    <3>1. copies'[n] = [moved EXCEPT !.running = run, !.day = day]
      BY <1>4 DEF InDay, DayParts
    <3>2. run \in Nat /\ day \in Nat /\ run = copies[n].running + plus
      BY <2>1, <2>4, <2>5
    <3>3. /\ copies'[n] \in Copy /\ copies'[n].running = run /\ copies'[n].day = day
          /\ copies'[n].stage = moved.stage /\ copies'[n].ledger = moved.ledger
      <4> HIDE DEF moved, run, day
      <4> QED BY <2>5, <3>1, <3>2 DEF Copy
    <3> QED BY <3>2, <3>3
  <2>7. CASE n \in batch
    <3>1. lo \in los /\ n > From - 1 /\ ~(n > To - 1) /\ plus = 1
      BY <1>1, <2>1, <2>7
    <3>2. lo \in closedSpans' <=> hi <= To
      BY <1>3, <2>3, <3>1
    <3>3. copies[n] = FreshCopy
      BY <2>2, <3>1
    <3>4. copies[n].running = 0 /\ copies[n].stage = 0 /\ copies[n].ledger = 0 /\ copies[n].day = 0
      BY <2>1, <3>3, CopyIs
    <3> HIDE DEF moved, lo, hi, los, plus
    <3>5. copies'[n] = IF hi <= To THEN InLedger ELSE Staged
      BY <2>5, <2>6, <3>1, <3>4, CopyIs
    <3> QED BY <2>6, <3>1, <3>2, <3>5 DEF lo
  <2>8. CASE n > To - 1
    <3>1. n > From - 1 /\ plus = 0 /\ ~(hi <= To)
      BY <1>1, <2>1, <2>8
    <3>2. copies[n].running = 0 /\ copies[n].stage = 0 /\ copies[n].ledger = 0 /\ copies[n].day = 0
      BY <2>1, <2>2, <3>1, CopyIs
    <3> HIDE DEF moved, lo, hi, los, plus
    <3>3. copies'[n] = FreshCopy
      BY <2>5, <2>6, <3>1, <3>2, CopyIs
    <3> QED BY <2>6, <2>8, <3>3
  <2>9. CASE n < From
    <3>1. ~(n > From - 1) /\ plus = 0 /\ ~(n > To - 1)
      BY <1>1, <2>1, <2>9
    <3>2. copies[n] = IF lo \in closedSpans THEN InLedger ELSE Staged
      BY <2>2, <3>1
    <3>3. lo \in closedSpans' <=> lo \in closedSpans \/ (lo \in los /\ hi <= To)
      BY <1>3
    <3> HIDE DEF moved, lo, hi, los, plus
    <3>4. copies'[n] = IF lo \in closedSpans' THEN InLedger ELSE Staged
      <4>1. CASE lo \in closedSpans
        BY <2>1, <2>3, <2>5, <2>6, <3>1, <3>2, <3>3, <4>1, CopyIs
      <4>2. CASE lo \notin closedSpans
        <5>1. copies[n].running = 1 /\ copies[n].stage = 1 /\ copies[n].ledger = 0 /\ copies[n].day = 1
          BY <2>1, <3>2, <4>2, CopyIs
        <5> QED BY <2>5, <2>6, <3>1, <3>3, <4>2, <5>1, CopyIs
      <4> QED BY <4>1, <4>2
    <3> QED BY <2>6, <3>1, <3>4 DEF lo
  <2> QED BY <1>1, <2>1, <2>7, <2>8, <2>9
<1>10. copies' \in [Below -> Copy]
  <2>1. copies' = [n \in Below |-> copies'[n]]
    BY DEF ApplyBatch
  <2> QED BY <1>9, <2>1
<1>11. /\ backfill'.through = To - 1 /\ backfill'.complete = backfill.complete
       /\ backfill' \in [exists : BOOLEAN, through : -1 .. Target, complete : BOOLEAN]
  BY <1>1, <1>2, <1>5
<1> QED BY <1>8, <1>9, <1>10, <1>11

-----------------------------------------------------------------------------
LEMMA BackfillInitInv == BackfillInit => BackfillInv
<1> SUFFICES ASSUME NEW s \in BackfillScenarios, BackfillInitWith(s) PROVE BackfillInv
  BY DEF BackfillInit
<1> USE Sizes DEF BackfillInitWith
<1>1. /\ backfill \in [exists : BOOLEAN, through : -1 .. Target, complete : BOOLEAN]
      /\ copies \in [Below -> Copy] /\ closedSpans \subseteq Below
      /\ upper \in [stored : SUBSET FromStart, started : BOOLEAN]
      /\ refusals \in [Below -> Nat] /\ currentAt \in [BalKey -> -1 .. HeadBlock]
  BY CopyType DEF HeadBlock
<1>2. DOMAIN pendingKeys \subseteq BalKey /\ pendingKeys \in [DOMAIN pendingKeys -> Below]
  OBVIOUS
<1>3. walker \in Walker
  BY DEF Walker, StoppedLoop, NoRetry, NoFailing, BatchRetry
<1>4. mishaps \in BackfillTrouble
  BY BackfillAssumption
<1>5. BackfilledOnce
  BY DEF BackfilledOnce, StoppedLoop
<1>6. /\ \A lo \in closedSpans : SpanHi(lo) <= backfill.through + 1
      /\ walker.pc = "complete" => backfill.through = Target
      /\ walker.failing.tries <= refusals[walker.failing.block]
  BY DEF StoppedLoop, NoFailing
<1> QED BY <1>1, <1>2, <1>3, <1>4, <1>5, <1>6 DEF BackfillInv, BackfillTypeOK

\* A step that leaves the tables, the node's answers and catch-up alone only has to keep the loop right.
LEMMA LoopStep ==
    ASSUME BackfillInv, UNCHANGED <<bfTables, upper, refusals>>,
           walker' \in Walker, mishaps' \in BackfillTrouble, currentAt' \in [BalKey -> -1 .. HeadBlock],
           walker'.lenient \subseteq walker.lenient,
           walker'.pc = "complete" => backfill.through = Target,
           walker'.failing \in {walker.failing, NoFailing}
    PROVE  BackfillInv'
<1>1. BackfillTypeOK'
  BY DEF BackfillInv, BackfillTypeOK, FromStart
<1>2. BackfilledOnce'
  <2>1. /\ backfill' = backfill /\ copies' = copies /\ closedSpans' = closedSpans /\ upper' = upper /\ refusals' = refusals
        /\ walker'.lenient \subseteq walker.lenient
    OBVIOUS
  <2>2. BackfilledOnce
    BY DEF BackfillInv
  <2> QED BY <2>1, <2>2 DEF BackfilledOnce
<1>3. walker'.failing.tries <= refusals'[walker'.failing.block]
  <2>1. refusals[0] \in Nat
    BY Sizes DEF BackfillInv, BackfillTypeOK
  <2>2. walker.failing.tries <= refusals[walker.failing.block]
    BY DEF BackfillInv
  <2>3. CASE walker'.failing = NoFailing
    BY <2>1, <2>3 DEF NoFailing
  <2> QED BY <2>2, <2>3
<1>4. \A lo \in closedSpans' : SpanHi(lo) <= backfill'.through + 1
  BY DEF BackfillInv
<1>5. walker'.pc = "complete" => backfill'.through = Target
  OBVIOUS
<1> QED BY <1>1, <1>2, <1>3, <1>4, <1>5 DEF BackfillInv

\* Fetching and building: the retry grows, and stays within the batch.
LEMMA FetchKeeps ==
    ASSUME BackfillInv, NEW S \in SUBSET Below, FetchBlocks(S)
    PROVE  BackfillInv'
<1>1. Retry \in BatchRetry /\ walker \in Walker /\ mishaps \in BackfillTrouble
  BY BatchBounds DEF FetchBlocks, BackfillInv, BackfillTypeOK
<1>2. [Retry EXCEPT !.fetched = Retry.fetched \cup S] \in BatchRetry
  BY <1>1 DEF BatchRetry
<1>3. walker' \in Walker /\ walker'.lenient = walker.lenient /\ walker'.failing = walker.failing /\ walker'.pc # "complete"
  BY <1>1, <1>2 DEF FetchBlocks, Walker
<1>4. mishaps' \in BackfillTrouble
  BY <1>1 DEF FetchBlocks, BackfillTrouble
<1>5. UNCHANGED <<bfTables, upper, refusals, currentAt>>
  BY DEF FetchBlocks
<1>6. currentAt' \in [BalKey -> -1 .. HeadBlock]
  BY <1>5 DEF BackfillInv, BackfillTypeOK
<1> QED BY <1>3, <1>4, <1>5, <1>6, LoopStep

LEMMA BuildKeeps ==
    ASSUME BackfillInv, BuildBlock \/ BuildFails
    PROVE  BackfillInv'
<1>1. /\ Retry \in BatchRetry /\ walker \in Walker /\ mishaps \in BackfillTrouble
      /\ currentAt \in [BalKey -> -1 .. HeadBlock] /\ NextBuilt < To
      /\ From \in Below /\ To \in From + 1 .. Target + 1 /\ To <= From + BatchBlocks
  BY BatchBounds DEF BuildBlock, BuildFails, Building, BackfillInv, BackfillTypeOK
<1>2. CASE BuildBlock
  <2>1. Retry.built + 1 \in 0 .. BatchBlocks
    BY <1>1, Sizes DEF BatchRetry, NextBuilt
  <2>2. [Retry EXCEPT !.built = Retry.built + 1] \in BatchRetry
    BY <1>1, <2>1 DEF BatchRetry
  <2>3. walker' = [walker EXCEPT !.retry = [Retry EXCEPT !.built = Retry.built + 1]]
    BY <1>2 DEF BuildBlock
  <2>4. walker.pc # "complete"
    BY <1>2 DEF BuildBlock, Building, Counting
  <2>5. walker' \in Walker /\ walker'.lenient = walker.lenient /\ walker'.failing = walker.failing /\ walker'.pc # "complete"
    BY <1>1, <2>2, <2>3, <2>4 DEF Walker
  <2>6. UNCHANGED <<bfTables, upper, refusals, currentAt, mishaps>>
    BY <1>2 DEF BuildBlock
  <2> QED BY <1>1, <2>5, <2>6, LoopStep
<1>3. CASE BuildFails
  <2>1. walker' = [walker EXCEPT !.retry = Retry, !.pc = "read"] /\ UNCHANGED <<bfTables, upper, refusals, currentAt>>
    BY <1>3 DEF BuildFails
  <2>2. walker' \in Walker /\ walker'.lenient = walker.lenient /\ walker'.failing = walker.failing /\ walker'.pc # "complete"
    BY <1>1, <2>1 DEF Walker
  <2>3. mishaps' \in BackfillTrouble
    BY <1>1, <1>3 DEF BuildFails, BackfillTrouble
  <2> QED BY <1>1, <2>1, <2>2, <2>3, LoopStep
<1> QED BY <1>2, <1>3

\* A refusal: the answers in a row are counted, and a block is given up on only after StrictTries of them.
LEMMA RefusalKeeps ==
    ASSUME BackfillInv, BuildRefused \/ LenientFails
    PROVE  BackfillInv'
<1> USE Sizes
<1> DEFINE b == NextBuilt
<1>1. /\ Retry \in BatchRetry /\ walker \in Walker /\ mishaps \in BackfillTrouble /\ refusals \in [Below -> Nat]
      /\ currentAt \in [BalKey -> -1 .. HeadBlock] /\ NextBuilt < To /\ walker.pc = "step"
      /\ From \in Below /\ To \in From + 1 .. Target + 1 /\ To <= From + BatchBlocks
  BY BatchBounds DEF BuildRefused, LenientFails, Building, Counting, BackfillInv, BackfillTypeOK
<1>2. b \in Below /\ Retry.built + 1 \in 0 .. BatchBlocks
  <2>1. Retry.built \in Nat
    BY <1>1 DEF BatchRetry
  <2>2. From \in Nat /\ From <= Target /\ To \in Int /\ To <= Target + 1 /\ To <= From + BatchBlocks /\ From + Retry.built < To
    BY <1>1 DEF NextBuilt, Below
  <2>3. From + Retry.built \in 0 .. Target /\ Retry.built + 1 \in 0 .. BatchBlocks
    BY <2>1, <2>2
  <2> QED BY <2>3 DEF NextBuilt, Below
<1>3. walker.failing \in [block : Below, tries : Nat] /\ walker.failing.tries <= refusals[walker.failing.block]
  BY <1>1 DEF Walker, BackfillInv
<1>4. refusals' = [refusals EXCEPT ![b] = @ + 1] /\ UNCHANGED <<bfTables, currentAt, upper>>
  BY DEF BuildRefused, LenientFails
<1>5. refusals' \in [Below -> Nat] /\ refusals'[b] = refusals[b] + 1 /\ \A n \in Below : refusals'[n] >= refusals[n]
  BY <1>1, <1>2, <1>4
<1>6. Tried \in [block : Below, tries : Nat] /\ Tried.block = b /\ Tried.tries <= refusals'[b]
  <2>1. CASE walker.failing.block = b
    <3>1. Tried = [walker.failing EXCEPT !.tries = walker.failing.tries + 1]
      BY <2>1 DEF Tried
    <3>2. Tried \in [block : Below, tries : Nat] /\ Tried.block = b /\ Tried.tries = walker.failing.tries + 1
      BY <1>3, <2>1, <3>1
    <3> QED BY <1>1, <1>2, <1>3, <1>5, <2>1, <3>2
  <2>2. CASE walker.failing.block # b
    <3>1. Tried = [block |-> b, tries |-> 1]
      BY <2>2 DEF Tried
    <3> QED BY <1>1, <1>2, <1>5, <3>1
  <2> QED BY <2>1, <2>2
<1>7. [Retry EXCEPT !.built = Retry.built + 1] \in BatchRetry
  BY <1>1, <1>2 DEF BatchRetry
<1>8. /\ walker' \in Walker /\ walker'.pc # "complete" /\ walker'.failing = Tried
      /\ \/ walker'.lenient = walker.lenient
         \/ walker'.lenient = walker.lenient \cup {b} /\ ~(Tried.tries < StrictTries)
  <2>1. CASE walker' = [walker EXCEPT !.retry = Retry, !.failing = Tried, !.pc = "read"]
    BY <1>1, <1>6, <2>1 DEF Walker
  <2>2. CASE /\ ~(Tried.tries < StrictTries)
             /\ walker' = [walker EXCEPT !.retry = [Retry EXCEPT !.built = Retry.built + 1], !.failing = Tried,
                                         !.lenient = walker.lenient \cup {b}]
    <3>1. walker.lenient \cup {b} \in SUBSET Below
      BY <1>1, <1>2 DEF Walker
    <3> HIDE DEF b
    <3> QED BY <1>1, <1>6, <1>7, <2>2, <3>1 DEF Walker
  <2> QED BY <2>1, <2>2 DEF BuildRefused, LenientFails
<1>9. mishaps' \in BackfillTrouble
  <2>1. CASE BuildRefused
    BY <1>1, <2>1 DEF BuildRefused
  <2>2. CASE LenientFails
    <3>1. mishaps' = [mishaps EXCEPT !.faults = mishaps.faults - 1] /\ mishaps.faults > 0
      BY <2>2 DEF LenientFails
    <3>2. mishaps.faults - 1 \in Nat
      BY <1>1, <3>1 DEF BackfillTrouble
    <3> QED BY <1>1, <3>1, <3>2 DEF BackfillTrouble
  <2> QED BY <2>1, <2>2
<1>10. BackfillTypeOK'
  BY <1>4, <1>5, <1>8, <1>9 DEF BackfillInv, BackfillTypeOK, FromStart
<1>11. BackfilledOnce'
  <2>1. BackfilledOnce /\ walker.lenient \subseteq Below
    BY <1>1 DEF BackfillInv, Walker
  <2>2. \A n \in walker'.lenient : refusals'[n] >= StrictTries
    <3> TAKE n \in walker'.lenient
    <3>1. CASE n \in walker.lenient
      <4>1. refusals[n] >= StrictTries /\ n \in Below
        BY <2>1, <3>1 DEF BackfilledOnce
      <4> QED BY <1>1, <1>5, <4>1
    <3>2. CASE n = b /\ ~(Tried.tries < StrictTries)
      <4>1. refusals'[b] \in Nat /\ Tried.tries \in Nat
        BY <1>2, <1>5, <1>6
      <4> QED BY <1>6, <3>2, <4>1
    <3> QED BY <1>8, <3>1, <3>2
  <2> QED BY <1>4, <2>1, <2>2 DEF BackfilledOnce
<1>12. walker'.failing.tries <= refusals'[walker'.failing.block]
  BY <1>6, <1>8
<1>13. \A lo \in closedSpans' : SpanHi(lo) <= backfill'.through + 1
  BY <1>4 DEF BackfillInv
<1> QED BY <1>8, <1>10, <1>11, <1>12, <1>13 DEF BackfillInv

\* The commit, its answer received or lost.
LEMMA CommitKeeps ==
    ASSUME BackfillInv, CommitBackfillBatch \/ CommitUnknown
    PROVE  BackfillInv'
<1>1. walker \in Walker /\ mishaps \in BackfillTrouble /\ currentAt \in [BalKey -> -1 .. HeadBlock]
  BY DEF BackfillInv, BackfillTypeOK
<1>2. walker' = [walker EXCEPT !.retry = NoRetry, !.pc = "read"] /\ UNCHANGED <<currentAt, upper, refusals>>
  BY DEF CommitBackfillBatch, CommitUnknown
<1>3. NoRetry \in BatchRetry
  BY Sizes DEF NoRetry, BatchRetry
<1>4. walker' \in Walker /\ walker'.lenient = walker.lenient /\ walker'.failing = walker.failing /\ walker'.pc = "read"
  BY <1>1, <1>2, <1>3 DEF Walker
<1>5. mishaps' \in BackfillTrouble
  BY <1>1 DEF CommitBackfillBatch, CommitUnknown, BackfillTrouble
<1>6. CASE UNCHANGED bfTables
  BY <1>1, <1>2, <1>4, <1>5, <1>6, LoopStep
<1>7. CASE ApplyBatch
  <2>1. Counting /\ ~backfill.complete
    BY DEF CommitBackfillBatch, CommitUnknown, Committing, Counting
  <2>2. /\ backfill'.through = To - 1 /\ backfill'.complete = backfill.complete
        /\ backfill' \in [exists : BOOLEAN, through : -1 .. Target, complete : BOOLEAN]
        /\ copies' \in [Below -> Copy] /\ closedSpans' \subseteq Below
        /\ \A lo \in closedSpans' : SpanHi(lo) <= To
        /\ \A n \in Below :
             copies'[n] = IF n > To - 1 THEN FreshCopy ELSE IF SpanLo(n) \in closedSpans' THEN InLedger ELSE Staged
    BY <1>7, <2>1, BatchCounted
  <2>3. DOMAIN pendingKeys' \subseteq BalKey /\ pendingKeys' \in [DOMAIN pendingKeys' -> Below]
    BY <1>7, <2>1, KeysAdded DEF BackfillInv
  <2>4. BackfillTypeOK'
    BY <1>2, <1>4, <1>5, <2>2, <2>3 DEF BackfillInv, BackfillTypeOK
  <2>5. BackfilledOnce'
    <3>1. \A n \in walker'.lenient : refusals'[n] >= StrictTries
      BY <1>2, <1>4 DEF BackfillInv, BackfilledOnce
    <3>2. ~backfill'.complete
      BY <2>1, <2>2
    <3> QED BY <2>2, <3>1, <3>2 DEF BackfilledOnce
  <2>6. \A lo \in closedSpans' : SpanHi(lo) <= backfill'.through + 1
    <3>1. To - 1 + 1 = To
      BY <2>1, BatchBounds, Sizes DEF BackfillInv
    <3> QED BY <2>2, <3>1
  <2>7. walker'.failing.tries <= refusals'[walker'.failing.block]
    BY <1>2, <1>4 DEF BackfillInv
  <2> QED BY <1>4, <2>4, <2>5, <2>6, <2>7 DEF BackfillInv
<1> QED BY <1>6, <1>7 DEF CommitBackfillBatch, CommitUnknown

\* The completion: it is tried with every block counted, and marks the row only with the blocks from START_BLOCK stored.
LEMMA CompleteKeeps ==
    ASSUME BackfillInv, CompleteCheck \/ CompleteStatsBackfill \/ StepDone
    PROVE  BackfillInv'
<1>1. /\ walker \in Walker /\ mishaps \in BackfillTrouble /\ currentAt \in [BalKey -> -1 .. HeadBlock]
      /\ backfill \in [exists : BOOLEAN, through : -1 .. Target, complete : BOOLEAN] /\ upper \in [stored : SUBSET FromStart, started : BOOLEAN]
  BY DEF BackfillInv, BackfillTypeOK
<1>2. CASE CompleteCheck
  <2>1. walker' \in Walker /\ walker'.lenient = walker.lenient /\ walker'.failing = walker.failing
    BY <1>1, <1>2 DEF CompleteCheck, Walker
  <2>2. UNCHANGED <<bfTables, upper, refusals, currentAt, mishaps>> /\ backfill.through = Target
    BY <1>2 DEF CompleteCheck
  <2> QED BY <1>1, <2>1, <2>2, LoopStep
<1>3. CASE StepDone
  <2>1. walker' \in Walker /\ walker'.lenient = walker.lenient /\ walker'.failing = walker.failing /\ walker'.pc = "read"
    BY <1>1, <1>3 DEF StepDone, Walker
  <2>2. UNCHANGED <<bfTables, upper, refusals, currentAt, mishaps>>
    BY <1>3 DEF StepDone
  <2> QED BY <1>1, <2>1, <2>2, LoopStep
<1>4. CASE CompleteStatsBackfill
  <2>1. CatchupReached \in BOOLEAN
    BY <1>1 DEF CatchupReached
  <2>2. /\ backfill.through = Target
        /\ backfill' = [backfill EXCEPT !.complete = CatchupReached]
        /\ walker' = [walker EXCEPT !.pc = "read", !.done = CatchupReached]
        /\ UNCHANGED <<copies, closedSpans, pendingKeys, currentAt, upper, refusals, mishaps>>
    BY <1>4 DEF CompleteStatsBackfill, BackfillInv
  <2>3. walker' \in Walker /\ walker'.lenient = walker.lenient /\ walker'.failing = walker.failing /\ walker'.pc = "read"
    BY <1>1, <2>1, <2>2 DEF Walker
  <2>4. /\ backfill' \in [exists : BOOLEAN, through : -1 .. Target, complete : BOOLEAN]
        /\ backfill'.through = Target /\ backfill'.complete = CatchupReached
    BY <1>1, <2>1, <2>2
  <2>5. BackfillTypeOK'
    BY <2>2, <2>3, <2>4 DEF BackfillInv, BackfillTypeOK
  <2>6. BackfilledOnce'
    <3>1. \A n \in Below : copies'[n] = IF n > backfill'.through THEN FreshCopy ELSE IF SpanLo(n) \in closedSpans' THEN InLedger ELSE Staged
      BY <2>2, <2>4 DEF BackfillInv, BackfilledOnce
    <3>2. backfill'.complete => FromStart \subseteq upper'.stored
      BY <2>2, <2>4 DEF CatchupReached
    <3>3. \A n \in walker'.lenient : refusals'[n] >= StrictTries
      BY <2>2, <2>3 DEF BackfillInv, BackfilledOnce
    <3> QED BY <2>4, <3>1, <3>2, <3>3 DEF BackfilledOnce
  <2> QED BY <2>2, <2>3, <2>4, <2>5, <2>6 DEF BackfillInv
<1> QED BY <1>2, <1>3, <1>4

\* The balances read as the backfill goes.
LEMMA ReadKeeps ==
    ASSUME BackfillInv, ReadBalances
    PROVE  BackfillInv'
<1> DEFINE keys    == NextBackfillBalanceKeys
           settled == keys \ mishaps.unread
<1>1. /\ walker \in Walker /\ mishaps \in BackfillTrouble /\ currentAt \in [BalKey -> -1 .. HeadBlock]
      /\ DOMAIN pendingKeys \subseteq BalKey /\ pendingKeys \in [DOMAIN pendingKeys -> Below]
  BY DEF BackfillInv, BackfillTypeOK
<1>2. keys \subseteq DOMAIN pendingKeys
  BY DEF NextBackfillBalanceKeys, FirstKeys
<1>3. keys # {} => Max(keys) \in BalKey
  <2>1. keys \subseteq BalKey /\ IsFiniteSet(keys) /\ keys \subseteq Nat
    BY <1>1, <1>2, KeysFinite, FS_Subset
  <2> HIDE DEF keys
  <2> QED BY <2>1, MaxOfFinite
<1>4. currentAt' \in [BalKey -> -1 .. HeadBlock]
  <2>1. ASSUME NEW k \in settled PROVE SettledAt(k) \in -1 .. HeadBlock
    <3>1. k \in BalKey /\ currentAt[k] \in -1 .. HeadBlock /\ pendingKeys[k] \in Below
      BY <1>1, <1>2
    <3>2. HeadBlock \in Nat /\ Target < HeadBlock /\ Target \in Nat
      BY Sizes DEF HeadBlock
    <3>3. currentAt[k] \in Int /\ pendingKeys[k] \in Int
      BY <3>1, <3>2
    <3>4. SettledAt(k) \in {currentAt[k], pendingKeys[k]}
      BY <3>3, MaxOfTwo DEF SettledAt
    <3> QED BY <3>1, <3>2, <3>4
  <2>2. currentAt' = [k \in BalKey |-> IF k \in settled THEN SettledAt(k) ELSE currentAt[k]]
    BY DEF ReadBalances
  <2> HIDE DEF settled
  <2> QED BY <1>1, <2>1, <2>2
<1>5. DOMAIN pendingKeys' \subseteq BalKey /\ pendingKeys' \in [DOMAIN pendingKeys' -> Below]
  <2>1. pendingKeys' = [k \in DOMAIN pendingKeys \ settled |-> pendingKeys[k]]
    BY DEF ReadBalances, Restrict
  <2> HIDE DEF settled
  <2> QED BY <1>1, <2>1
<1>6. walker' = [walker EXCEPT !.pc = IF walker.done /\ keys = {} THEN "ended" ELSE "step",
                               !.readAfter = IF keys = {} THEN 0 ELSE Max(keys)]
  BY DEF ReadBalances
<1>7. /\ walker' \in Walker /\ walker'.lenient = walker.lenient /\ walker'.failing = walker.failing
      /\ walker'.pc # "complete"
  <2> HIDE DEF keys
  <2> QED BY <1>1, <1>3, <1>6 DEF Walker
<1>8. UNCHANGED <<backfill, copies, closedSpans, upper, refusals, mishaps>>
  BY DEF ReadBalances
<1>9. BackfillTypeOK'
  BY <1>4, <1>5, <1>7, <1>8 DEF BackfillInv, BackfillTypeOK
<1>10. BackfilledOnce'
  BY <1>7, <1>8 DEF BackfillInv, BackfilledOnce
<1> QED BY <1>7, <1>8, <1>9, <1>10 DEF BackfillInv

\* The start, the crash, and what happens around the loop.
LEMMA AroundKeeps ==
    ASSUME BackfillInv,
           \/ Prepare \/ BackfillCrash \/ TracesBack \/ DailyStatsStart
           \/ \E n \in FromStart : CatchupStores(n)
           \/ \E k \in BalKey : ReadRecovers(k) \/ HeadBalance(k)
    PROVE  BackfillInv'
<1>1. /\ walker \in Walker /\ mishaps \in BackfillTrouble /\ currentAt \in [BalKey -> -1 .. HeadBlock]
      /\ backfill \in [exists : BOOLEAN, through : -1 .. Target, complete : BOOLEAN] /\ upper \in [stored : SUBSET FromStart, started : BOOLEAN]
      /\ walker.pc = "complete" => backfill.through = Target
  BY DEF BackfillInv, BackfillTypeOK
<1>2. \A pc \in {"down", "step"} : /\ [StoppedLoop EXCEPT !.pc = pc] \in Walker
                                   /\ [StoppedLoop EXCEPT !.pc = pc].lenient = {}
                                   /\ [StoppedLoop EXCEPT !.pc = pc].failing = NoFailing
                                   /\ [StoppedLoop EXCEPT !.pc = pc].pc = pc
  <2>1. StoppedLoop \in Walker /\ StoppedLoop.lenient = {} /\ StoppedLoop.failing = NoFailing
    BY Sizes DEF StoppedLoop, NoRetry, NoFailing, Walker, BatchRetry
  <2> QED BY <2>1 DEF Walker
<1>3. CASE Prepare
  <2>1. walker' \in Walker /\ walker'.lenient = {} /\ walker'.failing = NoFailing /\ walker'.pc = "step"
    BY <1>2, <1>3 DEF Prepare
  <2>2. /\ backfill' \in [exists : BOOLEAN, through : -1 .. Target, complete : BOOLEAN]
        /\ backfill'.through = backfill.through /\ backfill'.complete = backfill.complete
    BY <1>1, <1>3 DEF Prepare
  <2>3. UNCHANGED <<copies, closedSpans, pendingKeys, currentAt, upper, refusals, mishaps>>
    BY <1>3 DEF Prepare
  <2>4. BackfillTypeOK'
    BY <2>1, <2>2, <2>3 DEF BackfillInv, BackfillTypeOK
  <2>5. BackfilledOnce'
    BY <2>1, <2>2, <2>3 DEF BackfillInv, BackfilledOnce
  <2>6. walker'.failing.tries <= refusals'[walker'.failing.block]
    <3>1. refusals[0] \in Nat
      BY Sizes DEF BackfillInv, BackfillTypeOK
    <3> QED BY <2>1, <2>3, <3>1 DEF NoFailing
  <2> QED BY <2>1, <2>2, <2>3, <2>4, <2>5, <2>6 DEF BackfillInv
<1>4. CASE BackfillCrash
  <2>1. walker' = StoppedLoop /\ UNCHANGED <<bfTables, currentAt, upper, refusals>>
    BY <1>4 DEF BackfillCrash
  <2>2. walker' \in Walker /\ walker'.lenient = {} /\ walker'.failing = NoFailing /\ walker'.pc # "complete"
    BY <2>1, Sizes DEF StoppedLoop, NoRetry, NoFailing, Walker, BatchRetry
  <2>3. mishaps' \in BackfillTrouble
    BY <1>1, <1>4 DEF BackfillCrash, BackfillTrouble
  <2> QED BY <1>1, <2>1, <2>2, <2>3, LoopStep
<1>5. CASE TracesBack
  <2>1. mishaps' \in BackfillTrouble
    BY <1>1, <1>5 DEF TracesBack, BackfillTrouble
  <2>2. UNCHANGED <<bfTables, currentAt, walker, upper, refusals>>
    BY <1>5 DEF TracesBack
  <2> QED BY <1>1, <2>1, <2>2, LoopStep
<1>6. ASSUME NEW k \in BalKey, ReadRecovers(k) \/ HeadBalance(k) PROVE BackfillInv'
  <2>1. mishaps' \in BackfillTrouble
    <3>1. CASE ReadRecovers(k)
      BY <1>1, <3>1 DEF ReadRecovers, BackfillTrouble
    <3>2. CASE HeadBalance(k)
      BY <1>1, <3>2 DEF HeadBalance, BackfillTrouble
    <3> QED BY <1>6, <3>1, <3>2
  <2>2. currentAt' \in [BalKey -> -1 .. HeadBlock]
    <3>1. HeadBlock \in -1 .. HeadBlock
      BY Sizes DEF HeadBlock
    <3> QED BY <1>1, <1>6, <3>1 DEF ReadRecovers, HeadBalance
  <2>3. UNCHANGED <<bfTables, walker, upper, refusals>>
    BY <1>6 DEF ReadRecovers, HeadBalance
  <2> QED BY <1>1, <2>1, <2>2, <2>3, LoopStep
<1>7. CASE DailyStatsStart \/ \E n \in FromStart : CatchupStores(n)
  <2>1. upper' \in [stored : SUBSET FromStart, started : BOOLEAN] /\ upper.stored \subseteq upper'.stored
    <3>1. CASE DailyStatsStart
      BY <1>1, <3>1 DEF DailyStatsStart
    <3>2. ASSUME NEW n \in FromStart, CatchupStores(n)
          PROVE  upper' \in [stored : SUBSET FromStart, started : BOOLEAN] /\ upper.stored \subseteq upper'.stored
      BY <1>1, <3>2 DEF CatchupStores
    <3> QED BY <1>7, <3>1, <3>2
  <2>2. UNCHANGED <<bfTables, currentAt, walker, refusals, mishaps>>
    BY <1>7 DEF DailyStatsStart, CatchupStores
  <2>3. BackfillTypeOK'
    BY <2>1, <2>2 DEF BackfillInv, BackfillTypeOK, FromStart
  <2>4. BackfilledOnce'
    BY <2>1, <2>2 DEF BackfillInv, BackfilledOnce
  <2> QED BY <2>2, <2>3, <2>4 DEF BackfillInv
<1> QED BY <1>3, <1>4, <1>5, <1>6, <1>7

LEMMA BackfillStutter == BackfillInv /\ UNCHANGED backfillVars => BackfillInv'
BY DEF backfillVars, BackfillInv, BackfillTypeOK, BackfilledOnce, SpanLo, SpanHi

\* The backfill's invariant holds in every state of every behaviour.
THEOREM BackfillInvariant == BackfillSpec => []BackfillInv
<1>1. BackfillInit => BackfillInv
  BY BackfillInitInv
<1>2. BackfillInv /\ [BackfillNext]_backfillVars => BackfillInv'
  <2> SUFFICES ASSUME BackfillInv, [BackfillNext]_backfillVars PROVE BackfillInv'
    OBVIOUS
  <2>1. CASE BackfillStep
    <3>1. ASSUME NEW S \in SUBSET Below, FetchBlocks(S) PROVE BackfillInv'
      BY <3>1, FetchKeeps
    <3> QED BY <2>1, <3>1, AroundKeeps, BuildKeeps, RefusalKeeps, CommitKeeps, CompleteKeeps, ReadKeeps DEF BackfillStep
  <2>2. CASE UNCHANGED backfillVars
    BY <2>2, BackfillStutter
  <2> QED BY <2>1, <2>2, AroundKeeps DEF BackfillNext
<1> QED BY <1>1, <1>2, PTL DEF BackfillSpec

\* For every start block, batch size, span size and trouble: the state of the backfill has its types.
THEOREM BackfillTyped == BackfillSpec => []BackfillTypeOK
<1>1. BackfillInv => BackfillTypeOK
  BY DEF BackfillInv
<1> QED BY <1>1, BackfillInvariant, PTL

\* For every start block, batch size, span size and trouble: a block up to the progress is counted once in the running
\* counters, its day, and its span's stage or ledger rows, whatever failed, was retried or was committed without an
\* answer (CommitBackfillBatch); the row is complete only with every block counted and the blocks daily_stats did not
\* aggregate stored (CompleteStatsBackfill); and no block is counted leniently before StrictTries refusals (givesUp).
THEOREM BackfillCountsOnce == BackfillSpec => []BackfilledOnce
<1>1. BackfillInv => BackfilledOnce
  BY DEF BackfillInv
<1> QED BY <1>1, BackfillInvariant, PTL
=============================================================================
