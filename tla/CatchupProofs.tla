--------------------------- MODULE CatchupProofs ---------------------------
(***************************************************************************)
(* Proofs about Catchup for every value of its constants: the type         *)
(* invariant, and that under Calm no block is lost.                        *)
(***************************************************************************)
EXTENDS Catchup, NaturalFacts, TLAPS

\* The bounds Start takes from the stored blocks are stored blocks.
LEMMA StoredBounds ==
    ASSUME stored \in SUBSET Block, stored # {}
    PROVE  /\ (CHOOSE b \in stored : \A c \in stored : b <= c) \in stored
           /\ (CHOOSE b \in stored : \A c \in stored : c <= b) \in stored
<1> USE CatchupAssumption DEF Block
<1>1. \E b \in stored : \A c \in stored : b <= c
  BY LeastNatural
<1>2. \E b \in stored : \A c \in stored : c <= b
  <2>1. stored \in SUBSET (0..Last)
    OBVIOUS
  <2> QED BY <2>1, GreatestNatural
<1> QED BY <1>1, <1>2

\* Every missing block of a scanned batch is in one of the ranges the scan finds.
LEMMA GapCovers ==
    ASSUME stored \in SUBSET Block, NEW lo \in Block, NEW hi \in Block,
           NEW b \in Block, lo <= b, b <= hi, b \notin stored
    PROVE  \E r \in FindMissingBlocksInRange(lo, hi) : In(b, r)
<1> USE CatchupAssumption DEF Block
<1> DEFINE U == {n \in Nat : b <= n /\ (n = hi \/ n + 1 \in stored)}
           D == {d \in Nat : lo + d <= b /\ (b - d = lo \/ b - d - 1 \in stored)}
<1>1. hi \in U
  OBVIOUS
<1>2. PICK t \in U : \A n \in U : t <= n
  BY <1>1, LeastNatural
<1>3. b - lo \in D
  OBVIOUS
<1>4. PICK d \in D : \A n \in D : d <= n
  BY <1>3, LeastNatural
<1> DEFINE f == b - d
<1>5. t \in Block /\ t <= hi /\ b <= t /\ f \in Block /\ lo <= f /\ f <= b
  BY <1>1, <1>2, <1>4
<1>6. \A c \in Block : b <= c /\ c <= t => c \notin stored
  <2> SUFFICES ASSUME NEW c \in Block, b <= c, c <= t, c \in stored PROVE FALSE
    OBVIOUS
  <2>1. c - 1 \in U
    OBVIOUS
  <2> QED BY <2>1, <1>2
<1>7. \A c \in Block : f <= c /\ c <= b => c \notin stored
  <2> SUFFICES ASSUME NEW c \in Block, f <= c, c <= b, c \in stored PROVE FALSE
    OBVIOUS
  <2>1. c < b
    OBVIOUS
  <2>2. b - (c + 1) \in D
    BY <2>1, <1>5
  <2> QED BY <2>1, <2>2, <1>4
<1> DEFINE r == [from |-> f, to |-> t]
<1>8. r \in BlockRange /\ In(b, r)
  BY <1>5 DEF BlockRange, In
<1>9. r.from = lo \/ r.from - 1 \in stored
  BY <1>4
<1>10. r.to = hi \/ r.to + 1 \in stored
  BY <1>2
<1>11. \A c \in Block : In(c, r) => c \notin stored
  BY <1>5, <1>6, <1>7 DEF In
<1>12. r \in FindMissingBlocksInRange(lo, hi)
  BY <1>5, <1>8, <1>9, <1>10, <1>11 DEF FindMissingBlocksInRange
<1> QED BY <1>8, <1>12
-----------------------------------------------------------------------------
(***************************************************************************)
(* The type invariant, with the few facts it needs to be inductive.        *)
(***************************************************************************)

LEMMA TInvInit == Init => TInv
<1> SUFFICES ASSUME Init PROVE TInv
  OBVIOUS
<1> USE CatchupAssumption DEF Init
<1>1. Idle \in WorkerState /\ Resting \in ScannerState
  BY DEF Idle, WorkerState, Resting, ScannerState, BlockRange, Block
<1>2. TypeOK
  BY <1>1 DEF TypeOK, Block
<1>3. QuietUntilUp /\ BoundsSet /\ RescanListed
  BY DEF QuietUntilUp, BoundsSet, RescanListed, Resting
<1> QED BY <1>2, <1>3 DEF TInv

\* What a scan finds are ranges of blocks.
LEMMA FoundType ==
    \A lo, hi : FindMissingBlocksInRange(lo, hi) \in SUBSET BlockRange
  BY DEF FindMissingBlocksInRange

\* A block alone is a range.
LEMMA SingleRange == \A b \in Block : [from |-> b, to |-> b] \in BlockRange
  BY CatchupAssumption DEF Block, BlockRange

LEMMA TInvStart == TInv /\ Start => TInv'
<1> SUFFICES ASSUME TInv, Start PROVE TInv'
  OBVIOUS
<1> USE CatchupAssumption DEF Start, TInv, fillVars, boundVars
<1>1. StartBounds \in [min : Block, max : Block]
  <2>1. CASE progress.max > 0
    BY <2>1 DEF StartBounds, TypeOK
  <2>2. CASE ~(progress.max > 0) /\ stored # {}
    BY <2>2, StoredBounds DEF StartBounds, TypeOK
  <2>3. CASE ~(progress.max > 0) /\ stored = {}
    BY <2>3 DEF StartBounds, TypeOK
  <2> QED BY <2>1, <2>2, <2>3
<1>2. TypeOK'
  BY <1>1 DEF TypeOK, UpdateIndexerProgress, Fault, NoFault, Block
<1>3. QuietUntilUp' /\ BoundsSet' /\ RescanListed'
  BY <1>1 DEF QuietUntilUp, BoundsSet, RescanListed, Resting, TypeOK
<1> QED BY <1>2, <1>3

LEMMA TInvInitialScan == TInv /\ (InitialScanBatch \/ StartWithMissingRangeCollector) => TInv'
<1> SUFFICES ASSUME TInv, InitialScanBatch \/ StartWithMissingRangeCollector PROVE TInv'
  OBVIOUS
<1> USE CatchupAssumption DEF TInv, fillVars, boundVars, dbVars, scanVars
<1>1. CASE InitialScanBatch
  <2> USE <1>1 DEF InitialScanBatch
  <2> DEFINE batch == [from |-> scanNext, to |-> Lesser(scanNext + ScanBatch - 1, lastBlock)]
             gaps  == FindMissingBlocksInRange(batch.from, batch.to)
  <2>1. batch \in BlockRange
    BY DEF TypeOK, Block, BlockRange, Lesser
  <2>a. ranges' \in SUBSET BlockRange
    <3>1. gaps \in SUBSET BlockRange
      BY FoundType
    <3>2. ranges' = ranges \cup gaps \/ ranges' = ranges
      BY DEF SaveMissingRanges
    <3> QED BY <3>1, <3>2 DEF TypeOK
  <2>b. unscanned' \in Seq(BlockRange)
    <3>1. unscanned \in Seq(BlockRange)
      BY DEF TypeOK
    <3>2. Append(unscanned, batch) \in Seq(BlockRange)
      BY <2>1, <3>1
    <3> QED BY <3>1, <3>2
  <2>c. scanNext' \in Nat /\ scanNext' >= First /\ faults' \in Nat
    BY DEF TypeOK, Fault, NoFault
  <2>2. TypeOK'
    BY <2>a, <2>b, <2>c DEF TypeOK
  <2>3. QuietUntilUp' /\ BoundsSet' /\ RescanListed'
    BY DEF QuietUntilUp, BoundsSet, RescanListed, Resting, TypeOK
  <2> QED BY <2>2, <2>3
<1>2. CASE StartWithMissingRangeCollector
  <2> USE <1>2 DEF StartWithMissingRangeCollector
  <2>1. TypeOK'
    BY DEF TypeOK, Block
  <2>2. QuietUntilUp' /\ BoundsSet' /\ RescanListed'
    BY DEF QuietUntilUp, BoundsSet, RescanListed, TypeOK, Block
  <2> QED BY <2>1, <2>2
<1> QED BY <1>1, <1>2

LEMMA TInvBackward == TInv /\ BackwardScanner => TInv'
<1> SUFFICES ASSUME TInv, BackwardScanner PROVE TInv'
  OBVIOUS
<1> USE CatchupAssumption DEF BackwardScanner, TInv, fillVars, boundVars, dbVars
<1>0. Resting \in ScannerState
  BY DEF Resting, ScannerState, BlockRange, Block
<1>1. CASE ScanBackwardFind
  <2> USE <1>1 DEF ScanBackwardFind
  <2> DEFINE to == minFetched - 1
             from == Greater(IF to > ScanBatch THEN to - ScanBatch + 1 ELSE 0, First)
  <2>1. [from |-> from, to |-> to] \in BlockRange
    BY DEF TypeOK, Block, BlockRange, Greater
  <2>2. bwd' \in ScannerState
    BY <2>1, FoundType DEF ScannerState
  <2>3. TypeOK'
    BY <2>2 DEF TypeOK
  <2>4. QuietUntilUp' /\ BoundsSet' /\ RescanListed'
    BY DEF QuietUntilUp, BoundsSet, RescanListed
  <2> QED BY <2>3, <2>4
<1>2. CASE ScanBackwardSave
  <2> USE <1>2 DEF ScanBackwardSave
  <2>1. bwd.r.from \in Block /\ bwd.gaps \in SUBSET BlockRange /\ maxFetched \in Block
    BY DEF TypeOK, ScannerState, BlockRange, BoundsSet
  <2>2. TypeOK'
    BY <1>0, <2>1 DEF TypeOK, SaveMissingRanges, UpdateIndexerProgress, Fault, NoFault
  <2>3. QuietUntilUp' /\ BoundsSet' /\ RescanListed'
    BY <2>1 DEF QuietUntilUp, BoundsSet, RescanListed
  <2> QED BY <2>2, <2>3
<1> QED BY <1>1, <1>2

LEMMA TInvForward == TInv /\ ForwardScanner => TInv'
<1> SUFFICES ASSUME TInv, ForwardScanner PROVE TInv'
  OBVIOUS
<1> USE CatchupAssumption DEF ForwardScanner, TInv, fillVars, boundVars, dbVars
<1>0. Resting \in ScannerState /\ Resting.pc = "idle"
  BY DEF Resting, ScannerState, BlockRange, Block
<1>a. fwd.gaps \in SUBSET BlockRange /\ fwd.r \in BlockRange
  BY DEF TypeOK, ScannerState
<1>1. CASE RescanFailedFind
  <2> USE <1>1 DEF RescanFailedFind
  <2>1. Head(unscanned) \in BlockRange
    BY DEF TypeOK
  <2>2. fwd' \in ScannerState
    BY <2>1, FoundType DEF ScannerState
  <2>3. TypeOK'
    BY <2>2 DEF TypeOK
  <2>4. QuietUntilUp' /\ BoundsSet' /\ RescanListed'
    BY DEF QuietUntilUp, BoundsSet, RescanListed
  <2> QED BY <2>3, <2>4
<1>2. CASE RescanFailedSave
  <2> USE <1>2 DEF RescanFailedSave
  <2>1. unscanned # <<>>
    BY DEF RescanListed
  <2>2. unscanned' \in Seq(BlockRange)
    <3>1. unscanned \in Seq(BlockRange)
      BY DEF TypeOK
    <3>2. Tail(unscanned) \in Seq(BlockRange)
      BY <2>1, <3>1
    <3>3. unscanned' = Tail(unscanned) \/ unscanned' = unscanned
      OBVIOUS
    <3> QED BY <3>1, <3>2, <3>3
  <2>3. ranges' \in SUBSET BlockRange
    BY <1>a DEF TypeOK, SaveMissingRanges
  <2>4. TypeOK'
    BY <1>0, <2>2, <2>3 DEF TypeOK, Fault, NoFault
  <2>5. QuietUntilUp' /\ BoundsSet' /\ RescanListed'
    BY <1>0 DEF QuietUntilUp, BoundsSet, RescanListed
  <2> QED BY <2>4, <2>5
<1>3. CASE ScanForwardBegin
  <2> USE <1>3 DEF ScanForwardBegin
  <2>1. [from |-> maxFetched + 1, to |-> Lesser(head, cursor)] \in BlockRange
    BY DEF TypeOK, BoundsSet, BlockRange, Block, Lesser
  <2>2. fwd' \in ScannerState
    BY <2>1 DEF ScannerState
  <2>3. TypeOK'
    BY <2>2 DEF TypeOK
  <2>4. QuietUntilUp' /\ BoundsSet' /\ RescanListed'
    BY DEF QuietUntilUp, BoundsSet, RescanListed
  <2> QED BY <2>3, <2>4
<1>4. CASE ScanForwardFind
  <2> USE <1>4 DEF ScanForwardFind
  <2>1. fwd' \in ScannerState /\ fwd'.pc = "save"
    BY FoundType DEF ScannerState, TypeOK
  <2>2. TypeOK'
    BY <2>1 DEF TypeOK
  <2>3. QuietUntilUp' /\ BoundsSet' /\ RescanListed'
    BY <2>1 DEF QuietUntilUp, BoundsSet, RescanListed
  <2> QED BY <2>2, <2>3
<1>5. CASE ScanForwardSave
  <2> USE <1>5 DEF ScanForwardSave
  <2>1. ForwardBatchEnd \in Block
    BY <1>a DEF ForwardBatchEnd, Lesser, BlockRange, Block
  <2>2. ForwardBatchEnd < fwd.r.to => [from |-> ForwardBatchEnd + 1, to |-> fwd.r.to] \in BlockRange
    BY <1>a, <2>1 DEF BlockRange, Block
  <2>3. fwd' \in ScannerState /\ fwd'.pc # "rescan"
    BY <1>0, <2>2 DEF ScannerState
  <2>4. ranges' \in SUBSET BlockRange
    BY <1>a DEF TypeOK, SaveMissingRanges
  <2>5. /\ maxFetched' \in Block /\ faults' \in Nat
        /\ progress' \in [min : Block, max : Block] \cup {[min |-> 0, max |-> 0]}
    BY <2>1 DEF TypeOK, BoundsSet, UpdateIndexerProgress, Fault, NoFault
  <2>6. TypeOK'
    BY <2>3, <2>4, <2>5 DEF TypeOK
  <2>7. QuietUntilUp' /\ BoundsSet' /\ RescanListed'
    BY <2>3, <2>5 DEF QuietUntilUp, BoundsSet, RescanListed
  <2> QED BY <2>6, <2>7
<1> QED BY <1>1, <1>2, <1>3, <1>4, <1>5

LEMMA TInvProducer == TInv /\ (ProducerPoll \/ ProducerPush) => TInv'
<1> SUFFICES ASSUME TInv, ProducerPoll \/ ProducerPush PROVE TInv'
  OBVIOUS
<1> USE CatchupAssumption DEF TInv, scanVars, boundVars, dbVars
<1>1. CASE ProducerPoll
  <2> USE <1>1 DEF ProducerPoll
  <2>1. polled' \in SUBSET BlockRange
    BY DEF GetMissingRangesBatch, TypeOK
  <2>2. TypeOK'
    BY <2>1 DEF TypeOK
  <2>3. QuietUntilUp' /\ BoundsSet' /\ RescanListed'
    BY DEF QuietUntilUp, BoundsSet, RescanListed
  <2> QED BY <2>2, <2>3
<1>2. CASE ProducerPush
  <2> USE <1>2 DEF ProducerPush
  <2>1. PICK r \in polled :
           /\ queue' = Append(queue, r.from)
           /\ polled' = (polled \ {r}) \cup
                        (IF r.from < r.to THEN {[from |-> r.from + 1, to |-> r.to]} ELSE {})
    OBVIOUS
  <2>2. r \in BlockRange
    BY DEF TypeOK
  <2>3. r.from < r.to => [from |-> r.from + 1, to |-> r.to] \in BlockRange
    BY <2>2 DEF BlockRange, Block
  <2>4. polled' \in SUBSET BlockRange
    BY <2>1, <2>3 DEF TypeOK
  <2>5. queue' \in Seq(Block) /\ Len(queue') <= QueueSize
    BY <2>1, <2>2 DEF TypeOK, BlockRange
  <2>6. TypeOK'
    BY <2>4, <2>5 DEF TypeOK
  <2>7. QuietUntilUp' /\ BoundsSet' /\ RescanListed'
    BY DEF QuietUntilUp, BoundsSet, RescanListed
  <2> QED BY <2>6, <2>7
<1> QED BY <1>1, <1>2

LEMMA TInvWorker == ASSUME NEW w \in Workers PROVE TInv /\ WorkerStep(w) => TInv'
<1> SUFFICES ASSUME TInv, WorkerStep(w) PROVE TInv'
  OBVIOUS
<1> USE CatchupAssumption DEF TInv, scanVars, boundVars, dbVars
<1>0. Idle \in WorkerState
  BY DEF Idle, WorkerState, Block
<1>a. worker[w] \in WorkerState /\ worker[w].block \in Block
  BY DEF TypeOK, WorkerState
<1>p. \A s \in {"mark", "process", "requeue"} : [worker[w] EXCEPT !.pc = s] \in WorkerState
  BY <1>a DEF WorkerState
<1>b. Retry(w) => worker' \in [Workers -> WorkerState]
  <2>1. worker[w].tries \in 0..(CatchupAttempts + 1)
    BY <1>a DEF WorkerState
  <2>2. Lesser(worker[w].tries, CatchupAttempts) + 1 \in 0..(CatchupAttempts + 1)
    BY <2>1 DEF Lesser
  <2>3. [pc    |-> IF worker[w].tries < CatchupAttempts THEN "check" ELSE "requeue",
         block |-> worker[w].block,
         tries |-> Lesser(worker[w].tries, CatchupAttempts) + 1] \in WorkerState
    BY <1>a, <2>2 DEF WorkerState
  <2>4. worker \in [Workers -> WorkerState]
    BY DEF TypeOK
  <2> QED BY <2>3, <2>4 DEF Retry
<1>c. ranges' \in SUBSET BlockRange /\ worker' \in [Workers -> WorkerState] /\ stored' \in SUBSET Block
      /\ queue' \in Seq(Block) /\ Len(queue') <= QueueSize
      => TypeOK'
  <2>1. faults' \in Nat
    <3>1. faults' = faults \/ faults' = faults + 1
      BY DEF WorkerStep, WorkerDequeue, WorkerCheck, WorkerProcess, WorkerRequeue, WorkerMark, Fault, NoFault
    <3> QED BY <3>1 DEF TypeOK
  <2>2. UNCHANGED <<progress, head, mode, scanVars, polled, cursor, boundVars>>
    BY DEF WorkerStep, WorkerDequeue, WorkerCheck, WorkerProcess, WorkerRequeue, WorkerMark
  <2> QED BY <2>1, <2>2 DEF TypeOK
<1>d. QuietUntilUp' /\ BoundsSet' /\ RescanListed'
  BY DEF WorkerStep, WorkerDequeue, WorkerCheck, WorkerProcess, WorkerRequeue, WorkerMark,
         QuietUntilUp, BoundsSet, RescanListed
<1>1. CASE WorkerDequeue(w)
  <2>1. Head(queue) \in Block /\ Tail(queue) \in Seq(Block) /\ Len(Tail(queue)) <= QueueSize
    BY <1>1 DEF WorkerDequeue, TypeOK
  <2>2. [pc |-> "check", block |-> Head(queue), tries |-> 1] \in WorkerState
    BY <2>1 DEF WorkerState
  <2> QED BY <1>1, <1>c, <1>d, <2>1, <2>2 DEF WorkerDequeue, TypeOK
<1>2. CASE WorkerCheck(w)
  <2>1. worker' \in [Workers -> WorkerState]
    <3>1. worker \in [Workers -> WorkerState]
      BY DEF TypeOK
    <3>2. Retry(w) \/ \E s \in {"mark", "process"} : worker' = [worker EXCEPT ![w].pc = s]
      BY <1>2 DEF WorkerCheck
    <3> QED BY <1>b, <1>p, <3>1, <3>2
  <2> QED BY <1>2, <1>c, <1>d, <2>1 DEF WorkerCheck, TypeOK
<1>3. CASE WorkerProcess(w)
  <2>1. worker' \in [Workers -> WorkerState]
    <3>1. worker \in [Workers -> WorkerState]
      BY DEF TypeOK
    <3>2. \E s \in {"mark", "requeue"} : worker' = [worker EXCEPT ![w].pc = s]
      BY <1>3 DEF WorkerProcess
    <3> QED BY <1>p, <3>1, <3>2
  <2>2. stored' \in SUBSET Block
    BY <1>3, <1>a DEF WorkerProcess, TypeOK
  <2> QED BY <1>3, <1>c, <1>d, <2>1, <2>2 DEF WorkerProcess, TypeOK
<1>4. CASE WorkerRequeue(w)
  <2>1. worker' \in [Workers -> WorkerState]
    BY <1>4, <1>0, <1>b DEF WorkerRequeue, TypeOK
  <2>2. ranges' \in SUBSET BlockRange
    BY <1>4, <1>a, SingleRange DEF WorkerRequeue, RequeueMissingBlock, TypeOK
  <2> QED BY <1>4, <1>c, <1>d, <2>1, <2>2 DEF WorkerRequeue, TypeOK
<1>5. CASE WorkerMark(w)
  <2>1. worker' \in [Workers -> WorkerState]
    BY <1>5, <1>0 DEF WorkerMark, TypeOK
  <2>2. ranges' \in SUBSET BlockRange
    BY <1>5 DEF WorkerMark, DeleteMissingRangeByBlock, TypeOK
  <2> QED BY <1>5, <1>c, <1>d, <2>1, <2>2 DEF WorkerMark, TypeOK
<1> QED BY <1>1, <1>2, <1>3, <1>4, <1>5 DEF WorkerStep

LEMMA TInvRealtime ==
    TInv /\ (RealtimeIndex \/ RealtimeSkip \/ RealtimeJump \/ \E b \in Block : RealtimeRevert(b)) => TInv'
<1> SUFFICES ASSUME TInv,
                    RealtimeIndex \/ RealtimeSkip \/ RealtimeJump \/ \E b \in Block : RealtimeRevert(b)
             PROVE  TInv'
  OBVIOUS
<1> USE CatchupAssumption DEF TInv, scanVars, fillVars, boundVars, dbVars
<1>0. cursor \in Nat /\ head \in Block /\ (mode = "up" => cursor + 1 >= First)
  BY DEF TypeOK, BoundsSet
<1>1. CASE RealtimeIndex
  <2>1. cursor + 1 \in Block
    BY <1>0, <1>1 DEF RealtimeIndex, Block
  <2> QED BY <1>0, <1>1, <2>1 DEF RealtimeIndex, TypeOK, QuietUntilUp, BoundsSet, RescanListed, Block
<1>2. CASE RealtimeSkip
  <2>1. cursor + 1 \in Block
    BY <1>0, <1>2 DEF RealtimeSkip, Block
  <2>2. ranges' \in SUBSET BlockRange
    BY <1>2, <2>1, SingleRange DEF RealtimeSkip, RequeueMissingBlock, TypeOK
  <2>3. cursor' \in 0..Last /\ cursor' + 1 >= First
    BY <1>0, <1>2, <2>1 DEF RealtimeSkip, TypeOK, Block
  <2>4. TypeOK'
    BY <1>2, <2>2, <2>3 DEF RealtimeSkip, TypeOK, Fault
  <2>5. QuietUntilUp' /\ BoundsSet' /\ RescanListed'
    BY <1>2, <2>3 DEF RealtimeSkip, QuietUntilUp, BoundsSet, RescanListed
  <2> QED BY <2>4, <2>5
<1>3. CASE RealtimeJump
  <2>1. [from |-> cursor + 1, to |-> head - 1 - 1] \in BlockRange
    BY <1>0, <1>3 DEF RealtimeJump, Block, BlockRange
  <2>2. ranges' \in SUBSET BlockRange
    BY <1>3, <2>1 DEF RealtimeJump, SaveMissingRanges, TypeOK
  <2>3. cursor' \in 0..Last /\ cursor' + 1 >= First
    BY <1>0, <1>3, <2>1 DEF RealtimeJump, TypeOK, Block, BlockRange
  <2>4. TypeOK'
    BY <1>3, <2>2, <2>3 DEF RealtimeJump, TypeOK, Fault, NoFault
  <2>5. QuietUntilUp' /\ BoundsSet' /\ RescanListed'
    BY <1>3, <2>3 DEF RealtimeJump, QuietUntilUp, BoundsSet, RescanListed
  <2> QED BY <2>4, <2>5
<1>4. CASE \E b \in Block : RealtimeRevert(b)
  <2>1. PICK b \in Block : RealtimeRevert(b)
    BY <1>4
  <2>2. cursor' \in 0..Last /\ cursor' + 1 >= First
    BY <2>1 DEF RealtimeRevert, Block
  <2>3. TypeOK'
    BY <2>1, <2>2 DEF RealtimeRevert, TypeOK
  <2>4. QuietUntilUp' /\ BoundsSet' /\ RescanListed'
    BY <2>1, <2>2 DEF RealtimeRevert, QuietUntilUp, BoundsSet, RescanListed
  <2> QED BY <2>3, <2>4
<1> QED BY <1>1, <1>2, <1>3, <1>4

LEMMA TInvEnvironment == TInv /\ (NodeAdvance \/ Crash \/ UNCHANGED vars) => TInv'
<1> SUFFICES ASSUME TInv, NodeAdvance \/ Crash \/ UNCHANGED vars PROVE TInv'
  OBVIOUS
<1> USE CatchupAssumption DEF TInv, scanVars, fillVars, boundVars, dbVars
<1>1. CASE NodeAdvance
  BY <1>1 DEF NodeAdvance, TypeOK, QuietUntilUp, BoundsSet, RescanListed, Block
<1>2. CASE Crash
  <2>1. Idle \in WorkerState /\ Resting \in ScannerState /\ Resting.pc = "idle"
    BY DEF Idle, WorkerState, Resting, ScannerState, BlockRange, Block
  <2>2. TypeOK'
    BY <1>2, <2>1 DEF Crash, TypeOK, Block
  <2> QED BY <1>2, <2>1, <2>2 DEF Crash, QuietUntilUp, BoundsSet, RescanListed
<1>3. CASE UNCHANGED vars
  BY <1>3 DEF vars, TypeOK, QuietUntilUp, BoundsSet, RescanListed
<1> QED BY <1>1, <1>2, <1>3

LEMMA TInvStep == TInv /\ [Next]_vars => TInv'
  BY TInvStart, TInvInitialScan, TInvBackward, TInvForward, TInvProducer, TInvWorker, TInvRealtime,
     TInvEnvironment
  DEF Next, BackwardScanner, ForwardScanner

\* Every step of the collector, catch-up and realtime keeps the tables, the channel and the scanners' state
\* well-typed: in particular the channel never exceeds its capacity and every recorded range is a range of blocks.
THEOREM TypeCorrect == Spec => []TypeOK
<1>1. TInv => TypeOK
  BY DEF TInv
<1> QED BY TInvInit, TInvStep, <1>1, PTL DEF Spec
-----------------------------------------------------------------------------
(***************************************************************************)
(* NoBlockLost, for the steps Calm allows.  The blocks in flight first:    *)
(* which steps add to them and which remove from them.                     *)
(***************************************************************************)

LEMMA InFlightSame == UNCHANGED <<polled, queue, worker>> => InFlight' = InFlight
  BY DEF InFlight

\* A poll adds the blocks of the rows it reads.
LEMMA InFlightPoll ==
    ASSUME ProducerPoll
    PROVE  InFlight' = InFlight \cup {b \in Block : \E r \in polled' : In(b, r)}
  BY DEF ProducerPoll, InFlight

\* A push moves one block from the polled ranges to the channel.
LEMMA InFlightPush ==
    ASSUME TInv, ProducerPush
    PROVE  InFlight' = InFlight
<1> USE CatchupAssumption DEF ProducerPush
<1>1. PICK r \in polled :
         /\ queue' = Append(queue, r.from)
         /\ polled' = (polled \ {r}) \cup
                      (IF r.from < r.to THEN {[from |-> r.from + 1, to |-> r.to]} ELSE {})
  OBVIOUS
<1>2. r \in BlockRange /\ queue \in Seq(Block) /\ polled \in SUBSET BlockRange
  BY DEF TInv, TypeOK
<1>3. \A b \in Block : (\E i \in DOMAIN queue' : queue'[i] = b)
                         <=> (\E i \in DOMAIN queue : queue[i] = b) \/ b = r.from
  <2>1. DOMAIN queue = 1..Len(queue) /\ DOMAIN queue' = 1..(Len(queue) + 1) /\ Len(queue) \in Nat
    BY <1>1, <1>2 DEF BlockRange
  <2>2. \A i \in 1..Len(queue) : queue'[i] = queue[i]
    BY <1>1, <1>2 DEF BlockRange
  <2>3. queue'[Len(queue) + 1] = r.from
    BY <1>1, <1>2 DEF BlockRange
  <2> QED BY <2>1, <2>2, <2>3
<1>4. \A b \in Block : (\E s \in polled : In(b, s)) <=> (\E s \in polled' : In(b, s)) \/ b = r.from
  <2>1. \A b \in Block : In(b, r) <=> b = r.from \/ (r.from < r.to /\ In(b, [from |-> r.from + 1, to |-> r.to]))
    BY <1>2 DEF In, BlockRange, Block
  <2> QED BY <1>1, <2>1
<1> QED BY <1>3, <1>4 DEF InFlight

\* A worker takes a block from the channel.
LEMMA InFlightDequeue ==
    ASSUME TInv, NEW w \in Workers, WorkerDequeue(w)
    PROVE  InFlight' = InFlight
<1> USE DEF WorkerDequeue
<1>1. queue \in Seq(Block) /\ queue # <<>> /\ worker \in [Workers -> WorkerState]
  BY DEF TInv, TypeOK
<1>2. \A b \in Block : (\E i \in DOMAIN queue : queue[i] = b)
                         <=> (\E i \in DOMAIN queue' : queue'[i] = b) \/ b = Head(queue)
  <2>1. /\ Len(queue) \in Nat \ {0} /\ DOMAIN queue = 1..Len(queue)
        /\ DOMAIN queue' = 1..(Len(queue) - 1) /\ Head(queue) = queue[1]
    BY <1>1
  <2>2. \A i \in 1..(Len(queue) - 1) : queue'[i] = queue[i + 1]
    BY <1>1
  <2>3. \A i \in 1..Len(queue) : i = 1 \/ i - 1 \in 1..(Len(queue) - 1)
    BY <2>1
  <2>4. ASSUME NEW b \in Block, NEW i \in DOMAIN queue, queue[i] = b
        PROVE  (\E j \in DOMAIN queue' : queue'[j] = b) \/ b = Head(queue)
    <3>1. CASE i = 1
      BY <2>1, <2>4, <3>1
    <3>2. CASE i # 1
      <4>1. i - 1 \in DOMAIN queue' /\ queue'[i - 1] = queue[i]
        BY <2>1, <2>2, <3>2
      <4> QED BY <2>4, <4>1
    <3> QED BY <3>1, <3>2
  <2>5. ASSUME NEW b \in Block, NEW i \in DOMAIN queue', queue'[i] = b
        PROVE  \E j \in DOMAIN queue : queue[j] = b
    <3>1. i + 1 \in DOMAIN queue /\ queue[i + 1] = b
      BY <2>1, <2>2, <2>5
    <3> QED BY <3>1
  <2> QED BY <2>1, <2>4, <2>5
<1>3. /\ worker'[w].pc # "idle" /\ worker'[w].block = Head(queue) /\ worker[w].pc = "idle"
      /\ \A v \in Workers : v # w => worker'[v] = worker[v]
  BY <1>1
<1> QED BY <1>2, <1>3 DEF InFlight

\* The steps of a worker that keep it busy with its block.
LEMMA InFlightBusy ==
    ASSUME NEW w \in Workers, UNCHANGED <<polled, queue>>,
           worker[w].pc # "idle", worker'[w].pc # "idle", worker'[w].block = worker[w].block,
           \A v \in Workers : v # w => worker'[v] = worker[v]
    PROVE  InFlight' = InFlight
  BY DEF InFlight

\* A worker that is done with its block takes at most that block out of flight.
LEMMA InFlightDone ==
    ASSUME NEW w \in Workers, UNCHANGED <<polled, queue>>, worker'[w].pc = "idle",
           \A v \in Workers : v # w => worker'[v] = worker[v]
    PROVE  /\ InFlight' \subseteq InFlight
           /\ \A b \in InFlight : b # worker[w].block => b \in InFlight'
  BY DEF InFlight

\* A block stays accounted for while the blocks in flight only shrink by others and every row that holds no block
\* in flight is kept.
LEMMA AccountedKept ==
    ASSUME NEW b, Accounted(b), stored \subseteq stored',
           InFlight' \subseteq InFlight, b \in InFlight => b \in InFlight',
           \A r \in ranges : (\A c \in InFlight : ~In(c, r)) => r \in ranges'
    PROVE  Accounted(b)'
  BY DEF Accounted, Covered

LEMMA AccountedKeptSimply ==
    ASSUME NEW b, Accounted(b), stored \subseteq stored', InFlight' = InFlight, ranges \subseteq ranges'
    PROVE  Accounted(b)'
  BY DEF Accounted, Covered

\* A step that keeps what is owed accounted for, and leaves the rescans alone, keeps AllCovered and RescanCovers.
LEMMA CoverageKept ==
    ASSUME AllCovered, RescanCovers, UNCHANGED unscanned, fwd' = fwd \/ fwd'.pc # "rescan",
           \A b \in Block : Owed(b)' => \/ Owed(b) /\ (Accounted(b) => Accounted(b)')
                                        \/ Accounted(b)'
    PROVE  AllCovered' /\ RescanCovers'
<1>1. \A b \in Block : ToRescan(b)' <=> ToRescan(b)
  BY DEF ToRescan
<1>2. AllCovered'
  BY <1>1 DEF AllCovered, Block
<1>3. RescanCovers'
  BY DEF RescanCovers, Block
<1> QED BY <1>2, <1>3
-----------------------------------------------------------------------------
(***************************************************************************)
(* IInv is preserved: one lemma per process, one step per action.          *)
(***************************************************************************)

LEMMA IInvInit == Init => IInv
<1> SUFFICES ASSUME Init PROVE IInv
  OBVIOUS
<1>1. TInv
  BY TInvInit
<1>2. AllCovered /\ RescanCovers /\ MarkStored
  BY DEF Init, AllCovered, Owed, RescanCovers, Resting, MarkStored, Idle
<1> QED BY <1>1, <1>2 DEF IInv

LEMMA IInvStarting == IInv /\ Starting => IInv'
<1> SUFFICES ASSUME IInv, Starting PROVE IInv'
  OBVIOUS
<1> USE CatchupAssumption DEF fillVars, boundVars, dbVars, scanVars
<1>0. TInv'
  BY TInvStart, TInvInitialScan DEF IInv, Starting
<1>a. /\ mode # "up" /\ polled = {} /\ queue = <<>> /\ worker = [w \in Workers |-> Idle]
      /\ UNCHANGED <<polled, queue, worker, fwd, stored>> /\ fwd.pc = "idle"
  BY DEF Starting, Start, InitialScanBatch, StartWithMissingRangeCollector, IInv, TInv, QuietUntilUp, Resting
<1>b. InFlight = {} /\ InFlight' = {}
  BY <1>a DEF InFlight, Idle
<1>c. RescanCovers' /\ MarkStored'
  BY <1>a DEF RescanCovers, MarkStored, Idle
<1>1. CASE Start
  <2>1. AllCovered'
    BY <1>1 DEF Start, AllCovered, Owed, Block
  <2> QED BY <1>0, <1>c, <2>1 DEF IInv
<1>2. CASE InitialScanBatch
  <2> DEFINE batch == [from |-> scanNext, to |-> Lesser(scanNext + ScanBatch - 1, lastBlock)]
             gaps  == FindMissingBlocksInRange(batch.from, batch.to)
  <2>1. unscanned \in Seq(BlockRange) /\ batch \in BlockRange /\ scanNext \in Nat /\ lastBlock \in Block
        /\ stored \in SUBSET Block /\ ranges \subseteq ranges'
    BY <1>2 DEF InitialScanBatch, SaveMissingRanges, IInv, TInv, TypeOK, Block, BlockRange, Lesser
  <2>2. \A b \in Block : Accounted(b) => Accounted(b)'
    BY <1>a, <1>b, <2>1, AccountedKeptSimply
  <2>3. \A b \in Block : ToRescan(b) => ToRescan(b)'
    <3>1. CASE unscanned' = unscanned
      BY <3>1 DEF ToRescan
    <3>2. CASE unscanned' = Append(unscanned, batch)
      <4>1. \A i \in DOMAIN unscanned : i \in DOMAIN unscanned' /\ unscanned'[i] = unscanned[i]
        BY <2>1, <3>2
      <4> QED BY <4>1 DEF ToRescan
    <3> QED BY <1>2, <3>1, <3>2 DEF InitialScanBatch
  <2>4. ASSUME NEW b \in Block, Owed(b)'
        PROVE  Accounted(b)' \/ ToRescan(b)'
    <3>1. CASE b < scanNext
      <4>1. Owed(b)
        BY <1>2, <2>4, <3>1 DEF InitialScanBatch, Owed
      <4> QED BY <4>1, <2>2, <2>3 DEF IInv, AllCovered
    <3>2. CASE ~(b < scanNext)
      <4>1. In(b, batch)
        BY <1>2, <2>1, <2>4, <3>2 DEF InitialScanBatch, Owed, In, Lesser, Block
      <4>2. CASE unscanned' = Append(unscanned, batch)
        <5>1. Len(unscanned) + 1 \in DOMAIN unscanned' /\ unscanned'[Len(unscanned) + 1] = batch
          BY <2>1, <4>2
        <5> QED BY <4>1, <5>1 DEF ToRescan
      <4>3. CASE ranges' = ranges \cup gaps
        <5>1. b \in stored \/ \E r \in gaps : In(b, r)
          <6>1. batch.from \in Block /\ batch.to \in Block /\ batch.from <= b /\ b <= batch.to
            BY <2>1, <4>1 DEF BlockRange, In
          <6> HIDE DEF batch
          <6> QED BY <2>1, <6>1, GapCovers
        <5> HIDE DEF gaps
        <5> QED BY <1>a, <1>b, <4>3, <5>1 DEF Accounted, Covered
      <4> QED BY <1>2, <4>2, <4>3 DEF InitialScanBatch, SaveMissingRanges
    <3> QED BY <3>1, <3>2
  <2>5. AllCovered'
    BY <2>4 DEF AllCovered, Block
  <2> QED BY <1>0, <1>c, <2>5 DEF IInv
<1>3. CASE StartWithMissingRangeCollector
  <2>1. \A b \in Block : Accounted(b) => Accounted(b)'
    BY <1>3, <1>a, <1>b, AccountedKeptSimply DEF StartWithMissingRangeCollector
  <2>2. \A b \in Block : Owed(b)' => Owed(b)
    BY <1>3 DEF StartWithMissingRangeCollector, Owed, IInv, TInv, TypeOK, Block
  <2>3. AllCovered' /\ RescanCovers'
    BY <1>3, <2>1, <2>2, CoverageKept DEF StartWithMissingRangeCollector, IInv
  <2> QED BY <1>0, <1>c, <2>3 DEF IInv
<1> QED BY <1>1, <1>2, <1>3 DEF Starting

LEMMA IInvBackward == IInv /\ BackwardScanner => IInv'
<1> SUFFICES ASSUME IInv, BackwardScanner PROVE IInv'
  OBVIOUS
<1> USE DEF fillVars, boundVars, dbVars
<1>0. TInv'
  BY TInvBackward DEF IInv
<1>1. /\ UNCHANGED <<stored, mode, scanNext, lastBlock, unscanned, cursor, fwd, polled, queue, worker>>
      /\ ranges \subseteq ranges'
  BY DEF BackwardScanner, ScanBackwardFind, ScanBackwardSave, SaveMissingRanges
<1>2. \A b \in Block : Accounted(b) => Accounted(b)'
  BY <1>1, InFlightSame, AccountedKeptSimply
<1>3. \A b \in Block : Owed(b)' => Owed(b)
  BY <1>1 DEF Owed
<1>4. AllCovered' /\ RescanCovers'
  BY <1>1, <1>2, <1>3, CoverageKept DEF IInv
<1>5. MarkStored'
  BY <1>1 DEF IInv, MarkStored
<1> QED BY <1>0, <1>4, <1>5 DEF IInv

LEMMA IInvForward == IInv /\ ForwardScanner /\ Calm => IInv'
<1> SUFFICES ASSUME IInv, ForwardScanner, Calm PROVE IInv'
  OBVIOUS
<1> USE DEF fillVars, boundVars, dbVars
<1>0. TInv'
  BY TInvForward DEF IInv
<1>1. /\ UNCHANGED <<stored, mode, scanNext, lastBlock, cursor, polled, queue, worker>>
      /\ ranges \subseteq ranges'
  BY DEF ForwardScanner, RescanFailedFind, RescanFailedSave, ScanForwardBegin, ScanForwardFind,
         ScanForwardSave, SaveMissingRanges
<1>2. InFlight' = InFlight
  BY <1>1, InFlightSame
<1>3. \A b \in Block : Accounted(b) => Accounted(b)'
  BY <1>1, <1>2, AccountedKeptSimply
<1>4. \A b \in Block : Owed(b)' => Owed(b)
  BY <1>1 DEF Owed
<1>5. MarkStored'
  BY <1>1 DEF IInv, MarkStored
<1>6. CASE RescanFailedFind
  <2>1. unscanned \in Seq(BlockRange) /\ stored \in SUBSET Block
    BY DEF IInv, TInv, TypeOK
  <2>2. AllCovered'
    BY <1>6, <1>3, <1>4 DEF RescanFailedFind, IInv, AllCovered, ToRescan, Block
  <2>3. fwd'.r \in BlockRange /\ fwd'.gaps = FindMissingBlocksInRange(fwd'.r.from, fwd'.r.to)
    BY <1>6, <2>1 DEF RescanFailedFind
  <2>4. ASSUME NEW b \in Block, In(b, fwd'.r), b \notin stored
        PROVE  \E r \in fwd'.gaps : In(b, r)
    <3>1. fwd'.r.from \in Block /\ fwd'.r.to \in Block /\ fwd'.r.from <= b /\ b <= fwd'.r.to
      BY <2>3, <2>4 DEF BlockRange, In
    <3> QED BY <2>1, <2>3, <2>4, <3>1, GapCovers
  <2>5. RescanCovers'
    BY <1>1, <2>4 DEF RescanCovers, Accounted, Block, In
  <2> QED BY <1>0, <1>5, <2>2, <2>5 DEF IInv
<1>7. CASE RescanFailedSave
  <2>1. unscanned \in Seq(BlockRange) /\ unscanned # <<>> /\ fwd.r = Head(unscanned) /\ fwd.pc = "rescan"
    BY <1>7 DEF RescanFailedSave, IInv, TInv, TypeOK, RescanListed
  <2>2. RescanCovers'
    BY <1>7 DEF RescanFailedSave, RescanCovers, Resting
  <2>3. CASE UNCHANGED unscanned
    <3>1. AllCovered'
      BY <1>3, <1>4, <2>3 DEF IInv, AllCovered, ToRescan, Block
    <3> QED BY <1>0, <1>5, <2>2, <3>1 DEF IInv
  <2>4. CASE SaveMissingRanges(fwd.gaps) /\ unscanned' = Tail(unscanned)
    <3>1. /\ Len(unscanned) \in Nat \ {0} /\ DOMAIN unscanned = 1..Len(unscanned)
          /\ DOMAIN unscanned' = 1..(Len(unscanned) - 1)
          /\ Head(unscanned) = unscanned[1]
      BY <2>1, <2>4
    <3>2. \A i \in 1..(Len(unscanned) - 1) : unscanned'[i] = unscanned[i + 1]
      BY <2>1, <2>4
    <3>3. ASSUME NEW b \in Block, ToRescan(b)
          PROVE  In(b, fwd.r) \/ ToRescan(b)'
      <4>1. PICK i \in DOMAIN unscanned : In(b, unscanned[i])
        BY <3>3 DEF ToRescan
      <4>2. CASE i = 1
        BY <2>1, <3>1, <4>1, <4>2
      <4>3. CASE i # 1
        <5>1. i - 1 \in DOMAIN unscanned' /\ unscanned'[i - 1] = unscanned[i]
          BY <3>1, <3>2, <4>3
        <5> QED BY <4>1, <5>1 DEF ToRescan
      <4> QED BY <4>2, <4>3
    <3>4. ASSUME NEW b \in Block, Owed(b), In(b, fwd.r)
          PROVE  Accounted(b)'
      <4>1. CASE Accounted(b)
        BY <4>1, <1>3
      <4>2. CASE \E r \in fwd.gaps : In(b, r)
        <5>1. PICK r \in fwd.gaps : In(b, r)
          BY <4>2
        <5>2. r \in ranges' /\ \A c \in InFlight' : ~In(c, r)
          BY <1>2, <1>7, <2>4, <5>1 DEF Calm, RescanClear, SaveMissingRanges
        <5> QED BY <5>1, <5>2 DEF Accounted, Covered
      <4> QED BY <2>1, <3>4, <4>1, <4>2 DEF IInv, RescanCovers
    <3>5. AllCovered'
      BY <1>3, <1>4, <3>3, <3>4 DEF IInv, AllCovered, Block
    <3> QED BY <1>0, <1>5, <2>2, <3>5 DEF IInv
  <2> QED BY <1>7, <2>3, <2>4 DEF RescanFailedSave
<1>8. CASE ScanForwardBegin \/ ScanForwardFind \/ ScanForwardSave
  <2>1. UNCHANGED unscanned /\ fwd'.pc # "rescan"
    <3>1. CASE ScanForwardBegin
      BY <3>1 DEF ScanForwardBegin
    <3>2. CASE ScanForwardFind
      <4>1. fwd \in ScannerState
        BY DEF IInv, TInv, TypeOK
      <4> QED BY <3>2, <4>1 DEF ScanForwardFind, ScannerState
    <3>3. CASE ScanForwardSave
      BY <3>3 DEF ScanForwardSave, Resting
    <3> QED BY <1>8, <3>1, <3>2, <3>3
  <2>2. AllCovered' /\ RescanCovers'
    BY <1>3, <1>4, <2>1, CoverageKept DEF IInv
  <2> QED BY <1>0, <1>5, <2>2 DEF IInv
<1> QED BY <1>6, <1>7, <1>8 DEF ForwardScanner

LEMMA IInvProducer == IInv /\ (ProducerPoll \/ ProducerPush) /\ Calm => IInv'
<1> SUFFICES ASSUME IInv, ProducerPoll \/ ProducerPush, Calm PROVE IInv'
  OBVIOUS
<1> USE DEF scanVars, boundVars, dbVars
<1>0. TInv'
  BY TInvProducer DEF IInv
<1>1. UNCHANGED <<stored, ranges, mode, scanNext, lastBlock, unscanned, cursor, fwd, worker>>
  BY DEF ProducerPoll, ProducerPush
<1>2. \A b \in Block : Owed(b)' => Owed(b)
  BY <1>1 DEF Owed
<1>3. MarkStored'
  BY <1>1 DEF IInv, MarkStored
<1>4. ASSUME NEW b \in Block, Accounted(b) PROVE Accounted(b)'
  <2>1. CASE ProducerPush
    BY <1>1, <1>4, <2>1, InFlightPush, AccountedKeptSimply DEF IInv
  <2>2. CASE ProducerPoll
    <3>1. InFlight' = InFlight \cup {c \in Block : \E r \in polled' : In(c, r)}
      BY <2>2, InFlightPoll
    <3>2. CASE b \in stored \/ b \in InFlight
      BY <1>1, <3>1, <3>2 DEF Accounted, Covered
    <3>3. CASE \E r \in ranges : In(b, r) /\ \A c \in InFlight : ~In(c, r)
      <4>1. PICK r \in ranges : In(b, r) /\ \A c \in InFlight : ~In(c, r)
        BY <3>3
      <4>2. CASE r \in polled'
        BY <3>1, <4>1, <4>2 DEF Accounted, Covered
      <4>3. CASE r \notin polled'
        <5>1. \A s \in polled', c \in Block : ~(In(c, s) /\ In(c, r))
          BY <2>2, <4>1, <4>3 DEF Calm, PollWhole
        <5>2. \A c \in InFlight' : ~In(c, r)
          BY <3>1, <4>1, <5>1
        <5> QED BY <1>1, <4>1, <5>2 DEF Accounted, Covered
      <4> QED BY <4>2, <4>3
    <3> QED BY <1>4, <3>2, <3>3 DEF Accounted, Covered
  <2> QED BY <2>1, <2>2
<1>5. AllCovered' /\ RescanCovers'
  BY <1>1, <1>2, <1>4, CoverageKept DEF IInv
<1> QED BY <1>0, <1>3, <1>5 DEF IInv

LEMMA IInvWorker == ASSUME NEW w \in Workers PROVE IInv /\ WorkerStep(w) => IInv'
<1> SUFFICES ASSUME IInv, WorkerStep(w) PROVE IInv'
  OBVIOUS
<1> USE DEF scanVars, boundVars, dbVars
<1>0. TInv'
  BY TInvWorker DEF IInv
<1>b. PICK b \in Block : b = worker[w].block
  BY DEF IInv, TInv, TypeOK, WorkerState
<1>1. UNCHANGED <<mode, scanNext, lastBlock, unscanned, cursor, fwd, polled>> /\ stored \subseteq stored'
  BY DEF WorkerStep, WorkerDequeue, WorkerCheck, WorkerProcess, WorkerRequeue, WorkerMark
<1>2. \A c \in Block : Owed(c)' => Owed(c)
  BY <1>1 DEF Owed
<1>3. worker \in [Workers -> WorkerState] /\ worker[w] \in WorkerState /\ cursor \in Nat
  BY DEF IInv, TInv, TypeOK
<1>4. \A v \in Workers : v # w => worker'[v] = worker[v]
  BY <1>3 DEF WorkerStep, WorkerDequeue, WorkerCheck, WorkerProcess, WorkerRequeue, WorkerMark, Retry
<1>5. (worker'[w].pc = "mark" => worker'[w].block \in stored') => MarkStored'
  BY <1>1, <1>4 DEF IInv, MarkStored
<1>6. Retry(w) => worker'[w].pc \in {"check", "requeue"} /\ worker'[w].block = b
  BY <1>3, <1>b DEF Retry
<1>7. CASE InFlight' = InFlight /\ ranges \subseteq ranges' /\ MarkStored'
  <2>1. \A c \in Block : Accounted(c) => Accounted(c)'
    BY <1>1, <1>7, AccountedKeptSimply
  <2>2. AllCovered' /\ RescanCovers'
    BY <1>1, <1>2, <2>1, CoverageKept DEF IInv
  <2> QED BY <1>0, <1>7, <2>2 DEF IInv
<1>8. CASE WorkerDequeue(w)
  <2>1. worker'[w].pc = "check"
    BY <1>8, <1>3 DEF WorkerDequeue
  <2> QED BY <1>5, <1>7, <1>8, <2>1, InFlightDequeue DEF WorkerDequeue, IInv
<1>9. CASE WorkerCheck(w)
  <2>1. /\ worker[w].pc = "check" /\ worker'[w].pc # "idle" /\ worker'[w].block = b
        /\ worker'[w].pc = "mark" => b \in stored
    <3>1. CASE Retry(w)
      BY <1>6, <1>9, <3>1 DEF WorkerCheck
    <3>2. CASE worker' = [worker EXCEPT ![w].pc = IF b \in stored THEN "mark" ELSE "process"]
      <4>1. worker'[w] = [worker[w] EXCEPT !.pc = IF b \in stored THEN "mark" ELSE "process"]
        BY <1>3, <3>2
      <4>2. worker'[w].pc = (IF b \in stored THEN "mark" ELSE "process") /\ worker'[w].block = b
        BY <1>3, <1>b, <4>1 DEF WorkerState
      <4> QED BY <1>9, <4>2 DEF WorkerCheck
    <3> QED BY <1>9, <1>b, <3>1, <3>2 DEF WorkerCheck
  <2>2. UNCHANGED <<polled, queue, ranges, stored>>
    BY <1>9 DEF WorkerCheck
  <2>3. InFlight' = InFlight
    BY <1>4, <1>b, <2>1, <2>2, InFlightBusy
  <2> QED BY <1>5, <1>7, <2>1, <2>2, <2>3
<1>10. CASE WorkerProcess(w)
  <2>1. /\ worker[w].pc = "process" /\ worker'[w].pc # "idle" /\ worker'[w].block = b
        /\ worker'[w].pc = "mark" => b \in stored'
    <3>1. CASE worker' = [worker EXCEPT ![w].pc = "mark"] /\ stored' = stored \cup {b}
      <4>1. worker'[w] = [worker[w] EXCEPT !.pc = "mark"]
        BY <1>3, <3>1
      <4>2. worker'[w].pc = "mark" /\ worker'[w].block = b
        BY <1>3, <1>b, <4>1 DEF WorkerState
      <4> QED BY <1>10, <3>1, <4>2 DEF WorkerProcess
    <3>2. CASE worker' = [worker EXCEPT ![w].pc = "requeue"]
      <4>1. worker'[w] = [worker[w] EXCEPT !.pc = "requeue"]
        BY <1>3, <3>2
      <4>2. worker'[w].pc = "requeue" /\ worker'[w].block = b
        BY <1>3, <1>b, <4>1 DEF WorkerState
      <4> QED BY <1>10, <4>2 DEF WorkerProcess
    <3> QED BY <1>10, <1>b, <3>1, <3>2 DEF WorkerProcess
  <2>2. UNCHANGED <<polled, queue, ranges>>
    BY <1>10 DEF WorkerProcess
  <2>3. InFlight' = InFlight
    BY <1>4, <1>b, <2>1, <2>2, InFlightBusy
  <2> QED BY <1>5, <1>7, <2>1, <2>2, <2>3
<1>11. CASE WorkerRequeue(w)
  <2>1. UNCHANGED <<polled, queue, stored>> /\ ranges \subseteq ranges' /\ worker[w].pc = "requeue"
    BY <1>11 DEF WorkerRequeue, RequeueMissingBlock
  <2>2. CASE Retry(w)
    <3>1. InFlight' = InFlight
      BY <1>4, <1>6, <1>b, <2>1, <2>2, InFlightBusy
    <3> QED BY <1>5, <1>6, <1>7, <2>1, <2>2, <3>1
  <2>3. CASE RequeueMissingBlock(worker[w].block) /\ worker' = [worker EXCEPT ![w] = Idle]
    <3>1. worker'[w].pc = "idle"
      BY <1>3, <2>3 DEF Idle
    <3>2. InFlight' \subseteq InFlight /\ \A c \in InFlight : c # b => c \in InFlight'
      BY <1>4, <1>b, <2>1, <3>1, InFlightDone
    <3>3. Accounted(b)'
      <4>1. [from |-> b, to |-> b] \in ranges'
        BY <1>b, <2>3 DEF RequeueMissingBlock
      <4>2. \A c \in Block : In(c, [from |-> b, to |-> b]) <=> c = b
        BY CatchupAssumption DEF In, Block
      <4>3. InFlight' \subseteq Block
        BY DEF InFlight, Block
      <4>4. b \in InFlight' \/ \A c \in InFlight' : ~In(c, [from |-> b, to |-> b])
        BY <4>2, <4>3
      <4> QED BY <4>1, <4>2, <4>4 DEF Accounted, Covered
    <3>4. ASSUME NEW c \in Block, Accounted(c) PROVE Accounted(c)'
      <4>1. CASE c = b
        BY <3>3, <4>1
      <4>2. CASE c # b
        BY <2>1, <3>2, <3>4, <4>2, AccountedKept
      <4> QED BY <4>1, <4>2
    <3>5. AllCovered' /\ RescanCovers'
      BY <1>1, <1>2, <3>4, CoverageKept DEF IInv
    <3> QED BY <1>0, <1>5, <3>1, <3>5 DEF IInv
  <2> QED BY <1>11, <2>2, <2>3 DEF WorkerRequeue
<1>12. CASE WorkerMark(w)
  <2>1. UNCHANGED <<polled, queue, stored>> /\ worker[w].pc = "mark" /\ worker'[w].pc = "idle"
    BY <1>12, <1>3 DEF WorkerMark, Idle
  <2>2. InFlight' \subseteq InFlight /\ \A c \in InFlight : c # b => c \in InFlight'
    BY <1>4, <1>b, <2>1, InFlightDone
  <2>3. b \in InFlight
    BY <1>b, <2>1 DEF InFlight
  <2>4. \A r \in ranges : (\A c \in InFlight : ~In(c, r)) => r \in ranges'
    BY <1>12, <1>b, <2>3 DEF WorkerMark, DeleteMissingRangeByBlock
  <2>5. ASSUME NEW c \in Block, Owed(c)', Accounted(c) PROVE Accounted(c)'
    <3>1. CASE c = b
      <4>1. c <= cursor
        BY <1>1, <1>12, <2>5 DEF Owed, WorkerMark
      <4>2. c \in stored
        BY <1>3, <1>b, <2>1, <3>1, <4>1, CatchupAssumption DEF IInv, MarkStored, Block
      <4> QED BY <2>1, <4>2 DEF Accounted
    <3>2. CASE c # b
      BY <2>1, <2>2, <2>4, <2>5, <3>2, AccountedKept
    <3> QED BY <3>1, <3>2
  <2>6. AllCovered' /\ RescanCovers'
    BY <1>1, <1>2, <2>5, CoverageKept DEF IInv
  <2> QED BY <1>0, <1>5, <2>1, <2>6 DEF IInv
<1> QED BY <1>8, <1>9, <1>10, <1>11, <1>12 DEF WorkerStep

LEMMA IInvRealtime ==
    IInv /\ (RealtimeIndex \/ RealtimeSkip \/ RealtimeJump \/ \E b \in Block : RealtimeRevert(b)) /\ Calm => IInv'
<1> SUFFICES ASSUME IInv, Calm,
                    RealtimeIndex \/ RealtimeSkip \/ RealtimeJump \/ \E b \in Block : RealtimeRevert(b)
             PROVE  IInv'
  OBVIOUS
<1> USE CatchupAssumption DEF scanVars, fillVars, boundVars, dbVars
<1>0. TInv'
  BY TInvRealtime DEF IInv
<1>1. /\ UNCHANGED <<mode, scanNext, lastBlock, unscanned, fwd, polled, queue, worker>> /\ mode = "up"
  BY DEF RealtimeIndex, RealtimeSkip, RealtimeJump, RealtimeRevert
<1>2. InFlight' = InFlight
  BY <1>1, InFlightSame
<1>3. /\ cursor \in Nat /\ head \in Block /\ cursor + 1 >= First
      /\ worker \in [Workers -> WorkerState] /\ stored \in SUBSET Block
      /\ \A w \in Workers : worker[w].block \in Block
  BY <1>1 DEF IInv, TInv, TypeOK, BoundsSet, WorkerState
<1>4. \A b : Owed(b) <=> b <= cursor
  BY <1>1 DEF Owed
<1>5. \A b : Owed(b)' <=> b <= cursor'
  BY <1>1 DEF Owed
<1>6. CASE RealtimeIndex
  <2>1. stored' = stored \cup {cursor + 1} /\ cursor' = cursor + 1 /\ ranges' = ranges
    BY <1>6 DEF RealtimeIndex
  <2>2. \A b \in Block : Accounted(b) => Accounted(b)'
    BY <1>2, <2>1, AccountedKeptSimply
  <2>3. \A b \in Block : b <= cursor' => b <= cursor \/ b \in stored'
    BY <1>3, <2>1 DEF Block
  <2>4. AllCovered' /\ RescanCovers'
    <3>1. \A b \in Block : Owed(b)' => Owed(b) \/ Accounted(b)'
      BY <1>4, <1>5, <2>3 DEF Accounted
    <3> QED BY <1>1, <2>2, <3>1, CoverageKept DEF IInv
  <2>5. MarkStored'
    BY <1>1, <1>3, <2>1 DEF IInv, MarkStored, Block
  <2> QED BY <1>0, <2>4, <2>5 DEF IInv
<1>7. ASSUME NEW r \in ranges', RealtimeSkip \/ RealtimeJump, stored' = stored, ranges \subseteq ranges',
             cursor' \in Nat, cursor' >= cursor,
             \A b \in Block : b <= cursor' => b <= cursor \/ In(b, r),
             \A b \in Block : In(b, r) => b > cursor
      PROVE  IInv'
  <2>1. \A b \in InFlight : b <= cursor
    BY <1>7 DEF Calm, CursorClear
  <2>2. InFlight \subseteq Block
    BY DEF InFlight
  <2>3. \A c \in InFlight' : ~In(c, r)
    BY <1>2, <1>3, <1>7, <2>1, <2>2 DEF Block
  <2>4. \A b \in Block : Accounted(b) => Accounted(b)'
    BY <1>2, <1>7, AccountedKeptSimply
  <2>5. \A b \in Block : Owed(b)' => Owed(b) \/ Accounted(b)'
    BY <1>4, <1>5, <1>7, <2>3 DEF Accounted, Covered
  <2>6. AllCovered' /\ RescanCovers'
    BY <1>1, <2>4, <2>5, CoverageKept DEF IInv
  <2>7. \A w \in Workers : worker[w].pc = "mark" => worker[w].block \in InFlight
    BY <1>3 DEF InFlight
  <2>8. \A w \in Workers : worker[w].pc = "mark" => worker[w].block \in stored
    BY <1>3, <2>1, <2>7 DEF IInv, MarkStored, Block
  <2>9. MarkStored'
    BY <1>1, <1>7, <2>8 DEF MarkStored
  <2> QED BY <1>0, <2>6, <2>9 DEF IInv
<1>8. CASE RealtimeSkip
  <2> DEFINE r == [from |-> cursor + 1, to |-> cursor + 1]
  <2>1. PICK q : q = r
    OBVIOUS
  <2>2. q \in ranges' /\ stored' = stored /\ ranges \subseteq ranges' /\ cursor' \in {cursor, cursor + 1}
    BY <1>8, <2>1 DEF RealtimeSkip, RequeueMissingBlock
  <2>3. /\ \A b \in Block : b <= cursor' => b <= cursor \/ In(b, q)
        /\ \A b \in Block : In(b, q) => b > cursor
        /\ cursor' \in Nat /\ cursor' >= cursor
    BY <1>3, <2>1, <2>2 DEF Block, In
  <2> QED BY <1>7, <1>8, <2>2, <2>3
<1>9. CASE RealtimeJump
  <2> DEFINE r == [from |-> cursor + 1, to |-> head - 1 - 1]
  <2>1. PICK q : q = r
    OBVIOUS
  <2>2. q \in ranges' /\ stored' = stored /\ ranges \subseteq ranges' /\ cursor' \in {cursor, head - 1 - 1}
        /\ head - 1 > cursor + MaxBehind
    BY <1>9, <2>1 DEF RealtimeJump, SaveMissingRanges
  <2>3. /\ \A b \in Block : b <= cursor' => b <= cursor \/ In(b, q)
        /\ \A b \in Block : In(b, q) => b > cursor
        /\ cursor' \in Nat /\ cursor' >= cursor
    BY <1>3, <2>1, <2>2 DEF Block, In
  <2> QED BY <1>7, <1>9, <2>2, <2>3
<1>10. CASE \E b \in Block : RealtimeRevert(b)
  <2>1. PICK b \in Block : RealtimeRevert(b)
    BY <1>10
  <2>2. stored' = {c \in stored : c < b} /\ cursor' = b - 1 /\ ranges' = ranges /\ b <= cursor
    BY <2>1 DEF RealtimeRevert
  <2>3. ASSUME NEW c \in Block, c <= cursor'
        PROVE  c <= cursor /\ (Accounted(c) => Accounted(c)')
    <3>1. c < b /\ c <= cursor
      BY <1>3, <2>2, <2>3 DEF Block
    <3> QED BY <1>2, <2>2, <3>1 DEF Accounted, Covered
  <2>4. AllCovered' /\ RescanCovers'
    <3>1. \A c \in Block : Owed(c)' => Owed(c) /\ (Accounted(c) => Accounted(c)')
      BY <1>4, <1>5, <2>3
    <3> QED BY <1>1, <3>1, CoverageKept DEF IInv
  <2>5. MarkStored'
    BY <1>1, <1>3, <2>2 DEF IInv, MarkStored, Block
  <2> QED BY <1>0, <2>4, <2>5 DEF IInv
<1> QED BY <1>6, <1>8, <1>9, <1>10

LEMMA IInvEnvironment == IInv /\ (NodeAdvance \/ Crash \/ UNCHANGED vars) => IInv'
<1> SUFFICES ASSUME IInv, NodeAdvance \/ Crash \/ UNCHANGED vars PROVE IInv'
  OBVIOUS
<1> USE DEF scanVars, fillVars, boundVars, dbVars
<1>0. TInv'
  BY TInvEnvironment DEF IInv
<1>1. CASE NodeAdvance \/ UNCHANGED vars
  <2>1. UNCHANGED <<stored, ranges, mode, scanNext, lastBlock, unscanned, cursor, fwd, polled, queue, worker>>
    BY <1>1 DEF NodeAdvance, vars
  <2>2. \A b \in Block : Accounted(b) => Accounted(b)'
    BY <2>1, InFlightSame, AccountedKeptSimply
  <2>3. \A b \in Block : Owed(b)' => Owed(b)
    BY <2>1 DEF Owed
  <2>4. AllCovered' /\ RescanCovers'
    BY <2>1, <2>2, <2>3, CoverageKept DEF IInv
  <2>5. MarkStored'
    BY <2>1 DEF IInv, MarkStored
  <2> QED BY <1>0, <2>4, <2>5 DEF IInv
<1>2. CASE Crash
  <2>1. AllCovered' /\ RescanCovers' /\ MarkStored'
    BY <1>2 DEF Crash, AllCovered, Owed, RescanCovers, Resting, MarkStored, Idle
  <2> QED BY <1>0, <2>1 DEF IInv
<1> QED BY <1>1, <1>2

LEMMA IInvStep == IInv /\ [Next /\ Calm]_vars => IInv'
  BY IInvStarting, IInvBackward, IInvForward, IInvProducer, IInvWorker, IInvRealtime, IInvEnvironment
  DEF Next, Starting, BackwardScanner, ForwardScanner

\* The comment on indexBlock, for every chain length, channel size, batch size and number of workers, faults and
\* stops: while the steps Calm excludes do not happen, every block at or below realtime's cursor is stored, recorded,
\* in flight, listed for a rescan or ahead of a scanner.
THEOREM NothingLost == CalmSpec => []NoBlockLost
<1>1. IInv => NoBlockLost
  BY DEF IInv, AllCovered, Owed, Accounted, Covered, NoBlockLost, Recorded
<1> QED BY IInvInit, IInvStep, <1>1, PTL DEF CalmSpec
=============================================================================
