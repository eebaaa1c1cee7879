------------------------------ MODULE Catchup ------------------------------
(***************************************************************************)
(* Gap filling in collector mode: the missing-range collector finds blocks *)
(* that are not stored and records them as rows of missing_block_ranges,   *)
(* the catch-up producer turns rows into block numbers on a bounded        *)
(* channel, catch-up workers store the blocks and delete the rows, and the *)
(* realtime loop moves its cursor at the head, recording what it steps     *)
(* over.  All of them share the blocks and missing_block_ranges tables;    *)
(* everything else they know is in memory and is lost when the process     *)
(* stops.                                                                  *)
(*                                                                         *)
(* Simplifications: a block is its number (its content and its fork are    *)
(* the subject of module HeadIngest); the node's head never goes down;     *)
(* yieldToRealtime is an arbitrary delay between a worker's dequeue and    *)
(* its first attempt; the completion callback and the backfill_complete    *)
(* flag only feed reports and are left out.                                *)
(***************************************************************************)
EXTENDS Naturals, Sequences, FiniteSets

CONSTANTS First,           \* the collector's FirstBlock: START_BLOCK, above the prune watermark
          Last,            \* bound: the highest block the node reaches
          Workers,         \* the catch-up workers
          QueueSize,       \* CatchupQueueSize, the capacity of workQueue
          RangesPerPoll,   \* CatchupBatchSize, the rows one poll reads
          ScanBatch,       \* the collector's BatchSize
          CatchupAttempts, \* catchupAttempts
          MaxBehind,       \* RealtimeMaxBehind; 0 disables the jump
          MaxFaults,       \* bound: calls to the node or the database that fail
          MaxCrashes,      \* bound: stops of the process
          MaxReverts       \* bound: reorgs realtime reverts

ASSUME CatchupAssumption ==
    /\ First \in Nat \ {0} /\ Last \in Nat /\ First <= Last
    /\ QueueSize \in Nat \ {0} /\ RangesPerPoll \in Nat \ {0}
    /\ ScanBatch \in Nat \ {0} /\ CatchupAttempts \in Nat \ {0}
    /\ MaxBehind \in Nat /\ MaxFaults \in Nat /\ MaxCrashes \in Nat /\ MaxReverts \in Nat
    /\ IsFiniteSet(Workers)

VARIABLES
    stored,     \* the numbers in the blocks table
    ranges,     \* the rows of missing_block_ranges
    progress,   \* indexer_progress: the persisted bounds of the collector's scans
    head,       \* the node's head
    mode,       \* "down", "scan" while initialScan runs, "up" after it
    scanNext,   \* initialScan: the first block of its next batch
    lastBlock,  \* latestOnChain as read at the start
    unscanned,  \* the batches initialScan failed to scan
    minFetched, \* lowest block scanned backward
    maxFetched, \* highest block scanned forward
    bwd,        \* the backward scanner
    fwd,        \* the forward scanner
    polled,     \* the producer's ranges, less the blocks already pushed
    queue,      \* workQueue
    worker,     \* the catch-up workers
    cursor,     \* realtime's lastProcessedBlock
    faults, crashes, reverts

dbVars    == <<stored, ranges, progress>>
scanVars  == <<scanNext, lastBlock, unscanned, minFetched, maxFetched, bwd, fwd>>
fillVars  == <<polled, queue, worker>>
boundVars == <<crashes, reverts>>
vars == <<stored, ranges, progress, head, mode, scanNext, lastBlock, unscanned, minFetched,
          maxFetched, bwd, fwd, polled, queue, worker, cursor, faults, crashes, reverts>>

Block == First..Last
BlockRange == {r \in [from : Block, to : Block] : r.from <= r.to}
In(b, r) == r.from <= b /\ b <= r.to

Lesser(a, b)  == IF a <= b THEN a ELSE b
Greater(a, b) == IF a >= b THEN a ELSE b

\* A call that fails costs one of the bounded faults.
Fault   == faults < MaxFaults /\ faults' = faults + 1
NoFault == faults' = faults

(***************************************************************************)
(* The database's side.  A write whose call fails may still have           *)
(* committed: the error can be the lost acknowledgement.                   *)
(***************************************************************************)

\* The missing blocks of lo..hi as maximal ranges.
FindMissingBlocksInRange(lo, hi) ==
    {r \in BlockRange :
        /\ lo <= r.from /\ r.to <= hi
        /\ \A b \in Block : In(b, r) => b \notin stored
        /\ r.from = lo \/ r.from - 1 \in stored
        /\ r.to = hi \/ r.to + 1 \in stored}

SaveMissingRanges(rs) == ranges' = ranges \cup rs

\* Deletes every row that holds the block, whichever range the block was polled from.
DeleteMissingRangeByBlock(b) == ranges' = {r \in ranges : ~In(b, r)}

\* Mutant: a failed block is given up, as before its requeue existed.
RequeueNothing(b) == UNCHANGED ranges

RequeueMissingBlock(b) == ranges' = ranges \cup {[from |-> b, to |-> b]}

UpdateIndexerProgress(lo, hi) ==
    \/ progress' = [min |-> lo, max |-> hi] /\ NoFault
    \/ UNCHANGED progress /\ Fault

\* The newest rows first, at most RangesPerPoll of them.
GetMissingRangesBatch ==
    {B \in SUBSET ranges :
        IF Cardinality(ranges) <= RangesPerPoll
        THEN B = ranges
        ELSE /\ Cardinality(B) = RangesPerPoll
             /\ \A r \in B, s \in ranges \ B : s.from <= r.from}
-----------------------------------------------------------------------------
Idle   == [pc |-> "idle", block |-> First, tries |-> 0]
Resting == [pc |-> "idle", r |-> [from |-> First, to |-> First], gaps |-> {}]

WorkerState  == [pc : {"idle", "check", "process", "requeue", "mark"},
                 block : Block, tries : 0..(CatchupAttempts + 1)]
ScannerState == [pc : {"idle", "scan", "save", "rescan"}, r : BlockRange, gaps : SUBSET BlockRange]

\* Every variable has its type; every recorded row is a range of blocks and the channel keeps to its capacity.
TypeOK ==
    /\ stored \in SUBSET Block
    /\ ranges \in SUBSET BlockRange
    /\ progress \in [min : Block, max : Block] \cup {[min |-> 0, max |-> 0]}
    /\ head \in Block
    /\ mode \in {"down", "scan", "up"}
    /\ scanNext \in Nat /\ scanNext >= First
    /\ lastBlock \in Block
    /\ unscanned \in Seq(BlockRange)
    /\ minFetched \in Block \cup {0} /\ maxFetched \in Block \cup {0}
    /\ bwd \in ScannerState /\ fwd \in ScannerState
    /\ polled \in SUBSET BlockRange
    /\ queue \in Seq(Block) /\ Len(queue) <= QueueSize
    /\ worker \in [Workers -> WorkerState]
    /\ cursor \in 0..Last
    /\ faults \in Nat /\ crashes \in Nat /\ reverts \in Nat

Init ==
    /\ stored = {} /\ ranges = {} /\ progress = [min |-> 0, max |-> 0]
    /\ head \in Block
    /\ mode = "down"
    /\ scanNext = First /\ lastBlock = First /\ unscanned = <<>>
    /\ minFetched = 0 /\ maxFetched = 0
    /\ bwd = Resting /\ fwd = Resting
    /\ polled = {} /\ queue = <<>> /\ worker = [w \in Workers |-> Idle]
    /\ cursor = 0
    /\ faults = 0 /\ crashes = 0 /\ reverts = 0
-----------------------------------------------------------------------------
(***************************************************************************)
(* The collector: Start and initialScan run before anything else does.     *)
(***************************************************************************)

\* The bounds Start takes up: the persisted ones, or the stored blocks', or the head alone.
StartBounds ==
    IF progress.max > 0 THEN progress
    ELSE IF stored # {}
         THEN [min |-> CHOOSE b \in stored : \A c \in stored : b <= c,
               max |-> CHOOSE b \in stored : \A c \in stored : c <= b]
         ELSE [min |-> head, max |-> head]

Start ==
    /\ mode = "down"
    /\ mode' = "scan" /\ scanNext' = First /\ lastBlock' = head /\ unscanned' = <<>>
    /\ minFetched' = StartBounds.min /\ maxFetched' = StartBounds.max
    /\ \/ progress.max > 0 /\ UNCHANGED progress /\ NoFault
       \/ progress.max = 0 /\ UpdateIndexerProgress(StartBounds.min, StartBounds.max)
    /\ UNCHANGED <<stored, ranges, head, bwd, fwd, fillVars, cursor, boundVars>>

\* Mutant: a failed batch is not kept for rescanFailed.
ForgetFailedBatch ==
    LET to == Lesser(scanNext + ScanBatch - 1, lastBlock)
    IN  /\ mode = "scan" /\ scanNext <= lastBlock
        /\ scanNext' = scanNext + ScanBatch
        /\ \/ SaveMissingRanges(FindMissingBlocksInRange(scanNext, to)) /\ NoFault
           \/ UNCHANGED ranges /\ Fault
        /\ UNCHANGED <<stored, progress, head, mode, lastBlock, unscanned, minFetched, maxFetched, bwd, fwd,
                       fillVars, cursor, boundVars>>

\* One batch of initialScan; a batch that fails is kept for rescanFailed.
InitialScanBatch ==
    LET batch == [from |-> scanNext, to |-> Lesser(scanNext + ScanBatch - 1, lastBlock)]
        gaps  == FindMissingBlocksInRange(batch.from, batch.to)
    IN  /\ mode = "scan" /\ scanNext <= lastBlock
        /\ scanNext' = scanNext + ScanBatch
        /\ \/ SaveMissingRanges(gaps) /\ UNCHANGED unscanned /\ NoFault
           \/ /\ SaveMissingRanges(gaps) \/ UNCHANGED ranges
              /\ unscanned' = Append(unscanned, batch) /\ Fault
        /\ UNCHANGED <<stored, progress, head, mode, lastBlock, minFetched, maxFetched, bwd, fwd,
                       fillVars, cursor, boundVars>>

\* The scan is over: the scanners, the producer, the workers and realtime start, realtime at latestOnChain.
StartWithMissingRangeCollector ==
    /\ mode = "scan" /\ scanNext > lastBlock
    /\ mode' = "up" /\ cursor' = lastBlock
    /\ UNCHANGED <<dbVars, head, scanVars, fillVars, faults, boundVars>>

\* The backward scanner reads the gaps below minFetched, saves them and moves minFetched down.
ScanBackwardFind ==
    LET to   == minFetched - 1
        from == Greater(IF to > ScanBatch THEN to - ScanBatch + 1 ELSE 0, First)
    IN  /\ mode = "up" /\ bwd.pc = "idle" /\ minFetched > First
        /\ bwd' = [pc |-> "save", r |-> [from |-> from, to |-> to],
                   gaps |-> FindMissingBlocksInRange(from, to)]
        /\ UNCHANGED <<dbVars, head, mode, scanNext, lastBlock, unscanned, minFetched, maxFetched, fwd,
                       fillVars, cursor, faults, boundVars>>

ScanBackwardSave ==
    /\ mode = "up" /\ bwd.pc = "save" /\ bwd' = Resting
    /\ \/ /\ SaveMissingRanges(bwd.gaps)
          /\ minFetched' = bwd.r.from
          /\ UpdateIndexerProgress(bwd.r.from, maxFetched)
       \/ /\ SaveMissingRanges(bwd.gaps) \/ UNCHANGED ranges
          /\ UNCHANGED <<minFetched, progress>> /\ Fault
    /\ UNCHANGED <<stored, head, mode, scanNext, lastBlock, unscanned, maxFetched, fwd,
                   fillVars, cursor, boundVars>>

\* rescanFailed: the oldest failed batch again; it stays listed until its gaps are saved.
RescanFailedFind ==
    LET r == Head(unscanned)
    IN  /\ mode = "up" /\ fwd.pc = "idle" /\ unscanned # <<>>
        /\ fwd' = [pc |-> "rescan", r |-> r, gaps |-> FindMissingBlocksInRange(r.from, r.to)]
        /\ UNCHANGED <<dbVars, head, mode, scanNext, lastBlock, unscanned, minFetched, maxFetched, bwd,
                       fillVars, cursor, faults, boundVars>>

RescanFailedSave ==
    /\ mode = "up" /\ fwd.pc = "rescan" /\ fwd' = Resting
    /\ \/ SaveMissingRanges(fwd.gaps) /\ unscanned' = Tail(unscanned) /\ NoFault
       \/ /\ SaveMissingRanges(fwd.gaps) \/ UNCHANGED ranges
          /\ UNCHANGED unscanned /\ Fault
    /\ UNCHANGED <<stored, progress, head, mode, scanNext, lastBlock, minFetched, maxFetched, bwd,
                   fillVars, cursor, boundVars>>

\* The forward scan up to the lower of the node's head and realtime's cursor.  fwd.r is what is left of this pass.
\* A pass may begin with batches still unscanned: rescanFailed stops at the first that fails again.
ScanForwardBegin ==
    LET to == Lesser(head, cursor)
    IN  /\ mode = "up" /\ fwd.pc = "idle" /\ to > maxFetched
        /\ fwd' = [pc |-> "scan", r |-> [from |-> maxFetched + 1, to |-> to], gaps |-> {}]
        /\ UNCHANGED <<dbVars, head, mode, scanNext, lastBlock, unscanned, minFetched, maxFetched, bwd,
                       fillVars, cursor, faults, boundVars>>

ForwardBatchEnd == Lesser(fwd.r.from + ScanBatch - 1, fwd.r.to)

ScanForwardFind ==
    /\ mode = "up" /\ fwd.pc = "scan"
    /\ fwd' = [fwd EXCEPT !.pc = "save",
                          !.gaps = FindMissingBlocksInRange(fwd.r.from, ForwardBatchEnd)]
    /\ UNCHANGED <<dbVars, head, mode, scanNext, lastBlock, unscanned, minFetched, maxFetched, bwd,
                   fillVars, cursor, faults, boundVars>>

ScanForwardSave ==
    /\ mode = "up" /\ fwd.pc = "save"
    /\ \/ /\ SaveMissingRanges(fwd.gaps)
          /\ maxFetched' = ForwardBatchEnd
          /\ UpdateIndexerProgress(minFetched, ForwardBatchEnd)
          /\ fwd' = IF ForwardBatchEnd < fwd.r.to
                    THEN [pc |-> "scan", gaps |-> {},
                          r |-> [from |-> ForwardBatchEnd + 1, to |-> fwd.r.to]]
                    ELSE Resting
       \/ /\ SaveMissingRanges(fwd.gaps) \/ UNCHANGED ranges
          /\ fwd' = Resting /\ UNCHANGED <<maxFetched, progress>> /\ Fault
    /\ UNCHANGED <<stored, head, mode, scanNext, lastBlock, unscanned, minFetched, bwd,
                   fillVars, cursor, boundVars>>
-----------------------------------------------------------------------------
(***************************************************************************)
(* Catch-up: one producer and Workers.                                     *)
(***************************************************************************)

\* The producer polls only when it has pushed everything of the last poll.
ProducerPoll ==
    /\ mode = "up" /\ polled = {} /\ ranges # {}
    /\ \E B \in GetMissingRangesBatch : polled' = B
    /\ UNCHANGED <<dbVars, head, mode, scanVars, queue, worker, cursor, faults, boundVars>>

\* The next block of the newest polled range, once the channel has room.
ProducerPush ==
    /\ mode = "up" /\ Len(queue) < QueueSize
    /\ \E r \in polled :
        /\ \A s \in polled : s.from <= r.from
        /\ queue' = Append(queue, r.from)
        /\ polled' = (polled \ {r}) \cup
                     (IF r.from < r.to THEN {[from |-> r.from + 1, to |-> r.to]} ELSE {})
    /\ UNCHANGED <<dbVars, head, mode, scanVars, worker, cursor, faults, boundVars>>

WorkerDequeue(w) ==
    /\ mode = "up" /\ worker[w].pc = "idle" /\ queue # <<>>
    /\ worker' = [worker EXCEPT ![w] = [pc |-> "check", block |-> Head(queue), tries |-> 1]]
    /\ queue' = Tail(queue)
    /\ UNCHANGED <<dbVars, head, mode, scanVars, polled, cursor, faults, boundVars>>

\* indexBlock after a failed attempt: another one, or, after catchupAttempts, only recording the block as missing.
Retry(w) ==
    worker' = [worker EXCEPT ![w] =
        [pc    |-> IF worker[w].tries < CatchupAttempts THEN "check" ELSE "requeue",
         block |-> worker[w].block,
         tries |-> Lesser(worker[w].tries, CatchupAttempts) + 1]]

\* tryBlock's HasBlock.
WorkerCheck(w) ==
    LET b == worker[w].block
    IN  /\ mode = "up" /\ worker[w].pc = "check"
        /\ \/ /\ worker' = [worker EXCEPT ![w].pc = IF b \in stored THEN "mark" ELSE "process"]
              /\ NoFault
           \/ Retry(w) /\ Fault
        /\ UNCHANGED <<dbVars, head, mode, scanVars, polled, queue, cursor, boundVars>>

\* processBlock: fetch and write the block.
WorkerProcess(w) ==
    LET b == worker[w].block
    IN  /\ mode = "up" /\ worker[w].pc = "process"
        /\ \/ /\ stored' = stored \cup {b} /\ NoFault
              /\ worker' = [worker EXCEPT ![w].pc = "mark"]
           \/ /\ stored' \in {stored, stored \cup {b}} /\ Fault
              /\ worker' = [worker EXCEPT ![w].pc = "requeue"]
        /\ UNCHANGED <<ranges, progress, head, mode, scanVars, polled, queue, cursor, boundVars>>

\* Recording the block as missing again, after a failed write or after the last attempt.
WorkerRequeue(w) ==
    LET b == worker[w].block
    IN  /\ mode = "up" /\ worker[w].pc = "requeue"
        /\ \/ RequeueMissingBlock(b) /\ worker' = [worker EXCEPT ![w] = Idle] /\ NoFault
           \/ /\ RequeueMissingBlock(b) \/ UNCHANGED ranges
              /\ Retry(w) /\ Fault
        /\ UNCHANGED <<stored, progress, head, mode, scanVars, polled, queue, cursor, boundVars>>

\* MarkBlockProcessed; its error is dropped.
WorkerMark(w) ==
    LET b == worker[w].block
    IN  /\ mode = "up" /\ worker[w].pc = "mark"
        /\ worker' = [worker EXCEPT ![w] = Idle]
        /\ \/ DeleteMissingRangeByBlock(b) /\ NoFault
           \/ UNCHANGED ranges /\ Fault
        /\ UNCHANGED <<stored, progress, head, mode, scanVars, polled, queue, cursor, boundVars>>
-----------------------------------------------------------------------------
(***************************************************************************)
(* Realtime, as far as the tables and the cursor go (safe = head - 1).     *)
(***************************************************************************)
RealtimeIndex ==
    /\ mode = "up" /\ cursor + 1 <= head - 1
    /\ cursor' = cursor + 1
    /\ stored' = stored \cup {cursor + 1}
    /\ UNCHANGED <<ranges, progress, head, mode, scanVars, fillVars, faults, boundVars>>

\* receiptSkip.skip: a block whose receipts never come is recorded as missing, then passed.
RealtimeSkip ==
    /\ mode = "up" /\ cursor + 1 <= head - 1
    /\ RequeueMissingBlock(cursor + 1) /\ Fault
    /\ cursor' = cursor + 1 \/ UNCHANGED cursor
    /\ UNCHANGED <<stored, progress, head, mode, scanVars, fillVars, boundVars>>

\* jumpIfFarBehind: the skipped blocks are registered, then the cursor goes to just below the safe head.
RealtimeJump ==
    LET safe == head - 1
    IN  /\ mode = "up" /\ MaxBehind > 0 /\ safe > cursor + MaxBehind
        /\ SaveMissingRanges({[from |-> cursor + 1, to |-> safe - 1]})
        /\ \/ cursor' = safe - 1 /\ NoFault
           \/ UNCHANGED cursor /\ Fault
        /\ UNCHANGED <<stored, progress, head, mode, scanVars, fillVars, boundVars>>

\* A reorg whose lowest replaced stored block is b: every stored block from b up is deleted, the cursor goes below b.
RealtimeRevert(b) ==
    /\ mode = "up" /\ reverts < MaxReverts /\ b \in stored /\ b <= cursor
    /\ stored' = {c \in stored : c < b}
    /\ cursor' = b - 1
    /\ reverts' = reverts + 1
    /\ UNCHANGED <<ranges, progress, head, mode, scanVars, fillVars, faults, crashes>>
-----------------------------------------------------------------------------
NodeAdvance ==
    /\ head < Last /\ head' = head + 1
    /\ UNCHANGED <<dbVars, mode, scanVars, fillVars, cursor, faults, boundVars>>

\* The process stops, at any point: its memory is gone, the tables stay.
Crash ==
    /\ mode # "down" /\ crashes < MaxCrashes /\ crashes' = crashes + 1
    /\ mode' = "down"
    /\ scanNext' = First /\ lastBlock' = First /\ unscanned' = <<>>
    /\ minFetched' = 0 /\ maxFetched' = 0
    /\ bwd' = Resting /\ fwd' = Resting
    /\ polled' = {} /\ queue' = <<>> /\ worker' = [w \in Workers |-> Idle]
    /\ cursor' = 0
    /\ UNCHANGED <<dbVars, head, faults, reverts>>

WorkerStep(w) ==
    WorkerDequeue(w) \/ WorkerCheck(w) \/ WorkerProcess(w) \/ WorkerRequeue(w) \/ WorkerMark(w)
ForwardScanner == RescanFailedFind \/ RescanFailedSave \/ ScanForwardBegin \/ ScanForwardFind \/ ScanForwardSave
BackwardScanner == ScanBackwardFind \/ ScanBackwardSave
Starting == Start \/ InitialScanBatch \/ StartWithMissingRangeCollector

Next ==
    \/ Start \/ InitialScanBatch \/ StartWithMissingRangeCollector
    \/ ScanBackwardFind \/ ScanBackwardSave
    \/ RescanFailedFind \/ RescanFailedSave
    \/ ScanForwardBegin \/ ScanForwardFind \/ ScanForwardSave
    \/ ProducerPoll \/ ProducerPush
    \/ \E w \in Workers : WorkerStep(w)
    \/ RealtimeIndex \/ RealtimeSkip \/ RealtimeJump
    \/ \E b \in Block : RealtimeRevert(b)
    \/ NodeAdvance \/ Crash

Spec == Init /\ [][Next]_vars
-----------------------------------------------------------------------------
(***************************************************************************)
(* What the parts owe each other.                                          *)
(***************************************************************************)

\* The blocks that catch-up holds in memory, between a poll and the end of indexBlock.
InFlight == {b \in Block : \/ \E r \in polled : In(b, r)
                           \/ \E i \in DOMAIN queue : queue[i] = b
                           \/ \E w \in Workers : worker[w].pc # "idle" /\ worker[w].block = b}

Recorded(b) == \E r \in ranges : In(b, r)
ToRescan(b) == \E i \in DOMAIN unscanned : In(b, unscanned[i])

(***************************************************************************)
(* "A block dropped here would stay missing until the next start" (the     *)
(* comment on indexBlock): every block up to realtime's cursor is stored,  *)
(* or something in this process still leads to it - a recorded range, a    *)
(* poll, the channel, a worker, a startup batch to scan again, or a region *)
(* the forward or the backward scan has not reached.                       *)
(***************************************************************************)
NoBlockLost ==
    mode = "up" => \A b \in Block : b <= cursor =>
        b \in stored \/ b \in InFlight \/ Recorded(b) \/ ToRescan(b)
        \/ b > maxFetched \/ b < minFetched

(***************************************************************************)
(* DeleteMissingRangeByBlock deletes every row with the block, also rows   *)
(* the worker's block was not polled from.  Calm excludes the three ways   *)
(* in which such a row can be the only trace of another block: a rescan    *)
(* that saves a range over a block in flight, a poll that takes a row and  *)
(* leaves an overlapping one behind, and realtime recording a block above  *)
(* its cursor that is in flight (after a reorg took the cursor back).      *)
(***************************************************************************)
RescanClear == \A r \in fwd.gaps, b \in InFlight : ~In(b, r)
PollWhole   == \A r \in polled', s \in ranges \ polled', b \in Block : ~(In(b, r) /\ In(b, s))
CursorClear == \A b \in InFlight : b <= cursor

Calm ==
    /\ RescanFailedSave => RescanClear
    /\ ProducerPoll => PollWhole
    /\ RealtimeSkip \/ RealtimeJump => CursorClear

CalmSpec == Init /\ [][Next /\ Calm]_vars

(***************************************************************************)
(* The inductive invariant behind NoBlockLost.  Recorded is not enough: a  *)
(* row may be deleted by a worker that holds another of its blocks.  A     *)
(* block not in flight needs a row with no block in flight at all.         *)
(***************************************************************************)
Covered(b) == b \in InFlight \/ \E r \in ranges : In(b, r) /\ \A c \in InFlight : ~In(c, r)

\* What is owed: what initialScan has passed, then what realtime's cursor has passed.
Owed(b) == (mode = "scan" /\ b < scanNext /\ b <= lastBlock) \/ (mode = "up" /\ b <= cursor)

Accounted(b) == b \in stored \/ Covered(b)

AllCovered == \A b \in Block : Owed(b) => Accounted(b) \/ ToRescan(b)

QuietUntilUp ==
    mode # "up" => /\ polled = {} /\ queue = <<>> /\ worker = [w \in Workers |-> Idle]
                   /\ bwd = Resting /\ fwd = Resting

BoundsSet == /\ mode # "down" => minFetched \in Block /\ maxFetched \in Block
             /\ mode = "up" => cursor + 1 >= First

\* A batch being rescanned is still listed ...
RescanListed == fwd.pc = "rescan" => unscanned # <<>> /\ fwd.r = Head(unscanned)

\* ... and what its scan did not see missing is stored or covered.
RescanCovers ==
    fwd.pc = "rescan" => \A b \in Block : In(b, fwd.r) /\ Owed(b) =>
        Accounted(b) \/ \E r \in fwd.gaps : In(b, r)

\* A worker about to delete rows has seen its block stored; only a reorg below the cursor takes it back.
MarkStored == \A w \in Workers :
    worker[w].pc = "mark" => worker[w].block \in stored \/ worker[w].block > cursor

TInv == TypeOK /\ QuietUntilUp /\ BoundsSet /\ RescanListed
IInv == TInv /\ AllCovered /\ RescanCovers /\ MarkStored

(***************************************************************************)
(* Each goroutine keeps running: the tickers of the scanners and of        *)
(* realtime, the producer's loop, the workers; a stopped process is        *)
(* started again.  Faults, reorgs and stops are bounded, never owed.       *)
(***************************************************************************)
Fairness ==
    /\ WF_vars(Starting)
    /\ WF_vars(BackwardScanner)
    /\ WF_vars(ForwardScanner /\ Calm)
    /\ WF_vars(ProducerPoll /\ Calm) /\ WF_vars(ProducerPush)
    /\ \A w \in Workers : WF_vars(WorkerStep(w))
    /\ WF_vars(RealtimeIndex)

LiveSpec == CalmSpec /\ Fairness

\* Once faults, stops and reorgs cease, every block up to realtime's cursor is stored for good, whatever was lost
\* from memory, requeued, jumped over or skipped on the way, and no row is left: one over a stored block would keep its
\* span from closing and its partition from being pruned (history_range_complete wants no row).
EventuallyFilled == <>[](mode = "up" /\ ranges = {} /\ \A b \in Block : b <= cursor => b \in stored)
=============================================================================
