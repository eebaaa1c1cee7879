---------------------------- MODULE HeadIngest ----------------------------
(***************************************************************************)
(* The head loop: the one loop that follows the node's head.  In standard  *)
(* mode it is startStandardMode's (standardTick, then retryMissing), in    *)
(* collector mode it is the realtime indexer's (jumpIfFarBehind, then      *)
(* indexUpTo), beside catch-up.  A tick compares the stored blocks under   *)
(* the cursor with the node, reverts what the node has replaced, then      *)
(* reads blocks ahead and writes them in order, each checked against the   *)
(* block before it.  The start compares the stored head first.             *)
(*                                                                         *)
(* The node is any of Chains at any height: it reorganises, goes back, and *)
(* fails over to a node that is behind.  A block is its hash; a hash       *)
(* determines its chain below it.  Blocks are numbered from 1, the start   *)
(* block.  Blocks requested on demand (IndexBlock, which nothing calls)    *)
(* and FORCE_REINDEX's wipe are left out; collector mode's catch-up is the *)
(* subject of module Catchup, here it only writes recorded blocks.         *)
(***************************************************************************)
EXTENDS Naturals, Sequences, FiniteSets

CONSTANTS MaxBlock,        \* bound: the highest block of the chains
          Chains,          \* the chains the node can be on, each [1..MaxBlock -> hash]
          Scenarios,       \* the modes and the budgets of what may go wrong
          Window,          \* maxReorgCheck and staleHeadWindow
          MaxReorgDepth,   \* maxReorgDepth
          Depth,           \* CommitPipelineDepth: block transactions open at once
          Prefetch,        \* blockPrefetchDepth: slots read ahead
          ReceiptAttempts, \* maxReceiptAttempts
          MaxBehind        \* RealtimeMaxBehind; 0 disables the jump

Block == 1..MaxBlock

\* No block stored, and the zero hash, against which nothing is checked.
None == 0

Hash == UNION {{c[n] : n \in Block} : c \in Chains}

\* What a scenario may spend: failing calls, calls that take effect and report an error, answers without receipts,
\* catch-up writes, switches of the node's chain or height, stops of the process.
Budget == {"errors", "lost", "receipts", "catchups", "switches", "crashes"}

ASSUME HeadAssumption ==
    /\ MaxBlock \in Nat \ {0} /\ Window \in Nat \ {0} /\ MaxReorgDepth \in Nat
    /\ Depth \in Nat \ {0} /\ Prefetch \in Nat \ {0} /\ ReceiptAttempts \in Nat \ {0} /\ MaxBehind \in Nat
    /\ Chains \subseteq [Block -> Nat \ {None}]
    /\ \A c, e \in Chains, n \in Block : n > 1 /\ c[n] = e[n] => c[n - 1] = e[n - 1]
    /\ Scenarios \subseteq [realtime : BOOLEAN, budget : [Budget -> Nat]]

VARIABLES
    fork, head, \* the node: its chain and its height
    stored,     \* the blocks table: a hash or None
    missing,    \* the blocks in missing_block_ranges
    pc,         \* where the loop is
    cursor,     \* lastIndexed, lastProcessedBlock
    latest,     \* the height the tick goes up to: the node's head, less the confirmation block in realtime
    walk,       \* the comparison of stored and node hashes under way
    revert,     \* the revert under way
    tick,       \* the read-ahead and the commit pipeline of the tick under way
    receipts,   \* receiptSkip
    failed,     \* realtime: failedRevertFrom and revertPending
    filling,    \* catch-up: the block it has read and not written yet
    realtime,   \* the mode
    left        \* what is left of the scenario's budget

nodeVars  == <<fork, head>>
dbVars    == <<stored, missing>>
loopVars  == <<pc, cursor, latest, walk, revert, tick, receipts, failed>>
otherVars == <<filling, realtime>>
vars == <<fork, head, stored, missing, pc, cursor, latest, walk, revert, tick, receipts, failed, filling, realtime, left>>

Spend(k) == left[k] > 0 /\ left' = [left EXCEPT ![k] = @ - 1]
Free == UNCHANGED left

Lower(a, b) == IF a <= b THEN a ELSE b

\* The parent hash of the block with hash h at n.
Parent(n, h) == LET c == CHOOSE c \in Chains : c[n] = h IN IF n = 1 THEN None ELSE c[n - 1]

StoredAt == {n \in Block : stored[n] # None}

\* HighestBlockAtOrBelow; GetLatestBlockNumber with MaxBlock.  0 when there is none.
HighestAtOrBelow(b) ==
    LET S == {n \in StoredAt : n <= b}
    IN  IF S = {} THEN 0 ELSE CHOOSE n \in S : \A m \in S : m <= n

GetLatestBlockNumber == HighestAtOrBelow(MaxBlock)

\* A block write: nothing happens when the block is already stored; a different one stored is StoredBlockDiffers.
Differs(n, h) == stored[n] \notin {None, h}
-----------------------------------------------------------------------------
Walking(kind, top) == [kind |-> kind, top |-> top, d |-> 0, deepest |-> 0, unserved |-> {}]
NoWalk   == Walking("none", 0)
NoRevert == [why |-> "none", next |-> 0, from |-> 0]
Unread   == [hash |-> None, err |-> "unread"]
Ticking(next, prev, remembered) ==
    [next |-> next, prev |-> prev, remembered |-> remembered, ending |-> FALSE, queue |-> <<>>,
     slot |-> [n \in Block |-> Unread]]
NoTick   == Ticking(0, None, FALSE)
NoSkip   == [block |-> 0, attempts |-> 0, skipped |-> 0, hash |-> None, recorded |-> TRUE]
NotFailed == [from |-> 0, pending |-> FALSE]
Idling   == [block |-> 0, hash |-> None]

\* What the loop's records hold.  The attempts are counted up to maxReceiptAttempts: past it, while recording the block
\* fails, the count says no more.
Walks   == [kind : {"none", "start", "tick", "jump"}, top : 0..MaxBlock, d : 0..MaxBlock, deepest : 0..MaxBlock,
            unserved : SUBSET Block]
Reverts == [why : {"none", "start", "above", "tick", "stale"}, next : 0..MaxBlock, from : 0..MaxBlock]
Slots   == [hash : Hash \cup {None}, err : {"unread", "none", "receipts", "fail"}]
Ticks   == [next : 0..(MaxBlock + 1), prev : Hash \cup {None}, remembered : BOOLEAN, ending : BOOLEAN,
            queue : Seq(Block \X Hash), slot : [Block -> Slots]]
Skips   == [block : 0..MaxBlock, attempts : 0..ReceiptAttempts, skipped : 0..MaxBlock, hash : Hash \cup {None},
            recorded : BOOLEAN]

\* Every variable has its type; never more than Depth block transactions are open (indexPipelined's queue).
TypeOK ==
    /\ fork \in Chains /\ head \in Block
    /\ stored \in [Block -> Hash \cup {None}]
    /\ missing \subseteq Block
    /\ pc \in {"down", "wait", "idle", "walk", "revert", "jump", "upto", "anchor", "index", "retry"}
    /\ cursor \in 0..MaxBlock /\ latest \in 0..MaxBlock
    /\ walk \in Walks /\ revert \in Reverts
    /\ tick \in Ticks /\ Len(tick.queue) <= Depth
    /\ receipts \in Skips
    /\ failed \in [from : 0..MaxBlock, pending : BOOLEAN]
    /\ filling \in [block : 0..MaxBlock, hash : Hash \cup {None}]
    /\ realtime \in BOOLEAN
    /\ left \in [Budget -> Nat]

Init ==
    /\ fork \in Chains /\ head = 1
    /\ stored = [n \in Block |-> None] /\ missing = {}
    /\ pc = "down" /\ cursor = 0 /\ latest = 0
    /\ walk = NoWalk /\ revert = NoRevert /\ tick = NoTick /\ receipts = NoSkip /\ failed = NotFailed
    /\ filling = Idling
    /\ \E s \in Scenarios : realtime = s.realtime /\ left = s.budget
-----------------------------------------------------------------------------
(***************************************************************************)
(* The node.                                                               *)
(***************************************************************************)
NodeAdvance ==
    /\ head < MaxBlock /\ head' = head + 1
    /\ UNCHANGED <<fork, dbVars, loopVars, otherVars, left>>

\* A reorg, or another node answering.  The chain grows again after it, as a live one does: the last two blocks are
\* only reached on the last chain, so that a tick follows every switch.
NodeSwitch(c, h) ==
    /\ head + 1 < MaxBlock /\ h + 1 < MaxBlock /\ (c # fork \/ h < head) /\ Spend("switches")
    /\ fork' = c /\ head' = h
    /\ UNCHANGED <<dbVars, loopVars, otherVars>>
-----------------------------------------------------------------------------
(***************************************************************************)
(* The start: the stored head is compared, and reverted, before any loop.  *)
(***************************************************************************)

\* The process stops, or Start returns an error: what is in memory is gone.
Stopped ==
    /\ pc' = "down" /\ cursor' = 0 /\ latest' = 0 /\ filling' = Idling
    /\ walk' = NoWalk /\ revert' = NoRevert /\ tick' = NoTick /\ receipts' = NoSkip /\ failed' = NotFailed

\* The mode's loop starts.  Standard mode goes on at the stored head; realtime starts at the node's, and the collector
\* records what is not stored below it.
RunLoop(lastIndexed, latestOnChain) ==
    /\ pc' = "idle" /\ latest' = 0 /\ walk' = NoWalk /\ revert' = NoRevert
    /\ cursor' = IF realtime THEN latestOnChain ELSE lastIndexed
    /\ missing' = IF realtime THEN missing \cup {n \in 1..latestOnChain : stored[n] = None} ELSE missing

StartWalk(lastIndexed, latestOnChain) ==
    /\ pc' = "walk" /\ cursor' = lastIndexed /\ latest' = latestOnChain /\ revert' = NoRevert
    /\ walk' = Walking("start", Lower(lastIndexed, latestOnChain))

\* A head far below the stored one is a chain reset: Start refuses.  A stored head that cannot be read counts as none.
Start ==
    /\ pc = "down"
    /\ \/ /\ GetLatestBlockNumber = 0 /\ RunLoop(0, head) /\ Free
       \/ /\ GetLatestBlockNumber > 0 /\ head + MaxReorgDepth >= GetLatestBlockNumber
          /\ StartWalk(GetLatestBlockNumber, head) /\ UNCHANGED missing /\ Free
       \/ RunLoop(0, head) /\ Spend("errors")
    /\ UNCHANGED <<nodeVars, stored, tick, receipts, failed, otherVars>>

\* checkStoredHead after a walk: every stored block was compared, or the start waits for the node.
StoredHeadChecked(lastIndexed, unserved) ==
    IF unserved = {} /\ lastIndexed <= latest
    THEN RunLoop(lastIndexed, latest)
    ELSE /\ pc' = "wait" /\ cursor' = lastIndexed /\ walk' = NoWalk /\ revert' = NoRevert
         /\ UNCHANGED <<missing, latest>>

StartWait ==
    /\ pc = "wait"
    /\ \/ /\ head + MaxReorgDepth >= cursor /\ StartWalk(cursor, head) /\ UNCHANGED <<tick, receipts, failed, filling>>
       \/ head + MaxReorgDepth < cursor /\ Stopped
    /\ UNCHANGED <<nodeVars, dbVars, realtime, left>>

\* The node's head stayed below the stored one for staleAboveHeadWait.
StartRevertAbove ==
    /\ pc = "wait" /\ cursor > latest
    /\ pc' = "revert" /\ revert' = [why |-> "above", next |-> GetLatestBlockNumber, from |-> latest + 1]
    /\ UNCHANGED <<nodeVars, dbVars, cursor, latest, walk, tick, receipts, failed, otherVars, left>>
-----------------------------------------------------------------------------
(***************************************************************************)
(* A tick begins.                                                          *)
(***************************************************************************)
EndTick ==
    /\ pc' = IF realtime THEN "idle" ELSE "retry"
    /\ latest' = 0 /\ walk' = NoWalk /\ revert' = NoRevert /\ tick' = NoTick

BeginWalk(kind, c) ==
    IF c > 0
    THEN pc' = "walk" /\ walk' = Walking(kind, c)
    ELSE pc' = (IF kind = "jump" THEN "jump" ELSE "anchor") /\ walk' = NoWalk

StandardTick ==
    /\ pc = "idle" /\ ~realtime
    /\ latest' = head /\ BeginWalk("tick", cursor)
    /\ UNCHANGED <<nodeVars, dbVars, cursor, revert, tick, receipts, failed, otherVars, left>>

\* The poll's, or the new header's, height less the confirmation block; jumpIfFarBehind's early returns.
RealtimeTick ==
    /\ pc = "idle" /\ realtime
    /\ latest' = head - 1
    /\ IF MaxBehind = 0 \/ head - 1 <= cursor + MaxBehind \/ failed.pending
       THEN pc' = "upto" /\ UNCHANGED walk
       ELSE BeginWalk("jump", cursor)
    /\ UNCHANGED <<nodeVars, dbVars, cursor, revert, tick, receipts, failed, otherVars, left>>

\* jumpIfFarBehind, no fork found: the blocks it skips are recorded, then the cursor moves.
JumpIfFarBehind ==
    /\ pc = "jump" /\ pc' = "upto"
    /\ \/ missing' = missing \cup ((cursor + 1)..(latest - 1)) /\ cursor' = latest - 1 /\ Free
       \/ missing' = missing \cup ((cursor + 1)..(latest - 1)) /\ UNCHANGED cursor /\ Spend("lost")
       \/ UNCHANGED <<missing, cursor>> /\ Spend("errors")
    /\ UNCHANGED <<nodeVars, stored, latest, walk, revert, tick, receipts, failed, otherVars>>

\* Mutant: the cursor stays where the failed revert left it.
ResumeNowhere == cursor

\* Where a failed revert left the stored chain.
ResumeAfterFailedRevert ==
    LET below == HighestAtOrBelow(cursor)
    IN  IF failed.from = 0 THEN cursor
        ELSE Lower(cursor, IF below > failed.from - 1 THEN below ELSE failed.from - 1)

\* indexUpTo's resume and its early return.
IndexUpTo ==
    /\ pc = "upto"
    /\ \/ /\ cursor' = ResumeAfterFailedRevert /\ failed' = [failed EXCEPT !.from = 0]
          /\ IF latest <= cursor' THEN EndTick
             ELSE BeginWalk("tick", cursor') /\ UNCHANGED <<latest, revert, tick>>
          /\ Free
       \/ failed.from # 0 /\ EndTick /\ UNCHANGED <<cursor, failed>> /\ Spend("errors")
    /\ UNCHANGED <<nodeVars, dbVars, receipts, otherVars>>
-----------------------------------------------------------------------------
(***************************************************************************)
(* detectReorg, and revertStaleHead's walk: one stored block and one node  *)
(* hash at a time, from the top down, while the node may change.           *)
(***************************************************************************)
WalkOver ==
    \/ walk.d >= walk.top
    \/ walk.kind # "start" /\ walk.d >= Window
    \/ walk.kind = "start" /\ walk.d > MaxReorgDepth

WalkOn == walk' = [walk EXCEPT !.d = @ + 1] /\ UNCHANGED <<pc, cursor, latest, revert, tick, receipts, failed, filling>>

\* The comparison fails: the tick ends, the jump is not made, the start is refused.
WalkFails ==
    \/ walk.kind = "tick" /\ EndTick /\ UNCHANGED <<cursor, receipts, failed, filling>>
    \/ /\ walk.kind = "jump" /\ pc' = "upto" /\ walk' = NoWalk
       /\ UNCHANGED <<cursor, latest, revert, tick, receipts, failed, filling>>
    \/ walk.kind = "start" /\ Stopped

\* The start stops at the first match below its window, and after Window blocks the node does not serve.
WalkMatch ==
    IF walk.kind = "start" /\ walk.d + 1 >= Window
    THEN /\ walk' = [walk EXCEPT !.d = walk.top]
         /\ UNCHANGED <<pc, cursor, latest, revert, tick, receipts, failed, filling>>
    ELSE WalkOn

WalkMismatch ==
    IF walk.kind = "start" /\ walk.d + 1 > MaxReorgDepth
    THEN Stopped
    ELSE /\ walk' = [walk EXCEPT !.d = @ + 1, !.deepest = walk.d + 1]
         /\ UNCHANGED <<pc, cursor, latest, revert, tick, receipts, failed, filling>>

WalkUnserved(n) ==
    LET skipped == walk.unserved \cup {n}
    IN  IF walk.kind = "start"
        THEN /\ walk' = [walk EXCEPT !.d = IF Cardinality(skipped) >= Window THEN walk.top ELSE @ + 1,
                                     !.unserved = skipped]
             /\ UNCHANGED <<pc, cursor, latest, revert, tick, receipts, failed, filling>>
        ELSE WalkFails

WalkStep ==
    LET n == walk.top - walk.d
    IN  /\ pc = "walk" /\ ~WalkOver
        /\ \/ stored[n] = None /\ WalkOn /\ Free
           \/ stored[n] # None /\ n <= head /\ stored[n] = fork[n] /\ WalkMatch /\ Free
           \/ stored[n] # None /\ n <= head /\ stored[n] # fork[n] /\ WalkMismatch /\ Free
           \/ stored[n] # None /\ n > head /\ WalkUnserved(n) /\ Free
           \/ WalkFails /\ Spend("errors")
        /\ UNCHANGED <<nodeVars, dbVars, realtime>>

\* A tick's revert that fails: realtime remembers it, standard mode stays where it is.
TickRevertFails(from) ==
    IF realtime
    THEN failed' = [from |-> from, pending |-> TRUE] /\ EndTick
    ELSE UNCHANGED failed /\ EndTick

\* handleReorg: realtime refuses to revert more than MaxReorgDepth blocks.  (A failing read of the highest stored block
\* ends as a failing first delete does.)
WalkEnd ==
    LET from == walk.top + 1 - walk.deepest
        last == GetLatestBlockNumber
        BeginRevert(why) == /\ pc' = "revert" /\ revert' = [why |-> why, next |-> last, from |-> from]
                            /\ UNCHANGED <<latest, walk, tick, failed>>
    IN  /\ pc = "walk" /\ WalkOver
        /\ \/ /\ walk.kind = "tick" /\ walk.deepest = 0
              /\ pc' = "anchor" /\ walk' = NoWalk /\ failed' = [failed EXCEPT !.pending = FALSE]
              /\ UNCHANGED <<cursor, missing, latest, revert, tick>> /\ Free
           \/ /\ walk.kind = "tick" /\ walk.deepest > 0 /\ UNCHANGED <<cursor, missing>>
              /\ \/ ~(realtime /\ last > from + MaxReorgDepth) /\ BeginRevert("tick") /\ Free
                 \/ realtime /\ last > from + MaxReorgDepth /\ TickRevertFails(from) /\ Free
           \/ /\ walk.kind = "jump"
              /\ pc' = (IF walk.deepest = 0 THEN "jump" ELSE "upto") /\ walk' = NoWalk
              /\ UNCHANGED <<cursor, missing, latest, revert, tick, failed>> /\ Free
           \/ /\ walk.kind = "start" /\ walk.deepest = 0
              /\ StoredHeadChecked(cursor, walk.unserved) /\ UNCHANGED <<tick, failed>> /\ Free
           \/ /\ walk.kind = "start" /\ walk.deepest > 0
              /\ BeginRevert("start") /\ UNCHANGED <<cursor, missing>> /\ Free
        /\ UNCHANGED <<nodeVars, stored, receipts, otherVars>>
-----------------------------------------------------------------------------
(***************************************************************************)
(* handleReorg: the stored blocks go one transaction each, from the        *)
(* highest down.                                                           *)
(***************************************************************************)
RevertFails ==
    \/ /\ revert.why = "tick" /\ TickRevertFails(revert.from) /\ UNCHANGED <<cursor, receipts, filling>>
    \/ /\ revert.why = "stale" /\ EndTick /\ UNCHANGED <<cursor, receipts, failed, filling>>
    \/ /\ revert.why \in {"start", "above"} /\ Stopped

RevertBlock ==
    /\ pc = "revert" /\ revert.next >= revert.from
    /\ \/ /\ stored' = [stored EXCEPT ![revert.next] = None] /\ revert' = [revert EXCEPT !.next = @ - 1] /\ Free
          /\ UNCHANGED <<pc, cursor, latest, walk, tick, receipts, failed, filling>>
       \/ stored' = [stored EXCEPT ![revert.next] = None] /\ RevertFails /\ Spend("lost")
       \/ UNCHANGED stored /\ RevertFails /\ Spend("errors")
    /\ UNCHANGED <<nodeVars, missing, realtime>>

RevertDone ==
    /\ pc = "revert" /\ revert.next < revert.from
    /\ \/ /\ revert.why = "tick" /\ cursor' = revert.from - 1 /\ failed' = [failed EXCEPT !.pending = FALSE]
          /\ IF realtime THEN EndTick
             ELSE pc' = "anchor" /\ walk' = NoWalk /\ revert' = NoRevert /\ UNCHANGED <<latest, tick>>
          /\ UNCHANGED missing
       \/ revert.why = "stale" /\ EndTick /\ UNCHANGED <<cursor, missing, failed>>
       \/ /\ revert.why = "start" /\ UNCHANGED <<tick, failed>>
          /\ LET kept == {n \in walk.unserved : n < revert.from}
             IN  StoredHeadChecked(revert.from - 1, kept)
       \/ /\ revert.why = "above" /\ StartWalk(latest, latest) /\ UNCHANGED <<missing, tick, failed>>
    /\ UNCHANGED <<nodeVars, stored, receipts, otherVars, left>>
-----------------------------------------------------------------------------
(***************************************************************************)
(* The blocks above the cursor: read ahead into slots, consumed in block   *)
(* order, written up to Depth at a time and committed in block order.      *)
(***************************************************************************)
Forget(r) == [r EXCEPT !.skipped = 0, !.hash = None]

\* anchor, with indexingFloor: where the tick starts and the hash its first block must extend.
AnchorAt(r) ==
    LET below == HighestAtOrBelow(cursor)
        At(n, h, rem) == [from |-> n, hash |-> h, remembered |-> rem]
    IN  CASE cursor > 0 /\ stored[cursor] # None -> At(cursor, stored[cursor], FALSE)
          [] cursor > 0 /\ stored[cursor] = None /\ r.skipped = cursor /\ r.hash # None -> At(cursor, r.hash, TRUE)
          [] OTHER -> IF realtime THEN At(cursor, None, FALSE)
                      ELSE IF below = 0 THEN At(0, None, FALSE)
                      ELSE At(below, stored[below], FALSE)

Anchor ==
    LET r == IF receipts.skipped > cursor THEN Forget(receipts) ELSE receipts
        a == AnchorAt(r)
    IN  /\ pc = "anchor" /\ receipts' = r
        /\ \/ /\ cursor' = a.from /\ Free
              /\ IF latest <= a.from THEN EndTick
                 ELSE /\ pc' = "index" /\ UNCHANGED <<latest, walk, revert>>
                      /\ tick' = Ticking(a.from + 1, a.hash, a.remembered)
           \/ cursor > 0 /\ UNCHANGED cursor /\ EndTick /\ Spend("errors")
        /\ UNCHANGED <<nodeVars, dbVars, failed, otherVars>>

\* fetchBlockAndReceipts in its own goroutine: the node's block as it is now, without its receipts, or an error.
Fetch(n) ==
    /\ pc = "index" /\ ~tick.ending
    /\ n >= tick.next /\ n < tick.next + Prefetch /\ n <= latest /\ tick.slot[n] = Unread
    /\ \E b \in [hash : {None, fork[n]}, err : {"none", "receipts", "fail"}] :
        /\ b.err = "fail" <=> b.hash = None
        /\ n > head => b.err = "fail"
        /\ IF n > head \/ b.err = "none" THEN Free
           ELSE Spend(IF b.err = "fail" THEN "errors" ELSE "receipts")
        /\ tick' = [tick EXCEPT !.slot[n] = b]
    /\ UNCHANGED <<nodeVars, dbVars, pc, cursor, latest, walk, revert, receipts, failed, otherVars>>

NextSlot == tick.slot[tick.next]
Consuming == pc = "index" /\ ~tick.ending /\ tick.next <= latest /\ NextSlot # Unread
Extends == NextSlot.hash # None /\ tick.prev # None => Parent(tick.next, NextSlot.hash) = tick.prev

\* Mutant: a remembered hash is never asked for again.
ConsumeMismatchTrusting ==
    /\ Consuming /\ ~Extends /\ Len(tick.queue) < Depth
    /\ tick' = [tick EXCEPT !.ending = TRUE]
    /\ UNCHANGED <<nodeVars, dbVars, pc, cursor, latest, walk, revert, receipts, failed, otherVars, left>>

\* A block that does not extend the one before it ends the tick; recheckSkipped asks the node about a remembered hash.
ConsumeMismatch ==
    /\ Consuming /\ ~Extends /\ Len(tick.queue) < Depth
    /\ tick' = [tick EXCEPT !.ending = TRUE]
    /\ \/ /\ receipts' = IF tick.remembered /\ ~(receipts.skipped <= head /\ fork[receipts.skipped] = receipts.hash)
                         THEN Forget(receipts) ELSE receipts
          /\ Free
       \/ tick.remembered /\ receipts' = Forget(receipts) /\ Spend("errors")
    /\ UNCHANGED <<nodeVars, dbVars, pc, cursor, latest, walk, revert, failed, otherVars>>

ConsumeFailed ==
    /\ Consuming /\ NextSlot.err = "fail" /\ Len(tick.queue) < Depth
    /\ tick' = [tick EXCEPT !.ending = TRUE]
    /\ UNCHANGED <<nodeVars, dbVars, pc, cursor, latest, walk, revert, receipts, failed, otherVars, left>>

\* receiptSkip.skip, once the blocks before it are committed: the block is recorded as missing before it is passed.
ConsumeWithoutReceipts ==
    LET n == tick.next
        tries == IF receipts.block = n THEN receipts.attempts + 1 ELSE 1
        counted == [receipts EXCEPT !.block = n, !.attempts = Lower(tries, ReceiptAttempts)]
    IN  /\ Consuming /\ Extends /\ NextSlot.err = "receipts" /\ tick.queue = <<>>
        /\ \/ /\ tries < ReceiptAttempts
              /\ receipts' = counted /\ EndTick /\ UNCHANGED <<missing, cursor>> /\ Free
           \/ /\ tries >= ReceiptAttempts
              /\ missing' = missing \cup {n} /\ cursor' = n
              /\ receipts' = [block |-> n, attempts |-> 0, skipped |-> n, hash |-> NextSlot.hash, recorded |-> TRUE]
              /\ tick' = [tick EXCEPT !.next = n + 1, !.prev = NextSlot.hash, !.remembered = FALSE, !.slot[n] = Unread]
              /\ UNCHANGED <<pc, latest, walk, revert>> /\ Free
           \/ /\ tries >= ReceiptAttempts
              /\ receipts' = counted /\ EndTick /\ UNCHANGED cursor
              /\ \/ missing' = missing \cup {n} /\ Spend("lost")
                 \/ UNCHANGED missing /\ Spend("errors")
        /\ UNCHANGED <<nodeVars, stored, failed, otherVars>>

\* Mutant: transactions are opened without counting the open ones.
ConsumeBlockUnbounded ==
    LET n == tick.next
    IN  /\ Consuming /\ Extends /\ NextSlot.err = "none"
        /\ tick' = [tick EXCEPT !.next = n + 1, !.prev = NextSlot.hash, !.remembered = FALSE, !.slot[n] = Unread,
                                !.queue = Append(@, <<n, NextSlot.hash>>)]
        /\ UNCHANGED <<nodeVars, dbVars, pc, cursor, latest, walk, revert, receipts, failed, otherVars, left>>

\* The block's transaction begins; the next block is checked against it before it is committed.
ConsumeBlock ==
    LET n == tick.next
    IN  /\ Consuming /\ Extends /\ NextSlot.err = "none" /\ Len(tick.queue) < Depth
        /\ tick' = [tick EXCEPT !.next = n + 1, !.prev = NextSlot.hash, !.remembered = FALSE, !.slot[n] = Unread,
                                !.queue = Append(@, <<n, NextSlot.hash>>)]
        /\ UNCHANGED <<nodeVars, dbVars, pc, cursor, latest, walk, revert, receipts, failed, otherVars, left>>

\* The oldest open block: committed, or its failure rolls back every later one and ends the tick.  A different block
\* stored at its number is reverted first (revertStaleBlock).
FinishOldest ==
    LET n == Head(tick.queue)[1]
        h == Head(tick.queue)[2]
    IN  /\ pc = "index" /\ tick.queue # <<>>
        /\ \/ /\ ~Differs(n, h)
              /\ stored' = [stored EXCEPT ![n] = h] /\ cursor' = n
              /\ tick' = [tick EXCEPT !.queue = Tail(@)]
              /\ UNCHANGED <<pc, latest, walk, revert>> /\ Free
           \/ /\ ~Differs(n, h) /\ EndTick /\ UNCHANGED cursor
              /\ \/ stored' = [stored EXCEPT ![n] = h] /\ Spend("lost")
                 \/ UNCHANGED stored /\ Spend("errors")
           \/ /\ Differs(n, h) /\ UNCHANGED <<stored, cursor>>
              /\ pc' = "revert" /\ revert' = [why |-> "stale", next |-> GetLatestBlockNumber, from |-> n]
              /\ tick' = NoTick /\ UNCHANGED <<latest, walk>> /\ Free
        /\ UNCHANGED <<nodeVars, missing, receipts, failed, otherVars>>

IndexEnd ==
    /\ pc = "index" /\ tick.queue = <<>> /\ (tick.ending \/ tick.next > latest)
    /\ EndTick
    /\ UNCHANGED <<nodeVars, dbVars, cursor, receipts, failed, otherVars, left>>
-----------------------------------------------------------------------------
(***************************************************************************)
(* Standard mode's retryMissing, after every tick: pauses and the pass's   *)
(* budget decide which recorded blocks a pass reaches.                     *)
(***************************************************************************)

\* Mutant: only the block below is looked at.
FitsBelow(n, h) == n > 1 => stored[n - 1] \in {None, Parent(n, h)}

\* retryMissingBlock writes the block only between stored neighbours it links to.
Fits(n, h) ==
    /\ n > 1 => stored[n - 1] \in {None, Parent(n, h)}
    /\ n < MaxBlock /\ stored[n + 1] # None => Parent(n + 1, stored[n + 1]) = h

RetryMissing(n) ==
    /\ pc = "retry" /\ receipts.recorded /\ n \in missing /\ n <= cursor
    /\ \/ stored[n] # None /\ UNCHANGED stored
       \/ stored[n] = None /\ n <= head /\ Fits(n, fork[n]) /\ stored' = [stored EXCEPT ![n] = fork[n]]
    /\ \/ missing' = missing \ {n} /\ Free
       \/ UNCHANGED missing /\ Spend("errors")
    /\ UNCHANGED <<nodeVars, loopVars, otherVars>>

\* A pass that finds nothing recorded is the last, until the loop records a block.
RetryEnd ==
    /\ pc = "retry" /\ pc' = "idle"
    /\ \/ UNCHANGED receipts
       \/ missing = {} /\ receipts' = [receipts EXCEPT !.recorded = FALSE]
    /\ UNCHANGED <<nodeVars, dbVars, cursor, latest, walk, revert, tick, failed, otherVars, left>>
-----------------------------------------------------------------------------
(***************************************************************************)
(* Catch-up beside realtime: a recorded block is read, and written later.  *)
(***************************************************************************)
LoopRuns == pc \notin {"down", "wait"} /\ walk.kind # "start" /\ revert.why \notin {"start", "above"}

CatchupRead(n) ==
    /\ realtime /\ LoopRuns /\ filling = Idling /\ n \in missing /\ n <= head /\ stored[n] = None
    /\ filling' = [block |-> n, hash |-> fork[n]] /\ Spend("catchups")
    /\ UNCHANGED <<nodeVars, dbVars, loopVars, realtime>>

\* The write, then the row's delete; a different block stored leaves the row.
CatchupWrite ==
    LET n == filling.block
    IN  /\ filling # Idling /\ filling' = Idling
        /\ IF Differs(n, filling.hash) THEN UNCHANGED dbVars
           ELSE stored' = [stored EXCEPT ![n] = filling.hash] /\ missing' = missing \ {n}
        /\ UNCHANGED <<nodeVars, loopVars, realtime, left>>

Crash ==
    /\ pc # "down" /\ Spend("crashes") /\ Stopped
    /\ UNCHANGED <<nodeVars, dbVars, realtime>>
-----------------------------------------------------------------------------
Loop ==
    \/ Start \/ StartWait \/ StartRevertAbove
    \/ StandardTick \/ RealtimeTick \/ JumpIfFarBehind \/ IndexUpTo
    \/ WalkStep \/ WalkEnd \/ RevertBlock \/ RevertDone
    \/ Anchor \/ ConsumeMismatch \/ ConsumeFailed \/ ConsumeWithoutReceipts \/ ConsumeBlock
    \/ FinishOldest \/ IndexEnd \/ RetryEnd

Next ==
    \/ Loop
    \/ \E n \in Block : Fetch(n) \/ RetryMissing(n) \/ CatchupRead(n)
    \/ CatchupWrite \/ Crash
    \/ NodeAdvance
    \/ \E c \in Chains, h \in Block : NodeSwitch(c, h)

Spec == Init /\ [][Next]_vars
-----------------------------------------------------------------------------
(***************************************************************************)
(* What the loop promises.                                                 *)
(***************************************************************************)

(***************************************************************************)
(* "The committed blocks stay a prefix of the chain" (indexPipelined): in  *)
(* standard mode, where this loop is the only writer, a stored block       *)
(* always extends the stored block below it, whatever the node does        *)
(* between the comparison, the reads ahead, the commits and the retries.   *)
(***************************************************************************)
Linked ==
    ~realtime => \A n \in Block : n > 1 /\ stored[n] # None /\ stored[n - 1] # None
                                   => Parent(n, stored[n]) = stored[n - 1]

\* What the loop has yet to put right below its cursor: a revert under way; in realtime a revert that failed, in
\* standard mode the blocks above the highest stored one (anchor).
Unsettled(n) ==
    \/ pc = "revert" /\ revert.why = "tick" /\ n >= revert.from
    \/ failed.from # 0 /\ n >= failed.from
    \/ ~realtime /\ \A m \in n..cursor : stored[m] = None

(***************************************************************************)
(* "The deleted blocks are fetched again" (anchor), "a block the revert    *)
(* deleted is indexed again" (resumeAfterFailedRevert): below the cursor a *)
(* block is stored, recorded as missing, or still to be put right.         *)
(***************************************************************************)
NoHole == LoopRuns => \A n \in 1..cursor : stored[n] # None \/ n \in missing \/ Unsettled(n)

(***************************************************************************)
(* The loop's goroutine runs on, so do the reads it waits for, the node's  *)
(* chain grows, and a pause on a recorded block always runs out.           *)
(***************************************************************************)
Fairness ==
    /\ WF_vars(Loop) /\ WF_vars(NodeAdvance)
    /\ \A n \in Block : WF_vars(Fetch(n)) /\ SF_vars(RetryMissing(n))

LiveSpec == Spec /\ Fairness

\* The stored chain is the node's, up to the height the loop follows; in realtime recorded blocks are catch-up's.
OnChain ==
    /\ cursor >= (IF realtime THEN MaxBlock - 1 ELSE MaxBlock)
    /\ \A n \in 1..cursor : stored[n] = fork[n] \/ (realtime /\ stored[n] = None /\ n \in missing)

\* A fork deeper than any reorg is a chain reset, which is refused until an operator decides.
ChainReset == \E n \in StoredAt : stored[n] # fork[n] /\ n + MaxReorgDepth <= GetLatestBlockNumber

\* Once the node settles, the stored chain follows it: every reorg, however it met a tick, a failed revert, a skipped
\* block or a restart, ends with the node's blocks stored and none of another fork.
Converges == <>[](OnChain \/ ChainReset)

\* What Converges needs: no writes of catch-up, which nothing compares again, and no failing call beside a restart, which
\* may be the read of the stored head.
Comparable == left["catchups"] = 0 /\ ~(left["errors"] > 0 /\ left["crashes"] > 0)

\* Converges, of every behaviour whose troubles are such (checkStoredHead, detectReorg, anchor, resumeAfterFailedRevert).
FollowsTheNode == Comparable => Converges
=============================================================================
