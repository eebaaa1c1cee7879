----------------------------- MODULE HeadProofs -----------------------------
(***************************************************************************)
(* Proofs about HeadIngest for every set of chains, window, depth and      *)
(* budget of troubles: the type invariant with the bound of the commit     *)
(* pipeline; that standard mode's stored blocks stay linked; and that      *)
(* below the cursor no block is lost.  The last two are proved of the      *)
(* scenarios SkipsApart and WritersApart name; outside them the code does  *)
(* not keep them: run head_retry shows it, as do MCHeadIngest's scenarios  *)
(* SkipAndLoss for the links and CatchupAndLoss in realtime.               *)
(***************************************************************************)
EXTENDS HeadIngest, NaturalFacts, SequenceTheorems, TLAPS

-----------------------------------------------------------------------------
(* The shape of the loop *)

OuterOK ==
    /\ fork \in Chains /\ head \in Block
    /\ stored \in [Block -> Hash \cup {None}] /\ missing \in SUBSET Block
    /\ receipts \in Skips /\ failed \in [from : 0..MaxBlock, pending : BOOLEAN]
    /\ filling \in [block : 0..MaxBlock, hash : Hash \cup {None}] /\ realtime \in BOOLEAN
    /\ left \in [Budget -> Nat]

LoopOK ==
    /\ pc \in {"down", "wait", "idle", "walk", "revert", "jump", "upto", "anchor", "index", "retry"}
    /\ cursor \in 0..MaxBlock /\ latest \in 0..MaxBlock
    /\ walk \in Walks /\ revert \in Reverts /\ tick \in Ticks /\ Len(tick.queue) <= Depth

\* A comparison, a revert and a tick are only kept while they run.
Resting ==
    /\ pc \notin {"walk", "revert"} => walk = NoWalk
    /\ pc # "revert" => revert = NoRevert
    /\ pc # "index" => tick = NoTick

\* A comparison goes down from the cursor at most; a jump is made from below the height the tick goes up to.
WalkShape ==
    /\ walk.deepest <= walk.d /\ walk.d <= walk.top /\ walk.top <= cursor
    /\ pc = "walk" => walk.kind # "none"
    /\ pc = "revert" => walk.kind # "jump"
    /\ walk.kind = "jump" \/ pc = "jump" => cursor < latest

\* A revert begins at or below the cursor, but for that of a block stored above it.
RevertShape ==
    pc = "revert" =>
        /\ revert.why # "none" /\ revert.from \in Block
        /\ revert.why \in {"tick", "start"} => revert.from <= cursor
        /\ revert.why = "above" => revert.from = latest + 1 /\ latest < cursor
        /\ revert.why = "stale" => revert.from > cursor
        /\ revert.why \in {"tick", "stale"} => walk.kind # "start"

\* The open transactions are those of the blocks after the cursor, in order, and the next block follows them.
QueueShape ==
    pc = "index" =>
        /\ tick.next = cursor + Len(tick.queue) + 1 /\ tick.next <= latest + 1
        /\ \A i \in 1..Len(tick.queue) : tick.queue[i][1] = cursor + i
        /\ \A n \in Block : tick.slot[n].err \in {"none", "receipts"} => tick.slot[n].hash # None

\* Only realtime jumps and has catch-up beside it; a revert that failed is resumed before anything else is done.
ModeShape ==
    /\ pc \in {"upto", "jump"} \/ walk.kind = "jump" => realtime
    /\ filling # Idling => realtime /\ filling.block \in Block /\ filling.hash # None
    /\ failed.from # 0 => realtime /\ failed.pending /\ pc \in {"idle", "upto"}

HeadShape == OuterOK /\ LoopOK /\ Resting /\ WalkShape /\ RevertShape /\ QueueShape /\ ModeShape

-----------------------------------------------------------------------------
(* Facts the actions share *)

LEMMA Sizes ==
    /\ MaxBlock \in Nat /\ MaxBlock >= 1 /\ Window \in Nat /\ MaxReorgDepth \in Nat
    /\ Depth \in Nat /\ Depth >= 1 /\ ReceiptAttempts \in Nat /\ ReceiptAttempts >= 1 /\ MaxBehind \in Nat
    /\ None = 0
BY HeadAssumption DEF None

LEMMA BlockIs == \A n : n \in Block <=> n \in Nat /\ 1 <= n /\ n <= MaxBlock
BY Sizes DEF Block

LEMMA ChainHash ==
    ASSUME NEW c \in Chains, NEW n \in Block
    PROVE  c[n] \in Hash /\ c[n] # None
BY HeadAssumption DEF Hash

LEMMA HashSome == None \notin Hash
<1>1. ASSUME NEW h \in Hash PROVE h # None
  <2>1. PICK c \in Chains : h \in {c[n] : n \in Block}
    BY <1>1 DEF Hash
  <2>2. PICK n \in Block : h = c[n]
    BY <2>1
  <2> QED BY <2>2, ChainHash
<1> QED BY <1>1

LEMMA Empties ==
    /\ NoWalk \in Walks /\ NoRevert \in Reverts /\ NoSkip \in Skips
    /\ NoWalk.kind = "none" /\ NoWalk.top = 0 /\ NoWalk.d = 0 /\ NoWalk.deepest = 0 /\ NoWalk.unserved = {}
    /\ NoRevert.why = "none"
    /\ NotFailed \in [from : 0..MaxBlock, pending : BOOLEAN] /\ NotFailed.from = 0
    /\ Idling \in [block : 0..MaxBlock, hash : Hash \cup {None}]
BY Sizes DEF Walking, NoWalk, NoRevert, NoSkip, NotFailed, Idling, Walks, Reverts, Skips

LEMMA BegunWalk ==
    ASSUME NEW k \in {"none", "start", "tick", "jump"}, NEW t \in 0..MaxBlock
    PROVE  /\ Walking(k, t) \in Walks /\ Walking(k, t).kind = k /\ Walking(k, t).top = t
           /\ Walking(k, t).d = 0 /\ Walking(k, t).deepest = 0 /\ Walking(k, t).unserved = {}
<1>1. 0 \in 0..MaxBlock /\ {} \in SUBSET Block
  BY Sizes
<1> QED BY <1>1 DEF Walks, Walking

LEMMA BegunTick ==
    ASSUME NEW n \in 0..(MaxBlock + 1), NEW h \in Hash \cup {None}, NEW r \in BOOLEAN
    PROVE  /\ Ticking(n, h, r) \in Ticks /\ Ticking(n, h, r).next = n /\ Ticking(n, h, r).prev = h
           /\ Ticking(n, h, r).queue = <<>> /\ Len(Ticking(n, h, r).queue) = 0
           /\ \A m \in Block : Ticking(n, h, r).slot[m] = Unread
           /\ Unread \in Slots /\ Unread.err = "unread"
<1>1. Unread \in Slots /\ Unread.err = "unread"
  BY DEF Unread, Slots
<1>2. [m \in Block |-> Unread] \in [Block -> Slots]
  BY <1>1
<1>3. <<>> \in Seq(Block \X Hash) /\ Len(<<>>) = 0
  OBVIOUS
<1>4. Ticking(n, h, r) \in Ticks
  <2> HIDE DEF Slots, Unread
  <2> QED BY <1>2, <1>3 DEF Ticking, Ticks
<1>5. /\ Ticking(n, h, r).queue = <<>> /\ Ticking(n, h, r).slot = [m \in Block |-> Unread]
      /\ Ticking(n, h, r).next = n /\ Ticking(n, h, r).prev = h
  BY DEF Ticking
<1> QED BY <1>1, <1>3, <1>4, <1>5

LEMMA EmptyTick ==
    /\ NoTick \in Ticks /\ NoTick.queue = <<>> /\ Len(NoTick.queue) = 0
    /\ \A n \in Block : NoTick.slot[n] = Unread
    /\ Unread.err = "unread"
<1>1. 0 \in 0..(MaxBlock + 1) /\ None \in Hash \cup {None} /\ FALSE \in BOOLEAN
  BY Sizes
<1> QED BY <1>1, BegunTick DEF NoTick

\* What a step spends is never given back.
Spent == left' \in [Budget -> Nat] /\ \A k \in Budget : left'[k] <= left[k]

LEMMA SpendIs ==
    ASSUME left \in [Budget -> Nat], NEW k \in Budget, Spend(k)
    PROVE  Spent /\ left[k] # 0
BY DEF Spend, Spent

LEMMA FreeIs ==
    ASSUME left \in [Budget -> Nat], Free
    PROVE  Spent
BY DEF Free, Spent

LEMMA HighestIs ==
    ASSUME NEW b \in Nat
    PROVE  /\ HighestAtOrBelow(b) \in 0..MaxBlock /\ HighestAtOrBelow(b) <= b
           /\ HighestAtOrBelow(b) # 0 => HighestAtOrBelow(b) \in StoredAt
           /\ \A n \in StoredAt : n <= b => n <= HighestAtOrBelow(b)
<1> DEFINE S == {n \in StoredAt : n <= b}
<1>1. S \in SUBSET (0..MaxBlock) /\ StoredAt \subseteq Block
  BY BlockIs, Sizes DEF StoredAt
<1>2. CASE S = {}
  <2>1. HighestAtOrBelow(b) = 0
    BY <1>2 DEF HighestAtOrBelow
  <2> QED BY <1>2, <2>1, Sizes
<1>3. CASE S # {}
  <2>1. PICK n \in S : \A m \in S : m <= n
    BY <1>1, <1>3, Sizes, GreatestNatural
  <2>2. HighestAtOrBelow(b) = CHOOSE x \in S : \A m \in S : m <= x
    BY <1>3 DEF HighestAtOrBelow
  <2>3. HighestAtOrBelow(b) \in S /\ \A m \in S : m <= HighestAtOrBelow(b)
    BY <2>1, <2>2
  <2> QED BY <1>1, <2>3
<1> QED BY <1>2, <1>3

LEMMA LatestIs ==
    /\ GetLatestBlockNumber \in 0..MaxBlock
    /\ GetLatestBlockNumber # 0 => GetLatestBlockNumber \in StoredAt
    /\ \A n \in StoredAt : n <= GetLatestBlockNumber
BY HighestIs, Sizes, BlockIs DEF GetLatestBlockNumber, StoredAt

LEMMA LowerIs ==
    ASSUME NEW a \in Nat, NEW b \in Nat
    PROVE  Lower(a, b) \in Nat /\ Lower(a, b) <= a /\ Lower(a, b) <= b /\ Lower(a, b) \in {a, b}
BY DEF Lower

-----------------------------------------------------------------------------
(* The shape after a step, by where the loop is then *)

\* Nothing under way.
LEMMA RestShape ==
    ASSUME OuterOK', ModeShape', cursor' \in 0..MaxBlock, latest' \in 0..MaxBlock,
           pc' \in {"down", "wait", "idle", "jump", "upto", "anchor", "retry"},
           walk' = NoWalk, revert' = NoRevert, tick' = NoTick,
           pc' = "jump" => cursor' < latest'
    PROVE  HeadShape'
<1>1. LoopOK'
  BY Sizes, Empties, EmptyTick DEF LoopOK
<1>2. Resting'
  BY DEF Resting
<1>3. WalkShape'
  BY <1>1, Empties DEF WalkShape
<1> QED BY <1>1, <1>2, <1>3 DEF HeadShape, RevertShape, QueueShape

\* A comparison.
LEMMA WalkingShape ==
    ASSUME OuterOK', ModeShape', cursor' \in 0..MaxBlock, latest' \in 0..MaxBlock,
           pc' = "walk", walk' \in Walks, walk'.kind # "none", revert' = NoRevert, tick' = NoTick,
           walk'.deepest <= walk'.d, walk'.d <= walk'.top, walk'.top <= cursor',
           walk'.kind = "jump" => cursor' < latest'
    PROVE  HeadShape'
<1>1. LoopOK'
  BY Sizes, Empties, EmptyTick DEF LoopOK
<1>2. Resting'
  BY DEF Resting
<1>3. WalkShape'
  BY DEF WalkShape
<1> QED BY <1>1, <1>2, <1>3 DEF HeadShape, RevertShape, QueueShape

\* A revert.
LEMMA RevertingShape ==
    ASSUME OuterOK', ModeShape', cursor' \in 0..MaxBlock, latest' \in 0..MaxBlock,
           pc' = "revert", walk' \in Walks, walk'.kind # "jump", revert' \in Reverts, tick' = NoTick,
           walk'.deepest <= walk'.d, walk'.d <= walk'.top, walk'.top <= cursor',
           RevertShape'
    PROVE  HeadShape'
<1>1. LoopOK'
  BY Sizes, Empties, EmptyTick DEF LoopOK
<1>2. Resting'
  BY DEF Resting
<1>3. WalkShape'
  BY DEF WalkShape
<1> QED BY <1>1, <1>2, <1>3 DEF HeadShape, QueueShape

\* A tick that reads and writes blocks.
LEMMA IndexingShape ==
    ASSUME OuterOK', ModeShape', cursor' \in 0..MaxBlock, latest' \in 0..MaxBlock,
           pc' = "index", walk' = NoWalk, revert' = NoRevert, tick' \in Ticks, Len(tick'.queue) <= Depth, QueueShape'
    PROVE  HeadShape'
<1>1. LoopOK'
  BY Sizes, Empties DEF LoopOK
<1>2. Resting'
  BY DEF Resting
<1>3. WalkShape'
  BY <1>1, Empties, Sizes DEF WalkShape
<1> QED BY <1>1, <1>2, <1>3 DEF HeadShape, RevertShape

LEMMA EndTickShape ==
    ASSUME HeadShape, EndTick, OuterOK', UNCHANGED <<realtime, filling>>, cursor' \in 0..MaxBlock,
           failed'.from # 0 => realtime /\ failed'.pending
    PROVE  HeadShape'
<1>1. /\ pc' = (IF realtime THEN "idle" ELSE "retry") /\ latest' = 0 /\ walk' = NoWalk /\ revert' = NoRevert /\ tick' = NoTick
  BY DEF EndTick
<1>2. ModeShape'
  BY <1>1, Empties DEF HeadShape, ModeShape
<1>3. latest' \in 0..MaxBlock
  BY <1>1, Sizes
<1> QED BY <1>1, <1>2, <1>3, RestShape

LEMMA StoppedShape ==
    ASSUME HeadShape, Stopped, UNCHANGED <<fork, head, missing, realtime>>, stored' \in [Block -> Hash \cup {None}], Spent
    PROVE  HeadShape'
<1>1. /\ pc' = "down" /\ cursor' = 0 /\ latest' = 0 /\ filling' = Idling
      /\ walk' = NoWalk /\ revert' = NoRevert /\ tick' = NoTick /\ receipts' = NoSkip /\ failed' = NotFailed
  BY DEF Stopped
<1>2. OuterOK'
  BY <1>1, Empties DEF OuterOK, HeadShape, Spent
<1>3. ModeShape'
  BY <1>1, Empties DEF HeadShape, ModeShape
<1>4. latest' \in 0..MaxBlock /\ cursor' \in 0..MaxBlock
  BY <1>1, Sizes
<1> QED BY <1>1, <1>2, <1>3, <1>4, RestShape

LEMMA RunLoopShape ==
    ASSUME HeadShape, NEW last \in 0..MaxBlock, NEW top \in 0..MaxBlock, RunLoop(last, top),
           UNCHANGED <<fork, head, stored, tick, receipts, failed, filling, realtime>>, Spent, pc # "index"
    PROVE  HeadShape'
<1>1. /\ pc' = "idle" /\ latest' = 0 /\ walk' = NoWalk /\ revert' = NoRevert /\ cursor' \in {last, top}
      /\ missing' \in SUBSET Block
  <2>1. 1..top \subseteq Block
    BY Sizes DEF Block
  <2> QED BY <2>1 DEF RunLoop, HeadShape, OuterOK
<1>2. OuterOK'
  BY <1>1 DEF OuterOK, HeadShape, Spent
<1>3. ModeShape' /\ tick' = NoTick
  BY <1>1, Empties DEF HeadShape, ModeShape, Resting
<1>4. latest' \in 0..MaxBlock
  BY <1>1, Sizes
<1> QED BY <1>1, <1>2, <1>3, <1>4, RestShape

LEMMA StartWalkShape ==
    ASSUME HeadShape, NEW last \in 0..MaxBlock, NEW top \in 0..MaxBlock, StartWalk(last, top),
           UNCHANGED <<fork, head, stored, missing, tick, receipts, failed, filling, realtime>>, Spent, pc \in {"down", "wait", "revert"}
    PROVE  HeadShape'
<1> DEFINE t == Lower(last, top)
<1>1. t \in 0..MaxBlock /\ t <= last
  <2>1. last \in Nat /\ top \in Nat
    BY Sizes
  <2> QED BY <2>1, LowerIs, Sizes
<1>2. /\ pc' = "walk" /\ cursor' = last /\ latest' = top /\ revert' = NoRevert
      /\ walk' = Walking("start", t)
  BY DEF StartWalk
<1> HIDE DEF t
<1>3. walk' \in Walks /\ walk'.kind = "start" /\ walk'.top = t /\ walk'.d = 0 /\ walk'.deepest = 0
  BY <1>1, <1>2, BegunWalk
<1>4. OuterOK'
  BY DEF OuterOK, HeadShape, Spent
<1>5. ModeShape' /\ tick' = NoTick
  BY <1>2, <1>3 DEF HeadShape, ModeShape, Resting
<1>6. walk'.deepest <= walk'.d /\ walk'.d <= walk'.top /\ walk'.top <= cursor'
  BY <1>1, <1>2, <1>3
<1> QED BY <1>2, <1>3, <1>4, <1>5, <1>6, WalkingShape

\* A tick's comparison begins, or there is nothing to compare.
LEMMA BeginWalkShape ==
    ASSUME HeadShape, NEW kind \in {"tick", "jump"}, BeginWalk(kind, cursor'), cursor' \in 0..MaxBlock, latest' \in 0..MaxBlock,
           UNCHANGED <<revert, tick, filling, realtime>>, OuterOK', pc \notin {"walk", "revert", "index"},
           kind = "jump" => realtime /\ cursor' < latest', failed'.from = 0
    PROVE  HeadShape'
<1>1. revert' = NoRevert /\ tick' = NoTick
  BY DEF HeadShape, Resting
<1>2. CASE cursor' > 0
  <2>1. pc' = "walk" /\ walk' = Walking(kind, cursor')
    BY <1>2 DEF BeginWalk
  <2>2. walk' \in Walks /\ walk'.kind = kind /\ walk'.top = cursor' /\ walk'.d = 0 /\ walk'.deepest = 0
    BY <2>1, BegunWalk
  <2>3. ModeShape'
    BY <2>1, <2>2 DEF HeadShape, ModeShape
  <2>4. walk'.deepest <= walk'.d /\ walk'.d <= walk'.top /\ walk'.top <= cursor'
    BY <2>2
  <2> QED BY <1>1, <2>1, <2>2, <2>3, <2>4, WalkingShape
<1>3. CASE ~(cursor' > 0)
  <2>1. pc' = (IF kind = "jump" THEN "jump" ELSE "anchor") /\ walk' = NoWalk
    BY <1>3 DEF BeginWalk
  <2>2. ModeShape'
    BY <2>1, Empties DEF HeadShape, ModeShape
  <2> QED BY <1>1, <2>1, <2>2, RestShape
<1> QED BY <1>2, <1>3

-----------------------------------------------------------------------------
(* The shape is kept by the start and by the beginning of a tick *)

LEMMA StartShape ==
    ASSUME HeadShape, Start
    PROVE  HeadShape'
<1>1. /\ pc = "down" /\ UNCHANGED <<fork, head, stored, tick, receipts, failed, filling, realtime>>
      /\ left \in [Budget -> Nat] /\ head \in 0..MaxBlock
  BY BlockIs, Sizes DEF Start, nodeVars, otherVars, HeadShape, OuterOK
<1>2. CASE RunLoop(0, head) /\ (Free \/ Spend("errors"))
  <2>1. Spent
    BY <1>1, <1>2, FreeIs, SpendIs DEF Budget
  <2> QED BY <1>1, <1>2, <2>1, RunLoopShape, Sizes
<1>3. CASE StartWalk(GetLatestBlockNumber, head) /\ UNCHANGED missing /\ Free
  <2>1. Spent
    BY <1>1, <1>3, FreeIs
  <2> QED BY <1>1, <1>3, <2>1, StartWalkShape, LatestIs
<1> QED BY <1>2, <1>3 DEF Start

LEMMA StartWaitShape ==
    ASSUME HeadShape, StartWait
    PROVE  HeadShape'
<1>1. /\ pc = "wait" /\ UNCHANGED <<fork, head, stored, missing, realtime, left>> /\ left \in [Budget -> Nat]
      /\ head \in 0..MaxBlock /\ cursor \in 0..MaxBlock
  BY BlockIs, Sizes DEF StartWait, nodeVars, dbVars, HeadShape, OuterOK, LoopOK
<1>2. Spent /\ stored' \in [Block -> Hash \cup {None}]
  BY <1>1, FreeIs DEF Free, HeadShape, OuterOK
<1>3. CASE StartWalk(cursor, head) /\ UNCHANGED <<tick, receipts, failed, filling>>
  BY <1>1, <1>2, <1>3, StartWalkShape
<1>4. CASE Stopped
  BY <1>1, <1>2, <1>4, StoppedShape
<1> QED BY <1>3, <1>4 DEF StartWait

LEMMA StartRevertAboveShape ==
    ASSUME HeadShape, StartRevertAbove
    PROVE  HeadShape'
<1>1. /\ pc = "wait" /\ cursor > latest /\ pc' = "revert"
      /\ revert' = [why |-> "above", next |-> GetLatestBlockNumber, from |-> latest + 1]
      /\ UNCHANGED <<fork, head, stored, missing, cursor, latest, walk, tick, receipts, failed, filling, realtime, left>>
  BY DEF StartRevertAbove, nodeVars, dbVars, otherVars
<1>2. cursor \in 0..MaxBlock /\ latest \in 0..MaxBlock /\ walk = NoWalk /\ tick = NoTick
  BY <1>1 DEF HeadShape, LoopOK, Resting
<1>3. latest + 1 \in Block /\ latest + 1 \in 0..MaxBlock
  BY <1>1, <1>2, Sizes DEF Block
<1>4. revert' \in Reverts /\ revert'.why = "above" /\ revert'.from = latest + 1
  BY <1>1, <1>3, LatestIs DEF Reverts
<1>5. RevertShape'
  BY <1>1, <1>3, <1>4 DEF RevertShape
<1>6. OuterOK' /\ ModeShape'
  BY <1>1 DEF HeadShape, OuterOK, ModeShape
<1>7. walk' \in Walks /\ walk'.kind # "jump" /\ walk'.deepest <= walk'.d /\ walk'.d <= walk'.top /\ walk'.top <= cursor'
  BY <1>1, <1>2, Empties
<1> QED BY <1>1, <1>2, <1>4, <1>5, <1>6, <1>7, RevertingShape

LEMMA StandardTickShape ==
    ASSUME HeadShape, StandardTick
    PROVE  HeadShape'
<1>1. /\ pc = "idle" /\ ~realtime /\ latest' = head /\ BeginWalk("tick", cursor')
      /\ UNCHANGED <<fork, head, stored, missing, cursor, revert, tick, receipts, failed, filling, realtime, left>>
  BY DEF StandardTick, nodeVars, dbVars, otherVars
<1>2. OuterOK' /\ cursor' \in 0..MaxBlock /\ latest' \in 0..MaxBlock /\ failed'.from = 0
  BY <1>1, BlockIs, Sizes DEF HeadShape, OuterOK, LoopOK, ModeShape
<1> QED BY <1>1, <1>2, BeginWalkShape

LEMMA RealtimeTickShape ==
    ASSUME HeadShape, RealtimeTick
    PROVE  HeadShape'
<1>1. /\ pc = "idle" /\ realtime /\ latest' = head - 1
      /\ UNCHANGED <<fork, head, stored, missing, cursor, revert, tick, receipts, failed, filling, realtime, left>>
      /\ IF MaxBehind = 0 \/ head - 1 <= cursor + MaxBehind \/ failed.pending
         THEN pc' = "upto" /\ UNCHANGED walk ELSE BeginWalk("jump", cursor)
  BY DEF RealtimeTick, nodeVars, dbVars, otherVars
<1>2. /\ OuterOK' /\ cursor \in 0..MaxBlock /\ cursor' \in 0..MaxBlock /\ latest' \in 0..MaxBlock
      /\ (failed.from # 0 => failed.pending) /\ walk = NoWalk /\ revert = NoRevert /\ tick = NoTick
  BY <1>1, BlockIs, Sizes DEF HeadShape, OuterOK, LoopOK, ModeShape, Resting
<1>3. CASE MaxBehind = 0 \/ head - 1 <= cursor + MaxBehind \/ failed.pending
  <2>1. pc' = "upto" /\ walk' = NoWalk
    BY <1>1, <1>2, <1>3
  <2>2. ModeShape'
    BY <1>1, <2>1, Empties DEF HeadShape, ModeShape
  <2> QED BY <1>1, <1>2, <2>1, <2>2, RestShape
<1>4. CASE ~(MaxBehind = 0 \/ head - 1 <= cursor + MaxBehind \/ failed.pending)
  <2>1. BeginWalk("jump", cursor') /\ failed'.from = 0
    BY <1>1, <1>2, <1>4
  <2>2. head \in Nat /\ head >= 1
    BY BlockIs DEF HeadShape, OuterOK
  <2>3. cursor' < latest'
    BY <1>1, <1>2, <1>4, <2>2, Sizes
  <2> QED BY <1>1, <1>2, <2>1, <2>3, BeginWalkShape
<1> QED BY <1>3, <1>4

LEMMA JumpShape ==
    ASSUME HeadShape, JumpIfFarBehind
    PROVE  HeadShape'
<1>1. /\ pc = "jump" /\ pc' = "upto" /\ left \in [Budget -> Nat]
      /\ UNCHANGED <<fork, head, stored, latest, walk, revert, tick, receipts, failed, filling, realtime>>
      /\ cursor' \in {cursor, latest - 1} /\ (missing' = missing \/ missing' = missing \cup ((cursor + 1)..(latest - 1)))
      /\ Free \/ Spend("lost") \/ Spend("errors")
  BY DEF JumpIfFarBehind, nodeVars, otherVars, HeadShape, OuterOK
<1>2. cursor \in 0..MaxBlock /\ latest \in 0..MaxBlock /\ cursor < latest /\ walk = NoWalk /\ revert = NoRevert /\ tick = NoTick
  BY <1>1 DEF HeadShape, LoopOK, WalkShape, Resting
<1>3. Spent
  BY <1>1, FreeIs, SpendIs DEF Budget
<1>4. cursor' \in 0..MaxBlock /\ latest' \in 0..MaxBlock /\ (cursor + 1)..(latest - 1) \subseteq Block
  BY <1>1, <1>2, Sizes DEF Block
<1>5. missing' \in SUBSET Block
  BY <1>1, <1>4 DEF HeadShape, OuterOK
<1>6. OuterOK' /\ ModeShape'
  BY <1>1, <1>3, <1>5 DEF HeadShape, OuterOK, ModeShape, Spent
<1> QED BY <1>1, <1>2, <1>4, <1>6, RestShape

LEMMA ResumeIs ==
    ASSUME HeadShape
    PROVE  ResumeAfterFailedRevert \in 0..MaxBlock /\ ResumeAfterFailedRevert <= cursor
<1>1. cursor \in 0..MaxBlock /\ failed.from \in 0..MaxBlock
  BY DEF HeadShape, LoopOK, OuterOK
<1>2. CASE failed.from = 0
  BY <1>1, <1>2 DEF ResumeAfterFailedRevert
<1>3. CASE failed.from # 0
  <2> DEFINE below == HighestAtOrBelow(cursor)
             to == IF below > failed.from - 1 THEN below ELSE failed.from - 1
  <2>1. below \in 0..MaxBlock
    BY <1>1, HighestIs, Sizes
  <2>2. to \in Nat /\ cursor \in Nat
    <3> HIDE DEF below
    <3> QED BY <1>1, <1>3, <2>1, Sizes
  <2>3. ResumeAfterFailedRevert = Lower(cursor, to)
    BY <1>3 DEF ResumeAfterFailedRevert
  <2> HIDE DEF to
  <2> QED BY <1>1, <2>2, <2>3, LowerIs, Sizes
<1> QED BY <1>2, <1>3

LEMMA IndexUpToShape ==
    ASSUME HeadShape, IndexUpTo
    PROVE  HeadShape'
<1>1. /\ pc = "upto" /\ UNCHANGED <<fork, head, stored, missing, receipts, filling, realtime>> /\ left \in [Budget -> Nat]
      /\ realtime /\ cursor \in 0..MaxBlock /\ latest \in 0..MaxBlock /\ failed \in [from : 0..MaxBlock, pending : BOOLEAN]
  BY DEF IndexUpTo, nodeVars, dbVars, otherVars, HeadShape, OuterOK, LoopOK, ModeShape
<1>2. CASE /\ cursor' = ResumeAfterFailedRevert /\ failed' = [failed EXCEPT !.from = 0]
           /\ IF latest <= cursor' THEN EndTick ELSE BeginWalk("tick", cursor') /\ UNCHANGED <<latest, revert, tick>>
           /\ Free
  <2>1. failed' \in [from : 0..MaxBlock, pending : BOOLEAN] /\ failed'.from = 0
    BY <1>1, <1>2, Sizes
  <2>2. cursor' \in 0..MaxBlock
    BY <1>2, ResumeIs
  <2>3. OuterOK'
    BY <1>1, <1>2, <2>1, FreeIs DEF HeadShape, OuterOK, Spent
  <2>4. CASE EndTick
    BY <1>1, <2>1, <2>2, <2>3, <2>4, EndTickShape
  <2>5. CASE BeginWalk("tick", cursor') /\ UNCHANGED <<latest, revert, tick>>
    BY <1>1, <2>1, <2>2, <2>3, <2>5, BeginWalkShape
  <2> QED BY <1>2, <2>4, <2>5
<1>3. CASE failed.from # 0 /\ EndTick /\ UNCHANGED <<cursor, failed>> /\ Spend("errors")
  <2>1. Spent
    BY <1>1, <1>3, SpendIs DEF Budget
  <2>2. OuterOK'
    BY <1>1, <1>3, <2>1 DEF HeadShape, OuterOK, Spent
  <2>3. failed'.from # 0 => realtime /\ failed'.pending
    BY <1>3 DEF HeadShape, ModeShape
  <2> QED BY <1>1, <1>3, <2>2, <2>3, EndTickShape
<1> QED BY <1>2, <1>3 DEF IndexUpTo
-----------------------------------------------------------------------------
(* The shape is kept by the comparisons and the reverts *)

LEMMA WalkMovesShape ==
    ASSUME HeadShape, pc = "walk", Spent,
           UNCHANGED <<fork, head, stored, missing, realtime, pc, cursor, latest, revert, tick, receipts, failed, filling>>,
           walk' \in Walks, walk'.kind = walk.kind, walk'.top = walk.top, walk'.deepest <= walk'.d, walk'.d <= walk'.top
    PROVE  HeadShape'
<1>1. OuterOK' /\ ModeShape'
  BY DEF HeadShape, OuterOK, ModeShape, Spent
<1>2. /\ cursor' \in 0..MaxBlock /\ latest' \in 0..MaxBlock /\ revert' = NoRevert /\ tick' = NoTick
      /\ walk'.kind # "none" /\ walk'.top <= cursor' /\ (walk'.kind = "jump" => cursor' < latest')
  BY DEF HeadShape, LoopOK, Resting, WalkShape
<1> QED BY <1>1, <1>2, WalkingShape

LEMMA WalkFailsShape ==
    ASSUME HeadShape, pc = "walk", WalkFails, UNCHANGED <<fork, head, stored, missing, realtime>>, Spent
    PROVE  HeadShape'
<1>1. /\ stored' \in [Block -> Hash \cup {None}] /\ cursor \in 0..MaxBlock /\ latest \in 0..MaxBlock
      /\ (failed.from # 0 => realtime /\ failed.pending) /\ revert = NoRevert /\ tick = NoTick
  BY DEF HeadShape, OuterOK, LoopOK, ModeShape, Resting
<1>2. CASE EndTick /\ UNCHANGED <<cursor, receipts, failed, filling>>
  <2>1. OuterOK'
    BY <1>2 DEF HeadShape, OuterOK, Spent
  <2> QED BY <1>1, <1>2, <2>1, EndTickShape
<1>3. CASE /\ walk.kind = "jump" /\ pc' = "upto" /\ walk' = NoWalk
           /\ UNCHANGED <<cursor, latest, revert, tick, receipts, failed, filling>>
  <2>1. OuterOK' /\ ModeShape'
    BY <1>3, Empties DEF HeadShape, OuterOK, ModeShape, Spent
  <2> QED BY <1>1, <1>3, <2>1, RestShape
<1>4. CASE Stopped
  BY <1>1, <1>4, StoppedShape
<1> QED BY <1>2, <1>3, <1>4 DEF WalkFails

LoopStill == UNCHANGED <<pc, cursor, latest, revert, tick, receipts, failed, filling>>
WalkMoved ==
    /\ walk' \in Walks /\ walk'.kind = walk.kind /\ walk'.top = walk.top
    /\ walk'.deepest <= walk'.d /\ walk'.d <= walk'.top

\* A comparison of one block: the walk goes on, the failed comparison ends it, or the start is refused.
LEMMA WalkStepIs ==
    ASSUME HeadShape, WalkStep
    PROVE  /\ pc = "walk" /\ UNCHANGED <<fork, head, stored, missing, realtime>> /\ Spent
           /\ \/ LoopStill /\ WalkMoved
              \/ WalkFails /\ (Free \/ Spend("errors"))
              \/ walk.kind = "start" /\ Stopped /\ Free
<1> DEFINE n == walk.top - walk.d
           To(d, e, u) == walk' = [walk EXCEPT !.d = d, !.deepest = e, !.unserved = u]
<1>1. pc = "walk" /\ ~WalkOver /\ UNCHANGED <<fork, head, stored, missing, realtime>> /\ left \in [Budget -> Nat] /\ walk \in Walks
  BY DEF WalkStep, nodeVars, dbVars, HeadShape, OuterOK, LoopOK
<1>2. /\ walk.d \in 0..MaxBlock /\ walk.top \in 0..MaxBlock /\ walk.deepest \in 0..MaxBlock /\ walk.d < walk.top
      /\ walk.deepest <= walk.d /\ walk.unserved \in SUBSET Block
  BY <1>1 DEF WalkOver, Walks, HeadShape, WalkShape
<1>3. n \in Block /\ walk.d + 1 \in 0..MaxBlock
  BY <1>2, Sizes DEF Block
<1>4. Spent
  BY <1>1, FreeIs, SpendIs DEF WalkStep, Budget
<1>5. ASSUME NEW d \in 0..MaxBlock, NEW e \in 0..MaxBlock, NEW u \in SUBSET Block, e <= d, d <= walk.top,
             To(d, e, u)
      PROVE  WalkMoved
  <2>1. walk' \in Walks
    BY <1>1, <1>5 DEF Walks
  <2>2. walk'.kind = walk.kind /\ walk'.top = walk.top /\ walk'.d = d /\ walk'.deepest = e
    BY <1>1, <1>5 DEF Walks
  <2> QED BY <1>5, <2>1, <2>2 DEF WalkMoved
<1>6. CASE WalkOn
  <2>1. LoopStill /\ To(walk.d + 1, walk.deepest, walk.unserved)
    BY <1>1, <1>6 DEF WalkOn, LoopStill, Walks
  <2>2. walk.deepest <= walk.d + 1 /\ walk.d + 1 <= walk.top
    BY <1>2
  <2> HIDE DEF To
  <2>3. WalkMoved
    BY <1>2, <1>3, <1>5, <2>1, <2>2
  <2> QED BY <1>1, <1>4, <2>1, <2>3
<1>7. CASE WalkMatch
  <2>1. CASE walk' = [walk EXCEPT !.d = walk.top] /\ LoopStill
    <3>1. To(walk.top, walk.deepest, walk.unserved)
      BY <1>1, <2>1 DEF Walks
    <3>2. walk.deepest <= walk.top /\ walk.top <= walk.top
      BY <1>2
    <3> HIDE DEF To
    <3>3. WalkMoved
      BY <1>2, <1>5, <3>1, <3>2
    <3> QED BY <1>1, <1>4, <2>1, <3>3
  <2> QED BY <1>6, <1>7, <2>1 DEF WalkMatch, LoopStill
<1>8. CASE WalkMismatch /\ Free
  <2>1. CASE walk' = [walk EXCEPT !.d = @ + 1, !.deepest = walk.d + 1] /\ LoopStill
    <3>1. To(walk.d + 1, walk.d + 1, walk.unserved)
      BY <1>1, <2>1 DEF Walks
    <3>2. walk.d + 1 <= walk.d + 1 /\ walk.d + 1 <= walk.top
      BY <1>2
    <3> HIDE DEF To
    <3>3. WalkMoved
      BY <1>2, <1>3, <1>5, <3>1, <3>2
    <3> QED BY <1>1, <1>4, <2>1, <3>3
  <2>2. CASE walk.kind = "start" /\ Stopped
    BY <1>1, <1>4, <1>8, <2>2
  <2> QED BY <1>8, <2>1, <2>2 DEF WalkMismatch, LoopStill
<1>9. CASE WalkUnserved(n) /\ Free
  <2> DEFINE u == walk.unserved \cup {n}
             d == IF Cardinality(u) >= Window THEN walk.top ELSE walk.d + 1
  <2>1. u \in SUBSET Block /\ d \in 0..MaxBlock /\ walk.deepest <= d /\ d <= walk.top
    <3>1. u \in SUBSET Block
      BY <1>2, <1>3
    <3>2. d \in {walk.top, walk.d + 1}
      OBVIOUS
    <3> HIDE DEF d
    <3> QED BY <1>2, <1>3, <3>1, <3>2
  <2>2. CASE walk' = [walk EXCEPT !.d = IF Cardinality(u) >= Window THEN walk.top ELSE @ + 1, !.unserved = u] /\ LoopStill
    <3>1. To(d, walk.deepest, u)
      BY <1>1, <2>2 DEF Walks
    <3> HIDE DEF u, d, To
    <3>2. WalkMoved
      BY <1>2, <1>5, <2>1, <3>1
    <3> QED BY <1>1, <1>4, <2>2, <3>2
  <2>3. CASE WalkFails
    BY <1>1, <1>4, <1>9, <2>3
  <2> QED BY <1>9, <2>2, <2>3 DEF WalkUnserved, LoopStill
<1> QED BY <1>1, <1>4, <1>6, <1>7, <1>8, <1>9 DEF WalkStep

LEMMA WalkStepShape ==
    ASSUME HeadShape, WalkStep
    PROVE  HeadShape'
<1>1. stored' \in [Block -> Hash \cup {None}]
  BY WalkStepIs DEF HeadShape, OuterOK
<1> QED BY <1>1, WalkStepIs, WalkMovesShape, WalkFailsShape, StoppedShape DEF LoopStill, WalkMoved

LEMMA TickRevertFailsShape ==
    ASSUME HeadShape, NEW from \in Block, TickRevertFails(from), pc \in {"walk", "revert"},
           UNCHANGED <<fork, head, missing, cursor, receipts, filling, realtime>>, stored' \in [Block -> Hash \cup {None}], Spent
    PROVE  HeadShape'
<1>1. EndTick /\ cursor' \in 0..MaxBlock /\ failed.from = 0
  BY DEF TickRevertFails, HeadShape, LoopOK, ModeShape
<1>2. failed' \in [from : 0..MaxBlock, pending : BOOLEAN] /\ (failed'.from # 0 => realtime /\ failed'.pending)
  <2>1. CASE realtime
    <3>1. failed' = [from |-> from, pending |-> TRUE] /\ from \in 0..MaxBlock
      BY <2>1, BlockIs, Sizes DEF TickRevertFails
    <3> QED BY <2>1, <3>1
  <2>2. CASE ~realtime
    BY <1>1, <2>2 DEF TickRevertFails, HeadShape, OuterOK
  <2> QED BY <2>1, <2>2
<1>3. OuterOK'
  BY <1>2 DEF HeadShape, OuterOK, Spent
<1> QED BY <1>1, <1>2, <1>3, EndTickShape

LEMMA StoredHeadCheckedShape ==
    ASSUME HeadShape, NEW last \in 0..MaxBlock, NEW u, StoredHeadChecked(last, u), pc \in {"walk", "revert"},
           UNCHANGED <<fork, head, stored, tick, receipts, failed, filling, realtime>>, Spent
    PROVE  HeadShape'
<1>1. latest \in 0..MaxBlock
  BY DEF HeadShape, LoopOK
<1>2. CASE RunLoop(last, latest)
  BY <1>1, <1>2, RunLoopShape
<1>3. CASE /\ pc' = "wait" /\ cursor' = last /\ walk' = NoWalk /\ revert' = NoRevert /\ UNCHANGED <<missing, latest>>
  <2>1. OuterOK' /\ ModeShape' /\ tick' = NoTick
    BY <1>3, Empties DEF HeadShape, OuterOK, ModeShape, Resting, Spent
  <2> QED BY <1>1, <1>3, <2>1, RestShape
<1> QED BY <1>2, <1>3 DEF StoredHeadChecked

\* A comparison found a fork: the revert goes down to where it begins.
LEMMA BeginRevertShape ==
    ASSUME HeadShape, pc = "walk", pc' = "revert", NEW why \in {"tick", "start"}, walk.kind = why,
           NEW from \in Block, from <= cursor, revert' = [why |-> why, next |-> GetLatestBlockNumber, from |-> from],
           UNCHANGED <<fork, head, stored, missing, cursor, latest, walk, tick, receipts, failed, filling, realtime>>, Spent
    PROVE  HeadShape'
<1>1. revert' \in Reverts /\ revert'.why = why /\ revert'.from = from
  <2>1. from \in 0..MaxBlock
    BY BlockIs, Sizes
  <2> QED BY <2>1, LatestIs DEF Reverts
<1>2. OuterOK' /\ ModeShape' /\ tick' = NoTick
  BY DEF HeadShape, OuterOK, ModeShape, Resting, Spent
<1>3. RevertShape'
  BY <1>1 DEF RevertShape
<1>4. /\ cursor' \in 0..MaxBlock /\ latest' \in 0..MaxBlock /\ walk' \in Walks /\ walk'.kind # "jump"
      /\ walk'.deepest <= walk'.d /\ walk'.d <= walk'.top /\ walk'.top <= cursor'
  BY DEF HeadShape, LoopOK, WalkShape
<1> QED BY <1>1, <1>2, <1>3, <1>4, RevertingShape

\* Where a comparison's revert begins.
LEMMA ForkIs ==
    ASSUME HeadShape, walk.deepest > 0
    PROVE  walk.top + 1 - walk.deepest \in Block /\ walk.top + 1 - walk.deepest <= cursor
<1>1. walk.deepest \in 0..MaxBlock /\ walk.top \in 0..MaxBlock /\ cursor \in 0..MaxBlock
  BY DEF HeadShape, LoopOK, Walks
<1>2. walk.deepest <= walk.top /\ walk.top <= cursor
  <2>1. walk.deepest <= walk.d /\ walk.d <= walk.top /\ walk.top <= cursor /\ walk.d \in 0..MaxBlock
    BY DEF HeadShape, WalkShape, LoopOK, Walks
  <2> QED BY <1>1, <2>1
<1> QED BY <1>1, <1>2, Sizes DEF Block

\* A comparison ends.
LEMMA WalkEndIs ==
    ASSUME HeadShape, WalkEnd
    PROVE  LET from == walk.top + 1 - walk.deepest
               revertTo(why) == /\ pc' = "revert" /\ walk.kind = why /\ walk.deepest > 0
                                /\ revert' = [why |-> why, next |-> GetLatestBlockNumber, from |-> from]
                                /\ UNCHANGED <<missing, cursor, latest, walk, tick, failed>>
           IN /\ pc = "walk" /\ UNCHANGED <<fork, head, stored, receipts, filling, realtime>> /\ Free
              /\ \/ /\ walk.kind = "tick" /\ pc' = "anchor" /\ walk' = NoWalk /\ failed' = [failed EXCEPT !.pending = FALSE]
                    /\ UNCHANGED <<cursor, missing, latest, revert, tick>>
                 \/ revertTo("tick") \/ revertTo("start")
                 \/ realtime /\ walk.kind = "tick" /\ walk.deepest > 0 /\ TickRevertFails(from) /\ UNCHANGED <<cursor, missing>>
                 \/ /\ walk.kind = "jump" /\ pc' \in {"jump", "upto"} /\ walk' = NoWalk
                    /\ UNCHANGED <<cursor, missing, latest, revert, tick, failed>>
                 \/ walk.kind = "start" /\ StoredHeadChecked(cursor, walk.unserved) /\ UNCHANGED <<tick, failed>>
<1>1. walk.deepest \in Nat
  BY DEF HeadShape, LoopOK, Walks
<1> QED BY <1>1 DEF WalkEnd, nodeVars, otherVars

LEMMA WalkEndShape ==
    ASSUME HeadShape, WalkEnd
    PROVE  HeadShape'
<1> DEFINE from == walk.top + 1 - walk.deepest
<1>1. /\ pc = "walk" /\ UNCHANGED <<fork, head, stored, receipts, filling, realtime>> /\ Free /\ left \in [Budget -> Nat]
      /\ cursor \in 0..MaxBlock /\ latest \in 0..MaxBlock /\ revert = NoRevert /\ tick = NoTick
      /\ failed \in [from : 0..MaxBlock, pending : BOOLEAN] /\ failed.from = 0
      /\ stored \in [Block -> Hash \cup {None}]
  BY WalkEndIs DEF HeadShape, OuterOK, LoopOK, Resting, ModeShape
<1>2. Spent /\ stored' \in [Block -> Hash \cup {None}]
  BY <1>1, FreeIs
<1>3. CASE /\ pc' = "anchor" /\ walk' = NoWalk /\ failed' = [failed EXCEPT !.pending = FALSE]
           /\ UNCHANGED <<cursor, missing, latest, revert, tick>>
  <2>1. failed' \in [from : 0..MaxBlock, pending : BOOLEAN] /\ failed'.from = 0
    BY <1>1, <1>3
  <2>2. OuterOK' /\ ModeShape'
    BY <1>1, <1>2, <1>3, <2>1, Empties DEF HeadShape, OuterOK, ModeShape, Spent
  <2> QED BY <1>1, <1>3, <2>2, RestShape
<1>4. ASSUME NEW why \in {"tick", "start"}, pc' = "revert", walk.kind = why, walk.deepest > 0,
             revert' = [why |-> why, next |-> GetLatestBlockNumber, from |-> from],
             UNCHANGED <<missing, cursor, latest, walk, tick, failed>>
      PROVE  HeadShape'
  <2>1. from \in Block /\ from <= cursor
    BY <1>4, ForkIs
  <2> HIDE DEF from
  <2> QED BY <1>1, <1>2, <1>4, <2>1, BeginRevertShape
<1>5. CASE walk.deepest > 0 /\ TickRevertFails(from) /\ UNCHANGED <<cursor, missing>>
  <2>1. from \in Block
    BY <1>5, ForkIs
  <2> HIDE DEF from
  <2> QED BY <1>1, <1>2, <1>5, <2>1, TickRevertFailsShape
<1>6. CASE /\ walk.kind = "jump" /\ pc' \in {"jump", "upto"} /\ walk' = NoWalk
           /\ UNCHANGED <<cursor, missing, latest, revert, tick, failed>>
  <2>1. OuterOK' /\ ModeShape' /\ cursor' < latest'
    BY <1>1, <1>2, <1>6, Empties DEF HeadShape, OuterOK, ModeShape, WalkShape, Spent
  <2> QED BY <1>1, <1>6, <2>1, RestShape
<1>7. CASE StoredHeadChecked(cursor, walk.unserved) /\ UNCHANGED <<tick, failed>>
  BY <1>1, <1>2, <1>7, StoredHeadCheckedShape
<1> QED BY <1>3, <1>4, <1>5, <1>6, <1>7, WalkEndIs

LEMMA RevertFailsShape ==
    ASSUME HeadShape, pc = "revert", RevertFails, UNCHANGED <<fork, head, missing, realtime>>,
           stored' \in [Block -> Hash \cup {None}], Spent
    PROVE  HeadShape'
<1>1. revert.from \in Block /\ cursor \in 0..MaxBlock /\ failed.from = 0
  BY DEF HeadShape, RevertShape, LoopOK, ModeShape
<1>2. CASE TickRevertFails(revert.from) /\ UNCHANGED <<cursor, receipts, filling>>
  BY <1>1, <1>2, TickRevertFailsShape
<1>3. CASE EndTick /\ UNCHANGED <<cursor, receipts, failed, filling>>
  <2>1. OuterOK'
    BY <1>3 DEF HeadShape, OuterOK, Spent
  <2> QED BY <1>1, <1>3, <2>1, EndTickShape
<1>4. CASE Stopped
  BY <1>4, StoppedShape
<1> QED BY <1>2, <1>3, <1>4 DEF RevertFails

\* One block is deleted, or its delete fails, before or after it took effect.
LEMMA RevertBlockIs ==
    ASSUME HeadShape, RevertBlock
    PROVE  /\ pc = "revert" /\ UNCHANGED <<fork, head, missing, realtime>> /\ Spent
           /\ revert.next \in Block /\ revert.next >= revert.from
           /\ stored' \in [Block -> Hash \cup {None}]
           /\ stored' = [stored EXCEPT ![revert.next] = None] \/ stored' = stored
           /\ \/ /\ stored' = [stored EXCEPT ![revert.next] = None]
                 /\ revert' = [revert EXCEPT !.next = revert.next - 1]
                 /\ UNCHANGED <<pc, cursor, latest, walk, tick, receipts, failed, filling>>
              \/ RevertFails /\ (left["lost"] # 0 \/ left["errors"] # 0)
<1>1. /\ pc = "revert" /\ UNCHANGED <<fork, head, missing, realtime>> /\ left \in [Budget -> Nat]
      /\ revert \in Reverts /\ revert.from \in Block /\ revert.next >= revert.from /\ stored \in [Block -> Hash \cup {None}]
  BY DEF RevertBlock, nodeVars, HeadShape, OuterOK, LoopOK, RevertShape
<1>2. revert.next \in Block
  BY <1>1, Sizes DEF Block, Reverts
<1>3. Spent /\ (~Free => left["lost"] # 0 \/ left["errors"] # 0)
  BY <1>1, FreeIs, SpendIs DEF RevertBlock, Budget
<1>4. /\ stored' = [stored EXCEPT ![revert.next] = None] \/ stored' = stored
      /\ \/ /\ stored' = [stored EXCEPT ![revert.next] = None]
            /\ revert' = [revert EXCEPT !.next = revert.next - 1]
            /\ UNCHANGED <<pc, cursor, latest, walk, tick, receipts, failed, filling>>
         \/ RevertFails /\ (Spend("lost") \/ Spend("errors"))
  BY <1>1 DEF RevertBlock, Reverts
<1>5. Spend("lost") \/ Spend("errors") => left["lost"] # 0 \/ left["errors"] # 0
  BY <1>1, SpendIs DEF Budget
<1>6. stored' \in [Block -> Hash \cup {None}]
  BY <1>1, <1>2, <1>4
<1> QED BY <1>1, <1>2, <1>3, <1>4, <1>5, <1>6

LEMMA RevertBlockShape ==
    ASSUME HeadShape, RevertBlock
    PROVE  HeadShape'
<1>1. CASE /\ revert' = [revert EXCEPT !.next = revert.next - 1]
           /\ UNCHANGED <<pc, cursor, latest, walk, tick, receipts, failed, filling>>
  <2>1. revert \in Reverts /\ revert.next - 1 \in 0..MaxBlock
    BY RevertBlockIs, BlockIs, Sizes DEF HeadShape, LoopOK
  <2>2. revert' \in Reverts /\ revert'.why = revert.why /\ revert'.from = revert.from
    BY <1>1, <2>1 DEF Reverts
  <2>3. RevertShape'
    BY <1>1, <2>2 DEF HeadShape, RevertShape
  <2>4. OuterOK' /\ ModeShape' /\ tick' = NoTick
    BY <1>1, RevertBlockIs DEF HeadShape, OuterOK, ModeShape, Resting, Spent
  <2>5. /\ cursor' \in 0..MaxBlock /\ latest' \in 0..MaxBlock /\ walk' \in Walks /\ walk'.kind # "jump" /\ pc' = "revert"
        /\ walk'.deepest <= walk'.d /\ walk'.d <= walk'.top /\ walk'.top <= cursor'
    BY <1>1, RevertBlockIs DEF HeadShape, LoopOK, WalkShape
  <2> QED BY <2>2, <2>3, <2>4, <2>5, RevertingShape
<1>2. CASE RevertFails
  BY <1>2, RevertBlockIs, RevertFailsShape
<1> QED BY <1>1, <1>2, RevertBlockIs

LEMMA RevertDoneIs ==
    ASSUME HeadShape, RevertDone
    PROVE  /\ pc = "revert" /\ revert.next < revert.from /\ UNCHANGED <<fork, head, stored, receipts, filling, realtime, left>>
           /\ \/ /\ revert.why = "tick" /\ cursor' = revert.from - 1 /\ failed' = [failed EXCEPT !.pending = FALSE]
                 /\ UNCHANGED missing
                 /\ \/ realtime /\ EndTick
                    \/ ~realtime /\ pc' = "anchor" /\ walk' = NoWalk /\ revert' = NoRevert /\ UNCHANGED <<latest, tick>>
              \/ revert.why = "stale" /\ EndTick /\ UNCHANGED <<cursor, missing, failed>>
              \/ /\ revert.why = "start" /\ UNCHANGED <<tick, failed>>
                 /\ StoredHeadChecked(revert.from - 1, {n \in walk.unserved : n < revert.from})
              \/ revert.why = "above" /\ StartWalk(latest, latest) /\ UNCHANGED <<missing, tick, failed>>
BY DEF RevertDone, nodeVars, otherVars

LEMMA RevertDoneShape ==
    ASSUME HeadShape, RevertDone
    PROVE  HeadShape'
<1>1. /\ pc = "revert" /\ UNCHANGED <<fork, head, stored, receipts, filling, realtime, left>> /\ left \in [Budget -> Nat]
      /\ cursor \in 0..MaxBlock /\ latest \in 0..MaxBlock /\ tick = NoTick
      /\ failed \in [from : 0..MaxBlock, pending : BOOLEAN] /\ failed.from = 0 /\ revert.from \in Block
  BY RevertDoneIs DEF HeadShape, OuterOK, LoopOK, Resting, ModeShape, RevertShape
<1>2. Spent /\ revert.from - 1 \in 0..MaxBlock
  BY <1>1, FreeIs, BlockIs, Sizes DEF Free
<1>3. CASE /\ cursor' = revert.from - 1 /\ failed' = [failed EXCEPT !.pending = FALSE] /\ UNCHANGED missing
           /\ \/ EndTick
              \/ pc' = "anchor" /\ walk' = NoWalk /\ revert' = NoRevert /\ UNCHANGED <<latest, tick>>
  <2>1. failed' \in [from : 0..MaxBlock, pending : BOOLEAN] /\ failed'.from = 0
    BY <1>1, <1>3
  <2>2. OuterOK'
    BY <1>1, <1>2, <1>3, <2>1 DEF HeadShape, OuterOK, Spent
  <2>3. CASE EndTick
    BY <1>1, <1>2, <1>3, <2>1, <2>2, <2>3, EndTickShape
  <2>4. CASE pc' = "anchor" /\ walk' = NoWalk /\ revert' = NoRevert /\ UNCHANGED <<latest, tick>>
    <3>1. ModeShape'
      BY <1>1, <2>1, <2>4, Empties DEF HeadShape, ModeShape
    <3> QED BY <1>1, <1>2, <1>3, <2>2, <2>4, <3>1, RestShape
  <2> QED BY <1>3, <2>3, <2>4
<1>4. CASE EndTick /\ UNCHANGED <<cursor, missing, failed>>
  <2>1. OuterOK'
    BY <1>1, <1>4 DEF HeadShape, OuterOK
  <2> QED BY <1>1, <1>4, <2>1, EndTickShape
<1>5. CASE UNCHANGED <<tick, failed>> /\ StoredHeadChecked(revert.from - 1, {n \in walk.unserved : n < revert.from})
  BY <1>1, <1>2, <1>5, StoredHeadCheckedShape
<1>6. CASE StartWalk(latest, latest) /\ UNCHANGED <<missing, tick, failed>>
  BY <1>1, <1>2, <1>6, StartWalkShape
<1> QED BY <1>3, <1>4, <1>5, <1>6, RevertDoneIs
-----------------------------------------------------------------------------
(* The shape is kept by the blocks above the cursor *)

\* Where a tick starts: at a stored block, a remembered one, or, with nothing below, at the first.
LEMMA AnchorIs ==
    ASSUME HeadShape, NEW r \in Skips
    PROVE  LET a == AnchorAt(r)
           IN /\ a.from \in 0..MaxBlock /\ a.from <= cursor /\ a.hash \in Hash \cup {None} /\ a.remembered \in BOOLEAN
              /\ a.from > 0 /\ stored[a.from] # None => a.hash = stored[a.from]
              /\ ~realtime => /\ a.from = 0 \/ stored[a.from] # None \/ (cursor > 0 /\ r.skipped = cursor)
                              /\ \A n \in StoredAt : n <= cursor => n <= a.from
<1> DEFINE At(n, h, rem) == [from |-> n, hash |-> h, remembered |-> rem]
           below == HighestAtOrBelow(cursor)
<1>1. /\ cursor \in 0..MaxBlock /\ cursor \in Nat /\ stored \in [Block -> Hash \cup {None}] /\ realtime \in BOOLEAN
      /\ r.hash \in Hash \cup {None}
  BY Sizes DEF HeadShape, LoopOK, OuterOK, Skips
<1>2. cursor > 0 => cursor \in Block /\ stored[cursor] \in Hash \cup {None}
  BY <1>1, BlockIs
<1>3. /\ below \in 0..MaxBlock /\ below <= cursor /\ (below # 0 => below \in Block /\ stored[below] # None)
      /\ \A n \in StoredAt : n <= cursor => n <= below
  BY <1>1, HighestIs DEF StoredAt
<1>4. CASE cursor > 0 /\ stored[cursor] # None
  <2>1. AnchorAt(r) = At(cursor, stored[cursor], FALSE)
    BY <1>4 DEF AnchorAt
  <2> QED BY <1>1, <1>2, <1>4, <2>1
<1>5. CASE cursor > 0 /\ stored[cursor] = None /\ r.skipped = cursor /\ r.hash # None
  <2>1. AnchorAt(r) = At(cursor, r.hash, TRUE)
    BY <1>5 DEF AnchorAt
  <2> QED BY <1>1, <1>2, <1>5, <2>1
<1>6. CASE ~(cursor > 0 /\ stored[cursor] # None) /\ ~(cursor > 0 /\ stored[cursor] = None /\ r.skipped = cursor /\ r.hash # None)
  <2>1. AnchorAt(r) = IF realtime THEN At(cursor, None, FALSE)
                      ELSE IF below = 0 THEN At(0, None, FALSE) ELSE At(below, stored[below], FALSE)
    BY <1>6 DEF AnchorAt
  <2>2. CASE realtime
    <3>1. AnchorAt(r) = At(cursor, None, FALSE)
      BY <2>1, <2>2
    <3> QED BY <1>1, <1>2, <1>6, <2>2, <3>1
  <2>3. CASE ~realtime /\ below = 0
    <3>1. AnchorAt(r) = At(0, None, FALSE)
      BY <2>1, <2>3
    <3> HIDE DEF below
    <3> QED BY <1>1, <1>3, <2>3, <3>1, Sizes
  <2>4. CASE ~realtime /\ below # 0
    <3>1. AnchorAt(r) = At(below, stored[below], FALSE)
      BY <2>1, <2>4
    <3> HIDE DEF below
    <3> QED BY <1>1, <1>3, <2>4, <3>1
  <2> QED BY <2>2, <2>3, <2>4
<1> QED BY <1>4, <1>5, <1>6

LEMMA ForgetIs ==
    ASSUME NEW r \in Skips
    PROVE  Forget(r) \in Skips /\ Forget(r).skipped = 0
<1>1. 0 \in 0..MaxBlock /\ None \in Hash \cup {None}
  BY Sizes
<1>2. Forget(r) \in Skips
  BY <1>1 DEF Forget, Skips
<1>3. Forget(r).skipped = 0
  BY DEF Forget, Skips
<1> QED BY <1>2, <1>3

LEMMA AnchorStepIs ==
    ASSUME HeadShape, Anchor
    PROVE  /\ pc = "anchor" /\ UNCHANGED <<fork, head, stored, missing, failed, filling, realtime>> /\ Spent
           /\ receipts' \in Skips /\ receipts'.skipped \in {0, receipts.skipped}
           /\ LET a == AnchorAt(receipts')
              IN \/ cursor' = a.from /\ EndTick
                 \/ /\ cursor' = a.from /\ a.from < latest /\ pc' = "index" /\ UNCHANGED <<latest, walk, revert>>
                    /\ tick' = Ticking(a.from + 1, a.hash, a.remembered)
                 \/ UNCHANGED cursor /\ EndTick
<1> DEFINE r == IF receipts.skipped > cursor THEN Forget(receipts) ELSE receipts
<1>1. /\ pc = "anchor" /\ receipts' = r /\ UNCHANGED <<fork, head, stored, missing, failed, filling, realtime>>
      /\ left \in [Budget -> Nat] /\ receipts \in Skips /\ latest \in Nat
  BY Sizes DEF Anchor, nodeVars, dbVars, otherVars, HeadShape, OuterOK, LoopOK
<1>2. receipts' \in Skips /\ receipts'.skipped \in {0, receipts.skipped}
  BY <1>1, ForgetIs
<1>3. Spent
  BY <1>1, FreeIs, SpendIs DEF Anchor, Budget
<1>4. AnchorAt(receipts').from \in Nat
  BY <1>2, AnchorIs, Sizes
<1>5. LET a == AnchorAt(receipts')
      IN \/ cursor' = a.from /\ IF latest <= a.from THEN EndTick
                                ELSE /\ pc' = "index" /\ UNCHANGED <<latest, walk, revert>>
                                     /\ tick' = Ticking(a.from + 1, a.hash, a.remembered)
         \/ UNCHANGED cursor /\ EndTick
  <2>1. receipts' = r
    BY <1>1
  <2> QED BY <2>1 DEF Anchor
<1> QED BY <1>1, <1>2, <1>3, <1>4, <1>5

LEMMA AnchorShape ==
    ASSUME HeadShape, Anchor
    PROVE  HeadShape'
<1> DEFINE a == AnchorAt(receipts')
<1>1. /\ a.from \in 0..MaxBlock /\ a.from <= cursor /\ a.hash \in Hash \cup {None} /\ a.remembered \in BOOLEAN
  BY AnchorStepIs, AnchorIs
<1>2. /\ pc = "anchor" /\ OuterOK' /\ failed.from = 0 /\ failed' = failed /\ UNCHANGED <<filling, realtime>>
      /\ cursor \in 0..MaxBlock /\ latest \in 0..MaxBlock /\ walk = NoWalk /\ revert = NoRevert
  BY AnchorStepIs DEF HeadShape, OuterOK, LoopOK, Resting, ModeShape, Spent
<1> HIDE DEF a
<1>3. CASE cursor' \in {cursor, a.from} /\ EndTick
  BY <1>1, <1>2, <1>3, EndTickShape
<1>4. CASE /\ cursor' = a.from /\ a.from < latest /\ pc' = "index" /\ UNCHANGED <<latest, walk, revert>>
           /\ tick' = Ticking(a.from + 1, a.hash, a.remembered)
  <2>1. a.from + 1 \in 0..(MaxBlock + 1) /\ a.from + 1 <= latest + 1 /\ a.from \in Nat
    BY <1>1, <1>2, <1>4, Sizes
  <2>2. /\ tick' \in Ticks /\ tick'.next = a.from + 1 /\ tick'.queue = <<>> /\ Len(tick'.queue) = 0
        /\ \A m \in Block : tick'.slot[m] = Unread
    BY <1>1, <1>4, <2>1, BegunTick
  <2>3. QueueShape'
    <3>1. \A m \in Block : tick'.slot[m].err = "unread"
      BY <2>2, EmptyTick
    <3>2. tick'.next = cursor' + Len(tick'.queue) + 1 /\ 1..Len(tick'.queue) = {}
      BY <1>4, <2>1, <2>2
    <3> QED BY <1>4, <2>1, <2>2, <3>1, <3>2 DEF QueueShape
  <2>4. ModeShape'
    BY <1>2, <1>4, Empties DEF HeadShape, ModeShape
  <2>5. Len(tick'.queue) <= Depth
    BY <2>2, Sizes
  <2> QED BY <1>1, <1>2, <1>4, <2>2, <2>3, <2>4, <2>5, IndexingShape
<1> QED BY <1>3, <1>4, AnchorStepIs DEF a

\* A slot is filled with the node's block.
LEMMA FetchIs ==
    ASSUME HeadShape, NEW n \in Block, Fetch(n)
    PROVE  /\ pc = "index" /\ Spent
           /\ UNCHANGED <<fork, head, stored, missing, pc, cursor, latest, walk, revert, receipts, failed, filling, realtime>>
           /\ tick' \in Ticks /\ tick'.next = tick.next /\ tick'.queue = tick.queue /\ tick'.prev = tick.prev
           /\ \A m \in Block : m # n => tick'.slot[m] = tick.slot[m]
           /\ tick'.slot[n].err # "fail" => tick'.slot[n].hash # None
           /\ tick'.slot[n].err = "receipts" => left["receipts"] # 0
<1>1. /\ pc = "index" /\ left \in [Budget -> Nat] /\ fork \in Chains /\ tick \in Ticks /\ head \in Block
      /\ UNCHANGED <<fork, head, stored, missing, pc, cursor, latest, walk, revert, receipts, failed, filling, realtime>>
  BY DEF Fetch, nodeVars, dbVars, otherVars, HeadShape, OuterOK, LoopOK
<1>2. PICK b \in [hash : {None, fork[n]}, err : {"none", "receipts", "fail"}] :
        /\ b.err = "fail" <=> b.hash = None
        /\ n > head => b.err = "fail"
        /\ IF n > head \/ b.err = "none" THEN Free ELSE Spend(IF b.err = "fail" THEN "errors" ELSE "receipts")
        /\ tick' = [tick EXCEPT !.slot[n] = b]
  BY DEF Fetch
<1>3. b \in Slots
  BY <1>1, <1>2, ChainHash DEF Slots
<1>4. Spent /\ (b.err = "receipts" => left["receipts"] # 0)
  BY <1>1, <1>2, FreeIs, SpendIs DEF Budget
<1>5. /\ tick' \in Ticks /\ tick'.next = tick.next /\ tick'.queue = tick.queue /\ tick'.prev = tick.prev
      /\ tick'.slot = [tick.slot EXCEPT ![n] = b] /\ tick.slot \in [Block -> Slots]
  <2> HIDE DEF Slots
  <2>1. tick.slot \in [Block -> Slots]
    BY <1>1 DEF Ticks
  <2>2. [tick.slot EXCEPT ![n] = b] \in [Block -> Slots]
    BY <1>3, <2>1
  <2>3. tick' = [tick EXCEPT !.slot = [tick.slot EXCEPT ![n] = b]]
    BY <1>1, <1>2 DEF Ticks
  <2> QED BY <1>1, <2>1, <2>2, <2>3 DEF Ticks
<1>6. tick'.slot[n] = b /\ \A m \in Block : m # n => tick'.slot[m] = tick.slot[m]
  BY <1>5
<1> QED BY <1>1, <1>2, <1>4, <1>5, <1>6

LEMMA FetchShape ==
    ASSUME HeadShape, NEW n \in Block, Fetch(n)
    PROVE  HeadShape'
<1>1. OuterOK' /\ ModeShape' /\ cursor' \in 0..MaxBlock /\ latest' \in 0..MaxBlock /\ pc' = "index" /\ walk' = NoWalk /\ revert' = NoRevert
  BY FetchIs DEF HeadShape, OuterOK, ModeShape, LoopOK, Resting, Spent
<1>2. tick' \in Ticks /\ Len(tick'.queue) <= Depth
  BY FetchIs DEF HeadShape, LoopOK
<1>3. \A m \in Block : tick'.slot[m].err \in {"none", "receipts"} => tick'.slot[m].hash # None
  BY FetchIs DEF HeadShape, QueueShape
<1>4. QueueShape'
  BY <1>3, FetchIs DEF HeadShape, QueueShape
<1> QED BY <1>1, <1>2, <1>4, IndexingShape

\* A tick whose slots and queue stay, and whose loop will read no more of them.
LEMMA EndingIs ==
    ASSUME HeadShape, tick' = [tick EXCEPT !.ending = TRUE]
    PROVE  /\ tick' \in Ticks /\ tick'.next = tick.next /\ tick'.queue = tick.queue /\ tick'.prev = tick.prev
           /\ tick'.slot = tick.slot
BY DEF HeadShape, LoopOK, Ticks

LEMMA EndingShape ==
    ASSUME HeadShape, tick' = [tick EXCEPT !.ending = TRUE], pc = "index", receipts' \in Skips, Spent,
           UNCHANGED <<fork, head, stored, missing, pc, cursor, latest, walk, revert, failed, filling, realtime>>
    PROVE  HeadShape'
<1>1. OuterOK' /\ ModeShape' /\ cursor' \in 0..MaxBlock /\ latest' \in 0..MaxBlock /\ pc' = "index" /\ walk' = NoWalk /\ revert' = NoRevert
  BY DEF HeadShape, OuterOK, ModeShape, LoopOK, Resting, Spent
<1>2. tick' \in Ticks /\ Len(tick'.queue) <= Depth
  BY EndingIs DEF HeadShape, LoopOK
<1>3. QueueShape'
  BY EndingIs DEF HeadShape, QueueShape
<1> QED BY <1>1, <1>2, <1>3, IndexingShape

LEMMA ConsumeMismatchIs ==
    ASSUME HeadShape, ConsumeMismatch
    PROVE  /\ pc = "index" /\ tick' = [tick EXCEPT !.ending = TRUE] /\ Spent
           /\ receipts' \in Skips /\ receipts'.skipped \in {0, receipts.skipped}
           /\ UNCHANGED <<fork, head, stored, missing, pc, cursor, latest, walk, revert, failed, filling, realtime>>
<1>1. left \in [Budget -> Nat] /\ receipts \in Skips
  BY DEF HeadShape, OuterOK
<1>2. Spent
  BY <1>1, FreeIs, SpendIs DEF ConsumeMismatch, Budget
<1>3. receipts' = receipts \/ receipts' = Forget(receipts)
  BY DEF ConsumeMismatch
<1> QED BY <1>1, <1>2, <1>3, ForgetIs DEF ConsumeMismatch, Consuming, nodeVars, dbVars, otherVars

LEMMA ConsumeMismatchShape ==
    ASSUME HeadShape, ConsumeMismatch
    PROVE  HeadShape'
BY ConsumeMismatchIs, EndingShape

LEMMA ConsumeFailedIs ==
    ASSUME HeadShape, ConsumeFailed
    PROVE  /\ pc = "index" /\ tick' = [tick EXCEPT !.ending = TRUE] /\ Spent
           /\ UNCHANGED <<fork, head, stored, missing, pc, cursor, latest, walk, revert, receipts, failed, filling, realtime>>
<1>1. left \in [Budget -> Nat] /\ Free
  BY DEF HeadShape, OuterOK, ConsumeFailed, Free
<1> QED BY <1>1, FreeIs DEF ConsumeFailed, Consuming, nodeVars, dbVars, otherVars

LEMMA ConsumeFailedShape ==
    ASSUME HeadShape, ConsumeFailed
    PROVE  HeadShape'
<1>1. receipts' \in Skips
  BY ConsumeFailedIs DEF HeadShape, OuterOK
<1> QED BY <1>1, ConsumeFailedIs, EndingShape

LEMMA NextIs ==
    ASSUME HeadShape, Consuming
    PROVE  /\ pc = "index" /\ tick \in Ticks /\ tick.slot \in [Block -> Slots] /\ tick.queue \in Seq(Block \X Hash)
           /\ tick.next \in Block /\ tick.next = cursor + Len(tick.queue) + 1 /\ tick.next <= latest /\ cursor < tick.next
           /\ tick.next + 1 \in 0..(MaxBlock + 1) /\ NextSlot \in Slots
           /\ NextSlot.err \in {"none", "receipts"} => NextSlot.hash \in Hash
<1>1. /\ pc = "index" /\ tick.next <= latest /\ tick \in Ticks /\ cursor \in 0..MaxBlock /\ latest \in 0..MaxBlock
      /\ tick.next = cursor + Len(tick.queue) + 1
  BY DEF Consuming, HeadShape, LoopOK, QueueShape
<1>2. tick.slot \in [Block -> Slots] /\ tick.queue \in Seq(Block \X Hash)
  BY <1>1 DEF Ticks
<1>3. Len(tick.queue) \in Nat
  BY <1>2
<1>4. tick.next \in Block /\ cursor < tick.next /\ tick.next + 1 \in 0..(MaxBlock + 1)
  BY <1>1, <1>3, Sizes DEF Block
<1>5. NextSlot \in Slots
  <2> HIDE DEF Slots
  <2> QED BY <1>2, <1>4 DEF NextSlot
<1>6. NextSlot.err \in {"none", "receipts"} => NextSlot.hash # None
  BY <1>1, <1>4 DEF HeadShape, QueueShape, NextSlot
<1>7. NextSlot.hash \in Hash \cup {None}
  BY <1>5 DEF Slots
<1> QED BY <1>1, <1>2, <1>4, <1>5, <1>6, <1>7

\* The loop is past the next block, whose slot is free again.
Consumed(q) ==
    /\ tick' \in Ticks /\ tick'.next = tick.next + 1 /\ tick'.prev = NextSlot.hash /\ tick'.queue = q
    /\ tick'.slot[tick.next] = Unread /\ \A m \in Block : m # tick.next => tick'.slot[m] = tick.slot[m]

LEMMA ConsumedIs ==
    ASSUME HeadShape, Consuming, NextSlot.err \in {"none", "receipts"}, NEW q \in Seq(Block \X Hash),
           tick' = [tick EXCEPT !.next = tick.next + 1, !.prev = NextSlot.hash, !.remembered = FALSE,
                                !.slot = [tick.slot EXCEPT ![tick.next] = Unread], !.queue = q]
    PROVE  Consumed(q)
<1>1. Unread \in Slots
  BY DEF Unread, Slots
<1> HIDE DEF Slots
<1>2. [tick.slot EXCEPT ![tick.next] = Unread] \in [Block -> Slots]
  BY <1>1, NextIs
<1>3. NextSlot.hash \in Hash \cup {None} /\ tick \in Ticks /\ tick.next + 1 \in 0..(MaxBlock + 1)
  BY NextIs
<1>4. tick' \in Ticks
  BY <1>2, <1>3 DEF Ticks
<1>5. /\ tick'.next = tick.next + 1 /\ tick'.prev = NextSlot.hash /\ tick'.queue = q
      /\ tick'.slot = [tick.slot EXCEPT ![tick.next] = Unread]
  BY <1>3 DEF Ticks
<1>6. tick.next \in Block /\ tick.slot \in [Block -> Slots]
  BY NextIs
<1> QED BY <1>4, <1>5, <1>6 DEF Consumed

LEMMA ConsumedShape ==
    ASSUME HeadShape, Consuming, NEW q \in Seq(Block \X Hash), Consumed(q), Len(q) <= Depth, Spent, receipts' \in Skips,
           missing' \in SUBSET Block, cursor' \in 0..MaxBlock, tick.next = cursor' + Len(q),
           \A i \in 1..Len(q) : q[i][1] = cursor' + i,
           UNCHANGED <<fork, head, stored, pc, latest, walk, revert, failed, filling, realtime>>
    PROVE  HeadShape'
<1>1. /\ OuterOK' /\ ModeShape' /\ latest' \in 0..MaxBlock /\ pc' = "index" /\ walk' = NoWalk /\ revert' = NoRevert
      /\ tick' \in Ticks /\ Len(tick'.queue) <= Depth
  BY NextIs DEF HeadShape, OuterOK, ModeShape, LoopOK, Resting, Spent, Consumed
<1>2. tick'.next = cursor' + Len(tick'.queue) + 1 /\ tick'.next <= latest' + 1
  <2>1. Len(q) \in Nat /\ tick.next \in Nat /\ tick.next <= latest /\ latest \in Nat
    BY NextIs, BlockIs, Sizes DEF HeadShape, LoopOK
  <2> QED BY <2>1, Sizes DEF Consumed
<1>3. \A m \in Block : tick'.slot[m].err \in {"none", "receipts"} => tick'.slot[m].hash # None
  <2>1. Unread.err = "unread"
    BY EmptyTick
  <2>2. \A m \in Block : tick.slot[m].err \in {"none", "receipts"} => tick.slot[m].hash # None
    BY NextIs DEF HeadShape, QueueShape
  <2> QED BY <2>1, <2>2 DEF Consumed
<1>4. QueueShape'
  BY <1>2, <1>3 DEF QueueShape, Consumed
<1> QED BY <1>1, <1>4, IndexingShape

\* A block without receipts: an attempt is counted and the tick ends, or the block is recorded and passed.
LEMMA ConsumeWithoutReceiptsIs ==
    ASSUME HeadShape, ConsumeWithoutReceipts
    PROVE  /\ Consuming /\ Extends /\ NextSlot.err = "receipts" /\ tick.queue = <<>> /\ tick.next = cursor + 1
           /\ UNCHANGED <<fork, head, stored, failed, filling, realtime>> /\ Spent /\ receipts' \in Skips
           /\ \/ /\ EndTick /\ UNCHANGED cursor /\ receipts'.skipped = receipts.skipped
                 /\ missing' = missing \/ missing' = missing \cup {tick.next}
              \/ /\ missing' = missing \cup {tick.next} /\ cursor' = tick.next /\ receipts'.skipped = tick.next
                 /\ UNCHANGED <<pc, latest, walk, revert>> /\ Consumed(<<>>)
<1> DEFINE n == tick.next
           tries == IF receipts.block = n THEN receipts.attempts + 1 ELSE 1
           counted == [receipts EXCEPT !.block = n, !.attempts = Lower(tries, ReceiptAttempts)]
<1>1. /\ Consuming /\ Extends /\ NextSlot.err = "receipts" /\ tick.queue = <<>>
      /\ UNCHANGED <<fork, head, stored, failed, filling, realtime>>
      /\ left \in [Budget -> Nat] /\ receipts \in Skips
  BY DEF ConsumeWithoutReceipts, nodeVars, otherVars, HeadShape, OuterOK
<1>2. n \in Block /\ n \in 0..MaxBlock /\ tick.next = cursor + 1 /\ NextSlot.hash \in Hash
  <2>1. Len(tick.queue) = 0
    BY <1>1
  <2>2. n \in Block /\ n = cursor + Len(tick.queue) + 1 /\ NextSlot.hash \in Hash
    BY <1>1, NextIs
  <2>3. cursor \in 0..MaxBlock
    BY DEF HeadShape, LoopOK
  <2> QED BY <2>1, <2>2, <2>3, BlockIs, Sizes
<1>3. Spent
  BY <1>1, FreeIs, SpendIs DEF ConsumeWithoutReceipts, Budget
<1>4. counted \in Skips /\ counted.skipped = receipts.skipped
  <2>1. tries \in Nat
    BY <1>1, Sizes DEF Skips
  <2>2. Lower(tries, ReceiptAttempts) \in 0..ReceiptAttempts
    <3> HIDE DEF tries
    <3> QED BY <2>1, LowerIs, Sizes
  <2> HIDE DEF tries, n
  <2> QED BY <1>1, <1>2, <2>2 DEF Skips
<1>5. CASE receipts' = counted /\ EndTick /\ UNCHANGED cursor /\ (missing' = missing \/ missing' = missing \cup {n})
  BY <1>1, <1>2, <1>3, <1>4, <1>5
<1>6. CASE /\ missing' = missing \cup {n} /\ cursor' = n
           /\ receipts' = [block |-> n, attempts |-> 0, skipped |-> n, hash |-> NextSlot.hash, recorded |-> TRUE]
           /\ tick' = [tick EXCEPT !.next = n + 1, !.prev = NextSlot.hash, !.remembered = FALSE, !.slot[n] = Unread]
           /\ UNCHANGED <<pc, latest, walk, revert>>
  <2>1. receipts' \in Skips /\ receipts'.skipped = n
    BY <1>2, <1>6, Sizes DEF Skips
  <2>2. tick' = [tick EXCEPT !.next = tick.next + 1, !.prev = NextSlot.hash, !.remembered = FALSE,
                             !.slot = [tick.slot EXCEPT ![tick.next] = Unread], !.queue = <<>>]
    <3>1. tick \in Ticks
      BY DEF HeadShape, LoopOK
    <3> QED BY <1>1, <1>6, <3>1 DEF Ticks
  <2>3. <<>> \in Seq(Block \X Hash)
    OBVIOUS
  <2>4. Consumed(<<>>)
    BY <1>1, <2>2, <2>3, ConsumedIs
  <2> QED BY <1>1, <1>2, <1>3, <1>6, <2>1, <2>4
<1> QED BY <1>5, <1>6 DEF ConsumeWithoutReceipts

LEMMA ConsumeWithoutReceiptsShape ==
    ASSUME HeadShape, ConsumeWithoutReceipts
    PROVE  HeadShape'
<1>1. /\ Consuming /\ UNCHANGED <<fork, head, stored, failed, filling, realtime>> /\ Spent /\ receipts' \in Skips
      /\ tick.next \in Block /\ cursor \in 0..MaxBlock /\ failed.from = 0 /\ missing' \in SUBSET Block
  BY ConsumeWithoutReceiptsIs, NextIs DEF HeadShape, LoopOK, ModeShape, OuterOK
<1>2. CASE EndTick /\ UNCHANGED cursor
  <2>1. OuterOK'
    BY <1>1 DEF HeadShape, OuterOK, Spent
  <2> QED BY <1>1, <1>2, <2>1, EndTickShape
<1>3. CASE cursor' = tick.next /\ UNCHANGED <<pc, latest, walk, revert>> /\ Consumed(<<>>)
  <2> DEFINE q == <<>>
  <2>1. q \in Seq(Block \X Hash) /\ Len(q) = 0 /\ Len(q) <= Depth /\ \A i \in 1..Len(q) : q[i][1] = cursor' + i
    BY Sizes
  <2>2. cursor' \in 0..MaxBlock /\ tick.next = cursor' + Len(q)
    BY <1>1, <1>3, <2>1, BlockIs, Sizes
  <2>3. Consumed(q)
    BY <1>3
  <2> HIDE DEF q
  <2> QED BY <1>1, <1>3, <2>1, <2>2, <2>3, ConsumedShape
<1> QED BY <1>2, <1>3, ConsumeWithoutReceiptsIs

\* A block's transaction is opened behind the others.
LEMMA ConsumeBlockIs ==
    ASSUME HeadShape, ConsumeBlock
    PROVE  /\ Consuming /\ Extends /\ NextSlot.err = "none" /\ NextSlot.hash \in Hash
           /\ UNCHANGED <<fork, head, stored, missing, pc, cursor, latest, walk, revert, receipts, failed, filling, realtime, left>>
           /\ Consumed(Append(tick.queue, <<tick.next, NextSlot.hash>>)) /\ Len(tick.queue) < Depth
<1>1. /\ Consuming /\ Extends /\ NextSlot.err = "none" /\ Len(tick.queue) < Depth
      /\ UNCHANGED <<fork, head, stored, missing, pc, cursor, latest, walk, revert, receipts, failed, filling, realtime, left>>
      /\ tick' = [tick EXCEPT !.next = tick.next + 1, !.prev = NextSlot.hash, !.remembered = FALSE, !.slot[tick.next] = Unread,
                              !.queue = Append(@, <<tick.next, NextSlot.hash>>)]
  BY DEF ConsumeBlock, nodeVars, dbVars, otherVars
<1>2. tick \in Ticks /\ NextSlot.hash \in Hash /\ tick.next \in Block /\ tick.queue \in Seq(Block \X Hash)
  BY <1>1, NextIs
<1>3. tick' = [tick EXCEPT !.next = tick.next + 1, !.prev = NextSlot.hash, !.remembered = FALSE,
                           !.slot = [tick.slot EXCEPT ![tick.next] = Unread], !.queue = Append(tick.queue, <<tick.next, NextSlot.hash>>)]
  BY <1>1, <1>2 DEF Ticks
<1>4. Append(tick.queue, <<tick.next, NextSlot.hash>>) \in Seq(Block \X Hash)
  BY <1>2
<1> QED BY <1>1, <1>2, <1>3, <1>4, ConsumedIs

LEMMA AppendIs ==
    ASSUME NEW S, NEW q \in Seq(S), NEW e \in S
    PROVE  /\ Append(q, e) \in Seq(S) /\ Len(q) \in Nat /\ Len(Append(q, e)) = Len(q) + 1
           /\ Append(q, e)[Len(q) + 1] = e /\ \A i \in 1..Len(q) : Append(q, e)[i] = q[i]
OBVIOUS

LEMMA ConsumeBlockShape ==
    ASSUME HeadShape, ConsumeBlock
    PROVE  HeadShape'
<1> DEFINE e == <<tick.next, NextSlot.hash>>
           q == Append(tick.queue, e)
<1>1. /\ Consuming /\ Consumed(q) /\ Spent /\ receipts' \in Skips /\ missing' \in SUBSET Block /\ cursor' \in 0..MaxBlock /\ cursor' = cursor
      /\ UNCHANGED <<fork, head, stored, pc, latest, walk, revert, failed, filling, realtime>>
  BY ConsumeBlockIs, FreeIs DEF Free, HeadShape, OuterOK, LoopOK
<1>2. e \in Block \X Hash /\ tick.queue \in Seq(Block \X Hash) /\ tick.next = cursor + Len(tick.queue) + 1 /\ e[1] = tick.next
  BY ConsumeBlockIs, NextIs
<1>3. \A i \in 1..Len(tick.queue) : tick.queue[i][1] = cursor + i
  BY ConsumeBlockIs, NextIs DEF HeadShape, QueueShape
<1> HIDE DEF e
<1>4. /\ q \in Seq(Block \X Hash) /\ Len(tick.queue) \in Nat /\ Len(q) = Len(tick.queue) + 1
      /\ q[Len(tick.queue) + 1] = e /\ \A i \in 1..Len(tick.queue) : q[i] = tick.queue[i]
  BY <1>2, AppendIs
<1> HIDE DEF q
<1>5. Len(q) <= Depth /\ tick.next = cursor' + Len(q)
  <2>1. Len(tick.queue) < Depth /\ Depth \in Nat /\ cursor \in Nat
    BY ConsumeBlockIs, Sizes DEF HeadShape, LoopOK
  <2> QED BY <1>1, <1>2, <1>4, <2>1
<1>6. ASSUME NEW i \in 1..Len(q) PROVE q[i][1] = cursor' + i
  <2>1. CASE i = Len(tick.queue) + 1
    BY <1>1, <1>2, <1>4, <1>5, <2>1
  <2>2. CASE i # Len(tick.queue) + 1
    <3>1. i \in 1..Len(tick.queue)
      BY <1>4, <2>2
    <3> QED BY <1>1, <1>3, <1>4, <3>1
  <2> QED BY <2>1, <2>2
<1> QED BY <1>1, <1>4, <1>5, <1>6, ConsumedShape

LEMMA TailIs ==
    ASSUME NEW S, NEW q \in Seq(S), q # <<>>
    PROVE  /\ Head(q) \in S /\ Head(q) = q[1] /\ Tail(q) \in Seq(S) /\ Len(q) \in Nat /\ Len(q) >= 1
           /\ Len(Tail(q)) = Len(q) - 1 /\ \A i \in 1..Len(Tail(q)) : Tail(q)[i] = q[i + 1]
OBVIOUS

\* The oldest open block: committed; failed, stored or not; or held back by another block stored at its number.
LEMMA FinishOldestIs ==
    ASSUME HeadShape, FinishOldest
    PROVE  LET n == Head(tick.queue)[1]
               h == Head(tick.queue)[2]
           IN /\ pc = "index" /\ tick.queue # <<>> /\ n \in Block /\ h \in Hash /\ n = cursor + 1
              /\ UNCHANGED <<fork, head, missing, receipts, failed, filling, realtime>> /\ Spent
              /\ \/ /\ ~Differs(n, h) /\ stored' = [stored EXCEPT ![n] = h] /\ cursor' = n
                    /\ tick' = [tick EXCEPT !.queue = Tail(tick.queue)] /\ UNCHANGED <<pc, latest, walk, revert>>
                 \/ /\ ~Differs(n, h) /\ EndTick /\ UNCHANGED cursor
                    /\ \/ stored' = [stored EXCEPT ![n] = h] /\ left["lost"] # 0
                       \/ UNCHANGED stored /\ left["errors"] # 0
                 \/ /\ Differs(n, h) /\ UNCHANGED <<stored, cursor, latest, walk>> /\ pc' = "revert"
                    /\ revert' = [why |-> "stale", next |-> GetLatestBlockNumber, from |-> n] /\ tick' = NoTick
<1> DEFINE n == Head(tick.queue)[1]
           h == Head(tick.queue)[2]
<1>1. /\ pc = "index" /\ tick.queue # <<>> /\ UNCHANGED <<fork, head, missing, receipts, failed, filling, realtime>>
      /\ left \in [Budget -> Nat] /\ tick \in Ticks
  BY DEF FinishOldest, nodeVars, otherVars, HeadShape, OuterOK, LoopOK
<1>2. tick.queue \in Seq(Block \X Hash) /\ \A i \in 1..Len(tick.queue) : tick.queue[i][1] = cursor + i
  BY <1>1 DEF HeadShape, QueueShape, Ticks
<1>3. Head(tick.queue) \in Block \X Hash /\ Head(tick.queue) = tick.queue[1] /\ Len(tick.queue) \in Nat /\ Len(tick.queue) >= 1
  BY <1>1, <1>2, TailIs
<1>4. n \in Block /\ h \in Hash /\ n = cursor + 1
  BY <1>2, <1>3
<1>5. Spent
  BY <1>1, FreeIs, SpendIs DEF FinishOldest, Budget
<1>6. (Spend("lost") => left["lost"] # 0) /\ (Spend("errors") => left["errors"] # 0)
  BY <1>1, SpendIs DEF Budget
<1> QED BY <1>1, <1>4, <1>5, <1>6 DEF FinishOldest, Ticks

LEMMA FinishOldestShape ==
    ASSUME HeadShape, FinishOldest
    PROVE  HeadShape'
<1> DEFINE n == Head(tick.queue)[1]
           h == Head(tick.queue)[2]
<1>1. /\ pc = "index" /\ tick.queue # <<>> /\ n \in Block /\ h \in Hash /\ n = cursor + 1
      /\ UNCHANGED <<fork, head, missing, receipts, failed, filling, realtime>> /\ Spent
  BY FinishOldestIs
<1>2. /\ stored \in [Block -> Hash \cup {None}] /\ tick \in Ticks /\ cursor \in 0..MaxBlock /\ latest \in 0..MaxBlock
      /\ walk = NoWalk /\ revert = NoRevert /\ failed.from = 0
      /\ tick.queue \in Seq(Block \X Hash) /\ Len(tick.queue) <= Depth
      /\ tick.next = cursor + Len(tick.queue) + 1 /\ tick.next <= latest + 1
      /\ \A i \in 1..Len(tick.queue) : tick.queue[i][1] = cursor + i
      /\ \A m \in Block : tick.slot[m].err \in {"none", "receipts"} => tick.slot[m].hash # None
  BY <1>1 DEF HeadShape, LoopOK, Resting, QueueShape, ModeShape, OuterOK, Ticks
<1>3. stored' = stored \/ stored' = [stored EXCEPT ![n] = h]
  BY FinishOldestIs
<1> HIDE DEF n, h
<1>4. stored' \in [Block -> Hash \cup {None}]
  BY <1>1, <1>2, <1>3
<1>5. OuterOK'
  BY <1>1, <1>4 DEF HeadShape, OuterOK, Spent
<1>6. CASE cursor' = n /\ tick' = [tick EXCEPT !.queue = Tail(tick.queue)] /\ UNCHANGED <<pc, latest, walk, revert>>
  <2> DEFINE q == Tail(tick.queue)
  <2>1. /\ q \in Seq(Block \X Hash) /\ Len(tick.queue) \in Nat /\ Len(tick.queue) >= 1
        /\ Len(q) = Len(tick.queue) - 1 /\ \A i \in 1..Len(q) : q[i] = tick.queue[i + 1]
    BY <1>1, <1>2, TailIs
  <2>2. tick' = [tick EXCEPT !.queue = q]
    BY <1>6
  <2> HIDE DEF q
  <2>3. tick' \in Ticks /\ tick'.queue = q /\ tick'.next = tick.next /\ tick'.slot = tick.slot
    BY <1>2, <2>1, <2>2 DEF Ticks
  <2>4. cursor' \in 0..MaxBlock /\ Len(q) <= Depth /\ tick.next = cursor' + Len(q) + 1
    <3> DEFINE l == Len(tick.queue)
               k == Len(q)
    <3>1. n \in Nat /\ n <= MaxBlock /\ cursor' = n /\ n = cursor + 1 /\ cursor \in Nat
      BY <1>1, <1>2, <1>6, BlockIs, Sizes
    <3>2. l \in Nat /\ l >= 1 /\ k = l - 1 /\ l <= Depth /\ tick.next = cursor + l + 1
      BY <1>2, <2>1
    <3> HIDE DEF l, k
    <3>3. cursor' \in 0..MaxBlock /\ k <= Depth /\ tick.next = cursor' + k + 1
      BY <3>1, <3>2, Sizes
    <3> QED BY <3>3 DEF k
  <2>5. ASSUME NEW i \in 1..Len(q) PROVE q[i][1] = cursor' + i
    <3>1. i + 1 \in 1..Len(tick.queue) /\ q[i] = tick.queue[i + 1]
      BY <2>1
    <3>2. q[i][1] = cursor + (i + 1)
      BY <1>2, <3>1
    <3> QED BY <1>1, <1>2, <1>6, <3>2
  <2>6. QueueShape'
    BY <1>2, <1>6, <2>3, <2>4, <2>5 DEF QueueShape
  <2>7. ModeShape'
    BY <1>1, <1>6, <1>2 DEF HeadShape, ModeShape
  <2> QED BY <1>1, <1>2, <1>5, <1>6, <2>3, <2>4, <2>6, <2>7, IndexingShape
<1>7. CASE EndTick /\ UNCHANGED cursor
  BY <1>1, <1>2, <1>5, <1>7, EndTickShape
<1>8. CASE /\ UNCHANGED <<stored, cursor, latest, walk>> /\ pc' = "revert"
           /\ revert' = [why |-> "stale", next |-> GetLatestBlockNumber, from |-> n] /\ tick' = NoTick
  <2>1. revert' \in Reverts /\ revert'.why = "stale" /\ revert'.from = n
    <3>1. n \in 0..MaxBlock
      BY <1>1, BlockIs, Sizes
    <3> QED BY <1>8, <3>1, LatestIs DEF Reverts
  <2>2. RevertShape'
    BY <1>1, <1>2, <1>8, <2>1, Empties DEF RevertShape
  <2>3. ModeShape' /\ walk' \in Walks /\ walk'.kind # "jump"
    BY <1>1, <1>2, <1>8, Empties DEF HeadShape, ModeShape
  <2>4. walk'.deepest <= walk'.d /\ walk'.d <= walk'.top /\ walk'.top <= cursor'
    BY <1>2, <1>8, Empties
  <2> QED BY <1>2, <1>5, <1>8, <2>1, <2>2, <2>3, <2>4, RevertingShape
<1> QED BY <1>6, <1>7, <1>8, FinishOldestIs DEF n, h

LEMMA IndexEndIs ==
    ASSUME HeadShape, IndexEnd
    PROVE  /\ pc = "index" /\ EndTick /\ Spent
           /\ UNCHANGED <<fork, head, stored, missing, cursor, receipts, failed, filling, realtime, left>>
BY FreeIs DEF IndexEnd, nodeVars, dbVars, otherVars, Free, HeadShape, OuterOK

LEMMA IndexEndShape ==
    ASSUME HeadShape, IndexEnd
    PROVE  HeadShape'
<1>1. OuterOK' /\ cursor' \in 0..MaxBlock /\ failed'.from = 0
  BY IndexEndIs DEF HeadShape, OuterOK, LoopOK, ModeShape
<1> QED BY <1>1, IndexEndIs, EndTickShape
-----------------------------------------------------------------------------
(* The shape is kept by the retries, by catch-up, by the node and by stops *)

\* The loop stays where it is.
LEMMA LoopStaysShape ==
    ASSUME HeadShape, UNCHANGED <<loopVars, realtime>>, OuterOK',
           filling' # Idling => realtime /\ filling'.block \in Block /\ filling'.hash # None
    PROVE  HeadShape'
<1>1. UNCHANGED <<pc, cursor, latest, walk, revert, tick, receipts, failed, realtime>>
  BY DEF loopVars
<1>2. LoopOK' /\ Resting'
  BY <1>1 DEF HeadShape, LoopOK, Resting
<1>3. WalkShape' /\ RevertShape'
  BY <1>1 DEF HeadShape, WalkShape, RevertShape
<1>4. QueueShape'
  BY <1>1 DEF HeadShape, QueueShape
<1>5. ModeShape'
  BY <1>1 DEF HeadShape, ModeShape
<1> QED BY <1>2, <1>3, <1>4, <1>5 DEF HeadShape

\* A recorded block is found stored, or is written between the neighbours it links to.
LEMMA RetryMissingIs ==
    ASSUME HeadShape, NEW n \in Block, RetryMissing(n)
    PROVE  /\ pc = "retry" /\ n \in missing /\ n <= cursor /\ UNCHANGED <<fork, head, loopVars, filling, realtime>> /\ Spent
           /\ missing' = missing \/ missing' = missing \ {n}
           /\ \/ stored[n] # None /\ UNCHANGED stored
              \/ stored[n] = None /\ Fits(n, fork[n]) /\ stored' = [stored EXCEPT ![n] = fork[n]]
           /\ stored' \in [Block -> Hash \cup {None}] /\ fork[n] \in Hash /\ fork[n] # None
<1>1. left \in [Budget -> Nat] /\ fork \in Chains /\ stored \in [Block -> Hash \cup {None}]
  BY DEF HeadShape, OuterOK
<1>2. Spent
  BY <1>1, FreeIs, SpendIs DEF RetryMissing, Budget
<1>3. /\ pc = "retry" /\ n \in missing /\ n <= cursor /\ UNCHANGED <<fork, head, loopVars, filling, realtime>>
      /\ missing' = missing \/ missing' = missing \ {n}
      /\ \/ stored[n] # None /\ UNCHANGED stored
         \/ stored[n] = None /\ Fits(n, fork[n]) /\ stored' = [stored EXCEPT ![n] = fork[n]]
  BY DEF RetryMissing, nodeVars, otherVars
<1>4. fork[n] \in Hash /\ fork[n] # None
  BY <1>1, ChainHash
<1>5. stored' \in [Block -> Hash \cup {None}]
  BY <1>1, <1>3, <1>4
<1> QED BY <1>2, <1>3, <1>4, <1>5

LEMMA RetryMissingShape ==
    ASSUME HeadShape, NEW n \in Block, RetryMissing(n)
    PROVE  HeadShape'
<1>1. UNCHANGED <<receipts, failed>>
  BY RetryMissingIs DEF loopVars
<1>2. OuterOK'
  BY <1>1, RetryMissingIs DEF HeadShape, OuterOK, Spent
<1>3. filling' # Idling => realtime /\ filling'.block \in Block /\ filling'.hash # None
  BY RetryMissingIs DEF HeadShape, ModeShape
<1> QED BY <1>2, <1>3, RetryMissingIs, LoopStaysShape

LEMMA RetryEndIs ==
    ASSUME HeadShape, RetryEnd
    PROVE  /\ pc = "retry" /\ pc' = "idle" /\ receipts' \in Skips /\ receipts'.skipped = receipts.skipped
           /\ UNCHANGED <<fork, head, stored, missing, cursor, latest, walk, revert, tick, failed, filling, realtime, left>>
<1>1. receipts \in Skips
  BY DEF HeadShape, OuterOK
<1> QED BY <1>1 DEF RetryEnd, nodeVars, dbVars, otherVars, Skips

LEMMA RetryEndShape ==
    ASSUME HeadShape, RetryEnd
    PROVE  HeadShape'
<1>1. /\ OuterOK' /\ ModeShape' /\ cursor' \in 0..MaxBlock /\ latest' \in 0..MaxBlock
      /\ walk' = NoWalk /\ revert' = NoRevert /\ tick' = NoTick
  BY RetryEndIs DEF HeadShape, OuterOK, ModeShape, LoopOK, Resting
<1> QED BY <1>1, RetryEndIs, RestShape

LEMMA CatchupReadIs ==
    ASSUME HeadShape, NEW n \in Block, CatchupRead(n)
    PROVE  /\ realtime /\ filling' = [block |-> n, hash |-> fork[n]] /\ fork[n] \in Hash /\ fork[n] # None
           /\ left["catchups"] # 0 /\ Spent /\ UNCHANGED <<fork, head, stored, missing, loopVars, realtime>>
<1>1. left \in [Budget -> Nat] /\ fork \in Chains /\ Spend("catchups")
  BY DEF HeadShape, OuterOK, CatchupRead
<1>2. Spent /\ left["catchups"] # 0
  BY <1>1, SpendIs DEF Budget
<1> QED BY <1>1, <1>2, ChainHash DEF CatchupRead, nodeVars, dbVars

LEMMA CatchupReadShape ==
    ASSUME HeadShape, NEW n \in Block, CatchupRead(n)
    PROVE  HeadShape'
<1>1. filling'.block = n /\ filling'.hash = fork[n] /\ filling' \in [block : 0..MaxBlock, hash : Hash \cup {None}]
  BY CatchupReadIs, BlockIs, Sizes
<1>2. UNCHANGED <<receipts, failed>>
  BY CatchupReadIs DEF loopVars
<1>3. OuterOK'
  BY <1>1, <1>2, CatchupReadIs DEF HeadShape, OuterOK, Spent
<1> QED BY <1>1, <1>3, CatchupReadIs, LoopStaysShape

LEMMA CatchupWriteIs ==
    ASSUME HeadShape, CatchupWrite
    PROVE  /\ realtime /\ filling # Idling /\ filling' = Idling /\ filling.block \in Block /\ filling.hash # None
           /\ UNCHANGED <<fork, head, loopVars, realtime, left>> /\ stored' \in [Block -> Hash \cup {None}]
           /\ \/ UNCHANGED <<stored, missing>>
              \/ stored' = [stored EXCEPT ![filling.block] = filling.hash] /\ missing' = missing \ {filling.block}
<1>1. filling # Idling /\ filling \in [block : 0..MaxBlock, hash : Hash \cup {None}] /\ stored \in [Block -> Hash \cup {None}]
  BY DEF CatchupWrite, HeadShape, OuterOK
<1>2. realtime /\ filling.block \in Block /\ filling.hash # None
  BY <1>1 DEF HeadShape, ModeShape
<1>3. /\ filling' = Idling /\ UNCHANGED <<fork, head, loopVars, realtime, left>>
      /\ \/ UNCHANGED <<stored, missing>>
         \/ stored' = [stored EXCEPT ![filling.block] = filling.hash] /\ missing' = missing \ {filling.block}
  BY DEF CatchupWrite, nodeVars, dbVars
<1>4. stored' \in [Block -> Hash \cup {None}]
  BY <1>1, <1>2, <1>3
<1> QED BY <1>1, <1>2, <1>3, <1>4

LEMMA CatchupWriteShape ==
    ASSUME HeadShape, CatchupWrite
    PROVE  HeadShape'
<1>1. UNCHANGED <<receipts, failed>>
  BY CatchupWriteIs DEF loopVars
<1>2. missing' \in SUBSET Block
  BY CatchupWriteIs DEF HeadShape, OuterOK
<1>3. OuterOK'
  BY <1>1, <1>2, CatchupWriteIs, Empties DEF HeadShape, OuterOK
<1> QED BY <1>3, CatchupWriteIs, LoopStaysShape

LEMMA CrashIs ==
    ASSUME HeadShape, Crash
    PROVE  Stopped /\ UNCHANGED <<fork, head, stored, missing, realtime>> /\ Spent /\ left["crashes"] # 0
<1>1. left \in [Budget -> Nat] /\ Spend("crashes")
  BY DEF HeadShape, OuterOK, Crash
<1>2. Spent /\ left["crashes"] # 0
  BY <1>1, SpendIs DEF Budget
<1> QED BY <1>2 DEF Crash, nodeVars, dbVars

LEMMA CrashShape ==
    ASSUME HeadShape, Crash
    PROVE  HeadShape'
<1>1. stored' \in [Block -> Hash \cup {None}]
  BY CrashIs DEF HeadShape, OuterOK
<1> QED BY <1>1, CrashIs, StoppedShape

\* The node grows, or answers from another chain or height; or nothing happens.
NodeMoves == NodeAdvance \/ (\E c \in Chains, h \in Block : NodeSwitch(c, h)) \/ UNCHANGED vars

LEMMA NodeMovesIs ==
    ASSUME HeadShape, NodeMoves
    PROVE  /\ UNCHANGED <<stored, missing, loopVars, filling, realtime>> /\ Spent
           /\ fork' \in Chains /\ head' \in Block
<1>1. left \in [Budget -> Nat] /\ fork \in Chains /\ head \in Block
  BY DEF HeadShape, OuterOK
<1>2. CASE NodeAdvance
  <2>1. Free /\ head' = head + 1 /\ head < MaxBlock
    BY <1>2 DEF NodeAdvance, Free
  <2>2. head' \in Block
    BY <1>1, <2>1, Sizes DEF Block
  <2> QED BY <1>1, <1>2, <2>1, <2>2, FreeIs DEF NodeAdvance, dbVars, otherVars
<1>3. ASSUME NEW c \in Chains, NEW h \in Block, NodeSwitch(c, h)
      PROVE  /\ UNCHANGED <<stored, missing, loopVars, filling, realtime>> /\ Spent
             /\ fork' \in Chains /\ head' \in Block
  BY <1>1, <1>3, SpendIs DEF NodeSwitch, dbVars, otherVars, Budget
<1>4. CASE UNCHANGED vars
  BY <1>1, <1>4, FreeIs DEF vars, loopVars, Free
<1> QED BY <1>2, <1>3, <1>4 DEF NodeMoves

LEMMA NodeMovesShape ==
    ASSUME HeadShape, NodeMoves
    PROVE  HeadShape'
<1>1. UNCHANGED <<receipts, failed>>
  BY NodeMovesIs DEF loopVars
<1>2. OuterOK' /\ (filling' # Idling => realtime /\ filling'.block \in Block /\ filling'.hash # None)
  BY <1>1, NodeMovesIs DEF HeadShape, OuterOK, ModeShape, Spent
<1> QED BY <1>2, NodeMovesIs, LoopStaysShape

LEMMA InitShape ==
    ASSUME Init
    PROVE  HeadShape
<1>1. /\ stored = [n \in Block |-> None] /\ missing = {} /\ pc = "down" /\ cursor = 0 /\ latest = 0 /\ head = 1
      /\ walk = NoWalk /\ revert = NoRevert /\ tick = NoTick /\ receipts = NoSkip /\ failed = NotFailed
      /\ filling = Idling /\ fork \in Chains
  BY DEF Init
<1>2. realtime \in BOOLEAN /\ left \in [Budget -> Nat]
  BY HeadAssumption DEF Init
<1>3. OuterOK
  BY <1>1, <1>2, Empties, BlockIs, Sizes DEF OuterOK
<1>4. LoopOK /\ Resting
  BY <1>1, Sizes, Empties, EmptyTick DEF LoopOK, Resting
<1>5. WalkShape
  BY <1>1, Empties DEF WalkShape
<1>6. ModeShape
  BY <1>1, Empties DEF ModeShape
<1> QED BY <1>1, <1>3, <1>4, <1>5, <1>6 DEF HeadShape, RevertShape, QueueShape

\* The steps of the specification, one by one.
LEMMA NextIsOneOf ==
    ASSUME [Next]_vars
    PROVE  \/ Start \/ StartWait \/ StartRevertAbove \/ StandardTick \/ RealtimeTick \/ JumpIfFarBehind \/ IndexUpTo
           \/ WalkStep \/ WalkEnd \/ RevertBlock \/ RevertDone \/ Anchor \/ ConsumeMismatch \/ ConsumeFailed
           \/ ConsumeWithoutReceipts \/ ConsumeBlock \/ FinishOldest \/ IndexEnd \/ RetryEnd
           \/ (\E n \in Block : Fetch(n)) \/ (\E n \in Block : RetryMissing(n)) \/ (\E n \in Block : CatchupRead(n))
           \/ CatchupWrite \/ Crash \/ NodeMoves
BY DEF Next, Loop, NodeMoves

LEMMA ShapeKept ==
    ASSUME HeadShape, [Next]_vars
    PROVE  HeadShape'
BY NextIsOneOf, StartShape, StartWaitShape, StartRevertAboveShape, StandardTickShape, RealtimeTickShape, JumpShape,
   IndexUpToShape, WalkStepShape, WalkEndShape, RevertBlockShape, RevertDoneShape, AnchorShape, ConsumeMismatchShape,
   ConsumeFailedShape, ConsumeWithoutReceiptsShape, ConsumeBlockShape, FinishOldestShape, IndexEndShape, RetryEndShape,
   FetchShape, RetryMissingShape, CatchupReadShape, CatchupWriteShape, CrashShape, NodeMovesShape

LEMMA HeadShaped == Spec => []HeadShape
<1>1. Init => HeadShape
  BY InitShape
<1>2. HeadShape /\ [Next]_vars => HeadShape'
  BY ShapeKept
<1> QED BY <1>1, <1>2, PTL DEF Spec

(***************************************************************************)
(* Whatever the node, the database and the process do, in whichever order, *)
(* every variable keeps its type and at most Depth block transactions are  *)
(* open (the queue of indexPipelined, prefetch.go).                        *)
(***************************************************************************)
THEOREM HeadTyped == Spec => []TypeOK
<1>1. HeadShape => TypeOK
  BY DEF HeadShape, OuterOK, LoopOK, TypeOK
<1> QED BY <1>1, HeadShaped, PTL
-----------------------------------------------------------------------------
(* Standard mode: the stored blocks stay linked *)

LinkedUp == \A n \in Block : n > 1 /\ stored[n] # None /\ stored[n - 1] # None => Parent(n, stored[n]) = stored[n - 1]

\* The open transactions extend one another, the first of them the stored block under it.
Chained ==
    pc = "index" =>
        /\ \A i \in 2..Len(tick.queue) : Parent(tick.queue[i][1], tick.queue[i][2]) = tick.queue[i - 1][2]
        /\ tick.queue # <<>> => tick.prev = tick.queue[Len(tick.queue)][2]
        /\ cursor > 0 /\ stored[cursor] # None =>
               IF tick.queue = <<>> THEN tick.prev = stored[cursor]
               ELSE Parent(tick.queue[1][1], tick.queue[1][2]) = stored[cursor]

\* A revert has deleted everything above the block it is at.
TopDown == pc = "revert" => \A n \in Block : n > revert.next => stored[n] = None

\* No block was passed without its receipts: the stored blocks have no gap, and the loop goes on from a stored one.
Contiguous == \A n, m \in Block : m < n /\ stored[n] # None => stored[m] # None
Receipted == \A n \in Block : tick.slot[n].err # "receipts"
Unskipped ==
    /\ left["receipts"] = 0 /\ missing = {} /\ receipts.skipped = 0
    /\ Contiguous /\ Receipted
    /\ pc = "index" => cursor = 0 \/ stored[cursor] # None

\* Every commit's answer reached the loop, and no start went on without the stored head: nothing is stored above the cursor.
FirstStart ==
    /\ pc = "down" => StoredAt = {}
    /\ pc # "wait" /\ walk.kind # "start" /\ revert.why \notin {"start", "above"}
NoneAbove == pc # "down" => \A n \in StoredAt : n <= cursor
Acknowledged ==
    /\ left["lost"] = 0
    /\ left["errors"] = 0 \/ (left["crashes"] = 0 /\ FirstStart)
    /\ NoneAbove /\ revert.why # "stale"

LinkInv == ~realtime => LinkedUp /\ Chained /\ TopDown /\ (Unskipped \/ Acknowledged)

\* A step keeps the links, and what holds while no block is passed without its receipts.
LinkOn == LinkInv' /\ (~realtime /\ Unskipped => Unskipped')

LEMMA LinkKept ==
    ASSUME HeadShape, LinkInv, Spent, UNCHANGED realtime,
           ~realtime => LinkedUp' /\ Chained' /\ TopDown',
           ~realtime /\ Unskipped => /\ missing' = {} /\ receipts'.skipped = 0 /\ Contiguous' /\ Receipted'
                                     /\ (pc' = "index" => cursor' = 0 \/ stored'[cursor'] # None),
           ~realtime /\ Acknowledged => NoneAbove' /\ revert'.why # "stale" /\ (left["errors"] = 0 \/ FirstStart')
    PROVE  LinkOn
<1> SUFFICES ASSUME ~realtime PROVE LinkOn
  BY DEF LinkInv, LinkOn
<1>1. /\ \A k \in Budget : left'[k] <= left[k] /\ left'[k] \in Nat /\ left[k] \in Nat
      /\ "lost" \in Budget /\ "errors" \in Budget /\ "receipts" \in Budget /\ "crashes" \in Budget
  BY DEF HeadShape, OuterOK, Spent, Budget
<1>2. \A k \in Budget : left[k] = 0 => left'[k] = 0
  BY <1>1
<1>3. Unskipped => Unskipped'
  BY <1>1, <1>2 DEF Unskipped
<1>4. Acknowledged => Acknowledged'
  BY <1>1, <1>2 DEF Acknowledged
<1> QED BY <1>3, <1>4 DEF LinkInv, LinkOn

\* The loop is where no comparison, revert or tick is under way.
LEMMA LinkAtRest ==
    ASSUME HeadShape, HeadShape', LinkInv, Spent, UNCHANGED realtime, pc' \in {"idle", "jump", "upto", "anchor", "retry"},
           ~realtime => LinkedUp',
           ~realtime /\ Unskipped => missing' = missing /\ receipts'.skipped = receipts.skipped /\ Contiguous',
           ~realtime /\ Acknowledged => \A n \in StoredAt' : n <= cursor'
    PROVE  LinkOn
<1>2. walk' = NoWalk /\ revert' = NoRevert /\ tick' = NoTick
  BY DEF HeadShape, Resting
<1>3. walk'.kind = "none" /\ revert'.why = "none" /\ \A n \in Block : tick'.slot[n].err = "unread"
  BY <1>2, Empties, EmptyTick
<1>4. Receipted' /\ FirstStart' /\ Chained' /\ TopDown'
  BY <1>3 DEF Receipted, FirstStart, Chained, TopDown
<1>5. ~realtime /\ Unskipped => missing' = {} /\ receipts'.skipped = 0
  BY DEF Unskipped
<1>6. ~realtime /\ Acknowledged => NoneAbove'
  BY DEF NoneAbove
<1> QED BY <1>3, <1>4, <1>5, <1>6, LinkKept

LEMMA SameStored ==
    ASSUME UNCHANGED stored
    PROVE  (LinkedUp => LinkedUp') /\ (Contiguous => Contiguous') /\ StoredAt' = StoredAt
BY DEF LinkedUp, Contiguous, StoredAt

\* A tick ends, or goes on past its comparison, with nothing written.
LEMMA LinkQuiet ==
    ASSUME HeadShape, HeadShape', LinkInv, Spent, UNCHANGED <<realtime, stored>>,
           pc' \in {"idle", "jump", "upto", "anchor", "retry"},
           ~realtime /\ Unskipped => missing' = missing /\ receipts'.skipped \in {0, receipts.skipped},
           ~realtime /\ Acknowledged => \A n \in StoredAt : n <= cursor'
    PROVE  LinkOn
<1>1. ~realtime => LinkedUp'
  BY SameStored DEF LinkInv
<1>2. ~realtime /\ Unskipped => missing' = missing /\ receipts'.skipped = receipts.skipped /\ Contiguous'
  BY SameStored DEF Unskipped
<1>3. ~realtime /\ Acknowledged => \A n \in StoredAt' : n <= cursor'
  BY SameStored
<1> QED BY <1>1, <1>2, <1>3, LinkAtRest

LEMMA LinkStopped ==
    ASSUME HeadShape, LinkInv, Spent, UNCHANGED <<realtime, missing>>, Stopped,
           ~realtime => LinkedUp', ~realtime /\ Unskipped => Contiguous', ~realtime /\ Acknowledged => left["errors"] = 0
    PROVE  LinkOn
<1>1. pc' = "down" /\ tick' = NoTick /\ revert' = NoRevert /\ receipts' = NoSkip
  BY DEF Stopped
<1>2. Receipted' /\ Chained' /\ TopDown' /\ NoneAbove'
  BY <1>1, EmptyTick DEF Receipted, Chained, TopDown, NoneAbove
<1>3. receipts'.skipped = 0 /\ revert'.why = "none"
  BY <1>1, Empties DEF NoSkip
<1>4. ~realtime /\ Unskipped => missing' = {}
  BY DEF Unskipped
<1> QED BY <1>1, <1>2, <1>3, <1>4, LinkKept

\* Nothing changes that the links depend on.
LEMMA LinkSame ==
    ASSUME HeadShape, LinkInv, Spent, UNCHANGED <<realtime, stored, missing, loopVars>>
    PROVE  LinkOn
<1>1. UNCHANGED <<pc, cursor, walk, revert, tick, receipts>>
  BY DEF loopVars
<1>2. ~realtime => LinkedUp' /\ Chained' /\ TopDown'
  BY <1>1 DEF LinkInv, LinkedUp, Chained, TopDown
<1>3. Unskipped => Contiguous' /\ Receipted'
  BY <1>1 DEF Unskipped, Contiguous, Receipted
<1>4. Acknowledged => NoneAbove' /\ (left["errors"] = 0 \/ FirstStart')
  BY <1>1 DEF Acknowledged, NoneAbove, FirstStart, StoredAt
<1> QED BY <1>1, <1>2, <1>3, <1>4, LinkKept DEF Unskipped, Acknowledged

\* A comparison begins, goes on or is waited for.
LEMMA LinkWalking ==
    ASSUME HeadShape, HeadShape', LinkInv, Spent, UNCHANGED <<realtime, stored, missing>>, pc' \in {"walk", "wait"},
           receipts'.skipped = receipts.skipped,
           ~realtime /\ Acknowledged => (\A n \in StoredAt : n <= cursor') /\ (left["errors"] = 0 \/ FirstStart')
    PROVE  LinkOn
<1>1. ~realtime => LinkedUp' /\ Chained' /\ TopDown'
  BY SameStored DEF LinkInv, Chained, TopDown
<1>2. tick' = NoTick /\ revert' = NoRevert
  BY DEF HeadShape, Resting
<1>3. Receipted' /\ revert'.why # "stale"
  BY <1>2, EmptyTick, Empties DEF Receipted
<1>4. ~realtime /\ Unskipped => missing' = {} /\ receipts'.skipped = 0 /\ Contiguous'
  BY SameStored DEF Unskipped
<1>5. ~realtime /\ Acknowledged => NoneAbove'
  BY SameStored DEF NoneAbove
<1> QED BY <1>1, <1>3, <1>4, <1>5, LinkKept

\* A revert begins at the highest stored block.
LEMMA LinkReverting ==
    ASSUME HeadShape, HeadShape', LinkInv, Spent, UNCHANGED <<realtime, stored, missing, cursor, receipts>>, pc # "down",
           pc' = "revert", revert'.next = GetLatestBlockNumber,
           ~realtime /\ Acknowledged => revert'.why # "stale" /\ (left["errors"] = 0 \/ FirstStart')
    PROVE  LinkOn
<1>1. \A n \in Block : n > revert'.next => stored'[n] = None
  <2>1. GetLatestBlockNumber \in Nat /\ \A n \in StoredAt : n <= GetLatestBlockNumber
    BY LatestIs, Sizes
  <2> HIDE DEF GetLatestBlockNumber
  <2> QED BY <2>1, BlockIs DEF StoredAt
<1>2. ~realtime => LinkedUp' /\ Chained' /\ TopDown'
  BY <1>1, SameStored DEF LinkInv, Chained, TopDown
<1>3. tick' = NoTick
  BY DEF HeadShape, Resting
<1>4. Receipted'
  BY <1>3, EmptyTick DEF Receipted
<1>5. ~realtime /\ Unskipped => missing' = {} /\ receipts'.skipped = 0 /\ Contiguous'
  BY SameStored DEF Unskipped
<1>6. Acknowledged => NoneAbove'
  BY SameStored DEF NoneAbove, Acknowledged
<1> QED BY <1>2, <1>4, <1>5, <1>6, LinkKept

LEMMA LinkStart ==
    ASSUME HeadShape, HeadShape', LinkInv, Start
    PROVE  LinkOn
<1>1. /\ pc = "down" /\ UNCHANGED <<stored, tick, receipts, failed, filling, realtime>>
      /\ left \in [Budget -> Nat] /\ "errors" \in Budget
  BY DEF Start, nodeVars, otherVars, HeadShape, OuterOK, Budget
<1>2. CASE RunLoop(0, head) /\ ((GetLatestBlockNumber = 0 /\ Free) \/ Spend("errors"))
  <2>1. Spent
    BY <1>1, <1>2, FreeIs, SpendIs
  <2>2. pc' = "idle" /\ (~realtime => missing' = missing /\ cursor' = 0)
    BY <1>2 DEF RunLoop
  <2>3. GetLatestBlockNumber = 0 => StoredAt = {}
    BY LatestIs, BlockIs DEF StoredAt
  <2>4. Acknowledged => StoredAt = {}
    <3>1. left["errors"] # 0 /\ Acknowledged => StoredAt = {}
      BY <1>1 DEF Acknowledged, FirstStart
    <3> QED BY <1>1, <1>2, <2>3, <3>1, SpendIs
  <2> QED BY <1>1, <2>1, <2>2, <2>4, LinkQuiet
<1>3. CASE GetLatestBlockNumber > 0 /\ StartWalk(GetLatestBlockNumber, head) /\ UNCHANGED missing /\ Free
  <2>1. Spent /\ pc' = "walk" /\ cursor' = GetLatestBlockNumber
    BY <1>1, <1>3, FreeIs DEF StartWalk
  <2>2. \A n \in StoredAt : n <= cursor'
    BY <2>1, LatestIs
  <2>3. GetLatestBlockNumber # 0 /\ GetLatestBlockNumber \in StoredAt
    BY <1>3, LatestIs
  <2>4. Acknowledged => left["errors"] = 0
    BY <1>1, <2>3 DEF Acknowledged, FirstStart
  <2> QED BY <1>1, <1>3, <2>1, <2>2, <2>4, LinkWalking
<1> QED BY <1>2, <1>3 DEF Start

LEMMA LinkStartWait ==
    ASSUME HeadShape, HeadShape', LinkInv, StartWait
    PROVE  LinkOn
<1>1. pc = "wait" /\ UNCHANGED <<stored, missing, realtime, left>> /\ Spent
  BY FreeIs DEF StartWait, nodeVars, dbVars, HeadShape, OuterOK, Free
<1>2. Acknowledged => left["errors"] = 0 /\ \A n \in StoredAt : n <= cursor
  BY <1>1 DEF Acknowledged, FirstStart, NoneAbove
<1>3. CASE StartWalk(cursor, head) /\ UNCHANGED <<tick, receipts, failed, filling>>
  <2>1. pc' = "walk" /\ cursor' = cursor
    BY <1>3 DEF StartWalk
  <2> QED BY <1>1, <1>2, <1>3, <2>1, LinkWalking
<1>4. CASE Stopped
  <2>1. (~realtime => LinkedUp') /\ (~realtime /\ Unskipped => Contiguous')
    BY <1>1, SameStored DEF LinkInv, Unskipped
  <2> QED BY <1>1, <1>2, <1>4, <2>1, LinkStopped
<1> QED BY <1>3, <1>4 DEF StartWait

LEMMA LinkStartRevertAbove ==
    ASSUME HeadShape, HeadShape', LinkInv, StartRevertAbove
    PROVE  LinkOn
<1>1. /\ pc = "wait" /\ pc' = "revert" /\ Free /\ left \in [Budget -> Nat]
      /\ revert' = [why |-> "above", next |-> GetLatestBlockNumber, from |-> latest + 1]
      /\ UNCHANGED <<realtime, stored, missing, cursor, receipts>>
  BY DEF StartRevertAbove, nodeVars, dbVars, otherVars, Free, HeadShape, OuterOK
<1>2. revert'.next = GetLatestBlockNumber /\ revert'.why = "above"
  BY <1>1
<1>3. Acknowledged => left["errors"] = 0
  BY <1>1 DEF Acknowledged, FirstStart
<1> QED BY <1>1, <1>2, <1>3, FreeIs, LinkReverting

\* A tick's comparison is no start's.
LEMMA FirstStartTick ==
    ASSUME HeadShape', pc' = "walk", walk'.kind # "start"
    PROVE  FirstStart'
<1>1. revert' = NoRevert
  BY DEF HeadShape, Resting
<1> QED BY <1>1, Empties DEF FirstStart

LEMMA LinkStandardTick ==
    ASSUME HeadShape, HeadShape', LinkInv, StandardTick
    PROVE  LinkOn
<1>1. /\ pc = "idle" /\ BeginWalk("tick", cursor) /\ Free /\ left \in [Budget -> Nat] /\ cursor \in 0..MaxBlock
      /\ UNCHANGED <<stored, missing, cursor, receipts, realtime>>
  BY DEF StandardTick, nodeVars, dbVars, otherVars, Free, HeadShape, OuterOK, LoopOK
<1>2. Spent /\ (Acknowledged => \A n \in StoredAt : n <= cursor')
  BY <1>1, FreeIs DEF Acknowledged, NoneAbove
<1>3. CASE pc' = "walk" /\ walk' = Walking("tick", cursor)
  <2>1. walk'.kind = "tick"
    BY <1>3 DEF Walking
  <2> QED BY <1>1, <1>2, <1>3, <2>1, FirstStartTick, LinkWalking
<1>4. CASE pc' = "anchor"
  BY <1>1, <1>2, <1>4, LinkQuiet
<1> QED BY <1>1, <1>3, <1>4 DEF BeginWalk

\* Only realtime takes these steps.
LEMMA LinkRealtime ==
    ASSUME HeadShape, LinkInv,
           RealtimeTick \/ JumpIfFarBehind \/ IndexUpTo \/ CatchupWrite \/ \E n \in Block : CatchupRead(n)
    PROVE  LinkOn
<1>1. CASE RealtimeTick
  BY <1>1 DEF RealtimeTick, otherVars, LinkInv, LinkOn
<1>2. CASE JumpIfFarBehind
  BY <1>2 DEF JumpIfFarBehind, otherVars, LinkInv, LinkOn, HeadShape, ModeShape
<1>3. CASE IndexUpTo
  BY <1>3 DEF IndexUpTo, otherVars, LinkInv, LinkOn, HeadShape, ModeShape
<1>4. CASE CatchupWrite
  BY <1>4, CatchupWriteIs DEF LinkInv, LinkOn
<1>5. ASSUME NEW n \in Block, CatchupRead(n) PROVE LinkOn
  BY <1>5, CatchupReadIs DEF LinkInv, LinkOn
<1> QED BY <1>1, <1>2, <1>3, <1>4, <1>5

LEMMA LinkEndTick ==
    ASSUME HeadShape, HeadShape', LinkInv, Spent, EndTick, UNCHANGED <<realtime, stored>>, cursor' = cursor, pc # "down",
           ~realtime /\ Unskipped => missing' = missing /\ receipts'.skipped \in {0, receipts.skipped}
    PROVE  LinkOn
<1>1. pc' \in {"idle", "retry"}
  BY DEF EndTick
<1>2. Acknowledged => \A n \in StoredAt : n <= cursor'
  BY DEF Acknowledged, NoneAbove
<1> QED BY <1>1, <1>2, LinkQuiet

LEMMA LinkWalkFails ==
    ASSUME HeadShape, HeadShape', LinkInv, Spent, pc = "walk", WalkFails, UNCHANGED <<stored, missing, realtime>>
    PROVE  LinkOn
<1>1. CASE EndTick /\ UNCHANGED <<cursor, receipts, failed, filling>>
  BY <1>1, LinkEndTick
<1>2. CASE walk.kind = "jump" /\ pc' = "upto"
  BY <1>2 DEF LinkInv, LinkOn, HeadShape, ModeShape
<1>3. CASE walk.kind = "start" /\ Stopped
  <2>1. (~realtime => LinkedUp') /\ (~realtime /\ Unskipped => Contiguous')
    BY SameStored DEF LinkInv, Unskipped
  <2>2. Acknowledged => left["errors"] = 0
    BY <1>3 DEF Acknowledged, FirstStart
  <2> QED BY <1>3, <2>1, <2>2, LinkStopped
<1> QED BY <1>1, <1>2, <1>3 DEF WalkFails

LEMMA LinkWalkStep ==
    ASSUME HeadShape, HeadShape', LinkInv, WalkStep
    PROVE  LinkOn
<1>1. pc = "walk" /\ UNCHANGED <<stored, missing, realtime>> /\ Spent
  BY WalkStepIs
<1>2. CASE LoopStill /\ WalkMoved
  <2>1. pc' = "walk" /\ cursor' = cursor /\ receipts' = receipts /\ walk'.kind = walk.kind
    BY <1>1, <1>2 DEF LoopStill, WalkMoved
  <2>2. Acknowledged => (\A n \in StoredAt : n <= cursor') /\ (left["errors"] = 0 \/ walk.kind # "start")
    BY <1>1, <2>1 DEF Acknowledged, NoneAbove, FirstStart
  <2> QED BY <1>1, <2>1, <2>2, FirstStartTick, LinkWalking
<1>3. CASE WalkFails
  BY <1>1, <1>3, LinkWalkFails
<1>4. CASE walk.kind = "start" /\ Stopped
  <2>1. (~realtime => LinkedUp') /\ (~realtime /\ Unskipped => Contiguous')
    BY <1>1, SameStored DEF LinkInv, Unskipped
  <2>2. Acknowledged => left["errors"] = 0
    BY <1>4 DEF Acknowledged, FirstStart
  <2> QED BY <1>1, <1>4, <2>1, <2>2, LinkStopped
<1> QED BY <1>2, <1>3, <1>4, WalkStepIs

\* The start's comparison is over.
LEMMA LinkStoredHeadChecked ==
    ASSUME HeadShape, HeadShape', LinkInv, Spent, UNCHANGED <<stored, receipts, realtime>>, NEW last \in 0..MaxBlock, NEW u,
           StoredHeadChecked(last, u), ~realtime /\ Acknowledged => left["errors"] = 0 /\ \A n \in StoredAt : n <= last
    PROVE  LinkOn
<1>1. CASE RunLoop(last, latest)
  <2>1. pc' = "idle" /\ (~realtime => cursor' = last /\ missing' = missing)
    BY <1>1 DEF RunLoop
  <2> QED BY <2>1, LinkQuiet
<1>2. CASE pc' = "wait" /\ cursor' = last /\ UNCHANGED missing
  BY <1>2, LinkWalking
<1> QED BY <1>1, <1>2 DEF StoredHeadChecked

LEMMA LinkWalkEnd ==
    ASSUME HeadShape, HeadShape', LinkInv, WalkEnd
    PROVE  LinkOn
<1> DEFINE from == walk.top + 1 - walk.deepest
<1>1. /\ pc = "walk" /\ UNCHANGED <<stored, receipts, realtime>> /\ Spent /\ cursor \in 0..MaxBlock
      /\ (Acknowledged => (left["errors"] = 0 \/ walk.kind # "start") /\ (\A n \in StoredAt : n <= cursor))
  BY WalkEndIs, FreeIs DEF HeadShape, OuterOK, LoopOK, Acknowledged, FirstStart, NoneAbove
<1>2. CASE pc' \in {"anchor", "jump", "upto"} /\ UNCHANGED <<cursor, missing>>
  BY <1>1, <1>2, LinkQuiet
<1>3. ASSUME NEW why \in {"tick", "start"}, pc' = "revert", walk.kind = why,
             revert' = [why |-> why, next |-> GetLatestBlockNumber, from |-> from], UNCHANGED <<missing, cursor, walk>>
      PROVE  LinkOn
  <2>1. revert'.next = GetLatestBlockNumber /\ revert'.why = why
    BY <1>3
  <2>2. walk.kind # "start" => FirstStart'
    BY <1>3, <2>1 DEF FirstStart
  <2> QED BY <1>1, <1>3, <2>1, <2>2, LinkReverting
<1>4. CASE TickRevertFails(from) /\ UNCHANGED <<cursor, missing>>
  BY <1>1, <1>4, LinkEndTick DEF TickRevertFails
<1>5. CASE walk.kind = "start" /\ StoredHeadChecked(cursor, walk.unserved)
  BY <1>1, <1>5, LinkStoredHeadChecked
<1> QED BY <1>2, <1>3, <1>4, <1>5, WalkEndIs

\* The highest stored block goes: what is left is linked, and has no gap where there was none.
LEMMA DropTop ==
    ASSUME NEW m \in Block, stored \in [Block -> Hash \cup {None}], \A n \in Block : n > m => stored[n] = None,
           stored' = [stored EXCEPT ![m] = None] \/ stored' = stored
    PROVE  (LinkedUp => LinkedUp') /\ (Contiguous => Contiguous') /\ StoredAt' \subseteq StoredAt
<1>1. CASE stored' = stored
  BY <1>1, SameStored
<1>2. CASE stored' = [stored EXCEPT ![m] = None]
  <2>1. stored'[m] = None /\ \A n \in Block : n # m => stored'[n] = stored[n]
    BY <1>2
  <2>2. \A n \in Block : stored'[n] # None => stored'[n] = stored[n] /\ n # m /\ n - 1 # m /\ (n > 1 => n - 1 \in Block)
    <3>1. ASSUME NEW n \in Block, stored'[n] # None
          PROVE  stored'[n] = stored[n] /\ n # m /\ n - 1 # m /\ (n > 1 => n - 1 \in Block)
      <4>1. n # m /\ stored'[n] = stored[n] /\ ~(n > m)
        BY <2>1, <3>1
      <4>2. n - 1 # m /\ (n > 1 => n - 1 \in Block)
        BY <4>1, Sizes DEF Block
      <4> QED BY <4>1, <4>2
    <3> QED BY <3>1
  <2>3. LinkedUp => LinkedUp'
    <3>1. ASSUME LinkedUp, NEW n \in Block, n > 1, stored'[n] # None, stored'[n - 1] # None
          PROVE  Parent(n, stored'[n]) = stored'[n - 1]
      <4>1. stored'[n] = stored[n] /\ stored'[n - 1] = stored[n - 1]
        BY <2>1, <2>2, <3>1
      <4> QED BY <3>1, <4>1 DEF LinkedUp
    <3> QED BY <3>1 DEF LinkedUp
  <2>4. Contiguous => Contiguous'
    <3>1. ASSUME Contiguous, NEW n \in Block, NEW k \in Block, k < n, stored'[n] # None
          PROVE  stored'[k] # None
      <4>1. stored'[n] = stored[n] /\ n # m /\ ~(n > m)
        BY <2>1, <2>2, <3>1
      <4>2. k # m
        BY <3>1, <4>1, BlockIs
      <4> QED BY <2>1, <3>1, <4>1, <4>2 DEF Contiguous
    <3> QED BY <3>1 DEF Contiguous
  <2> QED BY <2>2, <2>3, <2>4 DEF StoredAt
<1> QED BY <1>1, <1>2

LEMMA LinkRevertBlock ==
    ASSUME HeadShape, HeadShape', LinkInv, RevertBlock
    PROVE  LinkOn
<1>1. CASE realtime
  BY <1>1, RevertBlockIs DEF LinkInv, LinkOn
<1> SUFFICES ASSUME ~realtime PROVE LinkOn
  BY <1>1 DEF HeadShape, OuterOK
<1>2. /\ pc = "revert" /\ UNCHANGED <<missing, realtime>> /\ Spent /\ revert.next \in Block /\ left \in [Budget -> Nat]
      /\ stored \in [Block -> Hash \cup {None}] /\ (stored' = [stored EXCEPT ![revert.next] = None] \/ stored' = stored)
  BY RevertBlockIs DEF HeadShape, OuterOK
<1>3. /\ LinkedUp' /\ (Contiguous => Contiguous') /\ StoredAt' \subseteq StoredAt
      /\ \A n \in Block : n > revert.next => stored[n] = None
  BY <1>2, DropTop DEF LinkInv, TopDown
<1>4. Acknowledged => revert.why # "stale" /\ (\A n \in StoredAt' : n <= cursor) /\ (left["errors"] = 0 \/ FirstStart)
  BY <1>2, <1>3 DEF Acknowledged, NoneAbove
<1>5. CASE /\ stored' = [stored EXCEPT ![revert.next] = None] /\ revert' = [revert EXCEPT !.next = revert.next - 1]
           /\ UNCHANGED <<pc, cursor, latest, walk, tick, receipts, failed, filling>>
  <2>1. revert'.next = revert.next - 1 /\ revert'.why = revert.why
    BY <1>5 DEF HeadShape, LoopOK, Reverts
  <2>2. ASSUME NEW n \in Block, n > revert'.next PROVE stored'[n] = None
    <3>1. n = revert.next \/ n > revert.next
      BY <1>2, <2>1, <2>2, BlockIs
    <3> QED BY <1>2, <1>3, <1>5, <3>1
  <2>3. TopDown' /\ Chained'
    BY <1>2, <1>5, <2>2 DEF TopDown, Chained
  <2>4. Unskipped => missing' = {} /\ receipts'.skipped = 0 /\ Contiguous' /\ Receipted'
    BY <1>2, <1>3, <1>5 DEF Unskipped, Receipted
  <2>5. Acknowledged => NoneAbove' /\ (left["errors"] = 0 \/ FirstStart')
    BY <1>2, <1>4, <1>5, <2>1 DEF NoneAbove, FirstStart
  <2> QED BY <1>2, <1>3, <1>4, <1>5, <2>1, <2>3, <2>4, <2>5, LinkKept
<1>6. CASE RevertFails /\ (left["lost"] # 0 \/ left["errors"] # 0)
  <2>1. CASE EndTick /\ UNCHANGED <<cursor, receipts>>
    <3>1. pc' = "retry"
      BY <2>1 DEF EndTick
    <3>2. Unskipped => missing' = missing /\ receipts'.skipped = receipts.skipped /\ Contiguous'
      BY <1>2, <1>3, <2>1 DEF Unskipped
    <3> QED BY <1>2, <1>3, <1>4, <2>1, <3>1, <3>2, LinkAtRest
  <2>2. CASE revert.why \in {"start", "above"} /\ Stopped
    <3>1. Acknowledged => left["errors"] = 0
      BY <2>2 DEF Acknowledged, FirstStart
    <3> QED BY <1>2, <1>3, <2>2, <3>1, LinkStopped DEF Unskipped
  <2> QED BY <1>6, <2>1, <2>2 DEF RevertFails, TickRevertFails
<1> QED BY <1>5, <1>6, RevertBlockIs

LEMMA LinkRevertDone ==
    ASSUME HeadShape, HeadShape', LinkInv, RevertDone
    PROVE  LinkOn
<1>1. CASE realtime
  BY <1>1, RevertDoneIs DEF LinkInv, LinkOn
<1> SUFFICES ASSUME ~realtime PROVE LinkOn
  BY <1>1 DEF HeadShape, OuterOK
<1>2. /\ pc = "revert" /\ revert.next < revert.from /\ UNCHANGED <<stored, receipts, realtime>> /\ Spent
      /\ revert.from \in Block /\ revert.next \in 0..MaxBlock /\ latest \in 0..MaxBlock
  BY RevertDoneIs, FreeIs DEF HeadShape, OuterOK, LoopOK, RevertShape, Reverts, Free
<1>3. \A n \in StoredAt : n <= revert.from - 1
  <2>1. ASSUME NEW n \in StoredAt PROVE n <= revert.from - 1
    <3>1. n \in Block /\ ~(n > revert.next)
      BY <1>2 DEF LinkInv, TopDown, StoredAt
    <3> QED BY <1>2, <3>1, BlockIs, Sizes
  <2> QED BY <2>1
<1>4. revert.from - 1 \in 0..MaxBlock
  BY <1>2, BlockIs, Sizes
<1>5. CASE revert.why = "tick" /\ cursor' = revert.from - 1 /\ UNCHANGED missing /\ pc' = "anchor"
  BY <1>2, <1>3, <1>5, LinkQuiet
<1>6. CASE revert.why = "stale" /\ EndTick /\ UNCHANGED <<cursor, missing, failed>>
  BY <1>2, <1>6, LinkEndTick
<1>7. CASE revert.why = "start" /\ StoredHeadChecked(revert.from - 1, {n \in walk.unserved : n < revert.from})
  <2>1. Acknowledged => left["errors"] = 0
    BY <1>7 DEF Acknowledged, FirstStart
  <2> QED BY <1>2, <1>3, <1>4, <1>7, <2>1, LinkStoredHeadChecked
<1>8. CASE revert.why = "above" /\ StartWalk(latest, latest) /\ UNCHANGED <<missing, tick, failed>>
  <2>1. Acknowledged => left["errors"] = 0
    BY <1>8 DEF Acknowledged, FirstStart
  <2>2. revert.from - 1 = latest /\ cursor' = latest /\ pc' = "walk"
    BY <1>2, <1>8 DEF HeadShape, RevertShape, StartWalk
  <2> QED BY <1>2, <1>3, <1>8, <2>1, <2>2, LinkWalking
<1> QED BY <1>5, <1>6, <1>7, <1>8, RevertDoneIs

LEMMA LinkAnchor ==
    ASSUME HeadShape, HeadShape', LinkInv, Anchor
    PROVE  LinkOn
<1> DEFINE a == AnchorAt(receipts')
<1>1. CASE realtime
  BY <1>1, AnchorStepIs DEF LinkInv, LinkOn
<1> SUFFICES ASSUME ~realtime PROVE LinkOn
  BY <1>1 DEF HeadShape, OuterOK
<1>2. /\ pc = "anchor" /\ UNCHANGED <<stored, missing, realtime>> /\ Spent
      /\ receipts' \in Skips /\ receipts'.skipped \in {0, receipts.skipped}
  BY AnchorStepIs
<1>3. /\ a.from \in 0..MaxBlock /\ a.from <= cursor /\ a.hash \in Hash \cup {None} /\ a.remembered \in BOOLEAN
      /\ (a.from > 0 /\ stored[a.from] # None => a.hash = stored[a.from])
      /\ (a.from = 0 \/ stored[a.from] # None \/ (cursor > 0 /\ receipts'.skipped = cursor))
      /\ \A n \in StoredAt : n <= cursor => n <= a.from
  BY <1>2, AnchorIs
<1>4. Acknowledged => \A n \in StoredAt : n <= cursor /\ n <= a.from
  BY <1>2, <1>3 DEF Acknowledged, NoneAbove
<1> HIDE DEF a
<1>5. CASE cursor' \in {cursor, a.from} /\ EndTick
  <2>1. pc' = "retry"
    BY <1>5 DEF EndTick
  <2> QED BY <1>2, <1>4, <1>5, <2>1, LinkQuiet
<1>6. CASE /\ cursor' = a.from /\ a.from < latest /\ pc' = "index"
           /\ tick' = Ticking(a.from + 1, a.hash, a.remembered)
  <2>1. a.from + 1 \in 0..(MaxBlock + 1)
    BY <1>3, Sizes
  <2>2. /\ tick'.prev = a.hash /\ tick'.queue = <<>> /\ Len(tick'.queue) = 0
        /\ \A m \in Block : tick'.slot[m].err = "unread"
    BY <1>3, <1>6, <2>1, BegunTick
  <2>3. LinkedUp' /\ Chained' /\ TopDown'
    <3>1. 2..Len(tick'.queue) = {}
      BY <2>2
    <3> QED BY <1>2, <1>3, <1>6, <2>2, <3>1, SameStored DEF LinkInv, Chained, TopDown
  <2>4. Unskipped => /\ missing' = {} /\ receipts'.skipped = 0 /\ Contiguous' /\ Receipted'
                     /\ (cursor' = 0 \/ stored'[cursor'] # None)
    <3>1. Unskipped => receipts'.skipped = 0
      BY <1>2 DEF Unskipped
    <3>2. Unskipped => cursor' = 0 \/ stored'[cursor'] # None
      BY <1>2, <1>3, <1>6, <3>1
    <3> QED BY <1>2, <2>2, <3>1, <3>2, SameStored DEF Unskipped, Receipted
  <2>5. walk' = NoWalk /\ revert' = NoRevert
    BY <1>6 DEF HeadShape, Resting
  <2>6. FirstStart' /\ revert'.why # "stale"
    BY <1>6, <2>5, Empties DEF FirstStart
  <2>7. Acknowledged => NoneAbove'
    BY <1>2, <1>4, <1>6, SameStored DEF NoneAbove
  <2> QED BY <1>2, <2>3, <2>4, <2>6, <2>7, LinkKept
<1> QED BY <1>5, <1>6, AnchorStepIs DEF a

\* A tick that reads and writes blocks is under way.
LEMMA LinkIndexing ==
    ASSUME HeadShape, HeadShape', LinkInv, Spent, pc' = "index", UNCHANGED realtime,
           ~realtime => LinkedUp' /\ Chained',
           ~realtime /\ Unskipped => /\ missing' = {} /\ receipts'.skipped = 0 /\ Contiguous' /\ Receipted'
                                     /\ (cursor' = 0 \/ stored'[cursor'] # None),
           ~realtime /\ Acknowledged => NoneAbove'
    PROVE  LinkOn
<1>1. walk' = NoWalk /\ revert' = NoRevert
  BY DEF HeadShape, Resting
<1>2. FirstStart' /\ revert'.why # "stale" /\ TopDown'
  BY <1>1, Empties DEF FirstStart, TopDown
<1> QED BY <1>2, LinkKept

LEMMA LinkSlots ==
    ASSUME HeadShape, HeadShape', LinkInv, Spent, pc = "index", UNCHANGED <<realtime, stored, missing, pc, cursor>>,
           receipts'.skipped \in {0, receipts.skipped}, tick'.queue = tick.queue, tick'.prev = tick.prev,
           ~realtime /\ Unskipped => Receipted'
    PROVE  LinkOn
<1>1. ~realtime => LinkedUp' /\ Chained'
  BY SameStored DEF LinkInv, Chained
<1>2. ~realtime /\ Unskipped => /\ missing' = {} /\ receipts'.skipped = 0 /\ Contiguous'
                                /\ (cursor' = 0 \/ stored'[cursor'] # None)
  BY SameStored DEF Unskipped
<1>3. Acknowledged => NoneAbove'
  BY SameStored DEF Acknowledged, NoneAbove
<1> QED BY <1>1, <1>2, <1>3, LinkIndexing

LEMMA LinkFetch ==
    ASSUME HeadShape, HeadShape', LinkInv, NEW n \in Block, Fetch(n)
    PROVE  LinkOn
<1>1. Unskipped => Receipted'
  BY FetchIs DEF Unskipped, Receipted
<1>2. receipts'.skipped \in {0, receipts.skipped}
  BY FetchIs
<1> QED BY <1>1, <1>2, FetchIs, LinkSlots

LEMMA LinkEnding ==
    ASSUME HeadShape, HeadShape', LinkInv, ConsumeMismatch \/ ConsumeFailed
    PROVE  LinkOn
<1>1. /\ pc = "index" /\ tick' = [tick EXCEPT !.ending = TRUE] /\ Spent /\ receipts'.skipped \in {0, receipts.skipped}
      /\ UNCHANGED <<realtime, stored, missing, pc, cursor>>
  BY ConsumeMismatchIs, ConsumeFailedIs
<1>2. Unskipped => Receipted'
  BY <1>1, EndingIs DEF Unskipped, Receipted
<1> QED BY <1>1, <1>2, EndingIs, LinkSlots

LEMMA LinkConsumeWithoutReceipts ==
    ASSUME HeadShape, HeadShape', LinkInv, ConsumeWithoutReceipts
    PROVE  LinkOn
<1>1. CASE realtime
  BY <1>1, ConsumeWithoutReceiptsIs DEF LinkInv, LinkOn
<1> SUFFICES ASSUME ~realtime PROVE LinkOn
  BY <1>1 DEF HeadShape, OuterOK
<1>2. /\ pc = "index" /\ UNCHANGED <<stored, realtime>> /\ Spent /\ tick.next \in Block /\ tick.next = cursor + 1
      /\ NextSlot.err = "receipts" /\ cursor \in 0..MaxBlock
  BY ConsumeWithoutReceiptsIs, NextIs DEF HeadShape, LoopOK
<1>3. ~Unskipped
  BY <1>2 DEF Unskipped, Receipted, NextSlot
<1>4. Acknowledged /\ \A n \in StoredAt : n <= cursor
  BY <1>2, <1>3 DEF LinkInv, Acknowledged, NoneAbove
<1>5. CASE EndTick /\ UNCHANGED cursor
  BY <1>2, <1>3, <1>5, LinkEndTick
<1>6. CASE cursor' = tick.next /\ UNCHANGED pc /\ Consumed(<<>>)
  <2>1. tick.next \notin StoredAt
    BY <1>2, <1>4, Sizes
  <2>2. tick'.queue = <<>> /\ Len(tick'.queue) = 0 /\ stored'[cursor'] = None
    BY <1>2, <1>6, <2>1 DEF Consumed, StoredAt
  <2>3. 2..Len(tick'.queue) = {}
    BY <2>2
  <2>4. LinkedUp' /\ Chained'
    BY <1>2, <1>6, <2>2, <2>3, SameStored DEF LinkInv, Chained
  <2>5. NoneAbove'
    <3>1. \A n \in StoredAt : n <= cursor'
      <4>1. ASSUME NEW n \in StoredAt PROVE n <= cursor'
        <5>1. n <= cursor /\ n \in Nat
          BY <1>4, BlockIs DEF StoredAt
        <5> QED BY <1>2, <1>6, <5>1
      <4> QED BY <4>1
    <3> QED BY <1>2, <3>1, SameStored DEF NoneAbove
  <2> QED BY <1>2, <1>3, <1>6, <2>4, <2>5, LinkIndexing
<1> QED BY <1>5, <1>6, ConsumeWithoutReceiptsIs

LEMMA LinkConsumeBlock ==
    ASSUME HeadShape, HeadShape', LinkInv, ConsumeBlock
    PROVE  LinkOn
<1> DEFINE e == <<tick.next, NextSlot.hash>>
           q == Append(tick.queue, e)
           l == Len(tick.queue)
<1>1. CASE realtime
  BY <1>1, ConsumeBlockIs DEF LinkInv, LinkOn
<1> SUFFICES ASSUME ~realtime PROVE LinkOn
  BY <1>1 DEF HeadShape, OuterOK
<1>2. /\ Consuming /\ Extends /\ NextSlot.hash \in Hash /\ Consumed(q) /\ Spent /\ pc = "index"
      /\ UNCHANGED <<stored, missing, pc, cursor, receipts, realtime>>
  BY ConsumeBlockIs, FreeIs, NextIs DEF Free, HeadShape, OuterOK
<1>3. /\ e \in Block \X Hash /\ tick.queue \in Seq(Block \X Hash) /\ tick.next = cursor + l + 1 /\ cursor \in 0..MaxBlock
      /\ e[1] = tick.next /\ e[2] = NextSlot.hash
  BY <1>2, NextIs DEF HeadShape, LoopOK
<1> HIDE DEF e
<1>4. /\ q \in Seq(Block \X Hash) /\ l \in Nat /\ Len(q) = l + 1
      /\ q[l + 1] = e /\ \A i \in 1..l : q[i] = tick.queue[i]
  BY <1>3, AppendIs
<1>5. (l = 0 <=> tick.queue = <<>>) /\ q # <<>>
  <2>1. Len(<<>>) = 0
    OBVIOUS
  <2>2. l = 0 => tick.queue = <<>>
    BY <1>3
  <2> QED BY <1>4, <2>1, <2>2
<1>6. tick'.queue = q /\ tick'.prev = e[2]
  BY <1>2, <1>3 DEF Consumed
<1>7. tick.prev # None => Parent(e[1], e[2]) = tick.prev
  BY <1>2, <1>3, HashSome DEF Extends
<1>8. /\ \A i \in 2..l : Parent(tick.queue[i][1], tick.queue[i][2]) = tick.queue[i - 1][2]
      /\ l # 0 => tick.prev = tick.queue[l][2]
      /\ cursor > 0 /\ stored[cursor] # None =>
               IF l = 0 THEN tick.prev = stored[cursor]
               ELSE Parent(tick.queue[1][1], tick.queue[1][2]) = stored[cursor]
  BY <1>2, <1>5 DEF LinkInv, Chained
<1> HIDE DEF q
<1>9. \A i \in 2..Len(q) : Parent(q[i][1], q[i][2]) = q[i - 1][2]
  <2>1. ASSUME NEW i \in 2..Len(q) PROVE Parent(q[i][1], q[i][2]) = q[i - 1][2]
    <3>1. CASE i = l + 1
      <4>1. l # 0 /\ l \in 1..l /\ i - 1 = l
        BY <1>4, <3>1
      <4>2. tick.prev = tick.queue[l][2] /\ q[i - 1] = tick.queue[l]
        BY <1>4, <1>8, <4>1
      <4>3. tick.queue[l] \in Block \X Hash
        BY <1>3, <4>1, ElementOfSeq
      <4>4. tick.prev # None
        BY <4>2, <4>3, HashSome
      <4> QED BY <1>4, <1>7, <3>1, <4>2, <4>4
    <3>2. CASE i # l + 1
      <4>1. i \in 2..l /\ i \in 1..l /\ i - 1 \in 1..l
        BY <1>4, <3>2
      <4>2. q[i] = tick.queue[i] /\ q[i - 1] = tick.queue[i - 1]
        BY <1>4, <4>1
      <4> QED BY <1>8, <4>1, <4>2
    <3> QED BY <3>1, <3>2
  <2> QED BY <2>1
<1>10. ASSUME cursor > 0, stored[cursor] # None PROVE Parent(q[1][1], q[1][2]) = stored[cursor]
  <2>1. CASE l = 0
    <3>1. q[1] = e
      BY <1>4, <2>1
    <3> QED BY <1>7, <1>8, <1>10, <2>1, <3>1
  <2>2. CASE l # 0
    <3>1. 1 \in 1..l
      BY <1>4, <2>2
    <3>2. q[1] = tick.queue[1]
      BY <1>4, <3>1
    <3> QED BY <1>8, <1>10, <2>2, <3>2
  <2> QED BY <2>1, <2>2
<1>11. Chained'
  <2>1. tick'.prev = q[Len(q)][2]
    BY <1>4, <1>6
  <2> QED BY <1>2, <1>5, <1>6, <1>9, <1>10, <2>1 DEF Chained
<1>12. LinkedUp'
  BY <1>2, SameStored DEF LinkInv
<1>13. Unskipped => missing' = {} /\ receipts'.skipped = 0 /\ Contiguous' /\ Receipted' /\ (cursor' = 0 \/ stored'[cursor'] # None)
  <2>1. Unskipped => Receipted'
    BY <1>2, EmptyTick DEF Unskipped, Receipted, Consumed
  <2> QED BY <1>2, <2>1, SameStored DEF Unskipped
<1>14. Acknowledged => NoneAbove'
  BY <1>2, SameStored DEF Acknowledged, NoneAbove
<1> QED BY <1>2, <1>11, <1>12, <1>13, <1>14, LinkIndexing

\* A block is written between neighbours it links to.
LEMMA WriteLinked ==
    ASSUME NEW n \in Block, NEW h \in Hash, stored \in [Block -> Hash \cup {None}], stored' = [stored EXCEPT ![n] = h], LinkedUp,
           n > 1 /\ stored[n - 1] # None => Parent(n, h) = stored[n - 1],
           n < MaxBlock /\ stored[n + 1] # None => Parent(n + 1, stored[n + 1]) = h
    PROVE  LinkedUp'
<1>1. stored'[n] = h /\ \A m \in Block : m # n => stored'[m] = stored[m]
  OBVIOUS
<1>2. ASSUME NEW m \in Block, m > 1, stored'[m] # None, stored'[m - 1] # None
      PROVE  Parent(m, stored'[m]) = stored'[m - 1]
  <2>1. m - 1 \in Block /\ m - 1 # m
    BY <1>2, Sizes DEF Block
  <2>2. CASE m = n
    <3>1. stored'[m - 1] = stored[m - 1]
      BY <1>1, <2>1, <2>2
    <3> QED BY <1>1, <1>2, <2>2, <3>1
  <2>3. CASE m - 1 = n
    <3>1. m = n + 1 /\ n < MaxBlock
      BY <2>1, <2>3, BlockIs, Sizes
    <3>2. stored'[m] = stored[n + 1]
      BY <1>1, <2>1, <2>3, <3>1
    <3> QED BY <1>1, <1>2, <2>3, <3>1, <3>2
  <2>4. CASE m # n /\ m - 1 # n
    BY <1>1, <1>2, <2>1, <2>4 DEF LinkedUp
  <2> QED BY <2>2, <2>3, <2>4
<1> QED BY <1>2 DEF LinkedUp

LEMMA LinkFinishOldest ==
    ASSUME HeadShape, HeadShape', LinkInv, FinishOldest
    PROVE  LinkOn
<1> DEFINE n == Head(tick.queue)[1]
           h == Head(tick.queue)[2]
           q == Tail(tick.queue)
           l == Len(tick.queue)
<1>1. CASE realtime
  BY <1>1, FinishOldestIs DEF LinkInv, LinkOn
<1> SUFFICES ASSUME ~realtime PROVE LinkOn
  BY <1>1 DEF HeadShape, OuterOK
<1>2. /\ pc = "index" /\ tick.queue # <<>> /\ n \in Block /\ h \in Hash /\ n = cursor + 1 /\ Spent
      /\ UNCHANGED <<missing, receipts, realtime>> /\ h # None
  BY FinishOldestIs, HashSome
<1>3. /\ tick.queue \in Seq(Block \X Hash) /\ stored \in [Block -> Hash \cup {None}] /\ cursor \in 0..MaxBlock
      /\ tick \in Ticks /\ left \in [Budget -> Nat] /\ LinkedUp
  BY DEF HeadShape, OuterOK, LoopOK, Ticks, LinkInv
<1>4. /\ Head(tick.queue) = tick.queue[1] /\ q \in Seq(Block \X Hash) /\ l \in Nat /\ l >= 1
      /\ Len(q) = l - 1 /\ \A i \in 1..Len(q) : q[i] = tick.queue[i + 1]
  BY <1>2, <1>3, TailIs
<1>5. /\ \A i \in 2..l : Parent(tick.queue[i][1], tick.queue[i][2]) = tick.queue[i - 1][2]
      /\ tick.prev = tick.queue[l][2]
      /\ cursor > 0 /\ stored[cursor] # None => Parent(n, h) = stored[cursor]
  BY <1>2, <1>4 DEF LinkInv, Chained
<1>6. Unskipped => Contiguous /\ (cursor = 0 \/ stored[cursor] # None)
  BY <1>2 DEF Unskipped
<1>7. Acknowledged => left["lost"] = 0 /\ (left["errors"] = 0 \/ FirstStart) /\ \A m \in StoredAt : m <= cursor
  BY <1>2 DEF Acknowledged, NoneAbove
<1>8. h = tick.queue[1][2]
  BY <1>4
<1> HIDE DEF n, h, q
<1>9. ASSUME ~Differs(n, h), stored' = [stored EXCEPT ![n] = h]
      PROVE  LinkedUp' /\ (Unskipped => Contiguous')
  <2>1. n > 1 => n - 1 = cursor /\ cursor > 0 /\ cursor \in Block
    BY <1>2, <1>3, Sizes DEF Block
  <2>2. ASSUME n < MaxBlock, stored[n + 1] # None PROVE Parent(n + 1, stored[n + 1]) = h
    <3>1. n + 1 \in Block /\ n + 1 > 1 /\ (n + 1) - 1 = n /\ ~(n + 1 <= cursor)
      BY <1>2, <1>3, <2>2, Sizes DEF Block
    <3>2. CASE stored[n] = h
      BY <1>2, <1>3, <2>2, <3>1, <3>2 DEF LinkedUp
    <3>3. CASE stored[n] = None
      <4>1. ~Contiguous
        BY <1>2, <1>3, <2>2, <3>1, <3>3, BlockIs DEF Contiguous
      <4>2. n + 1 \in StoredAt
        BY <2>2, <3>1 DEF StoredAt
      <4> QED BY <1>6, <1>7, <3>1, <4>1, <4>2 DEF LinkInv
    <3> QED BY <1>9, <3>2, <3>3 DEF Differs
  <2>3. LinkedUp'
    BY <1>2, <1>3, <1>5, <1>9, <2>1, <2>2, WriteLinked
  <2>4. ASSUME Unskipped, NEW m \in Block, NEW k \in Block, k < m, stored'[m] # None PROVE stored'[k] # None
    <3>1. stored'[n] = h /\ \A i \in Block : i # n => stored'[i] = stored[i]
      BY <1>2, <1>3, <1>9
    <3>2. CASE m = n
      <4>1. k \in Nat /\ 1 <= k /\ k < n /\ n = cursor + 1 /\ cursor \in Nat /\ cursor <= MaxBlock
        BY <1>2, <1>3, <2>4, <3>2, BlockIs, Sizes
      <4>2. k = cursor \/ k < cursor
        BY <4>1
      <4>3. k # n /\ cursor # 0 /\ 1 <= cursor
        BY <4>1
      <4>4. cursor \in Block
        BY <4>1, <4>3, BlockIs
      <4>5. stored[cursor] # None
        BY <1>6, <2>4, <4>3
      <4> QED BY <1>6, <2>4, <3>1, <4>2, <4>3, <4>5, <4>4 DEF Contiguous
    <3>3. CASE m # n
      <4>1. stored[k] # None
        BY <1>6, <2>4, <3>1, <3>3 DEF Contiguous
      <4> QED BY <1>2, <3>1, <4>1
    <3> QED BY <3>2, <3>3
  <2> QED BY <2>3, <2>4 DEF Contiguous
<1>10. ASSUME ~Differs(n, h), stored' = [stored EXCEPT ![n] = h], cursor' = n,
              tick' = [tick EXCEPT !.queue = q], UNCHANGED pc
       PROVE  Chained'
  <2>1. tick'.queue = q /\ tick'.prev = tick.prev /\ tick'.slot = tick.slot
    BY <1>3, <1>10 DEF Ticks
  <2>2. stored'[cursor'] = h
    BY <1>2, <1>3, <1>10
  <2>3. \A i \in 2..Len(q) : Parent(q[i][1], q[i][2]) = q[i - 1][2]
    <3>1. ASSUME NEW i \in 2..Len(q) PROVE Parent(q[i][1], q[i][2]) = q[i - 1][2]
      <4>1. i \in 1..Len(q) /\ i - 1 \in 1..Len(q) /\ i + 1 \in 2..l /\ (i - 1) + 1 = (i + 1) - 1
        BY <1>4
      <4>2. q[i] = tick.queue[i + 1] /\ q[i - 1] = tick.queue[(i + 1) - 1]
        BY <1>4, <4>1
      <4> QED BY <1>5, <4>1, <4>2
    <3> QED BY <3>1
  <2>4. CASE q = <<>>
    <3>1. l = 1
      <4>1. Len(<<>>) = 0
        OBVIOUS
      <4> QED BY <1>4, <2>4, <4>1
    <3>2. tick.prev = h
      BY <1>5, <1>8, <3>1
    <3> QED BY <2>1, <2>2, <2>3, <2>4, <3>2 DEF Chained
  <2>5. CASE q # <<>>
    <3>1. Len(q) >= 1 /\ Len(q) \in Nat
      BY <1>4, <2>5
    <3>2. 1 \in 1..Len(q) /\ 2 \in 2..l /\ Len(q) \in 1..Len(q) /\ Len(q) + 1 = l
      BY <1>4, <3>1
    <3>3. q[1] = tick.queue[2] /\ q[Len(q)] = tick.queue[l]
      BY <1>4, <3>2
    <3>4. Parent(tick.queue[2][1], tick.queue[2][2]) = tick.queue[1][2]
      BY <1>5, <3>2
    <3>5. Parent(q[1][1], q[1][2]) = h /\ tick.prev = q[Len(q)][2]
      BY <1>5, <1>8, <3>3, <3>4
    <3> QED BY <2>1, <2>2, <2>3, <2>5, <3>5 DEF Chained
  <2> QED BY <2>4, <2>5
<1>11. CASE /\ ~Differs(n, h) /\ stored' = [stored EXCEPT ![n] = h] /\ cursor' = n
            /\ tick' = [tick EXCEPT !.queue = q] /\ UNCHANGED <<pc, latest, walk, revert>>
  <2>1. LinkedUp' /\ Chained' /\ (Unskipped => Contiguous')
    BY <1>9, <1>10, <1>11
  <2>2. tick'.slot = tick.slot /\ stored'[cursor'] = h
    BY <1>2, <1>3, <1>11 DEF Ticks
  <2>3. Unskipped => missing' = {} /\ receipts'.skipped = 0 /\ Contiguous' /\ Receipted' /\ stored'[cursor'] # None
    BY <1>2, <2>1, <2>2 DEF Unskipped, Receipted
  <2>4. ASSUME Acknowledged PROVE NoneAbove'
    <3>1. ASSUME NEW m \in StoredAt' PROVE m <= cursor'
      <4>1. m \in Block /\ (m = n \/ m \in StoredAt)
        BY <1>2, <1>3, <1>11 DEF StoredAt
      <4>2. m = n \/ m <= cursor
        BY <1>7, <2>4, <4>1
      <4> QED BY <1>2, <1>3, <1>11, <4>1, <4>2, BlockIs
    <3> QED BY <3>1 DEF NoneAbove
  <2> QED BY <1>2, <1>11, <2>1, <2>3, <2>4, LinkIndexing
<1>12. CASE ~Differs(n, h) /\ EndTick /\ UNCHANGED cursor /\ stored' = [stored EXCEPT ![n] = h] /\ left["lost"] # 0
  <2>1. pc' = "retry" /\ LinkedUp' /\ (Unskipped => Contiguous') /\ ~Acknowledged
    BY <1>7, <1>9, <1>12 DEF EndTick
  <2> QED BY <1>2, <2>1, LinkAtRest
<1>13. CASE EndTick /\ UNCHANGED <<cursor, stored>>
  BY <1>2, <1>13, LinkEndTick
<1>14. CASE /\ Differs(n, h) /\ UNCHANGED <<stored, cursor, latest, walk>> /\ pc' = "revert"
            /\ revert' = [why |-> "stale", next |-> GetLatestBlockNumber, from |-> n] /\ tick' = NoTick
  <2>1. n \in StoredAt /\ ~(n <= cursor)
    BY <1>2, <1>3, <1>14, Sizes DEF Differs, StoredAt
  <2>2. ~Acknowledged
    BY <1>7, <2>1
  <2>3. revert'.next = GetLatestBlockNumber
    BY <1>14
  <2> QED BY <1>2, <1>14, <2>2, <2>3, LinkReverting
<1> QED BY <1>11, <1>12, <1>13, <1>14, FinishOldestIs DEF n, h, q

LEMMA LinkRetryMissing ==
    ASSUME HeadShape, HeadShape', LinkInv, NEW n \in Block, RetryMissing(n)
    PROVE  LinkOn
<1>1. CASE realtime
  BY <1>1, RetryMissingIs DEF LinkInv, LinkOn
<1> SUFFICES ASSUME ~realtime PROVE LinkOn
  BY <1>1 DEF HeadShape, OuterOK
<1>2. /\ pc = "retry" /\ pc' = pc /\ cursor' = cursor /\ receipts' = receipts /\ UNCHANGED realtime /\ n \in missing /\ n <= cursor
      /\ Spent /\ stored \in [Block -> Hash \cup {None}] /\ fork[n] \in Hash /\ fork[n] # None
  BY RetryMissingIs DEF loopVars, HeadShape, OuterOK
<1>3. ~Unskipped
  BY <1>2 DEF Unskipped
<1>4. LinkedUp /\ \A m \in StoredAt : m <= cursor
  BY <1>2, <1>3 DEF LinkInv, Acknowledged, NoneAbove
<1>5. CASE UNCHANGED stored
  BY <1>2, <1>3, <1>4, <1>5, LinkQuiet
<1>6. CASE stored[n] = None /\ Fits(n, fork[n]) /\ stored' = [stored EXCEPT ![n] = fork[n]]
  <2>1. LinkedUp'
    <3>1. n > 1 /\ stored[n - 1] # None => Parent(n, fork[n]) = stored[n - 1]
      BY <1>6 DEF Fits
    <3>2. n < MaxBlock /\ stored[n + 1] # None => Parent(n + 1, stored[n + 1]) = fork[n]
      BY <1>6 DEF Fits
    <3> QED BY <1>2, <1>4, <1>6, <3>1, <3>2, WriteLinked
  <2>2. \A m \in StoredAt' : m <= cursor'
    <3>1. ASSUME NEW m \in StoredAt' PROVE m = n \/ m \in StoredAt
      BY <1>2, <1>6 DEF StoredAt
    <3> QED BY <1>2, <1>4, <3>1
  <2> QED BY <1>2, <1>3, <2>1, <2>2, LinkAtRest
<1> QED BY <1>5, <1>6, RetryMissingIs

LEMMA LinkRetryEnd ==
    ASSUME HeadShape, HeadShape', LinkInv, RetryEnd
    PROVE  LinkOn
<1>1. pc = "retry" /\ pc' = "idle" /\ receipts'.skipped = receipts.skipped /\ UNCHANGED <<stored, missing, cursor, realtime>> /\ Spent
  BY RetryEndIs, FreeIs DEF Free, HeadShape, OuterOK
<1>2. Acknowledged => \A n \in StoredAt : n <= cursor'
  BY <1>1 DEF Acknowledged, NoneAbove
<1> QED BY <1>1, <1>2, LinkQuiet

LEMMA LinkCrash ==
    ASSUME HeadShape, HeadShape', LinkInv, Crash
    PROVE  LinkOn
<1>1. (~realtime => LinkedUp') /\ (~realtime /\ Unskipped => Contiguous')
  BY CrashIs, SameStored DEF LinkInv, Unskipped
<1>2. Acknowledged => left["errors"] = 0
  BY CrashIs DEF Acknowledged
<1> QED BY <1>1, <1>2, CrashIs, LinkStopped

LEMMA LinkIndexEnd ==
    ASSUME HeadShape, HeadShape', LinkInv, IndexEnd
    PROVE  LinkOn
BY IndexEndIs, LinkEndTick

LEMMA LinkNode ==
    ASSUME HeadShape, LinkInv, NodeMoves
    PROVE  LinkOn
BY NodeMovesIs, LinkSame

LEMMA LinkStep ==
    ASSUME HeadShape, HeadShape', LinkInv, [Next]_vars
    PROVE  LinkOn
BY NextIsOneOf, LinkStart, LinkStartWait, LinkStartRevertAbove, LinkStandardTick, LinkRealtime, LinkWalkStep, LinkWalkEnd,
   LinkRevertBlock, LinkRevertDone, LinkAnchor, LinkEnding, LinkConsumeWithoutReceipts, LinkConsumeBlock, LinkFinishOldest,
   LinkIndexEnd, LinkRetryEnd, LinkFetch, LinkRetryMissing, LinkCrash, LinkNode

\* Standard mode: receipts are only missing where every call's answer arrives, and calls fail only where the process does
\* not stop.
SkipsApart ==
    \A s \in Scenarios :
        \/ s.realtime \/ s.budget["receipts"] = 0
        \/ s.budget["lost"] = 0 /\ (s.budget["errors"] = 0 \/ s.budget["crashes"] = 0)

LEMMA LinkInit ==
    ASSUME Init, SkipsApart
    PROVE  LinkInv
<1>1. /\ stored = [n \in Block |-> None] /\ missing = {} /\ pc = "down" /\ cursor = 0
      /\ walk = NoWalk /\ revert = NoRevert /\ tick = NoTick /\ receipts = NoSkip
  BY DEF Init
<1>2. StoredAt = {} /\ LinkedUp /\ Contiguous
  BY <1>1 DEF StoredAt, LinkedUp, Contiguous
<1>3. Chained /\ TopDown /\ NoneAbove /\ Receipted
  BY <1>1, EmptyTick DEF Chained, TopDown, NoneAbove, Receipted
<1>4. FirstStart /\ revert.why # "stale" /\ receipts.skipped = 0
  BY <1>1, <1>2, Empties DEF FirstStart, NoSkip
<1>5. realtime \/ left["receipts"] = 0 \/ (left["lost"] = 0 /\ (left["errors"] = 0 \/ left["crashes"] = 0))
  <2>1. PICK s \in Scenarios : realtime = s.realtime /\ left = s.budget
    BY DEF Init
  <2> QED BY <2>1 DEF SkipsApart
<1> QED BY <1>1, <1>2, <1>3, <1>4, <1>5 DEF LinkInv, Unskipped, Acknowledged

(***************************************************************************)
(* "The committed blocks stay a prefix of the chain" (indexPipelined): in  *)
(* standard mode a stored block always extends the stored block below it,  *)
(* for every chain, window and depth, whatever the node does between the   *)
(* comparison, the reads ahead, the commits, the reverts and the retries,  *)
(* in every scenario in which a block is not passed without its receipts   *)
(* while another may be stored above the cursor.                           *)
(***************************************************************************)
THEOREM HeadLinked ==
    ASSUME SkipsApart
    PROVE  Spec => []Linked
<1>1. Init => HeadShape /\ LinkInv
  BY InitShape, LinkInit
<1>2. HeadShape /\ LinkInv /\ [Next]_vars => HeadShape' /\ LinkInv'
  BY ShapeKept, LinkStep DEF LinkOn
<1>3. LinkInv => Linked
  BY DEF LinkInv, LinkedUp, Linked
<1> QED BY <1>1, <1>2, <1>3, PTL DEF Spec
-----------------------------------------------------------------------------
(* No block below the cursor is lost *)

\* Every call's answer arrives and is a success; nothing but the loop writes.
Reliable == left["lost"] = 0 /\ left["errors"] = 0
Alone == left["catchups"] = 0 /\ filling = Idling

Covered(n) == stored[n] # None \/ n \in missing

\* Deleted by the revert under way; deleted by a revert that failed, with nothing stored above up to the cursor.
Owed(n) == pc = "revert" /\ n >= revert.from /\ n > revert.next
Undone(n) == failed.from # 0 /\ n >= failed.from /\ \A m \in n..cursor : stored[m] = None

\* Standard mode's start takes its cursor from the stored blocks, realtime's records what is not stored.
Running == IF realtime THEN LoopRuns ELSE pc # "down"
CursorCovered == Running => \A n \in 1..cursor : Covered(n) \/ Owed(n) \/ (realtime /\ Alone /\ Undone(n))
BelowStored == \A m \in StoredAt : \A n \in 1..(m - 1) : Covered(n)

HoleInv ==
    IF realtime THEN CursorCovered /\ (Reliable \/ (Alone /\ TopDown))
    ELSE Unskipped \/ (Reliable /\ BelowStored /\ CursorCovered)

\* HoleInv where it says something of the cursor.
Keeping == IF realtime THEN Reliable \/ (Alone /\ TopDown) ELSE Reliable /\ BelowStored /\ TopDown

\* A step keeps what the cursor has covered.
CoverOn == CursorCovered' /\ (~realtime => BelowStored') /\ (realtime /\ Alone /\ TopDown => TopDown')

LEMMA HoleKept ==
    ASSUME HeadShape, LinkInv, HoleInv, LinkOn, Spent, UNCHANGED realtime, Alone => filling' = Idling,
           CursorCovered /\ Keeping => CoverOn
    PROVE  HoleInv'
<1>1. /\ \A k \in Budget : left'[k] <= left[k] /\ left'[k] \in Nat /\ left[k] \in Nat
      /\ "lost" \in Budget /\ "errors" \in Budget /\ "catchups" \in Budget
  BY DEF HeadShape, OuterOK, Spent, Budget
<1>2. (Reliable => Reliable') /\ (Alone => Alone')
  BY <1>1 DEF Reliable, Alone
<1>3. CASE realtime
  <2>1. CursorCovered /\ Keeping
    BY <1>3 DEF HoleInv, Keeping
  <2> QED BY <1>2, <1>3, <2>1 DEF HoleInv, Keeping, CoverOn
<1>4. CASE ~realtime /\ Unskipped
  BY <1>4 DEF LinkOn, HoleInv
<1>5. CASE ~realtime /\ Reliable /\ BelowStored /\ CursorCovered
  <2>1. Keeping
    BY <1>5 DEF Keeping, LinkInv
  <2> QED BY <1>2, <1>5, <2>1 DEF HoleInv, CoverOn
<1> QED BY <1>3, <1>4, <1>5 DEF HoleInv, HeadShape, OuterOK

\* Where no revert is under way or unfinished, every block up to the cursor is covered.
AllCovered == \A n \in 1..cursor : Covered(n)

LEMMA PlainlyCovered ==
    ASSUME HeadShape, CursorCovered, Running, pc # "revert", failed.from = 0
    PROVE  AllCovered
BY DEF CursorCovered, Owed, Undone, AllCovered

LEMMA CoveredAll == AllCovered' => CursorCovered'
BY DEF AllCovered, CursorCovered

\* Nothing deleted, the cursor no higher, and no failed revert forgotten.
LEMMA CoverKept ==
    ASSUME HeadShape, CursorCovered, Running' => Running, pc # "revert", cursor' \in 0..MaxBlock, cursor' <= cursor,
           UNCHANGED realtime, Spent, Alone => filling' = Idling,
           \A n \in Block : Covered(n) => Covered(n)',
           failed.from # 0 /\ Alone => failed'.from = failed.from /\ cursor' = cursor /\ stored' = stored
    PROVE  CursorCovered'
<1> SUFFICES ASSUME Running', NEW n \in 1..cursor'
             PROVE  Covered(n)' \/ (realtime' /\ Alone' /\ Undone(n)')
  BY DEF CursorCovered
<1>1. n \in 1..cursor /\ n \in Block
  <2>1. cursor \in 0..MaxBlock
    BY DEF HeadShape, LoopOK
  <2> QED BY <2>1, Sizes DEF Block
<1>2. Covered(n) \/ (realtime /\ Alone /\ Undone(n))
  BY <1>1 DEF CursorCovered, Owed
<1>3. Alone => Alone'
  BY DEF Alone, Spent, HeadShape, OuterOK, Budget
<1>4. Alone /\ Undone(n) => Undone(n)'
  BY DEF Undone
<1> QED BY <1>1, <1>2, <1>3, <1>4

\* The stored blocks stay, and a revert, if one begins, begins at the highest of them.
LEMMA CoverNow ==
    ASSUME HeadShape, Keeping, CursorCovered', UNCHANGED <<realtime, stored>>, missing \subseteq missing',
           pc' = "revert" => revert'.next = GetLatestBlockNumber
    PROVE  CoverOn
<1>1. StoredAt' = StoredAt /\ StoredAt \subseteq Block /\ \A n \in Block : Covered(n) => Covered(n)'
  BY SameStored DEF StoredAt, Covered
<1>2. ~realtime => BelowStored'
  <2>1. ASSUME BelowStored PROVE BelowStored'
    <3>1. ASSUME NEW m \in StoredAt, NEW n \in 1..(m - 1) PROVE Covered(n)'
      <4>1. n \in Block
        BY <1>1, <3>1, Sizes DEF Block
      <4> QED BY <1>1, <2>1, <3>1, <4>1 DEF BelowStored
    <3> QED BY <1>1, <3>1 DEF BelowStored
  <2> QED BY <2>1 DEF Keeping
<1>3. TopDown'
  <2>1. GetLatestBlockNumber \in Nat /\ \A n \in StoredAt : n <= GetLatestBlockNumber
    BY LatestIs, Sizes
  <2> HIDE DEF GetLatestBlockNumber
  <2> QED BY <1>1, <2>1, BlockIs DEF TopDown, StoredAt
<1> QED BY <1>2, <1>3 DEF CoverOn

\* A step that deletes and writes nothing, outside a revert.
LEMMA CoverQuiet ==
    ASSUME HeadShape, CursorCovered, Keeping, Running' => Running, pc # "revert",
           cursor' \in 0..MaxBlock, cursor' <= cursor, UNCHANGED <<realtime, stored>>, Spent, missing \subseteq missing',
           Alone => filling' = Idling, failed.from # 0 => failed'.from = failed.from /\ cursor' = cursor,
           pc' = "revert" => revert'.next = GetLatestBlockNumber
    PROVE  CoverOn
<1>1. \A n \in Block : Covered(n) => Covered(n)'
  BY DEF Covered
<1>2. CursorCovered'
  BY <1>1, CoverKept
<1> QED BY <1>2, CoverNow

\* Where the loop runs.
LEMMA RunningIs ==
    ASSUME HeadShape
    PROVE  /\ pc \notin {"down", "wait", "walk", "revert"} => Running
           /\ pc = "walk" /\ walk.kind # "start" => Running
           /\ pc = "revert" /\ revert.why \in {"tick", "stale"} => Running
           /\ pc # "down" /\ ~realtime => Running
           /\ Running => pc # "down"
<1>1. NoWalk.kind = "none" /\ NoRevert.why = "none"
  BY Empties
<1> QED BY <1>1 DEF Running, LoopRuns, HeadShape, Resting, RevertShape

LEMMA CoverStopped ==
    ASSUME HeadShape, Keeping, Stopped, UNCHANGED <<realtime, stored, missing>>
    PROVE  CoverOn
<1>1. pc' = "down"
  BY DEF Stopped
<1>2. CursorCovered'
  BY <1>1 DEF CursorCovered, Running, LoopRuns
<1> QED BY <1>1, <1>2, CoverNow

\* The loop starts: standard mode where everything is covered, realtime at the node's head, with what is not stored recorded.
LEMMA CoverRunLoop ==
    ASSUME HeadShape, Keeping, NEW last \in 0..MaxBlock, NEW top \in 0..MaxBlock, RunLoop(last, top),
           UNCHANGED <<realtime, stored>>, ~realtime => \A n \in 1..last : Covered(n)
    PROVE  CoverOn
<1>1. /\ pc' = "idle" /\ missing \subseteq missing' /\ cursor' = (IF realtime THEN top ELSE last)
      /\ realtime => \A n \in 1..top : stored[n] # None \/ n \in missing'
  BY DEF RunLoop
<1>2. AllCovered'
  BY <1>1 DEF AllCovered, Covered
<1> QED BY <1>1, <1>2, CoveredAll, CoverNow

LEMMA CoverStartWalk ==
    ASSUME HeadShape, Keeping, NEW last \in 0..MaxBlock, NEW top, StartWalk(last, top),
           UNCHANGED <<realtime, stored, missing>>, ~realtime => \A n \in 1..last : Covered(n)
    PROVE  CoverOn
<1>1. pc' = "walk" /\ cursor' = last /\ walk'.kind = "start"
  BY DEF StartWalk, Walking
<1>2. CursorCovered'
  BY <1>1 DEF CursorCovered, Running, LoopRuns, Covered
<1> QED BY <1>1, <1>2, CoverNow

LEMMA HoleStart ==
    ASSUME HeadShape, LinkInv, HoleInv, LinkOn, Start
    PROVE  HoleInv'
<1>1. /\ pc = "down" /\ UNCHANGED <<stored, tick, receipts, failed, filling, realtime>> /\ head \in 0..MaxBlock
      /\ left \in [Budget -> Nat] /\ "errors" \in Budget
  BY BlockIs, Sizes DEF Start, nodeVars, otherVars, HeadShape, OuterOK, Budget
<1>2. CASE RunLoop(0, head) /\ (Free \/ Spend("errors"))
  <2>1. Spent
    BY <1>1, <1>2, FreeIs, SpendIs
  <2>2. 0 \in 0..MaxBlock /\ 1..0 = {}
    BY Sizes
  <2>3. Keeping => CoverOn
    BY <1>1, <1>2, <2>2, CoverRunLoop
  <2> QED BY <1>1, <2>1, <2>3, HoleKept DEF Alone
<1>3. CASE StartWalk(GetLatestBlockNumber, head) /\ UNCHANGED missing /\ Free
  <2> DEFINE g == GetLatestBlockNumber
  <2>1. Spent /\ g \in 0..MaxBlock /\ (g # 0 => g \in StoredAt)
    BY <1>1, <1>3, FreeIs, LatestIs
  <2> HIDE DEF g
  <2>2. ASSUME BelowStored, NEW n \in 1..g PROVE Covered(n)
    <3>1. g # 0 /\ g \in StoredAt /\ (n = g \/ n \in 1..(g - 1))
      BY <2>1
    <3> QED BY <2>2, <3>1 DEF BelowStored, Covered, StoredAt
  <2>3. Keeping => CoverOn
    BY <1>1, <1>3, <2>1, <2>2, CoverStartWalk DEF Keeping, g
  <2> QED BY <1>1, <2>1, <2>3, HoleKept DEF Alone
<1> QED BY <1>2, <1>3 DEF Start

LEMMA HoleStartWait ==
    ASSUME HeadShape, LinkInv, HoleInv, LinkOn, StartWait
    PROVE  HoleInv'
<1>1. pc = "wait" /\ UNCHANGED <<stored, missing, realtime>> /\ Spent /\ cursor \in 0..MaxBlock /\ failed.from = 0
  BY FreeIs DEF StartWait, nodeVars, dbVars, HeadShape, OuterOK, LoopOK, ModeShape, Free
<1>2. CASE StartWalk(cursor, head) /\ UNCHANGED <<tick, receipts, failed, filling>>
  <2>1. CursorCovered /\ ~realtime => \A n \in 1..cursor : Covered(n)
    BY <1>1, RunningIs, PlainlyCovered DEF AllCovered
  <2>2. CursorCovered /\ Keeping => CoverOn
    BY <1>1, <1>2, <2>1, CoverStartWalk
  <2> QED BY <1>1, <1>2, <2>2, HoleKept DEF Alone
<1>3. CASE Stopped
  <2>1. filling' = Idling
    BY <1>3 DEF Stopped
  <2> QED BY <1>1, <1>3, <2>1, CoverStopped, HoleKept
<1> QED BY <1>2, <1>3 DEF StartWait

LEMMA HoleStartRevertAbove ==
    ASSUME HeadShape, LinkInv, HoleInv, LinkOn, StartRevertAbove
    PROVE  HoleInv'
<1>1. /\ pc = "wait" /\ pc' = "revert" /\ Free /\ left \in [Budget -> Nat] /\ cursor \in 0..MaxBlock /\ failed.from = 0
      /\ revert' = [why |-> "above", next |-> GetLatestBlockNumber, from |-> latest + 1]
      /\ UNCHANGED <<realtime, stored, missing, cursor, filling, failed>>
  BY DEF StartRevertAbove, nodeVars, dbVars, otherVars, Free, HeadShape, OuterOK, LoopOK, ModeShape
<1>2. revert'.next = GetLatestBlockNumber /\ revert'.why = "above" /\ cursor' <= cursor
  BY <1>1
<1>3. Running' => Running
  <2>1. ~LoopRuns'
    BY <1>1, <1>2 DEF LoopRuns
  <2>2. realtime' = realtime /\ pc # "down"
    BY <1>1
  <2> QED BY <2>1, <2>2 DEF Running
<1>4. CursorCovered /\ Keeping => CoverOn
  BY <1>1, <1>2, <1>3, FreeIs, CoverQuiet DEF Alone
<1> QED BY <1>1, <1>4, FreeIs, HoleKept DEF Alone

\* A step outside a revert that deletes and writes nothing and leaves the cursor where it is.
LEMMA HoleQuiet ==
    ASSUME HeadShape, LinkInv, HoleInv, LinkOn, Spent, UNCHANGED <<realtime, stored, filling, cursor>>, missing \subseteq missing',
           pc # "revert", Running' => Running, failed.from # 0 => failed'.from = failed.from,
           pc' = "revert" => revert'.next = GetLatestBlockNumber
    PROVE  HoleInv'
<1>1. cursor' \in 0..MaxBlock /\ cursor' <= cursor
  BY Sizes DEF HeadShape, LoopOK
<1>2. CursorCovered /\ Keeping => CoverOn
  BY <1>1, CoverQuiet DEF Alone
<1> QED BY <1>2, HoleKept DEF Alone

LEMMA HoleTick ==
    ASSUME HeadShape, LinkInv, HoleInv, LinkOn, StandardTick \/ RealtimeTick
    PROVE  HoleInv'
<1>1. pc = "idle" /\ UNCHANGED <<stored, missing, cursor, failed, filling, realtime, left>> /\ left \in [Budget -> Nat]
  BY DEF StandardTick, RealtimeTick, nodeVars, dbVars, otherVars, HeadShape, OuterOK
<1>2. pc' # "revert"
  BY DEF StandardTick, RealtimeTick, BeginWalk
<1> QED BY <1>1, <1>2, RunningIs, FreeIs, HoleQuiet DEF Free

LEMMA HoleJump ==
    ASSUME HeadShape, LinkInv, HoleInv, LinkOn, JumpIfFarBehind
    PROVE  HoleInv'
<1>1. /\ pc = "jump" /\ pc' = "upto" /\ left \in [Budget -> Nat] /\ UNCHANGED <<stored, failed, filling, realtime>>
      /\ failed.from = 0 /\ cursor \in 0..MaxBlock /\ latest \in 0..MaxBlock /\ cursor < latest
      /\ Free \/ Spend("lost") \/ Spend("errors")
  BY DEF JumpIfFarBehind, nodeVars, otherVars, HeadShape, OuterOK, ModeShape, LoopOK, WalkShape
<1>2. Spent /\ Running
  BY <1>1, FreeIs, SpendIs, RunningIs DEF Budget
<1>3. CASE missing' = missing \cup ((cursor + 1)..(latest - 1)) /\ cursor' = latest - 1
  <2>1. CursorCovered => AllCovered'
    <3>1. ASSUME AllCovered, NEW n \in 1..cursor' PROVE Covered(n)'
      <4>1. n \in 1..cursor \/ n \in (cursor + 1)..(latest - 1)
        BY <1>1, <1>3, Sizes
      <4> QED BY <1>1, <1>3, <3>1, <4>1 DEF AllCovered, Covered
    <3> QED BY <1>1, <1>2, <3>1, PlainlyCovered DEF AllCovered
  <2>2. CursorCovered /\ Keeping => CoverOn
    BY <1>1, <1>3, <2>1, CoveredAll, CoverNow
  <2> QED BY <1>1, <1>2, <2>2, HoleKept DEF Alone
<1>4. CASE missing \subseteq missing' /\ UNCHANGED cursor
  BY <1>1, <1>2, <1>4, HoleQuiet
<1> QED BY <1>3, <1>4 DEF JumpIfFarBehind

\* The cursor resumes below everything a failed revert deleted.
LEMMA ResumeBelow ==
    ASSUME HeadShape, NEW n \in 1..ResumeAfterFailedRevert
    PROVE  n \in 1..cursor /\ ~Undone(n)
<1>1. cursor \in 0..MaxBlock /\ failed.from \in 0..MaxBlock /\ cursor \in Nat
  BY Sizes DEF HeadShape, LoopOK, OuterOK
<1>2. n \in 1..cursor
  BY <1>1, ResumeIs, Sizes
<1>3. ASSUME failed.from # 0, n >= failed.from, \A m \in n..cursor : stored[m] = None PROVE FALSE
  <2> DEFINE below == HighestAtOrBelow(cursor)
             to == IF below > failed.from - 1 THEN below ELSE failed.from - 1
  <2>1. below \in 0..MaxBlock /\ below <= cursor /\ (below # 0 => below \in StoredAt)
    BY <1>1, HighestIs
  <2>2. ResumeAfterFailedRevert = Lower(cursor, to)
    BY <1>3 DEF ResumeAfterFailedRevert
  <2> HIDE DEF below
  <2>3. to \in Nat
    BY <1>1, <1>3, <2>1, Sizes
  <2>4. n <= to
    <3> HIDE DEF to
    <3>1. Lower(cursor, to) <= to /\ Lower(cursor, to) \in Nat
      BY <1>1, <2>3, LowerIs
    <3> QED BY <1>2, <2>2, <2>3, <3>1
  <2>5. n <= below
    BY <1>1, <1>2, <1>3, <2>1, <2>4, Sizes
  <2>6. below # 0 /\ below \in n..cursor
    BY <1>1, <1>2, <2>1, <2>5, Sizes
  <2> QED BY <1>3, <2>1, <2>6 DEF StoredAt
<1> QED BY <1>2, <1>3 DEF Undone

LEMMA HoleIndexUpTo ==
    ASSUME HeadShape, LinkInv, HoleInv, LinkOn, IndexUpTo
    PROVE  HoleInv'
<1>1. /\ pc = "upto" /\ UNCHANGED <<stored, missing, filling, realtime>> /\ left \in [Budget -> Nat] /\ Running
      /\ (Free \/ Spend("errors")) /\ pc' # "revert"
  BY RunningIs DEF IndexUpTo, nodeVars, dbVars, otherVars, HeadShape, OuterOK, EndTick, BeginWalk
<1>2. Spent
  BY <1>1, FreeIs, SpendIs DEF Budget
<1>3. CASE cursor' = ResumeAfterFailedRevert
  <2>1. CursorCovered => AllCovered'
    <3>1. ASSUME CursorCovered, NEW n \in 1..cursor' PROVE Covered(n)'
      <4>1. n \in 1..cursor /\ ~Undone(n)
        BY <1>3, <3>1, ResumeBelow
      <4>2. Covered(n)
        BY <1>1, <3>1, <4>1 DEF CursorCovered, Owed
      <4> QED BY <1>1, <4>2 DEF Covered
    <3> QED BY <3>1 DEF AllCovered
  <2>2. CursorCovered /\ Keeping => CoverOn
    BY <1>1, <2>1, CoveredAll, CoverNow
  <2> QED BY <1>1, <1>2, <2>2, HoleKept DEF Alone
<1>4. CASE UNCHANGED <<cursor, failed>>
  BY <1>1, <1>2, <1>4, HoleQuiet
<1> QED BY <1>3, <1>4 DEF IndexUpTo

LEMMA HoleStopped ==
    ASSUME HeadShape, LinkInv, HoleInv, LinkOn, Spent, Stopped, UNCHANGED <<realtime, stored, missing>>
    PROVE  HoleInv'
<1>1. filling' = Idling
  BY DEF Stopped
<1> QED BY <1>1, CoverStopped, HoleKept

LEMMA HoleWalkStep ==
    ASSUME HeadShape, LinkInv, HoleInv, LinkOn, WalkStep
    PROVE  HoleInv'
<1>1. pc = "walk" /\ UNCHANGED <<stored, missing, realtime>> /\ Spent
  BY WalkStepIs
<1>2. CASE LoopStill /\ WalkMoved
  <2>1. /\ pc' = "walk" /\ walk'.kind = walk.kind /\ UNCHANGED <<cursor, failed, filling, revert>> /\ realtime' = realtime
    BY <1>1, <1>2 DEF LoopStill, WalkMoved
  <2>2. LoopRuns' => LoopRuns
    BY <1>1, <2>1 DEF LoopRuns
  <2>3. Running' => Running
    BY <1>1, <2>1, <2>2 DEF Running
  <2> QED BY <1>1, <2>1, <2>3, HoleQuiet
<1>3. CASE WalkFails
  <2>1. CASE walk.kind = "tick" /\ EndTick /\ UNCHANGED <<cursor, receipts, failed, filling>>
    <3>1. Running /\ pc' # "revert"
      BY <1>1, <2>1, RunningIs DEF EndTick
    <3> QED BY <1>1, <2>1, <3>1, HoleQuiet
  <2>2. CASE walk.kind = "jump" /\ pc' = "upto" /\ UNCHANGED <<cursor, failed, filling>>
    <3>1. Running
      BY <1>1, <2>2, RunningIs
    <3> QED BY <1>1, <2>2, <3>1, HoleQuiet
  <2>3. CASE Stopped
    BY <1>1, <2>3, HoleStopped
  <2> QED BY <1>3, <2>1, <2>2, <2>3 DEF WalkFails
<1>4. CASE Stopped
  BY <1>1, <1>4, HoleStopped
<1> QED BY <1>2, <1>3, <1>4, WalkStepIs

\* The start's comparison is over.
LEMMA CoverStoredHeadChecked ==
    ASSUME HeadShape, Keeping, NEW last \in 0..MaxBlock, NEW u, StoredHeadChecked(last, u),
           UNCHANGED <<realtime, stored>>, ~realtime => \A n \in 1..last : Covered(n)
    PROVE  CoverOn
<1>1. latest \in 0..MaxBlock
  BY DEF HeadShape, LoopOK
<1>2. CASE RunLoop(last, latest)
  BY <1>1, <1>2, CoverRunLoop
<1>3. CASE pc' = "wait" /\ cursor' = last /\ UNCHANGED missing
  <2>1. ~realtime => AllCovered'
    BY <1>3 DEF AllCovered, Covered
  <2>2. ~LoopRuns'
    BY <1>3 DEF LoopRuns
  <2>3. CursorCovered'
    BY <2>1, <2>2, CoveredAll DEF CursorCovered, Running
  <2> QED BY <1>3, <2>3, CoverNow
<1> QED BY <1>2, <1>3 DEF StoredHeadChecked

LEMMA HoleWalkEnd ==
    ASSUME HeadShape, LinkInv, HoleInv, LinkOn, WalkEnd
    PROVE  HoleInv'
<1> DEFINE from == walk.top + 1 - walk.deepest
<1>1. /\ pc = "walk" /\ UNCHANGED <<stored, filling, realtime>> /\ Spent /\ cursor \in 0..MaxBlock /\ failed.from = 0
      /\ realtime' = realtime
  BY WalkEndIs, FreeIs DEF HeadShape, OuterOK, LoopOK, ModeShape
<1>2. CASE walk.kind \in {"tick", "jump"} /\ pc' \in {"anchor", "jump", "upto"} /\ UNCHANGED <<cursor, missing>>
  <2>1. Running
    BY <1>1, <1>2, RunningIs
  <2> QED BY <1>1, <1>2, <2>1, HoleQuiet
<1>3. ASSUME NEW why \in {"tick", "start"}, pc' = "revert", walk.kind = why,
             revert' = [why |-> why, next |-> GetLatestBlockNumber, from |-> from], UNCHANGED <<missing, cursor, walk>>
      PROVE  HoleInv'
  <2>1. revert'.next = GetLatestBlockNumber /\ revert'.why = why
    BY <1>3
  <2>2. LoopRuns' => walk.kind # "start"
    BY <1>3, <2>1 DEF LoopRuns
  <2>3. Running' => Running
    BY <1>1, <2>2, RunningIs DEF Running
  <2> QED BY <1>1, <1>3, <2>1, <2>3, HoleQuiet
<1>4. CASE walk.kind = "tick" /\ TickRevertFails(from) /\ UNCHANGED <<cursor, missing>>
  <2>1. Running /\ pc' # "revert"
    BY <1>1, <1>4, RunningIs DEF TickRevertFails, EndTick
  <2> QED BY <1>1, <1>4, <2>1, HoleQuiet
<1>5. CASE walk.kind = "start" /\ StoredHeadChecked(cursor, walk.unserved)
  <2>1. CursorCovered /\ ~realtime => \A n \in 1..cursor : Covered(n)
    BY <1>1, RunningIs, PlainlyCovered DEF AllCovered
  <2>2. CursorCovered /\ Keeping => CoverOn
    BY <1>1, <1>5, <2>1, CoverStoredHeadChecked
  <2> QED BY <1>1, <2>2, HoleKept DEF Alone
<1> QED BY <1>2, <1>3, <1>4, <1>5, WalkEndIs

\* What a revert has not reached is covered.
LEMMA RevertCovers ==
    ASSUME HeadShape, CursorCovered, Running, pc = "revert", NEW n \in 1..cursor
    PROVE  /\ Covered(n) \/ (n >= revert.from /\ n > revert.next)
           /\ n < revert.from => Covered(n)
           /\ revert.why = "stale" => Covered(n) /\ n < revert.from
<1>1. Covered(n) \/ (n >= revert.from /\ n > revert.next)
  BY DEF CursorCovered, Owed, Undone, HeadShape, ModeShape
<1>2. cursor \in 0..MaxBlock /\ revert.from \in Nat /\ n \in Nat /\ (revert.why = "stale" => revert.from > cursor)
  BY BlockIs DEF HeadShape, LoopOK, RevertShape
<1> QED BY <1>1, <1>2, Sizes

LEMMA HoleRevertBlock ==
    ASSUME HeadShape, LinkInv, HoleInv, LinkOn, RevertBlock
    PROVE  HoleInv'
<1> DEFINE d == revert.next
<1>1. /\ pc = "revert" /\ UNCHANGED <<missing, realtime>> /\ Spent /\ d \in Block /\ d >= revert.from /\ left \in [Budget -> Nat]
      /\ stored \in [Block -> Hash \cup {None}] /\ (stored' = [stored EXCEPT ![d] = None] \/ stored' = stored)
      /\ failed.from = 0 /\ cursor \in 0..MaxBlock /\ revert.from \in Block /\ realtime' = realtime
  BY RevertBlockIs DEF HeadShape, OuterOK, LoopOK, ModeShape, RevertShape
<1>2. \A n \in Block : n # d => stored'[n] = stored[n]
  BY <1>1
<1>3. \A n \in Block : n # d /\ Covered(n) => Covered(n)'
  BY <1>1, <1>2 DEF Covered
<1>4. \A n \in 1..cursor : n \in Block /\ n \in Nat
  BY <1>1, Sizes DEF Block
<1>5. CASE /\ stored' = [stored EXCEPT ![d] = None] /\ revert' = [revert EXCEPT !.next = d - 1]
           /\ UNCHANGED <<pc, cursor, latest, walk, tick, receipts, failed, filling>>
  <2>1. revert'.next = d - 1 /\ revert'.why = revert.why /\ revert'.from = revert.from
    BY <1>5 DEF HeadShape, LoopOK, Reverts
  <2>2. LoopRuns' => LoopRuns
    BY <1>5, <2>1 DEF LoopRuns
  <2>3. Running' => Running
    BY <1>1, <1>5, <2>2 DEF Running
  <2>4. ASSUME CursorCovered, Running, NEW n \in 1..cursor PROVE Covered(n)' \/ Owed(n)'
    <3>1. n \in Block /\ n \in Nat /\ d \in Nat
      BY <1>1, <1>4, BlockIs
    <3>2. CASE n = d
      <4>1. n >= revert'.from /\ n > revert'.next
        BY <1>1, <2>1, <3>1, <3>2
      <4> QED BY <1>1, <1>5, <4>1 DEF Owed
    <3>3. CASE n # d /\ Covered(n)
      BY <1>3, <3>1, <3>3
    <3>4. CASE n >= revert.from /\ n > revert.next
      <4>1. n >= revert'.from /\ n > revert'.next
        BY <2>1, <3>1, <3>4
      <4> QED BY <1>1, <1>5, <4>1 DEF Owed
    <3> QED BY <1>1, <2>4, <3>2, <3>3, <3>4, RevertCovers
  <2>5. CursorCovered => CursorCovered'
    BY <1>5, <2>3, <2>4 DEF CursorCovered
  <2>6. TopDown => TopDown'
    <3>1. ASSUME TopDown, NEW n \in Block, n > revert'.next PROVE stored'[n] = None
      <4>1. n = d \/ n > d
        BY <1>1, <2>1, <3>1, BlockIs
      <4> QED BY <1>1, <1>2, <1>5, <3>1, <4>1 DEF TopDown
    <3> QED BY <3>1 DEF TopDown
  <2>7. ASSUME BelowStored, TopDown PROVE BelowStored'
    <3>1. ASSUME NEW m \in StoredAt', NEW n \in 1..(m - 1) PROVE Covered(n)'
      <4>1. m \in Block /\ m # d /\ m \in StoredAt
        BY <1>1, <1>2, <1>5, <3>1 DEF StoredAt
      <4>2. ~(m > d)
        BY <1>1, <2>7, <4>1 DEF TopDown, StoredAt
      <4>3. n \in Block /\ n # d
        BY <1>1, <3>1, <4>1, <4>2, Sizes DEF Block
      <4>4. Covered(n)
        BY <2>7, <3>1, <4>1 DEF BelowStored
      <4> QED BY <1>3, <4>3, <4>4
    <3> QED BY <3>1 DEF BelowStored
  <2>8. CursorCovered /\ Keeping => CoverOn
    BY <2>5, <2>6, <2>7 DEF Keeping, CoverOn
  <2> QED BY <1>1, <1>5, <2>8, HoleKept DEF Alone
<1>6. CASE RevertFails /\ (left["lost"] # 0 \/ left["errors"] # 0)
  <2>1. Keeping => realtime /\ Alone /\ TopDown
    BY <1>6 DEF Keeping, Reliable
  <2>2. CASE revert.why = "tick" /\ TickRevertFails(revert.from) /\ UNCHANGED <<cursor, receipts, filling>>
    <3>1. Running /\ pc' # "revert" /\ (realtime => failed'.from = revert.from) /\ revert.from # 0
      BY <1>1, <2>2, RunningIs, BlockIs DEF TickRevertFails, EndTick
    <3>2. ASSUME CursorCovered, TopDown, realtime, NEW n \in 1..cursor PROVE Covered(n)' \/ Undone(n)'
      <4>1. n \in Block /\ n \in Nat /\ d \in Nat
        BY <1>1, <1>4, BlockIs
      <4>2. CASE n # d /\ Covered(n)
        BY <1>3, <4>1, <4>2
      <4>3. CASE stored' = stored /\ Covered(n)
        BY <1>1, <4>3 DEF Covered
      <4>4. ASSUME n >= revert.from, n >= d, n = d => stored'[d] = None PROVE Undone(n)'
        <5>1. ASSUME NEW m \in n..cursor PROVE stored'[m] = None
          <6>1. m \in Block /\ (m > d \/ (m = n /\ n = d))
            BY <1>1, <4>1, <4>4, Sizes DEF Block
          <6> QED BY <1>1, <1>2, <3>2, <4>1, <4>4, <6>1 DEF TopDown
        <5> QED BY <2>2, <3>1, <3>2, <4>4, <5>1 DEF Undone
      <4>5. Covered(n) \/ (n >= revert.from /\ n > d)
        BY <1>1, <3>1, <3>2, RevertCovers
      <4>6. stored' # stored => stored'[d] = None
        BY <1>1
      <4> QED BY <1>1, <4>1, <4>2, <4>3, <4>4, <4>5, <4>6
    <3>3. Alone => Alone'
      BY <1>1, <2>2 DEF Alone, Spent, Budget
    <3>4. CursorCovered /\ Keeping => CursorCovered'
      BY <1>1, <2>1, <2>2, <3>2, <3>3 DEF CursorCovered
    <3>5. TopDown'
      BY <3>1 DEF TopDown
    <3>6. CursorCovered /\ Keeping => CoverOn
      BY <2>1, <3>4, <3>5 DEF CoverOn
    <3> QED BY <1>1, <2>2, <3>6, HoleKept DEF Alone
  <2>3. CASE revert.why = "stale" /\ EndTick /\ UNCHANGED <<cursor, receipts, failed, filling>>
    <3>1. Running /\ pc' # "revert"
      BY <1>1, <2>3, RunningIs DEF EndTick
    <3>2. ASSUME CursorCovered, NEW n \in 1..cursor PROVE Covered(n)'
      <4>1. n \in Block /\ Covered(n) /\ n < revert.from
        BY <1>1, <1>4, <2>3, <3>1, <3>2, RevertCovers
      <4>2. n # d
        BY <1>1, <4>1, BlockIs
      <4> QED BY <1>3, <4>1, <4>2
    <3>3. CursorCovered => CursorCovered'
      BY <2>3, <3>2, CoveredAll DEF AllCovered
    <3>4. TopDown'
      BY <3>1 DEF TopDown
    <3>5. CursorCovered /\ Keeping => CoverOn
      BY <2>1, <3>3, <3>4 DEF CoverOn
    <3> QED BY <1>1, <2>3, <3>5, HoleKept DEF Alone
  <2>4. CASE Stopped
    <3>1. pc' = "down" /\ filling' = Idling
      BY <2>4 DEF Stopped
    <3>2. CursorCovered' /\ TopDown'
      BY <3>1 DEF CursorCovered, Running, LoopRuns, TopDown
    <3>3. Keeping => CoverOn
      BY <2>1, <3>2 DEF CoverOn
    <3> QED BY <1>1, <3>1, <3>3, HoleKept
  <2> QED BY <1>6, <2>2, <2>3, <2>4 DEF RevertFails
<1> QED BY <1>5, <1>6, RevertBlockIs

LEMMA HoleRevertDone ==
    ASSUME HeadShape, LinkInv, HoleInv, LinkOn, RevertDone
    PROVE  HoleInv'
<1>1. /\ pc = "revert" /\ UNCHANGED <<stored, filling, realtime>> /\ Spent /\ realtime' = realtime
      /\ revert.from \in Block /\ revert.from \in Nat /\ latest \in 0..MaxBlock /\ cursor \in 0..MaxBlock
  BY RevertDoneIs, FreeIs, BlockIs DEF HeadShape, OuterOK, LoopOK, RevertShape, Free
<1>2. revert.from - 1 \in 0..MaxBlock
  BY <1>1, BlockIs, Sizes
<1>3. ASSUME CursorCovered, Running, revert.from <= cursor \/ revert.why = "above" PROVE \A n \in 1..(revert.from - 1) : Covered(n)
  <2>1. revert.from <= cursor
    BY <1>1, <1>3 DEF HeadShape, RevertShape
  <2>2. ASSUME NEW n \in 1..(revert.from - 1) PROVE Covered(n)
    <3>1. n \in 1..cursor /\ n < revert.from
      BY <1>1, <2>1, Sizes
    <3> QED BY <1>1, <1>3, <3>1, RevertCovers
  <2> QED BY <2>2
<1>4. revert.why \in {"tick", "start"} => revert.from <= cursor
  BY <1>1 DEF HeadShape, RevertShape
<1>5. ~realtime => Running
  BY <1>1, RunningIs
<1>6. CASE revert.why = "tick" /\ cursor' = revert.from - 1 /\ UNCHANGED missing /\ pc' # "revert"
  <2>1. CursorCovered => AllCovered'
    BY <1>1, <1>3, <1>4, <1>6, RunningIs DEF AllCovered, Covered
  <2>2. CursorCovered /\ Keeping => CoverOn
    BY <1>1, <1>6, <2>1, CoveredAll, CoverNow
  <2> QED BY <1>1, <2>2, HoleKept DEF Alone
<1>7. CASE revert.why = "stale" /\ EndTick /\ UNCHANGED <<cursor, missing, failed>>
  <2>1. pc' # "revert" /\ Running
    BY <1>1, <1>7, RunningIs DEF EndTick
  <2>2. CursorCovered => AllCovered'
    BY <1>1, <1>7, <2>1, RevertCovers DEF AllCovered, Covered
  <2>3. CursorCovered /\ Keeping => CoverOn
    BY <1>1, <1>7, <2>1, <2>2, CoveredAll, CoverNow
  <2> QED BY <1>1, <2>3, HoleKept DEF Alone
<1>8. CASE revert.why = "start" /\ StoredHeadChecked(revert.from - 1, {n \in walk.unserved : n < revert.from})
  <2>1. CursorCovered /\ Keeping => CoverOn
    BY <1>1, <1>2, <1>3, <1>4, <1>5, <1>8, CoverStoredHeadChecked
  <2> QED BY <1>1, <2>1, HoleKept DEF Alone
<1>9. CASE revert.why = "above" /\ StartWalk(latest, latest) /\ UNCHANGED <<missing, tick, failed>>
  <2>1. revert.from - 1 = latest
    BY <1>1, <1>9 DEF HeadShape, RevertShape
  <2>2. CursorCovered /\ Keeping => CoverOn
    BY <1>1, <1>2, <1>3, <1>5, <1>9, <2>1, CoverStartWalk
  <2> QED BY <1>1, <2>2, HoleKept DEF Alone
<1>10. pc' = "anchor" \/ EndTick => pc' # "revert"
  BY DEF EndTick
<1> QED BY <1>6, <1>7, <1>8, <1>9, <1>10, RevertDoneIs

LEMMA HoleAnchor ==
    ASSUME HeadShape, LinkInv, HoleInv, LinkOn, Anchor
    PROVE  HoleInv'
<1>1. /\ pc = "anchor" /\ UNCHANGED <<stored, missing, failed, filling, realtime>> /\ Spent /\ failed.from = 0
      /\ cursor \in 0..MaxBlock /\ Running
  BY AnchorStepIs, RunningIs DEF HeadShape, LoopOK, ModeShape
<1>2. cursor' \in 0..MaxBlock /\ cursor' <= cursor
  BY <1>1, AnchorStepIs, AnchorIs, Sizes
<1>3. pc' # "revert"
  BY AnchorStepIs DEF EndTick
<1>4. CursorCovered /\ Keeping => CoverOn
  BY <1>1, <1>2, <1>3, CoverQuiet DEF Alone
<1> QED BY <1>1, <1>4, HoleKept DEF Alone

\* The tick reads, opens a transaction, sees its end, or the retries end.
LEMMA HoleIndexing ==
    ASSUME HeadShape, LinkInv, HoleInv, LinkOn,
           ConsumeMismatch \/ ConsumeFailed \/ ConsumeBlock \/ IndexEnd \/ RetryEnd \/ (\E n \in Block : Fetch(n))
    PROVE  HoleInv'
<1>1. /\ pc \in {"index", "retry"} /\ pc' # "revert" /\ Spent
      /\ UNCHANGED <<stored, missing, cursor, failed, filling, realtime>>
  <2>1. CASE ConsumeMismatch
    BY <2>1, ConsumeMismatchIs
  <2>2. CASE ConsumeFailed
    BY <2>2, ConsumeFailedIs
  <2>3. CASE ConsumeBlock
    BY <2>3, ConsumeBlockIs, FreeIs DEF Consuming, Free, HeadShape, OuterOK
  <2>4. CASE IndexEnd
    BY <2>4, IndexEndIs DEF EndTick
  <2>5. CASE RetryEnd
    BY <2>5, RetryEndIs, FreeIs DEF Free, HeadShape, OuterOK
  <2>6. CASE \E n \in Block : Fetch(n)
    BY <2>6, FetchIs
  <2> QED BY <2>1, <2>2, <2>3, <2>4, <2>5, <2>6
<1> QED BY <1>1, RunningIs, HoleQuiet

LEMMA HoleConsumeWithoutReceipts ==
    ASSUME HeadShape, LinkInv, HoleInv, LinkOn, ConsumeWithoutReceipts
    PROVE  HoleInv'
<1>1. /\ pc = "index" /\ UNCHANGED <<stored, failed, filling, realtime>> /\ Spent /\ failed.from = 0 /\ Running
      /\ cursor \in 0..MaxBlock /\ tick.next = cursor + 1
  BY ConsumeWithoutReceiptsIs, RunningIs DEF Consuming, HeadShape, LoopOK, ModeShape
<1>2. CASE EndTick /\ UNCHANGED cursor /\ missing \subseteq missing'
  <2>1. pc' # "revert"
    BY <1>2 DEF EndTick
  <2> QED BY <1>1, <1>2, <2>1, HoleQuiet
<1>3. CASE missing' = missing \cup {tick.next} /\ cursor' = tick.next /\ UNCHANGED pc
  <2>1. CursorCovered => AllCovered'
    <3>1. ASSUME AllCovered, NEW n \in 1..cursor' PROVE Covered(n)'
      <4>1. n \in 1..cursor \/ n = tick.next
        BY <1>1, <1>3, Sizes
      <4> QED BY <1>1, <1>3, <3>1, <4>1 DEF AllCovered, Covered
    <3> QED BY <1>1, <3>1, PlainlyCovered DEF AllCovered
  <2>2. CursorCovered /\ Keeping => CoverOn
    BY <1>1, <1>3, <2>1, CoveredAll, CoverNow
  <2> QED BY <1>1, <2>2, HoleKept DEF Alone
<1> QED BY <1>2, <1>3, ConsumeWithoutReceiptsIs

\* A block is written, with everything below it covered.
LEMMA CoverWritten ==
    ASSUME HeadShape, Keeping, AllCovered', UNCHANGED realtime, NEW n \in Block, NEW h, h # None,
           stored' = [stored EXCEPT ![n] = h], missing' = missing \/ missing' = missing \ {n}, pc' # "revert",
           \A m \in 1..(n - 1) : Covered(m)
    PROVE  CoverOn
<1>1. stored \in [Block -> Hash \cup {None}] /\ n \in Nat
  BY BlockIs DEF HeadShape, OuterOK
<1>2. stored'[n] = h /\ \A m \in Block : m # n => stored'[m] = stored[m]
  BY <1>1
<1>3. \A m \in Block : Covered(m) => Covered(m)'
  BY <1>2 DEF Covered
<1>4. StoredAt' \subseteq StoredAt \cup {n}
  BY <1>2 DEF StoredAt
<1>5. ASSUME BelowStored PROVE BelowStored'
  <2> SUFFICES ASSUME NEW m \in StoredAt', NEW k \in 1..(m - 1) PROVE Covered(k)'
    BY DEF BelowStored
  <2>1. k \in Block
    <3>1. m \in Block
      BY DEF StoredAt
    <3> QED BY <3>1, Sizes DEF Block
  <2>2. Covered(k)
    BY <1>4, <1>5 DEF BelowStored
  <2> QED BY <1>3, <2>1, <2>2
<1>6. CursorCovered' /\ TopDown'
  BY CoveredAll DEF TopDown
<1> QED BY <1>5, <1>6 DEF CoverOn, Keeping

LEMMA HoleFinishOldest ==
    ASSUME HeadShape, LinkInv, HoleInv, LinkOn, FinishOldest
    PROVE  HoleInv'
<1> DEFINE n == Head(tick.queue)[1]
           h == Head(tick.queue)[2]
<1>1. /\ pc = "index" /\ n \in Block /\ h \in Hash /\ n = cursor + 1
      /\ UNCHANGED <<missing, failed, filling, realtime>> /\ Spent
      /\ \/ stored' = [stored EXCEPT ![n] = h] /\ cursor' = n /\ UNCHANGED pc
         \/ /\ EndTick /\ UNCHANGED cursor
            /\ stored' = [stored EXCEPT ![n] = h] \/ UNCHANGED stored
         \/ /\ UNCHANGED <<stored, cursor>> /\ pc' = "revert"
            /\ revert' = [why |-> "stale", next |-> GetLatestBlockNumber, from |-> n]
  BY FinishOldestIs
<1> HIDE DEF n, h
<1>2. /\ failed.from = 0 /\ Running /\ cursor \in 0..MaxBlock /\ cursor \in Nat /\ n \in Nat /\ h # None
      /\ stored \in [Block -> Hash \cup {None}]
  BY <1>1, RunningIs, HashSome, BlockIs, Sizes DEF HeadShape, OuterOK, LoopOK, ModeShape
<1>3. CursorCovered => AllCovered /\ \A m \in 1..(n - 1) : Covered(m)
  BY <1>1, <1>2, PlainlyCovered DEF AllCovered
<1>4. CASE stored' = [stored EXCEPT ![n] = h] /\ cursor' \in {cursor, n} /\ pc' # "revert"
  <2>1. stored'[n] = h /\ \A m \in Block : m # n => stored'[m] = stored[m]
    BY <1>1, <1>2, <1>4
  <2>2. ASSUME AllCovered, NEW m \in 1..cursor' PROVE Covered(m)'
    <3>1. m = n \/ (m \in 1..cursor /\ m \in Block /\ m # n)
      BY <1>1, <1>2, <1>4, BlockIs, Sizes
    <3> QED BY <1>1, <1>2, <2>1, <2>2, <3>1 DEF AllCovered, Covered
  <2>3. CursorCovered => AllCovered'
    BY <1>3, <2>2 DEF AllCovered
  <2>4. CursorCovered /\ Keeping => CoverOn
    BY <1>1, <1>2, <1>3, <1>4, <2>3, CoverWritten
  <2> QED BY <1>1, <2>4, HoleKept DEF Alone
<1>5. CASE UNCHANGED <<stored, cursor>> /\ (pc' = "revert" => revert'.next = GetLatestBlockNumber)
  BY <1>1, <1>2, <1>5, HoleQuiet
<1>6. EndTick => pc' # "revert"
  BY DEF EndTick
<1> QED BY <1>1, <1>4, <1>5, <1>6

LEMMA HoleRetryMissing ==
    ASSUME HeadShape, LinkInv, HoleInv, LinkOn, NEW n \in Block, RetryMissing(n)
    PROVE  HoleInv'
<1>1. /\ pc = "retry" /\ n <= cursor /\ UNCHANGED <<pc, cursor, failed, filling, realtime>> /\ Spent
      /\ missing' = missing \/ missing' = missing \ {n}
      /\ \/ stored[n] # None /\ UNCHANGED stored
         \/ stored' = [stored EXCEPT ![n] = fork[n]] /\ fork[n] # None
  BY RetryMissingIs DEF loopVars
<1>2. /\ failed.from = 0 /\ Running /\ cursor \in 0..MaxBlock /\ cursor \in Nat /\ n \in Nat
      /\ stored \in [Block -> Hash \cup {None}]
  BY <1>1, RunningIs, BlockIs, Sizes DEF HeadShape, OuterOK, LoopOK, ModeShape
<1>3. PICK h : h # None /\ stored' = [stored EXCEPT ![n] = h]
  <2>1. CASE stored[n] # None /\ UNCHANGED stored
    <3>1. stored' = [stored EXCEPT ![n] = stored[n]]
      BY <1>2, <2>1
    <3> QED BY <2>1, <3>1
  <2> QED BY <1>1, <2>1
<1>4. stored'[n] = h /\ \A m \in Block : m # n => stored'[m] = stored[m]
  BY <1>2, <1>3
<1>5. ASSUME AllCovered PROVE AllCovered' /\ \A m \in 1..(n - 1) : Covered(m)
  <2>1. ASSUME NEW m \in 1..cursor PROVE Covered(m)'
    <3>1. m \in Block
      BY <1>2, Sizes DEF Block
    <3> QED BY <1>1, <1>3, <1>4, <1>5, <2>1, <3>1 DEF AllCovered, Covered
  <2>2. AllCovered'
    BY <1>1, <2>1 DEF AllCovered
  <2>3. \A m \in 1..(n - 1) : m \in 1..cursor
    BY <1>1, <1>2
  <2> QED BY <1>5, <2>2, <2>3 DEF AllCovered
<1>6. CursorCovered /\ Keeping => CoverOn
  BY <1>1, <1>2, <1>3, <1>5, PlainlyCovered, CoverWritten
<1> QED BY <1>1, <1>6, HoleKept DEF Alone

\* The loop stays where it is and nothing becomes uncovered; nothing changes at all where nobody else writes.
LEMMA HoleStays ==
    ASSUME HeadShape, LinkInv, HoleInv, LinkOn, Spent, UNCHANGED <<loopVars, realtime>>,
           \A n \in Block : Covered(n) => Covered(n)',
           ~realtime \/ Alone => UNCHANGED <<stored, missing>>, Alone => filling' = Idling
    PROVE  HoleInv'
<1>1. UNCHANGED <<pc, cursor, walk, revert, failed, realtime>> /\ cursor \in 0..MaxBlock
  BY DEF loopVars, HeadShape, LoopOK
<1>2. Running' <=> Running
  BY <1>1 DEF Running, LoopRuns
<1>3. Alone => Alone'
  BY DEF Alone, Spent, HeadShape, OuterOK, Budget
<1>4. ASSUME CursorCovered PROVE CursorCovered'
  <2> SUFFICES ASSUME Running', NEW n \in 1..cursor'
               PROVE  Covered(n)' \/ Owed(n)' \/ (realtime' /\ Alone' /\ Undone(n)')
    BY DEF CursorCovered
  <2>1. n \in 1..cursor /\ n \in Block
    BY <1>1, Sizes DEF Block
  <2>2. Covered(n) \/ Owed(n) \/ (realtime /\ Alone /\ Undone(n))
    BY <1>2, <1>4, <2>1 DEF CursorCovered
  <2>3. Owed(n) => Owed(n)'
    BY <1>1 DEF Owed
  <2>4. Alone /\ Undone(n) => Undone(n)'
    BY <1>1 DEF Undone
  <2> QED BY <1>1, <1>3, <2>1, <2>2, <2>3, <2>4
<1>5. ASSUME ~realtime, BelowStored PROVE BelowStored'
  BY <1>5 DEF BelowStored, StoredAt, Covered
<1>6. Alone /\ TopDown => TopDown'
  BY <1>1 DEF TopDown
<1>7. CursorCovered /\ Keeping => CoverOn
  BY <1>4, <1>5, <1>6 DEF CoverOn, Keeping
<1> QED BY <1>1, <1>7, HoleKept

LEMMA HoleOthers ==
    ASSUME HeadShape, LinkInv, HoleInv, LinkOn, (\E n \in Block : CatchupRead(n)) \/ CatchupWrite \/ NodeMoves
    PROVE  HoleInv'
<1>1. ASSUME NEW n \in Block, CatchupRead(n) PROVE HoleInv'
  <2>1. left["catchups"] # 0 /\ UNCHANGED <<stored, missing, loopVars, realtime>> /\ Spent
    BY <1>1, CatchupReadIs
  <2>2. ~Alone /\ \A m \in Block : Covered(m) => Covered(m)'
    BY <2>1 DEF Alone, Covered
  <2> QED BY <2>1, <2>2, HoleStays
<1>2. CASE CatchupWrite
  <2>1. /\ realtime /\ ~Alone /\ UNCHANGED <<loopVars, realtime>> /\ Spent /\ stored \in [Block -> Hash \cup {None}]
    BY <1>2, CatchupWriteIs, FreeIs DEF Alone, Free, HeadShape, OuterOK
  <2>2. ASSUME NEW m \in Block, Covered(m) PROVE Covered(m)'
    BY <1>2, <2>1, <2>2, CatchupWriteIs DEF Covered
  <2> QED BY <2>1, <2>2, HoleStays
<1>3. CASE NodeMoves
  <2>1. UNCHANGED <<stored, missing, loopVars, filling, realtime>> /\ Spent
    BY <1>3, NodeMovesIs
  <2>2. \A m \in Block : Covered(m) => Covered(m)'
    BY <2>1 DEF Covered
  <2> QED BY <2>1, <2>2, HoleStays DEF Alone
<1> QED BY <1>1, <1>2, <1>3

LEMMA HoleCrash ==
    ASSUME HeadShape, LinkInv, HoleInv, LinkOn, Crash
    PROVE  HoleInv'
BY CrashIs, HoleStopped

LEMMA HoleStep ==
    ASSUME HeadShape, LinkInv, HoleInv, LinkOn, [Next]_vars
    PROVE  HoleInv'
BY NextIsOneOf, HoleStart, HoleStartWait, HoleStartRevertAbove, HoleTick, HoleJump, HoleIndexUpTo, HoleWalkStep, HoleWalkEnd,
   HoleRevertBlock, HoleRevertDone, HoleAnchor, HoleIndexing, HoleConsumeWithoutReceipts, HoleFinishOldest, HoleRetryMissing,
   HoleOthers, HoleCrash

\* A call fails, or fails after it took effect, only where nothing else has blocks of its own to bring: in realtime no
\* catch-up that writes, in standard mode no block passed without its receipts.
WritersApart ==
    \A s \in Scenarios :
        \/ s.budget["lost"] = 0 /\ s.budget["errors"] = 0
        \/ IF s.realtime THEN s.budget["catchups"] = 0 ELSE s.budget["receipts"] = 0

LEMMA ApartIs == WritersApart => SkipsApart
BY DEF WritersApart, SkipsApart

LEMMA HoleInit ==
    ASSUME Init, WritersApart
    PROVE  HoleInv
<1>1. /\ stored = [n \in Block |-> None] /\ missing = {} /\ pc = "down" /\ cursor = 0 /\ filling = Idling
      /\ tick = NoTick /\ receipts = NoSkip
  BY DEF Init
<1>2. StoredAt = {} /\ Contiguous /\ BelowStored
  BY <1>1 DEF StoredAt, Contiguous, BelowStored
<1>3. CursorCovered /\ TopDown /\ Receipted /\ receipts.skipped = 0
  BY <1>1, EmptyTick DEF CursorCovered, Running, LoopRuns, TopDown, Receipted, NoSkip
<1>4. Reliable \/ IF realtime THEN left["catchups"] = 0 ELSE left["receipts"] = 0
  <2>1. PICK s \in Scenarios : realtime = s.realtime /\ left = s.budget
    BY DEF Init
  <2> QED BY <2>1 DEF WritersApart, Reliable
<1> QED BY <1>1, <1>2, <1>3, <1>4 DEF HoleInv, Unskipped, Alone

\* What HoleInv says while the loop runs.
LEMMA HoleInvIs ==
    ASSUME HeadShape, HoleInv
    PROVE  NoHole
<1> SUFFICES ASSUME LoopRuns, NEW n \in 1..cursor
             PROVE  stored[n] # None \/ n \in missing \/ Unsettled(n)
  BY DEF NoHole
<1>1. pc # "down" /\ cursor \in 0..MaxBlock /\ cursor \in Nat /\ n \in Nat /\ n \in Block /\ realtime \in BOOLEAN
  BY Sizes, BlockIs DEF LoopRuns, HeadShape, LoopOK, OuterOK
<1>2. CASE CursorCovered
  <2>1. Running
    BY <1>1 DEF Running
  <2>2. Covered(n) \/ Owed(n) \/ Undone(n)
    BY <1>2, <2>1 DEF CursorCovered
  <2>3. Owed(n) => Unsettled(n)
    <3>1. ASSUME pc = "revert" PROVE revert.why = "tick" \/ (revert.why = "stale" /\ revert.from > cursor)
      BY <3>1 DEF HeadShape, LoopOK, Reverts, RevertShape, LoopRuns
    <3>2. pc = "revert" => revert.from \in Nat
      BY BlockIs DEF HeadShape, RevertShape
    <3> QED BY <1>1, <3>1, <3>2 DEF Owed, Unsettled
  <2>4. Undone(n) => Unsettled(n)
    BY DEF Undone, Unsettled
  <2> QED BY <2>2, <2>3, <2>4 DEF Covered
<1>3. CASE ~realtime /\ Contiguous
  <2>1. ASSUME NEW m \in n..cursor, stored[m] # None PROVE stored[n] # None
    <3>1. m \in Block /\ (m = n \/ n < m)
      BY <1>1, BlockIs, Sizes
    <3> QED BY <1>1, <1>3, <2>1, <3>1 DEF Contiguous
  <2> QED BY <1>3, <2>1 DEF Unsettled
<1> QED BY <1>1, <1>2, <1>3 DEF HoleInv, Unskipped

(***************************************************************************)
(* "The deleted blocks are fetched again" (anchor), "a block the revert    *)
(* deleted is indexed again" (resumeAfterFailedRevert): for every chain,   *)
(* window and depth, whatever reorgs, stops and pauses come between,       *)
(* every block at or below the cursor of the running loop is stored,       *)
(* recorded as missing, or one the loop still has to put right, in every   *)
(* scenario in which failing calls do not meet another writer.             *)
(***************************************************************************)
THEOREM HeadNoHole ==
    ASSUME WritersApart
    PROVE  Spec => []NoHole
<1>1. Init => HeadShape /\ LinkInv /\ HoleInv
  BY ApartIs, InitShape, LinkInit, HoleInit
<1>2. HeadShape /\ LinkInv /\ HoleInv /\ [Next]_vars => HeadShape' /\ LinkInv' /\ HoleInv'
  BY ShapeKept, LinkStep, HoleStep DEF LinkOn
<1>3. HeadShape /\ HoleInv => NoHole
  BY HoleInvIs
<1> QED BY <1>1, <1>2, <1>3, PTL DEF Spec
=============================================================================
