---------------------------- MODULE BalanceProofs ----------------------------
(***************************************************************************)
(* Proofs about BalanceEpoch for every set of keys and every bound: the    *)
(* type invariant, that no row is above the head, and that no fork-era     *)
(* balance stays unasked unless catch-up stored a transfer of its key.     *)
(***************************************************************************)
EXTENDS BalanceEpoch, NaturalFacts, FiniteSetTheorems, SequenceTheorems, TLAPS

USE DEF Greater, NoFault, Fault, dbVars, poolVars, ghosts

\* The history rows left after a revert have a highest one, when there is any.
LEMMA RestoredRow ==
    ASSUME TypeOK, NEW k \in Keys
    PROVE  /\ Restored(k) \in Row
           /\ Remaining(k) # {} => Restored(k) \in Remaining(k)
           /\ Remaining(k) = {} => Restored(k) = None
<1> USE BalanceAssumption
<1>1. CASE Remaining(k) = {}
  BY <1>1 DEF Restored, None, Row
<1>2. CASE Remaining(k) # {}
  <2> DEFINE T == {h.block : h \in Remaining(k)}
  <2>1. Remaining(k) \subseteq Row
    BY DEF TypeOK, Remaining
  <2>2. T \in SUBSET (0..MaxBlock) /\ T # {}
    BY <2>1, <1>2 DEF Row
  <2>3. PICK n \in T : \A m \in T : m <= n
    <3> HIDE DEF T
    <3> QED BY <2>2, GreatestNatural
  <2>4. PICK h \in Remaining(k) : h.block = n
    BY <2>3
  <2>5. Highest(Remaining(k), h)
    BY <2>3, <2>4 DEF Highest
  <2>6. Restored(k) \in Remaining(k)
    BY <1>2, <2>5 DEF Restored
  <2> QED BY <1>2, <2>1, <2>6
<1> QED BY <1>1, <1>2

\* A sequence without its last element.
LEMMA DropLast ==
    ASSUME NEW T, NEW s \in Seq(T), Len(s) # 0
    PROVE  Len(SubSeq(s, 1, Len(s) - 1)) = Len(s) - 1
<1>1. Len(s) \in Nat /\ (\A i \in 1..(Len(s) - 1) : s[i] \in T)
  OBVIOUS
<1>2. Len(SubSeq(s, 1, Len(s) - 1)) = IF 1 <= Len(s) - 1 THEN Len(s) - 1 - 1 + 1 ELSE 0
  BY <1>1, SubSeqProperties
<1>3. ASSUME NEW n \in Nat, n # 0
      PROVE  (IF 1 <= n - 1 THEN n - 1 - 1 + 1 ELSE 0) = n - 1
  BY <1>3
<1> QED BY <1>1, <1>2, <1>3

\* Of two items folded, the read keeps a key's type.
LEMMA FoldedWork ==
    ASSUME NEW a \in Work, NEW b \in Work, a.key = b.key
    PROVE  Folded(a, b) \in Work
BY DEF Folded, Work
-----------------------------------------------------------------------------
LEMMA TypeInit == Init => TypeOK
<1> SUFFICES ASSUME Init PROVE TypeOK
  OBVIOUS
<1>1. stored \in Seq(Block) /\ Len(stored) <= MaxBlock
  <2>1. Gap \in Nat /\ Gap <= MaxBlock
    BY BalanceAssumption
  <2>2. stored \in [1..Gap -> Block]
    BY DEF Init, Block
  <2> QED BY <2>1, <2>2
<1> QED BY <1>1, BalanceAssumption DEF Init, TypeOK, Row, None

\* A block of the gap is filled in place.
LEMMA FilledInPlace ==
    ASSUME TypeOK, NEW n \in missing, NEW ks \in SUBSET Keys, CatchupStore(n, ks)
    PROVE  stored' \in Seq(Block) /\ Len(stored') = Len(stored)
<1>1. [keys |-> ks, dead |-> FALSE] \in Block
  BY DEF Block
<1>2. DOMAIN stored = 1..Len(stored) /\ Len(stored) \in Nat /\ \A i \in 1..Len(stored) : stored[i] \in Block
  BY DEF TypeOK
<1>3. stored' \in [1..Len(stored) -> Block]
  BY <1>1, <1>2 DEF CatchupStore, TypeOK
<1> QED BY <1>2, <1>3

\* Every step keeps the types.
LEMMA TypeStep == TypeOK /\ [Next]_vars => TypeOK'
<1> SUFFICES ASSUME TypeOK, [Next]_vars PROVE TypeOK'
  OBVIOUS
<1> USE BalanceAssumption DEF TypeOK
<1>1. ASSUME NEW n \in DOMAIN stored, NodeReorg(n) PROVE TypeOK'
  <2>1. DOMAIN stored = 1..Len(stored) /\ Len(stored) \in Nat
    OBVIOUS
  <2>2. \A i \in DOMAIN stored : stored'[i] \in Block
    <3> TAKE i \in DOMAIN stored
    <3>0. stored[i] \in Block
      BY <2>1
    <3>1. [keys |-> stored[i].keys, dead |-> TRUE] \in Block
      BY <3>0 DEF Block
    <3>2. stored'[i] \in {stored[i], [keys |-> stored[i].keys, dead |-> TRUE]}
      BY <1>1 DEF NodeReorg
    <3> QED BY <3>0, <3>1, <3>2
  <2>3. stored' \in [1..Len(stored) -> Block]
    BY <1>1, <2>1, <2>2 DEF NodeReorg
  <2>4. stored' \in Seq(Block) /\ Len(stored') = Len(stored)
    BY <2>1, <2>3
  <2>5. /\ fork' = fork + 1
        /\ UNCHANGED <<missing, epoch, rereads, history, current, poolVars, reverting, ghosts, faults, crashes>>
    BY <1>1 DEF NodeReorg
  <2> QED BY <2>4, <2>5
<1>2. ASSUME NEW ks \in SUBSET Keys, StoreBlock(ks) PROVE TypeOK'
  <2>1. stored' \in Seq(Block) /\ Len(stored') = Len(stored) + 1
    BY <1>2 DEF StoreBlock, Block
  <2>2. decided' \in SUBSET [key : Keys, block : 1..MaxBlock]
    BY <1>2 DEF StoreBlock
  <2> QED BY <1>2, <2>1, <2>2 DEF StoreBlock
<1>13. ASSUME NEW n \in missing, NEW ks \in SUBSET Keys, CatchupStore(n, ks) PROVE TypeOK'
  <2>1. stored' \in Seq(Block) /\ Len(stored') = Len(stored)
    BY <1>13, FilledInPlace
  <2>2. decided' \in SUBSET [key : Keys, block : 1..MaxBlock]
    <3>1. n \in 1..MaxBlock
      OBVIOUS
    <3>2. \A k \in ks : [key |-> k, block |-> n] \in [key : Keys, block : 1..MaxBlock]
      BY <3>1
    <3> QED BY <1>13, <3>2 DEF CatchupStore
  <2> QED BY <1>13, <2>1, <2>2 DEF CatchupStore
<1>3. ASSUME NEW d \in decided, QueueCommittedWork(d) PROVE TypeOK'
  <2>1. queue' \in SUBSET Work
    BY <1>3 DEF QueueCommittedWork, Work
  <2>2. decided' \in SUBSET [key : Keys, block : 1..MaxBlock]
    BY <1>3 DEF QueueCommittedWork
  <2> QED BY <1>3, <2>1, <2>2 DEF QueueCommittedWork
<1>4. ASSUME NEW a \in queue, NEW b \in queue, Fold(a, b) PROVE TypeOK'
  <2>1. Folded(a, b) \in Work
    BY <1>4, FoldedWork DEF Fold
  <2> QED BY <1>4, <2>1 DEF Fold
<1>5. ASSUME NEW w \in queue, FetchBalance(w) PROVE TypeOK'
  <2>1. [key |-> w.key, block |-> w.block, epoch |-> w.epoch, fork |-> fork] \in Read
    BY DEF Work, Read
  <2>2. batch' \in SUBSET Read /\ faults' \in Nat
    BY <1>5, <2>1 DEF FetchBalance
  <2> QED BY <1>5, <2>2 DEF FetchBalance
<1>6. ASSUME NEW k \in Keys, NEW S \in SUBSET batch, InsertBalancesBatch(k, S) PROVE TypeOK'
  <2> DEFINE kept == {r \in S : r.epoch >= epoch}
  <2>0. UNCHANGED <<fork, stored, missing, epoch, poolEpoch, decided, queue, claimed, reverting, revertFork, crashes>>
    BY <1>6 DEF InsertBalancesBatch
  <2>1. ASSUME NEW rows \in LastArrivals(kept) PROVE rows \subseteq Row
    BY DEF LastArrivals, Row, Read
  <2>2. history' \in [Keys -> SUBSET Row]
    <3>1. CASE UNCHANGED history
      BY <3>1
    <3>2. ASSUME NEW rows \in LastArrivals(kept), history' = [history EXCEPT ![k] = Merged(@, rows)]
          PROVE  history' \in [Keys -> SUBSET Row]
      BY <2>1, <3>2 DEF Merged
    <3> QED BY <1>6, <3>1, <3>2 DEF InsertBalancesBatch
  <2>3. current' \in [Keys -> Row]
    <3>1. CASE UNCHANGED current
      BY <3>1
    <3>2. ASSUME NEW rows \in LastArrivals(kept), NEW r \in rows, current' = [current EXCEPT ![k] = r]
          PROVE  current' \in [Keys -> Row]
      BY <2>1, <3>2
    <3> QED BY <1>6, <3>1, <3>2 DEF InsertBalancesBatch
  <2>4. rereads' \in [Keys -> [epoch : Nat, open : BOOLEAN, attempts : 0..MaxAttempts]]
    <3>1. rereads' = rereads \/ rereads' = Reopened(k, epoch) \/ rereads' = Answered(k)
      BY <1>6 DEF InsertBalancesBatch
    <3>2. rereads[k].epoch \in Nat /\ rereads[k].attempts \in 0..MaxAttempts
      OBVIOUS
    <3>3. CASE rereads' = Reopened(k, epoch)
      BY <3>2, <3>3 DEF Reopened
    <3>4. CASE rereads' = Answered(k)
      BY <3>2, <3>4 DEF Answered
    <3> QED BY <3>1, <3>3, <3>4
  <2>5. faults' \in Nat /\ batch' \in SUBSET Read /\ givenUp' \in SUBSET Keys
    <3>1. faults' \in {faults, faults + 1} /\ batch' = batch \ S /\ givenUp' \in {givenUp, givenUp \ {k}}
      BY <1>6 DEF InsertBalancesBatch
    <3> QED BY <3>1
  <2> QED BY <2>0, <2>2, <2>3, <2>4, <2>5
<1>7. CASE HoldEpoch \/ LockBalances \/ TakeEpoch \/ ReleaseEpoch \/ AbortRevert
  <2>1. UNCHANGED <<fork, stored, missing, rereads, history, current, decided, queue, batch, claimed, ghosts, crashes>>
    BY <1>7 DEF HoldEpoch, LockBalances, TakeEpoch, ReleaseEpoch, AbortRevert
  <2>2. /\ epoch' \in Nat /\ poolEpoch' \in Nat /\ faults' \in Nat
        /\ reverting' \in {"no", "gated", "locked", "numbered", "ended"}
    BY <1>7 DEF HoldEpoch, LockBalances, TakeEpoch, ReleaseEpoch, AbortRevert
  <2> QED BY <2>1, <2>2
<1>8. CASE CommitRevert
  <2>1. stored' \in Seq(Block) /\ Len(stored') <= MaxBlock
    BY <1>8 DEF CommitRevert, Top
  <2>2. history' \in [Keys -> SUBSET Row]
    BY <1>8 DEF CommitRevert, Remaining
  <2>3. current' \in [Keys -> Row]
    BY <1>8, RestoredRow DEF CommitRevert
  <2>4. rereads' \in [Keys -> [epoch : Nat, open : BOOLEAN, attempts : 0..MaxAttempts]]
    BY <1>8 DEF CommitRevert
  <2>5. revertFork' \in [Keys -> Nat] /\ givenUp' \in SUBSET Keys
    BY <1>8 DEF CommitRevert
  <2> QED BY <1>8, <2>1, <2>2, <2>3, <2>4, <2>5 DEF CommitRevert
<1>9. CASE ClaimBalanceRereads
  <2>1. rereads' \in [Keys -> [epoch : Nat, open : BOOLEAN, attempts : 0..MaxAttempts]]
    BY <1>9 DEF ClaimBalanceRereads
  <2>2. claimed' \in SUBSET [key : Keys, epoch : Nat]
    BY <1>9 DEF ClaimBalanceRereads
  <2>3. givenUp' \in SUBSET Keys
    BY <1>9 DEF ClaimBalanceRereads
  <2> QED BY <1>9, <2>1, <2>2, <2>3 DEF ClaimBalanceRereads
<1>10. CASE RereadBalances
  <2>1. Top \in 0..MaxBlock
    BY DEF Top
  <2>2. queue' \in SUBSET Work
    <3>1. \A c \in claimed : [key |-> c.key, block |-> Top, epoch |-> c.epoch] \in Work
      BY <2>1 DEF Work
    <3> QED BY <1>10, <3>1 DEF RereadBalances
  <2>3. claimed' \in SUBSET [key : Keys, epoch : Nat] /\ faults' \in Nat
    BY <1>10 DEF RereadBalances
  <2>4. UNCHANGED <<fork, dbVars, poolEpoch, decided, batch, reverting, ghosts, crashes>>
    BY <1>10 DEF RereadBalances
  <2> QED BY <2>2, <2>3, <2>4
<1>11. CASE Restart
  BY <1>11 DEF Restart
<1>12. CASE UNCHANGED vars
  BY <1>12 DEF vars
<1> QED
  BY <1>1, <1>2, <1>3, <1>4, <1>5, <1>6, <1>7, <1>8, <1>9, <1>10, <1>11, <1>12, <1>13
  DEF Next, Pool, Revert, Reread

\* Every step of the pool, the reverts and the rereads keeps the tables and the pool's memory well-typed; a request is
\* never counted past MaxBalanceRereadAttempts.
THEOREM TypeCorrect == Spec => []TypeOK
BY TypeInit, TypeStep, PTL DEF Spec
-----------------------------------------------------------------------------
(***************************************************************************)
(* The invariants other than the types, one lemma for each kind of step.   *)
(***************************************************************************)

\* What reorgs, stores and reverts at the head do leaves the gap alone.
LEMMA GapKept ==
    ASSUME TypeOK, EpochInv,
           \/ \E n \in DOMAIN stored : NodeReorg(n)
           \/ \E ks \in SUBSET Keys : StoreBlock(ks)
           \/ CommitRevert
    PROVE  /\ Gap \in Nat /\ Gap <= Len(stored)
           /\ \A i \in 1..Gap : stored'[i] = stored[i]
           /\ \A k : CaughtUp(k)' <=> CaughtUp(k)
<1>1. Gap \in Nat /\ Gap <= Len(stored) /\ DOMAIN stored = 1..Len(stored) /\ Len(stored) \in Nat
  BY BalanceAssumption DEF EpochInv, GapBelow, TypeOK
<1>2. \A i \in 1..Gap : stored'[i] = stored[i]
  <2>1. ASSUME NEW n \in DOMAIN stored, NodeReorg(n) PROVE \A i \in 1..Gap : stored'[i] = stored[i]
    <3> TAKE i \in 1..Gap
    <3>1. i \in DOMAIN stored /\ i < n
      BY <1>1, <2>1 DEF NodeReorg
    <3> QED BY <2>1, <3>1 DEF NodeReorg
  <2>2. ASSUME NEW ks \in SUBSET Keys, StoreBlock(ks) PROVE \A i \in 1..Gap : stored'[i] = stored[i]
    BY <1>1, <2>2 DEF StoreBlock, TypeOK
  <2>3. ASSUME CommitRevert PROVE \A i \in 1..Gap : stored'[i] = stored[i]
    <3>1. stored' = SubSeq(stored, 1, Len(stored) - 1)
      BY <2>3 DEF CommitRevert, Top
    <3>2. Gap < Len(stored)
      BY <2>3 DEF CommitRevert, EpochInv, GapBelow
    <3> QED BY <1>1, <3>1, <3>2 DEF TypeOK
  <2> QED BY <2>1, <2>2, <2>3
<1> QED BY <1>1, <1>2 DEF CaughtUp

\* A block of the gap makes the keys it touches caught up, and no key less so.
LEMMA GapFilled ==
    ASSUME TypeOK, EpochInv, GapReads, NEW n \in missing, NEW ks \in SUBSET Keys, CatchupStore(n, ks)
    PROVE  /\ \A i \in 1..Gap : i # n => stored'[i] = stored[i]
           /\ \A k : CaughtUp(k) => CaughtUp(k)'
           /\ \A k \in ks : CaughtUp(k)'
<1>1. n \in 1..Gap /\ n \in DOMAIN stored /\ \A i \in 1..Gap : i # n => stored'[i] = stored[i]
  BY BalanceAssumption DEF CatchupStore, EpochInv, GapBelow, TypeOK
<1>2. stored'[n].keys = ks /\ stored[n].keys = {}
  BY <1>1 DEF CatchupStore, GapReads
<1> QED BY <1>1, <1>2 DEF CaughtUp

\* Every step keeps the reads of the gap among the keys catch-up touched.
LEMMA GapReadsStep ==
    ASSUME TypeOK, EpochInv, GapReads, [Next]_vars
    PROVE  GapReads'
<1>1. CASE \/ \E n \in DOMAIN stored : NodeReorg(n)
           \/ \E ks \in SUBSET Keys : StoreBlock(ks)
           \/ CommitRevert
  <2>1. /\ \A i \in 1..Gap : stored'[i] = stored[i]
        /\ \A k : CaughtUp(k)' <=> CaughtUp(k)
    BY <1>1, GapKept
  <2>2. missing' = missing /\ missing \subseteq 1..Gap
    BY <1>1 DEF NodeReorg, StoreBlock, CommitRevert, TypeOK
  <2>3. \A d \in decided' : d \in decided \/ ~(d.block <= Gap)
    <3>1. ASSUME NEW ks \in SUBSET Keys, StoreBlock(ks) PROVE \A d \in decided' : d \in decided \/ d.block = Len(stored) + 1
      BY <3>1 DEF StoreBlock
    <3>2. Gap \in Nat /\ Gap <= Len(stored) /\ Len(stored) \in Nat
      BY <1>1, GapKept DEF TypeOK
    <3>3. CASE decided' = decided
      BY <3>3
    <3> QED BY <1>1, <3>1, <3>2, <3>3 DEF NodeReorg, CommitRevert
  <2> QED BY <2>1, <2>2, <2>3 DEF GapReads
<1>2. ASSUME NEW n \in missing, NEW ks \in SUBSET Keys, CatchupStore(n, ks) PROVE GapReads'
  <2>1. /\ missing' = missing \ {n} /\ missing \subseteq 1..Gap
        /\ \A d \in decided' : d \in decided \/ d.key \in ks
    BY <1>2 DEF CatchupStore, TypeOK
  <2> QED BY <1>2, <2>1, GapFilled DEF GapReads
<1>3. CASE UNCHANGED <<stored, missing>> /\ decided' \subseteq decided
  BY <1>3 DEF GapReads, CaughtUp
<1>4. CASE Pool \/ HoldEpoch \/ LockBalances \/ TakeEpoch \/ ReleaseEpoch
  <2>1. UNCHANGED <<stored, missing>> /\ decided' \subseteq decided
    BY <1>4 DEF Pool, QueueCommittedWork, Fold, FetchBalance, InsertBalancesBatch, HoldEpoch, LockBalances, TakeEpoch,
                ReleaseEpoch
  <2> QED BY <1>3, <2>1
<1>5. CASE AbortRevert \/ Reread \/ Restart \/ UNCHANGED vars
  <2>1. UNCHANGED <<stored, missing>> /\ decided' \subseteq decided
    BY <1>5 DEF AbortRevert, Reread, ClaimBalanceRereads, RereadBalances, Restart, vars
  <2> QED BY <1>3, <2>1
<1> QED BY <1>1, <1>2, <1>4, <1>5 DEF Next, Revert

\* The node's reorg only moves its fork: what was read before is not newer than before.
LEMMA ReorgStep ==
    ASSUME TypeOK, EpochInv, NEW n \in DOMAIN stored, NodeReorg(n)
    PROVE  EpochInv'
<1> USE DEF TypeOK
<1>1. Len(stored') = Len(stored) /\ fork' = fork + 1
  <2>1. DOMAIN stored' = 1..Len(stored) /\ Len(stored) \in Nat
    BY DEF NodeReorg
  <2>2. \E m \in Nat : DOMAIN stored' = 1..m
    BY <2>1
  <2> QED BY <2>1 DEF NodeReorg
<1>2. /\ UNCHANGED <<epoch, rereads, history, current, poolVars, reverting, ghosts>>
      /\ n > Gap /\ \A i \in DOMAIN stored : i < n => stored'[i] = stored[i]
  BY DEF NodeReorg
<1>21. (\A i \in 1..Gap : stored'[i] = stored[i]) /\ \A k : CaughtUp(k)' <=> CaughtUp(k)
  BY GapKept
<1>3. \A k \in Keys : revertFork'[k] <= fork'
  BY <1>1, <1>2 DEF EpochInv
<1>4. WorkFresh'
  BY <1>1, <1>2, <1>21 DEF EpochInv, WorkFresh, Fresh
<1>5. NoForkBalance' /\ RowsWithinHead'
  BY <1>1, <1>2, <1>21 DEF EpochInv, NoForkBalance, Doubtful, RowsWithinHead
<1>6. EpochBounds' /\ EpochUnused' /\ RowBacked'
  BY <1>2 DEF EpochInv, EpochBounds, EpochUnused, RowBacked
<1>7. GapBelow'
  BY <1>1, <1>2, <1>21 DEF EpochInv, GapBelow
<1> QED BY <1>3, <1>4, <1>5, <1>6, <1>7 DEF EpochInv

\* A new block is above every row, so the reads it decides are fresh.
LEMMA StoreStep ==
    ASSUME TypeOK, EpochInv, NEW ks \in SUBSET Keys, StoreBlock(ks)
    PROVE  EpochInv'
<1> USE DEF TypeOK
<1>1. /\ Len(stored') = Len(stored) + 1 /\ Len(stored) \in Nat
      /\ \A i \in 1..Len(stored) : stored'[i] = stored[i]
  BY DEF StoreBlock
<1>2. /\ UNCHANGED <<fork, epoch, rereads, history, current, poolEpoch, queue, batch, claimed, reverting, ghosts>>
      /\ decided' = decided \cup {[key |-> k, block |-> Len(stored) + 1] : k \in ks}
      /\ reverting = "no"
  BY DEF StoreBlock
<1>21. /\ Gap \in Nat /\ Gap <= Len(stored) /\ \A i \in 1..Gap : stored'[i] = stored[i]
       /\ \A k : CaughtUp(k)' <=> CaughtUp(k)
  BY GapKept
<1>3. RowsWithinHead' /\ NoForkBalance'
  BY <1>1, <1>2, <1>21 DEF EpochInv, RowsWithinHead, NoForkBalance, Doubtful, Row
<1>4. WorkFresh'
  <2>1. ASSUME NEW d \in decided' PROVE Fresh(d.key, d.block)'
    <3>1. CASE d \in decided
      BY <1>1, <1>2, <1>21, <3>1 DEF EpochInv, WorkFresh, Fresh
    <3>2. ASSUME NEW k \in ks, d = [key |-> k, block |-> Len(stored) + 1] PROVE Fresh(d.key, d.block)'
      BY <1>1, <1>2, <3>2 DEF EpochInv, RowsWithinHead, Fresh, Row
    <3> QED BY <1>2, <2>1, <3>1, <3>2
  <2>2. ASSUME NEW w \in queue, w.epoch >= epoch PROVE Fresh(w.key, w.block)'
    BY <1>1, <1>2, <1>21, <2>2 DEF EpochInv, WorkFresh, Fresh, Work
  <2>3. ASSUME NEW r \in batch, r.epoch >= epoch PROVE Fresh(r.key, r.block)' /\ r.fork >= revertFork[r.key]
    BY <1>1, <1>2, <1>21, <2>3 DEF EpochInv, WorkFresh, Fresh, Read
  <2> QED BY <1>2, <2>1, <2>2, <2>3 DEF WorkFresh
<1>5. EpochBounds' /\ EpochUnused' /\ RowBacked'
  <2>1. EpochBounds'
    BY <1>2 DEF EpochInv, EpochBounds
  <2>2. EpochUnused'
    BY <1>2 DEF EpochInv, EpochUnused
  <2>3. RowBacked'
    BY <1>2 DEF EpochInv, RowBacked
  <2> QED BY <2>1, <2>2, <2>3
<1>6. GapBelow'
  <2>1. Gap <= Len(stored') /\ \A n \in 1..Gap : ~stored'[n].dead
    BY <1>1, <1>21 DEF EpochInv, GapBelow
  <2> QED BY <1>2, <2>1 DEF GapBelow
<1> QED BY <1>2, <1>3, <1>4, <1>5, <1>6 DEF EpochInv

\* A block of the gap is below the head, and the keys it touches are caught up.
LEMMA CatchupStep ==
    ASSUME TypeOK, EpochInv, GapReads, NEW n \in missing, NEW ks \in SUBSET Keys, CatchupStore(n, ks)
    PROVE  EpochInv'
<1> USE DEF TypeOK
<1>1. /\ Len(stored') = Len(stored) /\ Len(stored) \in Nat /\ n \in 1..Gap /\ Gap <= Len(stored)
      /\ \A i \in 1..Len(stored) : ~stored[i].dead => ~stored'[i].dead
  <2>1. DOMAIN stored = 1..Len(stored) /\ Len(stored) \in Nat
    OBVIOUS
  <2>2. /\ DOMAIN stored' = 1..Len(stored)
        /\ \A i \in 1..Len(stored) : stored'[i] = stored[i] \/ ~stored'[i].dead
    BY <2>1 DEF CatchupStore
  <2>3. Len(stored') = Len(stored)
    BY FilledInPlace
  <2>4. n \in 1..Gap /\ Gap <= Len(stored)
    BY DEF EpochInv, GapBelow
  <2>5. \A i \in 1..Len(stored) : ~stored[i].dead => ~stored'[i].dead
    BY <2>2
  <2> QED BY <2>1, <2>3, <2>4, <2>5
<1>2. /\ UNCHANGED <<fork, epoch, rereads, history, current, poolEpoch, queue, batch, claimed, reverting, ghosts>>
      /\ decided' = decided \cup {[key |-> k, block |-> n] : k \in ks}
  BY DEF CatchupStore
<1>21. (\A k : CaughtUp(k) => CaughtUp(k)') /\ (\A k \in ks : CaughtUp(k)')
  BY GapFilled
<1>3. RowsWithinHead' /\ NoForkBalance'
  BY <1>1, <1>2, <1>21 DEF EpochInv, RowsWithinHead, NoForkBalance, Doubtful
<1>4. WorkFresh'
  <2>1. \A k, m : Fresh(k, m) => Fresh(k, m)'
    BY <1>1, <1>2, <1>21 DEF Fresh
  <2>2. ASSUME NEW d \in decided' PROVE Fresh(d.key, d.block)'
    <3>1. ASSUME NEW k \in ks, d = [key |-> k, block |-> n] PROVE Fresh(d.key, d.block)'
      BY <1>1, <1>21, <3>1, BalanceAssumption DEF Fresh
    <3> QED BY <1>2, <2>1, <2>2, <3>1 DEF EpochInv, WorkFresh
  <2> QED BY <1>2, <2>1, <2>2 DEF EpochInv, WorkFresh
<1>5. EpochBounds' /\ EpochUnused' /\ RowBacked'
  BY <1>2 DEF EpochInv, EpochBounds, EpochUnused, RowBacked
<1>6. GapBelow'
  <2>1. \A d \in decided' : d \in decided \/ d.block = n
    BY <1>2
  <2>2. \A i \in 1..Gap : ~stored'[i].dead
    BY <1>1, BalanceAssumption DEF EpochInv, GapBelow
  <2> QED BY <1>1, <1>2, <2>1, <2>2, BalanceAssumption DEF EpochInv, GapBelow
<1> QED BY <1>2, <1>3, <1>4, <1>5, <1>6 DEF EpochInv

\* Work that moves on inside the pool: stamped, folded or read.  Its block stays fresh, and a read sees the node's
\* present fork, which no revert is ahead of.
LEMMA PoolStep ==
    ASSUME TypeOK, EpochInv,
           \/ \E d \in decided : QueueCommittedWork(d)
           \/ \E a, b \in queue : Fold(a, b)
           \/ \E w \in queue : FetchBalance(w)
    PROVE  EpochInv'
<1> USE DEF TypeOK
<1>1. ASSUME NEW d \in decided, QueueCommittedWork(d) PROVE EpochInv'
  <2> DEFINE new == [key |-> d.key, block |-> d.block, epoch |-> poolEpoch]
  <2>1. /\ reverting = "no" /\ decided' = decided \ {d} /\ queue' = queue \cup {new}
        /\ UNCHANGED <<fork, stored, epoch, rereads, history, current, poolEpoch, batch, claimed, reverting, ghosts>>
    BY <1>1 DEF QueueCommittedWork, Gated
  <2>2. Fresh(new.key, new.block) /\ new.epoch <= epoch
    BY DEF EpochInv, WorkFresh, EpochBounds
  <2>3. EpochBounds' /\ EpochUnused'
    BY <2>1, <2>2 DEF EpochInv, EpochBounds, EpochUnused
  <2>4. WorkFresh'
    <3>1. \A k, n : Fresh(k, n)' <=> Fresh(k, n)
      BY <2>1 DEF Fresh, CaughtUp
    <3> HIDE DEF new
    <3> QED BY <2>1, <2>2, <3>1 DEF EpochInv, WorkFresh
  <2>5. NoForkBalance' /\ RowsWithinHead' /\ RowBacked' /\ GapBelow'
    BY <2>1 DEF EpochInv, NoForkBalance, Doubtful, CaughtUp, RowsWithinHead, RowBacked, GapBelow
  <2> QED BY <2>1, <2>3, <2>4, <2>5 DEF EpochInv
<1>2. ASSUME NEW a \in queue, NEW b \in queue, Fold(a, b) PROVE EpochInv'
  <2> DEFINE new == Folded(a, b)
  <2>1. /\ a.key = b.key /\ queue' = (queue \ {a, b}) \cup {new}
        /\ UNCHANGED <<fork, stored, epoch, rereads, history, current, poolEpoch, decided, batch, claimed,
                        reverting, ghosts>>
    BY <1>2 DEF Fold
  <2>2. new.epoch <= epoch /\ (reverting = "numbered" => new.epoch < epoch)
    BY <2>1 DEF Folded, EpochInv, EpochBounds, EpochUnused, Work
  <2>3. new.epoch >= epoch => Fresh(new.key, new.block)
    BY <2>1 DEF Folded, EpochInv, EpochBounds, WorkFresh, Fresh, Work, Row
  <2>4. EpochBounds' /\ EpochUnused'
    <3> HIDE DEF new
    <3> QED BY <2>1, <2>2 DEF EpochInv, EpochBounds, EpochUnused
  <2>5. WorkFresh'
    <3>1. \A k, n : Fresh(k, n)' <=> Fresh(k, n)
      BY <2>1 DEF Fresh, CaughtUp
    <3> HIDE DEF new
    <3> QED BY <2>1, <2>3, <3>1 DEF EpochInv, WorkFresh
  <2>6. NoForkBalance' /\ RowsWithinHead' /\ RowBacked' /\ GapBelow'
    BY <2>1 DEF EpochInv, NoForkBalance, Doubtful, CaughtUp, RowsWithinHead, RowBacked, GapBelow
  <2> QED BY <2>1, <2>4, <2>5, <2>6 DEF EpochInv
<1>3. ASSUME NEW w \in queue, FetchBalance(w) PROVE EpochInv'
  <2> DEFINE new == [key |-> w.key, block |-> w.block, epoch |-> w.epoch, fork |-> fork]
  <2>1. /\ queue' = queue \ {w} /\ (batch' = batch \/ batch' = batch \cup {new})
        /\ UNCHANGED <<fork, stored, epoch, rereads, history, current, poolEpoch, decided, claimed,
                        reverting, ghosts>>
    BY <1>3 DEF FetchBalance
  <2>2. /\ new.epoch <= epoch /\ (reverting = "numbered" => new.epoch < epoch)
        /\ new.epoch >= epoch => Fresh(new.key, new.block)
        /\ new.fork >= revertFork[new.key]
    BY DEF EpochInv, EpochBounds, EpochUnused, WorkFresh, Work
  <2>3. EpochBounds' /\ EpochUnused'
    <3> HIDE DEF new
    <3> QED BY <2>1, <2>2 DEF EpochInv, EpochBounds, EpochUnused
  <2>4. WorkFresh'
    <3>1. \A k, n : Fresh(k, n)' <=> Fresh(k, n)
      BY <2>1 DEF Fresh, CaughtUp
    <3> HIDE DEF new
    <3> QED BY <2>1, <2>2, <3>1 DEF EpochInv, WorkFresh
  <2>5. NoForkBalance' /\ RowsWithinHead' /\ RowBacked' /\ GapBelow'
    BY <2>1 DEF EpochInv, NoForkBalance, Doubtful, CaughtUp, RowsWithinHead, RowBacked, GapBelow
  <2> QED BY <2>1, <2>3, <2>4, <2>5 DEF EpochInv
<1> QED BY <1>1, <1>2, <1>3

(***************************************************************************)
(* The heart of it: a flush.  A read it writes is at the latest epoch, so  *)
(* it was made after the last revert of its key and sits at or below the   *)
(* head; when it answers a request whose key has a fork-era current row,   *)
(* it is not below that row, and replaces it.                              *)
(***************************************************************************)
LEMMA FlushStep ==
    ASSUME TypeOK, EpochInv, NEW k \in Keys, NEW S \in SUBSET batch, InsertBalancesBatch(k, S)
    PROVE  EpochInv'
<1> USE DEF TypeOK
<1> DEFINE kept == {r \in S : r.epoch >= epoch}
<1>1. /\ ~Locked /\ S # {} /\ (\A r \in S : r.key = k) /\ batch' = batch \ S
      /\ UNCHANGED <<fork, stored, epoch, poolEpoch, decided, queue, claimed, reverting, revertFork>>
  BY DEF InsertBalancesBatch
<1>2. CASE UNCHANGED <<history, current, rereads, givenUp>>
  <2>1. \A x, n : Fresh(x, n)' <=> Fresh(x, n)
    BY <1>1, <1>2 DEF Fresh, CaughtUp
  <2>2. WorkFresh'
    BY <1>1, <2>1 DEF EpochInv, WorkFresh
  <2>3. EpochBounds' /\ EpochUnused'
    BY <1>1, <1>2 DEF EpochInv, EpochBounds, EpochUnused
  <2>4. NoForkBalance' /\ RowsWithinHead' /\ RowBacked' /\ GapBelow'
    BY <1>1, <1>2 DEF EpochInv, NoForkBalance, Doubtful, CaughtUp, RowsWithinHead, RowBacked, GapBelow
  <2> QED BY <1>1, <2>2, <2>3, <2>4 DEF EpochInv
<1>3. ASSUME NEW rows \in LastArrivals(kept),
             history' = [history EXCEPT ![k] = Merged(@, rows)],
             \/ \E r \in rows : /\ Highest(rows, r) /\ r.block >= current[k].block
                                /\ current' = [current EXCEPT ![k] = r]
             \/ (\A r \in rows : r.block < current[k].block) /\ UNCHANGED current,
             \/ kept # S /\ rereads' = Reopened(k, epoch) /\ givenUp' = givenUp \ {k}
             \/ kept = S /\ rereads' = Answered(k) /\ UNCHANGED givenUp
      PROVE  EpochInv'
  <2>1. ASSUME NEW x \in rows
        PROVE  /\ x \in Row /\ x.block <= Len(stored) /\ x.fork >= revertFork[k]
               /\ CaughtUp(k) \/ (current[k].fork < revertFork[k] => current[k].block <= x.block)
    <3>1. PICK r \in kept : x = [block |-> r.block, fork |-> r.fork]
      BY DEF LastArrivals
    <3>2. r \in batch /\ r.epoch >= epoch /\ r.key = k
      BY <1>1
    <3>3. Fresh(k, r.block) /\ r.fork >= revertFork[k]
      BY <3>2 DEF EpochInv, WorkFresh
    <3>4. r \in Read
      BY <3>2
    <3> QED BY <3>1, <3>3, <3>4 DEF Fresh, Row, Read
  <2>2. kept # {} => rows # {}
    <3> SUFFICES ASSUME NEW r \in kept, rows = {} PROVE FALSE
      OBVIOUS
    <3>1. Cardinality({x \in rows : x.block = r.block}) = 1
      BY DEF LastArrivals
    <3>2. {x \in rows : x.block = r.block} = {}
      OBVIOUS
    <3> QED BY <3>1, <3>2, FS_EmptySet
  <2>3. /\ \A x \in Keys \ {k} : history'[x] = history[x] /\ current'[x] = current[x]
                                /\ rereads'[x] = rereads[x] /\ (x \in givenUp' <=> x \in givenUp)
        /\ history'[k] = Merged(history[k], rows)
    BY <1>3 DEF Reopened, Answered
  <2>4. /\ current'[k] = current[k] \/ current'[k] \in rows
        /\ ~CaughtUp(k) /\ kept # {} /\ current[k].fork < revertFork[k] => current'[k] \in rows
    <3>1. CASE \E r \in rows : current' = [current EXCEPT ![k] = r]
      BY <3>1
    <3>2. CASE (\A r \in rows : r.block < current[k].block) /\ UNCHANGED current
      BY <2>1, <2>2, <3>2 DEF Row
    <3> QED BY <1>3, <3>1, <3>2
  <2>5. NoForkBalance'
    <3> SUFFICES ASSUME NEW x \in Keys, ~CaughtUp(x), current'[x].block > 0, current'[x].fork < revertFork[x]
                 PROVE  rereads'[x].open \/ x \in givenUp'
      BY <1>1 DEF NoForkBalance, Doubtful, CaughtUp
    <3>1. CASE x # k
      BY <2>3, <3>1 DEF EpochInv, NoForkBalance, Doubtful
    <3>2. CASE x = k /\ kept # S
      BY <1>3, <3>2 DEF Reopened
    <3>3. CASE x = k /\ kept = S
      BY <1>1, <2>1, <2>4, <3>3 DEF Row
    <3> QED BY <3>1, <3>2, <3>3
  <2>6. RowsWithinHead'
    <3> SUFFICES ASSUME NEW x \in Keys
                 PROVE  current'[x].block <= Len(stored) /\ \A h \in history'[x] : h.block <= Len(stored)
      BY <1>1 DEF RowsWithinHead
    <3> QED BY <2>1, <2>3, <2>4 DEF EpochInv, RowsWithinHead, Merged
  <2>7. RowBacked'
    <3> SUFFICES ASSUME NEW x \in Keys, current'[x].block > 0
                 PROVE  \E h \in history'[x] : h.block = current'[x].block
      BY DEF RowBacked
    <3>1. CASE x # k
      BY <2>3, <3>1 DEF EpochInv, RowBacked
    <3>2. CASE x = k /\ current'[k] \in rows
      BY <2>3, <3>2 DEF Merged
    <3>3. CASE x = k /\ current'[k] = current[k] /\ current'[k] \notin rows
      <4>1. PICK h \in history[k] : h.block = current[k].block
        BY <3>3 DEF EpochInv, RowBacked
      <4>2. \A r \in rows : r.block < current[k].block
        BY <1>3, <3>3
      <4>3. h \in history'[k]
        BY <2>1, <2>3, <4>1, <4>2 DEF Merged, Row
      <4> QED BY <3>3, <4>1, <4>3
    <3> QED BY <2>4, <3>1, <3>2, <3>3
  <2>8. WorkFresh'
    <3>1. ASSUME NEW x \in Keys, NEW n, Fresh(x, n) PROVE Fresh(x, n)'
      <4>1. CASE current'[x] = current[x]
        BY <1>1, <3>1, <4>1 DEF Fresh, CaughtUp
      <4>2. CASE x = k /\ current'[k] \in rows
        <5>1. current'[k].fork \in Nat /\ revertFork[k] \in Nat /\ current'[k].fork >= revertFork[k]
          BY <2>1, <4>2 DEF Row
        <5> QED BY <1>1, <3>1, <4>2, <5>1 DEF Fresh, CaughtUp
      <4> QED BY <2>3, <2>4, <4>1, <4>2
    <3>2. \A d \in decided : d.key \in Keys
      OBVIOUS
    <3>3. (\A w \in queue : w.key \in Keys) /\ (\A r \in batch : r.key \in Keys)
      BY DEF Work, Read
    <3> QED BY <1>1, <3>1, <3>2, <3>3 DEF EpochInv, WorkFresh
  <2>9. EpochBounds'
    <3>1. \A x \in Keys : rereads'[x].epoch <= epoch
      <4> TAKE x \in Keys
      <4>1. rereads[x].epoch <= epoch /\ rereads[x].epoch \in Nat
        BY DEF EpochInv, EpochBounds
      <4>2. CASE x # k
        BY <2>3, <4>1, <4>2
      <4>3. CASE x = k /\ rereads' = Reopened(k, epoch)
        BY <4>1, <4>3 DEF Reopened
      <4>4. CASE x = k /\ rereads' = Answered(k)
        BY <4>1, <4>4 DEF Answered
      <4> QED BY <1>3, <4>2, <4>3, <4>4
    <3> QED BY <1>1, <3>1 DEF EpochInv, EpochBounds
  <2>10. EpochUnused' /\ GapBelow'
    BY <1>1 DEF EpochInv, EpochUnused, GapBelow
  <2> QED BY <1>1, <2>5, <2>6, <2>7, <2>8, <2>9, <2>10 DEF EpochInv
<1> QED BY <1>2, <1>3 DEF InsertBalancesBatch

\* A revert up to its commit, its abort and its release: taking the epoch leaves no work at the latest one.
LEMMA RevertStep ==
    ASSUME TypeOK, EpochInv,
           HoldEpoch \/ LockBalances \/ TakeEpoch \/ AbortRevert \/ ReleaseEpoch
    PROVE  EpochInv'
<1> USE DEF TypeOK
<1>1. UNCHANGED <<fork, stored, rereads, history, current, decided, queue, batch, claimed, ghosts>>
  BY DEF HoldEpoch, LockBalances, TakeEpoch, AbortRevert, ReleaseEpoch
<1>2. /\ epoch' = epoch \/ epoch' = epoch + 1
      /\ poolEpoch' <= epoch'
      /\ reverting' = "numbered" => epoch' = epoch + 1
  BY DEF HoldEpoch, LockBalances, TakeEpoch, AbortRevert, ReleaseEpoch, EpochInv, EpochBounds
<1>6. GapBelow'
  <2>1. CASE HoldEpoch
    <3>1. Gap < Len(stored)
      BY <2>1, BalanceAssumption DEF HoldEpoch, Top, EpochInv, GapBelow
    <3> QED BY <1>1, <2>1, <3>1 DEF HoldEpoch, EpochInv, GapBelow
  <2>2. CASE LockBalances \/ TakeEpoch \/ AbortRevert \/ ReleaseEpoch
    BY <1>1, <2>2 DEF LockBalances, TakeEpoch, AbortRevert, ReleaseEpoch, EpochInv, GapBelow
  <2> QED BY <2>1, <2>2
<1>3. EpochBounds' /\ EpochUnused'
  BY <1>1, <1>2 DEF EpochInv, EpochBounds, EpochUnused, Work, Read
<1>4. WorkFresh'
  <2>1. \A x, n : Fresh(x, n)' <=> Fresh(x, n)
    BY <1>1 DEF Fresh, CaughtUp
  <2>2. (\A w \in queue : w.epoch \in Nat) /\ (\A r \in batch : r.epoch \in Nat)
    BY DEF Work, Read
  <2> QED BY <1>1, <1>2, <2>1, <2>2 DEF EpochInv, WorkFresh
<1>5. NoForkBalance' /\ RowsWithinHead' /\ RowBacked'
  BY <1>1 DEF EpochInv, NoForkBalance, Doubtful, CaughtUp, RowsWithinHead, RowBacked
<1> QED BY <1>1, <1>3, <1>4, <1>5, <1>6 DEF EpochInv

\* The commit of a revert: every key it touches is asked again, no row is left at the block, and no work carries its
\* epoch.
LEMMA CommitStep ==
    ASSUME TypeOK, EpochInv, GapReads, CommitRevert
    PROVE  EpochInv'
<1> USE DEF TypeOK
<1>1. /\ UNCHANGED <<fork, epoch, poolEpoch, decided, queue, batch, claimed>>
      /\ reverting = "numbered" /\ reverting' = "ended"
      /\ Gap < Len(stored) /\ \A d \in decided : d.block <= Gap
  BY DEF CommitRevert, EpochInv, GapBelow
<1>2. /\ Len(stored) \in Nat
      /\ \A n \in Nat : n <= Len(stored) /\ n # Len(stored) => n <= Len(stored')
  <2>1. CASE Len(stored) = 0
    BY <2>1
  <2>2. CASE Len(stored) # 0
    <3>1. Len(stored') = Len(stored) - 1
      <4>1. stored' = SubSeq(stored, 1, Len(stored) - 1)
        BY DEF CommitRevert, Top
      <4> QED BY <2>2, <4>1, DropLast
    <3> QED BY <2>2, <3>1
  <2> QED BY <2>1, <2>2
<1>3. ASSUME NEW k \in Keys
      PROVE  /\ history'[k] = Remaining(k)
             /\ current'[k] = IF HadRow(k) THEN Restored(k) ELSE current[k]
  BY DEF CommitRevert
<1>31. ASSUME NEW k \in Keys, Touched(k)
       PROVE  rereads'[k].epoch = epoch /\ rereads'[k].open /\ revertFork'[k] = fork
  BY <1>31 DEF CommitRevert
<1>32. ASSUME NEW k \in Keys, ~Touched(k)
       PROVE  /\ current'[k] = current[k] /\ rereads'[k] = rereads[k] /\ revertFork'[k] = revertFork[k]
              /\ k \in givenUp => k \in givenUp'
  <2>1. ~HadRow(k)
    BY <1>32 DEF Touched, HadRow
  <2> QED BY <1>32, <2>1 DEF CommitRevert
<1>4. ASSUME NEW k \in Keys, NEW h \in history'[k]
      PROVE  h \in history[k] /\ h.block \in Nat /\ h.block <= Len(stored) /\ h.block # Len(stored)
  BY <1>3, <1>4 DEF Remaining, Row, Top, EpochInv, RowsWithinHead
<1>41. (\A i \in 1..Gap : stored'[i] = stored[i]) /\ \A k : CaughtUp(k)' <=> CaughtUp(k)
  BY GapKept
<1>5. NoForkBalance'
  <2> SUFFICES ASSUME NEW k \in Keys, ~CaughtUp(k), current'[k].block > 0, current'[k].fork < revertFork'[k]
               PROVE  rereads'[k].open \/ k \in givenUp'
    BY <1>41 DEF NoForkBalance, Doubtful
  <2>1. CASE Touched(k)
    BY <1>31, <2>1
  <2>2. CASE ~Touched(k)
    <3>1. current'[k] = current[k] /\ rereads'[k] = rereads[k] /\ revertFork'[k] = revertFork[k]
      BY <1>32, <2>2
    <3>2. rereads[k].open \/ k \in givenUp
      BY <3>1 DEF EpochInv, NoForkBalance, Doubtful
    <3> QED BY <1>32, <2>2, <3>1, <3>2
  <2> QED BY <2>1, <2>2
<1>6. RowBacked'
  <2> SUFFICES ASSUME NEW k \in Keys, current'[k].block > 0
               PROVE  \E h \in history'[k] : h.block = current'[k].block
    BY DEF RowBacked
  <2>1. CASE HadRow(k)
    <3>1. current'[k] = Restored(k) /\ history'[k] = Remaining(k)
      BY <1>3, <2>1
    <3>2. Remaining(k) # {}
      <4> SUFFICES ASSUME Remaining(k) = {} PROVE FALSE
        OBVIOUS
      <4>1. current'[k] = None
        BY <3>1, RestoredRow
      <4> QED BY <4>1 DEF None
    <3> QED BY <3>1, <3>2, RestoredRow
  <2>2. CASE ~HadRow(k)
    <3>1. PICK h \in history[k] : h.block = current[k].block
      BY <1>3, <2>2 DEF EpochInv, RowBacked
    <3> QED BY <1>3, <2>2, <3>1 DEF HadRow, Remaining
  <2> QED BY <2>1, <2>2
<1>7. RowsWithinHead'
  <2> SUFFICES ASSUME NEW k \in Keys
               PROVE  current'[k].block <= Len(stored') /\ \A h \in history'[k] : h.block <= Len(stored')
    BY DEF RowsWithinHead
  <2>1. \A h \in history'[k] : h.block <= Len(stored')
    BY <1>2, <1>4
  <2>2. current'[k] \in Row
    BY <1>3, RestoredRow
  <2>3. CASE current'[k].block > 0
    BY <1>6, <2>1, <2>3 DEF RowBacked
  <2>4. CASE ~(current'[k].block > 0)
    <3>1. current'[k].block = 0
      BY <2>2, <2>4 DEF Row
    <3>2. Len(stored') \in Nat
      <4>1. stored' \in Seq(Block)
        BY DEF CommitRevert, Top
      <4> QED BY <4>1
    <3> QED BY <2>1, <3>1, <3>2
  <2> QED BY <2>1, <2>3, <2>4
<1>8. EpochBounds' /\ EpochUnused'
  <2>1. \A k \in Keys : rereads'[k].epoch <= epoch
    <3> TAKE k \in Keys
    <3>1. CASE Touched(k)
      BY <1>31, <3>1
    <3>2. CASE ~Touched(k)
      BY <1>32, <3>2 DEF EpochInv, EpochBounds
    <3> QED BY <3>1, <3>2
  <2> QED BY <1>1, <2>1 DEF EpochInv, EpochBounds, EpochUnused
<1>9. WorkFresh'
  <2>1. ASSUME NEW d \in decided PROVE Fresh(d.key, d.block)'
    <3>1. d.block \in Nat /\ d.block > 0 /\ d.block <= Gap /\ Gap \in Nat /\ Gap < Len(stored)
      BY <1>1, BalanceAssumption
    <3>2. CaughtUp(d.key)'
      BY <1>41, <3>1 DEF GapReads
    <3> QED BY <1>2, <3>1, <3>2 DEF Fresh
  <2>2. (\A w \in queue : ~(w.epoch >= epoch)) /\ (\A r \in batch : ~(r.epoch >= epoch))
    BY <1>1 DEF EpochInv, EpochUnused, Work, Read
  <2> QED BY <1>1, <2>1, <2>2 DEF WorkFresh
<1>11. GapBelow'
  <2>1. Gap <= Len(stored')
    BY <1>1, <1>2, BalanceAssumption
  <2> QED BY <1>1, <1>41, <2>1 DEF EpochInv, GapBelow
<1>10. \A k \in Keys : revertFork'[k] <= fork'
  <2> TAKE k \in Keys
  <2>1. CASE Touched(k)
    BY <1>1, <1>31, <2>1
  <2>2. CASE ~Touched(k)
    BY <1>1, <1>32, <2>2 DEF EpochInv
  <2> QED BY <2>1, <2>2
<1> QED BY <1>5, <1>6, <1>7, <1>8, <1>9, <1>10, <1>11 DEF EpochInv

\* A claim is not made while a revert holds the lock, and a claimed key is queued at the head.
LEMMA RereadStep ==
    ASSUME TypeOK, EpochInv, ClaimBalanceRereads \/ RereadBalances
    PROVE  EpochInv'
<1> USE DEF TypeOK
<1>1. CASE ClaimBalanceRereads
  <2>1. /\ reverting # "numbered"
        /\ UNCHANGED <<fork, stored, epoch, history, current, poolEpoch, decided, queue, batch, reverting, revertFork>>
    BY <1>1 DEF ClaimBalanceRereads, Locked
  <2>2. ASSUME NEW k \in Keys
        PROVE  /\ rereads'[k].epoch = rereads[k].epoch
               /\ rereads[k].open \/ k \in givenUp => rereads'[k].open \/ k \in givenUp'
    BY <1>1 DEF ClaimBalanceRereads
  <2>3. \A c \in claimed' : c.epoch <= epoch
    BY <1>1 DEF ClaimBalanceRereads, EpochInv, EpochBounds
  <2>4. EpochBounds' /\ EpochUnused'
    BY <2>1, <2>2, <2>3 DEF EpochInv, EpochBounds, EpochUnused
  <2>5. WorkFresh'
    BY <2>1 DEF EpochInv, WorkFresh, Fresh, CaughtUp
  <2>6. NoForkBalance'
    BY <2>1, <2>2 DEF EpochInv, NoForkBalance, Doubtful, CaughtUp
  <2>7. RowsWithinHead' /\ RowBacked' /\ GapBelow'
    BY <2>1 DEF EpochInv, RowsWithinHead, RowBacked, GapBelow
  <2> QED BY <2>1, <2>4, <2>5, <2>6, <2>7 DEF EpochInv
<1>2. CASE RereadBalances
  <2> DEFINE new == {[key |-> c.key, block |-> Len(stored), epoch |-> c.epoch] : c \in claimed}
  <2>1. /\ claimed' = {} /\ (queue' = queue \/ queue' = queue \cup new)
        /\ UNCHANGED <<fork, stored, epoch, rereads, history, current, poolEpoch, decided, batch, reverting, ghosts>>
    BY <1>2 DEF RereadBalances, Top
  <2>2. ASSUME NEW w \in new
        PROVE  w.epoch <= epoch /\ (reverting = "numbered" => w.epoch < epoch) /\ Fresh(w.key, w.block)
    <3>1. PICK c \in claimed : w = [key |-> c.key, block |-> Len(stored), epoch |-> c.epoch]
      OBVIOUS
    <3>2. c.key \in Keys /\ c.epoch <= epoch /\ (reverting = "numbered" => c.epoch < epoch)
      BY DEF EpochInv, EpochBounds, EpochUnused
    <3> QED BY <3>1, <3>2 DEF EpochInv, RowsWithinHead, Fresh
  <2>3. EpochBounds' /\ EpochUnused'
    <3> HIDE DEF new
    <3> QED BY <2>1, <2>2 DEF EpochInv, EpochBounds, EpochUnused
  <2>4. WorkFresh'
    <3>1. \A x, n : Fresh(x, n)' <=> Fresh(x, n)
      BY <2>1 DEF Fresh, CaughtUp
    <3> HIDE DEF new
    <3> QED BY <2>1, <2>2, <3>1 DEF EpochInv, WorkFresh
  <2>5. NoForkBalance' /\ RowsWithinHead' /\ RowBacked' /\ GapBelow'
    BY <2>1 DEF EpochInv, NoForkBalance, Doubtful, CaughtUp, RowsWithinHead, RowBacked, GapBelow
  <2> QED BY <2>1, <2>3, <2>4, <2>5 DEF EpochInv
<1> QED BY <1>1, <1>2

\* A restart forgets all work and starts at the latest epoch.
LEMMA RestartStep ==
    ASSUME TypeOK, EpochInv, Restart
    PROVE  EpochInv'
<1> USE DEF TypeOK
<1>1. /\ UNCHANGED <<fork, stored, epoch, rereads, history, current, ghosts>>
      /\ decided' = {} /\ queue' = {} /\ batch' = {} /\ claimed' = {} /\ reverting' = "no" /\ poolEpoch' = epoch
  BY DEF Restart
<1>2. NoForkBalance' /\ RowsWithinHead' /\ RowBacked' /\ GapBelow'
  BY <1>1 DEF EpochInv, NoForkBalance, Doubtful, CaughtUp, RowsWithinHead, RowBacked, GapBelow
<1>3. EpochBounds' /\ EpochUnused' /\ WorkFresh'
  BY <1>1 DEF EpochInv, EpochBounds, EpochUnused, WorkFresh
<1> QED BY <1>1, <1>2, <1>3 DEF EpochInv
-----------------------------------------------------------------------------
LEMMA Initially == Init => IInv
<1> SUFFICES ASSUME Init PROVE IInv
  OBVIOUS
<1>1. TypeOK
  BY TypeInit
<1>2. Len(stored) = Gap /\ \A n \in 1..Gap : ~stored[n].dead
  BY BalanceAssumption DEF Init
<1>3. EpochInv
  BY <1>2, BalanceAssumption
  DEF Init, EpochInv, NoForkBalance, Doubtful, RowsWithinHead, EpochBounds, EpochUnused, WorkFresh, RowBacked, GapBelow, None
<1>4. GapReads
  <2>1. missing = 1..Gap /\ decided = {} /\ \A n \in 1..Gap : stored[n].keys = {}
    BY DEF Init
  <2> QED BY <2>1 DEF GapReads
<1> QED BY <1>1, <1>3, <1>4 DEF IInv

LEMMA Inductive == IInv /\ [Next]_vars => IInv'
<1> SUFFICES ASSUME IInv, [Next]_vars PROVE IInv'
  OBVIOUS
<1>1. TypeOK /\ GapReads /\ EpochInv
  BY DEF IInv
<1>2. TypeOK'
  BY <1>1, TypeStep
<1>3. EpochInv'
  <2>1. CASE UNCHANGED vars
    BY <1>1, <2>1
    DEF vars, EpochInv, NoForkBalance, Doubtful, CaughtUp, RowsWithinHead, EpochBounds, EpochUnused, WorkFresh, Fresh, RowBacked, GapBelow
  <2> QED
    BY <1>1, <2>1, ReorgStep, StoreStep, CatchupStep, PoolStep, FlushStep, RevertStep, CommitStep, RereadStep, RestartStep
    DEF Next, Pool, Revert, Reread
<1>4. GapReads'
  BY <1>1, GapReadsStep
<1> QED BY <1>2, <1>3, <1>4 DEF IInv

\* A current balance that a revert has made doubtful is asked for again until a read made after the revert replaces it
\* or the attempts run out, whatever is late, lost, repeated or restarted; only a transfer of its key that catch-up
\* stores can close the request otherwise.
THEOREM NoForkBalanceStays == Spec => []NoForkBalance
<1>1. IInv => NoForkBalance
  BY DEF IInv, EpochInv
<1> QED BY <1>1, Initially, Inductive, PTL DEF Spec

\* No balance row is ever above the stored head, catch-up or not, so none outlives its reverted block.
THEOREM RowsStayWithinHead == Spec => []RowsWithinHead
<1>1. IInv => RowsWithinHead
  BY DEF IInv, EpochInv
<1> QED BY <1>1, Initially, Inductive, PTL DEF Spec
=============================================================================
