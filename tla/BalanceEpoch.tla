---------------------------- MODULE BalanceEpoch ----------------------------
(***************************************************************************)
(* Token balances across reorgs.  A stored block decides balance reads;    *)
(* the pool stamps each with the reorg epoch, reads it later at the node's *)
(* latest state and writes it later still.  Reverting a block takes a new  *)
(* epoch, takes the block's balances off and asks for every key it touched *)
(* to be read again.  A flush drops the reads stamped before the latest    *)
(* epoch.                                                                  *)
(*                                                                         *)
(* A key is a (token, holder) pair.  A balance is represented by the node  *)
(* fork it was read on; holder counts and amounts are left out.  The       *)
(* flush and the claim are single steps: both hold the balance revert lock *)
(* shared, and a revert holds it exclusively from before it reads its keys *)
(* until it commits.  The revert is several steps, because its epoch is a  *)
(* sequence, visible before the commit.                                    *)
(***************************************************************************)
EXTENDS Naturals, Sequences, FiniteSets

CONSTANTS Keys,
          MaxBlock,     \* bound: the highest block stored
          MaxForks,     \* bound: reorgs of the node
          MaxFaults,    \* bound: calls to the node or the database that fail
          MaxCrashes,   \* bound: stops of the process
          MaxAttempts,  \* MaxBalanceRereadAttempts
          QueueSize,    \* bound: the room in workChan and the senders that wait for it
          BatchSize,    \* the reads the workers hold before they flush
          Gap           \* blocks 1..Gap are missing below realtime's first block: catch-up stores them

ASSUME BalanceAssumption ==
    /\ MaxBlock \in Nat \ {0} /\ MaxForks \in Nat /\ MaxFaults \in Nat /\ MaxCrashes \in Nat
    /\ MaxAttempts \in Nat \ {0} /\ QueueSize \in Nat \ {0} /\ BatchSize \in Nat \ {0}
    /\ Gap \in 0..MaxBlock
    /\ IsFiniteSet(Keys)

VARIABLES
    fork,       \* the node's fork: how often it has replaced stored blocks
    stored,     \* the blocks up to the stored head: the keys each one's transfers touch, whether the node has
                \* replaced it
    missing,    \* the blocks of the gap that are not stored yet
    epoch,      \* the sequence balance_reorg_epoch
    rereads,    \* balance_rereads, by key; epoch 0: no row
    history,    \* the rows of balances, by key
    current,    \* token_balances_current, by key; block 0: no row, or one read while no block was stored
    poolEpoch,  \* BalanceWorkerPool.epoch
    decided,    \* the reads of committed blocks that are not stamped yet
    queue,      \* the stamped work that is not read yet
    batch,      \* the reads that are not flushed yet
    claimed,    \* the requests handed out that are not queued yet
    reverting,  \* the revert's progress: "no", "gated", "locked", "numbered", "ended"
    givenUp,    \* the keys whose request ran out of attempts
    revertFork, \* history variable: the node's fork when the last revert that touched the key committed
    faults, crashes

dbVars   == <<stored, missing, epoch, rereads, history, current>>
poolVars == <<poolEpoch, decided, queue, batch, claimed>>
ghosts   == <<givenUp, revertFork>>
vars == <<fork, stored, missing, epoch, rereads, history, current, poolEpoch, decided, queue, batch,
          claimed, reverting, givenUp, revertFork, faults, crashes>>

Block == [keys : SUBSET Keys, dead : BOOLEAN]
Row   == [block : 0..MaxBlock, fork : Nat]
None  == [block |-> 0, fork |-> 0]
Work  == [key : Keys, block : 0..MaxBlock, epoch : Nat]
Read  == [key : Keys, block : 0..MaxBlock, epoch : Nat, fork : Nat]

Greater(a, b) == IF a >= b THEN a ELSE b

Fault   == faults < MaxFaults /\ faults' = faults + 1
NoFault == faults' = faults

\* The balance revert lock and the pool's gate are held by a revert in progress.
Locked == reverting \in {"locked", "numbered"}
Gated  == reverting # "no"

\* Every variable has its type; a request is claimed at most MaxBalanceRereadAttempts times (ClaimBalanceRereads).
TypeOK ==
    /\ fork \in Nat /\ epoch \in Nat /\ poolEpoch \in Nat
    /\ stored \in Seq(Block) /\ Len(stored) <= MaxBlock
    /\ missing \in SUBSET (1..Gap)
    /\ rereads \in [Keys -> [epoch : Nat, open : BOOLEAN, attempts : 0..MaxAttempts]]
    /\ history \in [Keys -> SUBSET Row]
    /\ current \in [Keys -> Row]
    /\ decided \in SUBSET [key : Keys, block : 1..MaxBlock]
    /\ queue \in SUBSET Work
    /\ batch \in SUBSET Read
    /\ claimed \in SUBSET [key : Keys, epoch : Nat]
    /\ reverting \in {"no", "gated", "locked", "numbered", "ended"}
    /\ givenUp \in SUBSET Keys
    /\ revertFork \in [Keys -> Nat]
    /\ faults \in Nat /\ crashes \in Nat

Init ==
    /\ fork = 1 /\ epoch = 0
    /\ stored = [n \in 1..Gap |-> [keys |-> {}, dead |-> FALSE]] /\ missing = 1..Gap
    /\ rereads = [k \in Keys |-> [epoch |-> 0, open |-> FALSE, attempts |-> 0]]
    /\ history = [k \in Keys |-> {}] /\ current = [k \in Keys |-> None]
    /\ poolEpoch = 0 /\ decided = {} /\ queue = {} /\ batch = {} /\ claimed = {}
    /\ reverting = "no" /\ givenUp = {} /\ revertFork = [k \in Keys |-> 0]
    /\ faults = 0 /\ crashes = 0
-----------------------------------------------------------------------------
\* The node replaces its blocks from n up; the gap is old enough not to be replaced.
NodeReorg(n) ==
    /\ fork <= MaxForks /\ n \in DOMAIN stored /\ n > Gap /\ ~stored[n].dead
    /\ fork' = fork + 1
    /\ stored' = [i \in DOMAIN stored |-> IF i < n THEN stored[i] ELSE [keys |-> stored[i].keys, dead |-> TRUE]]
    /\ UNCHANGED <<missing, epoch, rereads, history, current, poolVars, reverting, ghosts, faults, crashes>>

\* Realtime commits the next block, with transfers touching ks: its reads are decided.  It writes and reverts in one
\* goroutine.
StoreBlock(ks) ==
    LET n == Len(stored) + 1
    IN  /\ n <= MaxBlock /\ reverting = "no" /\ \A i \in DOMAIN stored : ~stored[i].dead
        /\ stored' = Append(stored, [keys |-> ks, dead |-> FALSE])
        /\ decided' = decided \cup {[key |-> k, block |-> n] : k \in ks}
        /\ UNCHANGED <<fork, missing, epoch, rereads, history, current, poolEpoch, queue, batch, claimed, reverting,
                       ghosts, faults, crashes>>

\* A catch-up worker commits a block of the gap, beside realtime.
CatchupStore(n, ks) ==
    /\ n \in missing /\ missing' = missing \ {n}
    /\ stored' = [stored EXCEPT ![n] = [keys |-> ks, dead |-> FALSE]]
    /\ decided' = decided \cup {[key |-> k, block |-> n] : k \in ks}
    /\ UNCHANGED <<fork, epoch, rereads, history, current, poolEpoch, queue, batch, claimed, reverting,
                   ghosts, faults, crashes>>

\* QueueCommittedWork: stamped with the pool's epoch, which waits while a revert holds the gate, and then sent.  A send
\* that waits for room in workChan is stamped already, so it counts as queued.
QueueCommittedWork(d) ==
    /\ d \in decided /\ ~Gated /\ Cardinality(queue) < QueueSize
    /\ decided' = decided \ {d}
    /\ queue' = queue \cup {[key |-> d.key, block |-> d.block, epoch |-> poolEpoch]}
    /\ UNCHANGED <<fork, dbVars, poolEpoch, batch, claimed, reverting, ghosts, faults, crashes>>

\* Two items of one key become one read: the later epoch's block, the higher block at one epoch.
Folded(a, b) ==
    IF b.epoch > a.epoch THEN b
    ELSE IF b.epoch < a.epoch THEN a
    ELSE [a EXCEPT !.block = Greater(a.block, b.block)]

Fold(a, b) ==
    /\ a \in queue /\ b \in queue /\ a # b /\ a.key = b.key
    /\ queue' = (queue \ {a, b}) \cup {Folded(a, b)}
    /\ UNCHANGED <<fork, dbVars, poolEpoch, decided, batch, claimed, reverting, ghosts, faults, crashes>>

\* A worker reads the balance at the node's latest state; a read that fails is dropped.
FetchBalance(w) ==
    /\ w \in queue /\ queue' = queue \ {w} /\ Cardinality(batch) < BatchSize
    /\ \/ /\ batch' = batch \cup {[key |-> w.key, block |-> w.block, epoch |-> w.epoch, fork |-> fork]}
          /\ NoFault
       \/ UNCHANGED batch /\ Fault
    /\ UNCHANGED <<fork, dbVars, poolEpoch, decided, claimed, reverting, ghosts, crashes>>

(***************************************************************************)
(* InsertBalancesBatch of one key's reads.  A read stamped before the      *)
(* latest epoch is not written and its key is asked again; the others go   *)
(* to the history and, if no row at a higher block is there, to the        *)
(* current row, and answer the key's open request.                         *)
(***************************************************************************)
\* Mutant: a read that is dropped closes the request of its key.
DroppedAnswers(k, e) == [rereads EXCEPT ![k] = [epoch |-> rereads[k].epoch, open |-> FALSE, attempts |-> 0]]
Reopened(k, e) == [rereads EXCEPT ![k] = [epoch |-> Greater(rereads[k].epoch, e), open |-> TRUE, attempts |-> 0]]
Answered(k)    == [rereads EXCEPT ![k] = [epoch |-> rereads[k].epoch, open |-> FALSE,
                                          attempts |-> rereads[k].attempts]]
Highest(rows, x) == x \in rows /\ \A y \in rows : y.block <= x.block

\* The rows that reads S of one key leave: of two at one block the later arrival's, in either order.
LastArrivals(S) ==
    {rows \in SUBSET {[block |-> r.block, fork |-> r.fork] : r \in S} :
        \A r \in S : Cardinality({x \in rows : x.block = r.block}) = 1}

\* The insert into balances: a row at the same block is overwritten.
Merged(old, rows) == {h \in old : \A x \in rows : h.block # x.block} \cup rows

InsertBalancesBatch(k, S) ==
    LET kept == {r \in S : r.epoch >= epoch}
    IN  /\ ~Locked /\ S # {} /\ S \subseteq {r \in batch : r.key = k}
        /\ batch' = batch \ S
        /\ \/ /\ NoFault
              /\ \E rows \in LastArrivals(kept) :
                    /\ history' = [history EXCEPT ![k] = Merged(@, rows)]
                    /\ \/ \E r \in rows : /\ Highest(rows, r) /\ r.block >= current[k].block
                                          /\ current' = [current EXCEPT ![k] = r]
                       \/ (\A r \in rows : r.block < current[k].block) /\ UNCHANGED current
              /\ \/ kept # S /\ rereads' = Reopened(k, epoch) /\ givenUp' = givenUp \ {k}
                 \/ kept = S /\ rereads' = Answered(k) /\ UNCHANGED givenUp
           \/ Fault /\ UNCHANGED <<history, current, rereads, givenUp>>
        /\ UNCHANGED <<fork, stored, missing, epoch, poolEpoch, decided, queue, claimed, reverting, revertFork, crashes>>
-----------------------------------------------------------------------------
(***************************************************************************)
(* A revert of the top block, one transaction.                             *)
(***************************************************************************)
Top == Len(stored)

\* DeleteBlockLocked has the daily-stats lock: the pool's gate is taken.
HoldEpoch ==
    /\ reverting = "no" /\ Top > 0 /\ stored[Top].dead
    /\ \A d \in decided : d.block <= Gap
    /\ reverting' = "gated"
    /\ UNCHANGED <<fork, dbVars, poolVars, ghosts, faults, crashes>>

\* revertBalances takes the balance revert lock exclusively.
LockBalances ==
    /\ reverting = "gated" /\ reverting' = "locked"
    /\ UNCHANGED <<fork, dbVars, poolVars, ghosts, faults, crashes>>

\* recordBalanceRereads takes the epoch, which the other sessions see at once.
TakeEpoch ==
    /\ reverting = "locked" /\ reverting' = "numbered"
    /\ epoch' = epoch + 1
    /\ UNCHANGED <<fork, stored, missing, rereads, history, current, poolVars, ghosts, faults, crashes>>

\* The keys with a history row at the block, and those its transfers touch.
Touched(k) == k \in stored[Top].keys \/ \E h \in history[k] : h.block = Top
HadRow(k)  == \E h \in history[k] : h.block = Top
Remaining(k) == {h \in history[k] : h.block # Top}
Restored(k) == IF Remaining(k) = {} THEN None ELSE CHOOSE h \in Remaining(k) : Highest(Remaining(k), h)

\* The rest of the transaction, visible at its commit: the block and its history rows go, a key that had one is set
\* back to its latest remaining row, every key is asked again.
CommitRevert ==
    /\ reverting = "numbered" /\ reverting' = "ended"
    /\ stored' = SubSeq(stored, 1, Top - 1)
    /\ history' = [k \in Keys |-> Remaining(k)]
    /\ current' = [k \in Keys |-> IF HadRow(k) THEN Restored(k) ELSE current[k]]
    /\ rereads' = [k \in Keys |-> IF Touched(k) THEN [epoch |-> epoch, open |-> TRUE, attempts |-> 0]
                                               ELSE rereads[k]]
    /\ givenUp' = {k \in givenUp : ~Touched(k)}
    /\ revertFork' = [k \in Keys |-> IF Touched(k) THEN fork ELSE revertFork[k]]
    /\ UNCHANGED <<fork, missing, epoch, poolVars, faults, crashes>>

\* The transaction fails at any point: its epoch, if taken, stays taken.
AbortRevert ==
    /\ reverting \in {"gated", "locked", "numbered"} /\ reverting' = "ended" /\ Fault
    /\ UNCHANGED <<fork, dbVars, poolVars, ghosts, crashes>>

\* The release reads the epoch, retrying until it has it, and opens the gate.
ReleaseEpoch ==
    /\ reverting = "ended" /\ reverting' = "no"
    /\ poolEpoch' = Greater(poolEpoch, epoch)
    /\ UNCHANGED <<fork, dbVars, decided, queue, batch, claimed, ghosts, faults, crashes>>
-----------------------------------------------------------------------------
\* Mutant: the claim does not wait for a revert in progress.
ClaimUnlocked ==
    /\ claimed = {} /\ \E k \in Keys : rereads[k].open
    /\ claimed' = {[key |-> k, epoch |-> epoch] : k \in {x \in Keys : rereads[x].open}}
    /\ UNCHANGED <<fork, stored, missing, epoch, rereads, history, current, poolEpoch, decided, queue, batch, reverting,
                   ghosts, faults, crashes>>

\* Mutant: attempts are counted past their limit.
ClaimForever ==
    /\ ~Locked /\ claimed = {} /\ \E k \in Keys : rereads[k].open
    /\ claimed' = {[key |-> k, epoch |-> epoch] : k \in {x \in Keys : rereads[x].open}}
    /\ rereads' = [k \in Keys |-> IF rereads[k].open THEN [rereads[k] EXCEPT !.attempts = @ + 1] ELSE rereads[k]]
    /\ UNCHANGED <<fork, stored, missing, epoch, history, current, poolEpoch, decided, queue, batch, reverting,
                   ghosts, faults, crashes>>

\* Mutant: a request out of attempts is neither handed out nor closed.
ClaimStuck ==
    LET open == {k \in Keys : rereads[k].open /\ rereads[k].attempts < MaxAttempts}
    IN  /\ ~Locked /\ claimed = {} /\ open # {}
        /\ claimed' = {[key |-> k, epoch |-> epoch] : k \in open}
        /\ rereads' = [k \in Keys |-> IF k \in open THEN [rereads[k] EXCEPT !.attempts = @ + 1] ELSE rereads[k]]
        /\ UNCHANGED <<fork, stored, missing, epoch, history, current, poolEpoch, decided, queue, batch, reverting,
                       ghosts, faults, crashes>>

\* ClaimBalanceRereads: the open requests, at the latest epoch; one out of attempts is closed instead.
ClaimBalanceRereads ==
    LET open == {k \in Keys : rereads[k].open /\ rereads[k].attempts < MaxAttempts}
        out  == {k \in Keys : rereads[k].open /\ rereads[k].attempts >= MaxAttempts}
    IN  /\ ~Locked /\ claimed = {} /\ open \cup out # {}
        /\ claimed' = {[key |-> k, epoch |-> Greater(rereads[k].epoch, epoch)] : k \in open}
        /\ rereads' = [k \in Keys |->
              [epoch |-> rereads[k].epoch, open |-> rereads[k].open /\ k \notin out,
               attempts |-> IF k \in open THEN rereads[k].attempts + 1 ELSE rereads[k].attempts]]
        /\ givenUp' = givenUp \cup out
        /\ UNCHANGED <<fork, stored, missing, epoch, history, current, poolEpoch, decided, queue, batch, reverting,
                       revertFork, faults, crashes>>

\* rereadBalances then reads the stored head and queues the claimed keys at it; without a head they wait for the
\* next pass.
RereadBalances ==
    /\ claimed # {} /\ claimed' = {} /\ Cardinality(queue) < QueueSize
    /\ \/ /\ queue' = queue \cup {[key |-> c.key, block |-> Top, epoch |-> c.epoch] : c \in claimed}
          /\ NoFault
       \/ UNCHANGED queue /\ Fault
    /\ UNCHANGED <<fork, dbVars, poolEpoch, decided, batch, reverting, ghosts, crashes>>

\* The process stops and starts again: the pool's memory is gone, an open revert is rolled back, and
\* loadBalanceEpoch sets the pool's epoch.
Restart ==
    /\ crashes < MaxCrashes /\ crashes' = crashes + 1
    /\ decided' = {} /\ queue' = {} /\ batch' = {} /\ claimed' = {}
    /\ reverting' = "no" /\ poolEpoch' = epoch
    /\ UNCHANGED <<fork, dbVars, ghosts, faults>>

Revert == HoldEpoch \/ LockBalances \/ TakeEpoch \/ CommitRevert \/ ReleaseEpoch
Reread == ClaimBalanceRereads \/ RereadBalances
Pool   == \/ \E d \in decided : QueueCommittedWork(d)
          \/ \E a, b \in queue : Fold(a, b)
          \/ \E w \in queue : FetchBalance(w)
          \/ \E k \in Keys : \E S \in SUBSET batch : InsertBalancesBatch(k, S)

Next ==
    \/ \E n \in DOMAIN stored : NodeReorg(n)
    \/ \E ks \in SUBSET Keys : StoreBlock(ks) \/ \E n \in missing : CatchupStore(n, ks)
    \/ Pool \/ Revert \/ AbortRevert \/ Reread \/ Restart

Spec == Init /\ [][Next]_vars
-----------------------------------------------------------------------------
\* Catch-up has stored a transfer of the key in the gap.
CaughtUp(k) == \E n \in 1..Gap : k \in stored[n].keys

\* The current balance was read before the reorg whose revert touched the key.
Doubtful(k) == current[k].block > 0 /\ current[k].fork < revertFork[k]

(***************************************************************************)
(* A doubtful balance is always asked for again, until a read answers or   *)
(* its attempts run out; only a transfer that catch-up stores below the    *)
(* head can close the request and leave the balance.                       *)
(***************************************************************************)
NoForkBalance == \A k \in Keys : Doubtful(k) => rereads[k].open \/ k \in givenUp \/ CaughtUp(k)

(***************************************************************************)
(* The same without that exception, when the node's replaced blocks are    *)
(* all reverted, so that no later revert can ask again.  Catch-up breaks   *)
(* it: its read, stamped after the revert at a lower block, closes the     *)
(* request without replacing the current row.                              *)
(***************************************************************************)
SettledBalance ==
    (reverting = "no" /\ \A i \in DOMAIN stored : ~stored[i].dead) =>
        \A k \in Keys : Doubtful(k) => rereads[k].open \/ k \in givenUp

(***************************************************************************)
(* No balance row is above the stored head.  The current row at the        *)
(* highest block wins, so a row at a reverted number would win over the    *)
(* new chain's next reads (the comment on folded).                         *)
(***************************************************************************)
RowsWithinHead ==
    \A k \in Keys : current[k].block <= Len(stored) /\ \A h \in history[k] : h.block <= Len(stored)

(***************************************************************************)
(* The inductive invariant behind the two.  Work at the latest epoch is    *)
(* fresh: decided on the chain that is stored now and, unless catch-up     *)
(* stored a transfer of the key, at a block no fork-era current row is     *)
(* above.                                                                  *)
(***************************************************************************)
Fresh(k, n) ==
    /\ n <= Len(stored)
    /\ CaughtUp(k) \/ (current[k].fork < revertFork[k] => current[k].block <= n)

EpochBounds ==
    /\ poolEpoch <= epoch
    /\ \A k \in Keys : rereads[k].epoch <= epoch
    /\ \A w \in queue : w.epoch <= epoch
    /\ \A r \in batch : r.epoch <= epoch
    /\ \A c \in claimed : c.epoch <= epoch

\* While a revert has its epoch and is not committed, nothing carries that epoch.
EpochUnused ==
    reverting = "numbered" =>
        /\ \A w \in queue : w.epoch < epoch
        /\ \A r \in batch : r.epoch < epoch
        /\ \A c \in claimed : c.epoch < epoch

WorkFresh ==
    /\ \A d \in decided : Fresh(d.key, d.block)
    /\ \A w \in queue : w.epoch >= epoch => Fresh(w.key, w.block)
    /\ \A r \in batch : r.epoch >= epoch => Fresh(r.key, r.block) /\ r.fork >= revertFork[r.key]

\* Every current row has its history row.
RowBacked == \A k \in Keys : current[k].block > 0 => \E h \in history[k] : h.block = current[k].block

\* The reads decided in the gap are of keys that catch-up touched.
GapReads ==
    /\ \A n \in missing : stored[n].keys = {}
    /\ \A d \in decided : d.block <= Gap => CaughtUp(d.key)

\* The gap stays below what is reverted, and only catch-up decides reads during a revert.
GapBelow ==
    /\ Gap <= Len(stored) /\ \A n \in 1..Gap : ~stored[n].dead
    /\ reverting \in {"gated", "locked", "numbered"} => Gap < Len(stored)
    /\ reverting # "no" => \A d \in decided : d.block <= Gap

EpochInv ==
    /\ NoForkBalance /\ RowsWithinHead /\ EpochBounds /\ EpochUnused /\ WorkFresh /\ RowBacked /\ GapBelow
    /\ \A k \in Keys : revertFork[k] <= fork

IInv == TypeOK /\ GapReads /\ EpochInv

Fairness ==
    /\ WF_vars(Revert) /\ WF_vars(ClaimBalanceRereads) /\ WF_vars(RereadBalances)
    /\ \A k \in Keys : /\ WF_vars(\E d \in decided : d.key = k /\ QueueCommittedWork(d))
                       /\ WF_vars(\E w \in queue : w.key = k /\ FetchBalance(w))
                       /\ WF_vars(\E S \in SUBSET batch : InsertBalancesBatch(k, S))

LiveSpec == Spec /\ Fairness

\* Every request is eventually answered by a read made on the chain the revert led to, or runs out of attempts, unless
\* catch-up stored a transfer of its key.
EventuallyAnswered ==
    <>[](\A k \in Keys :
            /\ ~rereads[k].open
            /\ current[k].fork >= revertFork[k] \/ k \in givenUp \/ current[k] = None \/ CaughtUp(k))
=============================================================================
