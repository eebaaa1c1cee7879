----------------------------- MODULE SharedRows -----------------------------
(***************************************************************************)
(* The rows blocks share (db/batch.go, DeleteBlockLocked in db/queries.go, *)
(* db/nft_tokens_revert.go, db/holder_count.go): block writes of the       *)
(* pipelined head and of the catch-up workers, balance flushes and a       *)
(* revert, as database transactions at READ COMMITTED, each a program of   *)
(* statements in the code's order.  A statement takes its lock (a row, or  *)
(* an advisory key) and waits while another transaction holds it; a        *)
(* transaction's writes are seen, and its locks freed, when it commits.    *)
(*                                                                         *)
(* A block holds at most one transfer of a token, and one of an NFT.       *)
(* Numbers stand for addresses and keys, in their lock order; the supply   *)
(* moves with the count of transfers.                                      *)
(***************************************************************************)
EXTENDS Integers, Sequences, FiniteSets, FiniteSetsExt

LOCAL INSTANCE SequencesExt

CONSTANTS
    Txn,            \* transactions
    Token,          \* tokens
    Nft,            \* NFTs
    BalanceKey,     \* balance keys: a token and a holder
    KeyToken,       \* balance key -> its token
    SharedScenarios \* bound: the database at the start, and the transactions that run at once

VARIABLES
    work,       \* the scenario: what each transaction and each block is, and how many connections are lost
    txn,        \* transaction -> its program counter, state and what it has read and will write
    locks,      \* locks held: pairs of a lock and a transaction
    tokenRows,  \* tokens: token -> [count, holders], for the rows there are
    nftRows,    \* nft_tokens: NFT -> [owner, block]
    storedBlks, \* blocks stored, with their transfers
    contracts,  \* contracts: address -> block
    balanceRows,    \* balances: rows [key, block, pos]
    revertEpoch \* balance_reorg_epoch

sharedTables == <<tokenRows, nftRows, storedBlks, contracts, balanceRows, revertEpoch>>
sharedVars == <<work, txn, locks, tokenRows, nftRows, storedBlks, contracts, balanceRows, revertEpoch>>

NoOne == 0                                 \* the zero address
Keep == [owner |-> -1, block |-> -1]       \* a reverted NFT's row: left, deleted, or its owner kept
Gone == [owner |-> -2, block |-> -1]
ByKey(S) == SetToSortSeq(S, <)
Kind(t) == work.kind[t]
BlockOf(t) == work.block[t]
BlockData(b) == work.data[b]

-----------------------------------------------------------------------------
(* What the tables say *)

\* The blocks that move a token, and those that move an NFT (token_transfers).
Transferred(T, S) == {b \in S : T \in BlockData(b).moves}
MovesOf(X, S) == {b \in S : X \in DOMAIN BlockData(b).nfts}

\* token_balances_current holds the key's latest history row.
Positive(rows, k) == \E r \in rows : r.key = k /\ r.pos /\ \A q \in rows : q.key = k => q.block <= r.block
Holders(rows, T) == Cardinality({k \in BalanceKey : KeyToken[k] = T /\ Positive(rows, k)})

-----------------------------------------------------------------------------
(* The programs *)

\* tokenLockKeys, tbcLockKeys: keys in ascending order, each once.
Statements(op, S) == LET keys == ByKey(S) IN [i \in DOMAIN keys |-> [op |-> op, on |-> keys[i]]]
Statement(op) == <<[op |-> op, on |-> 0]>>

\* The tokens a block write guards: those it discovered and those it moves.
LockTokens(b) == BlockData(b).found \cup BlockData(b).moves

\* Contracts, in address order.
InsertContracts(b) == Statements("contract", BlockData(b).creates)

\* Mutant: the contracts are inserted with the block's own rows.
ContractsFirst(b) == Statements("begin", {b}) \o InsertContracts(b)

\* The block's own rows.
BeginBlockData(b) == Statements("begin", {b})

\* Every token's advisory key, in order, and then the rows there are.
GuardTokens(b) == Statements("tkey", LockTokens(b)) \o Statements("row", LockTokens(b))

\* tokens and their seeds.
UpsertTokens(b) == Statements("upsert", BlockData(b).found) \o Statements("seed", BlockData(b).found)

\* nft_tokens, the counters' deltas, address_stats and chain_counters.
WriteRest(b) ==
    Statements("nft", DOMAIN BlockData(b).nfts) \o Statements("delta", BlockData(b).moves)
    \o Statements("addr", BlockData(b).seen) \o Statement("chain")

WriteSharedRows(b) == InsertContracts(b) \o GuardTokens(b) \o UpsertTokens(b) \o WriteRest(b)

\* Once the blocks before have committed: the rows blocks share, and the commit.
Finish(b) == Statement("turn") \o WriteSharedRows(b)

\* Mutant: the holders are added without the token's advisory key.
NoTokenKey(t) == <<>>

\* The advisory keys of the tokens whose holders change, in order.
HolderKeys(t) == Statements("tkey", {T \in Token : txn[t].holders[T] # 0})

\* insertBalances: the revert lock, shared; the balance keys; the history and the current rows; the tokens.
FlushBalances(t) ==
    Statement("rshared") \o Statements("bkey", DOMAIN work.reads[t]) \o Statement("current")
    \o HolderKeys(t) \o Statements("holders", {T \in Token : txn[t].holders[T] # 0})

\* blockBalanceKeys: the keys of the block's history rows, and of its transfers' holders.
BlockBalanceKeys(b) == {r.key : r \in {q \in balanceRows : q.block = b}} \cup BlockData(b).held

\* lockBalanceKeys: their advisory keys, in order.
LockBalanceKeys(b) == Statements("bkey", BlockBalanceKeys(b))

\* DeleteBlockLocked, from the block's transfers to the block's rows.
DeleteBlock(t) ==
    LET b == BlockOf(t)
    IN Statement("doomed") \o Statement("rlock") \o LockBalanceKeys(b) \o Statement("restore")
       \o HolderKeys(t) \o Statements("undo", txn[t].doomed \cup {T \in Token : txn[t].holders[T] # 0})
       \o Statement("nftread") \o Statements("nftlock", txn[t].moved) \o Statements("nftfix", txn[t].moved)
       \o Statements("addr", BlockData(b).seen) \o Statement("chain")
       \o Statements("uncontract", {a \in DOMAIN contracts : contracts[a] = b}) \o Statements("delete", {b})

Program(t) ==
    CASE Kind(t) = "block"  -> BeginBlockData(BlockOf(t)) \o Finish(BlockOf(t))
      [] Kind(t) = "flush"  -> FlushBalances(t)
      [] Kind(t) = "revert" -> DeleteBlock(t)

InTxn(t) == txn[t].st = "running"
AtEnd(t) == txn[t].pc > Len(Program(t))
Now(t) == Program(t)[txn[t].pc]

-----------------------------------------------------------------------------
(* Locks *)

LockOf(s) ==
    CASE s.op \in {"begin", "delete"} -> <<"own", s.on>>
      [] s.op \in {"contract", "uncontract"} -> <<"contract", s.on>>
      [] s.op \in {"row", "upsert", "delta", "holders", "undo"} -> <<"token", s.on>>
      [] s.op \in {"nft", "nftlock"} -> <<"nft", s.on>>
      [] s.op \in {"rshared", "rlock"} -> <<"revert", 0>>
      [] OTHER -> <<s.op, s.on>>

Takers(l) == {u \in Txn : <<l, u>> \in locks}

\* Whether the statement locks anything: an UPDATE, or a SELECT FOR UPDATE, of a row that is not there does not, nor
\* does the insert of a contract that is.
Locks(s) ==
    CASE s.op \in {"turn", "seed", "current", "doomed", "restore", "nftread", "nftfix"} -> FALSE
      [] s.op = "contract" -> s.on \notin DOMAIN contracts \/ Takers(LockOf(s)) # {}
      [] s.op \in {"row", "delta", "holders", "undo"} -> s.on \in DOMAIN tokenRows
      [] s.op = "nftlock" -> s.on \in DOMAIN nftRows
      [] OTHER -> TRUE

\* Those that hold the lock of t's statement against it: anyone else, but for two flushes on the revert lock.
Holding(t, s) ==
    IF Locks(s) THEN {u \in Takers(LockOf(s)) \ {t} : ~(s.op = "rshared" /\ Kind(u) = "flush")} ELSE {}

\* The head's writes before t's, whose Finish t's Finish follows.
WritesBefore(t) == {u \in Txn : work.head[u] /\ work.head[t] /\ BlockOf(u) < BlockOf(t)}

\* Those t waits for, in the database or in the pipeline.
WaitsFor(t) ==
    IF ~InTxn(t) \/ AtEnd(t) THEN {}
    ELSE LET s == Now(t) IN IF s.op = "turn" THEN {u \in WritesBefore(t) : InTxn(u)} ELSE Holding(t, s)

-----------------------------------------------------------------------------
(* What a statement reads, and remembers of what it writes *)

Own(t) == txn[t]

Upsert(t, T) == IF T \in DOMAIN tokenRows THEN Own(t) ELSE [Own(t) EXCEPT !.made = @ \cup {T}]

\* A row just created is seeded from the transfers stored, the block's own included, and the current balances.
Seed(t, T) ==
    IF T \notin Own(t).made THEN Own(t)
    ELSE [Own(t) EXCEPT !.count[T]   = Cardinality(Transferred(T, storedBlks \cup {BlockOf(t)})),
                        !.holders[T] = Holders(balanceRows, T)]

\* ON CONFLICT DO NOTHING decides at the insert, not at the commit.
AddContract(t, a) == IF a \in DOMAIN contracts THEN Own(t) ELSE [Own(t) EXCEPT !.born = @ \cup {a}]

\* A row's count moves with the block's transfer, but for a row just seeded; with no row nothing moves.
Delta(t, T) == IF T \in DOMAIN tokenRows THEN [Own(t) EXCEPT !.count[T] = @ + 1] ELSE Own(t)

\* The rows a flush leaves: its reads, unless a revert came since they were decided.
Flushed(t) ==
    LET reads == work.reads[t]
        new   == {[key |-> k, block |-> reads[k].block, pos |-> reads[k].pos] : k \in DOMAIN reads}
    IN IF revertEpoch > 0 THEN balanceRows
       ELSE {r \in balanceRows : ~\E n \in new : n.key = r.key /\ n.block = r.block} \cup new

\* The change of each token's holders from the committed rows to those the transaction leaves.
HolderChange(rows) == [T \in Token |-> Holders(rows, T) - Holders(balanceRows, T)]

UpsertCurrent(t) == [Own(t) EXCEPT !.rows = Flushed(t), !.holders = HolderChange(Flushed(t))]

\* An update of a row that is not there changes nothing: its holders are forgotten with it.
ApplyHolders(t, T) == IF T \in DOMAIN tokenRows THEN Own(t) ELSE [Own(t) EXCEPT !.lost = @ \cup {T}]

\* The tokens of the block's transfers, as stored.
ReadDoomed(t) == [Own(t) EXCEPT !.doomed = IF BlockOf(t) \in storedBlks THEN BlockData(BlockOf(t)).moves ELSE {}]

\* revertBalances: the block's history rows are deleted, and its keys go back to the latest row that remains.
RestoreBalances(t) ==
    LET left == {r \in balanceRows : r.block # BlockOf(t)}
    IN [Own(t) EXCEPT !.rows = left, !.holders = HolderChange(left)]

UndoToken(t, T) ==
    IF T \notin DOMAIN tokenRows THEN [Own(t) EXCEPT !.lost = @ \cup {T}]
    ELSE IF T \in Own(t).doomed THEN [Own(t) EXCEPT !.count[T] = @ - 1] ELSE Own(t)

ReadNfts(t) == [Own(t) EXCEPT !.moved = {X \in DOMAIN nftRows : nftRows[X].block >= BlockOf(t)}]

\* revertNFTTokens for one row: the latest transfer of another block, or the sender before this one's, or nothing.
RestoredNft(t, X) ==
    LET b == BlockOf(t)
        others == MovesOf(X, storedBlks \ {b})
    IN IF others # {} THEN [owner |-> BlockData(Max(others)).nfts[X].to, block |-> Max(others)]
       ELSE IF X \notin DOMAIN BlockData(b).nfts THEN [owner |-> nftRows[X].owner, block |-> b - 1]
       ELSE IF BlockData(b).nfts[X].from = NoOne THEN Gone
       ELSE [owner |-> BlockData(b).nfts[X].from, block |-> b - 1]

Effect(t) ==
    LET s == Now(t)
    IN CASE s.op = "upsert"  -> Upsert(t, s.on)
         [] s.op = "seed"    -> Seed(t, s.on)
         [] s.op = "delta"   -> Delta(t, s.on)
         [] s.op = "contract" -> AddContract(t, s.on)
         [] s.op = "current" -> UpsertCurrent(t)
         [] s.op = "holders" -> ApplyHolders(t, s.on)
         [] s.op = "doomed"  -> ReadDoomed(t)
         [] s.op = "restore" -> RestoreBalances(t)
         [] s.op = "undo"    -> UndoToken(t, s.on)
         [] s.op = "nftread" -> ReadNfts(t)
         [] s.op = "nftfix"  -> [Own(t) EXCEPT !.owners[s.on] = RestoredNft(t, s.on)]
         [] OTHER            -> Own(t)

-----------------------------------------------------------------------------
(* Transactions *)

\* An insert of a block that is stored, or was stored while it waited, drops the write.
AlreadyStored(t) == Now(t).op = "begin" /\ BlockOf(t) \in storedBlks

\* A write of the pipeline whose turn comes after one that failed is rolled back.
FailedBefore(t) == Now(t).op = "turn" /\ \E u \in WritesBefore(t) : txn[u].st = "rolled back"

Execute(t) ==
    /\ InTxn(t) /\ ~AtEnd(t) /\ WaitsFor(t) = {}
    /\ ~AlreadyStored(t) /\ ~FailedBefore(t)
    /\ txn' = [txn EXCEPT ![t] = [Effect(t) EXCEPT !.pc = @ + 1]]
    /\ locks' = LET s == Now(t) IN IF Locks(s) THEN locks \cup {<<LockOf(s), t>>} ELSE locks
    /\ UNCHANGED <<work, sharedTables>>

LocksLeft(t) == {p \in locks : p[2] # t}

\* BlockWrite.Rollback, and every error's return: nothing the transaction wrote is kept.
Rollback(t) ==
    /\ InTxn(t)
    /\ \/ ~AtEnd(t) /\ WaitsFor(t) = {} /\ (AlreadyStored(t) \/ FailedBefore(t)) /\ UNCHANGED work
       \/ work.losses > 0 /\ work' = [work EXCEPT !.losses = @ - 1]
    /\ txn' = [txn EXCEPT ![t].st = IF ~AtEnd(t) /\ AlreadyStored(t) THEN "over" ELSE "rolled back"]
    /\ locks' = LocksLeft(t)
    /\ UNCHANGED sharedTables

\* The rows as the transaction leaves them, those it hit being its own since it locked them; counts stop at zero.
TokensLeft(t) ==
    [T \in DOMAIN tokenRows \cup Own(t).made |->
        LET row == IF T \in DOMAIN tokenRows THEN tokenRows[T] ELSE [count |-> 0, holders |-> 0]
        IN IF T \in Own(t).lost THEN row
           ELSE [count |-> Max({0, row.count + Own(t).count[T]}), holders |-> Max({0, row.holders + Own(t).holders[T]})]]

\* Mutant: the owner is the last write's.
LastWritten(row, to, b) == [owner |-> to, block |-> b]

\* The owner is the latest block's, in whatever order the blocks are written.
NftWritten(row, to, b) == IF b >= row.block THEN [owner |-> to, block |-> b] ELSE row

NftsWritten(t) ==
    LET b == BlockOf(t)
        moves == BlockData(b).nfts
    IN [X \in DOMAIN nftRows \cup DOMAIN moves |->
           IF X \notin DOMAIN moves THEN nftRows[X]
           ELSE IF X \notin DOMAIN nftRows THEN [owner |-> moves[X].to, block |-> b]
           ELSE NftWritten(nftRows[X], moves[X].to, b)]

NftsReverted(t) ==
    [X \in {Y \in DOMAIN nftRows : Own(t).owners[Y] # Gone} |-> IF Own(t).owners[X] = Keep THEN nftRows[X] ELSE Own(t).owners[X]]

\* Finish's commit: the block and everything its write counted, at once.
CommitBlock(t) ==
    LET b == BlockOf(t)
    IN /\ tokenRows' = TokensLeft(t)
       /\ nftRows' = NftsWritten(t)
       /\ storedBlks' = storedBlks \cup {b}
       /\ contracts' = [a \in Own(t).born |-> b] @@ contracts
       /\ UNCHANGED <<balanceRows, revertEpoch>>

CommitFlush(t) ==
    /\ tokenRows' = TokensLeft(t)
    /\ balanceRows' = Own(t).rows
    /\ UNCHANGED <<nftRows, storedBlks, contracts, revertEpoch>>

CommitDelete(t) ==
    LET b == BlockOf(t)
    IN /\ tokenRows' = TokensLeft(t)
       /\ nftRows' = NftsReverted(t)
       /\ storedBlks' = storedBlks \ {b}
       /\ contracts' = [a \in {c \in DOMAIN contracts : contracts[c] # b} |-> contracts[a]]
       /\ balanceRows' = Own(t).rows
       /\ revertEpoch' = revertEpoch + 1

Commit(t) ==
    /\ InTxn(t) /\ AtEnd(t)
    /\ txn' = [txn EXCEPT ![t].st = "over"]
    /\ locks' = LocksLeft(t)
    /\ UNCHANGED work
    /\ \/ Kind(t) = "block" /\ CommitBlock(t)
       \/ Kind(t) = "flush" /\ CommitFlush(t)
       \/ Kind(t) = "revert" /\ CommitDelete(t)

AllOver == \A t \in Txn : ~InTxn(t)

SharedInitWith(s) ==
    /\ work = s
    /\ txn = [t \in Txn |->
                 [pc |-> 1, st |-> IF Kind(t) = "none" THEN "over" ELSE "running", made |-> {}, born |-> {}, lost |-> {}, doomed |-> {},
                  moved |-> {}, rows |-> {}, count |-> [T \in Token |-> 0], holders |-> [T \in Token |-> 0], owners |-> [X \in Nft |-> Keep]]]
    /\ locks = {}
    /\ tokenRows = work.tokens /\ nftRows = work.nfts /\ storedBlks = work.stored
    /\ contracts = work.contracts /\ balanceRows = work.history /\ revertEpoch = 0

SharedInit == \E s \in SharedScenarios : SharedInitWith(s)

SharedNext ==
    \/ \E t \in Txn : Execute(t) \/ Rollback(t) \/ Commit(t)
    \/ AllOver /\ UNCHANGED sharedVars

SharedSpec == SharedInit /\ [][SharedNext]_sharedVars

-----------------------------------------------------------------------------
(* Properties *)

\* The rows hold counts and owners, and a lock has one holder, but for flushes sharing the revert lock.
SharedTypeOK ==
    /\ \A T \in DOMAIN tokenRows : tokenRows[T].count \in Nat /\ tokenRows[T].holders \in Nat
    /\ DOMAIN tokenRows \subseteq Token /\ DOMAIN nftRows \subseteq Nft
    /\ \A p, q \in locks : p[1] = q[1] => p[2] = q[2] \/ (p[1] = <<"revert", 0>> /\ Kind(p[2]) = "flush" /\ Kind(q[2]) = "flush")

\* No writers wait for one another in a ring, whether in the database or across the pipeline: the lock orders of block
\* writes, balance flushes and reverts (batch.go 464-530 and 853-880, queries.go 306-340) form one order.
NoWaitCycle ==
    LET waits == {<<t, WaitsFor(t)>> : t \in Txn}
    IN \A S \in SUBSET Txn : S # {} => \E w \in waits : w[1] \in S /\ w[2] \cap S = {}

\* A tokens row counts the transfers stored and the holders whose current balance is positive, at every commit,
\* however the row's creation crosses the writes and flushes that found no row (batch.go 587-620, 1090-1105).
TokensCounted ==
    \A T \in DOMAIN tokenRows :
        tokenRows[T] = [count |-> Cardinality(Transferred(T, storedBlks)), holders |-> Holders(balanceRows, T)]

\* An NFT belongs to whom the latest stored transfer gave it, whatever the order blocks were written and reverted in.
OwnerOfLatest ==
    \A X \in Nft : LET blocks == MovesOf(X, storedBlks) IN
        blocks # {} => X \in DOMAIN nftRows /\ nftRows[X].owner = BlockData(Max(blocks)).nfts[X].to
=============================================================================
