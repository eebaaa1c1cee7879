--------------------------- MODULE AddressRebase ---------------------------
(***************************************************************************)
(* address_stats against its truth: ingest's upserts and a revert's        *)
(* subtraction, the rebase that reads rows and truth in one snapshot and   *)
(* applies the correction later (address_rebase.go), the settlements that  *)
(* move the truth and the running check that repairs or quarantines        *)
(* (verify.go, span_totals.go), the reconciliation and the repair command  *)
(* that walk the address buckets, and the day recount a moved first_seen   *)
(* asks for.                                                               *)
(*                                                                         *)
(* An address is a number, in byte order.  Its row keeps one counter and   *)
(* its first and last block; a block has one transaction and touches a set *)
(* of addresses.  Blocks below Closed are in the ledger, in one span.      *)
(* transactions_total stands for the chain and token counters.             *)
(***************************************************************************)
EXTENDS Integers, FiniteSets, FiniteSetsExt, Functions

CONSTANTS
    Addr,             \* the addresses, numbers in byte order
    Closed,           \* ledger_closed_through(): blocks 0 .. Closed - 1 are in a closed span
    TopBlock,         \* bound: blocks Closed .. TopBlock are above the closed spans
    Touches,          \* fork -> block -> the addresses it touches; fork 2 is what a reorg brings
    SpanBatch,        \* rebaseBatch, for a span's staged rows
    AddressBuckets,   \* addressBuckets
    RebaseScenarios   \* bound: the first drift, and how often each trouble may happen

VARIABLES
    held,         \* stored open blocks: the fork stored, 0 when absent
    ledger,       \* ledger_address: what the closed span holds for each address
    stats,        \* address_stats, committed
    addresses,    \* chain_counters 'addresses_total'
    txsTotal,     \* chain_counters 'transactions_total'
    recorded,     \* ledger_reverted_address: the row version, 0 when absent
    version,      \* the last row version given
    rowLock,      \* who holds each address's row
    writers,      \* block writes and reverts in progress
    rebase,       \* the holder of the rebase lock: what it read, the batch it applies
    index,        \* the ledger's lookup indexes: absent, invalid (a stopped build left it) or ready
    spanToDo,     \* a closed span is not rebased yet
    spanState,    \* ledger_spans.check_state of the closed span
    check,        \* the running check: the drifts it found, and by how much transactions_total is off
    walk,         \* the reconciliation's and the repair's place among the buckets
    repairs,      \* ledger_repairs since the key's last settlement: <<key, counter>>
    quarantine,   \* ledger_quarantine
    moves,        \* ledger_verify_state 'address_days_recount'
    days,         \* the day recount in progress
    past,         \* history variable: the first_seen moves rebases made and a day recount has seen, the rows a revert
                  \* removed, or a settlement found missing, of addresses in the ledger, and the
                  \* rows already missing when a revert passed over them
    toCome        \* what is left of the scenario's troubles

rebaseVars == <<held, ledger, stats, addresses, txsTotal, recorded, version, rowLock, writers, rebase, index, spanToDo,
                spanState, check, walk, repairs, quarantine, moves, days, past, toCome>>
rowVars    == <<held, stats, addresses, txsTotal>>
verifyVars == <<check, walk, repairs, quarantine>>
dayVars    == <<moves, days, past>>

Writer   == {"realtime", "catchup"}
Walker   == {"reconcile", "repair"}
Unseen   == -1
NoStat   == [txs |-> 0, first |-> Unseen, last |-> Unseen]
Open     == Closed .. TopBlock
Bucket(a) == a % AddressBuckets
Lower(S) == LET known == S \ {Unseen} IN IF known = {} THEN Unseen ELSE Min(known)
Upper(S) == LET known == S \ {Unseen} IN IF known = {} THEN Unseen ELSE Max(known)

\* A row with what it knows: every insert of address_stats sets first_seen and last_seen.
Blocks  == 0 .. TopBlock
StatRow == {NoStat} \cup [txs : Nat, first : Blocks, last : Blocks]

RebaseTrouble ==
    [ingests : Nat, reverts : Nat, spans : Nat, faults : Nat, settles : Nat, checks : Nat, walks : Nat, crashes : Nat,
     pruned : BOOLEAN, span : BOOLEAN, index : {"absent", "invalid", "ready"}, held : [Open -> 0 .. 2],
     drift : [ledger : [Addr -> StatRow], stats : [Addr -> StatRow], count : Nat]]

ASSUME RebaseAssumption ==
    /\ Addr \subseteq Nat /\ IsFiniteSet(Addr)
    /\ Closed \in Nat /\ TopBlock \in Nat /\ Closed <= TopBlock
    /\ Touches \in [1 .. 2 -> [Blocks -> SUBSET Addr]]
    /\ RebaseScenarios \subseteq RebaseTrouble

-----------------------------------------------------------------------------
(* The truth, and what differs from it *)

OpenBlocks(a) == {n \in Open : held[n] # 0 /\ a \in Touches[held[n]][n]}

\* ledger_address_truth: the closed ledger rows and the rows above the closed spans
Truth(a) == [txs   |-> ledger[a].txs + Cardinality(OpenBlocks(a)),
             first |-> Lower({ledger[a].first} \cup OpenBlocks(a)),
             last  |-> Upper({ledger[a].last} \cup OpenBlocks(a))]

ClosedBlocks(a) == {b \in 0 .. Closed - 1 : a \in Touches[1][b]}
TrueLedger(a) == [txs |-> Cardinality(ClosedBlocks(a)), first |-> Lower(ClosedBlocks(a)), last |-> Upper(ClosedBlocks(a))]
TrueTotal     == Closed + Cardinality({n \in Open : held[n] # 0})

Right(a) == stats[a] = Truth(a)

\* ledger_running_diff_address and ledger_running_diff_chain_token
Counters  == <<"txs", "first", "last">>
DriftsOf(a) == {<<a, c>> : c \in {x \in DOMAIN NoStat : stats[a][x] # Truth(a)[x]}}
ChainDrift  == IF txsTotal = TrueTotal THEN {} ELSE {<<0, "count">>}
NoDrift     == [found |-> {}, off |-> 0]
DriftedIn(bucket) == {a \in Addr : Bucket(a) = bucket /\ ~Right(a)}

-----------------------------------------------------------------------------
(* Block writes and reverts *)

IdleWriter == [op |-> "idle", block |-> 0, fork |-> 0, todo |-> {}, row |-> <<>>]
HeldBy(p)  == {a \in Addr : rowLock[a] = p}
Released(p) == [a \in Addr |-> IF rowLock[a] = p THEN "free" ELSE rowLock[a]]

\* batch.go: a block's address rows are taken one by one in address order (an insert waits for one in progress too).
IngestStart(w, n, fork) ==
    /\ writers[w] = IdleWriter
    /\ toCome.ingests > 0
    /\ held[n] = 0
    /\ \A v \in Writer : writers[v].op = "idle" \/ writers[v].block # n
    /\ writers' = [writers EXCEPT ![w] = [op |-> "ingest", block |-> n, fork |-> fork, todo |-> Touches[fork][n], row |-> <<>>]]
    /\ toCome' = [toCome EXCEPT !.ingests = @ - 1]
    /\ UNCHANGED <<rowVars, ledger, recorded, version, rowLock, rebase, index, spanToDo, spanState, verifyVars, dayVars>>

IngestTake(w) ==
    /\ writers[w].op = "ingest" /\ writers[w].todo # {}
    /\ LET a == Min(writers[w].todo)
       IN /\ rowLock[a] = "free"
          /\ rowLock' = [rowLock EXCEPT ![a] = w]
          /\ writers' = [writers EXCEPT ![w].todo = @ \ {a}]
    /\ UNCHANGED <<rowVars, ledger, recorded, version, rebase, index, spanToDo, spanState, verifyVars, dayVars, toCome>>

\* The upsert, and addresses_total by the rows it created.
IngestCommit(w) ==
    LET n    == writers[w].block
        hits == Touches[writers[w].fork][n]
    IN /\ writers[w].op = "ingest" /\ writers[w].todo = {}
       /\ held' = [held EXCEPT ![n] = writers[w].fork]
       /\ stats' = [a \in Addr |-> IF a \notin hits THEN stats[a]
                                   ELSE [txs |-> stats[a].txs + 1, first |-> Lower({stats[a].first, n}),
                                         last |-> Upper({stats[a].last, n})]]
       /\ addresses' = addresses + Cardinality({a \in hits : stats[a] = NoStat})
       /\ txsTotal' = txsTotal + 1
       /\ rowLock' = Released(w)
       /\ writers' = [writers EXCEPT ![w] = IdleWriter]
       /\ UNCHANGED <<ledger, recorded, version, rebase, index, spanToDo, spanState, verifyVars, dayVars, toCome>>

\* revertAddressStats takes the revert lock shared: no rebase batch that creates rows is in progress.
RevertLockShared == ~rebase.revertLock

RevertStart(n) ==
    /\ writers["realtime"] = IdleWriter
    /\ toCome.reverts > 0
    /\ held[n] # 0
    /\ \A m \in Open : m > n => held[m] = 0
    /\ RevertLockShared
    /\ writers' = [writers EXCEPT !["realtime"] =
            [op |-> "revert", block |-> n, fork |-> held[n], todo |-> Touches[held[n]][n], row |-> <<>>]]
    /\ toCome' = [toCome EXCEPT !.reverts = @ - 1]
    /\ UNCHANGED <<rowVars, ledger, recorded, version, rowLock, rebase, index, spanToDo, spanState, verifyVars, dayVars>>

\* Mutant: the subtraction does not stop at zero.
BelowZero(n) == n - 1

OneLess(n) == Max({n - 1, 0})

\* The row a revert leaves: first_seen and last_seen move to the address's other history rows, the newest closed span's
\* when only pruned history remains, and an address nothing is known of any more loses its row.
RevertedRow(a, n) ==
    LET others == (OpenBlocks(a) \ {n}) \cup (IF toCome.pruned THEN {} ELSE ClosedBlocks(a))
        row    == stats[a]
        last   == IF others = {} THEN ledger[a].last ELSE Max(others)
        known  == row.first # Unseen /\ row.first < n
    IN IF row = NoStat \/ (others = {} /\ ~known) THEN NoStat
       ELSE [txs   |-> OneLess(row.txs),
             first |-> IF row.first >= n /\ others # {} THEN Min(others) ELSE row.first,
             last  |-> IF row.last >= n /\ last # Unseen THEN last ELSE row.last]

\* Only a committed row can be taken, and a revert decides what becomes of it under its lock.
RevertTake ==
    LET w == "realtime"
        a == Min(writers[w].todo)
    IN /\ writers[w].op = "revert" /\ writers[w].todo # {}
       /\ IF stats[a] = NoStat THEN UNCHANGED rowLock
          ELSE rowLock[a] = "free" /\ rowLock' = [rowLock EXCEPT ![a] = w]
       /\ writers' = [writers EXCEPT ![w].todo = @ \ {a},
                                     ![w].row = [b \in DOMAIN @ \cup {a} |-> IF b = a THEN RevertedRow(a, writers[w].block) ELSE @[b]]]
       /\ past' = IF stats[a] = NoStat /\ rowLock[a] # "rebase" THEN [past EXCEPT !.passed = @ \cup {a}] ELSE past
       /\ UNCHANGED <<rowVars, ledger, recorded, version, rebase, index, spanToDo, spanState, verifyVars, moves, days, toCome>>

\* It records every address of the block, as a new row version, and deletes the block.
RevertCommit ==
    LET w    == "realtime"
        mine == HeldBy(w)
    IN /\ writers[w].op = "revert" /\ writers[w].todo = {}
       /\ stats' = [a \in Addr |-> IF a \in mine THEN writers[w].row[a] ELSE stats[a]]
       /\ addresses' = Max({addresses - Cardinality({a \in mine : writers[w].row[a] = NoStat}), 0})
       /\ txsTotal' = OneLess(txsTotal)
       /\ held' = [held EXCEPT ![writers[w].block] = 0]
       /\ version' = version + 1
       /\ recorded' = [a \in Addr |-> IF a \in Touches[writers[w].fork][writers[w].block] THEN version' ELSE recorded[a]]
       /\ rowLock' = Released(w)
       /\ writers' = [writers EXCEPT ![w] = IdleWriter]
       /\ past' = [past EXCEPT !.lost = @ \cup {a \in mine : writers[w].row[a] = NoStat /\ \E d \in check.found : d[1] = a}]
       /\ UNCHANGED <<ledger, rebase, index, spanToDo, spanState, verifyVars, moves, days, toCome>>

-----------------------------------------------------------------------------
(* The ledger's lookup indexes, built after startup; the rebases and checks that read through them wait *)

IndexReady == index = "ready"

IndexBuilt ==
    /\ ~IndexReady
    /\ index' = "ready"
    /\ UNCHANGED <<rowVars, ledger, recorded, version, rowLock, writers, rebase, spanToDo, spanState, verifyVars, dayVars, toCome>>

\* A stopped build leaves its index invalid; the next one drops it first.
IndexBuildStops ==
    /\ ~IndexReady /\ toCome.faults > 0
    /\ index' = "invalid"
    /\ toCome' = [toCome EXCEPT !.faults = @ - 1]
    /\ UNCHANGED <<rowVars, ledger, recorded, version, rowLock, writers, rebase, spanToDo, spanState, verifyVars, dayVars>>

-----------------------------------------------------------------------------
(* The rebase *)

IdleRebase == [kind |-> "idle", read |-> <<>>, batch |-> {}, todo |-> {}, made |-> {}, stale |-> {}, ready |-> FALSE,
               revertLock |-> FALSE, logs |-> {}]

\* One address as a batch, or a span's stage, reads it: row, truth and version in one snapshot.
ReadRow(a, creatable) == [row |-> stats[a], want |-> Truth(a), reverted |-> recorded[a], creatable |-> creatable]
Differs(v) == v.row # v.want
Present(v) == v.row # NoStat
Seen(v)    == v.want # NoStat
Creates(v) == ~Present(v) /\ Seen(v) /\ v.creatable

\* rebaseAddressBatch: the rebase lock, then the read.
BatchStart(kind, S, logs) ==
    rebase' = [IdleRebase EXCEPT !.kind = kind, !.read = [a \in S |-> ReadRow(a, TRUE)], !.batch = S, !.todo = S, !.logs = logs]

\* stageSpanSelect: the span's addresses, which a row may be created for, and those recorded since the last rebase.
Staged(own) ==
    {a \in own \cup {b \in Addr : recorded[b] # 0} :
        \/ recorded[a] # 0
        \/ stats[a] # NoStat /\ ~Right(a)
        \/ stats[a] = NoStat /\ a \in own /\ Truth(a) # NoStat}

\* rebaseSpans: the whole span is staged and applied under the lock; the span is one of the closed ones, or a later
\* one that holds none of these addresses.
SpanStage(own) ==
    /\ rebase = IdleRebase
    /\ spanToDo /\ IndexReady
    /\ rebase' = [IdleRebase EXCEPT !.kind = "span", !.read = [a \in Staged(own) |-> ReadRow(a, a \in own)]]
    /\ UNCHANGED <<rowVars, ledger, recorded, version, rowLock, writers, index, spanToDo, spanState, verifyVars, dayVars, toCome>>

FirstOf(S, k) == {a \in S : Cardinality({b \in S : b < a}) < k}

SpanNextBatch ==
    /\ rebase.kind = "span" /\ rebase.batch = {} /\ DOMAIN rebase.read # {}
    /\ LET S == FirstOf(DOMAIN rebase.read, SpanBatch)
       IN rebase' = [rebase EXCEPT !.batch = S, !.todo = S]
    /\ UNCHANGED <<rowVars, ledger, recorded, version, rowLock, writers, index, spanToDo, spanState, verifyVars, dayVars, toCome>>

SpanRebased ==
    /\ rebase.kind = "span" /\ DOMAIN rebase.read = {}
    /\ rebase' = IdleRebase
    /\ spanToDo' = FALSE
    /\ UNCHANGED <<rowVars, ledger, recorded, version, rowLock, writers, index, spanState, verifyVars, dayVars, toCome>>

\* Another span closes: the truth does not move, and the addresses recorded are rebased with it.
SpanCloses ==
    /\ toCome.spans > 0 /\ ~spanToDo
    /\ spanToDo' = TRUE
    /\ toCome' = [toCome EXCEPT !.spans = @ - 1]
    /\ UNCHANGED <<rowVars, ledger, recorded, version, rowLock, writers, rebase, index, spanState, verifyVars, dayVars>>

Making == \E a \in rebase.batch : Creates(rebase.read[a])

\* revertedSinceRead: a batch that creates rows first takes the revert lock, waiting for a revert in progress.
RebaseRevertLock ==
    /\ rebase.batch # {} /\ rebase.todo = rebase.batch
    /\ Making /\ ~rebase.revertLock
    /\ writers["realtime"].op # "revert"
    /\ rebase' = [rebase EXCEPT !.revertLock = TRUE]
    /\ UNCHANGED <<rowVars, ledger, recorded, version, rowLock, writers, index, spanToDo, spanState, verifyVars, dayVars, toCome>>

\* lockBatchRows: a row present at the read is locked if it still is there, one to be created is inserted empty, or
\* locked where ingest created it since.
RebaseLockRow ==
    LET a == Min(rebase.todo)
        v == rebase.read[a]
    IN /\ rebase.todo # {}
       /\ Making => rebase.revertLock
       /\ IF (Present(v) /\ stats[a] # NoStat) \/ Creates(v)
            THEN rowLock[a] = "free" /\ rowLock' = [rowLock EXCEPT ![a] = "rebase"]
            ELSE UNCHANGED rowLock
       /\ rebase' = [rebase EXCEPT !.todo = @ \ {a}, !.made = IF Creates(v) /\ stats[a] = NoStat THEN @ \cup {a} ELSE @]
       /\ UNCHANGED <<rowVars, ledger, recorded, version, writers, index, spanToDo, spanState, verifyVars, dayVars, toCome>>

\* Mutant: the versions are not read again once the rows are taken.
NeverStale(a) == FALSE

\* A version the read did not see: a revert, or a settlement, came since.
RevertedSince(a) == recorded[a] # 0 /\ recorded[a] # rebase.read[a].reverted

RebaseVersions ==
    /\ rebase.batch # {} /\ rebase.todo = {} /\ ~rebase.ready
    /\ rebase' = [rebase EXCEPT !.ready = TRUE, !.stale = {a \in rebase.batch : RevertedSince(a)}]
    /\ UNCHANGED <<rowVars, ledger, recorded, version, rowLock, writers, index, spanToDo, spanState, verifyVars, dayVars, toCome>>

\* first_seen or last_seen of a corrected row: merged if ingest moved it since the read, else counted again.
CorrectedEdge(now, read, want, merged, counted) ==
    IF now # read THEN merged ELSE IF want = read THEN now ELSE counted

\* What applyRebaseRows leaves of an address's row.
Rebased(a) ==
    LET v == rebase.read[a]
        s == stats[a]
    IN IF Present(v) /\ (~Seen(v) \/ a \in rebase.stale) THEN (IF s = NoStat THEN NoStat ELSE Truth(a))
       ELSE IF Present(v) /\ Differs(v) /\ s # NoStat THEN
            [txs   |-> s.txs + v.want.txs - v.row.txs,
             first |-> CorrectedEdge(s.first, v.row.first, v.want.first, Lower({s.first, v.want.first}), Truth(a).first),
             last  |-> CorrectedEdge(s.last, v.row.last, v.want.last, Upper({s.last, v.want.last}), Truth(a).last)]
       ELSE IF Creates(v) /\ a \in rebase.stale THEN Truth(a)
       ELSE IF Creates(v) THEN [txs |-> s.txs + v.want.txs, first |-> Lower({s.first, v.want.first}), last |-> Upper({s.last, v.want.last})]
       ELSE s

\* FirstSeenFrom is set: a first_seen moved, a row was removed, or a row was counted again.
MovesFirst(a) ==
    LET v == rebase.read[a]
    IN \/ Present(v) /\ (~Seen(v) \/ a \in rebase.stale) /\ v.row.first # Unseen
       \/ (Present(v) \/ Creates(v)) /\ Differs(v) /\ v.row.first # v.want.first

\* Mutant: every row a batch was to create counts as created.
AllCreated(S) == {a \in S : Creates(rebase.read[a])}

\* The rows the batch inserted and kept; ingest counted the ones it created since the read.
CreatedRows(S) == {a \in S : a \in rebase.made /\ Rebased(a) # NoStat}
RemovedRows(S) == {a \in S : stats[a] # NoStat /\ Rebased(a) = NoStat}

\* applyRebaseRows and the commit.  Only the versions the read saw are taken off the record, and what a running check
\* repaired is logged in the same transaction.
RebaseCommit ==
    LET S == rebase.batch
        rest == DOMAIN rebase.read \ S
    IN /\ rebase.ready
       /\ \A a \in S : Rebased(a) # stats[a] /\ stats[a] # NoStat => rowLock[a] \in {"free", "rebase"}
       /\ stats' = [a \in Addr |-> IF a \in S THEN Rebased(a) ELSE stats[a]]
       /\ addresses' = addresses + Cardinality(CreatedRows(S)) - Cardinality(RemovedRows(S))
       /\ moves' = IF \E a \in S : MovesFirst(a) THEN moves + 1 ELSE moves
       /\ past' = [past EXCEPT !.made = IF \E a \in S : Rebased(a).first # stats[a].first THEN @ + 1 ELSE @,
                               !.passed = IF writers["realtime"].op = "revert" THEN @ ELSE @ \ S]
       /\ recorded' = [a \in Addr |-> IF a \in S /\ recorded[a] = rebase.read[a].reverted THEN 0 ELSE recorded[a]]
       /\ repairs' = repairs \cup rebase.logs
       /\ rowLock' = Released("rebase")
       /\ rebase' = IF rebase.kind = "span" THEN [IdleRebase EXCEPT !.kind = "span", !.read = Restrict(rebase.read, rest)]
                    ELSE IdleRebase
       /\ check' = IF rebase.kind = "check" THEN NoDrift ELSE check
       /\ walk' = [k \in Walker |-> IF k = rebase.kind THEN [walk[k] EXCEPT !.found = @ \ S] ELSE walk[k]]
       /\ UNCHANGED <<held, ledger, txsTotal, version, writers, index, spanToDo, spanState, quarantine, days, toCome>>

\* An interrupted bucket is redone.
Interrupted(k) == [walk[k] EXCEPT !.on = FALSE, !.found = {}]

\* A batch that runs out of time or fails rolls back.  The repair halves it, or stops at a single address; a span is
\* staged again, a check and a reconciled bucket are redone.
RebaseFails ==
    /\ rebase # IdleRebase
    /\ toCome.faults > 0
    /\ toCome' = [toCome EXCEPT !.faults = @ - 1]
    /\ rowLock' = Released("rebase")
    /\ rebase' = IdleRebase
    /\ check' = IF rebase.kind = "check" THEN NoDrift ELSE check
    /\ walk' = [k \in Walker |->
            IF k # rebase.kind THEN walk[k]
            ELSE IF k = "repair" /\ Cardinality(rebase.batch) > 1 THEN [walk[k] EXCEPT !.size = Cardinality(rebase.batch) \div 2]
            ELSE Interrupted(k)]
    /\ UNCHANGED <<rowVars, ledger, recorded, version, writers, index, spanToDo, spanState, repairs, quarantine, dayVars>>

-----------------------------------------------------------------------------
(* recountPendingDays, under lock (4670, 1): recount, then clear only the count it read *)

IdleDays == [on |-> FALSE, pending |-> 0, upto |-> 0]

DaysRecount ==
    /\ ~days.on /\ moves > 0
    /\ days' = [on |-> TRUE, pending |-> moves, upto |-> past.made]
    /\ UNCHANGED <<rowVars, ledger, recorded, version, rowLock, writers, rebase, index, spanToDo, spanState, verifyVars, moves, past, toCome>>

ClearRead == IF moves = days.pending THEN 0 ELSE moves

DaysClear ==
    /\ days.on
    /\ moves' = ClearRead
    /\ past' = [past EXCEPT !.seen = days.upto]
    /\ days' = IdleDays
    /\ UNCHANGED <<rowVars, ledger, recorded, version, rowLock, writers, rebase, index, spanToDo, spanState, verifyVars, toCome>>

DaysFail ==
    /\ days.on /\ toCome.faults > 0
    /\ toCome' = [toCome EXCEPT !.faults = @ - 1]
    /\ days' = IdleDays
    /\ UNCHANGED <<rowVars, ledger, recorded, version, rowLock, writers, rebase, index, spanToDo, spanState, verifyVars, moves, past>>

-----------------------------------------------------------------------------
(* Settlements: RecountRetainedSpan from the rows, SettleNodeSpan from the node; both hold the rebase lock *)

\* Mutant: a settlement corrects the ledger and records nothing for the running counters.
TruthMovedUnsaid(S) == UNCHANGED <<recorded, version, repairs>>

\* truthMoved: the settlement's repairs date after the running counters', and its addresses are recorded.
TruthMoved(S) ==
    /\ version' = version + 1
    /\ recorded' = [a \in Addr |-> IF a \in S THEN version' ELSE recorded[a]]
    /\ repairs' = {r \in repairs : r[1] \notin S}

\* ledger_span_settle: repaired once, quarantined when it drifts again.  A recount that finds the span changed, pruned
\* or incomplete, or that the node cannot decide, settles nothing.
Settle ==
    LET drifted == {a \in Addr : ledger[a] # TrueLedger(a)}
    IN /\ rebase = IdleRebase
       /\ toCome.settles > 0
       /\ toCome' = [toCome EXCEPT !.settles = @ - 1]
       /\ spanState' = IF drifted = {} THEN (IF spanState = "unchecked" THEN "ok" ELSE spanState)
                       ELSE IF spanState \in {"repaired", "quarantined"} THEN "quarantined" ELSE "repaired"
       /\ IF drifted = {} \/ spanState' = "quarantined" THEN UNCHANGED <<ledger, recorded, version, repairs>>
          ELSE /\ ledger' = [a \in Addr |-> TrueLedger(a)]
               /\ TruthMoved(drifted)
       /\ UNCHANGED <<rowVars, rowLock, writers, rebase, index, spanToDo, check, walk, quarantine, dayVars>>

-----------------------------------------------------------------------------
(* The running check *)

\* CheckRunning: the chain counters and one bucket's addresses, in one snapshot.
CheckRead(bucket) ==
    /\ check = NoDrift /\ ~walk["reconcile"].on /\ IndexReady
    /\ toCome.checks > 0
    /\ toCome' = [toCome EXCEPT !.checks = @ - 1]
    /\ check' = [found |-> ChainDrift \cup UNION {DriftsOf(a) : a \in DriftedIn(bucket)}, off |-> TrueTotal - txsTotal]
    /\ UNCHANGED <<rowVars, ledger, recorded, version, rowLock, writers, rebase, index, spanToDo, spanState, walk, repairs, quarantine, dayVars>>

\* repairable, counter after counter: a key that drifted again since its last repair is quarantined instead.
Rank(c)       == CHOOSE i \in DOMAIN Counters : Counters[i] = c
Again         == {d[1] : d \in check.found \cap repairs} \ quarantine
Repairable(d) == /\ d[1] \notin quarantine
                 /\ \A e \in check.found \cap repairs : e[1] = d[1] => (d[1] # 0 /\ Rank(e[2]) > Rank(d[2]))

\* Mutant: a counter is moved by the drift the check read.
MovedByDrift(off) == txsTotal + off

\* settleRunning: set to the truth, read under the counter's row lock.
SettledTotal(off) == TrueTotal

\* repairDrifts: under the rebase lock when a chain counter drifted, then the drifted addresses' rebase, whose logs
\* (logRepair) are written in its own transaction.
CheckRepair ==
    LET sound == {d \in check.found : Repairable(d)}
        addrs == {d[1] : d \in sound} \ {0}
        chain == <<0, "count">> \in sound
    IN /\ check.found # {}
       /\ rebase = IdleRebase
       /\ quarantine' = quarantine \cup Again
       /\ IF chain THEN /\ txsTotal' = SettledTotal(check.off)
                        /\ repairs' = IF txsTotal' = txsTotal THEN repairs ELSE repairs \cup {<<0, "count">>}
          ELSE UNCHANGED <<txsTotal, repairs>>
       /\ IF addrs = {} THEN check' = NoDrift /\ UNCHANGED rebase
          ELSE check' = check /\ BatchStart("check", addrs, {d \in sound : d[1] \in addrs})
       /\ UNCHANGED <<held, stats, addresses, ledger, recorded, version, rowLock, writers, index, spanToDo, spanState, walk, dayVars, toCome>>

-----------------------------------------------------------------------------
(* ReconcileAddressBucket and RepairAddressBucket: bucket after bucket, from a cursor kept in ledger_verify_state *)

IdleWalk == [on |-> FALSE, next |-> 0, found |-> {}, size |-> 0]

\* The bucket's drifted addresses.
WalkRead(k) ==
    /\ ~walk[k].on /\ walk[k].next < AddressBuckets /\ IndexReady
    /\ toCome.walks > 0
    /\ k = "reconcile" => check = NoDrift
    /\ LET S == DriftedIn(walk[k].next)
       IN walk' = [walk EXCEPT ![k] = [@ EXCEPT !.on = TRUE, !.found = S, !.size = Cardinality(S)]]
    /\ toCome' = [toCome EXCEPT !.walks = @ - 1]
    /\ UNCHANGED <<rowVars, ledger, recorded, version, rowLock, writers, rebase, index, spanToDo, spanState, check, repairs, quarantine, dayVars>>

WalkBatch(k) ==
    /\ walk[k].on /\ walk[k].found # {}
    /\ rebase = IdleRebase
    /\ BatchStart(k, FirstOf(walk[k].found, walk[k].size), {})
    /\ UNCHANGED <<rowVars, ledger, recorded, version, rowLock, writers, index, spanToDo, spanState, verifyVars, dayVars, toCome>>

\* The cursor moves once the bucket's addresses are set.
WalkDone(k) ==
    /\ walk[k].on /\ walk[k].found = {} /\ rebase.kind # k
    /\ walk' = [walk EXCEPT ![k] = [@ EXCEPT !.on = FALSE, !.next = walk[k].next + 1]]
    /\ UNCHANGED <<rowVars, ledger, recorded, version, rowLock, writers, rebase, index, spanToDo, spanState, check, repairs, quarantine, dayVars, toCome>>

\* FinishAddressRepair: a finished repair's place is forgotten.
RepairFinish ==
    /\ ~walk["repair"].on /\ walk["repair"].next = AddressBuckets
    /\ walk' = [walk EXCEPT !["repair"] = IdleWalk]
    /\ UNCHANGED <<rowVars, ledger, recorded, version, rowLock, writers, rebase, index, spanToDo, spanState, check, repairs, quarantine, dayVars, toCome>>

-----------------------------------------------------------------------------
\* A restart: every transaction in progress rolls back, and a span not marked is staged again.
RebaseCrash ==
    /\ toCome.crashes > 0
    /\ toCome' = [toCome EXCEPT !.crashes = @ - 1]
    /\ writers' = [w \in Writer |-> IdleWriter]
    /\ rowLock' = [a \in Addr |-> "free"]
    /\ rebase' = IdleRebase
    /\ check' = NoDrift
    /\ walk' = [k \in Walker |-> Interrupted(k)]
    /\ days' = IdleDays
    /\ UNCHANGED <<rowVars, ledger, recorded, version, index, spanToDo, spanState, repairs, quarantine, moves, past>>

\* The first state: an earlier release left drift in the rows, the ledger or transactions_total.
RebaseInitWith(s) ==
    /\ toCome = s
    /\ held = s.held
    /\ ledger = s.drift.ledger
    /\ stats = s.drift.stats
    /\ txsTotal = s.drift.count
    /\ addresses = Cardinality({a \in Addr : stats[a] # NoStat})
    /\ recorded = [a \in Addr |-> 0] /\ version = 0
    /\ rowLock = [a \in Addr |-> "free"]
    /\ writers = [w \in Writer |-> IdleWriter]
    /\ rebase = IdleRebase
    /\ index = s.index
    /\ spanToDo = s.span /\ spanState = "unchecked"
    /\ check = NoDrift /\ repairs = {} /\ quarantine = {}
    /\ walk = [k \in Walker |-> IdleWalk]
    /\ moves = 0 /\ days = IdleDays
    /\ past = [made |-> 0, seen |-> 0, lost |-> {}, passed |-> {}]

RebaseInit == \E s \in RebaseScenarios : RebaseInitWith(s)

WriterNext ==
    \/ \E w \in Writer : IngestTake(w) \/ IngestCommit(w) \/ \E n \in Open, f \in 1 .. 2 : IngestStart(w, n, f)
    \/ \E n \in Open : RevertStart(n)
    \/ RevertTake \/ RevertCommit

RebaseStep ==
    \/ \E own \in {{}, {a \in Addr : ledger[a] # NoStat}} : SpanStage(own)
    \/ SpanNextBatch \/ SpanRebased \/ SpanCloses
    \/ RebaseRevertLock \/ RebaseLockRow \/ RebaseVersions \/ RebaseCommit \/ RebaseFails

VerifyNext ==
    \/ Settle
    \/ \E bucket \in 0 .. AddressBuckets - 1 : CheckRead(bucket)
    \/ CheckRepair
    \/ \E k \in Walker : WalkRead(k) \/ WalkBatch(k) \/ WalkDone(k)
    \/ RepairFinish \/ IndexBuilt \/ IndexBuildStops

DaysNext == DaysRecount \/ DaysClear \/ DaysFail

RebaseNext == WriterNext \/ RebaseStep \/ VerifyNext \/ DaysNext \/ RebaseCrash

RebaseSpec == RebaseInit /\ [][RebaseNext]_rebaseVars

-----------------------------------------------------------------------------
\* Type invariant; no row counts below zero, and only one transaction holds a row.
RebaseTypeOK ==
    /\ stats \in [Addr -> StatRow] /\ ledger \in [Addr -> StatRow]
    /\ held \in [Open -> 0 .. 2]
    /\ addresses \in Nat /\ txsTotal \in Nat /\ moves \in Nat
    /\ index \in {"absent", "invalid", "ready"}
    /\ rowLock \in [Addr -> Writer \cup {"free", "rebase"}]
    /\ \A a \in Addr : recorded[a] \in 0 .. version

\* An address without a row when the rebase in progress read it, and not one of the span's own.
ReadMissing(a) == a \in DOMAIN rebase.read /\ ~Present(rebase.read[a]) /\ ~Creates(rebase.read[a])

\* The running counters as ExactOrOwed sees them.
ExactOrOwedOf ==
    INSTANCE ExactOrOwed WITH Key <- Addr,
                              right <- {a \in Addr : Right(a)},
                              owedKeys <- {a \in Addr : recorded[a] # 0},
                              rowless <- {a \in Addr : stats[a] = NoStat \/ ReadMissing(a)}

\* A running counter that is right and not recorded stays right until a revert or a settlement records it, and the record
\* goes only with a row that is right or absent (address_stats_revert.go, applyRebaseRows, truthMoved).
ExactUntilRecorded == ExactOrOwedOf!Spec

\* A rebase batch leaves every row it took at its truth, whatever ingest and reverts did between its read and its
\* commit (rebaseAddressBatch), unless a revert in progress found the row missing and so could not take it.
RebaseSetsTruth ==
    [][rebase.ready /\ ~rebase'.ready /\ toCome' = toCome => \A a \in HeldBy("rebase") \ past.passed : Right(a)']_rebaseVars

\* addresses_total counts the address_stats rows (wasNew, forgotten, r.Created - r.Removed), and the days wait for a
\* recount whenever a rebase moved a first_seen that the last one did not see (recountPendingDays).
RowsAccounted ==
    /\ addresses = Cardinality({a \in Addr : stats[a] # NoStat})
    /\ past.seen < past.made => moves > 0

\* Drift a repair really removed does not come back by itself, and every drift here is one an earlier release left or a
\* settlement made: the running check quarantines no key, except an address whose row a revert removed between the
\* check's read and its rebase because first_seen was wrong, which logs a repair of a row that is not there
\* (repairable, settleRunning, truthMoved, logRepair).
NothingQuarantined == quarantine \subseteq past.lost
=============================================================================
