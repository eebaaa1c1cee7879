----------------------------- MODULE MCServices -----------------------------
(***************************************************************************)
(* Small instances, for one run of TLC, of what writes blocks at once and  *)
(* what reads them: the gap filling, the rows blocks share, the contracts  *)
(* backfill, the read API and the lookups of pruned history.  Each         *)
(* behaviour moves one of them; the others stay at a first state.          *)
(***************************************************************************)
EXTENDS Catchup, SharedRows, ContractsBackfill, ReadApi, NodeLookup, TLC

CONSTANTS w1, w2

VARIABLE part   \* the one that runs

TwoWorkers == {w1, w2}
WorkerSymmetry == Permutations({w1, w2})

-----------------------------------------------------------------------------
\* Shared rows: the token of each balance key, and what each transaction writes.
KeyTokens == [k \in BalanceKey |-> IF k = 3 THEN 2 ELSE 1]

NoRows == [x \in {} |-> x]
Plain == [moves |-> {}, found |-> {}, nfts |-> NoRows, creates |-> {}, seen |-> {}, held |-> {}]
BalanceRow(k, b, p) == [key |-> k, block |-> b, pos |-> p]
Given(b, p) == [block |-> b, pos |-> p]
NftMove(f, t) == 1 :> [from |-> f, to |-> t]

NoWriters == [kind |-> [t \in Txn |-> "none"], block |-> [t \in Txn |-> 0], head |-> [t \in Txn |-> FALSE],
              reads |-> [t \in Txn |-> NoRows], data |-> [b \in 1..4 |-> Plain], losses |-> 1,
              tokens |-> NoRows, nfts |-> NoRows, stored |-> {}, contracts |-> NoRows, history |-> {}]

\* Two blocks in the pipeline that create one contract, a worker on a token found late, and a flush of its holder.
Pipeline ==
    [NoWriters EXCEPT
        !.kind = 1 :> "block" @@ 2 :> "block" @@ 3 :> "block" @@ 4 :> "flush",
        !.block = 1 :> 3 @@ 2 :> 4 @@ 3 :> 2 @@ 4 :> 0,
        !.head = 1 :> TRUE @@ 2 :> TRUE @@ 3 :> FALSE @@ 4 :> FALSE,
        !.reads = [t \in Txn |-> IF t = 4 THEN 1 :> Given(2, TRUE) @@ 3 :> Given(2, TRUE) ELSE NoRows],
        !.data = 1 :> [Plain EXCEPT !.moves = {1, 2}] @@
                 2 :> [Plain EXCEPT !.found = {2}, !.moves = {1}, !.nfts = NftMove(0, 1), !.seen = {1}] @@
                 3 :> [Plain EXCEPT !.moves = {2}, !.creates = {1}, !.nfts = NftMove(1, 2)] @@
                 4 :> [Plain EXCEPT !.found = {1}, !.moves = {1, 2}, !.creates = {1}, !.seen = {1}],
        !.stored = {1}]

\* A block is reverted while workers fill holes below and above it, and a flush writes its holders.
Reverted ==
    [NoWriters EXCEPT
        !.kind = 1 :> "revert" @@ 2 :> "block" @@ 3 :> "flush" @@ 4 :> "block",
        !.block = 1 :> 3 @@ 2 :> 2 @@ 3 :> 0 @@ 4 :> 4,
        !.reads = [t \in Txn |-> IF t = 3 THEN 1 :> Given(3, FALSE) @@ 2 :> Given(3, TRUE) ELSE NoRows],
        !.data = 1 :> [Plain EXCEPT !.moves = {1}, !.nfts = NftMove(0, 1)] @@
                 2 :> [Plain EXCEPT !.found = {1}, !.moves = {1}, !.nfts = NftMove(1, 2), !.creates = {1}, !.seen = {1}] @@
                 3 :> [Plain EXCEPT !.moves = {1}, !.nfts = NftMove(2, 3), !.creates = {1}, !.held = {1, 2}, !.seen = {1}] @@
                 4 :> [Plain EXCEPT !.moves = {1, 2}, !.nfts = NftMove(3, 4)],
        !.tokens = 1 :> [count |-> 2, holders |-> 1], !.nfts = 1 :> [owner |-> 3, block |-> 3],
        !.stored = {1, 3}, !.contracts = 1 :> 3,
        !.history = {BalanceRow(1, 1, FALSE), BalanceRow(1, 3, TRUE)}]

\* A minted NFT and the last transfer of its token are reverted.
Minted ==
    [NoWriters EXCEPT
        !.kind = 1 :> "revert" @@ 2 :> "block" @@ 3 :> "block" @@ 4 :> "none",
        !.block = 1 :> 3 @@ 2 :> 3 @@ 3 :> 2 @@ 4 :> 0,
        !.data = 1 :> Plain @@ 2 :> [Plain EXCEPT !.moves = {1}] @@
                 3 :> [Plain EXCEPT !.moves = {1}, !.nfts = NftMove(0, 3), !.seen = {1}] @@ 4 :> Plain,
        !.tokens = 1 :> [count |-> 1, holders |-> 0], !.nfts = 1 :> [owner |-> 3, block |-> 3], !.stored = {3}]

WriterSets == {Pipeline, Reverted, Minted}

\* The reverted block moves a token whose row a worker creates meanwhile.
Unguarded ==
    {[NoWriters EXCEPT
        !.kind = 1 :> "revert" @@ 2 :> "block" @@ 3 :> "none" @@ 4 :> "none",
        !.block = 1 :> 3 @@ 2 :> 2 @@ 3 :> 0 @@ 4 :> 0,
        !.data = 1 :> Plain @@ 2 :> [Plain EXCEPT !.found = {1}, !.moves = {1}] @@
                 3 :> [Plain EXCEPT !.moves = {1}] @@ 4 :> Plain,
        !.stored = {3}, !.losses = 0]}

-----------------------------------------------------------------------------
\* Contracts backfill: a transaction of a pruned block that creates a listed contract and one nobody listed, two of a
\* retained block, one with a creation under a failed call and a contract listed twice, one that failed as a whole, and
\* one of the head, whose unlisted contract's code only the node has.
Heights == 1 :> 1 @@ 2 :> 2 @@ 3 :> 2 @@ 4 :> 3
Frame(path, of, code) == [path |-> path, create |-> TRUE, failed |-> FALSE, of |-> of, code |-> code]
Call(path, failed) == [path |-> path, create |-> FALSE, failed |-> failed, of |-> 0, code |-> "none"]
Traces == 1 :> <<Call(<<>>, FALSE), Frame(<<0>>, 1, "output"), Frame(<<1>>, 2, "node")>> @@
          2 :> <<Call(<<>>, FALSE), Frame(<<0>>, 3, "output"), Call(<<1>>, TRUE), Frame(<<1, 0>>, 4, "output"), Frame(<<2>>, 5, "node")>> @@
          3 :> <<Call(<<>>, TRUE), Frame(<<0>>, 8, "output")>> @@
          4 :> <<Call(<<>>, FALSE), Frame(<<0>>, 6, "output"), Frame(<<0, 0>>, 7, "node")>>
CreationList == 1 :> <<1>> @@ 2 :> <<3, 5, 4, 3>> @@ 3 :> <<8>> @@ 4 :> <<6>>

Command(untraced, rows, framed, troubles) ==
    [untraced |-> untraced, chain |-> {1, 2, 3}, framed |-> framed, rows |-> rows, left |-> troubles]
Backfilling(n) == [stops |-> n, reruns |-> n, reverts |-> n, errors |-> n, lapses |-> n]
NoCommand == Command(FALSE, NoRows, {2, 3, 4}, Backfilling(0))
Commands ==
    {Command(untraced, rows, {2, 3, 4}, Backfilling(1)) : untraced \in BOOLEAN, rows \in {NoRows, 6 :> 3 @@ 7 :> 3}}
    \cup {Command(FALSE, NoRows, {2, 3}, [Backfilling(1) EXCEPT !.lapses = 2]),
          Command(FALSE, NoRows, {2, 3}, [Backfilling(1) EXCEPT !.reverts = 2, !.lapses = 2, !.errors = 0])}

-----------------------------------------------------------------------------
\* Read API: the transactions, which are hidden and which are the address's; a transaction with three of its transfers
\* and an L1 block with three deposits, so that each fills a page.
ListedTxs == {<<1, 0>>, <<2, 0>>, <<2, 1>>, <<3, 0>>, <<3, 1>>, <<3, 2>>, <<4, 0>>}
Unlisted == {<<2, 0>>}
SentBy == {<<1, 0>>, <<3, 0>>}
ReceivedBy == {<<3, 0>>, <<4, 0>>}
MovedIn == (<<1, 0>> :> <<1, 0>>) @@ (<<2, 0>> :> <<2, 1>>)
           @@ (<<3, 0>> :> <<3, 2>>) @@ (<<3, 1>> :> <<3, 2>>) @@ (<<3, 2>> :> <<3, 2>>)
FromL1 == {<<1, 0>>, <<2, 0>>, <<2, 1>>, <<2, 2>>, <<4, 0>>}
ToL2 == [x \in FromL1 |-> IF x[1] = 1 THEN <<1, 0>> ELSE <<3, x[2]>>]

Quiet == [t \in ApiTrouble |-> 0]
Growing == [Quiet EXCEPT !["stores"] = 1, !["reverts"] = 1, !["prunes"] = 1]
Ageing == [Quiet EXCEPT !["prunes"] = 1, !["expiries"] = 1]

\* One client walks lists, the other asks for targets.
Callers(lists, targets, blocks, bounds, lookup, troubles) ==
    [asks |-> [c \in ApiClient |-> IF c = 1 THEN lists ELSE targets], at |-> bounds, stored |-> blocks, lookup |-> lookup,
     budget |-> troubles]
NoCallers == Callers({}, {}, {1}, {}, FALSE, Quiet)
CallerSets == {
    Callers({"blocks", "mine", "moves"}, {}, {1, 2, 3}, {NoBound, <<3, 0>>}, FALSE, [Growing EXCEPT !["errors"] = 1]),
    Callers({"mine", "feed", "paged", "allMoves"}, {}, {1, 3}, {NoBound}, FALSE, [Growing EXCEPT !["fills"] = 1]),
    Callers({"deposits"}, {}, {1, 2, 3}, {NoBound}, FALSE, [Quiet EXCEPT !["deposits"] = 1, !["reverts"] = 1]),
    Callers({"blocks"}, {"block", "txs"}, {1, 2, 3}, {<<3, 0>>}, FALSE, [Ageing EXCEPT !["asks"] = 1]),
    Callers({"block"}, {"hash", "tx"}, {1, 2, 3}, {}, TRUE, [Ageing EXCEPT !["asks"] = 1]),
    Callers({"block"}, {"hashTxs"}, {1, 2, 3}, {}, TRUE, [Ageing EXCEPT !["asks"] = 2]),
    Callers({"logs", "internal"}, {"counts"}, {1, 2}, {}, FALSE, [Quiet EXCEPT !["prunes"] = 1, !["asks"] = 2, !["wipes"] = 1])}

-----------------------------------------------------------------------------
\* Lookups: the transactions of each height, on the orphaned chain and on the chain; one of them is on both, at
\* different heights.
Orphans == (1 :> {"t1"}) @@ (2 :> {"t2", "t3"})
Mains   == (1 :> {"t1", "t2"}) @@ (2 :> {"t4"})

ByHash(v, n) == [kind |-> "hash", of |-> <<v, n>>, id |-> 1]
ByTx(t) == [kind |-> "tx", of |-> t, id |-> 1]
ByNumber(n) == [kind |-> "number", of |-> n, id |-> 1]
Again(want) == [want EXCEPT !.id = 2]
Wanting(one, other, errors) ==
    [wanted |-> [a \in Asker |-> IF a = 1 THEN one ELSE other], busy |-> 1, errors |-> errors, settles |-> 1]
Lookups == {
    Wanting({ByNumber(1), ByTx("t2")}, {ByHash("main", 1), ByTx("t3")}, 0),
    Wanting({ByTx("t2")}, {ByHash("main", 1), ByHash("orphan", 2)}, 0),
    Wanting({ByHash("main", 1), Again(ByHash("main", 1)), ByNumber(1)}, {ByHash("main", 1)}, 1)}

-----------------------------------------------------------------------------
servicesVars == <<part, vars, sharedVars, contractVars, apiVars, lookVars>>

ServicesInit ==
    /\ part \in {"catchup", "rows", "contracts", "api", "lookups"}
    /\ Init /\ (part # "catchup" => head = First)
    /\ IF part = "rows" THEN SharedInit ELSE SharedInitWith(NoWriters)
    /\ IF part = "contracts" THEN ContractsInit ELSE ContractsInitWith(NoCommand)
    /\ IF part = "api" THEN ApiInit ELSE ApiInitWith(NoCallers)
    /\ IF part = "lookups" THEN LookInit ELSE LookInitWith(Wanting({}, {}, 0))

ServicesNext ==
    \/ part = "catchup" /\ Next /\ Calm /\ UNCHANGED <<part, sharedVars, contractVars, apiVars, lookVars>>
    \/ part = "rows" /\ SharedNext /\ UNCHANGED <<part, vars, contractVars, apiVars, lookVars>>
    \/ part = "contracts" /\ ContractsNext /\ UNCHANGED <<part, vars, sharedVars, apiVars, lookVars>>
    \/ part = "api" /\ ApiNext /\ UNCHANGED <<part, vars, sharedVars, contractVars, lookVars>>
    \/ part = "lookups" /\ LookNext /\ UNCHANGED <<part, vars, sharedVars, contractVars, apiVars>>

ServicesSpec == ServicesInit /\ [][ServicesNext]_servicesVars

\* Type invariant of gap filling, with its bounded channel, the shared rows, the contracts backfill, the read API and the
\* lookups, with the slots and the bytes they account for.
ServicesTypeOK == TypeOK /\ SharedTypeOK /\ ContractsTypeOK /\ ApiTypeOK /\ LookTypeOK /\ BytesBounded
=============================================================================
