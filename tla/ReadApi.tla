------------------------------- MODULE ReadApi -------------------------------
(***************************************************************************)
(* The read API over history that moves under it: the block, transaction,  *)
(* transfer, log and deposit lists of internal/grpcserver with the queries *)
(* of internal/db behind them, and the cached prune watermark that tells a *)
(* pruned target from one that does not exist.                             *)
(*                                                                         *)
(* Clients ask for explicit targets or walk a list page by page, passing   *)
(* each answer's cursor back.  Meanwhile ingest stores and reverts the     *)
(* head, catch-up fills a gap below, and retention moves the watermark and *)
(* then detaches the history tables one by one.  Every query is one        *)
(* statement and so one snapshot; between two queries of a handler         *)
(* anything may happen.                                                    *)
(*                                                                         *)
(* A row is a pair <<block, index>>, ordered as the lists order it.        *)
(***************************************************************************)
EXTENDS Integers, FiniteSets, FiniteSetsExt

CONSTANTS
    ApiClient,      \* concurrent callers
    HeadBlock,      \* the newest block ingest reaches; blocks are 1..HeadBlock
    PageSize,       \* rows of a page, after clampPageSize
    TxRow,          \* the transactions of the chain, as rows
    HiddenTx,       \* those of a hidden transaction type
    SentTx,         \* those an address sent
    ReceivedTx,     \* those it received
    TransferTx,     \* its transfers: log row -> row of the transaction that emitted it
    DepositRow,     \* the L1 deposits, as rows of L1 blocks
    DepositTx,      \* deposit -> the row of its L2 transaction
    ApiScenarios    \* [asks: client -> kinds, budget: trouble -> times, at: client -> bounds, lookup: BOOLEAN]

VARIABLES
    tables,         \* table -> the blocks whose rows it holds
    deposits,       \* op_deposits
    watermark,      \* prune_state.pruned_through
    cache,          \* Server.watermark: through, fresh, started, applied
    call,           \* client -> the request it has under way
    walks,          \* client -> the list it walks
    apiLeft,        \* trouble -> how often it may still happen
    served          \* the scenario: what each client asks for, from where, and whether the node lookup is on

apiVars == <<tables, deposits, watermark, cache, call, walks, apiLeft, served>>

ApiBlock == 1..HeadBlock
Table    == {"blocks", "transactions", "transfers"}
Numbers  == {"block", "txs", "internal", "counts", "logs"}   \* explicit block targets
Hashes   == {"hash", "hashTxs", "tx"}            \* targets by hash
KeyFeeds == {"blocks", "mine", "moves"}          \* lists resumed by the full key of a row
CutFeeds == {"feed", "deposits"}                 \* lists resumed by a block number alone
Numbered == {"paged", "allMoves"}                \* lists by page number
Feeds    == KeyFeeds \cup CutFeeds \cup Numbered
ApiTrouble == {"stores", "fills", "reverts", "prunes", "wipes", "errors", "expiries", "deposits", "asks"}

NoBound == <<HeadBlock + 2, 0>>                  \* above every row
ApiRow  == (1..(HeadBlock + 1)) \X Nat
ApiBound == (1..(HeadBlock + 2)) \X Nat            \* rows, and bounds that are below or above them all

ApiScenario == [asks : [ApiClient -> SUBSET (Numbers \cup Hashes \cup Feeds)], at : SUBSET ((1..(HeadBlock + 2)) \X {0}),
                stored : SUBSET ApiBlock, lookup : BOOLEAN, budget : [ApiTrouble -> Nat]]

ASSUME ApiAssumption ==
    /\ HeadBlock \in Nat \ {0} /\ PageSize \in Nat \ {0}
    /\ TxRow \subseteq ApiRow /\ IsFiniteSet(TxRow)
    /\ DOMAIN TransferTx \subseteq ApiRow /\ IsFiniteSet(DOMAIN TransferTx)
    /\ DepositRow \subseteq ApiRow /\ IsFiniteSet(DepositRow)
    /\ ApiScenarios \subseteq ApiScenario

NoWalk  == [feed |-> "none", from |-> NoBound, at |-> NoBound, page |-> 0, seen |-> {}, kept |-> {}, cut |-> {},
            twice |-> FALSE, shrunk |-> FALSE, state |-> "none"]
NoCall  == [kind |-> "none", at |-> NoBound, given |-> FALSE, step |-> "idle", why |-> "check",
            ticket |-> 0, heard |-> 0, gone |-> FALSE, answer |-> "none"]
-----------------------------------------------------------------------------
(* Rows and pages *)

Older(x, y) == x[1] < y[1] \/ (x[1] = y[1] /\ x[2] < y[2])

\* The n newest rows of S: ORDER BY block_number DESC, index DESC LIMIT n.
Newest(S, n) == {x \in S : Cardinality({y \in S : Older(x, y)}) < n}

Oldest(S) == CHOOSE x \in S : \A y \in S \ {x} : Older(x, y)

TxsOf(h)       == {x \in TxRow : x[1] \in h["transactions"]}
TransfersOf(h) == {x \in DOMAIN TransferTx : x[1] \in h["transfers"]}
Txs            == TxsOf(tables)
Transfers      == TransfersOf(tables)

\* rowBound: a cursor bounds by its row, block_range.to_block by the first row of the block; both exclusive.
RowBound(S, bound) == {x \in S : Older(x, bound)}

GetBlocks(bound, n) == Newest({<<b, 0>> : b \in {c \in tables["blocks"] : c < bound[1]}}, n)

\* A transfer branch that takes the n newest transfers instead: one transaction with many of them fills it.
NewestTransfers(bound, n) == {TransferTx[x] : x \in Newest({y \in Transfers : Older(TransferTx[y], bound)}, n)} \cap Txs

\* The transactions whose transfers concern the address, each once however many of its transfers do.
TransferCandidates(bound, n) == Newest(RowBound({TransferTx[x] : x \in Transfers} \cap Txs, bound), n)

GetTransactionsByAddress(bound, n) ==
    Newest(Newest(RowBound(SentTx \cap Txs, bound), n) \cup Newest(RowBound(ReceivedTx \cap Txs, bound), n)
           \cup TransferCandidates(bound, n), n)

GetTransfersByAddress(bound, n) == Newest(RowBound(Transfers, bound), n)

\* The main list is resumed below the cursor's block, whatever its index.
GetTransactionsWithCategories(bound, n) == Newest({x \in Txs \ HiddenTx : x[1] < bound[1]}, n)

\* LIMIT and OFFSET.
PageOf(all, page) == Newest(all, page * PageSize) \ Newest(all, (page - 1) * PageSize)

GetTransactionsPaginated(page) == PageOf(Txs \ HiddenTx, page)
GetAllTokenTransfers(page) == PageOf(Transfers, page)

GetTransactionsByBlock(b) == {x \in Txs : x[1] = b}

\* ORDER BY l1_block_number alone: within a block any rows may come first.
ListOPDeposits(bound, n) ==
    LET all == {x \in deposits : x[1] < bound[1]} IN
    {S \in SUBSET all : /\ Cardinality(S) = Min({n, Cardinality(all)})
                        /\ \A x \in S, y \in all \ S : y[1] <= x[1]}

\* The transfers stand for the logs and the internal transactions, rows of tables other than the transactions'.
GetLogs(to, n) == Newest({x \in Transfers : x[1] <= to}, n)
GetInternalTransactionsByBlock(b) == {x \in Transfers : x[1] = b}

\* What a list of history h and deposits d holds, as a walk of it should find it.
Listed(h, d, feed) ==
    CASE feed = "blocks"            -> {<<b, 0>> : b \in h["blocks"]}
      [] feed = "mine"              -> (SentTx \cup ReceivedTx \cup {TransferTx[x] : x \in TransfersOf(h)}) \cap TxsOf(h)
      [] feed \in {"moves", "allMoves"} -> TransfersOf(h)
      [] feed \in {"feed", "paged"} -> TxsOf(h) \ HiddenTx
      [] feed = "deposits"          -> d

\* The rows a page request reads: one more than the page, to know whether another follows.
PageRows(feed, bound) ==
    CASE feed = "blocks" -> {GetBlocks(bound, PageSize + 1)}
      [] feed = "mine"   -> {GetTransactionsByAddress(bound, PageSize + 1)}
      [] feed = "moves"  -> {GetTransfersByAddress(bound, PageSize + 1)}
      [] feed = "feed"   -> {GetTransactionsWithCategories(bound, PageSize + 1)}
      [] feed = "deposits" -> ListOPDeposits(bound, PageSize + 1)

\* The cursor points at the last row of the page.
NextCursor(rows) == Oldest(Newest(rows, PageSize))
-----------------------------------------------------------------------------
(* The walks' bookkeeping, for the properties: rows of the list since the walk began, and what may disturb it. *)

Become(h, d) ==
    /\ tables' = h /\ deposits' = d
    /\ walks' = [c \in ApiClient |->
        LET w == walks[c]  now == Listed(h, d, w.feed) IN
        IF w.state # "open" THEN w
        ELSE [w EXCEPT !.kept = @ \cap now, !.shrunk = @ \/ ~(Listed(tables, deposits, w.feed) \subseteq now)]]

SpendApi(t) == apiLeft[t] > 0 /\ apiLeft' = [apiLeft EXCEPT ![t] = @ - 1]
-----------------------------------------------------------------------------
(* What happens to history: ingest, catch-up, reverts, retention, the wipe of FORCE_REINDEX *)

NewestBlock == Max(tables["blocks"] \cup {watermark})

\* A block's rows are written in one transaction.
WriteBlock(b) ==
    /\ b \in ApiBlock /\ b > watermark /\ b \notin tables["blocks"]
    /\ IF b > NewestBlock THEN b = NewestBlock + 1 /\ SpendApi("stores") ELSE SpendApi("fills")
    /\ Become([t \in Table |-> tables[t] \cup {b}], deposits)
    /\ UNCHANGED <<watermark, cache, call, served>>

\* The block's rows go, and the deposits whose L2 transactions it held.
RevertHead ==
    /\ tables["blocks"] # {} /\ NewestBlock > watermark + 1
    /\ SpendApi("reverts")
    /\ Become([t \in Table |-> tables[t] \ {NewestBlock}], {x \in deposits : DepositTx[x][1] # NewestBlock})
    /\ UNCHANGED <<watermark, cache, call, served>>

\* prune_advance moves the watermark past the oldest range; the range's tables are detached later.
AdvanceWatermark(n) ==
    /\ n \in (watermark + 1)..(NewestBlock - 1)
    /\ (watermark + 1)..n \subseteq tables["blocks"]
    /\ SpendApi("prunes")
    /\ watermark' = n
    /\ UNCHANGED <<tables, deposits, cache, call, walks, served>>

DetachTable(t) ==
    /\ tables[t] \cap 1..watermark # {}
    /\ Become([tables EXCEPT ![t] = @ \ 1..watermark], deposits)
    /\ UNCHANGED <<watermark, cache, call, apiLeft, served>>

WipeHistory ==
    /\ SpendApi("wipes")
    /\ Become([t \in Table |-> {}], {})
    /\ watermark' = 0
    /\ call' = [c \in ApiClient |-> [call[c] EXCEPT !.gone = FALSE]]
    /\ UNCHANGED <<cache, served>>

\* InsertOPDepositsBatch: the deposits of newer L1 blocks, a batch in one transaction.
StoreDeposits ==
    /\ SpendApi("deposits")
    /\ Become(tables, DepositRow)
    /\ UNCHANGED <<watermark, cache, call, served>>

\* watermarkTTL passes.
CacheExpires ==
    /\ cache.fresh /\ SpendApi("expiries")
    /\ cache' = [cache EXCEPT !.fresh = FALSE]
    /\ UNCHANGED <<tables, deposits, watermark, call, walks, served>>
-----------------------------------------------------------------------------
(* Requests *)

Replied(c, a) == call' = [call EXCEPT ![c].step = "done", ![c].answer = a]

\* refreshPrunedThrough's first lock: the refresh takes its number.
BeginRefresh(c, why, gone) ==
    /\ cache' = [cache EXCEPT !.started = @ + 1]
    /\ call' = [call EXCEPT ![c].step = "asking", ![c].why = why, ![c].ticket = cache.started + 1, ![c].gone = gone]

\* A recheck that is content with the cached watermark.
CachedRecheck(c, gone) ==
    IF cache.fresh /\ ~(cache.through > 0 /\ call[c].at[1] <= cache.through)
    THEN call' = [call EXCEPT ![c].step = "done", ![c].answer = "absent", ![c].gone = gone] /\ UNCHANGED cache
    ELSE BeginRefresh(c, "recheck", gone)

RecheckRetained(c, gone) == BeginRefresh(c, "recheck", gone)

\* The newest block an explicit target admits: itself, or the one below an exclusive bound.
Target(r) == IF r.kind \in Feeds THEN r.at[1] - 1 ELSE r.at[1]

OutOfRetention(r, through) == through > 0 /\ Target(r) <= through

\* What the handler does once it knows the watermark, for the lookup, the check, the recheck or
\* the message of notFoundByHash. "node" is whatever the node lookup answers.
Judged(c, r, through) ==
    LET out == OutOfRetention(r, through) IN
    CASE r.why = "node" /\ r.kind \in Numbers -> IF out THEN [r EXCEPT !.step = "done", !.answer = "node"]
                                                 ELSE [r EXCEPT !.step = "check", !.why = "check"]
      [] r.why = "node" /\ r.kind \in Hashes  -> IF out THEN [r EXCEPT !.step = "done", !.answer = "node"]
                                                 ELSE [r EXCEPT !.step = "check", !.why = "message"]
      [] r.why = "message" -> [r EXCEPT !.step = "done", !.answer = "absent"]
      [] r.why = "check"   -> IF out THEN [r EXCEPT !.step = "done", !.answer = "pruned"] ELSE [r EXCEPT !.step = "read"]
      [] r.why = "recheck" -> [r EXCEPT !.step = "done", !.answer = IF out THEN "pruned" ELSE "absent"]

\* prunedThrough: the cached watermark while it is fresh, otherwise a refresh.
ReadPruned(c) ==
    /\ call[c].step = "check"
    /\ IF cache.fresh
       THEN call' = [call EXCEPT ![c] = Judged(c, @, cache.through)] /\ UNCHANGED cache
       ELSE BeginRefresh(c, call[c].why, call[c].gone)
    /\ UNCHANGED <<tables, deposits, watermark, walks, apiLeft, served>>

QueryPruned(c) ==
    /\ call[c].step = "asking"
    /\ \/ call' = [call EXCEPT ![c].step = "heard", ![c].heard = watermark] /\ UNCHANGED apiLeft
       \/ SpendApi("errors") /\ Replied(c, IF call[c].why = "message" THEN "absent" ELSE "error")
    /\ UNCHANGED <<tables, deposits, watermark, cache, walks, served>>

\* Of concurrent refreshes the one that started last wins, and every one answers with what won.
ApplyPruned(c) ==
    /\ call[c].step = "heard"
    /\ LET wins == call[c].ticket > cache.applied
           now  == IF wins THEN [cache EXCEPT !.through = call[c].heard, !.applied = call[c].ticket, !.fresh = TRUE]
                   ELSE cache
       IN  cache' = now /\ call' = [call EXCEPT ![c] = Judged(c, @, now.through)]
    /\ UNCHANGED <<tables, deposits, watermark, walks, apiLeft, served>>

\* A request for an explicit target: by number it is checked first, by hash only if the database does not have it.
AskTarget(c, kind, b) ==
    /\ call[c].step = "idle"
    /\ kind \in served.asks[c] \cap (Numbers \cup Hashes)
    /\ SpendApi("asks")
    /\ LET node == served.lookup /\ kind \in {"block", "txs"} IN
       call' = [call EXCEPT ![c] = [NoCall EXCEPT !.kind = kind, !.at = <<b, 0>>, !.given = kind \in Numbers,
                                    !.why = IF node THEN "node" ELSE "check",
                                    !.step = IF kind \in Hashes THEN "read" ELSE "check"]]
    /\ UNCHANGED <<tables, deposits, watermark, cache, walks, served>>

\* A handler's read of its target, and what it does when there is none: a number is checked against a fresh watermark,
\* a hash goes to the node if the lookup is on, and else to notFoundByHash.
ReadTarget(c, has) ==
    LET r == call[c] IN
    /\ r.step = "read"
    /\ \/ /\ has
          /\ IF r.kind = "hashTxs" THEN call' = [call EXCEPT ![c].step = "rows"] ELSE Replied(c, "found")
          /\ UNCHANGED cache
       \/ ~has /\ r.kind \in Numbers /\ RecheckRetained(c, OutOfRetention(r, watermark))
       \/ /\ ~has /\ r.kind \in Hashes
          /\ call' = [call EXCEPT ![c].step = "check", ![c].why = IF served.lookup THEN "node" ELSE "message"]
          /\ UNCHANGED cache
    /\ UNCHANGED <<tables, deposits, watermark, walks, apiLeft, served>>

GetBlock(c) == call[c].kind \in {"block", "hash"} /\ ReadTarget(c, call[c].at[1] \in tables["blocks"])

GetTransaction(c) == call[c].kind = "tx" /\ ReadTarget(c, call[c].at \in Txs)

\* By number the transactions are read at once, by hash the block is read first.
ListBlockTransactions(c) ==
    \/ call[c].kind = "txs" /\ ReadTarget(c, GetTransactionsByBlock(call[c].at[1]) # {})
    \/ call[c].kind = "hashTxs" /\ ReadTarget(c, call[c].at[1] \in tables["blocks"])

ListInternalTransactions(c) ==
    call[c].kind = "internal" /\ ReadTarget(c, GetInternalTransactionsByBlock(call[c].at[1]) # {})

\* The counts of several blocks; the oldest of them is the target.
BatchGetBlockTransactionCounts(c) ==
    call[c].kind = "counts" /\ ReadTarget(c, GetTransactionsByBlock(call[c].at[1]) # {})

ListLogs(c) == call[c].kind = "logs" /\ ReadTarget(c, GetLogs(call[c].at[1], PageSize) # {})

\* The transactions of a block found by hash are read by its number, with no further check.
ReadRowsOfHash(c) ==
    /\ call[c].step = "rows"
    /\ Replied(c, IF GetTransactionsByBlock(call[c].at[1]) # {} THEN "found" ELSE "empty")
    /\ UNCHANGED <<tables, deposits, watermark, cache, walks, apiLeft, served>>
-----------------------------------------------------------------------------
(* Walks *)

\* The first page of a list, from the top or from an explicit bound (before_number, block_range.to_block).
OpenWalk(c, feed, bound) ==
    /\ walks[c].state = "none" /\ call[c].step = "idle"
    /\ feed \in served.asks[c] \cap Feeds
    /\ bound \in served.at /\ (bound # NoBound => feed \in KeyFeeds)
    /\ walks' = [walks EXCEPT ![c] = [NoWalk EXCEPT !.feed = feed, !.from = bound, !.at = bound, !.page = 1,
                                                  !.kept = RowBound(Listed(tables, deposits, feed), bound), !.state = "open"]]
    /\ UNCHANGED <<tables, deposits, watermark, cache, call, apiLeft, served>>

\* An explicit bound is checked against the watermark on every list that takes one; a cursor on the blocks list only.
AskPage(c) ==
    LET w == walks[c]  explicit == w.at # NoBound /\ (w.feed = "blocks" \/ w.page = 1) IN
    /\ w.state = "open" /\ call[c].step = "idle"
    /\ call' = [call EXCEPT ![c] = [NoCall EXCEPT !.kind = w.feed, !.at = w.at, !.given = explicit,
                                                  !.step = IF explicit THEN "check" ELSE "read"]]
    /\ UNCHANGED <<tables, deposits, watermark, cache, walks, apiLeft, served>>

\* The walk after a page: rows is what the query returned, more whether a cursor follows.
Turned(w, page, at, more) ==
    [w EXCEPT !.seen = @ \cup page, !.twice = @ \/ page \cap w.seen # {}, !.page = @ + 1, !.at = at,
              !.cut = IF more THEN @ \cup {at[1]} ELSE @, !.state = IF more THEN "open" ELSE "whole"]

\* A page of rows and the cursor of the next; an empty answer to an explicit bound is checked against a fresh watermark.
ReadPage(c) ==
    LET r == call[c] IN
    /\ r.step = "read"
    /\ \E rows \in PageRows(r.kind, r.at) :
        IF r.given /\ rows = {}
        THEN RecheckRetained(c, OutOfRetention(r, watermark)) /\ UNCHANGED walks
        ELSE LET more == Cardinality(rows) > PageSize IN
             /\ \E page \in IF r.kind # "deposits" THEN {Newest(rows, PageSize)}
                            ELSE {S \in SUBSET rows : /\ Cardinality(S) = Min({PageSize, Cardinality(rows)})
                                                      /\ \A x \in S, y \in rows \ S : y[1] <= x[1]} :
                  LET at == IF ~more THEN NoBound
                            ELSE IF r.kind = "deposits" THEN <<Min({x[1] : x \in page}), 0>> ELSE NextCursor(rows)
                  IN  walks' = [walks EXCEPT ![c] = Turned(@, page, at, more)]
             /\ call' = [call EXCEPT ![c] = NoCall] /\ UNCHANGED cache
    /\ UNCHANGED <<tables, deposits, watermark, apiLeft, served>>

ListBlocks(c) == call[c].kind = "blocks" /\ ReadPage(c)
ListTransactions(c) == call[c].kind \in {"mine", "feed"} /\ ReadPage(c)
ListTokenTransfers(c) == call[c].kind = "moves" /\ ReadPage(c)
ListDeposits(c) == call[c].kind = "deposits" /\ ReadPage(c)

\* A page by its number; the caller stops at a short one.
ReadOffsetPage(c, page) ==
    /\ call[c].step = "read"
    /\ walks' = [walks EXCEPT ![c] = Turned(@, page, NoBound, Cardinality(page) = PageSize)]
    /\ call' = [call EXCEPT ![c] = NoCall]
    /\ UNCHANGED <<tables, deposits, watermark, cache, apiLeft, served>>

ListTransactionsPaginated(c) == call[c].kind = "paged" /\ ReadOffsetPage(c, GetTransactionsPaginated(walks[c].page))
ListAllTokenTransfers(c) == call[c].kind = "allMoves" /\ ReadOffsetPage(c, GetAllTokenTransfers(walks[c].page))

\* A caller takes its answer; a list that answers an error, or that its bound is pruned, ends there.
TakeAnswer(c) ==
    /\ call[c].step = "done"
    /\ walks' = [walks EXCEPT ![c].state = IF call[c].kind \in Feeds THEN call[c].answer ELSE @]
    /\ call' = [call EXCEPT ![c] = NoCall]
    /\ served' = [served EXCEPT !.asks[c] = IF call[c].kind \in Feeds THEN {} ELSE @]
    /\ UNCHANGED <<tables, deposits, watermark, cache, apiLeft>>
-----------------------------------------------------------------------------
ApiInitWith(s) ==
    /\ served = s
    /\ tables = [t \in Table |-> s.stored]
    /\ deposits = {x \in DepositRow : x[1] < HeadBlock}
    /\ watermark = 0
    /\ cache = [through |-> 0, fresh |-> FALSE, started |-> 0, applied |-> 0]
    /\ call = [c \in ApiClient |-> NoCall]
    /\ walks = [c \in ApiClient |-> NoWalk]
    /\ apiLeft = s.budget

ApiInit == \E s \in ApiScenarios : ApiInitWith(s)

HistoryMoves ==
    \/ \E b \in ApiBlock : WriteBlock(b)
    \/ RevertHead
    \/ \E n \in ApiBlock : AdvanceWatermark(n)
    \/ \E t \in Table : DetachTable(t)
    \/ WipeHistory \/ StoreDeposits \/ CacheExpires

ClientSteps(c) ==
    \/ \E kind \in Numbers \cup Hashes, b \in ApiBlock : AskTarget(c, kind, b)
    \/ ReadPruned(c) \/ QueryPruned(c) \/ ApplyPruned(c)
    \/ GetBlock(c) \/ GetTransaction(c) \/ ListBlockTransactions(c) \/ ReadRowsOfHash(c)
    \/ ListInternalTransactions(c) \/ BatchGetBlockTransactionCounts(c) \/ ListLogs(c)
    \/ \E feed \in Feeds, bound \in served.at : OpenWalk(c, feed, bound)
    \/ AskPage(c) \/ ListBlocks(c) \/ ListTransactions(c) \/ ListTokenTransfers(c) \/ ListDeposits(c)
    \/ ListTransactionsPaginated(c) \/ ListAllTokenTransfers(c) \/ TakeAnswer(c)

ApiNext == HistoryMoves \/ \E c \in ApiClient : ClientSteps(c)

ApiSpec == ApiInit /\ [][ApiNext]_apiVars
-----------------------------------------------------------------------------
ApiCache == [through : 0..HeadBlock, fresh : BOOLEAN, started : Nat, applied : Nat]

ApiCall == [kind : Numbers \cup Hashes \cup Feeds \cup {"none"}, at : ApiBound, given : BOOLEAN,
            step : {"idle", "check", "asking", "heard", "read", "rows", "done"}, why : {"node", "check", "recheck", "message"},
            ticket : Nat, heard : 0..HeadBlock, gone : BOOLEAN,
            answer : {"none", "found", "empty", "node", "pruned", "absent", "error"}]

ApiWalk == [feed : Feeds \cup {"none"}, from : ApiBound, at : ApiBound, page : Nat, seen : SUBSET ApiRow, kept : SUBSET ApiRow,
            cut : SUBSET Nat, twice : BOOLEAN, shrunk : BOOLEAN,
            state : {"none", "open", "whole", "pruned", "absent", "error"}]

\* Type invariant.
ApiTypeOK ==
    /\ tables \in [Table -> SUBSET ApiBlock] /\ deposits \subseteq DepositRow /\ watermark \in 0..HeadBlock
    /\ cache \in ApiCache
    /\ call \in [ApiClient -> ApiCall]
    /\ walks \in [ApiClient -> ApiWalk]
    /\ apiLeft \in [ApiTrouble -> Nat]
    /\ served \in ApiScenario

\* A list walked to its end, cursor by cursor, while the head grows, reverts and history is pruned, has returned
\* every row that was listed throughout, and none twice (ListBlocks, ListTransactions and ListTokenTransfers by
\* address).  The main list and the deposits resume by block number and may miss rows, but only of a block some page
\* ended in; numbered pages may repeat rows, and miss one only if rows went away meanwhile.
PagedOnce ==
    \A c \in ApiClient : walks[c].state = "whole" =>
        LET w == walks[c]  missed == w.kept \ w.seen IN
        /\ w.feed \in KeyFeeds => missed = {} /\ ~w.twice
        /\ w.feed \in CutFeeds => ~w.twice /\ \A x \in missed : x[1] \in w.cut
        /\ w.feed \in Numbered /\ ~w.shrunk => missed = {}

\* A target at or below the watermark when its rows were read as missing is answered as pruned, never as absent: the
\* recheck reads the watermark after the rows, whichever of several refreshes is the one that is kept.
PrunedSaidSo == \A c \in ApiClient : call[c].given /\ call[c].answer = "absent" => ~call[c].gone

\* What the proofs need besides.  A call for a page is its client's open walk's; the others are for targets.
CallMatches(r, w) ==
    /\ r.step = "idle" <=> r.kind = "none"
    /\ r.kind \in Feeds => /\ w.state = "open" /\ w.feed = r.kind /\ w.at = r.at
                           /\ r.answer \in {"none", "pruned", "absent", "error"}
    /\ r.step = "rows" => r.kind = "hashTxs"
    /\ r.why = "node" => r.kind \in Numbers \cup Hashes
    /\ r.step = "done" <=> r.answer # "none"

CallsMatch == \A c \in ApiClient : CallMatches(call[c], walks[c])
WalksOpen  == \A c \in ApiClient : walks[c].state = "open" => walks[c].feed \in Feeds
ApiBase    == ApiTypeOK /\ CallsMatch /\ WalksOpen

\* Refreshes under way have numbers of their own, and the one applied last had one of those given out.
Refreshing(r) == r.step \in {"asking", "heard"}
TicketsDiffer ==
    /\ cache.applied <= cache.started
    /\ \A c \in ApiClient : Refreshing(call[c]) => call[c].ticket \in 1..cache.started
    /\ \A c, d \in ApiClient : c # d /\ Refreshing(call[c]) /\ Refreshing(call[d]) => call[c].ticket # call[d].ticket

\* A recheck of a pruned target is going to hear so, from itself or from any refresh that may be kept instead of it.
PrunedHeard ==
    \A c \in ApiClient :
        LET r == call[c] IN
        r.gone => /\ r.why = "recheck" /\ r.step \in {"asking", "heard", "done"}
                  /\ Refreshing(r) => /\ OutOfRetention(r, watermark)
                                      /\ r.step = "heard" => OutOfRetention(r, r.heard)
                                      /\ cache.applied >= r.ticket => OutOfRetention(r, cache.through)
                                      /\ \A d \in ApiClient : call[d].step = "heard" /\ call[d].ticket > r.ticket
                                                               => OutOfRetention(r, call[d].heard)
                  /\ r.answer # "absent"

PrunedInv == ApiBase /\ TicketsDiffer /\ PrunedHeard

\* An open walk: the rows returned are not below where it resumes, and those it still owes are, but for the ones a
\* list resumed by block number cuts off; a list by page number owes only rows of later pages.
Newer(S, x) == {y \in S : Older(x, y)}
WalkOwes(w, all) ==
    /\ w.page >= 1 /\ w.kept \subseteq all
    /\ w.feed \in KeyFeeds => /\ ~w.twice
                              /\ w.feed = "blocks" => w.at[2] = 0
                              /\ \A x \in w.seen : ~Older(x, w.at)
                              /\ \A x \in w.kept \ w.seen : Older(x, w.at)
    /\ w.feed \in CutFeeds => /\ ~w.twice
                              /\ \A x \in w.seen : x[1] >= w.at[1]
                              /\ \A x \in w.kept \ w.seen : x[1] < w.at[1] \/ x[1] \in w.cut
    /\ w.feed \in Numbered /\ ~w.shrunk =>
          \A x \in w.kept \ w.seen : Cardinality(Newer(all, x)) >= (w.page - 1) * PageSize

WalksOwe == \A c \in ApiClient : walks[c].state = "open" => WalkOwes(walks[c], Listed(tables, deposits, walks[c].feed))
ApiInv   == PrunedInv /\ WalksOwe /\ PagedOnce

\* What cursor.go says of the main transaction list: it is ordered and resumed by (block_number, transaction_index).
FeedWhole == \A c \in ApiClient : walks[c].state = "whole" /\ walks[c].feed = "feed" => walks[c].kept \subseteq walks[c].seen
=============================================================================
