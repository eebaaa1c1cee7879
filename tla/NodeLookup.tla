----------------------------- MODULE NodeLookup -----------------------------
(***************************************************************************)
(* Pruned history served from the node (internal/nodelookup): whole blocks *)
(* fetched by number and kept in an LRU, the indexes of their hashes and   *)
(* transactions, one shared fetch per block, and a bounded number of calls *)
(* to the node at a time.                                                  *)
(*                                                                         *)
(* The node is external: several backends, one of them on an orphaned      *)
(* chain, perhaps behind, until it catches up, and each call is answered   *)
(* by either.  Every height asked for is at or below the watermark.        *)
(***************************************************************************)
EXTENDS Integers, Sequences, FiniteSets, FiniteSetsExt

Seqs == INSTANCE SequencesExt

CONSTANTS
    Asker,          \* concurrent requests
    NodeBlock,      \* the pruned heights asked for
    OrphanTx,       \* height -> the transactions of its block on the orphaned chain
    MainTx,         \* height -> those of its block on the chain
    MaxBlocks,      \* Config.MaxBlocks
    MaxTxs,         \* Config.MaxBytes, counted in transactions
    Concurrency,    \* Config.Concurrency
    LookupScenarios \* [wanted: asker -> targets, budget: trouble -> times, asks: asker -> how often]

VARIABLES
    order,          \* the cached blocks, the most recently used first
    hashBlock, txBlock, bytes,
    fetches,        \* height -> the fetch in flight: its leader, its followers, what it has read
    taken,          \* node slots in use
    req,            \* asker -> its request
    stale,          \* the orphaned backend still answers
    lookLeft,
    missed          \* hashes of the chain answered as missing since the backends agreed

lookVars == <<order, hashBlock, txBlock, bytes, fetches, taken, req, stale, lookLeft, missed>>

View == {"main", "orphan"}
Views == IF stale THEN View ELSE {"main"}
TxsAt(v, n) == IF v = "main" THEN MainTx[n] ELSE OrphanTx[n]
LookTx == UNION {TxsAt(v, n) : v \in View, n \in NodeBlock}

\* A block's hash is its chain and height.
Hash == View \X NodeBlock
Copies == 1..(Cardinality(Asker) + MaxBlocks + 1)   \* tells two fetched copies of a block apart, as their pointers do
NodesBlock(v, n) == [number |-> n, hash |-> <<v, n>>, txs |-> TxsAt(v, n), copy |-> 1]
Hit == [number : NodeBlock, hash : Hash, txs : SUBSET LookTx, copy : Copies]

\* What the askers may ask for, in any scenario.
Wants == UNION {s.wanted[a] : s \in LookupScenarios, a \in Asker}

\* Config.withDefaults leaves no bound at zero.
ASSUME LookupAssumption ==
    /\ IsFiniteSet(Asker) /\ IsFiniteSet(NodeBlock)
    /\ MaxBlocks \in Nat \ {0} /\ MaxTxs \in Nat \ {0} /\ Concurrency \in Nat \ {0}
    /\ \A s \in LookupScenarios : s \in [wanted : [Asker -> SUBSET Wants], busy : Nat, errors : Nat, settles : Nat]
    /\ \A w \in Wants : \/ w.kind = "number" /\ w.of \in NodeBlock
                        \/ w.kind = "hash" /\ w.of \in Hash
                        \/ w.kind = "tx"

NoBlock  == [number |-> 0, hash |-> <<"main", 0>>, txs |-> {}, copy |-> 1]
NoFetch  == [leader |-> 0, with |-> {}, step |-> "none", block |-> NoBlock, receipts |-> {}, old |-> FALSE]
NoTarget == [kind |-> "none"]
NoReq    == [want |-> NoTarget, step |-> "idle", number |-> 0, block |-> NoBlock, answer |-> "none", late |-> FALSE,
             again |-> FALSE]
LookTrouble == {"busy", "errors", "settles"}

Empty == [x \in {} |-> 0]
-----------------------------------------------------------------------------
(* The cache *)

Cached(n)   == {i \in DOMAIN order : order[i].number = n}
ToFront(i)  == <<order[i]>> \o Seqs!RemoveAt(order, i)
Size(b)     == 1 + Cardinality(b.txs)
Bytes(o)    == Seqs!FoldSeq(LAMBDA b, sum : sum + Size(b), 0, o)
Without(f, S) == [x \in DOMAIN f \ S |-> f[x]]

\* store's eviction from the back, while there are too many blocks or too many bytes of more than one.
Evicted(o) ==
    LET fits(n) == n <= MaxBlocks /\ (Bytes(SubSeq(o, 1, n)) <= MaxTxs \/ n <= 1)
    IN  SubSeq(o, 1, Max({n \in 0..Len(o) : fits(n)}))

\* An eviction that leaves the transactions of the block in their index.
DropHashOnly(gone, h, t) ==
    /\ hashBlock' = Without(h, {b.hash : b \in gone})
    /\ txBlock' = t

\* evict: the block goes and takes every index entry of its hash and its transactions with it.
Drop(gone, h, t) ==
    /\ hashBlock' = Without(h, {b.hash : b \in gone})
    /\ txBlock' = Without(t, UNION {b.txs : b \in gone})

\* A block that is already cached at the height stays; the one just fetched is served without being kept.
Store(b) ==
    IF Cached(b.number) # {} THEN UNCHANGED <<order, hashBlock, txBlock, bytes>>
    ELSE LET o == Evicted(<<b>> \o order)
             gone == Seqs!ToSet(<<b>> \o order) \ Seqs!ToSet(o)
         IN  /\ order' = o /\ bytes' = Bytes(o)
             /\ Drop(gone, [x \in DOMAIN hashBlock \cup {b.hash} |-> IF x = b.hash THEN b.number ELSE hashBlock[x]],
                           [x \in DOMAIN txBlock \cup b.txs |-> IF x \in b.txs THEN b.number ELSE txBlock[x]])

\* A mismatch that leaves the cache alone.
KeepIt(b) == UNCHANGED <<order, hashBlock, txBlock, bytes>>

\* forget: the cached block goes if it is this very one.
Forget(b) ==
    IF \E i \in Cached(b.number) : order[i] = b
    THEN LET i == CHOOSE i \in Cached(b.number) : TRUE IN
         /\ order' = Seqs!RemoveAt(order, i) /\ bytes' = bytes - Size(b)
         /\ Drop({b}, hashBlock, txBlock)
    ELSE UNCHANGED <<order, hashBlock, txBlock, bytes>>
-----------------------------------------------------------------------------
(* Requests *)

\* Mutant: the slot is kept after the call.
KeepSlot == taken

\* withSlot: the slot is freed when the call returns, however it ends.
FreeSlot == taken - 1

SpendLook(t) == lookLeft[t] > 0 /\ lookLeft' = [lookLeft EXCEPT ![t] = @ - 1]
cacheVars == <<order, hashBlock, txBlock, bytes>>

\* The request comes in: by number it goes to the block, by hash or transaction it is first resolved to a height.
Ask(a, want) ==
    /\ req[a].step = "idle" /\ want \in lookLeft.wanted[a]
    /\ lookLeft' = [lookLeft EXCEPT !.wanted[a] = @ \ {want}]
    /\ req' = [req EXCEPT ![a] = [NoReq EXCEPT !.want = want,
                                  !.step = IF want.kind = "number" THEN "block" ELSE "resolve",
                                  !.number = IF want.kind = "number" THEN want.of ELSE 0,
                                  !.late = ~stale /\ \A n \in NodeBlock : ~fetches[n].old,
                                  !.again = want.kind = "hash" /\ want.of \in missed]]
    /\ UNCHANGED <<cacheVars, fetches, taken, stale, missed>>

Index(want) == IF want.kind = "hash" THEN hashBlock ELSE txBlock

\* resolve: from the index, or by asking the node in one of its slots.
ResolveFromIndex(a) ==
    /\ req[a].step = "resolve" /\ req[a].want.of \in DOMAIN Index(req[a].want)
    /\ req' = [req EXCEPT ![a].step = "block", ![a].number = Index(req[a].want)[req[a].want.of]]
    /\ UNCHANGED <<cacheVars, fetches, taken, stale, lookLeft, missed>>

ResolveTakesSlot(a) ==
    /\ req[a].step = "resolve" /\ req[a].want.of \notin DOMAIN Index(req[a].want)
    /\ taken < Concurrency /\ taken' = taken + 1
    /\ req' = [req EXCEPT ![a].step = "resolving"]
    /\ UNCHANGED <<cacheVars, fetches, stale, lookLeft, missed>>

\* Where a view has the hash or the transaction; the orphaned backend still knows its own hashes, and the other one too.
Located(v, want) ==
    IF want.kind = "hash" THEN {n \in NodeBlock : want.of[2] = n /\ (want.of[1] = v \/ want.of[1] = "orphan")}
    ELSE {n \in NodeBlock : want.of \in TxsAt(v, n)}

ResolveAnswered(a) ==
    /\ req[a].step = "resolving"
    /\ taken' = FreeSlot
    /\ \/ \E v \in Views :
            LET at == Located(v, req[a].want) IN
            /\ req' = [req EXCEPT ![a] = IF at = {} THEN [@ EXCEPT !.step = "done", !.answer = "missing"]
                                         ELSE [@ EXCEPT !.step = "block", !.number = CHOOSE n \in at : TRUE]]
            /\ UNCHANGED lookLeft
       \/ SpendLook("errors") /\ req' = [req EXCEPT ![a].step = "done", ![a].answer = "error"]
    /\ UNCHANGED <<cacheVars, fetches, stale, missed>>

\* withSlot's timeout.
SlotBusy(a) ==
    /\ taken = Concurrency /\ SpendLook("busy")
    /\ \/ /\ req[a].step = "resolve" /\ req[a].want.of \notin DOMAIN Index(req[a].want)
          /\ req' = [req EXCEPT ![a].step = "done", ![a].answer = "error"]
          /\ UNCHANGED fetches
       \/ \E n \in NodeBlock :
            /\ fetches[n].leader = a /\ fetches[n].step = "queued"
            /\ req' = [b \in Asker |-> IF b \in fetches[n].with THEN [req[b] EXCEPT !.step = "done", !.answer = "error"]
                                       ELSE req[b]]
            /\ fetches' = [fetches EXCEPT ![n] = NoFetch]
    /\ UNCHANGED <<cacheVars, taken, stale, missed>>

\* BlockByNumber: the cached block moves to the front; a miss goes on to the shared fetch, as a step of its own.
CacheHit(a) ==
    /\ req[a].step = "block"
    /\ \E i \in Cached(req[a].number) :
        /\ order' = ToFront(i)
        /\ req' = [req EXCEPT ![a].step = "judge", ![a].block = order[i]]
    /\ UNCHANGED <<hashBlock, txBlock, bytes, fetches, taken, stale, lookLeft, missed>>

CacheMiss(a) ==
    /\ req[a].step = "block" /\ Cached(req[a].number) = {}
    /\ req' = [req EXCEPT ![a].step = "fetch"]
    /\ UNCHANGED <<cacheVars, fetches, taken, stale, lookLeft, missed>>

\* singleflight: the first request leads, the others wait for its result.
JoinFetch(a) ==
    LET n == req[a].number IN
    /\ req[a].step = "fetch"
    /\ fetches' = [fetches EXCEPT ![n] = IF fetches[n].step # "none" THEN [fetches[n] EXCEPT !.with = @ \cup {a}]
                                         ELSE [NoFetch EXCEPT !.leader = a, !.with = {a}, !.step = "queued"]]
    /\ req' = [req EXCEPT ![a].step = "waiting"]
    /\ UNCHANGED <<cacheVars, taken, stale, lookLeft, missed>>

FetchTakesSlot(n) ==
    /\ fetches[n].step = "queued" /\ taken < Concurrency
    /\ taken' = taken + 1
    /\ fetches' = [fetches EXCEPT ![n].step = "block"]
    /\ UNCHANGED <<cacheVars, req, stale, lookLeft, missed>>

\* The block and its receipts are asked for at once and may be answered by different backends, in either order;
\* read one after the other they see every pair of backends.
FetchBlock(n) ==
    /\ fetches[n].step = "block"
    /\ \E v \in Views : fetches' = [fetches EXCEPT ![n].step = "receipts", ![n].block = NodesBlock(v, n), ![n].old = stale]
    /\ UNCHANGED <<cacheVars, taken, req, stale, lookLeft, missed>>

\* The fetch ends: with a block that is stored and shared, without a receipt for each transaction, with a backend
\* that does not have the height, or refused.
FetchDone(n) ==
    LET f == fetches[n]
        new == [f.block EXCEPT !.copy = Min({k \in Copies : /\ \A i \in DOMAIN order : order[i].copy # k
                                                            /\ \A a \in Asker : req[a].block.copy # k})]
        Give(ans, b) == req' = [a \in Asker |-> IF a \notin f.with THEN req[a] ELSE
                                  [req[a] EXCEPT !.step = IF ans = "block" THEN "judge" ELSE "done", !.block = b,
                                                 !.answer = IF ans = "block" THEN "none" ELSE ans]]
    IN  /\ f.step = "receipts"
        /\ taken' = FreeSlot
        /\ fetches' = [fetches EXCEPT ![n] = NoFetch]
        /\ \/ /\ \E v \in Views : IF f.block.txs \subseteq TxsAt(v, n)
                                  THEN Store(new) /\ Give("block", new)
                                  ELSE Give("error", NoBlock) /\ UNCHANGED cacheVars
              /\ UNCHANGED lookLeft
           \/ stale /\ Give("missing", NoBlock) /\ UNCHANGED <<cacheVars, lookLeft>>
           \/ SpendLook("errors") /\ Give("error", NoBlock) /\ UNCHANGED cacheVars
        /\ UNCHANGED <<stale, missed>>

\* BlockByHash serves the block of its hash and drops any other; Transaction looks for its own among the block's.
Judge(a) ==
    LET r == req[a]
        miss == /\ req' = [req EXCEPT ![a].step = "done", ![a].answer = "missing"]
                /\ missed' = missed \cup {h \in {r.want.of} : r.want.kind = "hash" /\ r.late}
        serve == req' = [req EXCEPT ![a].step = "done", ![a].answer = "served"] /\ UNCHANGED missed
    IN  /\ r.step = "judge"
        /\ \/ r.want.kind = "number" /\ serve /\ UNCHANGED cacheVars
           \/ r.want.kind = "hash" /\ r.block.hash = r.want.of /\ serve /\ UNCHANGED cacheVars
           \/ r.want.kind = "hash" /\ r.block.hash # r.want.of /\ miss /\ Forget(r.block)
           \/ r.want.kind = "tx" /\ r.want.of \in r.block.txs /\ serve /\ UNCHANGED cacheVars
           \/ r.want.kind = "tx" /\ r.want.of \notin r.block.txs /\ miss /\ UNCHANGED cacheVars
        /\ UNCHANGED <<fetches, taken, stale, lookLeft>>

Taken(a) ==
    /\ req[a].step = "done"
    /\ req' = [req EXCEPT ![a] = NoReq]
    /\ UNCHANGED <<cacheVars, fetches, taken, stale, lookLeft, missed>>

\* The backend that was behind takes the chain.
BackendsAgree ==
    /\ stale /\ SpendLook("settles")
    /\ stale' = FALSE
    /\ UNCHANGED <<cacheVars, fetches, taken, req, missed>>
-----------------------------------------------------------------------------
LookInitWith(s) ==
    /\ order = <<>> /\ hashBlock = Empty /\ txBlock = Empty /\ bytes = 0
    /\ fetches = [n \in NodeBlock |-> NoFetch] /\ taken = 0
    /\ req = [a \in Asker |-> NoReq]
    /\ stale = TRUE /\ missed = {}
    /\ lookLeft = s

LookInit == \E s \in LookupScenarios : LookInitWith(s)

AskerSteps(a) ==
    \/ \E want \in lookLeft.wanted[a] : Ask(a, want)
    \/ ResolveFromIndex(a) \/ ResolveTakesSlot(a) \/ ResolveAnswered(a) \/ SlotBusy(a)
    \/ CacheHit(a) \/ CacheMiss(a) \/ JoinFetch(a) \/ Judge(a) \/ Taken(a)

LookNext ==
    \/ \E a \in Asker : AskerSteps(a)
    \/ \E n \in NodeBlock : FetchTakesSlot(n) \/ FetchBlock(n) \/ FetchDone(n)
    \/ BackendsAgree

LookSpec == LookInit /\ [][LookNext]_lookVars
-----------------------------------------------------------------------------
LookTypeOK ==
    /\ \A i \in DOMAIN order : order[i] \in Hit
    /\ taken \in 0..Concurrency
    /\ Cardinality({n \in NodeBlock : fetches[n].step \in {"block", "receipts"}})
       + Cardinality({a \in Asker : req[a].step = "resolving"}) = taken

EntriesBacked ==
    /\ \A h \in DOMAIN hashBlock : \E i \in DOMAIN order : order[i].number = hashBlock[h] /\ order[i].hash = h
    /\ \A t \in DOMAIN txBlock : \E i \in DOMAIN order : order[i].number = txBlock[t] /\ t \in order[i].txs
HeightsOnce == \A i, j \in DOMAIN order : order[i].number = order[j].number => i = j

\* Whatever is stored, dropped and evicted in between, an index entry names a cached block that has the hash or the
\* transaction, no height is cached twice, and no more blocks are cached than the bound (lookup.go 249-284).
IndexBacked == EntriesBacked /\ HeightsOnce /\ Len(order) <= MaxBlocks

\* The accounted bytes are those of the cached blocks, whatever was dropped, and within the bound but for a block
\* that is beyond it alone (lookup.go 249-284).
BytesBounded == bytes = Bytes(order) /\ (bytes <= MaxTxs \/ Len(order) <= 1)

\* Once the backends agree, a hash of the chain is answered as missing at most until the block cached in its place
\* has been met: that answer drops it, and a request that comes after is served, or told to try again.
AskedAgain == \A a \in Asker : req[a].again /\ req[a].want.of[1] = "main" => req[a].answer # "missing"
=============================================================================
