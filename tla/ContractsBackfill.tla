-------------------------- MODULE ContractsBackfill --------------------------
(***************************************************************************)
(* The backfill-contracts command (internal/indexer/contracts_backfill.go, *)
(* internal_creations.go, db/contracts_backfill.go): the contracts rows of *)
(* contracts other contracts deployed, first from the call frames still in *)
(* the database, then for each listed transaction from the node's trace.   *)
(* It runs next to the live indexer, which reverts and stores blocks, may  *)
(* stop anywhere, and is rerun.                                            *)
(*                                                                         *)
(* A frame is [path, create, failed, of, code]: its trace address, whether *)
(* it is a create, whether it failed, the contract, and where its code can *)
(* be read: in its output, only from the node, or nowhere.                 *)
(***************************************************************************)
EXTENDS Integers, Sequences, FiniteSets

LOCAL INSTANCE FiniteSetsExt
LOCAL INSTANCE SequencesExt

CONSTANTS
    CreatingTx,         \* transactions, numbered in the order the list is sorted in
    TxHeight,           \* transaction -> its block
    PrunedHeight,       \* the blocks up to it are pruned
    TraceOf,            \* transaction -> its call frames, in the trace's order
    ListedOf,           \* transaction -> the contracts listed for it, in the list's order
    ContractScenarios   \* bound: [untraced, chain, framed, rows, left], the command's flag, the database, the troubles

VARIABLES
    contractRows,   \* contracts: address -> block
    chainBlocks,    \* the blocks ingested and not reverted, pruned ones included
    framedTxs,      \* the transactions whose internal_transactions are stored
    job,            \* the command
    jobLeft         \* trouble -> how often it may still happen

contractVars == <<contractRows, chainBlocks, framedTxs, job, jobLeft>>

\* A run: its place, what it has read, and its report (failed, unmade).  skipped, uncoded and dropped are history: the
\* transactions it skipped, the contracts whose code it did not get, and those ingest left out of a block it had passed.
NewJob == [st |-> "scan", tx |-> 1, have |-> {}, todo |-> <<>>, scan |-> {}, failed |-> {}, unmade |-> {},
           skipped |-> {}, uncoded |-> {}, dropped |-> {}]

ListedFor(t) == ToSet(ListedOf[t])

SpendJob(t) == jobLeft[t] > 0 /\ jobLeft' = [jobLeft EXCEPT ![t] = @ - 1]

-----------------------------------------------------------------------------
(* Creations *)

\* The chain: a creation that failed, or under a frame that did, was undone, and the node has no code for it.
Undone(frames, f) == \E g \in ToSet(frames) : g.failed /\ \E n \in 0 .. Len(f.path) : g.path = SubSeq(f.path, 1, n)

\* Mutant: only a transaction that failed as a whole undoes its creations.
TopFailed(frames, f) == \E g \in ToSet(frames) : g.failed /\ g.path = <<>>

\* anyEnclosingFailed, and the top frame.
EnclosingFailed(frames, f) == \E g \in ToSet(frames) : g.failed /\ g.path # f.path /\ IsPrefix(g.path, f.path)

\* The creations below the top level that succeeded under frames that did.
InternalCreations(frames) ==
    SelectSeq(frames, LAMBDA f : f.create /\ f.path # <<>> /\ ~f.failed /\ ~EnclosingFailed(frames, f))

\* contractFromCreation: the code of the frame's output, else the node's if it answers (coded); without code there is
\* no row.
ContractFrom(f, coded) == f.code = "output" \/ (f.code = "node" /\ f.of \in coded)

CreatedIn(frames, coded) ==
    LET made == SelectSeq(InternalCreations(frames), LAMBDA f : ContractFrom(f, coded))
    IN [i \in DOMAIN made |-> made[i].of]

\* The contracts of a transaction whose code only the node has.
NodeCoded(t) == {f.of : f \in {g \in ToSet(InternalCreations(TraceOf[t])) : g.code = "node"}}

\* tracedCreations: the whole trace, its root included.
CreatedBy(t, coded) == CreatedIn(TraceOf[t], coded)

\* FetchTracesBatch: the frames of a transaction as ingest sees and stores them, without the root call.
FetchedFrames(t) == SelectSeq(TraceOf[t], LAMBDA f : f.path # <<>>)

\* Without traces: the listed contracts that have code, if the transaction succeeded.
UntracedCreations(t) ==
    LET coded == {f.of : f \in {g \in ToSet(TraceOf[t]) : g.code # "none" /\ ~Undone(TraceOf[t], g)}}
        top   == {f \in ToSet(TraceOf[t]) : f.path = <<>> /\ f.failed}
    IN IF top = {} THEN SelectSeq(ListedOf[t], LAMBDA c : c \in coded) ELSE <<>>

Creations(t, coded) == IF job.untraced THEN UntracedCreations(t) ELSE CreatedBy(t, coded)

-----------------------------------------------------------------------------
(* The rows *)

\* ON CONFLICT (address) DO NOTHING.
InsertRow(rows, c, b) == IF c \in DOMAIN rows THEN rows ELSE [a \in DOMAIN rows \cup {c} |-> IF a = c THEN b ELSE rows[a]]

InsertRows(rows, new) ==
    [a \in DOMAIN rows \cup {p[1] : p \in new} |-> IF a \in DOMAIN rows THEN rows[a] ELSE Min({p[2] : p \in {q \in new : q[1] = a}})]

TxsAtHeight(b) == {t \in CreatingTx : TxHeight[t] = b}

\* The command has read which of a transaction's contracts exist, and does not look again.
Passed(t) == t < job.tx \/ (t = job.tx /\ job.st \in {"trace", "write"})

\* Ingest writes a block's frames and the contracts they create at once.  A transaction that could not be traced has
\* neither, and a contract whose code the node does not give is left out; the block is stored all the same.
IngestBlock(b) ==
    \E traced \in SUBSET TxsAtHeight(b) : \E coded \in SUBSET UNION {NodeCoded(t) : t \in traced} :
        LET txs     == TxsAtHeight(b)
            made    == UNION {ToSet(CreatedIn(FetchedFrames(t), coded)) : t \in traced}
            leftOut == UNION {ToSet(CreatedBy(t, NodeCoded(t))) : t \in {u \in txs : Passed(u)}} \ made
        IN /\ b \notin chainBlocks
           /\ IF traced = txs /\ coded = UNION {NodeCoded(t) : t \in txs} THEN UNCHANGED jobLeft ELSE SpendJob("lapses")
           /\ contractRows' = InsertRows(contractRows, {<<c, b>> : c \in made})
           /\ chainBlocks' = chainBlocks \cup {b}
           /\ framedTxs' = framedTxs \cup traced
           /\ job' = [job EXCEPT !.dropped = @ \cup leftOut]

\* Rows the command has read of the block and not yet written.
InHand(b) == {p[1] : p \in {q \in job.scan : q[2] = b}} \cup (IF job.st = "write" /\ TxHeight[job.tx] = b THEN ToSet(job.todo) ELSE {})

\* The head is reverted: DeleteBlockLocked deletes its frames and its contracts.
RevertBlock(b) ==
    /\ b \in chainBlocks /\ b > PrunedHeight /\ \A c \in chainBlocks : c <= b
    /\ SpendJob("reverts")
    /\ contractRows' = [a \in {c \in DOMAIN contractRows : contractRows[c] # b} |-> contractRows[a]]
    /\ chainBlocks' = chainBlocks \ {b}
    /\ framedTxs' = framedTxs \ TxsAtHeight(b)
    /\ job' = [job EXCEPT !.late = @ \cup InHand(b)]

-----------------------------------------------------------------------------
(* The command *)

\* BackfillContractsFromInternalTransactions reads in its statement's snapshot ...
ScanFrames ==
    /\ job.st = "scan"
    /\ job' = [job EXCEPT !.st = "scanned",
                          !.scan = UNION {{<<c, TxHeight[t]>> : c \in ToSet(CreatedIn(FetchedFrames(t), {}))} : t \in framedTxs}]
    /\ UNCHANGED <<contractRows, chainBlocks, framedTxs, jobLeft>>

\* ... and inserts after it.
InsertScanned ==
    /\ job.st = "scanned"
    /\ contractRows' = InsertRows(contractRows, job.scan)
    /\ job' = [job EXCEPT !.st = "list", !.tx = 1, !.scan = {}]
    /\ UNCHANGED <<chainBlocks, framedTxs, jobLeft>>

NextTx(j) == [j EXCEPT !.st = "list", !.tx = @ + 1, !.have = {}, !.todo = <<>>]

\* Mutant: a transaction is skipped once any of its listed contracts exists.
AnyExists(t, have) == have # {}

\* len(have) == len(addresses): a contract listed twice is read once, and its transaction never skipped.
AllExist(t, have) == Cardinality(have) = Len(ListedOf[t])

ExistingContracts ==
    /\ job.st = "list" /\ job.tx \in CreatingTx
    /\ LET t    == job.tx
           have == ListedFor(t) \cap DOMAIN contractRows
       IN job' = IF AllExist(t, have) THEN NextTx([job EXCEPT !.skipped = @ \cup {t}])
                 ELSE [job EXCEPT !.st = "trace", !.have = have]
    /\ UNCHANGED <<contractRows, chainBlocks, framedTxs, jobLeft>>

\* The listed contracts reported as not created, and so is one listed twice.
NotCreated(t, made) ==
    {c \in ListedFor(t) : c \notin made \/ Cardinality({i \in DOMAIN ListedOf[t] : ListedOf[t][i] = c}) > 1}

\* The receipt and the trace, or the receipt, the transaction and the code; a transaction that fails is passed over.  A
\* code the node does not give drops the contract of a trace, and fails an untraced transaction.
TraceTransaction ==
    LET t == job.tx
        Traced(coded) ==
            LET made == Creations(t, coded)
            IN [job EXCEPT !.st = "write", !.todo = SelectSeq(made, LAMBDA c : c \notin job.have),
                           !.unmade = @ \cup NotCreated(t, ToSet(made)), !.uncoded = @ \cup (NodeCoded(t) \ coded)]
        Failed == NextTx([job EXCEPT !.failed = @ \cup {t}])
    IN /\ job.st = "trace"
       /\ \/ TxHeight[t] \in chainBlocks /\ job' = Traced(NodeCoded(t)) /\ UNCHANGED jobLeft
          \/ /\ TxHeight[t] \in chainBlocks /\ ~job.untraced /\ SpendJob("errors")
             /\ \E coded \in SUBSET NodeCoded(t) \ {NodeCoded(t)} : job' = Traced(coded)
          \/ TxHeight[t] \notin chainBlocks /\ job' = Failed /\ UNCHANGED jobLeft
          \/ SpendJob("errors") /\ job' = Failed
       /\ UNCHANGED <<contractRows, chainBlocks, framedTxs>>

InsertContract ==
    /\ job.st = "write" /\ job.todo # <<>>
    /\ contractRows' = InsertRow(contractRows, Head(job.todo), TxHeight[job.tx])
    /\ job' = [job EXCEPT !.todo = Tail(@)]
    /\ UNCHANGED <<chainBlocks, framedTxs, jobLeft>>

TxWritten ==
    /\ job.st = "write" /\ job.todo = <<>>
    /\ job' = NextTx(job)
    /\ UNCHANGED <<contractRows, chainBlocks, framedTxs, jobLeft>>

ReportBack ==
    /\ job.st = "list" /\ job.tx \notin CreatingTx
    /\ job' = [job EXCEPT !.st = "done"]
    /\ UNCHANGED <<contractRows, chainBlocks, framedTxs, jobLeft>>

\* A signal, a database error, the process's end.
StopJob ==
    /\ job.st \notin {"done", "stopped"}
    /\ SpendJob("stops")
    /\ job' = [job EXCEPT !.st = "stopped", !.scan = {}, !.todo = <<>>]
    /\ UNCHANGED <<contractRows, chainBlocks, framedTxs>>

Rerun ==
    /\ job.st \in {"done", "stopped"}
    /\ SpendJob("reruns")
    /\ job' = NewJob @@ job
    /\ UNCHANGED <<contractRows, chainBlocks, framedTxs>>

ContractsInitWith(s) ==
    /\ contractRows = s.rows /\ chainBlocks = s.chain /\ framedTxs = s.framed
    /\ job = NewJob @@ [untraced |-> s.untraced, late |-> {}]
    /\ jobLeft = s.left

ContractsInit == \E s \in ContractScenarios : ContractsInitWith(s)

ContractsNext ==
    \/ ScanFrames \/ InsertScanned \/ ExistingContracts \/ TraceTransaction \/ InsertContract \/ TxWritten
    \/ ReportBack \/ StopJob \/ Rerun
    \/ \E t \in CreatingTx : IngestBlock(TxHeight[t]) \/ RevertBlock(TxHeight[t])

ContractsSpec == ContractsInit /\ [][ContractsNext]_contractVars

-----------------------------------------------------------------------------
\* Type invariant: the command's place in the list and its rows.
ContractsTypeOK ==
    /\ job.st \in {"scan", "scanned", "list", "trace", "write", "done", "stopped"}
    /\ job.tx \in CreatingTx \/ job.tx = Cardinality(CreatingTx) + 1
    /\ framedTxs \subseteq {t \in CreatingTx : TxHeight[t] \in chainBlocks}

\* A run that ends has every listed contract a row, or has said of it that its transaction failed or did not create it
\* (contracts_backfill.go 94-98: a rerun resumes), wherever earlier runs stopped; of a transaction it traced every other
\* contract too has a row, unless it did not get its code.  A contract may be missing that ingest left out when it
\* stored the block again after this run had passed it, which a rerun makes good.  And next to the live indexer a row
\* names a block of the chain, unless the block was reverted between the command's read and its insert.
ContractsResumed ==
    /\ job.st = "done" =>
          \A t \in CreatingTx \ job.failed : ListedOf[t] # <<>> /\ TxHeight[t] \in chainBlocks =>
              \A c \in ToSet(Creations(t, NodeCoded(t))) \ (DOMAIN contractRows \cup job.dropped) :
                  IF c \in ListedFor(t) THEN c \in job.unmade ELSE t \in job.skipped \/ c \in job.uncoded
    /\ \A c \in DOMAIN contractRows : contractRows[c] \in chainBlocks \/ c \in job.late

\* No row is of a creation that was undone (internal_creations.go 11-13, db/contracts_backfill.go 9-11), whoever wrote
\* it: ingest, the scan, or the command from a trace or without one.  Ingest and the scan, which see no root call, miss
\* that a transaction failed as a whole: such a contract has a row only while its frames are stored, or from a scan that
\* a revert overtook.
NoneUndone ==
    \A c \in DOMAIN contractRows : \A t \in CreatingTx : \A f \in ToSet(TraceOf[t]) :
        f.create /\ f.of = c /\ f.path # <<>> /\ Undone(TraceOf[t], f) =>
            ~Undone(FetchedFrames(t), f) /\ (t \in framedTxs \/ c \in job.late)
=============================================================================
