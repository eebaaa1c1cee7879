------------------------------ MODULE MCLedger ------------------------------
(***************************************************************************)
(* Small instances, for one run of TLC, of what keeps totals and address   *)
(* counters true: retention with the ledger of closed spans, and the       *)
(* address counters.  Each behaviour moves one of them; the other stays at *)
(* a first state.                                                          *)
(***************************************************************************)
EXTENDS LedgerRetention, AddressRebase, TLC

VARIABLE part   \* the one that runs

-----------------------------------------------------------------------------
\* Retention: a chain of blocks up to n that meets each of the troubles ts as often as times says.
Chain(n, ts, times) == [last |-> n, times |-> [t \in Trouble |-> IF t \in ts THEN times ELSE 0]]

PruneScenarios == {
    Chain(8, {}, 0),                       \* long enough for a second range to be pruned
    Chain(6, {"jumps"}, 1),
    Chain(6, {"reverts"}, 1),
    Chain(4, {"reverts"}, 2),              \* a reorg as deep as they come, beside the closer
    Chain(6, {"dependents"}, 1),
    Chain(6, {"busy", "crashes"}, 1),
    [Chain(6, {"wipes", "crashes"}, 1) EXCEPT !.times["crashes"] = 2]}  \* a wipe that is itself cut short

-----------------------------------------------------------------------------
\* Address counters: the addresses each block touches, on one fork and on another, and rows with the drift an earlier
\* release left in them, in the ledger or in transactions_total.
TouchedBy == <<0 :> {1} @@ 1 :> {1, 2} @@ 2 :> {2}, 0 :> {1} @@ 1 :> {2} @@ 2 :> {1, 2}>>

SeenRow(txs, first, last) == [txs |-> txs, first |-> first, last |-> last]
Good == [ledger |-> 1 :> SeenRow(1, 0, 0) @@ 2 :> NoStat, stats |-> 1 :> SeenRow(2, 0, 1) @@ 2 :> SeenRow(1, 1, 1), count |-> 2]
Off(row1, row2) == [Good EXCEPT !.stats = 1 :> row1 @@ 2 :> row2]

RebaseCalm ==
    [ingests |-> 1, reverts |-> 1, spans |-> 0, faults |-> 0, settles |-> 0, checks |-> 0, walks |-> 0, crashes |-> 0,
     pruned |-> TRUE, span |-> FALSE, index |-> "ready", held |-> 1 :> 1 @@ 2 :> 0, drift |-> Good]
Drifts == {
    [RebaseCalm EXCEPT !.span = TRUE, !.drift = Off(NoStat, SeenRow(2, 0, 1)), !.spans = 1],
    [RebaseCalm EXCEPT !.span = TRUE, !.drift = Off(SeenRow(1, 1, 1), NoStat), !.ingests = 2],
    [RebaseCalm EXCEPT !.span = TRUE, !.drift.ledger[2] = SeenRow(1, 0, 0), !.settles = 2, !.checks = 2, !.drift.count = 1],
    [RebaseCalm EXCEPT !.checks = 3, !.drift = Off(SeenRow(0, 0, 2), NoStat), !.ingests = 2, !.faults = 1, !.drift.count = 0],
    [RebaseCalm EXCEPT !.walks = 2, !.drift = Off(SeenRow(2, 2, 2), SeenRow(1, 2, 2)), !.crashes = 1],
    [RebaseCalm EXCEPT !.walks = 1, !.index = "absent", !.drift = Off(SeenRow(2, 2, 2), SeenRow(1, 2, 2)), !.faults = 1,
                       !.crashes = 1],
    [RebaseCalm EXCEPT !.walks = 1, !.drift = Off(NoStat, NoStat), !.reverts = 2, !.pruned = FALSE, !.held[2] = 1]}

-----------------------------------------------------------------------------
ledgerPartsVars == <<part, retentionVars, rebaseVars>>

LedgerInit ==
    /\ part \in {"retention", "addresses"}
    /\ IF part = "retention" THEN RetentionInit ELSE RetentionInitWith(Chain(0, {}, 0))
    /\ IF part = "addresses" THEN RebaseInit ELSE RebaseInitWith(RebaseCalm)

LedgerNext ==
    \/ part = "retention" /\ RetentionNext /\ UNCHANGED <<part, rebaseVars>>
    \/ part = "addresses" /\ RebaseNext /\ UNCHANGED <<part, retentionVars>>

LedgerSpec == LedgerInit /\ [][LedgerNext]_ledgerPartsVars

\* Type invariant of retention and the address counters.
LedgerTypeOK == RetentionTypeOK /\ RebaseTypeOK
=============================================================================
