---------------------------- MODULE MCHeadIngest ----------------------------
EXTENDS HeadIngest

\* The main chain, a reorg from its third block, and one of every block: deeper than the window.
FiveBlocks == {<<1, 1, 1, 1, 1>>, <<1, 1, 2, 2, 2>>, <<3, 3, 3, 3, 3>>}

NoTrouble == [k \in Budget |-> 0]
With(rt, b) == [realtime |-> rt, budget |-> b]

Flapping == [NoTrouble EXCEPT !["switches"] = 2]
Reorg    == [NoTrouble EXCEPT !["switches"] = 1]

\* A lost acknowledgement; receipts that do not come, in realtime also beside catch-up's writes; a failing call and a stop.
Safe == {With(rt, [Flapping EXCEPT !["lost"] = 1]) : rt \in BOOLEAN}
        \cup {With(rt, [Reorg EXCEPT !["receipts"] = 2]) : rt \in BOOLEAN}
        \cup {With(rt, [Reorg EXCEPT !["errors"] = 1, !["crashes"] = 1]) : rt \in BOOLEAN}
        \cup {With(TRUE, [Flapping EXCEPT !["catchups"] = 2, !["receipts"] = 2])}

\* Forks that come and go, and the troubles one at a time.
Settling == {With(rt, [Flapping EXCEPT !["lost"] = 1]) : rt \in BOOLEAN}
            \cup {With(rt, [Reorg EXCEPT !["receipts"] = 2]) : rt \in BOOLEAN}
            \cup {With(rt, [Reorg EXCEPT !["errors"] = 1]) : rt \in BOOLEAN}
            \cup {With(rt, [Flapping EXCEPT !["crashes"] = 1]) : rt \in BOOLEAN}

Troubled == Safe \cup Settling

\* A lost acknowledgement, of a revert or of a commit, and a block skipped for its receipts.
SkipAndLoss == {With(FALSE, [Reorg EXCEPT !["lost"] = 1, !["receipts"] = 2])}

\* A lost acknowledgement of a revert, and catch-up's writes of recorded blocks.
CatchupAndLoss == {With(TRUE, [Flapping EXCEPT !["lost"] = 1, !["catchups"] = 2])}

\* A restart that cannot read the stored head.
BlindRestart == {With(TRUE, [Reorg EXCEPT !["errors"] = 1, !["crashes"] = 1])}
=============================================================================
