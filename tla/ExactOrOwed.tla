---------------------------- MODULE ExactOrOwed ----------------------------
(***************************************************************************)
(* What the running counters promise while ingest, reverts, rebases and    *)
(* settlements interleave: a counter that is right and not owed stays      *)
(* right until a step that records it as owed, and a record is only taken  *)
(* off a counter that is right, or that has no row to be wrong (a span     *)
(* rebase corrects rows, it creates them only for its own addresses).      *)
(***************************************************************************)
CONSTANT Key

VARIABLES
    right,      \* the keys whose row is their truth
    owedKeys,   \* the keys recorded for the next rebase (ledger_reverted_address)
    rowless     \* the keys without a row, now or when the rebase in progress read them

Init == right \in SUBSET Key /\ owedKeys = {} /\ rowless \in SUBSET Key

\* A write that counts nothing wrong: right keys stay right, others may come right, rows may appear or go.
Write == right \subseteq right' /\ owedKeys' = owedKeys

\* A revert, or a settlement that moves the truth, records every key it may leave wrong.
Record(S) == right \ S \subseteq right' /\ owedKeys' = owedKeys \cup S

\* A rebase that leaves no key it takes off the record wrong; a key that stays recorded, because it was recorded while
\* the rebase ran, may go wrong, and the next rebase sets it.
Rebase(S) ==
    /\ right \ (owedKeys \ S) \subseteq right'
    /\ S \subseteq right' \cup rowless
    /\ owedKeys' = owedKeys \ S

Next ==
    \/ Write
    \/ \E S \in SUBSET Key : Record(S) \/ Rebase(S)

Spec == Init /\ [][Next]_<<right, owedKeys, rowless>>

=============================================================================
