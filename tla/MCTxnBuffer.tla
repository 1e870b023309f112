---------------------------- MODULE MCTxnBuffer -----------------------------
(* Instances of TxnBuffer for TLC. *)
EXTENDS TxnBuffer, TLC

CONSTANTS u1, u2, t1, t2

TwoUuids == {u1, u2}
OneThread == {t1}
TwoThreads == {t1, t2}

\* Threads and UUIDs are interchangeable; no liveness is checked with this.
Symmetry == Permutations(UUID) \cup Permutations(Thread)

\* Keeps the search for the leaked lock short: every UUID is told to its client,
\* and none overtakes another.
NoOvertaking == overtook = {} /\ acked = pushed

\* What of the buffer survives error replies and crashes: its types, the lock
\* around a move, the place of every request, and that no answer of
\* ta_fetch_txn_with_uuid is stale or given twice (core.c:616,
\* periodical_task.c:182).
SafeUnderFaults ==
    TypeOK /\ MoveUnseen /\ Conservation /\ ListsAreRight /\ FetchTellsTruth
=============================================================================
