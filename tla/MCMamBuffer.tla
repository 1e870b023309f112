---------------------------- MODULE MCMamBuffer -----------------------------
(* Instances of MamBuffer for TLC. *)
EXTENDS MamBuffer, TLC

CONSTANTS u1, u2, t1, t2

TwoUuids == {u1, u2}
OneThread == {t1}
TwoThreads == {t1, t2}

\* Threads and UUIDs are interchangeable; no liveness is checked with this.
Symmetry == Permutations(UUID) \cup Permutations(Thread)

\* One thing goes wrong in a behaviour, an error reply or a crash, and one error
\* of the full node is swallowed.
OneTrouble == faults + crashes <= 1 /\ Cardinality(swallowed) <= 1
=============================================================================
