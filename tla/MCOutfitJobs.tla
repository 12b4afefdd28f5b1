---------------------------- MODULE MCOutfitJobs ----------------------------
(* Small instances of OutfitJobs for TLC. *)
EXTENDS OutfitJobs, TLC

CONSTANTS r1, r2, s1, k1, p1

\* Both requests carry one key: a double tap, or a client retry.
SameKey == [r \in {r1, r2} |-> k1]

\* The Idempotency-Key header is optional.
NoKeys == [r \in {r1, r2} |-> NoKey]

Symmetry == Permutations(Requests)
=============================================================================
