-------------------------- MODULE MCSnapshotStore --------------------------
(* Small instances of SnapshotStore for TLC. *)
EXTENDS SnapshotStore, TLC

CONSTANTS code, review, d, e

OneDir == [t \in {code} |-> d]

\* review's directory is one in which stat fails.
TwoDirs == [t \in {code, review} |-> IF t = code THEN d ELSE e]

Symmetry == Permutations(Proc)
=============================================================================
