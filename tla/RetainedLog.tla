---------------------------- MODULE RetainedLog ----------------------------
(***************************************************************************)
(* What snapshot retention promises, with no mention of processes, files   *)
(* or directory listings: a set of retained entries that only grows by     *)
(* one entry at a time and shrinks by one entry at a time, an entry being  *)
(* dropped only while at least Keep entries of the same group that order   *)
(* after it are retained.  SnapshotStore implements it                     *)
(* (SnapshotStore!RetentionSpec).                                          *)
(***************************************************************************)
EXTENDS Integers, FiniteSets

CONSTANTS
    Entry,          \* everything that can be retained
    Keep,           \* how many newer entries must outlive a dropped one
    NewerThan(_, _) \* NewerThan(e, f): same group, and e orders after f

VARIABLE kept       \* the retained entries

Newer(e) == { f \in kept : NewerThan(f, e) }

Init == kept = {}

Retain(e) == kept' = kept \cup {e}

Drop(e) ==
    /\ e \in kept
    /\ Cardinality(Newer(e)) >= Keep
    /\ kept' = kept \ {e}

Next == \E e \in Entry : Retain(e) \/ Drop(e)

Spec == Init /\ [][Next]_kept
=============================================================================
