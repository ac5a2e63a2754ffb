--------------------------- MODULE AtomicRegister ---------------------------
(***************************************************************************)
(* What replacing a file atomically promises to whoever reads it: one      *)
(* value that changes as a whole, only to values that may be written, and  *)
(* that after a power failure is one it has held, never a mixture.         *)
(* ConfigFile implements it (ConfigFile!RegisterSpec).                     *)
(***************************************************************************)
CONSTANTS
    Value,   \* what the file may hold to begin with
    Writable \* what may be written to it

VARIABLES
    value,   \* what a reader sees
    durable  \* what it would be after a power failure

Init == value \in Value /\ durable = value

Write == value' \in Writable /\ UNCHANGED durable

Persist == durable' = value /\ UNCHANGED value

PowerLoss == value' = durable /\ UNCHANGED durable

Next == Write \/ Persist \/ PowerLoss

Spec == Init /\ [][Next]_<< value, durable >>
=============================================================================
