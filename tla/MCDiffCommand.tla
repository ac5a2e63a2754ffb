---------------------------- MODULE MCDiffCommand ---------------------------
(* Small instances of DiffCommand for TLC: two backends, two models and two
   tasks; the second snapshot varies in everything that is compared. *)
EXTENDS DiffCommand

CONSTANTS b1, b2, llama, qwen, code, chat, unreachable, fallback, failed

Subjects == << "", b1, b2, chat, code, failed, fallback, llama, "models", qwen, unreachable >>

State(task, route, isFallback, ready, status, warnings, errors, action, installed) ==
    [task |-> task, route |-> route, fallback |-> isFallback, ready |-> ready,
     status |-> status, warnings |-> warnings, errors |-> errors, action |-> action,
     loaded |-> 0, installed |-> installed]

\* A backend that answers, one that does not for a reason or for none, one that
\* is not configured.
Status == { << >>, (b1 :> "reachable" @@ b2 :> "unreachable"),
            (b1 :> "unreachable:refused" @@ b2 :> "reachable") }

Versioned(versions, states, loaded) ==
    [version : versions, state : states, models : loaded]

Route == { [to |-> << b1, llama >>, fallback |-> FALSE], [to |-> << b2, qwen >>, fallback |-> TRUE] }

Snapshots ==
    { State(code, r.to, r.fallback, ready, status, warnings, errors,
            IF ready THEN "" ELSE "warm", installed) :
        r \in Route, ready \in BOOLEAN, status \in Status,
        warnings \in {{fallback}, {unreachable}}, errors \in {{}, {failed}}, installed \in 0 .. 1 }

OtherTask == { State(chat, << >>, FALSE, FALSE, << >>, {}, {}, "", 0) }

MCCapture ==
    Versioned({"0.1"}, Snapshots, { {qwen} })
    \cup Versioned({"0.1"}, OtherTask, { {}, {llama}, {qwen} })
    \cup Versioned({"0.0"}, OtherTask, { {} })
=============================================================================
