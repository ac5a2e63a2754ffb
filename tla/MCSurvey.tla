------------------------------ MODULE MCSurvey ------------------------------
(* Small instances of Survey for TLC: two backends, two models, an alias. *)
EXTENDS Survey, TLC

CONSTANTS b1, b2, llama, qwen, coder, chat, code_, write

Sorted == << b1, b2 >>

Subjs == << "", b1, b2, chat, code_, coder, "E_BACKEND_AUTH_FAILED", "E_CONFIG",
            "E_CONFIG_VALIDATION_FAILED", "installed", llama, "loaded", "models", qwen, "status",
            "W_BACKEND_DEGRADED", "W_BACKEND_UNREACHABLE", "W_CONFIG_VALIDATION",
            "W_FALLBACK_USED", "W_MODEL_NOT_INSTALLED", "W_MODEL_NOT_LOADED", write >>

Catalogue == coder :> [backend |-> b1, model |-> llama, supports |-> {}]

Routed(task, model, backend, fallback) ==
    [task |-> task,
     route |-> [models |-> Catalogue, model |-> model, backend |-> backend, fallback |-> fallback]]

Code  == Routed(code_, llama, b1, << qwen >>)
Write == Routed(write, qwen, NoBackend, << >>)
Alias == Routed(code_, coder, NoBackend, << qwen >>)

Healthy(installed, loaded, lists) ==
    [health |-> "up", lists |-> lists, installed |-> installed, loaded |-> loaded]

Failing(health) == [health |-> health, lists |-> TRUE, installed |-> {}, loaded |-> {}]

Both == Healthy({llama, qwen}, {qwen}, TRUE)
Cold == Healthy({qwen}, {}, TRUE)
Dumb == Healthy({qwen}, {}, FALSE)

AllConditions == { Both, Cold, Dumb, Failing("down"), Failing("refusing") }
FewConditions == { Both, Cold, Failing("down") }

\* Both backends are alike, or one serves every model.
ManyWorlds ==
    { w \in [Backend -> AllConditions] : w[b1] = w[b2] \/ Both \in { w[b1], w[b2] } }
OneWorld == { b1 :> Both @@ b2 :> Cold }

TwoTasks  == { << Code, Write >> }
Changing  == { << Code >>, << Code, Write >> }
EveryLoad == { << >>, << Alias, Write >>, << Code >> }
=============================================================================
