--------------------------- MODULE MCRouteCommand ---------------------------
(* Small instances of RouteCommand for TLC: two backends, two models, and two
   aliases, of which one has evidence for a capability. *)
EXTENDS RouteCommand, TLC

CONSTANTS b1, b2, llama, qwen, coder, chat, tools

Sorted == << b1, b2 >>

Catalogue == coder :> [backend |-> b1, model |-> llama, supports |-> {tools}]
          @@ chat :> [backend |-> b2, model |-> qwen, supports |-> {}]

Cfg(model, backend, fallback) ==
    [models |-> Catalogue, model |-> model, backend |-> backend, fallback |-> fallback]

\* An alias before direct names, a direct name before the alias of the same
\* model elsewhere, and a primary without a backend.
MCConfig == { Cfg(coder, b1, << llama, qwen >>),
              Cfg(llama, b2, << coder, chat >>),
              Cfg(llama, NoBackend, << chat >>) }

\* An alias without evidence before one that has it.
EvidenceConfig == { Cfg(chat, b2, << coder >>) }

Up(installed, loaded, lists) ==
    [health |-> "up", lists |-> lists, installed |-> installed, loaded |-> loaded]

Down(health) == [health |-> health, lists |-> TRUE, installed |-> {llama}, loaded |-> {}]

MCCondition == { Up({}, {}, TRUE), Up({llama}, {}, TRUE), Up({llama, qwen}, {llama}, TRUE),
                 Up({llama}, {}, FALSE), Down("down"), Down("refusing") }

MCStart == [Backend -> MCCondition]
=============================================================================
