--------------------------- MODULE RouteSelection ---------------------------
(***************************************************************************)
(* How a route is selected, as functions: the candidates of a task, what   *)
(* a round of probes says of each, and which one meets the requirements    *)
(* (cmd/inferctl/route.go, pkg/inferctl/router.go).                        *)
(***************************************************************************)
EXTENDS Integers, Sequences

CONSTANTS
    Backend,    \* configured backends
    Order,      \* their names sorted: the order they are probed and tried in
    Name,       \* model names, aliases among them
    Capability,
    NoBackend

ASSUME OrderAssumption ==
    /\ Order \in Seq(Backend)
    /\ \A b \in Backend : \E i \in DOMAIN Order : Order[i] = b
    /\ \A i, j \in DOMAIN Order : Order[i] = Order[j] => i = j
ASSUME NoBackendAssumption == NoBackend \notin Backend

\* An entry of the model catalogue: what an alias stands for.
ModelConfig == [backend : Backend, model : Name, supports : SUBSET Capability]

\* What the configuration says of one task.
IsConfig(cfg) ==
    /\ \E A \in SUBSET Name : cfg.models \in [A -> ModelConfig]
    /\ cfg.model \in Name
    /\ cfg.backend \in Backend \cup {NoBackend}
    /\ cfg.fallback \in Seq(Name)

Requirements == [caps : SUBSET Capability, allowFallback : BOOLEAN, requireReady : BOOLEAN]

\* What one round of probes found.
Probed == [reachable : SUBSET Backend, installed : [Backend -> SUBSET Name],
           loaded : [Backend -> SUBSET Name]]

Reasons == { "", "not_installed", "backend_unreachable" }

Candidate == [model : Name, role : {"primary", "fallback"},
              backend : Backend \cup {NoBackend}, supports : SUBSET Capability,
              available : BOOLEAN, loaded : BOOLEAN, reason : Reasons]

\* routeCandidateForModel: a name outside the catalogue is a direct model name.
CandidateFor(cfg, name, role) ==
    LET resolved == IF name \in DOMAIN cfg.models THEN cfg.models[name]
                    ELSE [backend |-> NoBackend, model |-> name, supports |-> {}]
    IN  [model |-> resolved.model, role |-> role, backend |-> resolved.backend,
         supports |-> resolved.supports,
         available |-> FALSE, loaded |-> FALSE, reason |-> ""]

\* The primary without an alias is sought on the task's backend, if it names one.
Primary(cfg) ==
    LET c == CandidateFor(cfg, cfg.model, "primary")
    IN  IF c.backend = NoBackend THEN [c EXCEPT !.backend = cfg.backend] ELSE c

Candidates(cfg) ==
    [i \in 1 .. Len(cfg.fallback) + 1 |->
        IF i = 1 THEN Primary(cfg) ELSE CandidateFor(cfg, cfg.fallback[i - 1], "fallback")]

\* The first position of a sequence that satisfies a test, 0 if none does.
FirstOf(S) == IF S = {} THEN 0 ELSE CHOOSE i \in S : \A j \in S : i <= j

\* The backends a candidate is looked for on, by position.
Places(c) == { i \in DOMAIN Order : c.backend \in {NoBackend, Order[i]} }

ServingReachable(c, seen) == { i \in Places(c) : Order[i] \in seen.reachable }

Serving(c, seen) ==
    { i \in Places(c) : Order[i] \in seen.reachable /\ c.model \in seen.installed[Order[i]] }

\* evaluateRouteCandidate: the first of them that has the model.
EvaluateLast(c, seen) ==
    LET serving == Serving(c, seen)
        b       == Order[CHOOSE i \in serving : \A j \in serving : i >= j]
    IN  IF serving # {}
        THEN [c EXCEPT !.backend = b, !.available = TRUE, !.loaded = c.model \in seen.loaded[b]]
        ELSE [c EXCEPT !.reason =
                IF \E i \in Places(c) : Order[i] \in seen.reachable
                THEN "not_installed" ELSE "backend_unreachable"]

Evaluate(c, seen) ==
    LET serving == Serving(c, seen)
        b       == Order[FirstOf(serving)]
    IN  IF serving # {}
        THEN [c EXCEPT !.backend = b, !.available = TRUE, !.loaded = c.model \in seen.loaded[b]]
        ELSE [c EXCEPT !.reason =
                IF \E i \in Places(c) : Order[i] \in seen.reachable
                THEN "not_installed" ELSE "backend_unreachable"]

Evaluated(cfg, seen) ==
    [i \in DOMAIN Candidates(cfg) |-> Evaluate(Candidates(cfg)[i], seen)]

\* SelectRouteCandidate: the position of the first candidate that qualifies.
Qualifies(c, req) ==
    /\ c.available
    /\ req.allowFallback \/ c.role # "fallback"
    /\ req.requireReady => c.loaded
    /\ req.caps \subseteq c.supports

Select(cands, req) == FirstOf({ i \in DOMAIN cands : Qualifies(cands[i], req) })

\* executionHandoff: the candidate whose capabilities are handed over is found
\* again, by the selected model and backend.
HandoffByModel(cands, chosen) ==
    FirstOf({ i \in DOMAIN cands : cands[i].model = cands[chosen].model })

HandoffSource(cands, chosen) ==
    FirstOf({ i \in DOMAIN cands : /\ cands[i].model = cands[chosen].model
                                   /\ cands[i].backend = cands[chosen].backend })
=============================================================================
