---------------------------- MODULE DoctorReport ----------------------------
(***************************************************************************)
(* What doctor makes of a round of probes: where each task's models are    *)
(* placed, the warnings, and the command it recommends. Its idea of a      *)
(* placement is not the router's (cmd/inferctl/doctor.go).                 *)
(***************************************************************************)
EXTENDS RouteSelection

\* firstPlacement: names are sought as they are written, an alias as well; the
\* primary only on the task's backend, if it names one, a fallback anywhere.
Named(cfg, i) == IF i = 1 THEN cfg.model ELSE cfg.fallback[i - 1]

PlacementsAnywhere(cfg, i, seen) ==
    { k \in DOMAIN Order : Named(cfg, i) \in seen.installed[Order[k]] }

Placements(cfg, i, seen) ==
    { k \in DOMAIN Order :
        /\ i = 1 => cfg.backend \in {NoBackend, Order[k]}
        /\ Named(cfg, i) \in seen.installed[Order[k]] }

\* summarizeDoctorRoutes: the first of the task's models that has a placement, or
\* position 0; ready if it is loaded where it was placed.
DoctorRoute(cfg, seen) ==
    LET i == FirstOf({ j \in 1 .. Len(cfg.fallback) + 1 : Placements(cfg, j, seen) # {} })
        b == Order[FirstOf(Placements(cfg, i, seen))]
    IN  IF i = 0 THEN [position |-> 0, model |-> cfg.model, ready |-> FALSE]
        ELSE [position |-> i, model |-> Named(cfg, i),
              ready |-> Named(cfg, i) \in seen.loaded[b]]

\* A warning is its code and the names in its message, which are what makes two
\* warnings the same (dedupeWarnings).
Warn(code, names) == [code |-> code, names |-> names]

\* buildDoctorReport: one pass over the backends, then over the tasks.
UnreachableWarnings(seen) ==
    { Warn("W_BACKEND_UNREACHABLE", << b >>) : b \in Backend \ seen.reachable }

RouteWarnings(cfg, seen) ==
    LET route == DoctorRoute(cfg, seen)
    IN  { w \in { Warn("W_MODEL_NOT_INSTALLED", << cfg.model >>) } : route.position # 1 }
        \cup { w \in { Warn("W_FALLBACK_USED", << route.model, cfg.model >>) } :
                 route.position > 1 }

DoctorWarnings(tasks, seen, degraded) ==
    UnreachableWarnings(seen)
    \cup { Warn("W_BACKEND_DEGRADED", d) : d \in degraded }
    \cup UNION { RouteWarnings(tasks[t].route, seen) : t \in DOMAIN tasks }

\* doctorCommands: about the backends that do not answer, then the tasks placed on
\* a fallback, then the models placed and not loaded.
Command(verb, name) == << verb, name >>

DoctorCommands(tasks, seen) ==
    LET route(t) == DoctorRoute(tasks[t].route, seen)
        down     == SelectSeq(Order, LAMBDA b : b \notin seen.reachable)
        indices  == [t \in DOMAIN tasks |-> t]
        moved    == SelectSeq(indices, LAMBDA t : route(t).position > 1)
        cold     == SelectSeq(indices, LAMBDA t : route(t).position > 0 /\ ~route(t).ready)
    IN  [k \in DOMAIN down |-> Command("backends", down[k])]
        \o [k \in DOMAIN moved |-> Command("route", tasks[moved[k]].task)]
        \o [k \in DOMAIN cold |-> Command("model", route(cold[k]).model)]

\* recommendedAction: the first command. << >> stands for no recommendation.
Recommended(commands) == IF commands = << >> THEN << >> ELSE commands[1]
=============================================================================
