---------------------------- MODULE RouteCommand ----------------------------
(***************************************************************************)
(* `inferctl route <task>` and `inferctl preflight <task>`: one command    *)
(* that probes the backends, one request at a time, while they change      *)
(* (cmd/inferctl/route.go, preflight.go, list.go).                         *)
(***************************************************************************)
EXTENDS RouteSelection

CONSTANTS
    Config,     \* validated configurations of the task
    Condition,  \* the conditions a backend can be in
    Start,      \* the worlds a command may find
    MaxDrifts   \* bound on changes of the world during the command

\* What a backend answers with: nothing, a refusal, or its models; an
\* openai_compat backend cannot list the loaded ones.
ASSUME ConditionAssumption ==
    \A s \in Condition :
        /\ s.health \in {"up", "down", "refusing"}
        /\ s.lists \in BOOLEAN
        /\ s.installed \in SUBSET Name /\ s.loaded \in SUBSET Name
ASSUME StartAssumption == Start \subseteq [Backend -> Condition]
ASSUME DriftAssumption == MaxDrifts \in Nat
ASSUME ConfigAssumption == \A cfg \in Config : IsConfig(cfg)

VARIABLES
    world,    \* the backends as they are
    history,  \* the worlds since the command began (no code reads it)
    drifts,
    pc, at,   \* where the command is, and the backend it is probing
    job,      \* what it was asked
    seen,     \* what its probes found
    result

vars == << world, history, drifts, pc, at, job, seen, result >>

Anything == [caps |-> {}, allowFallback |-> TRUE, requireReady |-> FALSE]

NothingSeen == [reachable |-> {}, installed |-> [b \in Backend |-> {}],
                loaded |-> [b \in Backend |-> {}]]

Codes == { "", "ok", "E_CONFIG", "E_CONFIG_VALIDATION_FAILED", "E_UNKNOWN_TASK",
           "E_BACKEND_AUTH_FAILED", "E_NO_ROUTE_AVAILABLE",
           "E_ROUTE_REQUIREMENTS_UNSATISFIED", "E_PREFLIGHT_POLICY_BLOCKED" }

Job == [kind : {"none", "route", "preflight"}, cfg : Config,
        required : Requirements, policy : Requirements]

\* candidates: as evaluated; chosen: the selected one's position, or 0;
\* handoff: the position of the one whose capabilities are handed over, or 0.
Result == [code : Codes, exit : {0, 1, 3, 4, 5}, candidates : Seq(Candidate),
           chosen : Nat, handoff : Nat]

NoResult == [code |-> "", exit |-> 0, candidates |-> << >>, chosen |-> 0, handoff |-> 0]

TypeOK ==
    /\ world \in [Backend -> Condition]
    /\ history \in SUBSET [Backend -> Condition]
    /\ drifts \in 0 .. MaxDrifts
    /\ pc \in {"idle", "access", "reachable", "installed", "loaded", "select", "done"}
    /\ at \in 1 .. Len(Order) + 1
    /\ job \in Job
    /\ seen \in Probed
    /\ result \in Result
    /\ result.chosen <= Len(result.candidates) /\ result.handoff <= Len(result.candidates)

Init ==
    /\ world \in Start
    /\ history = {world}
    /\ drifts = 0
    /\ pc = "idle" /\ at = 1
    /\ job \in [kind : {"none"}, cfg : Config, required : {Anything}, policy : {Anything}]
    /\ seen = NothingSeen
    /\ result = NoResult

\* A model is pulled, loaded or unloaded, a server starts, stops or changes.
Drift(b) ==
    /\ drifts < MaxDrifts /\ pc \notin {"idle", "done"}
    /\ \E s \in Condition \ {world[b]} : world' = [world EXCEPT ![b] = s]
    /\ history' = history \cup {world'}
    /\ drifts' = drifts + 1
    /\ UNCHANGED << pc, at, job, seen, result >>

-----------------------------------------------------------------------------
End(code, exit) ==
    /\ pc' = "done"
    /\ result' = [result EXCEPT !.code = code, !.exit = exit]

\* The prompt or the configuration cannot be read, no backend is configured or
\* one has an unusable endpoint or credential; the configuration fails validation,
\* which preflight turns into an environment error; or it lacks the task.
Refuse(kind) ==
    \/ \E exit \in {1, 3} : End("E_CONFIG", exit)
    \/ End("E_CONFIG_VALIDATION_FAILED", IF kind = "route" THEN 1 ELSE 3)
    \/ End("E_UNKNOWN_TASK", 1)

\* route takes required capabilities; preflight takes none, but a policy.
Begin(kind, required, policy) ==
    /\ pc = "idle"
    /\ job' = [job EXCEPT !.kind = kind, !.required = required, !.policy = policy]
    /\ \/ pc' = "access" /\ UNCHANGED result
       \/ Refuse(kind)
    /\ UNCHANGED << world, history, drifts, at, seen >>

BeginRoute == \E caps \in SUBSET Capability : Begin("route", [Anything EXCEPT !.caps = caps], Anything)

BeginPreflight ==
    \E fallback, ready \in BOOLEAN :
        Begin("preflight", Anything, [Anything EXCEPT !.allowFallback = fallback, !.requireReady = ready])

\* firstFatalBackendReadError: a backend that refuses the credentials ends the
\* command; one that does not answer does not.
CheckAccess ==
    /\ pc = "access"
    /\ \/ /\ at > Len(Order)
          /\ pc' = "reachable" /\ at' = 1 /\ UNCHANGED result
       \/ /\ at <= Len(Order) /\ world[Order[at]].health = "refusing"
          /\ End("E_BACKEND_AUTH_FAILED", 3) /\ UNCHANGED at
       \/ /\ at <= Len(Order) /\ world[Order[at]].health # "refusing"
          /\ at' = at + 1 /\ UNCHANGED << pc, result >>
    /\ UNCHANGED << world, history, drifts, job, seen >>

\* probeRouteBackends: here a refusal only makes the backend unreachable.
ProbeUntilDown ==
    /\ pc = "reachable"
    /\ \/ /\ at > Len(Order) \/ world[Order[at]].health # "up"
          /\ pc' = "select" /\ UNCHANGED << at, seen >>
       \/ /\ at <= Len(Order) /\ world[Order[at]].health = "up"
          /\ seen' = [seen EXCEPT !.reachable = @ \cup {Order[at]}]
          /\ pc' = "installed" /\ UNCHANGED at
    /\ UNCHANGED << world, history, drifts, job, result >>

ProbeReachable ==
    /\ pc = "reachable"
    /\ \/ /\ at > Len(Order)
          /\ pc' = "select" /\ UNCHANGED << at, seen >>
       \/ /\ at <= Len(Order) /\ world[Order[at]].health # "up"
          /\ at' = at + 1 /\ UNCHANGED << pc, seen >>
       \/ /\ at <= Len(Order) /\ world[Order[at]].health = "up"
          /\ seen' = [seen EXCEPT !.reachable = @ \cup {Order[at]}]
          /\ pc' = "installed" /\ UNCHANGED at
    /\ UNCHANGED << world, history, drifts, job, result >>

Answers(b) == world[b].health = "up" /\ world[b].lists

\* mustInstalled, mustLoaded: a listing that fails counts as an empty one.
ProbeInstalled ==
    /\ pc = "installed"
    /\ seen' = [seen EXCEPT !.installed[Order[at]] =
                  IF Answers(Order[at]) THEN world[Order[at]].installed ELSE {}]
    /\ pc' = "loaded"
    /\ UNCHANGED << world, history, drifts, at, job, result >>

ProbeLoaded ==
    /\ pc = "loaded"
    /\ seen' = [seen EXCEPT !.loaded[Order[at]] =
                  IF Answers(Order[at]) THEN world[Order[at]].loaded ELSE {}]
    /\ pc' = "reachable" /\ at' = at + 1
    /\ UNCHANGED << world, history, drifts, job, result >>

-----------------------------------------------------------------------------
\* What preflight makes of a selected candidate: the policy is applied to the
\* selection, it does not steer it.
PolicyBlocksEither(c, policy) == c.role = "fallback" /\ ~policy.allowFallback

PolicyBlocks(c, policy) ==
    \/ c.role = "fallback" /\ ~policy.allowFallback
    \/ ~c.loaded /\ policy.requireReady

\* buildRouteReportWithRequirements and what route and preflight report of it.
Decide(cands, chosen) ==
    IF chosen = 0
    THEN LET unmet == job.required.caps # {}
         IN  [code |-> IF unmet THEN "E_ROUTE_REQUIREMENTS_UNSATISFIED"
                                ELSE "E_NO_ROUTE_AVAILABLE",
              exit |-> IF job.kind = "preflight" \/ unmet THEN 5 ELSE 4,
              candidates |-> cands, chosen |-> 0, handoff |-> 0]
    ELSE IF job.kind = "preflight" /\ PolicyBlocks(cands[chosen], job.policy)
    THEN [code |-> "E_PREFLIGHT_POLICY_BLOCKED", exit |-> 5,
          candidates |-> cands, chosen |-> chosen, handoff |-> 0]
    ELSE [code |-> "ok", exit |-> 0, candidates |-> cands, chosen |-> chosen,
          handoff |-> IF job.kind = "preflight" THEN HandoffSource(cands, chosen) ELSE 0]

SelectRoute ==
    /\ pc = "select"
    /\ LET cands == Evaluated(job.cfg, seen)
       IN  result' = Decide(cands, Select(cands, job.required))
    /\ pc' = "done"
    /\ UNCHANGED << world, history, drifts, at, job, seen >>

Next ==
    \/ \E b \in Backend : Drift(b)
    \/ BeginRoute \/ BeginPreflight
    \/ CheckAccess \/ ProbeReachable \/ ProbeInstalled \/ ProbeLoaded
    \/ SelectRoute

Spec == Init /\ [][Next]_vars

-----------------------------------------------------------------------------
(* Properties *)

Decided == pc = "done" /\ result.chosen # 0

Chosen == result.candidates[result.chosen]

\* Backend b served model m in world w.
Serves(w, b, m) == w[b].health = "up" /\ w[b].lists /\ m \in w[b].installed

\* However the backends change between the probes of one command, the selected
\* backend had the selected model installed while the command ran, and had it
\* loaded if the route is reported ready (probeRouteBackends).
DecisionWitnessed ==
    Decided =>
        /\ \E w \in history : Serves(w, Chosen.backend, Chosen.model)
        /\ Chosen.loaded => \E w \in history : Chosen.model \in w[Chosen.backend].loaded

\* A candidate is passed over only with cause: for each backend it could have
\* run on there was a moment, while the command ran, when that backend did not
\* serve it, or it lacks a required capability (SelectRouteCandidate).
PassedOver(i) ==
    \/ ~(job.required.caps \subseteq result.candidates[i].supports)
    \/ \A k \in Places(Candidates(job.cfg)[i]) :
         \E w \in history : ~Serves(w, Order[k], result.candidates[i].model)

RefusalWitnessed ==
    pc = "done" /\ result.candidates # << >> =>
        \A i \in DOMAIN result.candidates :
            result.chosen = 0 \/ i < result.chosen => PassedOver(i)

\* While nothing changes, route and preflight decide what the world and the
\* configuration call for: the first candidate, in the order of preference,
\* that some backend serves, on the first backend that does; and one backend
\* that refuses the credentials stops every task.
Runs(w, i, k) ==
    LET c == Candidates(job.cfg)[i]
    IN  /\ k \in Places(c) /\ Serves(w, Order[k], c.model)
        /\ job.required.caps \subseteq c.supports

StableDecisionIsBest ==
    pc = "done" /\ drifts = 0
        /\ result.code \notin {"E_CONFIG", "E_CONFIG_VALIDATION_FAILED", "E_UNKNOWN_TASK"} =>
        IF \E b \in Backend : world[b].health = "refusing"
        THEN result.code = "E_BACKEND_AUTH_FAILED"
        ELSE /\ result.chosen = 0 =>
                  \A i \in DOMAIN Candidates(job.cfg), k \in DOMAIN Order : ~Runs(world, i, k)
             /\ result.chosen # 0 =>
                  \E k \in DOMAIN Order :
                      /\ Chosen.backend = Order[k]
                      /\ Runs(world, result.chosen, k)
                      /\ \A i \in DOMAIN Candidates(job.cfg), j \in DOMAIN Order :
                           Runs(world, i, j) =>
                               result.chosen < i \/ (result.chosen = i /\ k <= j)

\* The handoff carries the capabilities of the candidate that was selected,
\* although executionHandoff looks the candidate up again by model and backend.
HandoffIsSelected ==
    pc = "done" /\ result.code = "ok" /\ job.kind = "preflight" =>
        result.handoff = result.chosen

\* preflight selects first and applies its policy to the outcome; when it says
\* runnable, selecting under the policy would have chosen the same candidate
\* (the library's SelectRouteCandidate with the same flags).
RunnableIsPolicySelection ==
    pc = "done" /\ result.code = "ok" /\ job.kind = "preflight" =>
        result.chosen = Select(result.candidates, job.policy)
=============================================================================
