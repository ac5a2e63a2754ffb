------------------------------- MODULE Survey -------------------------------
(***************************************************************************)
(* The commands that survey the backends in rounds of probes: `backends`,  *)
(* `models`, `model`, `doctor`, `triage`, `snapshot`, `status` and `status *)
(* --watch`, while the backends and the configuration change and signals   *)
(* arrive (cmd/inferctl/list.go, doctor.go, triage.go, snapshot.go,        *)
(* status.go).                                                             *)
(***************************************************************************)
EXTENDS Triage

CONSTANTS
    Kinds,           \* the commands considered
    Task,
    Configuration,   \* what a load can yield: the tasks in name order
    Condition,       \* the conditions a backend can be in, as in RouteCommand
    Start,           \* the worlds a command may find
    MaxDrifts,       \* bound on changes of the world
    MaxFrames        \* bound on the frames of a watch

ASSUME KindsAssumption ==
    Kinds \subseteq {"doctor", "fast", "snapshot", "status", "watch", "events", "backends", "listed",
                    "models", "loaded", "model", "triage", "prior"}
ASSUME SurveyAssumption ==
    /\ Start \subseteq [Backend -> Condition]
    /\ MaxDrifts \in Nat /\ MaxFrames \in Nat \ {0}
    /\ \A s \in Condition :
         /\ s.health \in {"up", "down", "refusing"} /\ s.lists \in BOOLEAN
         /\ s.installed \in SUBSET Name /\ s.loaded \in SUBSET Name
    /\ \A c \in Configuration :
         /\ c \in Seq({ c[t] : t \in DOMAIN c })
         /\ \A t \in DOMAIN c : c[t].task \in Task /\ IsConfig(c[t].route)
\* Items and changes can be sorted by whatever they are about.
ASSUME NamesAssumption ==
    Task \cup Backend \cup Name \cup
        {"status", "installed", "loaded", "E_CONFIG", "E_BACKEND_AUTH_FAILED",
         "E_CONFIG_VALIDATION_FAILED", "W_CONFIG_VALIDATION", "W_BACKEND_UNREACHABLE",
         "W_BACKEND_DEGRADED", "W_MODEL_NOT_INSTALLED", "W_MODEL_NOT_LOADED", "W_FALLBACK_USED"}
      \subseteq { SubjectOrder[i] : i \in DOMAIN SubjectOrder }

VARIABLES
    world,      \* the backends as they are
    history,    \* the worlds since the frame was begun (no code reads it)
    drifts,
    signalled,  \* whether a signal has cancelled the context
    kind,       \* the command; "fast" is `doctor --fast`, "listed" `backends --fast`, "loaded"
                \* `models --loaded`, "events" a watch with --events, "prior" `triage --input-file`
    config,     \* the tasks as loaded for this frame
    pc, plan, at,   \* where the command is: the rounds to come, the backend it is at
    probe,      \* what this round found
    draft,      \* the frame being built
    previous,   \* the frame before it
    frames, tail,   \* what was written
    code, exit, \* how it ended
    replay      \* what a reader of the events alone knows (no code reads it)

vars == << world, history, drifts, signalled, kind, config, pc, plan, at, probe,
           draft, previous, frames, tail, code, exit, replay >>

NothingProbed == [reachable |-> {}, installed |-> [b \in Backend |-> {}],
                  loaded |-> [b \in Backend |-> {}], degraded |-> {}]

\* survey: the first round; routes: of each task the decision and its candidates;
\* exposed: the models listed in the last round; items and commands: what triage makes
\* of it, as it was asked to, and whether it asked the backends.
NoFrame == [survey |-> NothingProbed, routes |-> << >>, exposed |-> {}, warnings |-> {},
            action |-> << >>, items |-> << >>, commands |-> << >>, asked |-> Unlimited,
            probed |-> FALSE]

Streams == kind \in {"watch", "events"}

Init ==
    /\ world \in Start /\ history = {world} /\ drifts = 0
    /\ signalled = FALSE
    /\ kind \in Kinds /\ config = << >>
    /\ pc = "load" /\ plan = << >> /\ at = 1
    /\ probe = NothingProbed /\ draft = NoFrame /\ previous = NoFrame
    /\ frames = 0 /\ tail = "nothing"
    /\ code = "" /\ exit = 0
    /\ replay = << >>

Drift(b) ==
    /\ drifts < MaxDrifts /\ pc \notin {"exit", "done"}
    /\ \E s \in Condition \ {world[b]} : world' = [world EXCEPT ![b] = s]
    /\ history' = history \cup {world'}
    /\ drifts' = drifts + 1
    /\ UNCHANGED << signalled, kind, config, pc, plan, at, probe, draft, previous, frames,
                    tail, code, exit, replay >>

\* SIGINT or SIGTERM: a watch cancels its context, whatever it is doing; the other
\* commands are killed by it, which nobody sees.
Signal ==
    /\ Streams /\ ~signalled /\ pc \notin {"exit", "done"}
    /\ signalled' = TRUE
    /\ UNCHANGED << world, history, drifts, kind, config, pc, plan, at, probe, draft,
                    previous, frames, tail, code, exit, replay >>

-----------------------------------------------------------------------------
\* writeError: the error is written, and then the command ends with its code.
Fail(c, e) == pc' = "exit" /\ tail' = "error" /\ code' = c /\ exit' = e

Exit ==
    /\ pc = "exit" /\ pc' = "done"
    /\ UNCHANGED << world, history, drifts, signalled, kind, config, plan, at, probe, draft,
                    previous, frames, tail, code, exit, replay >>

\* The rounds of each command after the access check; `model` has one for the model
\* it is given.
Plans(tasks) ==
    CASE kind \in {"doctor", "fast", "triage"} -> { << [round |-> "doctor", task |-> 0] >> }
      [] kind \in {"backends", "listed"} -> { << [round |-> "inventory", task |-> 0] >> }
      [] kind \in {"models", "loaded"} -> { << [round |-> kind, task |-> 0] >> }
      [] kind = "model" -> { << [round |-> kind, task |-> m] >> : m \in Name }
      [] kind = "snapshot" -> { << [round |-> "state", task |-> 0], [round |-> "route", task |-> 1] >> }
      [] OTHER -> { << [round |-> "doctor", task |-> 0] >>
                    \o [t \in DOMAIN tasks |-> [round |-> "route", task |-> t]]
                    \o << [round |-> "exposed", task |-> 0] >> }

\* What a round first asks a backend.
Entry == CASE kind = "models" -> "installed" [] kind \in {"loaded", "model"} -> "loaded"
           [] OTHER -> "reachable"

\* Triage's options, and a report of the items it found.
Options == IF kind \notin {"triage", "prior"} THEN {Unlimited}
           ELSE [severity : {"", "error"}, backend : Backend \cup {NoBackend}, limit : {0, 1}]

Report(items, commands, opts) ==
    [NoFrame EXCEPT !.items = Triaged(items, opts), !.commands = commands, !.asked = opts]

\* The configuration may be missing, unreadable or invalid, have no backends or an
\* unusable one, or lack the snapshot's task, for which the exit is an environment
\* error or a user's error; for triage it is an item.
LoadFails ==
    /\ IF kind = "triage"
       THEN /\ \E opts \in Options : draft' = Report(<< LoadItem >>, << >>, opts)
            /\ pc' = "write" /\ UNCHANGED << tail, code, exit >>
       ELSE (\E e \in {1, 3} : Fail("E_CONFIG", e)) /\ UNCHANGED draft
    /\ UNCHANGED << config, plan, at, probe, history >>

\* triageFromInputFile: an earlier envelope tells of an error or of warnings.
ReadPrior ==
    /\ \E opts \in Options, b \in Backend :
         \E items \in { << RefusalItem(b) >>, << UnreachableItem(b), FindingItem("error", b) >> } :
             draft' = Report(items, << Command("backends", b) >>, opts)
    /\ pc' = "write"
    /\ UNCHANGED << config, plan, at, probe, history, tail, code, exit >>

\* Every frame loads the configuration again. For triage it may have findings.
Load ==
    /\ pc = "load" /\ frames < MaxFrames
    /\ \/ /\ kind # "prior"
          /\ config' \in { c \in Configuration : kind = "snapshot" => c # << >> }
          /\ plan' \in Plans(config')
          /\ pc' = (IF kind \in {"backends", "listed", "models", "loaded"} THEN Entry ELSE "access")
          /\ at' = 1 /\ probe' = NothingProbed
          /\ \E findings \in {<< >>} \cup { f \in { << FindingItem("warning", b) >> : b \in Backend } :
                                              kind = "triage" } :
                 draft' = [NoFrame EXCEPT !.items = findings]
          /\ history' = {world}
          /\ UNCHANGED << tail, code, exit >>
       \/ LoadFails
       \/ kind = "prior" /\ ReadPrior
    /\ UNCHANGED << world, drifts, signalled, kind, previous, frames, replay >>

\* backendReadError: a backend that refuses the credential, not one that is down; a
\* cancelled request is not refused.
Refuses(b) == ~signalled /\ world[b].health = "refusing"

Refused == Fail("E_BACKEND_AUTH_FAILED", 3)

\* firstFatalBackendReadError: only a refusal ends the command, except for triage,
\* which notes it.
CheckAccess ==
    /\ pc = "access"
    /\ \/ /\ at > Len(Order)
          /\ pc' = Entry /\ at' = 1 /\ UNCHANGED << tail, code, exit, draft >>
       \/ /\ at <= Len(Order) /\ Refuses(Order[at]) /\ kind # "triage"
          /\ Refused /\ UNCHANGED << at, draft >>
       \/ /\ at <= Len(Order) /\ (kind = "triage" \/ ~Refuses(Order[at]))
          /\ draft' = [draft EXCEPT !.items = IF Refuses(Order[at]) THEN Append(@, RefusalItem(Order[at]))
                                              ELSE @]
          /\ at' = at + 1 /\ UNCHANGED << pc, tail, code, exit >>
    /\ UNCHANGED << world, history, drifts, signalled, kind, config, plan, probe,
                    previous, frames, replay >>

Round == Head(plan)

AnswersAnything(b) == ~signalled /\ world[b].health # "down"

Answers(b) == ~signalled /\ world[b].health = "up"

\* After a backend that does not answer comes the next.
StopAtDown == at' = Len(Order) + 1
PassDown   == at' = at + 1

\* The three requests of a round to one backend: buildDoctorReport,
\* collectSnapshotState, probeRouteBackends, statusExposedModels, the inventory
\* commands and inspectModel differ in which they make, in which order, and in what
\* they do when one is refused or fails.
ProbeReachable ==
    /\ pc = "reachable" /\ at <= Len(Order)
    /\ IF Answers(Order[at])
       THEN /\ probe' = [probe EXCEPT !.reachable = @ \cup {Order[at]}]
            /\ IF kind \in {"fast", "listed"} THEN at' = at + 1 /\ UNCHANGED pc
                                               ELSE pc' = "installed" /\ UNCHANGED at
            /\ UNCHANGED << tail, code, exit >>
       ELSE IF kind \in {"backends", "listed"} /\ Refuses(Order[at])
       THEN Refused /\ UNCHANGED << at, probe >>
       ELSE PassDown /\ UNCHANGED << pc, probe, tail, code, exit >>
    /\ UNCHANGED << world, history, drifts, signalled, kind, config, plan, draft, previous,
                    frames, replay >>

\* A listing that fails is empty; doctor and snapshot warn of it.
Listing(field, b) ==
    IF Answers(b) /\ world[b].lists
    THEN [probe EXCEPT ![field] = [@ EXCEPT ![b] = world[b][field]]]
    ELSE [probe EXCEPT !.degraded = @ \cup {<< b, field >>}]

ProbeInstalled ==
    /\ pc = "installed" /\ at <= Len(Order)
    /\ IF kind = "models" /\ Refuses(Order[at])
       THEN Refused /\ UNCHANGED << at, probe >>
       ELSE /\ probe' = Listing("installed", Order[at])
            /\ IF \/ kind = "model"
                  \/ Round.round \in {"exposed", "models"} /\ probe'.degraded # probe.degraded
               THEN pc' = Entry /\ at' = at + 1
               ELSE pc' = "loaded" /\ UNCHANGED at
            /\ UNCHANGED << tail, code, exit >>
    /\ UNCHANGED << world, history, drifts, signalled, kind, config, plan, draft, previous,
                    frames, replay >>

ProbeLoaded ==
    /\ pc = "loaded" /\ at <= Len(Order)
    /\ IF kind = "loaded" /\ Refuses(Order[at])
       THEN Refused /\ UNCHANGED << at, probe >>
       ELSE /\ probe' = Listing("loaded", Order[at])
            /\ IF kind = "model" THEN pc' = "installed" /\ UNCHANGED at
                                 ELSE pc' = Entry /\ at' = at + 1
            /\ UNCHANGED << tail, code, exit >>
    /\ UNCHANGED << world, history, drifts, signalled, kind, config, plan, draft, previous,
                    frames, replay >>

-----------------------------------------------------------------------------
\* buildRouteReport of one task, from its own round of probes.
Route(t, seen) ==
    LET cands  == Evaluated(config[t].route, seen)
        chosen == Select(cands, [caps |-> {}, allowFallback |-> TRUE, requireReady |-> FALSE])
        c      == cands[chosen]
    IN  [task |-> config[t].task, found |-> chosen # 0,
         backend |-> IF chosen = 0 THEN NoBackend ELSE c.backend,
         model |-> IF chosen = 0 THEN config[t].route.model ELSE c.model,
         fallback |-> chosen > 1,
         ready |-> chosen # 0 /\ c.loaded,
         primaryDown |-> IF cands[1].reason = "backend_unreachable" THEN cands[1].backend
                         ELSE NoBackend]

\* The warnings and commands of a route that was found.
WarningsOf(t, r, seen) ==
    UnreachableWarnings(seen)
    \cup { w \in { Warn("W_FALLBACK_USED", << r.model, config[t].route.model >>) } : r.fallback }
    \cup { w \in { Warn("W_MODEL_NOT_LOADED", << r.model >>) } : ~r.ready }

\* routeCommands; a route that was found recommends at least to look at its model.
RouteCommands(r) ==
    IF ~r.ready THEN << Command("warmup", r.model) >>
    ELSE IF r.fallback /\ r.primaryDown # NoBackend
    THEN << Command("backends", r.primaryDown) >>
    ELSE << Command("model", r.model) >>

AllRouteCommands(routes) == IF routes = << >> THEN << >> ELSE RouteCommands(routes[1])

\* The models a round found on each backend, and whether they are loaded there.
Rows(names) == { << b, m, m \in probe.loaded[b] >> : b \in Backend, m \in names }

Exposed == { x \in Rows(Name) : x[2] \in probe.installed[x[1]] }

\* What the finished round adds to the frame.
Recorded(opts) ==
    CASE kind = "triage" ->
            [Report(draft.items \o DoctorItems(config, probe, probe.degraded),
                    DoctorCommands(config, probe), opts) EXCEPT !.survey = probe, !.probed = TRUE]
      [] kind # "triage" /\ Round.round = "doctor" ->
            [draft EXCEPT !.survey = probe,
                          !.warnings = DoctorWarnings(config, probe, probe.degraded)]
      [] Round.round = "inventory" -> [draft EXCEPT !.survey = probe]
      [] Round.round = "state" ->
            [draft EXCEPT !.survey = probe,
                          !.warnings = DoctorWarnings(<< >>, probe, probe.degraded)]
      [] Round.round = "route" ->
            LET r == Route(Round.task, probe)
            IN  [draft EXCEPT !.routes = Append(@, r),
                              !.warnings = @ \cup WarningsOf(Round.task, r, probe)]
      [] Round.round \in {"exposed", "models"} -> [draft EXCEPT !.exposed = Exposed]
      [] Round.round = "loaded" -> [draft EXCEPT !.exposed = { x \in Rows(Name) : x[3] }]
      [] Round.round = "model" -> [draft EXCEPT !.exposed = Exposed \cap Rows({Round.task})]

NeverUnroutable == FALSE
Unroutable == Round.round = "route" /\ ~Route(Round.task, probe).found

\* inspectModel finds the model on no backend.
Unknown == Round.round = "model" /\ \A b \in Backend : Round.task \notin probe.installed[b]

\* A task without a route ends snapshot and status, for status the other tasks too.
EndRound ==
    /\ pc = Entry /\ at > Len(Order)
    /\ IF Unroutable
       THEN Fail("E_NO_ROUTE_AVAILABLE", 4) /\ UNCHANGED << plan, at, probe, draft >>
       ELSE IF Unknown
       THEN Fail("E_UNKNOWN_MODEL", 1) /\ UNCHANGED << plan, at, probe, draft >>
       ELSE /\ \E opts \in Options : draft' = Recorded(opts)
            /\ plan' = Tail(plan) /\ probe' = NothingProbed /\ at' = 1
            /\ pc' = IF Tail(plan) = << >> THEN "write" ELSE Entry
            /\ UNCHANGED << tail, code, exit >>
    /\ UNCHANGED << world, history, drifts, signalled, kind, config, previous, frames, replay >>

-----------------------------------------------------------------------------
Codes(warnings) == { w.code : w \in warnings }

\* statusGlobalSnapshot: a frame without its routes.
GlobalSnapshot(f) ==
    [task |-> "status", route |-> << >>, fallback |-> FALSE, ready |-> FALSE,
     status |-> [b \in Backend |-> IF b \in f.survey.reachable THEN "reachable"
                                   ELSE "unreachable:backend_unreachable"],
     warnings |-> Codes(f.warnings), errors |-> {}, action |-> f.action,
     loaded |-> Cardinality({ x \in Backend \X Name : x[2] \in f.survey.loaded[x[1]] }),
     installed |-> 0]

\* statusRouteSnapshot: one route of a frame, and nothing else.
RouteSnapshot(f, task) ==
    LET r == f.routes[CHOOSE t \in DOMAIN f.routes : f.routes[t].task = task]
    IN  [task |-> task, route |-> << r.backend, r.model >>, fallback |-> r.fallback,
         ready |-> r.ready, status |-> << >>, warnings |-> {}, errors |-> {},
         action |-> << >>, loaded |-> 0, installed |-> 0]

Tasks(f) == { f.routes[t].task : t \in DOMAIN f.routes }

\* diffStatusSnapshots: the changes in all and of each task of both frames, by what a
\* reader can tell them apart by, their kind, subject and two values: a change of
\* readiness names the model selected afterwards and not the task, and a task that
\* comes or goes is no change.
CommonTasks(before, after) == Tasks(before) \cap Tasks(after)

EventsOf(changes) ==
    { << a.type, changes[a].subject, changes[a].before, changes[a].after >> : a \in DOMAIN changes }

Events(before, after) ==
    EventsOf(Changes(GlobalSnapshot(before), GlobalSnapshot(after)))
    \cup UNION { EventsOf(Changes(RouteSnapshot(before, t), RouteSnapshot(after, t))) :
                    t \in CommonTasks(before, after) }

\* What a reader knows who saw a frame, of the whole and of each task, and of which
\* tasks the events have since left open whether their model is ready.
Placement(f, task) ==
    LET s == RouteSnapshot(f, task)
    IN  [route |-> s.route, fallback |-> s.fallback, ready |-> s.ready]

Known(f) == [global |-> GlobalSnapshot(f), placed |-> [t \in Tasks(f) |-> Placement(f, t)],
             unsure |-> {}]

\* What the events teach the reader: of the whole, and of a task that was in every
\* frame so far.
PlacementKinds == {"selected_route", "fallback_status", "selected_model_readiness"}

GlobalChanges(events) ==
    LET told == { e \in events : e[1] \notin PlacementKinds }
    IN  [a \in { [type |-> e[1], about |-> e[2]] : e \in told } |->
            LET x == CHOOSE e \in told : e[1] = a.type /\ e[2] = a.about
            IN  [subject |-> x[2], before |-> x[3], after |-> x[4]]]

Told(events, type, about, old) ==
    IF \E e \in events : e[1] = type /\ e[2] = about
    THEN (CHOOSE e \in events : e[1] = type /\ e[2] = about)[4] ELSE old

TaughtPlacement(t, p, events) ==
    LET route == Told(events, "selected_route", t, p.route)
    IN  [route |-> route, fallback |-> Told(events, "fallback_status", t, p.fallback),
         ready |-> IF << "selected_model_readiness", route[2], p.ready, ~p.ready >> \in events
                   THEN ~p.ready ELSE p.ready]

\* Readiness changed of a model that several tasks select now.
Ambiguous(f, g, events) ==
    { t \in CommonTasks(f, g) :
        LET m == Placement(g, t).route[2]
        IN  /\ \E e \in events : e[1] = "selected_model_readiness" /\ e[2] = m
            /\ \E u \in CommonTasks(f, g) \ {t} : Placement(g, u).route[2] = m }

Taught(known, f, g, events) ==
    [global |-> Apply(known.global, GlobalChanges(events)),
     placed |-> [t \in DOMAIN known.placed \cap Tasks(g) |->
                    TaughtPlacement(t, known.placed[t], events)],
     unsure |-> known.unsure \cup Ambiguous(f, g, events)]

\* The frame, report or snapshot is written. Afterwards a watch compares it with the
\* frame before, if events are asked for.
CommandsOf(f) ==
    CASE kind \in {"backends", "listed", "models", "loaded", "model"} -> << >>
      [] kind \in {"triage", "prior"} -> ItemCommands(f.items, f.commands)
      [] kind = "snapshot" -> AllRouteCommands(f.routes)
      [] OTHER -> DoctorCommands(config, f.survey) \o AllRouteCommands(f.routes)

Finished == [draft EXCEPT !.action = Recommended(CommandsOf(draft))]

WriteFrame ==
    /\ pc = "write"
    /\ frames' = frames + 1 /\ tail' = "frame"
    /\ draft' = Finished
    /\ IF ~Streams THEN pc' = "done" /\ code' = "ok" /\ UNCHANGED << previous, replay >>
       ELSE IF frames = 0
       THEN /\ pc' = "wait" /\ previous' = draft' /\ replay' = Known(draft')
            /\ UNCHANGED code
       ELSE IF kind = "events" /\ Events(previous, draft') # {}
       THEN pc' = "batch" /\ UNCHANGED << previous, replay, code >>
       ELSE /\ pc' = "wait" /\ previous' = draft'
            /\ replay' = Taught(replay, previous, draft', {})
            /\ UNCHANGED code
    /\ UNCHANGED << world, history, drifts, signalled, kind, config, plan, at, probe, exit >>

BatchOnly ==
    /\ pc = "batch"
    /\ tail' = "batch" /\ pc' = "wait"
    /\ replay' = Taught(replay, previous, draft, Events(previous, draft))
    /\ UNCHANGED << world, history, drifts, signalled, kind, config, plan, at, probe, draft,
                    previous, frames, code, exit >>

WriteBatch ==
    /\ pc = "batch"
    /\ tail' = "batch" /\ pc' = "wait"
    /\ replay' = Taught(replay, previous, draft, Events(previous, draft))
    /\ previous' = draft
    /\ UNCHANGED << world, history, drifts, signalled, kind, config, plan, at, probe, draft,
                    frames, code, exit >>

\* The select of runStatusWatch: a tick that finds the context cancelled ends the
\* watch like the cancellation itself.
Ticks ==
    /\ pc = "wait" /\ ~signalled /\ frames < MaxFrames
    /\ pc' = "load"
    /\ UNCHANGED << world, history, drifts, signalled, kind, config, plan, at, probe, draft,
                    previous, frames, tail, code, exit, replay >>

StoppableAtLoad == pc \in {"wait", "load"}
Stoppable == pc = "wait"

Stops ==
    /\ Stoppable /\ signalled
    /\ pc' = "done" /\ code' = "ok"
    /\ UNCHANGED << world, history, drifts, signalled, kind, config, plan, at, probe, draft,
                    previous, frames, tail, exit, replay >>

Step == \/ Load \/ CheckAccess \/ ProbeReachable \/ ProbeInstalled \/ ProbeLoaded
        \/ EndRound \/ WriteFrame \/ WriteBatch \/ Ticks \/ Stops \/ Exit

Next == (\E b \in Backend : Drift(b)) \/ Signal \/ Step

Spec == Init /\ [][Next]_vars

-----------------------------------------------------------------------------
(* Properties *)

Decision == [task : Task, found : {TRUE}, backend : Backend, model : Name,
             fallback : BOOLEAN, ready : BOOLEAN, primaryDown : Backend \cup {NoBackend}]

IsProbe(p) ==
    /\ p.reachable \subseteq Backend
    /\ p.installed \in [Backend -> SUBSET Name] /\ p.loaded \in [Backend -> SUBSET Name]
    /\ p.degraded \subseteq Backend \X {"installed", "loaded"}

IsFrame(f) ==
    /\ IsProbe(f.survey)
    /\ f.routes \in Seq(Decision)
    /\ f.exposed \subseteq Backend \X Name \X BOOLEAN
    /\ \A i \in DOMAIN f.items : f.items[i].backend \in Backend \cup {NoBackend}
    /\ f.asked.limit # 0 => Len(f.items) <= f.asked.limit

TypeOK ==
    /\ world \in [Backend -> Condition] /\ history \subseteq [Backend -> Condition]
    /\ drifts \in 0 .. MaxDrifts /\ signalled \in BOOLEAN
    /\ kind \in Kinds /\ config \in Configuration \cup {<< >>}
    /\ pc \in {"load", "access", "reachable", "installed", "loaded", "write", "batch",
               "wait", "exit", "done"}
    /\ at \in 1 .. Len(Order) + 1
    /\ IsProbe(probe) /\ IsFrame(draft) /\ IsFrame(previous)
    /\ frames \in 0 .. MaxFrames /\ tail \in {"nothing", "frame", "batch", "error"}
    /\ exit \in {0, 1, 3, 4}

Built == pc = "write"

Up(w, b) == w[b].health = "up"

Serves(w, b, m) == Up(w, b) /\ w[b].lists /\ m \in w[b].installed

\* However the backends change between the rounds of a frame, and unless a signal
\* cancels them, what the frame says of each was so at some moment since the frame
\* was begun: of the reachable, the unreachable, the selected, of each model that is
\* listed and each that is not, and of each backend that triage has an item about
\* (buildStatusSnapshot, buildSnapshot, buildDoctorReport, triageFromLiveInputs,
\* inspectModel and the inventory commands).
FrameWitnessed ==
    Built /\ ~signalled /\ kind # "prior" =>
        /\ kind \notin {"models", "loaded", "model", "triage"} =>
             \A b \in Backend : \E w \in history : (b \in draft.survey.reachable) = Up(w, b)
        /\ \A r \in ToSet(draft.routes) :
             /\ \E w \in history : Serves(w, r.backend, r.model)
             /\ r.ready => \E w \in history : r.model \in w[r.backend].loaded
        /\ \A x \in draft.exposed :
             /\ kind # "loaded" => \E w \in history : Serves(w, x[1], x[2])
             /\ x[3] => \E w \in history : Up(w, x[1]) /\ x[2] \in w[x[1]].loaded
        /\ kind \in {"models", "status", "watch", "events"} =>
             \A x \in (Backend \X Name) \ { << y[1], y[2] >> : y \in draft.exposed } :
                 \E w \in history : ~Serves(w, x[1], x[2])
        /\ \A b \in Backend :
             Warn("W_BACKEND_UNREACHABLE", << b >>) \in draft.warnings
             \/ UnreachableItem(b) \in ToSet(draft.items) => \E w \in history : ~Up(w, b)
        /\ \A b \in Backend :
             RefusalItem(b) \in ToSet(draft.items) => \E w \in history : w[b].health = "refusing"

\* A frame agrees with itself: what is routed to is on a backend that it lists as
\* reachable, is exposed there, and ready if and only if it is exposed as loaded;
\* and no reachable backend is warned of as unreachable.
Coherent(f) ==
    /\ \A r \in ToSet(f.routes) :
         /\ r.backend \in f.survey.reachable
         /\ kind # "snapshot" => << r.backend, r.model, r.ready >> \in f.exposed
    /\ \A b \in f.survey.reachable : Warn("W_BACKEND_UNREACHABLE", << b >>) \notin f.warnings

\* Nothing that fails is hidden by filtering, ranking and cutting more than was asked:
\* each backend that does not answer or list, and is asked for, has an item or has lost
\* it to the limit; and where one refuses, the first item is an error.
Thorough(f) ==
    LET failing == { b \in Backend : /\ f.asked.backend \in {NoBackend, b}
                                     /\ ~Up(world, b) \/ ~world[b].lists }
    IN  /\ f.asked.severity = "" =>
             \A b \in failing :
                 \/ \E i \in DOMAIN f.items : f.items[i].backend = b
                 \/ f.asked.limit # 0 /\ Len(f.items) = f.asked.limit
        /\ (\E b \in failing : world[b].health = "refusing") =>
             f.items # << >> /\ f.items[1].severity = "error"

\* Backends that hold still give a frame that agrees with itself, although its rounds
\* probe apart, place and list models by different rules (statusExposedModels,
\* buildStatusRoutes, buildDoctorReport), and a triage that is thorough, although it
\* looks at the backends twice (triageFromLiveInputs, filterTriageItems,
\* sortTriageItems).
StillFrameCoherent ==
    Built /\ ~signalled /\ Cardinality(history) = 1 =>
        Coherent(draft) /\ (draft.probed => Thorough(draft))

\* Where doctor places the models of a task agrees with where the task is routed: the
\* model, whether it is a fallback, and whether it is ready.
AgreesOn(t) ==
    LET d == DoctorRoute(config[t].route, draft.survey)
        r == draft.routes[t]
    IN  d.model = r.model /\ (d.position > 1) = r.fallback /\ d.ready = r.ready

\* The names a task is configured with are the models' own.
Unaliased(cfg) == ({cfg.model} \cup ToSet(cfg.fallback)) \cap DOMAIN cfg.models = {}

\* If the backends hold still, doctor's placements, by the names as they are written,
\* and the routes of the same frame agree on each task that uses no alias, although
\* they come from rounds of their own (firstPlacement, summarizeDoctorRoutes and
\* buildRouteReport).
DoctorAgreesWithRoutes ==
    Built /\ ~signalled /\ Cardinality(history) = 1 /\ kind \in {"status", "watch", "events"} =>
        \A t \in DOMAIN draft.routes : Unaliased(config[t].route) => AgreesOn(t)

\* A reader who knows the first frame and then reads the events alone knows, after
\* each batch or frame without one, what the last frame says of the backends, the
\* warnings and the recommendation, and where each task goes that was in every frame;
\* and whether its model is ready there, unless the readiness of a model that several
\* tasks select has changed (diffStatusSnapshots, and the order of frame, batch and
\* previous = current in runStatusWatch).
EventsTeachFrames ==
    kind = "events" /\ pc \in {"wait", "load"} /\ frames > 0 =>
        /\ replay.global = GlobalSnapshot(previous)
        /\ \A t \in DOMAIN replay.placed :
             LET known == replay.placed[t]
                 told  == Placement(previous, t)
             IN  /\ known.route = told.route /\ known.fallback = told.fallback
                 /\ known.ready = told.ready \/ t \in replay.unsure

\* A command ends for want of a route, of a model or of access only if some task's
\* every candidate was, at some moment of the frame, not served by each backend it may
\* run on, or no backend served the model, or one refused; or if a signal cancelled the
\* probes (buildStatusRoutes, inspectModel, firstFatalBackendReadError).
NoRouteWitnessed ==
    ~signalled =>
        /\ code = "E_NO_ROUTE_AVAILABLE" =>
             \E t \in DOMAIN config :
                 \A i \in DOMAIN Candidates(config[t].route) :
                     LET c == Candidates(config[t].route)[i]
                     IN  \A k \in Places(c) : \E w \in history : ~Serves(w, Order[k], c.model)
        /\ code = "E_UNKNOWN_MODEL" =>
             \A b \in Backend : \E w \in history : ~Serves(w, b, Round.task)
        /\ code = "E_BACKEND_AUTH_FAILED" =>
             \E w \in history, b \in Backend : w[b].health = "refusing"

\* "SIGINT, SIGTERM ... after at least one complete frame exit 0".
SignalExitsCleanly == pc = "done" /\ signalled /\ frames > 0 => exit = 0

\* The stream is one that StatusFeed describes.
Feed == INSTANCE StatusFeed WITH
            status <- IF pc # "done" THEN "running" ELSE IF exit = 0 THEN "ended" ELSE "failed"
FeedSpec == Feed!FeedSpec
=============================================================================
