# A specification of inferctl in TLA+

inferctl is a command line tool: it loads a configuration that names inference
backends and routing tasks, probes the backends, and says which model on which
backend a task would run on. It serves no requests itself. What makes it hard is
that many short-lived invocations share a configuration file and a snapshot
history without any lock, and that each looks at backends that change while it
looks.

The modules here are translated from the Go source. Paths below are relative to
`src/`.

## 1. Inventory

| part | source | state it keeps | operations |
|---|---|---|---|
| snapshot history | `cmd/inferctl/snapshot_store.go`, `snapshot.go`, `diff.go` | one JSON file per snapshot in a directory per task | `snapshot --store` (store, prune), `diff --since` (list, select) |
| config mutation | `cmd/inferctl/config_write.go`, `internal/config/atomic.go` | the configuration file, temporary files | `config init`, `config set`, `config patch` |
| config loading | `internal/config/loader.go`, `provenance.go`, `fingerprint.go` | none; reads a file and the environment | search order, decode, defaults, environment, flags, provenance |
| config validation, credentials | `internal/config/validate.go`, `credential.go`, `models.go` | none | `Validate`, the model catalogue, credential references |
| routing | `cmd/inferctl/route.go`, `pkg/inferctl/router.go` | what the probes of one command found | probe, evaluate, select |
| preflight | `cmd/inferctl/preflight.go` | as routing | routing, then a policy, then an execution handoff |
| backend inventory | `cmd/inferctl/list.go`, `internal/backends/*` | none; HTTP clients | reachable, installed, loaded |
| snapshot capture and classification | `cmd/inferctl/readiness_contract.go`, `diff.go` | a captured state | capture, classify and rank the changes between two |
| status and its watch stream | `cmd/inferctl/status.go` | the previous frame | one frame, or a frame and an event batch per tick until a signal |
| dashboard | `cmd/inferctl/dashboard.go` | Bubble Tea model, a child `status --watch` and its pipe | start the feed, read a record, quit |
| discover | `cmd/inferctl/discover.go` | none, or the artefact it delivers | probe ports, build a config patch |
| doctor | `cmd/inferctl/doctor.go` | none | probe, placement of each task's models, suggested commands |
| triage | `cmd/inferctl/triage.go` | none | filter and rank findings |
| config inspection | `cmd/inferctl/config.go`, `config_explain.go` | none | show, validate, explain |
| command shell | `cmd/inferctl/main.go`, `deterministic.go`, `internal/errors` | none | dispatch, removed verbs, exit codes |
| envelope and rendering | `internal/envelope`, `internal/render` | none | JSON and human output |
| schema, capabilities, version | `cmd/inferctl/schema.go`, `robot_docs.go`, `internal/contract` | static | print |
| generators, test server | `internal/contract/schemagen`, `internal/testserver` | tools | development only |

How they interact:

- every command loads the configuration file that `init`, `set` and `patch`
  replace; the only thing between a reader and a writer is the atomicity of
  `rename`;
- route, preflight, status, doctor, snapshot and the dashboard's child all probe
  the same backends, each with its own requests, and most of them more than once
  per command (an access check first, then reachability, installed and loaded
  models);
- `diff --since` reads what any number of `snapshot --store` invocations write
  and prune in the meantime;
- the dashboard is a consumer of `status --json --watch`: a child process whose
  stdout it reads record by record while key presses arrive as messages.

What is hard about each, and what would make it correct:

| part | hard behaviour | properties |
|---|---|---|
| snapshot history | concurrent stores and prunes, each acting on an old listing; name probing by `Stat` before `WriteFile`; kills and failed calls in between; ordering by timestamp text | no snapshot leaves the newest `limit`; finished snapshots are not overwritten; the history is bounded; a baseline misses no finished snapshot; commands end |
| config mutation | unlocked read-edit-replace; kills and power failures between write, sync and rename; texts edited by lines that a parser then reads | readers see whole validated texts; an edit is lost only to an overlap, to `--force` or to an `init` that could not see the file; no temporary file is left by an error; an edit by lines changes the keys it names, to the values given, and nothing else |
| routing, preflight | backends change between the probes of one command; a failed listing is an empty one; policy applied after selection | what is chosen was served; what is passed over was not; in a still world the preferred candidate is chosen; the policy agrees with a selection under it |
| config loading | file checked and then read; environment overriding, after what an edit was validated without | what was accepted when written loads and validates later; the layer shown for a value is the one it comes from |
| config validation, credentials | checks over Go maps, in random order; credential rules written twice | the verdict on a file stays the same (it does not, with three aliases: section 5); what validates can be used when the world has its credentials, and where not, the file alone says why |
| status watch | several rounds of probes per frame; signals in mid-frame; ticks | a frame agrees with itself; events explain the difference of frames, as far as they can be told apart; a signal ends cleanly |
| dashboard | messages racing with quit; two waits for one child | no child outlives the dashboard; what the child writes comes to be shown; `q` ends it |
| discover | servers that come and go between probes; a patch written without the file it will be applied to | the patch is accepted by a valid file exactly when its default fits there |
| inventory, doctor, triage | partial failure; two different ideas of placement; filter, rank and cut | what is listed was there; if nothing changes, doctor places a task that uses no alias where it is routed; one failure does not hide the rest |

`PROJECT.json` lists every component with its status and every hazard at the
line where it bites.

## 2. Modules

| module | what it is | models |
|---|---|---|
| `RetainedLog` | abstract: a set of entries of which the newest `Keep` are never dropped | the promise of snapshot retention |
| `SnapshotStore` | detailed: concurrent `snapshot --store` and `diff --since`, one action per system call | `snapshot_store.go` |
| `MCSnapshotStore`, `SnapshotStoreProofs` | instances for TLC; proofs | |
| `AtomicRegister` | abstract: a value that changes whole, survives a power failure | the promise of `AtomicWriteFile` |
| `ConfigFile` | detailed: concurrent `init`, `set`, `patch`, with kills and power failures | `config_write.go`, `atomic.go` |
| `MCConfigFile`, `ConfigFileProofs` | instances for TLC; proofs | |
| `RouteSelection` | pure: candidates, evaluation, selection, the handoff's search | `route.go` 247-309, `router.go`, `executionHandoff` |
| `RouteCommand` | one `route` or `preflight` invocation, one action per probe, while the backends change | `route.go`, `preflight.go`, `list.go` |
| `MCRouteCommand`, `RouteProofs` | instances for TLC; proofs | |
| `ChangeClassifier` | pure: the changes between two captured states, their ranks, and their application | `readiness_contract.go` 174-379 |
| `DiffCommand`, `MCDiffCommand` | one `diff` over two files, or a stored snapshot and the state of now | `diff.go` |
| `ChangeProofs`, `DiffCommandProofs` | lemmas about changes, ranks and lists, used for `diff` and for `status`; proofs about `DiffCommand` | |
| `ConfigText` | pure: a configuration as lines, what TOML reads in them, one edit by lines, a patch as edits | `config_write.go` 246-408, `KeyPositions` |
| `ConfigCheck` | pure: the schema, loading with defaults, environment and provenance; the findings of validation; credential resolution | `loader.go`, `provenance.go`, `schema.go`, `validate.go`, `credential.go`, `configuredBackends` |
| `Setup`, `MCSetup` | a session of `discover`, `config init`, `set`, `patch`, `validate`, `show` and of a command that uses the configuration, while files are edited by hand and servers change; composes the two above | `discover.go`, `config_write.go`, `config.go`, `loader.go` |
| `SetupProofs` | proofs about `Setup` | |
| `DoctorReport` | pure: doctor's placements, warnings and recommendation, over `RouteSelection` | `doctor.go` 111-346 |
| `Triage` | pure: the items made of errors, findings and warnings; filter, rank, cut; the commands | `triage.go` |
| `Survey`, `MCSurvey` | one `backends`, `models`, `model`, `doctor`, `triage`, `snapshot`, `status`, `status --watch` or `--events`, one action per request, while backends and configuration change and signals arrive; composes `RouteSelection`, `DoctorReport`, `Triage` and `ChangeClassifier` | `list.go`, `doctor.go`, `triage.go`, `snapshot.go`, `status.go` |
| `SurveyProofs` | proofs about `Survey` | |
| `StatusFeed` | abstract: the order of frames, batches, errors and the end of a stream | what the reader of `status --watch --events` relies on |
| `Dashboard`, `MCDashboard` | the dashboard's event loop and goroutines over a child that behaves as `StatusFeed` | `dashboard.go` |
| `DashboardProofs` | proofs about `Dashboard` | |

### Snapshot history

Each element of `Proc` is an invocation. `pc` is where it is, or the result it
ended with; `path` is the name a store is probing or writing; `toRead`, `found`
and `victims` are the local variables of `listStoredSnapshots` and
`pruneSnapshotStore`; `store` is the directory tree, mapping a file name (task
directory, captured time, suffix) to who wrote it. The actions of a store are, in
the order of the code: `BeginStore` (limit check, mkdir), `StatName` (the loop
over suffixes, in which every `Stat` error other than "does not exist" means
"taken"), `CreateFile` and `WriteFile` (the two halves of `os.WriteFile`, with
`open` saying whether the descriptor still belongs to the name), `ReadDir`,
`ReadEntry` (entries in name order, one read each), `PlanPrune` (sort and cut),
`RemoveOldest` (one `Remove` each; a file that is gone ends the command).
`BeginSince`, the same listing, and `SelectBaseline` are `diff --since`.
`IOError` fails any call, `Crash` kills between any two, `Tick` moves the clock.

A timestamp is a number with two fractional digits; `StampRank` gives the
position its RFC3339Nano text has among the others, trailing zeros dropped, which
is what the code sorts by.

### Config mutation

`target` is the file, `durable` what a power failure would leave, `temp` the
temporary file of each invocation, `draft` what it will write. A file records
whose edits its text is built on (`edits`) and whether its data reached the device
(`synced`). `BeginInit` refuses a file that it sees without `--force`; its `Stat` may
fail for a reason other than absence, which the code takes for absence (`blind`).
`Resolve` is the load that finds the file, `ReadConfig` everything
between the second read and the write (edit, validate, `--dry-run`); `CreateTemp`,
`WriteTemp`, `SyncTemp`, `RenameTemp` are `AtomicWriteFile`, `RemoveTemp` its
deferred cleanup. `Flush` and `PowerLoss` are the file system: the directory entry
may reach the device at any time after the rename, and data not synced is lost.
Here an edit of a text is setting keys; that the edit by lines comes to
that is what `Setup` is for.

### Setting up

A text (`ConfigText`) is its lines, each a header, an assignment, a blank or
garbage, with or without a comment, and whether the last one ends in a newline. It
is looked at in two ways: as TOML reads it (`WellFormed`, `Values`, `Keys`,
`Tables`), and as `applyConfigEdit` edits it, which searches for a header, a key
below it and the next header. A line glued to another keeps its key, which is what the
key's pattern matches, with a value that is none (`Junk`): TOML refuses the text, and a
later edit of that key replaces all of it. A value is a type and a datum. What a regexp
template makes of a value whose text holds a `$` depends on the line it is put on and
on whether that line ends in a newline (`Expansion`): another value of its type, a text
that is no value, or two lines in place of one.

A loaded configuration (`ConfigCheck`) is three functions and sets: `value` (key
to value), `mentioned` (the keys and tables of the file, which is what
`KeyPositions` keeps) and `source` (key to layer). `Loaded` is the order of
`LoadBytes`: file, provenance of the file, defaults, provenance of defaults,
environment. `Findings` is the set `Validate` collects; `FirstVisits` enumerates the
orders of the catalogue's map as far as they matter. `Judgements` is
`validateConfigBytes`, in an empty environment. `ResolveCredential` and
`BackendErrors` are what a command does with the result.

`Setup` is a session: a user's commands one after the other (`script`), each made
of its steps. `Stat` tries one candidate of the search order, `Read` is the load and
what `validate`, `show` or a command that uses the configuration does with it;
`BeginSet` and `BeginPatch` make the edits, `Mutate` reads the file again, edits and
validates it, and `Write` replaces it, previews it or fails (`ConfigFile` has the
system calls). `ProbeVersion` and `ProbeModels` are the two requests of
`discover` to one port, `Deliver` writes the patch, which a later `config patch` may
be given. `HandEdit` and `ServerDrift` change a file or a server between any two
steps. `verdicts`, what was said of each place's text as it is, is read by properties
only.

### Route and preflight

`world` is what the backends would answer, `history` all the worlds there have
been since the command began (read by properties alone), `seen` what the command's
probes found, `at` the backend it is at. `BeginRoute` and `BeginPreflight` are
everything before the first request, including each refusal with its exit code;
`CheckAccess` is `firstFatalBackendReadError`; `ProbeReachable`, `ProbeInstalled`
and `ProbeLoaded` are the three requests of `probeRouteBackends`; `SelectRoute` is
the rest, which makes no request. `Drift` changes one backend between any two
requests. Selection itself is in `RouteSelection` as functions of what was seen.
A `refusing` backend is one that rejects the credential (or whose remote endpoint
is not allowed); only these end a command, and only in the access check.

### Changes and diff

A captured state is a record of what the classifier compares: the selected route,
whether it is a fallback and ready, the reachability of each configured backend,
sets of warning and error codes, the recommended action, two counts.
`Changes(a, b)` maps each change, a type and a subject, to its two values and
severity; `SortKeys` and `Ranks` are the two sorts that give the ranks.
Names, codes and tasks come in the order `SubjectOrder`, which stands for the byte
order of strings. `Apply` is not code: it is what a reader of the changes can
conclude, and `ChangesExplain` says that this is the later state. `DiffCommand` has
one action per step that can fail: flags, the two files, the comparison.

### Inventory, doctor, triage, snapshot and status

`Survey` is one invocation of one of these commands or of `backends`, `models`,
`model` and `triage`. A frame is made from the rounds in `plan`: `doctor`'s (whole
inventory), one `route` per task, and `exposed` for status; `state` and `route` for
a snapshot; a round of their own for the inventory commands, which differ in what
they ask first (`Entry`), in whether a refusal ends them, and in whether a failed
listing drops the backend. Triage goes on where the others end: a load that fails
(`LoadFails`) and a refused access check become items, which `EndRound` joins with
doctor's warnings, filters, ranks and cuts (`Triaged`). `ReadPrior` is
`triage --input-file`, which probes nothing. `Load` begins a frame and loads the
configuration again; `CheckAccess` is `firstFatalBackendReadError`;
`ProbeReachable`, `ProbeInstalled` and `ProbeLoaded` are the requests of a round
to the backend `at`; `EndRound` does what the code does with the round's answers
and moves to the next one; `WriteFrame`, `WriteBatch`, `Ticks`, `Stops` and
`Exit` are the loop of `runStatusWatch`. An event is a kind, a subject and two values,
which is all that a line of the stream has: a change of readiness is about a model, not
about a task, and a task that comes or goes is no event (`EventsOf`). `Taught` is what a
reader can conclude from that. `Drift` changes a backend and `Signal`
cancels the context between any two. `history`, the worlds since the frame was
begun, and `replay`, what a reader of events alone knows, are read by properties
only. The backends of the configuration are the same in every load; its tasks vary.

### Dashboard

`program` is where the event loop is; `command` the goroutine that Bubble Tea runs
for the model's last command (there is one at a time: starting, reading, waiting
for or stopping the feed, or a message to deliver); `feed`, `shown` and `err` are the
model. The child's state is that of `StatusFeed`, whose actions are its steps, so
the dashboard is checked against every child that keeps that contract, and
`Survey`'s run shows that `status` does. A quit, a signal and a message under way
are delivered by `Quit`, `Reap`, `Started` and `Record` in the order in which the
channel can yield them. `open` says whether the pipe can still be read: a child that
writes to a closed one is killed (`ChildBreaks`).

## 3. Runs

| run | shows |
|---|---|
| `snapshot_safety` | three concurrent invocations over one task that keep two snapshots: retention (`StoredOrSuperseded`, and the refinement of `RetainedLog`), the bound on the history, and a finished snapshot is neither overwritten by a later store (`FinishedStoreNotClobbered`) nor missed by a later `diff --since` (`BaselineIsNewestFinished`) |
| `snapshot_liveness` | every command ends, except a store in a directory where `Stat` fails, whose loop does not |
| `snapshot_time_order` (violated) | the prune drops the newer of two snapshots: "...00Z" sorts after "...00.01Z" |
| `config` | two concurrent commands, failing calls, kills, one power failure: `AtomicRegister` is refined, temporaries are removed, an edit is lost only to an overlapping one or to an `init` that was forced or could not see the file, and any other `init` overwrites only newcomers |
| `route_drift` | route and preflight over two backends that change twice: the decision and the refusals are witnessed by worlds of the command; in a still world the choice is the preferred one; policy and handoff agree with the selection |
| `setup` | sessions of up to three commands over ten kinds of files and three environments: in the text about to be written each edited key has its last value and all else is kept (`EditTakesEffect`); what was accepted loads and passes `config validate` until someone else changes it (`AcceptedStaysValid`); `config show` names the right layers (`ProvenanceTrue`); what validates can be used if and only if the world has the credentials it refers to and the file has neither of the two things that validation overlooks (`UsableWhenProvided`); a discovered patch is accepted by a valid file exactly when its default fits (`DiscoveredPatchFits`). Where a property names exceptions, they are the disagreements of the next run and of section 5 |
| `set_sets` (violated) | `config set` of a value with a `$` writes another value |
| `diff_changes` | all pairs of a set of captures that varies in everything compared: the changes rebuild the later state; ranks are total and by domain; human output leaves none out |
| `survey_frame` | one frame of `backends`, `models`, `model`, `doctor`, `triage`, `snapshot` or `status`, with their `--fast`, `--loaded` and `--input-file`: each statement, and each refusal, was so while the frame was built (`FrameWitnessed`, `NoRouteWitnessed`); backends that hold still give a frame that agrees with itself although its rounds place and list models by different rules, and a triage that loses no failing backend but to the limit asked for (`StillFrameCoherent`); and in it doctor places each task that uses no alias where it is routed (`DoctorAgreesWithRoutes`) |
| `survey_stream` | three frames of `status --watch --events` with changing backends and tasks and a signal: the events alone teach what the frames say of all but the tasks, of where each task goes that was in every frame, and of its readiness unless a model that several tasks select changed (`EventsTeachFrames`); and the stream implements `StatusFeed` |
| `survey_signal` (violated) | a signal in the middle of a later frame makes the watch exit 4 |
| `dashboard` | what is shown is a prefix of the stream, and every record comes to be shown unless somebody or an error ends the dashboard (`RecordsAreShown`); the dashboard ends for a reason; the child outlives it only in the cases listed and not for ever; `q` ends it |

The type invariants of `RouteCommand` and `DiffCommand` are proved and not run: TLC would
add nothing to their other properties. The violated ones state what a document says and
the counterexample is what the code does; `PROJECT.json` quotes the lines under
"findings".

### Bounds, and why they are enough

- Invocations: 3 in `snapshot_safety`, whose properties relate two that race and
  one that came before or after, 2 elsewhere (an edit that follows another's end
  needs two). Invocations are interchangeable, so `Proc` is declared symmetric in
  the safety runs; not in the liveness run, where symmetry is unsound.
- Retention limits: 2 with three stores, so that a prune has one to drop and two
  finished snapshots can be there for the third invocation to meet; 0 (rejected),
  1 and 2 in the liveness run. `Keep` is the smallest accepted.
- `MaxTime` 1 with base-2 fractional digits: time 0 is a whole second, time 1 a
  fraction after it, the smallest clock on which text order and time order differ;
  two stores can also share a timestamp. `MaxIdx` 2 is as many suffixed names as
  three invocations can need; 3 in the smaller runs.
- Config keys: two defaults of which exactly one must be set, and one key
  independent of them: single edits that are invalid, edits that are valid alone
  and not together, and edits that never interfere. `MaxOutages` 1: a second
  power failure starts from a state like the first one's.
- Setup: six scripts of two or three commands, enough for a text to be discovered for,
  written, edited and judged (a patch of several keys edits several times); ten kinds of
  files, of which each has a hazard (a last comment, a last line of white space and a
  last key without newline, credentials of the three sources, one with a line break, a
  zero timeout, a known server, a server known as another kind with a credential of its
  own, three aliases of one target, a dotted key that makes a table); nine arguments and
  eight fragments, valid and not, with `$` in a value that makes another value, no value or two lines;
  three environments (empty; an unknown mode and another default backend; a file
  selected by name, a mode and an empty secret). One change from outside: the second
  would fall into a later command, which begins with a load anyway. Texts have up to
  about twenty lines.
- Diff: two routes, readiness, three sets of statuses (a backend that answers, one
  that does not with and without a reason, one that is not configured), two sets of
  warnings and of errors, two counts; each change type occurs in both directions.
- Survey: two backends in five conditions, at first alike or one of them serving every
  model; two models and an alias, at most two tasks that differ in having a backend, an
  alias and a fallback; two changes, enough for a backend to go and come back between
  two rounds, and for any two conditions; triage with and without each filter and a
  limit of one; one frame where all commands are compared, three in the stream, since
  what an event is told against shows only from the third.
- Dashboard: three frames, batches of one or two events, and room for three events
  where the code has eight: a batch can fill, overflow and shift the list.
- Route: two backends, two models, two aliases; three tasks (alias before direct
  names, a direct name before an alias of the same model elsewhere, a primary
  without backend); six conditions of a backend, among them "lists nothing" (a
  failing listing), "down" and "refusing"; `MaxDrifts` 2, enough to make a backend
  change and change back between its probes, or two backends to change once.

### Fairness

`SnapshotStore!FairSpec` assumes weak fairness of `Step(p)` for each invocation:
a process that has started and can take its next system call takes it. The code
has no lock and no channel on this path, so nothing more is needed, and it is not
assumed that commands start, that the clock moves, or that calls fail or processes
die.

`Dashboard!FairSpec` assumes weak fairness of its goroutines (`Command`) and of the
event loop (`Loop`); strong fairness of `Quit`, because messages wait in a Go
channel whose blocked senders are served first come first served, so a quit is not
overtaken for ever by records, although each record disables its delivery for a
moment; weak fairness of `ChildBreaks`, because the child writes at every interval
and so meets a closed pipe; and that a child that has written an error ends. It is
not assumed that the child writes, that keys are pressed or that signals come.

The other specifications state no fairness, and no liveness is claimed for them: route,
preflight, diff, setting up, the inventory commands, doctor, triage and snapshot are
sequences of steps without a loop that another process could feed. That a watch ends
after a signal would need the assumption that each HTTP request returns, and the
clients' timeouts are not modelled.

Deadlock is not checked where every invocation may have ended, which is the
normal end of each model.

## 4. Proofs

The proofs hold for any number of invocations, backends, tasks, times, keys, values,
frames and events, under the named assumptions next to the constants. Those are about
types and sentinels, plus:

- the directories are finitely many, `Keep` is at least 1 and no accepted limit is
  below it (`LimitAssumption`);
- the scaffold is a valid text (`ConfigAssumption`);
- the list of backends has each exactly once, which is what sorting the keys of a Go
  map gives (`OrderAssumption`);
- what changes and items are about can be sorted as strings: `SubjectOrder` has every
  name, code and task (`SubjectAssumption`, `NamesAssumption`);
- a captured state is a record of finite parts in which each listed backend has a
  status that is not empty (`CaptureAssumption`, `IsState`). `reachabilitySet` writes
  "reachable", or "unreachable" with or without a reason, and never nothing;
- each port that is asked has a URL, which is one, and no URL, variable name or text with
  a line break is blank; the texts a user begins with or writes, the arguments and the
  fragments are made of lines, paths and values (`SetupAssumption`, `StringAssumption`);
- `String` has the words that the program itself writes, and a template makes of a
  value one of the same type, a text that is none, or two lines, the last only on a line
  that ends in a newline (`WordAssumption`, `ExpansionAssumption`). That TOML reads
  nothing in two such lines holds of strings without quotation marks and `#`;
- a frame and a batch are bounded (`DashboardAssumption`), a configuration is a
  sequence of tasks over the known backends and names (`SurveyAssumption`).

`SnapshotStoreProofs`: `TypeCorrect`, `RetentionHolds`, `RetentionRefined`,
`NotClobbered`, `BaselineChosen`, `QuiescentBounded`. The invariant behind the first
three is `RetentionInv`. `StoredOrSuperseded` alone is not inductive, since a prune acts
on what it listed long ago; what makes it so is that everything any invocation holds
from a listing stays `Safe` (there, or outnumbered by `Keep` newer files) however stale
the listing, and that a victim always has `Keep` files after it. Removing a victim keeps
every other file `Safe` because whatever the victim came after, its `Keep` successors
come after too. `BaselineChosen` rests on `ListingComplete`: a file that was finished
before the listing began is read, yet to be read, or gone, and only gone files can be
missed, since a finished file's content is never replaced (`FreshName`).
`QuiescentBounded` rests on `LastListerAccounts`: of the stores into a directory, one
that has listed last accounts for every file there (`Accounts`), as something it will
remove or as one of the newest it keeps. That the newest `limit` of a listing are not
more than `limit` needs the order of file names to be total, hence that two times
have different ranks (`StampRankInjective`): their text differs somewhere.

`ConfigFileProofs`: `TypeCorrect`, `TempsRemoved`, `RegisterRefined`,
`EditsSurvive`, `InitKeepsFiles`. `FileInv` says what the order of
`AtomicWriteFile` buys: what is about to be renamed is whole, is what was drafted
and is on the device. `EditInv` adds why edits survive: whoever began after an
invocation had ended, and read the file after that, holds its edit in its draft. An
`init` holds no edit, so it takes part as one that was refused unless there was no file,
was forced, or could not see the file; the last two are exceptions of both theorems, and
section 5 says what the last can do.

`RouteProofs`: `TypeCorrect`, `DecisionSound`, `RefusalSound`, `HandoffSound`,
`PolicyAgrees`, `StableBest`. `ProbeInv` relates `seen` to `history`: what is seen
was so in some world, and what an examined backend was not seen to serve it did
not serve in some world. Selection is a function of `seen`, so what it takes and
what it passes over become facts about worlds; with no change there is one world,
and the facts become the claim that the preferred candidate is chosen.

`DiffCommandProofs`: `TypeCorrect`, `RanksTotal`, `HumanComplete`, `ChangesSuffice`,
over the lemmas of `ChangeProofs`. The keys of two changes differ (`KeysDiffer`): two
changes of one type have different subjects, and types that share a rank are told apart
by severity or by the order of the two counts. A strict and complete order numbers a
finite set 1, 2, ... (`Numbered`), so ranks have neither gaps nor ties; a sequence made
from such a numbering holds each element once (`ByRank`, `EntriesAre`, `Lists`), and so
do the groups of `writeDiffHuman`, because each type is in exactly one. `ApplyExplains`
goes through the kinds of change one by one.

`SurveyProofs`: `TypeCorrect`, `FeedRefined`, `EventsTaught`, `RefusalsJustified`,
`FrameTold`, `StillFramesCohere`.

- `StreamInv` is the order of frames, batches and ends, and gives the refinement.
- `TypeInv` has three parts that need each other: the worlds (`WorldInv`), the place in
  the rounds (`PlaceInv`: which rounds are to come depends on the command and on the
  tasks that were loaded) and the frames (`FramesInv`).
- `EventsInv` says what the reader of events knows of the previous frame. Of the whole it
  is everything, by `ApplyExplains` as in `diff` (`GlobalTold`), because the global
  changes can be told from those of the tasks by their kinds. Where a task goes is told
  by its name (`PlacementTold`). Its readiness is told by the model it selects
  (`ReadinessTold`), and so it is known as long as no change of readiness was of a model
  that several tasks select (`unsure`).
- `ProbeInv` says what the requests so far have taught of each backend, by the place in
  the round: which of the three questions it has been asked, and what an answer, a
  failed listing or silence says of the world that was met. A change of the world takes
  nothing back, because facts are about the worlds since the frame was begun. A finished
  round has learned all of every backend (`RoundLearned`), which is why a command that
  ends without a route had a reason (`NoRouteInv`).
- `FrameInv` carries each part of a frame from the round that made it to the end of the
  frame, through rounds that may see other worlds. With one world in `history`, what was
  so is what is so, and two parts of a frame cannot disagree.
- for triage, `RefusalsInv` and `ThoroughInv` follow a failing backend to its item: from
  the access check, or from a finding of the round (`DoctorItemsAre`), through sorting,
  which puts an error first and loses nothing (`SortedItemsAre`), to the cut
  (`TriagedIs`). `BareInv` says which commands have nothing in a part of the frame.

`DashboardProofs`: `TypeCorrect`, `EndHasReason`, `ChildStopped`, `ViewIsPrefix`.
`EndInv` says what must be so for a quit to be under way and for the loop to be past it:
there was a key, a signal, an error or an end of the child; and once a `q` has found a
child to stop, the child stays stopped. `ViewInv` counts: what is shown is the view of
all records read, or of all but the last while its message is under way (`ShownUpTo`),
which needs that there is one read at a time. That one more record adds its events at
the end, within the limit, is a fact about `FlattenSeq`.

`SetupProofs`: `SetupTyped`, `EditsHold`, `AcceptedHolds`, `ProvenanceHolds`,
`UsesHold`, for any texts, edits, arguments, servers and environments. The last three
are not about how a text came to be: `VerdictInv` says that what was said of a text is
true of it as it is, and that a text about to be written was accepted; every step keeps
that, since a file changes together with what is said of it. What is left are facts
about one text.

- `EnvironmentIsHarmless`: a text that validates in the empty environment validates in
  each whose mode is a mode, unless its catalogue is judged by the order of a map. The
  environment moves the default flag, so there is still exactly one default
  (`DefaultBackendsOf`), and nothing else that validation reads can differ (`AlikeRead`).
- `ScaffoldAccepted`: what `config init` writes validates. Its nineteen lines are
  gone through: the paths of its keys, that they are different and of the schema, what
  is loaded of them, and that no finding applies. For `ConfigFile`, whose texts are sets
  of keys, the same is the assumption `ConfigAssumption`.
- `PlainProvenance` and `LoadedIs`: the three layers of a loaded configuration, value by
  value, with the source that each is marked with.
- `ShapeIsValidated`: each way in which the shape of a credential prevents its use is an
  error of validation, but for a line break in a literal. With it and what the file says
  of remote servers, `ReadyWhenProvided` has each backend ready where the world has its
  credential, and `UsesHold` is both directions of this for all backends at once.

`EditsHold` is about how a text came to be. `DraftInv` says that the text about to be
written is the text read with the edits applied, and `VerdictInv` that it is one that TOML
reads. From there the argument goes over the edits one by one:

- `EditIs` is what `applyConfigEdit` can do to the lines: replace a value, insert a
  line, append a table, or, at an end without newline, fill a blank line, be swallowed
  by a comment, or spoil the last line, which is then garbage or its key with no value.
  It needs no more than the least header of the name and the next header below it
  (`RangeIs`).
- `Carries` relates the lines of the text before and after: each has a place there, in
  the same order and in the same table. `CarriedClean` takes back from the edited text to
  the one before that no header and no key is there twice (`Clean`), so that all texts on
  the way to an accepted one are like that (`RunClean`), although none but the last was
  validated; and without that the edit by lines would not be one of keys, since it finds
  the first header only.
- `EditEffect` says what one edit of such a text does to its keys: it changes one
  (`Changes`), adds one (`Adds`) or loses one (`Loses`), and all others keep their values,
  but for that of a last line that was spoiled. A key without a value stays so until it is
  edited (`JunkStays`); as the written text was accepted, it was.
- `Comes` is the induction over the edits: the keys not edited are as they were, the last
  edit of a key counts, an open end stays the same open end and until then nothing is
  lost. So at most one key is lost, the first that is put at that end: to its comment, or
  to the value of its key if that is edited later (`Swallowed`).
- `Part` is what is left of the first lines when edited keys are left out; each edit
  extends it (`EditKeeps`), which is why comments and order are kept.

`SetupTyped` rests on the same cases (`EditTyped`).

`FlattenSeq` is a recursive function, and so induction over it is needed. The library's
induction theorems take an operator as a parameter, which the provers cannot
instantiate; `NaturalInduction` is stated of sets instead (a set with 0 and each
successor has every number) and takes the set of the lengths for which the claim holds.
The lemmas are where they are used, in `DashboardProofs`, `SurveyProofs` and
`SetupProofs`. `SelectSeq` and `FoldLeft` cannot be treated like that, because the one's
definition is out of the prover's sight and the other takes an operator; the filters of
`diff` and triage are therefore `EntriesAt`, the entries at some places in their order,
those of `Setup` are flattened from nothing or one for each line, and `ApplyEdits` is a
recursive function, which its induction follows (`Runs`).

Only model-checked:

- `CommandsTerminate`, `QuitEnds`, `RecordsAreShown` and `ChildEndsWithDashboard`:
  liveness under fairness, and `ENABLED`, are outside the prover's reach;
- `DiscoveredPatchFits` of `Setup`: that a text is accepted after three edits of one
  table needs, the other way round than `EditsHold`, that the edited text is well-formed,
  and then that no finding of validation but two depends on them;
- `DoctorAgreesWithRoutes` of `Survey`;
- the violated properties, which are false.

None of the modules declares a `RECURSIVE` operator.

## 5. Disagreements met, without a run

Where the code does something else than a document says, or than one would expect, and
no run above has it for its counterexample: because a property that holds says where it
is so, because the state it needs is left out, or because the fact is plain once the two
are side by side:

- what says why a fallback was taken is always "because primary '...' is unavailable",
  also when the primary is up and lacks a required capability (`route.go` 169;
  `docs/errors.md` 74 has a reason there);
- tasks `a/b` and `a-b` share a snapshot directory, which is pruned and listed without
  regard to the task (`snapshot_store.go` 230; `docs/agent-guide.md` 173 says "per
  task");
- `config init` without `--force` takes any `Stat` error for absence, so that it can
  replace a file that it could not see, and with it edits that had long ended
  (`config_write.go` 75; 98 documents `--force` as "overwrite an existing file"; `blind`
  in `ConfigFile`, excepted by `Unguarded`);
- a key that an edit adds to the last table of a file that does not end in a newline
  becomes part of the last line, and success is reported where that is a comment, or
  where a later edit of the same patch replaces the rest of that line: `default = true`
  at the end, patched with `timeout_ms` and then `default`, ends without `timeout_ms`
  (`config_write.go` 359; `docs/verbs.md` 380 says "merge"; `Swallowed` in `Setup`);
- `config validate` can accept and refuse one and the same file: of three aliases of
  one target of which two disagree on a capability and the third does not mention it,
  the disagreement is found unless the third comes first in Go's map order
  (`validate.go` 157; `docs/verbs.md` 427 calls what follows from validation
  "deterministic"; `Undecided` in `Setup`);
- a zero in the file, such as `timeout_ms = 0`, is replaced by the default and shown
  with provenance "file" (`loader.go` 193; `docs/verbs.md` 255 promises "per-key
  provenance"; `ProvenanceTrue` says which values these are);
- a status frame in which a task has appeared or disappeared has no event batch if
  nothing else changed (`status.go` 266; `status.go` 109 says "after changed frames");
- doctor looks for a task's models by the names that are written, also when one is an
  alias, and so warns, next to a route to the alias's model, that the task was routed to
  a fallback (`doctor.go` 242; `docs/errors.md` 74; `Unaliased` in `Survey`);
- a remote server that is not allowed, and a literal credential with a line break, pass
  validation and are refused whenever they are used (`list.go` 253, `credential.go` 65,
  104; `Overlooked` in `Setup`, which no document denies);
- a change of readiness in the watch stream names the model that is selected and not the
  task, so that of two tasks that select one model nobody can tell whose it is
  (`status.go` 200, `readiness_contract.go` 178; `unsure` in `Survey`);
- an empty `kind` or `base_url` passes validation, and the backend is used as ollama
  (`validate.go` 59; `list.go` 327);
- the patch of a discovered server makes it the default, or says it is not, whatever
  the file has: next to another default backend, the patch of `discover --kind` is
  refused (`discover.go` 267); two servers of one kind give two tables of one name,
  which is no TOML (`discover.go` 278);
- a server that refuses authentication ends the whole discovery (`discover.go` 169, which
  a test expects);
- triage's filters and limit do not apply to the commands of doctor, so that the
  recommended action can be about a backend that was not asked for (`triage.go` 120);
- the fallback chain that `model` reports is that of whichever task comes last in a Go
  map (`list.go` 397);
- one status frame can list a backend as unreachable and route to it, since each
  round probes anew (`status.go` 284-345; `.beads/issues.jsonl` 24 asks for a
  "coherent" feed). `StillFrameCoherent` is the part of this that does hold;
- `W_MODEL_NOT_INSTALLED` is told of a model that another reachable backend has, and
  by `doctor --fast`, which lists none, of every primary (`doctor.go` 126, 210;
  `docs/errors.md` 75 says "not present on any reachable backend");
- the dashboard exits 0 although its feed failed: the error stays in the final model
  that `Run` returns and the command drops (`dashboard.go` 50; `main.go` 118);
- `E_ROUTE_REQUIREMENTS_UNSATISFIED` is reported when a candidate has the evidence
  and its backend is down (`router.go` 39; `docs/preparation-contract.md` 41);
- `route` can exit 5 (`docs/verbs.md` 104 lists 0, 1, 3, 4), and `preflight` exits 5
  for `E_NO_ROUTE_AVAILABLE` (`docs/errors.md` 52 lists exit 4, retryable);
- human `diff` output prints the inventory before warnings, errors and the
  recommendation, an order that the ranks do not have, and one model in place of
  another is no change, since only their numbers are compared
  (`diff.go` 205, `readiness_contract.go` 183; `.beads/issues.jsonl` 90).

## 6. What is not modelled

- The text of snapshots and of output: contents are abstracted to who wrote them.
- Of configuration texts: multi-line strings and arrays, inline tables, quoted or
  dotted names in headers, headers spelled with spaces, a `#` inside a string, and the
  writing of a string with escapes. `set` and `patch` treat them by their lines, as
  they treat everything; the model's lines are those that both readings agree on, and
  a dotted key.
- Redaction, the configuration's fingerprint, `config explain`, selectors of
  `config show`, suggestions for unknown keys; flag overrides, which no command passes
  to the loader; `%APPDATA%`; the legacy `auth_header_value` as a working credential.
- `--filter`, `--kind` and `--backend` of the inventory commands, `models
  --installed=false`, the routing summary of `model`.
- The HTTP clients and their timeouts: a probe returns one of the outcomes its
  caller distinguishes.
- File-system failures of the clean-up itself: removing one's own temporary file
  is taken to work.
- `route`'s prompt statistics and context warnings; `--prefer`, which is validated
  and then not used.
- A change of the set of backends between two loads of a watch, `doctor --backend`,
  and the system block of doctor; signals to commands other than a watch, which
  kill them without a trace.
- The capacity of the dashboard's pipe and a torn last line: a child blocked on a
  full pipe is one that does not write yet.
- Components with status `not_modelled` in `PROJECT.json`: the command shell is a
  fixed table, and rendering, schemas, version and generators are pure output. They
  will stay out.

## 7. Plan

In this order; all of it is done.

1. `SnapshotStore` with `RetainedLog`, and its proofs.
2. `ConfigFile` with `AtomicRegister`, and its proofs.
3. `RouteSelection` and `RouteCommand`, and their proofs.
4. `ChangeClassifier` and `DiffCommand`.
5. `DoctorReport` and `Survey`, with `StatusFeed` as the stream's contract.
6. `Dashboard` over `StatusFeed`.
7. `ConfigText` (the line editor against setting keys) and `ConfigCheck` (loading,
   validation, credentials), composed by `Setup` with discovery: what `config set`
   validates, a later load accepts.
8. `Triage` and the inventory commands, in `Survey`.

A theorem to add: `DiscoveredPatchFits`, for which the three edits of a discovered patch
are followed one by one.
