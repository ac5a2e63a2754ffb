------------------------------- MODULE Setup -------------------------------
(***************************************************************************)
(* A user sets inferctl up: finds servers with `discover`, writes the      *)
(* configuration with `config init`, `set` and `patch`, checks it with     *)
(* `config validate` and `config show`, and uses it; while files are       *)
(* edited by hand and servers come and go (cmd/inferctl/discover.go,       *)
(* config_write.go, config.go, internal/config/loader.go).                 *)
(***************************************************************************)
EXTENDS ConfigCheck, TLC

CONSTANTS
    Scripts,       \* the sessions considered: the commands one after the other
    Place,         \* where a configuration file may be
    NoFile,
    Environment,   \* the environments a session may have
    Start,         \* the files there may be to begin with
    HandWritten,   \* the texts a user may replace them by
    Argument,      \* what `config set` may be given
    Fragment,      \* what `config patch` may be given, besides what discover wrote
    Server,        \* what may listen on a port
    Servers,       \* the ports' servers to begin with
    KindArgument,  \* what `discover --kind` may be given, "" for nothing
    URLOf,         \* the base URL of each port
    MaxDrifts      \* bound on changes from outside

\* The port Ollama listens on.
OllamaPort == 11434

\* discoveryPorts.
PortsOf(kind) ==
    CASE kind = "ollama"        -> << OllamaPort >>
      [] kind = "lmstudio"      -> << 1234 >>
      [] kind = "llama.cpp"     -> << 8080, 8090 >>
      [] kind = "mlx"           -> << 8080, 8081 >>
      [] kind = "openai_compat" -> << 1234, 8080, 8081, 8090 >>
      [] OTHER                  -> << 1234, 8080, 8081, 8090, OllamaPort >>

\* The strings that the scaffold and a discovered patch have in them.
Words ==
    {"meta", "schema_version", "0.1", "profile", "name", "default_local_workstation",
     "max_context_tokens", "max_concurrent_models", "allow_premium", "mode", "warn", "backends",
     "kind", "base_url", "default", "routing", "code", "model", "qwen3:8b", "backend", "fallback",
     "llamacpp", "openaicompat"} \cup BackendKind

ASSUME SetupAssumption ==
    /\ "local" \in Place /\ Place \subseteq {"named", "local", "xdg", "home"}
    /\ \A start \in Start :
         DOMAIN start = Place /\ \A p \in Place : start[p] = NoFile \/ IsText(start[p])
    /\ \A t \in HandWritten : IsText(t)
    /\ KindArgument \subseteq {""} \cup BackendKind
    /\ \A e \in Environment : e.named \in {"unset"} \cup Place /\ e.xdg \in BOOLEAN
    /\ Scripts \subseteq
         Seq({"init", "set", "patch", "validate", "strict", "show", "use", "discover"})
    /\ \A a \in Argument : a.path \in Path \ {<< >>} /\ a.raw \in Value
    /\ Fragment \subseteq Seq(LineSet)
    /\ \A kind \in KindArgument \cup {"ollama"} : \A i \in DOMAIN PortsOf(kind) :
         PortsOf(kind)[i] \in DOMAIN URLOf
    /\ \A s \in Servers : DOMAIN s = DOMAIN URLOf
    /\ \A port \in DOMAIN URLOf : URLOf[port] \in URL \cap String
    /\ Words \subseteq String
    /\ MaxDrifts \in Nat

VARIABLES
    files,      \* the text at each place
    env,        \* the environment
    servers,    \* what listens on each port
    artifact,   \* the last patch discover delivered
    drifts,
    script, commands,   \* the session and how many of its commands were begun
    pc, at,     \* where the command is
    target,     \* the file selected
    edits,      \* what is to be changed
    base, draft,    \* the text read, and edited
    loaded,     \* the configuration loaded
    found,      \* the candidates discovered
    code, exit, \* how the last command ended
    verdicts    \* what was said of each place's text as it is (no code reads it)

session == << env, script, commands >>
job     == << target, edits, base, draft, loaded, found >>
vars    == << files, servers, artifact, drifts, session, pc, at, job, code, exit, verdicts >>

verb == IF commands = 0 THEN "none" ELSE script[commands]

NoText   == Text(<< >>)
NoConfig == [value |-> << >>, mentioned |-> {}, source |-> << >>]

Init ==
    /\ files \in Start /\ env \in Environment /\ servers \in Servers
    /\ artifact = NoText
    /\ script \in Scripts /\ commands = 0 /\ drifts = 0
    /\ pc = "idle" /\ at = 1
    /\ target = "none" /\ edits = << >> /\ base = NoText /\ draft = NoText
    /\ loaded = NoConfig /\ found = << >>
    /\ code = "" /\ exit = 0
    /\ verdicts = [p \in Place |-> {}]

-----------------------------------------------------------------------------
(* From outside *)

HandEdit(p) ==
    /\ drifts < MaxDrifts /\ drifts' = drifts + 1
    /\ \E t \in (HandWritten \cup {NoFile}) \ {files[p]} : files' = [files EXCEPT ![p] = t]
    /\ verdicts' = [verdicts EXCEPT ![p] = {}]
    /\ UNCHANGED << servers, artifact, session, pc, at, job, code, exit >>

\* Only a change between two probes, of a port still to be asked, is told from a
\* different beginning.
ServerDrift(port) ==
    /\ drifts < MaxDrifts /\ drifts' = drifts + 1
    /\ pc \in {"version", "models"} /\ \E i \in at .. Len(PortsOf(target)) : PortsOf(target)[i] = port
    /\ \E s \in Server \ {servers[port]} : servers' = [servers EXCEPT ![port] = s]
    /\ UNCHANGED << files, artifact, session, pc, at, job, code, exit, verdicts >>

-----------------------------------------------------------------------------
(* Commands *)

Answer(c, e) == pc' = "idle" /\ code' = c /\ exit' = e

Goto(label) == pc' = label /\ UNCHANGED << code, exit >>

Begin(v) ==
    /\ pc = "idle" /\ commands < Len(script) /\ script[commands + 1] = v
    /\ commands' = commands + 1 /\ at' = 1
    /\ base' = NoText /\ draft' = NoText /\ loaded' = NoConfig /\ found' = << >>
    /\ UNCHANGED << files, servers, drifts, env, script >>

\* resolveMutationPath: --path names a file, else the one selected by a load.
AimUnresolved ==
    \/ target' = "none" /\ Goto("edit")
    \/ \E p \in Place : target' = p /\ Goto("edit")

Aim ==
    \/ target' = "none" /\ Goto("stat")
    \/ \E p \in Place : target' = p /\ Goto("edit")

BeginSet ==
    /\ Begin("set")
    /\ \E a \in Argument :
         LET value == encodeConfigValue(a.raw, a.type)
         IN  IF value = << >>
             THEN Answer("E_INVALID_ARG", 1) /\ edits' = << >> /\ target' = "none"
             ELSE edits' = << Edit(a.path, value) >> /\ Aim
    /\ UNCHANGED << artifact, verdicts >>

\* editsFromPatch: the fragment is parsed before it is read by lines.
BeginPatch ==
    /\ Begin("patch")
    /\ \E fragment \in Fragment \cup {artifact.lines} :
         IF ~WellFormed(fragment)
         THEN Answer("E_CONFIG_WRITE_FAILED", 1) /\ edits' = << >> /\ target' = "none"
         ELSE IF collectPatchEdits(fragment) = << >>
         THEN Answer("E_CONFIG_PATCH_DELETE_UNSUPPORTED", 1) /\ edits' = << >> /\ target' = "none"
         ELSE edits' = collectPatchEdits(fragment) /\ Aim
    /\ UNCHANGED << artifact, verdicts >>

BeginRead ==
    /\ \E v \in {"validate", "strict", "show", "use"} : Begin(v)
    /\ target' = "none" /\ edits' = << >> /\ Goto("stat")
    /\ UNCHANGED << artifact, verdicts >>

\* defaultConfigScaffold.
Scaffold ==
    << Header(<< "meta" >>), Assign("schema_version", << "string", "0.1" >>), Blank,
       Header(<< "profile" >>), Assign("name", << "string", "default_local_workstation" >>),
       Assign("max_context_tokens", << "int", 8192 >>),
       Assign("max_concurrent_models", << "int", 1 >>),
       Assign("allow_premium", << "bool", FALSE >>), Assign("mode", << "string", "warn" >>), Blank,
       Header(<< "backends", "ollama" >>), Assign("kind", << "string", "ollama" >>),
       Assign("base_url", << "string", URLOf[OllamaPort] >>), Assign("default", << "bool", TRUE >>), Blank,
       Header(<< "routing", "code" >>), Assign("model", << "string", "qwen3:8b" >>),
       Assign("backend", << "string", "ollama" >>), Assign("fallback", << "array", << >> >>) >>

\* config init: a file that exists is not seen with --force, nor if Stat fails on it.
\* What comes between its Stat and its write is ConfigFile's matter.
BeginInit ==
    /\ Begin("init")
    /\ \E p \in Place, unseen \in BOOLEAN :
         /\ target' = p
         /\ IF files[p] # NoFile /\ ~unseen
            THEN Answer("E_CONFIG_WRITE_FAILED", 3)
            ELSE Goto("write")
    /\ edits' = << >>
    /\ UNCHANGED << artifact, verdicts >>

-----------------------------------------------------------------------------
(* Loading *)

\* Loader.resolve: $INFERCTL_CONFIG if set, ./inferctl.toml, the XDG home if set, then
\* ~/.config; the first that exists is selected.
Candidates == << env.named, "local", IF env.xdg THEN "xdg" ELSE "unset", "home" >>

Stat ==
    /\ pc = "stat"
    /\ IF at > Len(Candidates)
       THEN Answer("E_CONFIG_MISSING", 3) /\ UNCHANGED << at, target >>
       ELSE IF Candidates[at] \notin Place \/ files[Candidates[at]] = NoFile
       THEN at' = at + 1 /\ UNCHANGED << target, pc, code, exit >>
       ELSE target' = Candidates[at] /\ Goto("read") /\ UNCHANGED at
    /\ UNCHANGED << files, servers, artifact, drifts, session, edits, base, draft, loaded, found,
                    verdicts >>

Say(verdict) == verdicts' = [verdicts EXCEPT ![target] = @ \cup {verdict}]

\* Loader.Load from the reading on, and what the command does with the configuration:
\* configLoadError, newConfigValidateCommand, newConfigShowCommand, configuredBackends.
Read ==
    LET text  == files[target]
        error == LoadError(text.lines, env)
    IN  /\ pc = "read"
        /\ IF text = NoFile
           THEN Answer("E_CONFIG_UNREADABLE", 3) /\ UNCHANGED << base, loaded, verdicts >>
           ELSE IF error # ""
           THEN /\ Answer(error, IF error = "E_INVALID_ARG" THEN 1 ELSE 3)
                /\ Say(error) /\ UNCHANGED << base, loaded >>
           ELSE /\ loaded' = Loaded(text.lines, env) /\ base' = text
                /\ \/ verb \in {"set", "patch"} /\ Goto("edit") /\ UNCHANGED verdicts
                   \/ verb = "show" /\ Answer("ok", 0) /\ UNCHANGED verdicts
                   \/ /\ verb \in {"validate", "strict"}
                      /\ \E passed \in Verdicts(text.lines, env, verb = "strict") :
                           IF passed THEN Answer("ok", 0) /\ Say("passed")
                           ELSE /\ Answer("E_CONFIG_VALIDATION_FAILED", 1)
                                /\ IF verb = "validate" THEN Say("failed") ELSE UNCHANGED verdicts
                   \/ /\ verb = "use" /\ UNCHANGED verdicts
                      /\ IF BackendErrors(loaded', env) = {} THEN Answer("ok", 0)
                         ELSE \E e \in BackendErrors(loaded', env) : Answer(e, 3)
        /\ UNCHANGED << files, servers, artifact, drifts, session, at, target, edits, draft, found >>

-----------------------------------------------------------------------------
(* Changing the file *)

\* runConfigMutation up to the write: the file is read (again), edited and validated.
Mutate ==
    LET text   == files[target]
        edited == ApplyEdits(text, edits)
    IN  /\ pc = "edit"
        /\ IF text = NoFile
           THEN Answer("E_CONFIG_WRITE_FAILED", 3) /\ UNCHANGED << base, draft >>
           ELSE /\ base' = text
                /\ \E passed \in Judgements(edited.lines) :
                     IF passed THEN draft' = edited /\ Goto("write")
                     ELSE Answer("E_CONFIG_WRITE_FAILED", 3) /\ UNCHANGED draft
        /\ UNCHANGED << files, servers, artifact, drifts, session, at, target, edits, loaded, found,
                        verdicts >>

\* The text is written, or with --dry-run previewed, or the write fails.
Written == IF verb = "init" THEN Text(Scaffold) ELSE draft

Write ==
    /\ pc = "write"
    /\ \/ /\ files' = [files EXCEPT ![target] = Written]
          /\ verdicts' = [verdicts EXCEPT ![target] = {"accepted"}]
          /\ Answer("ok", 0)
       \/ /\ \/ Answer("ok", 0)
             \/ Answer("E_CONFIG_WRITE_FAILED", 3)
          /\ UNCHANGED << files, verdicts >>
    /\ UNCHANGED << servers, artifact, drifts, session, at, job >>

-----------------------------------------------------------------------------
(* Discovery *)

\* newDiscoverCommand.  The kind asked for is kept as the command's target.
BeginDiscover ==
    /\ Begin("discover")
    /\ \E kind \in KindArgument : target' = kind
    /\ edits' = << >>
    /\ Goto("version")
    /\ UNCHANGED << artifact, verdicts >>

Ports == PortsOf(target)

\* safeBackendName.
NameOf(kind) ==
    CASE kind = "llama.cpp" -> "llamacpp" [] kind = "openai_compat" -> "openaicompat"
      [] OTHER -> kind

\* A candidate; its patch makes it the default backend or not, or there is none.
Candidate(kind, patch) == [kind |-> kind, port |-> Ports[at], patch |-> patch]

PatchFor(kind) == IF target = "" THEN "plain" ELSE "default"

NextPort == at' = at + 1 /\ Goto("version")

\* probeOllama: a server that answers the version request is Ollama.
ProbeVersion ==
    /\ pc = "version" /\ at <= Len(Ports)
    /\ IF target \in {"", "ollama"} /\ servers[Ports[at]].version
       THEN found' = Append(found, Candidate("ollama", PatchFor("ollama"))) /\ NextPort
       ELSE /\ UNCHANGED found
            /\ IF target = "ollama" THEN NextPort ELSE Goto("models") /\ UNCHANGED at
    /\ UNCHANGED << files, servers, artifact, drifts, session, target, edits, base, draft, loaded,
                    verdicts >>

Ambiguous == << "llama.cpp", "lmstudio", "mlx", "openai_compat" >>

\* probeOpenAIModels: a refusal ends the discovery; without --kind the server could be
\* of four kinds and none is patched.
ProbeModels ==
    /\ pc = "models"
    /\ CASE servers[Ports[at]].models = "refused" ->
              Answer("E_BACKEND_AUTH_FAILED", 3) /\ UNCHANGED << found, at >>
         [] servers[Ports[at]].models = "none" -> UNCHANGED found /\ NextPort
         [] OTHER ->
              /\ found' = found \o (IF target # "" THEN << Candidate(target, PatchFor(target)) >>
                                    ELSE [i \in 1 .. 4 |-> Candidate(Ambiguous[i], "none")])
              /\ NextPort
    /\ UNCHANGED << files, servers, artifact, drifts, session, target, edits, base, draft, loaded,
                    verdicts >>

\* runDiscovery sorts by kind, then port, of which only the ports of one kind matter
\* to the patch; configPatchForCandidate, discoveryConfigPatch.
PatchSparingly(c) ==
    << Header(<< "backends", NameOf(c.kind) >>), Assign("kind", << "string", c.kind >>),
       Assign("base_url", << "string", URLOf[c.port] >>) >>
    \o (IF c.patch = "default" THEN << Assign("default", << "bool", TRUE >>) >> ELSE << >>)

PatchOf(c) ==
    << Header(<< "backends", NameOf(c.kind) >>), Assign("kind", << "string", c.kind >>),
       Assign("base_url", << "string", URLOf[c.port] >>),
       Assign("default", << "bool", c.patch = "default" >>), Blank >>

PatchText ==
    FlattenSeq([i \in DOMAIN found |->
                   IF found[i].patch = "none" THEN << >> ELSE PatchOf(found[i])])

\* deliverDiscoveryArtifact, or the patch is printed.
Deliver ==
    /\ pc = "version" /\ at > Len(Ports)
    /\ \/ artifact' = Text(PatchText) /\ Answer("ok", 0)
       \/ Answer("E_CONFIG_WRITE_FAILED", 3) /\ UNCHANGED artifact
    /\ UNCHANGED << files, servers, drifts, session, at, job, verdicts >>

Command == \/ BeginSet \/ BeginPatch \/ BeginRead \/ BeginInit \/ BeginDiscover
           \/ Stat \/ Read \/ Mutate \/ Write \/ ProbeVersion \/ ProbeModels \/ Deliver

Next ==
    \/ Command
    \/ \E p \in Place : HandEdit(p)
    \/ \E port \in DOMAIN servers : ServerDrift(port)

Spec == Init /\ [][Next]_vars

-----------------------------------------------------------------------------
(* Properties *)

TypeOK ==
    /\ DOMAIN files = Place /\ \A p \in Place : files[p] = NoFile \/ IsText(files[p])
    /\ env \in Environment /\ DOMAIN servers = DOMAIN URLOf
    /\ IsText(artifact) /\ IsText(base) /\ IsText(draft)
    /\ script \in Scripts /\ commands \in 0 .. Len(script) /\ drifts \in 0 .. MaxDrifts
    /\ pc \in {"idle", "stat", "read", "edit", "write", "version", "models"}
    /\ at \in Nat \ {0} /\ (pc = "models" => at <= Len(PortsOf(target)))
    /\ pc \in {"read", "edit", "write"} => target \in Place
    /\ pc \in {"version", "models"} => target \in KindArgument
    /\ edits \in Seq([path : Path \ {<< >>}, value : Value])
    /\ found \in Seq([kind : BackendKind, port : DOMAIN URLOf, patch : {"none", "plain", "default"}])
    /\ exit \in {0, 1, 3}
    /\ verdicts \in [Place -> SUBSET {"accepted", "passed", "failed", "E_CONFIG_INVALID", "E_INVALID_ARG"}]

\* A key without a dot is one of the table "meta".
EditedKey(e) == TableOf(e.path) \o << Last(e.path) >>

LastEdit(k) == CHOOSE i \in DOMAIN edits :
                   EditedKey(edits[i]) = k /\ \A j \in i + 1 .. Len(edits) : EditedKey(edits[j]) # k

Edited == { EditedKey(edits[i]) : i \in DOMAIN edits }

\* A last line of white space alone and without its newline becomes the beginning of
\* the line that is put there.
Kept(text) ==
    LET last == Last(text.lines)
    IN  IF ~text.closed /\ last.kind = "blank" /\ ~last.comment THEN Front(text.lines)
        ELSE text.lines

\* What is not edited: comments, blank lines, tables and the other keys, in order.
Unedited(lines) ==
    FlattenSeq([i \in DOMAIN lines |->
                   IF lines[i].kind = "key" /\ PathAt(lines, i) \in Edited THEN << >>
                   ELSE << << lines[i], PathAt(lines, i) >> >>])

\* Where a text does not end in a newline, the first key that is put at its end becomes
\* part of the last line: of its comment, or of a value that a later edit replaces.
Swallowed(k) ==
    /\ ~base.closed
    /\ \/ Last(base.lines).comment
       \/ Last(base.lines).kind = "key" /\ PathAt(base.lines, Len(base.lines)) \in Edited
    /\ TableAt(base.lines, Len(base.lines)) = Front(k)
    /\ k \notin Keys(base.lines) /\ k \notin Keys(draft.lines)

\* What becomes of a value on one line or another.
Expansions(value) == { Expansion[e] : e \in { d \in DOMAIN Expansion : d[1] = value } }

\* config set and config patch, which edit by lines and in sequence, come to what
\* their arguments say of keys: in the text about to be written each edited key has
\* the last value given, all other keys have theirs, and comments and order are kept.
\* The exceptions are a `$` in a value for a key that is already there, which is
\* expanded, and one key swallowed by a last line (applyConfigEdit, tableRange).
EditTakesEffect ==
    pc = "write" /\ verb # "init" =>
        LET before == Values(base.lines)
            after  == Values(draft.lines)
            lost   == { k \in Edited : Swallowed(k) }
        IN  /\ DOMAIN after = DOMAIN before \cup (Edited \ lost)
            /\ Cardinality(lost) <= 1
            /\ \A k \in Edited \ lost :
                 LET given == edits[LastEdit(k)].value
                     once  == Cardinality({ i \in DOMAIN edits : EditedKey(edits[i]) = k }) = 1
                 IN  /\ after[k] \in {given} \cup Expansions(given)
                     /\ k \notin DOMAIN before /\ once => after[k] = given
            /\ \A k \in DOMAIN before \ Edited : after[k] = before[k]
            /\ IsPrefix(Unedited(Kept(base)), Unedited(draft.lines))

\* Three aliases of one target, of which two disagree and the third says nothing of it.
Undecided(cfg) ==
    \E a, b, c \in Named(cfg, "models") :
        /\ TargetOf(cfg, a) = TargetOf(cfg, b) /\ TargetOf(cfg, b) = TargetOf(cfg, c)
        /\ Conflicts(cfg, a, b) # {}
        /\ Conflicts(cfg, a, c) = {} /\ Conflicts(cfg, b, c) = {}

\* What config init, set or patch wrote, and nobody changed since, loads and passes
\* `config validate`, unless the environment sets a mode that is none, or the
\* catalogue's verdict depends on the order of a map; the environment's default
\* backend does not matter (validateConfigBytes against Load and Validate).
AcceptedStaysValid ==
    \A p \in Place :
        "accepted" \in verdicts[p] =>
            /\ "E_CONFIG_INVALID" \notin verdicts[p]
            /\ "E_INVALID_ARG" \in verdicts[p] =>
                   env.default \notin Named(FromFile(files[p].lines), "backends")
            /\ "failed" \in verdicts[p] =>
                   \/ env.mode \notin {"", "strict", "warn", "advisory"}
                   \/ Undecided(Loaded(files[p].lines, env))

\* `config show` names the layer that each value comes from: a key of the file has the
\* file's value, unless that is a zero which is defaulted; a default is of a key the
\* file does not set; and whatever differs from both is said to be the environment's
\* (markFileProvenance, markDefaultProvenance, applyEnv).
ProvenanceTrue ==
    verb = "show" /\ pc = "idle" /\ code = "ok" =>
        LET file   == Values(base.lines)
            plain  == WithDefaults(FromFile(base.lines))
            source == loaded.source
        IN  /\ DOMAIN loaded.value \subseteq DOMAIN source
            /\ \A k \in DOMAIN loaded.value :
                 /\ source[k] = "file" =>
                        /\ k \in DOMAIN file
                        /\ \/ loaded.value[k] = file[k]
                           \/ /\ file[k] = Zero[TypeOf(k)] /\ k \in DOMAIN Defaults(plain)
                              /\ loaded.value[k] = Defaults(plain)[k]
                 /\ source[k] = "default" =>
                        k \notin DOMAIN file /\ loaded.value[k] = Defaults(plain)[k]
                 /\ source[k] = "env" =>
                        loaded.value[k] = IF k = << "profile", "mode" >> THEN << "string", env.mode >>
                                          ELSE << "bool", k[2] = env.default >>

\* Where a backend has its credential, "" for none.
SourceOf(cfg, b) == IF HasCredential(cfg, b) THEN Str(cfg, CredentialKey(b, "source")) ELSE ""

\* The world has the credential that a backend refers to.
Provided(cfg, b) ==
    LET var == Str(cfg, CredentialKey(b, "environment_variable"))
    IN  /\ SourceOf(cfg, b) = "environment" =>
              /\ var \in DOMAIN env.secrets
              /\ ~Blankish(env.secrets[var]) /\ env.secrets[var] \notin Broken
        /\ SourceOf(cfg, b) = "secure_store" => env.store = "usable"

\* What validation lets pass though the file alone decides it: a remote server that
\* is not allowed, and a literal with a line break.
Overlooked(cfg, b) ==
    \/ /\ Str(cfg, BackendKey(b, "kind")) = "openai_compat"
       /\ Str(cfg, BackendKey(b, "base_url")) \in Remote
       /\ ~Flag(cfg, BackendKey(b, "remote_allowed"))
    \/ /\ SourceOf(cfg, b) = "literal"
       /\ Str(cfg, CredentialKey(b, "literal_value")) \in Broken

\* A configuration that validates can be used if and only if the world has each
\* backend's credential and the file has nothing that validation overlooks: in all
\* else that the shape of a credential decides, validateCredentialReference and the
\* resolvers, written apart, agree (configuredBackends, ResolveCredential).
UsableWhenProvided ==
    /\ verb = "use" /\ pc = "idle" /\ loaded # NoConfig
    /\ Verdicts(base.lines, env, FALSE) # {FALSE}
    => (code = "ok" <=>
            \A b \in Named(loaded, "backends") : Provided(loaded, b) /\ ~Overlooked(loaded, b))

\* The patch is of one server; its table is in the text with all three keys, or not at all.
OneServer(cfg) ==
    /\ Cardinality(Tables(artifact.lines)) = 1 /\ WellFormed(artifact.lines)
    /\ LET n == CHOOSE n \in Named(FromFile(artifact.lines), "backends") : TRUE
       IN  n \in Named(cfg, "backends") =>
              /\ << "backends", n >> \in Tables(files[target].lines)
              /\ BackendKey(n, "default") \in Keys(files[target].lines)

\* The patch that discover delivers is accepted by a valid configuration if and only
\* if the backend it names is to be the default and is, or is not and is not; and
\* a backend that has a credential stays one that may (runDiscovery,
\* configPatchForCandidate against applyConfigEdit and Validate).
DiscoveredPatchFits ==
    [][ /\ pc = "edit" /\ pc' # "edit" /\ verb = "patch"
        /\ edits = collectPatchEdits(artifact.lines)
        /\ files[target] # NoFile /\ Judgements(files[target].lines) = {TRUE}
        /\ OneServer(Loaded(files[target].lines, Neutral))
        => LET cfg   == Loaded(files[target].lines, Neutral)
               patch == FromFile(artifact.lines)
               n     == CHOOSE n \in Named(patch, "backends") : TRUE
           IN  pc' = "write" <=>
                   /\ Flag(patch, BackendKey(n, "default")) <=> DefaultBackends(cfg) = {n}
                   /\ HasCredential(cfg, n) => Str(patch, BackendKey(n, "kind")) = "openai_compat" ]_vars

\* The key that `config set` sets has, in the text about to be written, the value given
\* (docs/verbs.md: "Set one config key while preserving surrounding TOML comments").
SetSets ==
    pc = "write" /\ verb = "set" =>
        /\ EditedKey(edits[1]) \in Keys(draft.lines)
        /\ Values(draft.lines)[EditedKey(edits[1])] = edits[1].value
=============================================================================
