---------------------------- MODULE ConfigCheck ----------------------------
(***************************************************************************)
(* What a configuration text means: it is decoded over the defaults and    *)
(* overridden by the environment (internal/config/loader.go), validated    *)
(* (validate.go), and its backends are made ready with their credentials   *)
(* (credential.go, configuredBackends in cmd/inferctl/list.go).            *)
(***************************************************************************)
EXTENDS ConfigText

CONSTANTS
    URL,            \* the strings that are URLs with a scheme and a host
    Remote,         \* those of them that are not on this machine
    VariableName,   \* the strings that may name an environment variable
    Broken          \* the strings with a line break

ASSUME StringAssumption ==
    /\ Remote \subseteq URL
    /\ {"", " "} \cap (URL \cup VariableName \cup Broken) = {}

BackendKind == {"ollama", "llama.cpp", "openai_compat", "lmstudio", "mlx"}

-----------------------------------------------------------------------------
(* The schema: config.Config and its parts. *)

ProfileFields    == {"name", "max_context_tokens", "max_concurrent_models", "allow_premium",
                     "mode", "vram_total_bytes_hint"}
BackendFields    == {"auth_header_name", "auth_header_value", "base_url", "credential", "default",
                     "fallback_chain_position", "kind", "remote_allowed", "timeout_ms"}
CredentialFields == {"account", "environment_variable", "literal_value", "service", "source",
                     "version"}
RoutingFields    == {"backend", "fallback", "model", "num_ctx"}
ModelFields      == {"backend", "capabilities", "model"}
EvidenceFields   == {"source", "status"}
CapabilityNames  == {"tools", "vision", "json_mode", "embeddings"}

Sections == {"meta", "profile", "backends", "models", "routing"}

\* The paths that hold tables: the sections, what is named in them, and the
\* credential and the capabilities inside.
IsTable(p) ==
    \/ Len(p) = 1 /\ p[1] \in Sections
    \/ Len(p) = 2 /\ p[1] \in {"backends", "models", "routing"}
    \/ Len(p) = 3 /\ p[1] = "backends" /\ p[3] = "credential"
    \/ Len(p) \in {3, 4} /\ p[1] = "models" /\ p[3] = "capabilities"

\* The paths of the fields, which hold values.
IsField(p) ==
    \/ p = << "meta", "schema_version" >>
    \/ Len(p) = 2 /\ p[1] = "profile" /\ p[2] \in ProfileFields
    \/ Len(p) = 3 /\ p[1] = "backends" /\ p[3] \in BackendFields \ {"credential"}
    \/ Len(p) = 4 /\ p[1] = "backends" /\ p[3] = "credential" /\ p[4] \in CredentialFields
    \/ Len(p) = 3 /\ p[1] = "routing" /\ p[3] \in RoutingFields
    \/ Len(p) = 3 /\ p[1] = "models" /\ p[3] \in ModelFields \ {"capabilities"}
    \/ Len(p) = 5 /\ p[1] = "models" /\ p[3] = "capabilities" /\ p[5] \in EvidenceFields

TypeOf(p) ==
    CASE p[Len(p)] \in {"max_context_tokens", "max_concurrent_models", "vram_total_bytes_hint",
                        "fallback_chain_position", "timeout_ms", "num_ctx"} -> "int"
      [] p[Len(p)] \in {"allow_premium", "default", "remote_allowed"} -> "bool"
      [] p[Len(p)] = "fallback" -> "array"
      [] OTHER -> "string"

\* knownConfigKey: a name in a section is known because the text mentions it.
KnownKey(p) == IsTable(p) \/ IsField(p)

\* toml.Unmarshal: fields have their types and tables are tables; unknown keys pass.
Decodes(lines) ==
    LET value == Values(lines) IN
    /\ WellFormed(lines)
    /\ \A p \in Keys(lines) : ~IsTable(p) /\ (IsField(p) => value[p][1] = TypeOf(p))
    /\ \A p \in Tables(lines) : ~IsField(p)
    /\ \A p \in Keys(lines) \cup Tables(lines) : \A q \in Parents(p) : ~IsField(q)

-----------------------------------------------------------------------------
(* Loading. *)

\* A configuration: its values, the paths its file mentions, and of each value
\* where it comes from.  A path without a value has its type's zero.
Str(cfg, p)  == IF p \in DOMAIN cfg.value THEN cfg.value[p][2] ELSE ""
Num(cfg, p)  == IF p \in DOMAIN cfg.value THEN cfg.value[p][2] ELSE 0
Flag(cfg, p) == IF p \in DOMAIN cfg.value THEN cfg.value[p][2] ELSE FALSE

\* The names in a section: a mention of anything below it makes an entry.
Named(cfg, section) == { p[2] : p \in { q \in cfg.mentioned : Len(q) >= 2 /\ q[1] = section } }

BackendKey(b, field) == << "backends", b, field >>

\* One layer of values over another, and a layer of one value.
Over(f, g) == [p \in DOMAIN f \cup DOMAIN g |-> IF p \in DOMAIN f THEN f[p] ELSE g[p]]
Only(k, v) == [p \in {k} |-> v]

\* Defaults and applyDefaults: what has its zero value, written or not, is defaulted.
Defaults(cfg) ==
    LET timeouts  == { BackendKey(b, "timeout_ms") : b \in Named(cfg, "backends") }
        fallbacks == { << "routing", t, "fallback" >> : t \in Named(cfg, "routing") }
    IN  Over(Over(Only(<< "meta", "schema_version" >>, << "string", "0.1" >>),
                  Only(<< "profile", "mode" >>, << "string", "warn" >>)),
             Over([p \in timeouts |-> << "int", 2000 >>], [p \in fallbacks |-> << "array", << >> >>]))

Zero == [type \in Types |->
            CASE type = "string" -> << type, "" >>
              [] type = "int"    -> << type, 0 >>
              [] type = "bool"   -> << type, FALSE >>
              [] OTHER           -> << type, << >> >>]

WithDefaults(cfg) ==
    LET default   == Defaults(cfg)
        absent(p) == p \notin DOMAIN cfg.value \/ cfg.value[p] = Zero[TypeOf(p)]
    IN  [cfg EXCEPT !.value = Over([p \in { q \in DOMAIN default : absent(q) } |-> default[p]], @)]

\* markDefaultProvenance: the optional keys that the file does not mention.
DefaultMarks(cfg) ==
    { << "meta", "schema_version" >>, << "profile", "mode" >>, << "profile", "allow_premium" >>,
      << "profile", "vram_total_bytes_hint" >> }
    \cup { BackendKey(b, f) : b \in Named(cfg, "backends"),
                              f \in {"default", "timeout_ms", "fallback_chain_position"} }
    \cup { BackendKey(b, f) :
             b \in { c \in Named(cfg, "backends") : Str(cfg, BackendKey(c, "kind")) = "openai_compat" },
             f \in {"auth_header_name", "auth_header_value", "remote_allowed"} }
    \cup { << "routing", t, f >> : t \in Named(cfg, "routing"), f \in {"fallback", "num_ctx"} }

\* applyEnv.  The environment has $INFERCTL_PROFILE_MODE and $INFERCTL_DEFAULT_BACKEND,
\* "" when unset; the backend it names is the default, and the others are not.
OverrideMode(cfg, env) ==
    IF env.mode = "" THEN cfg
    ELSE [cfg EXCEPT !.value = Over(Only(<< "profile", "mode" >>, << "string", env.mode >>), @),
                     !.source = Over(Only(<< "profile", "mode" >>, "env"), @)]

TouchedByDefault(cfg, name) ==
    { BackendKey(b, "default") :
        b \in { c \in Named(cfg, "backends") : c = name \/ Flag(cfg, BackendKey(c, "default")) } }

UnmarkedDefault(cfg, env) ==
    LET touched == TouchedByDefault(cfg, env.default)
    IN  IF env.default = "" THEN cfg
        ELSE [cfg EXCEPT !.value  = Over([p \in touched |-> << "bool", p[2] = env.default >>], @),
                         !.source = Over(Only(<< "backends", env.default, "default" >>, "env"), @)]

OverrideDefault(cfg, env) ==
    LET touched == TouchedByDefault(cfg, env.default)
    IN  IF env.default = "" THEN cfg
        ELSE [cfg EXCEPT !.value  = Over([p \in touched |-> << "bool", p[2] = env.default >>], @),
                         !.source = Over([p \in touched |-> "env"], @)]

\* LoadBytes of a text that decodes.
FromFile(lines) ==
    LET mentioned == Keys(lines) \cup Tables(lines)
    IN  [value |-> Values(lines), mentioned |-> mentioned, source |-> [p \in mentioned |-> "file"]]

Marked(cfg) == [cfg EXCEPT !.source = Over(@, [p \in DefaultMarks(cfg) |-> "default"])]

Loaded(lines, env) ==
    OverrideDefault(OverrideMode(Marked(WithDefaults(FromFile(lines))), env), env)

\* Load's errors, "" for none.
LoadError(lines, env) ==
    IF ~Decodes(lines) THEN "E_CONFIG_INVALID"
    ELSE IF env.default \notin {""} \cup Named(FromFile(lines), "backends") THEN "E_INVALID_ARG"
    ELSE ""

-----------------------------------------------------------------------------
(* Validate: the set of its findings << severity, key, code >>. *)

Error(key, code)   == << "error", key, code >>
Warning(key, code) == << "warning", key, code >>

When(condition, finding) == IF condition THEN {finding} ELSE {}

Required(cfg, paths, code) == { Error(p, code) : p \in paths \ cfg.mentioned }

Blankish(s) == s \in {"", " "}

UnknownKeys(cfg) == { Error(p, "E_CONFIG_KEY_UNKNOWN") : p \in { q \in cfg.mentioned : ~KnownKey(q) } }

ProfileFindings(cfg) ==
    LET mode   == << "profile", "mode" >>
        tokens == << "profile", "max_context_tokens" >>
        models == << "profile", "max_concurrent_models" >>
    IN  Required(cfg, { << "meta", "schema_version" >>, << "profile", "name" >>, tokens, models,
                        << "profile", "allow_premium" >>, mode }, "missing_required")
        \cup When(/\ << "meta", "schema_version" >> \in cfg.mentioned
                  /\ Str(cfg, << "meta", "schema_version" >>) # "0.1",
                  Warning(<< "meta", "schema_version" >>, "W_CONFIG_SCHEMA_VERSION_MISMATCH"))
        \cup When(tokens \in cfg.mentioned /\ Num(cfg, tokens) <= 0, Error(tokens, "range"))
        \cup When(models \in cfg.mentioned /\ Num(cfg, models) < 1, Error(models, "range"))
        \cup When(Str(cfg, mode) \notin {"strict", "warn", "advisory"}, Error(mode, "valid_set"))
        \cup When(Str(cfg, mode) \in {"strict", "advisory"},
                  Warning(mode, "W_PROFILE_MODE_NOT_ENFORCED"))

HasCredential(cfg, b) == \E p \in cfg.mentioned : Len(p) >= 3 /\ SubSeq(p, 1, 3) = BackendKey(b, "credential")

CredentialKey(b, field) == << "backends", b, "credential", field >>

NothingIdentified(service, account) == Blankish(service) /\ Blankish(account)
Unidentified(service, account)      == Blankish(service) \/ Blankish(account)

\* validateCredentialReference.
CredentialFindings(cfg, b) ==
    LET has(f)  == CredentialKey(b, f) \in DOMAIN cfg.value
        val(f)  == Str(cfg, CredentialKey(b, f))
        source  == val("source")
        kind    == Str(cfg, BackendKey(b, "kind"))
        literal == BackendKey(b, "auth_header_value") \in DOMAIN cfg.value
        ref(field, code) == Error(CredentialKey(b, field), code)
    IN  IF ~HasCredential(cfg, b)
        THEN When(kind = "openai_compat" /\ literal,
                  Warning(BackendKey(b, "auth_header_value"), "W_CONFIG_KEY_DEPRECATED"))
        ELSE When(kind # "openai_compat", Error(BackendKey(b, "credential"), "UNSUPPORTED_BACKEND"))
             \cup When(literal, Error(BackendKey(b, "auth_header_value"), "CONFLICT"))
             \cup Required(cfg, { CredentialKey(b, "version"), CredentialKey(b, "source") }, "REQUIRED")
             \cup When(val("version") \notin {"", "v1"}, ref("version", "VERSION_UNSUPPORTED"))
             \cup When(source \notin {"literal", "environment", "secure_store"},
                       ref("source", "SOURCE_UNSUPPORTED"))
             \cup When(source = "literal" /\ Blankish(val("literal_value")),
                       ref("literal_value", "LITERAL_REQUIRED"))
             \cup When(source = "environment" /\ has("literal_value"),
                       ref("literal_value", "SOURCE_FIELD_CONFLICT"))
             \cup When(source = "environment" /\ val("environment_variable") \notin VariableName,
                       ref("environment_variable", "ENVIRONMENT_VARIABLE"))
             \cup When(source = "secure_store" /\ Unidentified(val("service"), val("account")),
                       ref("service", "SECURE_STORE_IDENTITY_REQUIRED"))
             \cup When(source = "literal" /\ has("environment_variable"),
                       ref("environment_variable", "SOURCE_FIELD_CONFLICT"))
             \cup When(Blankish(Str(cfg, BackendKey(b, "auth_header_name"))),
                       Error(BackendKey(b, "auth_header_name"), "HEADER_NAME_REQUIRED"))

OneBackendFindings(cfg, b) ==
    LET kind == BackendKey(b, "kind")
        url  == BackendKey(b, "base_url")
    IN  Required(cfg, {kind, url}, "missing_required")
        \cup When(Str(cfg, kind) \notin BackendKind \cup {""}, Error(kind, "valid_set"))
        \cup When(Str(cfg, url) \notin URL \cup {""}, Error(url, "url"))
        \cup CredentialFindings(cfg, b)

DefaultBackends(cfg) == { b \in Named(cfg, "backends") : Flag(cfg, BackendKey(b, "default")) }

BackendFindings(cfg) ==
    LET backends == Named(cfg, "backends")
    IN  When(backends = {}, Error(<< "backends" >>, "no_backend"))
        \cup When(backends # {} /\ Cardinality(DefaultBackends(cfg)) # 1,
                  Error(<< "backends", "*", "default" >>, "one_default"))
        \cup UNION { OneBackendFindings(cfg, b) : b \in backends }

\* validateModelCatalog.  Of the aliases of one target the loop remembers only the
\* evidence of the one it comes to first, in the order of a Go map.
TargetOf(cfg, a) == << Str(cfg, << "models", a, "backend" >>), Str(cfg, << "models", a, "model" >>) >>

Targets(cfg) == { TargetOf(cfg, a) : a \in Named(cfg, "models") }

FirstVisits(cfg) ==
    { first \in [Targets(cfg) -> Named(cfg, "models")] :
        \A t \in Targets(cfg) : TargetOf(cfg, first[t]) = t }

CapabilitiesOf(cfg, a) ==
    { p[4] : p \in { q \in cfg.mentioned :
                       Len(q) >= 4 /\ SubSeq(q, 1, 3) = << "models", a, "capabilities" >> } }

Evidence(cfg, a, c) ==
    [f \in EvidenceFields |-> Str(cfg, << "models", a, "capabilities", c, f >>)]

Conflicts(cfg, a, b) ==
    { c \in CapabilitiesOf(cfg, a) \cap CapabilitiesOf(cfg, b) :
        Evidence(cfg, a, c) # Evidence(cfg, b, c) }

CapabilityFindings(cfg, a, c) ==
    LET key(f) == << "models", a, "capabilities", c, f >>
    IN  IF c \notin CapabilityNames
        THEN { Error(<< "models", a, "capabilities", c >>, "E_MODEL_CAPABILITY_UNKNOWN") }
        ELSE Required(cfg, { key("status"), key("source") }, "missing_required")
             \cup When(Evidence(cfg, a, c).status \notin {"supported", "unsupported", "unknown"},
                       Error(key("status"), "E_MODEL_CAPABILITY_STATUS_INVALID"))
             \cup When(Evidence(cfg, a, c).source \notin {"declared", "observed"},
                       Error(key("source"), "E_MODEL_CAPABILITY_SOURCE_INVALID"))

AliasFindings(cfg, a) ==
    LET backend == << "models", a, "backend" >>
        model   == << "models", a, "model" >>
    IN  Required(cfg, { backend, model }, "missing_required")
        \cup When(Str(cfg, backend) \notin {""} \cup Named(cfg, "backends"),
                  Error(backend, "E_MODEL_ALIAS_BACKEND_UNKNOWN"))
        \cup When(model \in cfg.mentioned /\ Str(cfg, model) = "",
                  Error(model, "E_MODEL_ALIAS_TARGET_REQUIRED"))
        \cup UNION { CapabilityFindings(cfg, a, c) : c \in CapabilitiesOf(cfg, a) }

CatalogueFindings(cfg, first) ==
    UNION { AliasFindings(cfg, a)
            \cup { Error(<< "models", a, "capabilities", c >>, "E_MODEL_CAPABILITY_EVIDENCE_CONFLICT") :
                     c \in Conflicts(cfg, a, first[TargetOf(cfg, a)]) }
            : a \in Named(cfg, "models") }

RouteFindings(cfg, t) ==
    LET key(f)   == << "routing", t, f >>
        backend  == Str(cfg, key("backend"))
        model    == Str(cfg, key("model"))
        aliased  == Str(cfg, << "models", model, "backend" >>)
        fallback == cfg.value[key("fallback")][2]
    IN  Required(cfg, { key("model"), key("backend") }, "missing_required")
        \cup When(backend \notin {""} \cup Named(cfg, "backends"), Error(key("backend"), "no_such_backend"))
        \cup When(model \in Named(cfg, "models") /\ backend \notin {"", aliased},
                  Error(key("backend"), "E_MODEL_ALIAS_BACKEND_CONFLICT"))
        \cup When(Num(cfg, key("num_ctx")) > Num(cfg, << "profile", "max_context_tokens" >>)
                      /\ key("num_ctx") \in DOMAIN cfg.value,
                  Error(key("num_ctx"), "max_context_tokens"))
        \cup When(\E i \in DOMAIN fallback : fallback[i] = model,
                  Error(key("fallback"), "fallback_is_primary"))

RoutingFindings(cfg) == UNION { RouteFindings(cfg, t) : t \in Named(cfg, "routing") }

Findings(cfg, first) ==
    UnknownKeys(cfg) \cup ProfileFindings(cfg) \cup BackendFindings(cfg)
    \cup CatalogueFindings(cfg, first) \cup RoutingFindings(cfg)

Errors(findings)   == { f \in findings : f[1] = "error" }
Warnings(findings) == findings \ Errors(findings)

Passed(findings, strict) == Errors(findings) = {} /\ (strict => Warnings(findings) = {})

\* The verdicts `config validate` may give of a text that loads, by the order of the
\* catalogue.
Verdicts(lines, env, strict) ==
    LET cfg == Loaded(lines, env)
    IN  { Passed(Findings(cfg, first), strict) : first \in FirstVisits(cfg) }

\* validateConfigBytes: an edited text is loaded and validated in an empty environment.
Neutral == [mode |-> "", default |-> ""]

JudgementsUnvalidated(lines) == { LoadError(lines, Neutral) = "" }
Judgements(lines) ==
    IF LoadError(lines, Neutral) = "" THEN Verdicts(lines, Neutral, FALSE) ELSE {FALSE}

-----------------------------------------------------------------------------
(* Use. *)

\* credentialValueError and the three resolvers; the machine has a secure store of
\* its own, "none" off macOS.  "" is success.
ValueError(value) == IF value \in Broken THEN "E_VALUE_UNUSABLE" ELSE ""

ResolveCredential(cfg, b, env) ==
    LET val(f) == Str(cfg, CredentialKey(b, f))
        var    == val("environment_variable")
    IN  IF ~HasCredential(cfg, b) THEN ""
        ELSE
        CASE val("source") = "literal" ->
                IF Blankish(val("literal_value")) THEN "E_LITERAL_REQUIRED"
                ELSE ValueError(val("literal_value"))
          [] val("source") = "environment" ->
                IF Blankish(var) THEN "E_ENVIRONMENT_VARIABLE_REQUIRED"
                ELSE IF var \notin DOMAIN env.secrets THEN "E_ENVIRONMENT_MISSING"
                ELSE IF Blankish(env.secrets[var]) THEN "E_ENVIRONMENT_EMPTY"
                ELSE ValueError(env.secrets[var])
          [] val("source") = "secure_store" ->
                IF Blankish(val("service")) \/ Blankish(val("account"))
                THEN "E_SECURE_STORE_IDENTITY_REQUIRED"
                ELSE IF env.store = "usable" THEN "" ELSE "E_SECURE_STORE"
          [] OTHER -> "E_SOURCE_UNSUPPORTED"

\* configuredBackends, of one backend.
BackendError(cfg, b, env) ==
    IF /\ Str(cfg, BackendKey(b, "kind")) = "openai_compat"
       /\ ~Flag(cfg, BackendKey(b, "remote_allowed"))
       /\ Str(cfg, BackendKey(b, "base_url")) \in Remote
    THEN "E_BACKEND_REMOTE_NOT_ALLOWED"
    ELSE ResolveCredential(cfg, b, env)

\* The backends are made ready in name order and the first that fails ends the command,
\* so that any of the failing ones may be the one reported.
BackendErrors(cfg, env) ==
    IF Named(cfg, "backends") = {} THEN {"E_NO_BACKENDS_CONFIGURED"}
    ELSE { BackendError(cfg, b, env) : b \in Named(cfg, "backends") } \ {""}
=============================================================================
