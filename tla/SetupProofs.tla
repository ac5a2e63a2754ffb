---------------------------- MODULE SetupProofs ----------------------------
(***************************************************************************)
(* Proofs about Setup for any session, files, environment and servers.     *)
(***************************************************************************)
EXTENDS Setup, FiniteSetTheorems, FunctionTheorems, SequenceTheorems, WellFoundedInduction,
        TLAPS

\* The URL of the scaffold's backend is one.
LEMMA OllamaUrl == OllamaPort \in DOMAIN URLOf /\ URLOf[OllamaPort] \in URL \cap String
<1>1. PortsOf("ollama") = << OllamaPort >>
  BY DEF PortsOf
<1>2. \A i \in DOMAIN PortsOf("ollama") : PortsOf("ollama")[i] \in DOMAIN URLOf
  BY SetupAssumption
<1>3. 1 \in DOMAIN << OllamaPort >> /\ << OllamaPort >>[1] = OllamaPort
  OBVIOUS
<1>4. OllamaPort \in DOMAIN URLOf
  BY <1>1, <1>2, <1>3
<1> QED BY <1>4, SetupAssumption

-----------------------------------------------------------------------------
(* What is loaded *)

Config(v, m, s) == [value |-> v, mentioned |-> m, source |-> s]

\* The names in a section are those of the paths mentioned.
NamedIn(m, section) == { p[2] : p \in { q \in m : Len(q) >= 2 /\ q[1] = section } }

Mode == << "profile", "mode" >>

\* What the defaults are, and where.
DefaultKeys(m) ==
    {<< "meta", "schema_version" >>, Mode}
    \cup { BackendKey(b, "timeout_ms") : b \in NamedIn(m, "backends") }
    \cup { << "routing", t, "fallback" >> : t \in NamedIn(m, "routing") }

\* One layer over another.
LEMMA OverIs ==
    ASSUME NEW f, NEW g
    PROVE  /\ DOMAIN Over(f, g) = DOMAIN f \cup DOMAIN g
           /\ \A k \in DOMAIN f : Over(f, g)[k] = f[k]
           /\ \A k \in DOMAIN g \ DOMAIN f : Over(f, g)[k] = g[k]
BY DEF Over

\* A layer of one value.
LEMMA OnlyIs == ASSUME NEW k, NEW v PROVE DOMAIN Only(k, v) = {k} /\ Only(k, v)[k] = v
BY DEF Only

\* The defaults depend on what is mentioned.
LEMMA DefaultsAre ==
    ASSUME NEW v, NEW m, NEW s, NEW w, NEW t
    PROVE  /\ DOMAIN Defaults(Config(v, m, s)) = DefaultKeys(m)
           /\ Defaults(Config(v, m, s)) = Defaults(Config(w, m, t))
<1> DEFINE a == Only(<< "meta", "schema_version" >>, << "string", "0.1" >>)
           b == Only(<< "profile", "mode" >>, << "string", "warn" >>)
           T == { BackendKey(x, "timeout_ms") : x \in NamedIn(m, "backends") }
           F == { << "routing", x, "fallback" >> : x \in NamedIn(m, "routing") }
           c == [p \in T |-> << "int", 2000 >>]
           d == [p \in F |-> << "array", << >> >>]
<1>1. ASSUME NEW x, NEW y PROVE Defaults(Config(x, m, y)) = Over(Over(a, b), Over(c, d))
  BY DEF Defaults, Config, Named, NamedIn
<1>2. DOMAIN a = {<< "meta", "schema_version" >>} /\ DOMAIN b = {Mode} /\ DOMAIN c = T /\ DOMAIN d = F
  BY OnlyIs DEF Mode
<1> HIDE DEF a, b, c, d, T, F
<1>3. DOMAIN Over(Over(a, b), Over(c, d)) = {<< "meta", "schema_version" >>, Mode} \cup T \cup F
  <2>1. DOMAIN Over(a, b) = DOMAIN a \cup DOMAIN b /\ DOMAIN Over(c, d) = DOMAIN c \cup DOMAIN d
    BY OverIs
  <2>2. DOMAIN Over(Over(a, b), Over(c, d)) = DOMAIN Over(a, b) \cup DOMAIN Over(c, d)
    BY OverIs
  <2> QED BY <1>2, <2>1, <2>2
<1>4. DefaultKeys(m) = {<< "meta", "schema_version" >>, Mode} \cup T \cup F
  BY DEF DefaultKeys, T, F
<1> QED BY <1>1, <1>3, <1>4

\* The values after the defaults.
DefaultedKeys(v, m) ==
    { q \in DefaultKeys(m) : q \notin DOMAIN v \/ v[q] = Zero[TypeOf(q)] }

\* WithDefaults of what a file says.
LEMMA WithDefaultsIs ==
    ASSUME NEW v, NEW m, NEW s
    PROVE  WithDefaults(Config(v, m, s)) =
             Config(Over([p \in DefaultedKeys(v, m) |-> Defaults(Config(v, m, s))[p]], v), m, s)
<1> DEFINE D == Defaults(Config(v, m, s))
           Q == { q \in DOMAIN D : q \notin DOMAIN v \/ v[q] = Zero[TypeOf(q)] }
           w == Over([p \in Q |-> D[p]], v)
<1>1. WithDefaults(Config(v, m, s)) = Config(w, m, s)
  BY DEF WithDefaults, Config
<1>2. Q = DefaultedKeys(v, m)
  BY DefaultsAre DEF DefaultedKeys
<1> QED BY <1>1, <1>2

\* The environment's mode.
LEMMA OverrideModeIs ==
    ASSUME NEW v, NEW m, NEW s, NEW e
    PROVE  OverrideMode(Config(v, m, s), e) =
             IF e.mode = "" THEN Config(v, m, s)
             ELSE Config(Over(Only(Mode, << "string", e.mode >>), v), m, Over(Only(Mode, "env"), s))
<1>1. CASE e.mode = ""
  BY <1>1 DEF OverrideMode
<1>2. CASE e.mode # ""
  <2>1. OverrideMode(Config(v, m, s), e) =
          [Config(v, m, s) EXCEPT !.value = Over(Only(Mode, << "string", e.mode >>), @),
                                  !.source = Over(Only(Mode, "env"), @)]
    BY <1>2 DEF OverrideMode, Mode
  <2> QED BY <1>2, <2>1 DEF Config
<1> QED BY <1>1, <1>2

\* The backends' flags that the environment's default backend changes.
Touched(v, m, name) ==
    { BackendKey(b, "default") :
        b \in { c \in NamedIn(m, "backends") : c = name \/ Flag(Config(v, m, << >>), BackendKey(c, "default")) } }

LEMMA OverrideDefaultIs ==
    ASSUME NEW v, NEW m, NEW s, NEW e
    PROVE  OverrideDefault(Config(v, m, s), e) =
             IF e.default = "" THEN Config(v, m, s)
             ELSE Config(Over([p \in Touched(v, m, e.default) |-> << "bool", p[2] = e.default >>], v), m,
                         Over([p \in Touched(v, m, e.default) |-> "env"], s))
<1>1. TouchedByDefault(Config(v, m, s), e.default) = Touched(v, m, e.default)
  BY DEF TouchedByDefault, Touched, Named, NamedIn, Flag, Config
<1> DEFINE T == Touched(v, m, e.default)
<1>2. CASE e.default = ""
  BY <1>2 DEF OverrideDefault
<1>3. CASE e.default # ""
  <2>1. OverrideDefault(Config(v, m, s), e) =
          LET touched == TouchedByDefault(Config(v, m, s), e.default)
          IN  [Config(v, m, s) EXCEPT !.value = Over([p \in touched |-> << "bool", p[2] = e.default >>], @),
                                      !.source = Over([p \in touched |-> "env"], @)]
    BY <1>3 DEF OverrideDefault
  <2>2. OverrideDefault(Config(v, m, s), e) =
          [Config(v, m, s) EXCEPT !.value = Over([p \in T |-> << "bool", p[2] = e.default >>], @),
                                  !.source = Over([p \in T |-> "env"], @)]
    BY <1>1, <2>1
  <2> QED BY <1>3, <2>2 DEF Config
<1> QED BY <1>2, <1>3

-----------------------------------------------------------------------------
(* The three layers of a loaded configuration *)

FileMentions(lines) == Keys(lines) \cup Tables(lines)

\* The values of a file and its defaults.
PlainValues(lines) ==
    Over([p \in DefaultedKeys(Values(lines), FileMentions(lines)) |->
             Defaults(FromFile(lines))[p]], Values(lines))

PlainSources(lines) ==
    Over([p \in FileMentions(lines) |-> "file"],
         [p \in DefaultMarks(WithDefaults(FromFile(lines))) |-> "default"])

ModeKeys(e) == IF e.mode = "" THEN {} ELSE {Mode}

\* The flags that the environment overrides.
FlagKeys(lines, e) ==
    IF e.default = "" THEN {}
    ELSE { BackendKey(b, "default") :
             b \in { c \in NamedIn(FileMentions(lines), "backends") :
                       c = e.default \/ Flag(WithDefaults(FromFile(lines)), BackendKey(c, "default")) } }

\* What layers, bottom to top, make of values and of their sources.
LoadedFrom(cfg, lines, e) ==
    /\ cfg = Config(cfg.value, FileMentions(lines), cfg.source)
    /\ DOMAIN cfg.value = DOMAIN PlainValues(lines) \cup ModeKeys(e) \cup FlagKeys(lines, e)
    /\ DOMAIN cfg.source = DOMAIN PlainSources(lines) \cup ModeKeys(e) \cup FlagKeys(lines, e)
    /\ \A k \in FlagKeys(lines, e) :
          cfg.value[k] = << "bool", k[2] = e.default >> /\ cfg.source[k] = "env"
    /\ \A k \in ModeKeys(e) : cfg.value[k] = << "string", e.mode >> /\ cfg.source[k] = "env"
    /\ \A k : k \notin ModeKeys(e) \cup FlagKeys(lines, e) =>
          /\ k \in DOMAIN PlainValues(lines) => cfg.value[k] = PlainValues(lines)[k]
          /\ k \in DOMAIN PlainSources(lines) => cfg.source[k] = PlainSources(lines)[k]

\* What a file says, with the defaults.
LEMMA PlainIs ==
    ASSUME NEW lines
    PROVE  /\ FromFile(lines) = Config(Values(lines), FileMentions(lines), [p \in FileMentions(lines) |-> "file"])
           /\ WithDefaults(FromFile(lines)) =
                Config(PlainValues(lines), FileMentions(lines), [p \in FileMentions(lines) |-> "file"])
           /\ Marked(WithDefaults(FromFile(lines))) =
                Config(PlainValues(lines), FileMentions(lines), PlainSources(lines))
<1>1. FromFile(lines) = Config(Values(lines), FileMentions(lines), [p \in FileMentions(lines) |-> "file"])
  BY DEF FromFile, Config, FileMentions
<1>2. WithDefaults(FromFile(lines)) =
        Config(PlainValues(lines), FileMentions(lines), [p \in FileMentions(lines) |-> "file"])
  BY <1>1, WithDefaultsIs DEF PlainValues
<1> DEFINE cfg == WithDefaults(FromFile(lines))
           marks == [p \in DefaultMarks(cfg) |-> "default"]
<1>3. Marked(cfg) = [cfg EXCEPT !.source = Over(@, marks)]
  BY DEF Marked
<1>4. PlainSources(lines) = Over([p \in FileMentions(lines) |-> "file"], marks)
  BY DEF PlainSources
<1> HIDE DEF marks, cfg
<1>5. cfg = Config(PlainValues(lines), FileMentions(lines), [p \in FileMentions(lines) |-> "file"])
  BY <1>2 DEF cfg
<1>6. Marked(cfg) = Config(PlainValues(lines), FileMentions(lines), Over([p \in FileMentions(lines) |-> "file"], marks))
  BY <1>3, <1>5 DEF Config
<1> QED BY <1>1, <1>2, <1>4, <1>6 DEF cfg

\* Keys of backends and that of the mode are different.
LEMMA ModeIsNoBackendKey ==
    ASSUME NEW b, NEW f
    PROVE  BackendKey(b, f) # Mode
BY DEF BackendKey, Mode

\* LoadBytes: defaults under the file under the environment.
LEMMA LoadedIs ==
    ASSUME NEW lines, NEW e
    PROVE  LoadedFrom(Loaded(lines, e), lines, e)
<1> DEFINE v == PlainValues(lines)
           m == FileMentions(lines)
           s == PlainSources(lines)
           v1 == IF e.mode = "" THEN v ELSE Over(Only(Mode, << "string", e.mode >>), v)
           s1 == IF e.mode = "" THEN s ELSE Over(Only(Mode, "env"), s)
           T == Touched(v1, m, e.default)
           v2 == IF e.default = "" THEN v1 ELSE Over([p \in T |-> << "bool", p[2] = e.default >>], v1)
           s2 == IF e.default = "" THEN s1 ELSE Over([p \in T |-> "env"], s1)
           M == ModeKeys(e)
           F == FlagKeys(lines, e)
<1>1. Loaded(lines, e) = OverrideDefault(OverrideMode(Config(v, m, s), e), e)
  BY PlainIs DEF Loaded
<1>2. OverrideMode(Config(v, m, s), e) = Config(v1, m, s1)
  <2> HIDE DEF v, m, s
  <2>1. CASE e.mode = ""
    BY <2>1 DEF OverrideMode
  <2>2. CASE e.mode # ""
    BY <2>2, OverrideModeIs
  <2> QED BY <2>1, <2>2
<1>3. OverrideDefault(Config(v1, m, s1), e) = Config(v2, m, s2)
  <2> HIDE DEF v1, m, s1
  <2>1. CASE e.default = ""
    BY <2>1 DEF OverrideDefault
  <2>2. CASE e.default # ""
    BY <2>2, OverrideDefaultIs
  <2> QED BY <2>1, <2>2
<1>4. /\ DOMAIN v1 = DOMAIN v \cup M /\ DOMAIN s1 = DOMAIN s \cup M
      /\ \A k \in M : v1[k] = << "string", e.mode >> /\ s1[k] = "env"
      /\ \A k \in DOMAIN v \ M : v1[k] = v[k]
      /\ \A k \in DOMAIN s \ M : s1[k] = s[k]
  <2> DEFINE a == Only(Mode, << "string", e.mode >>)
             c == Only(Mode, "env")
  <2> HIDE DEF v, s
  <2>1. CASE e.mode = ""
    BY <2>1 DEF ModeKeys
  <2>2. CASE e.mode # ""
    <3>1. DOMAIN a = {Mode} /\ a[Mode] = << "string", e.mode >> /\ DOMAIN c = {Mode} /\ c[Mode] = "env"
      BY OnlyIs
    <3>2. v1 = Over(a, v) /\ s1 = Over(c, s) /\ M = {Mode}
      BY <2>2 DEF ModeKeys
    <3> HIDE DEF a, c, v1, s1, M
    <3>3. /\ DOMAIN v1 = {Mode} \cup DOMAIN v /\ v1[Mode] = a[Mode]
          /\ \A k \in DOMAIN v \ {Mode} : v1[k] = v[k]
      <4>1. /\ DOMAIN Over(a, v) = DOMAIN a \cup DOMAIN v
            /\ \A k \in DOMAIN a : Over(a, v)[k] = a[k]
            /\ \A k \in DOMAIN v \ DOMAIN a : Over(a, v)[k] = v[k]
        BY OverIs
      <4> QED BY <3>1, <3>2, <4>1
    <3>4. /\ DOMAIN s1 = {Mode} \cup DOMAIN s /\ s1[Mode] = c[Mode]
          /\ \A k \in DOMAIN s \ {Mode} : s1[k] = s[k]
      <4>1. /\ DOMAIN Over(c, s) = DOMAIN c \cup DOMAIN s
            /\ \A k \in DOMAIN c : Over(c, s)[k] = c[k]
            /\ \A k \in DOMAIN s \ DOMAIN c : Over(c, s)[k] = s[k]
        BY OverIs
      <4> QED BY <3>1, <3>2, <4>1
    <3> QED BY <3>1, <3>2, <3>3, <3>4
  <2> QED BY <2>1, <2>2
<1>5. e.default # "" => T = F
  <2>1. ASSUME NEW c PROVE Flag(Config(v1, m, << >>), BackendKey(c, "default"))
                             = Flag(WithDefaults(FromFile(lines)), BackendKey(c, "default"))
    <3>1. BackendKey(c, "default") \notin M
      BY ModeIsNoBackendKey DEF ModeKeys
    <3>2. WithDefaults(FromFile(lines)).value = v /\ Config(v1, m, << >>).value = v1
      BY PlainIs DEF Config
    <3> HIDE DEF v, v1, m, M
    <3> QED BY <1>4, <3>1, <3>2 DEF Flag
  <2> HIDE DEF v, v1
  <2> QED BY <2>1 DEF Touched, FlagKeys
<1>6. M \cap F = {}
  BY ModeIsNoBackendKey DEF ModeKeys, FlagKeys
<1>7. e.default = "" => F = {}
  BY DEF FlagKeys
<1> HIDE DEF v, s, v1, s1, T, M, F
<1>8. /\ DOMAIN v2 = DOMAIN v1 \cup F /\ DOMAIN s2 = DOMAIN s1 \cup F
      /\ \A k \in F : v2[k] = << "bool", k[2] = e.default >> /\ s2[k] = "env"
      /\ \A k \in DOMAIN v1 \ F : v2[k] = v1[k]
      /\ \A k \in DOMAIN s1 \ F : s2[k] = s1[k]
  <2>1. CASE e.default = ""
    BY <1>7, <2>1
  <2>2. CASE e.default # ""
    <3> DEFINE a == [p \in T |-> << "bool", p[2] = e.default >>]
               c == [p \in T |-> "env"]
    <3>1. /\ DOMAIN a = F /\ DOMAIN c = F
          /\ \A k \in F : a[k] = << "bool", k[2] = e.default >> /\ c[k] = "env"
      BY <1>5, <2>2
    <3>2. v2 = Over(a, v1) /\ s2 = Over(c, s1)
      BY <2>2
    <3> HIDE DEF a, c, v2, s2
    <3>3. DOMAIN v2 = F \cup DOMAIN v1 /\ (\A k \in F : v2[k] = a[k]) /\ \A k \in DOMAIN v1 \ F : v2[k] = v1[k]
      <4>1. /\ DOMAIN Over(a, v1) = DOMAIN a \cup DOMAIN v1
            /\ \A k \in DOMAIN a : Over(a, v1)[k] = a[k]
            /\ \A k \in DOMAIN v1 \ DOMAIN a : Over(a, v1)[k] = v1[k]
        BY OverIs
      <4> QED BY <3>1, <3>2, <4>1
    <3>4. DOMAIN s2 = F \cup DOMAIN s1 /\ (\A k \in F : s2[k] = c[k]) /\ \A k \in DOMAIN s1 \ F : s2[k] = s1[k]
      <4>1. /\ DOMAIN Over(c, s1) = DOMAIN c \cup DOMAIN s1
            /\ \A k \in DOMAIN c : Over(c, s1)[k] = c[k]
            /\ \A k \in DOMAIN s1 \ DOMAIN c : Over(c, s1)[k] = s1[k]
        BY OverIs
      <4> QED BY <3>1, <3>2, <4>1
    <3> QED BY <3>1, <3>3, <3>4
  <2> QED BY <2>1, <2>2
<1> HIDE DEF v2, s2
<1> DEFINE cfg == Loaded(lines, e)
<1>9. cfg = Config(v2, m, s2) /\ cfg.value = v2 /\ cfg.source = s2
  BY <1>1, <1>2, <1>3 DEF Config
<1> HIDE DEF cfg
<1>10. DOMAIN v2 = DOMAIN v \cup M \cup F /\ DOMAIN s2 = DOMAIN s \cup M \cup F
  BY <1>4, <1>8
<1>11. \A k \in M : v2[k] = << "string", e.mode >> /\ s2[k] = "env"
  BY <1>4, <1>6, <1>8
<1>12. ASSUME NEW k, k \notin M \cup F
       PROVE  (k \in DOMAIN v => v2[k] = v[k]) /\ (k \in DOMAIN s => s2[k] = s[k])
  BY <1>4, <1>8, <1>12
<1>13. LoadedFrom(cfg, lines, e)
  BY <1>8, <1>9, <1>10, <1>11, <1>12 DEF LoadedFrom, v, s, M, F
<1> QED BY <1>13 DEF cfg

\* No environment changes what is mentioned.
LEMMA LoadedNames ==
    ASSUME NEW lines, NEW e, NEW section
    PROVE  Named(Loaded(lines, e), section) = NamedIn(FileMentions(lines), section)
<1>1. Loaded(lines, e) = Config(Loaded(lines, e).value, FileMentions(lines), Loaded(lines, e).source)
  BY LoadedIs DEF LoadedFrom
<1>2. Loaded(lines, e).mentioned = FileMentions(lines)
  BY <1>1 DEF Config
<1> QED BY <1>2 DEF Named, NamedIn

-----------------------------------------------------------------------------
(* Where a command is *)

\* Which commands reach which steps; nothing is loaded before the text is read.
PlaceInv ==
    /\ commands \in Nat
    /\ commands = 0 => pc = "idle" /\ code = ""
    /\ pc \in {"stat", "read"} =>
          verb \in {"set", "patch", "validate", "strict", "show", "use"} /\ loaded = NoConfig
    /\ pc = "edit" => verb \in {"set", "patch"}
    /\ pc = "write" => verb \in {"init", "set", "patch"}
    /\ pc \in {"version", "models"} => verb = "discover"

\* A command that begins is the one the session has next.
LEMMA BeginIs ==
    ASSUME PlaceInv, NEW v, Begin(v)
    PROVE  /\ commands' \in Nat /\ commands' # 0 /\ verb' = v /\ loaded' = NoConfig
           /\ files' = files /\ env' = env
<1>1. /\ commands \in Nat /\ commands' = commands + 1 /\ script' = script
      /\ script[commands + 1] = v /\ loaded' = NoConfig /\ files' = files /\ env' = env
  BY DEF Begin, PlaceInv
<1>2. commands' # 0 /\ commands' \in Nat
  BY <1>1
<1>3. script'[commands'] = v
  BY <1>1
<1> QED BY <1>1, <1>2, <1>3 DEF verb

\* A step that begins no command goes on with the same one.
LEMMA SameVerb ==
    ASSUME UNCHANGED session
    PROVE  verb' = verb /\ commands' = commands /\ env' = env
BY DEF session, verb

\* The place is right in every step.
LEMMA PlaceStep ==
    ASSUME PlaceInv, [Next]_vars
    PROVE  PlaceInv'
<1>1. CASE BeginSet
  <2>1. Begin("set") /\ pc' \in {"idle", "stat", "edit"}
    BY <1>1 DEF BeginSet, Answer, Goto, Aim
  <2> QED BY <2>1, BeginIs DEF PlaceInv
<1>2. CASE BeginPatch
  <2>1. Begin("patch") /\ pc' \in {"idle", "stat", "edit"}
    BY <1>2 DEF BeginPatch, Answer, Goto, Aim
  <2> QED BY <2>1, BeginIs DEF PlaceInv
<1>3. CASE BeginRead
  <2>1. PICK v \in {"validate", "strict", "show", "use"} : Begin(v)
    BY <1>3 DEF BeginRead
  <2>2. pc' = "stat"
    BY <1>3 DEF BeginRead, Goto
  <2>3. commands' \in Nat /\ commands' # 0 /\ verb' = v /\ loaded' = NoConfig
    BY <2>1, BeginIs
  <2> QED BY <2>2, <2>3 DEF PlaceInv
<1>4. CASE BeginInit
  <2>1. Begin("init") /\ pc' \in {"idle", "write"}
    BY <1>4 DEF BeginInit, Answer, Goto
  <2> QED BY <2>1, BeginIs DEF PlaceInv
<1>5. CASE BeginDiscover
  <2>1. Begin("discover") /\ pc' = "version"
    BY <1>5 DEF BeginDiscover, Goto
  <2> QED BY <2>1, BeginIs DEF PlaceInv
<1>6. CASE Stat
  <2>1. UNCHANGED << session, loaded >> /\ pc = "stat" /\ pc' \in {"idle", "stat", "read"}
    BY <1>6 DEF Stat, Answer, Goto
  <2> QED BY <2>1, SameVerb DEF PlaceInv
<1>7. CASE Read
  <2>1. UNCHANGED session /\ pc = "read" /\ pc' \in {"idle", "edit"}
        /\ (pc' = "edit" => verb \in {"set", "patch"})
    BY <1>7 DEF Read, Answer, Goto
  <2> QED BY <2>1, SameVerb DEF PlaceInv
<1>8. CASE Mutate
  <2>1. UNCHANGED session /\ pc = "edit" /\ pc' \in {"idle", "write"}
    BY <1>8 DEF Mutate, Answer, Goto
  <2> QED BY <2>1, SameVerb DEF PlaceInv
<1>9. CASE Write
  <2>1. UNCHANGED session /\ pc = "write" /\ pc' = "idle"
    BY <1>9 DEF Write, Answer
  <2> QED BY <2>1, SameVerb DEF PlaceInv
<1>10. CASE ProbeVersion \/ ProbeModels \/ Deliver
  <2>1. UNCHANGED session /\ pc \in {"version", "models"} /\ pc' \in {"idle", "version", "models"}
    <3>1. CASE ProbeVersion
      BY <3>1 DEF ProbeVersion, NextPort, Goto
    <3>2. CASE ProbeModels
      BY <3>2 DEF ProbeModels, NextPort, Goto, Answer
    <3>3. CASE Deliver
      BY <3>3 DEF Deliver, Answer
    <3> QED BY <1>10, <3>1, <3>2, <3>3
  <2> QED BY <2>1, SameVerb DEF PlaceInv
<1>11. CASE \/ \E p \in Place : HandEdit(p)
            \/ \E port \in DOMAIN servers : ServerDrift(port)
            \/ UNCHANGED vars
  <2>1. UNCHANGED << session, pc, code, loaded >>
    BY <1>11 DEF HandEdit, ServerDrift, vars, job
  <2> QED BY <2>1, SameVerb DEF PlaceInv
<1> QED BY <1>1, <1>2, <1>3, <1>4, <1>5, <1>6, <1>7, <1>8, <1>9, <1>10, <1>11 DEF Next, Command

\* Nothing was begun at first.
LEMMA PlaceFirst == ASSUME Init PROVE PlaceInv
BY DEF Init, PlaceInv

-----------------------------------------------------------------------------
(* What a command that ended has read *)

\* Of a shown configuration: it is what was loaded.
ShowInv ==
    verb = "show" /\ pc = "idle" /\ code = "ok" =>
        Decodes(base.lines) /\ loaded = Loaded(base.lines, env)

\* Of a used one: it is refused if and only if one of its backends cannot be made ready.
UseInv ==
    verb = "use" /\ pc = "idle" /\ loaded # NoConfig =>
        /\ loaded = Loaded(base.lines, env)
        /\ code = "ok" <=> BackendErrors(loaded, env) = {}

LoadInv == PlaceInv /\ ShowInv /\ UseInv

\* No error is called a success.
LEMMA OkIsNoError == ASSUME NEW cfg, NEW e PROVE "ok" \notin BackendErrors(cfg, e)
BY DEF BackendErrors, BackendError, ResolveCredential, ValueError

\* What Read does.
LEMMA ReadIs ==
    ASSUME Read
    PROVE  /\ pc = "read" /\ UNCHANGED << session, files >>
           /\ \/ UNCHANGED loaded /\ code' # "ok" /\ pc' = "idle"
              \/ pc' = "edit"
              \/ /\ LoadError(files[target].lines, env) = ""
                 /\ base' = files[target] /\ loaded' = Loaded(base'.lines, env)
                 /\ pc' = "idle"
                 /\ verb = "use" => (code' = "ok" <=> BackendErrors(loaded', env) = {})
<1> DEFINE text == files[target]
           error == LoadError(text.lines, env)
<1>1. pc = "read" /\ UNCHANGED << session, files >>
  BY DEF Read
<1>2. CASE text = NoFile
  BY <1>1, <1>2 DEF Read, Answer
<1>3. CASE text # NoFile /\ error # ""
  <2>1. error # "ok"
    BY <1>3 DEF LoadError
  <2> QED BY <1>1, <1>3, <2>1 DEF Read, Answer
<1>4. CASE text # NoFile /\ error = ""
  <2>1. /\ loaded' = Loaded(text.lines, env) /\ base' = text
        /\ \/ verb \in {"set", "patch"} /\ Goto("edit")
           \/ verb = "show" /\ Answer("ok", 0)
           \/ verb \in {"validate", "strict"} /\ pc' = "idle"
           \/ /\ verb = "use"
              /\ IF BackendErrors(loaded', env) = {} THEN Answer("ok", 0)
                 ELSE \E e \in BackendErrors(loaded', env) : Answer(e, 3)
    <3> HIDE DEF error
    <3>1. /\ loaded' = Loaded(text.lines, env) /\ base' = text
          /\ \/ verb \in {"set", "patch"} /\ Goto("edit") /\ UNCHANGED verdicts
             \/ verb = "show" /\ Answer("ok", 0) /\ UNCHANGED verdicts
             \/ /\ verb \in {"validate", "strict"}
                /\ \E passed \in Verdicts(text.lines, env, verb = "strict") :
                     IF passed THEN Answer("ok", 0) /\ Say("passed")
                     ELSE /\ Answer("E_CONFIG_VALIDATION_FAILED", 1)
                          /\ IF verb = "validate" THEN Say("failed") ELSE UNCHANGED verdicts
             \/ /\ verb = "use" /\ UNCHANGED verdicts
                /\ IF BackendErrors(loaded', env) = {} THEN Answer("ok", 0)
                   ELSE \E e \in BackendErrors(loaded', env) : Answer(e, 3)
      BY <1>4 DEF Read, error
    <3> QED BY <3>1 DEF Answer
  <2>2. "ok" \notin BackendErrors(loaded', env)
    BY OkIsNoError
  <2> QED BY <1>1, <1>4, <2>1, <2>2 DEF Answer, Goto
<1> QED BY <1>2, <1>3, <1>4

\* Nothing but the reading concerns what is shown or used.
LEMMA LoadStep ==
    ASSUME LoadInv, [Next]_vars
    PROVE  LoadInv'
<1>1. PlaceInv /\ PlaceInv'
  BY PlaceStep DEF LoadInv
<1>2. CASE pc' = "idle" => verb' \notin {"show", "use"}
  BY <1>1, <1>2 DEF LoadInv, ShowInv, UseInv
<1>3. CASE BeginSet \/ BeginPatch \/ BeginInit \/ BeginDiscover
  <2>1. \E v \in {"set", "patch", "init", "discover"} : Begin(v)
    BY <1>3 DEF BeginSet, BeginPatch, BeginInit, BeginDiscover
  <2>2. verb' \notin {"show", "use"}
    BY <1>1, <2>1, BeginIs
  <2> QED BY <1>2, <2>2
<1>4. CASE BeginRead
  <2>1. pc' = "stat"
    BY <1>4 DEF BeginRead, Goto
  <2> QED BY <1>2, <2>1
<1>5. CASE Stat
  <2>1. pc = "stat" /\ UNCHANGED loaded /\ (pc' = "idle" => code' = "E_CONFIG_MISSING")
    BY <1>5 DEF Stat, Answer, Goto
  <2>2. loaded' = NoConfig
    BY <1>1, <2>1 DEF PlaceInv
  <2> QED BY <1>1, <2>1, <2>2 DEF LoadInv, ShowInv, UseInv
<1>6. CASE Read
  <2>1. verb' = verb /\ env' = env
    BY <1>6, ReadIs, SameVerb
  <2>2. CASE UNCHANGED loaded /\ code' # "ok" /\ pc' = "idle"
    <3>1. loaded' = NoConfig
      BY <1>1, <1>6, <2>2, ReadIs DEF PlaceInv
    <3> QED BY <1>1, <2>2, <3>1 DEF LoadInv, ShowInv, UseInv
  <2>3. CASE pc' = "edit"
    BY <1>2, <2>3
  <2>4. CASE /\ LoadError(files[target].lines, env) = ""
             /\ base' = files[target] /\ loaded' = Loaded(base'.lines, env)
             /\ pc' = "idle"
             /\ verb = "use" => (code' = "ok" <=> BackendErrors(loaded', env) = {})
    <3>1. Decodes(base'.lines)
      BY <2>4 DEF LoadError
    <3>2. BackendErrors(loaded', env') = BackendErrors(loaded', env) /\ Loaded(base'.lines, env') = Loaded(base'.lines, env)
      BY <2>1
    <3>3. ShowInv'
      BY <2>4, <3>1, <3>2 DEF ShowInv
    <3>4. UseInv'
      BY <2>1, <2>4, <3>2 DEF UseInv
    <3> QED BY <1>1, <3>3, <3>4 DEF LoadInv
  <2> QED BY <1>6, <2>2, <2>3, <2>4, ReadIs
<1>7. CASE Mutate \/ Write \/ ProbeVersion \/ ProbeModels \/ Deliver
  <2>1. verb' = verb
    <3>1. UNCHANGED session
      BY <1>7 DEF Mutate, Write, ProbeVersion, ProbeModels, Deliver
    <3> QED BY <3>1, SameVerb
  <2>2. pc \in {"edit", "write", "version", "models"}
    BY <1>7 DEF Mutate, Write, ProbeVersion, ProbeModels, Deliver
  <2>3. verb' \notin {"show", "use"}
    BY <1>1, <2>1, <2>2 DEF PlaceInv
  <2> QED BY <1>2, <2>3
<1>8. CASE \/ \E p \in Place : HandEdit(p)
           \/ \E port \in DOMAIN servers : ServerDrift(port)
           \/ UNCHANGED vars
  <2>1. UNCHANGED << session, pc, code, base, loaded >>
    BY <1>8 DEF HandEdit, ServerDrift, vars, job
  <2>2. verb' = verb /\ env' = env
    BY <2>1, SameVerb
  <2> QED BY <1>1, <2>1, <2>2 DEF LoadInv, ShowInv, UseInv
<1> QED BY <1>3, <1>4, <1>5, <1>6, <1>7, <1>8 DEF Next, Command

THEOREM LoadsHold == Spec => []LoadInv
<1>1. Init => LoadInv
  <2>1. Init => verb = "none"
    BY DEF Init, verb
  <2> QED BY <2>1, PlaceFirst DEF LoadInv, ShowInv, UseInv
<1>2. LoadInv /\ [Next]_vars => LoadInv'
  BY LoadStep
<1> QED BY <1>1, <1>2, PTL DEF Spec

\* What is defaulted are fields, never tables.
LEMMA DefaultsAreFields ==
    ASSUME NEW m, NEW k \in DefaultKeys(m)
    PROVE  IsField(k)
<1>1. CASE k \in {<< "meta", "schema_version" >>, Mode}
  BY <1>1 DEF IsField, ProfileFields, Mode
<1>2. CASE k \in { BackendKey(b, "timeout_ms") : b \in NamedIn(m, "backends") }
  BY <1>2 DEF IsField, BackendFields, BackendKey
<1>3. CASE k \in { << "routing", t, "fallback" >> : t \in NamedIn(m, "routing") }
  BY <1>3 DEF IsField, RoutingFields
<1> QED BY <1>1, <1>2, <1>3 DEF DefaultKeys

\* Each default is marked as one where the file does not mention it.
LEMMA DefaultsAreMarked ==
    ASSUME NEW v, NEW m, NEW s
    PROVE  DefaultKeys(m) \subseteq DefaultMarks(Config(v, m, s))
<1>1. Named(Config(v, m, s), "backends") = NamedIn(m, "backends")
      /\ Named(Config(v, m, s), "routing") = NamedIn(m, "routing")
  BY DEF Named, NamedIn, Config
<1> QED BY <1>1 DEF DefaultKeys, DefaultMarks, Mode

\* The layers below the environment: a value of the file is the file's or a defaulted
\* zero, and all others are defaults.
LEMMA PlainProvenance ==
    ASSUME NEW lines, Decodes(lines), NEW k \in DOMAIN PlainValues(lines)
    PROVE  LET file    == Values(lines)
               plain   == WithDefaults(FromFile(lines))
               value   == PlainValues(lines)[k]
               default == Defaults(plain)[k]
           IN  /\ k \in DOMAIN PlainSources(lines)
               /\ \/ /\ PlainSources(lines)[k] = "file" /\ k \in DOMAIN file
                     /\ \/ value = file[k]
                        \/ file[k] = Zero[TypeOf(k)] /\ k \in DOMAIN Defaults(plain) /\ value = default
                  \/ PlainSources(lines)[k] = "default" /\ k \notin DOMAIN file /\ value = default
<1> DEFINE file == Values(lines)
           m == FileMentions(lines)
           plain == WithDefaults(FromFile(lines))
           K == DefaultedKeys(file, m)
           D == Defaults(plain)
           marks == DefaultMarks(plain)
           low == [p \in K |-> D[p]]
           above == [p \in m |-> "file"]
           below == [p \in marks |-> "default"]
<1>1. D = Defaults(FromFile(lines)) /\ DOMAIN D = DefaultKeys(m)
  <2> DEFINE f == [p \in m |-> "file"]
  <2>1. FromFile(lines) = Config(file, m, f) /\ plain = Config(PlainValues(lines), m, f)
    BY PlainIs
  <2> HIDE DEF file, m, f, plain
  <2>2. /\ DOMAIN Defaults(Config(PlainValues(lines), m, f)) = DefaultKeys(m)
        /\ Defaults(Config(PlainValues(lines), m, f)) = Defaults(Config(file, m, f))
    BY DefaultsAre
  <2> QED BY <2>1, <2>2
<1>2. DefaultKeys(m) \subseteq marks
  BY PlainIs, DefaultsAreMarked
<1>3. DOMAIN file = Keys(lines) /\ Keys(lines) \subseteq m
  BY DEF Values, FileMentions
<1>4. K \subseteq DefaultKeys(m) /\ \A q \in K : q \notin DOMAIN file \/ file[q] = Zero[TypeOf(q)]
  BY DEF DefaultedKeys
<1>5. \A q \in DefaultKeys(m) : q \notin Tables(lines)
  BY DefaultsAreFields DEF Decodes
<1>6. PlainValues(lines) = Over(low, file) /\ PlainSources(lines) = Over(above, below)
  BY <1>1 DEF PlainValues, PlainSources
<1>7. DOMAIN low = K /\ DOMAIN above = m /\ DOMAIN below = marks
      /\ (\A q \in K : low[q] = D[q]) /\ (\A q \in m : above[q] = "file") /\ (\A q \in marks : below[q] = "default")
  OBVIOUS
<1>8. m = Keys(lines) \cup Tables(lines)
  BY DEF FileMentions
<1> HIDE DEF file, m, K, D, marks, low, above, below
<1>9. /\ DOMAIN Over(low, file) = K \cup DOMAIN file
      /\ \A q \in K : Over(low, file)[q] = low[q]
      /\ \A q \in DOMAIN file \ K : Over(low, file)[q] = file[q]
  BY <1>7, OverIs
<1>10. /\ DOMAIN Over(above, below) = m \cup marks
       /\ \A q \in m : Over(above, below)[q] = above[q]
       /\ \A q \in marks \ m : Over(above, below)[q] = below[q]
  <2>1. /\ DOMAIN Over(above, below) = DOMAIN above \cup DOMAIN below
        /\ \A q \in DOMAIN above : Over(above, below)[q] = above[q]
        /\ \A q \in DOMAIN below \ DOMAIN above : Over(above, below)[q] = below[q]
    BY OverIs
  <2> QED BY <1>7, <2>1
<1>11. CASE k \in DOMAIN file
  <2>1. k \in DOMAIN PlainSources(lines) /\ PlainSources(lines)[k] = "file"
    BY <1>3, <1>6, <1>7, <1>10, <1>11
  <2>2. CASE k \in K
    BY <1>1, <1>4, <1>6, <1>7, <1>9, <1>11, <2>1, <2>2 DEF file, D
  <2>3. CASE k \notin K
    BY <1>6, <1>9, <1>11, <2>1, <2>3 DEF file
  <2> QED BY <2>2, <2>3
<1>12. CASE k \notin DOMAIN file
  <2>1. k \in K
    BY <1>6, <1>9, <1>12
  <2>2. k \notin m /\ k \in marks
    BY <1>2, <1>3, <1>4, <1>5, <1>8, <1>12, <2>1
  <2>3. PlainSources(lines)[k] = "default" /\ k \in DOMAIN PlainSources(lines)
    BY <1>6, <1>7, <1>10, <2>2
  <2> QED BY <1>6, <1>7, <1>9, <1>12, <2>1, <2>3 DEF file, D
<1> QED BY <1>11, <1>12

\* What is shown is said to come from where it does.
LEMMA ShownIsTrue == ASSUME ShowInv PROVE ProvenanceTrue
<1> SUFFICES ASSUME verb = "show", pc = "idle", code = "ok" PROVE ProvenanceTrue
  BY DEF ProvenanceTrue
<1> DEFINE lines == base.lines
           file   == Values(lines)
           plain  == WithDefaults(FromFile(lines))
           source == loaded.source
           Overridden == ModeKeys(env) \cup FlagKeys(lines, env)
<1>1. Decodes(lines) /\ LoadedFrom(loaded, lines, env)
  BY LoadedIs DEF ShowInv
<1>2. /\ DOMAIN loaded.value = DOMAIN PlainValues(lines) \cup Overridden
      /\ DOMAIN source = DOMAIN PlainSources(lines) \cup Overridden
      /\ \A k \in FlagKeys(lines, env) : loaded.value[k] = << "bool", k[2] = env.default >> /\ source[k] = "env"
      /\ \A k \in ModeKeys(env) : loaded.value[k] = << "string", env.mode >> /\ source[k] = "env"
      /\ \A k : k \notin Overridden =>
            /\ k \in DOMAIN PlainValues(lines) => loaded.value[k] = PlainValues(lines)[k]
            /\ k \in DOMAIN PlainSources(lines) => source[k] = PlainSources(lines)[k]
  BY <1>1 DEF LoadedFrom
<1>3. (\A k \in ModeKeys(env) : k = Mode) /\ \A k \in FlagKeys(lines, env) : k # Mode
  BY ModeIsNoBackendKey DEF ModeKeys, FlagKeys
<1>4. \A k \in DOMAIN PlainValues(lines) :
        /\ k \in DOMAIN PlainSources(lines)
        /\ \/ /\ PlainSources(lines)[k] = "file" /\ k \in DOMAIN file
              /\ \/ PlainValues(lines)[k] = file[k]
                 \/ /\ file[k] = Zero[TypeOf(k)] /\ k \in DOMAIN Defaults(plain)
                    /\ PlainValues(lines)[k] = Defaults(plain)[k]
           \/ /\ PlainSources(lines)[k] = "default" /\ k \notin DOMAIN file
              /\ PlainValues(lines)[k] = Defaults(plain)[k]
  BY <1>1, PlainProvenance
<1> HIDE DEF lines, file, plain, source, Overridden
<1>5. DOMAIN loaded.value \subseteq DOMAIN source
  BY <1>2, <1>4
<1>6. ASSUME NEW k \in DOMAIN loaded.value
      PROVE  /\ source[k] = "file" =>
                    /\ k \in DOMAIN file
                    /\ \/ loaded.value[k] = file[k]
                       \/ /\ file[k] = Zero[TypeOf(k)] /\ k \in DOMAIN Defaults(plain)
                          /\ loaded.value[k] = Defaults(plain)[k]
             /\ source[k] = "default" =>
                    k \notin DOMAIN file /\ loaded.value[k] = Defaults(plain)[k]
             /\ source[k] = "env" =>
                    loaded.value[k] = IF k = << "profile", "mode" >> THEN << "string", env.mode >>
                                      ELSE << "bool", k[2] = env.default >>
  <2>1. CASE k \in ModeKeys(env)
    BY <1>2, <1>3, <2>1 DEF Mode
  <2>2. CASE k \in FlagKeys(lines, env)
    BY <1>2, <1>3, <2>2 DEF Mode
  <2>3. CASE k \notin Overridden
    <3>1. k \in DOMAIN PlainValues(lines) /\ loaded.value[k] = PlainValues(lines)[k]
          /\ source[k] = PlainSources(lines)[k]
      BY <1>2, <1>4, <2>3
    <3> QED BY <1>4, <3>1
  <2> QED BY <2>1, <2>2, <2>3 DEF Overridden
<1> QED BY <1>5, <1>6 DEF ProvenanceTrue, lines, file, plain, source

\* ProvenanceTrue: `config show` names the layer that each value comes from.
THEOREM ProvenanceHolds == Spec => []ProvenanceTrue
BY LoadsHold, ShownIsTrue, PTL DEF LoadInv

-----------------------------------------------------------------------------
(* What validation sees *)

\* The aliases of a catalogue can be visited in some order, so that there is a verdict.
LEMMA VisitsExist ==
    ASSUME NEW cfg
    PROVE  \E first \in FirstVisits(cfg) : TRUE
<1> DEFINE first == [t \in Targets(cfg) |-> CHOOSE a \in Named(cfg, "models") : TargetOf(cfg, a) = t]
<1>1. ASSUME NEW t \in Targets(cfg)
      PROVE  first[t] \in Named(cfg, "models") /\ TargetOf(cfg, first[t]) = t
  BY DEF Targets
<1> HIDE DEF first
<1>2. first \in [Targets(cfg) -> Named(cfg, "models")]
  BY <1>1 DEF first
<1> QED BY <1>1, <1>2 DEF FirstVisits

\* A passing order has no error.
LEMMA AcceptedIs ==
    ASSUME NEW lines, NEW e, TRUE \in Verdicts(lines, e, FALSE)
    PROVE  \E first \in FirstVisits(Loaded(lines, e)) :
              \A key, reason : Error(key, reason) \notin Findings(Loaded(lines, e), first)
<1>1. PICK first \in FirstVisits(Loaded(lines, e)) : Passed(Findings(Loaded(lines, e), first), FALSE)
  BY DEF Verdicts
<1>2. Errors(Findings(Loaded(lines, e), first)) = {}
  BY <1>1 DEF Passed
<1>3. ASSUME NEW key, NEW reason
      PROVE  Error(key, reason) \notin Findings(Loaded(lines, e), first)
  <2>1. Error(key, reason)[1] = "error"
    BY DEF Error
  <2> QED BY <1>2, <2>1 DEF Errors
<1> QED BY <1>3

\* Verdicts are one or the other.
LEMMA VerdictsAreBoolean ==
    ASSUME NEW lines, NEW e, NEW strict \in BOOLEAN, Verdicts(lines, e, strict) # {FALSE}
    PROVE  TRUE \in Verdicts(lines, e, strict)
<1> DEFINE cfg == Loaded(lines, e)
<1>1. PICK first \in FirstVisits(cfg) : TRUE
  BY VisitsExist
<1>2. Passed(Findings(cfg, first), strict) \in Verdicts(lines, e, strict)
  BY <1>1 DEF Verdicts
<1>3. Verdicts(lines, e, strict) \subseteq BOOLEAN
  BY DEF Verdicts, Passed
<1> QED BY <1>2, <1>3

\* Validation of a credential covers every way in which its shape prevents its use,
\* but for a literal's line break.
LEMMA ShapeIsValidated ==
    ASSUME NEW cfg, NEW b, HasCredential(cfg, b),
           \A key, reason : Error(key, reason) \notin CredentialFindings(cfg, b)
    PROVE  LET val(f) == Str(cfg, CredentialKey(b, f))
           IN  ResolveCredential(cfg, b, env) = "" <=>
                   /\ Provided(cfg, b)
                   /\ val("source") = "literal" => val("literal_value") \notin Broken
<1> DEFINE val(f) == Str(cfg, CredentialKey(b, f))
           has(f) == CredentialKey(b, f) \in DOMAIN cfg.value
           ref(field, reason) == Error(CredentialKey(b, field), reason)
           var == val("environment_variable")
           answer == ResolveCredential(cfg, b, env)
<1>1. /\ When(val("source") \notin {"literal", "environment", "secure_store"},
                  ref("source", "SOURCE_UNSUPPORTED")) \subseteq CredentialFindings(cfg, b)
      /\ When(val("source") = "literal" /\ Blankish(val("literal_value")),
                  ref("literal_value", "LITERAL_REQUIRED")) \subseteq CredentialFindings(cfg, b)
      /\ When(val("source") = "environment" /\ val("environment_variable") \notin VariableName,
                  ref("environment_variable", "ENVIRONMENT_VARIABLE")) \subseteq CredentialFindings(cfg, b)
      /\ When(val("source") = "secure_store" /\ Unidentified(val("service"), val("account")),
                  ref("service", "SECURE_STORE_IDENTITY_REQUIRED")) \subseteq CredentialFindings(cfg, b)
  BY DEF CredentialFindings
<1>2. ASSUME NEW condition \in BOOLEAN, NEW key, NEW reason,
             When(condition, Error(key, reason)) \subseteq CredentialFindings(cfg, b)
      PROVE  ~condition
  BY <1>2 DEF When
<1>3. val("source") \in {"literal", "environment", "secure_store"}
  BY <1>1, <1>2
<1>4. val("source") = "literal" => ~Blankish(val("literal_value"))
  BY <1>1, <1>2
<1>5. val("source") = "environment" => val("environment_variable") \in VariableName
  BY <1>1, <1>2
<1>6. val("source") = "secure_store" => ~Unidentified(val("service"), val("account"))
  BY <1>1, <1>2
<1>7. val("source") = "environment" => ~Blankish(val("environment_variable"))
  BY <1>5, StringAssumption DEF Blankish
<1>8. SourceOf(cfg, b) = val("source")
  BY DEF SourceOf
<1>9. CASE val("source") = "literal"
  <2>1. answer = ValueError(val("literal_value"))
    BY <1>4, <1>9 DEF ResolveCredential
  <2>2. Provided(cfg, b)
    BY <1>8, <1>9 DEF Provided
  <2> QED BY <1>9, <2>1, <2>2 DEF ValueError
<1>10. CASE val("source") = "environment"
  <2>1. answer = IF var \notin DOMAIN env.secrets THEN "E_ENVIRONMENT_MISSING"
                 ELSE IF Blankish(env.secrets[var]) THEN "E_ENVIRONMENT_EMPTY"
                 ELSE ValueError(env.secrets[var])
    BY <1>7, <1>10 DEF ResolveCredential
  <2>2. Provided(cfg, b) <=> /\ var \in DOMAIN env.secrets
                             /\ ~Blankish(env.secrets[var]) /\ env.secrets[var] \notin Broken
    BY <1>8, <1>10 DEF Provided
  <2> HIDE DEF answer, var
  <2>3. answer = "" <=> /\ var \in DOMAIN env.secrets
                        /\ ~Blankish(env.secrets[var]) /\ env.secrets[var] \notin Broken
    BY <2>1 DEF ValueError
  <2> QED BY <1>10, <2>2, <2>3 DEF answer
<1>11. CASE val("source") = "secure_store"
  <2>1. answer = IF env.store = "usable" THEN "" ELSE "E_SECURE_STORE"
    BY <1>6, <1>11 DEF ResolveCredential, Unidentified
  <2>2. Provided(cfg, b) <=> env.store = "usable"
    BY <1>8, <1>11 DEF Provided
  <2> QED BY <1>11, <2>1, <2>2
<1> QED BY <1>3, <1>9, <1>10, <1>11

\* So a backend of a configuration that validates can be made ready if it is provided
\* with what it needs and nothing was overlooked.
LEMMA ReadyWhenProvided ==
    ASSUME NEW cfg, NEW b,
           \A key, reason : Error(key, reason) \notin CredentialFindings(cfg, b)
    PROVE  BackendError(cfg, b, env) = "" <=> Provided(cfg, b) /\ ~Overlooked(cfg, b)
<1> DEFINE remote == /\ Str(cfg, BackendKey(b, "kind")) = "openai_compat"
                     /\ ~Flag(cfg, BackendKey(b, "remote_allowed"))
                     /\ Str(cfg, BackendKey(b, "base_url")) \in Remote
           broken == SourceOf(cfg, b) = "literal" /\ Str(cfg, CredentialKey(b, "literal_value")) \in Broken
<1>1. Overlooked(cfg, b) <=> remote \/ broken
  BY DEF Overlooked
<1>2. BackendError(cfg, b, env) = "" <=> ~remote /\ ResolveCredential(cfg, b, env) = ""
  BY DEF BackendError
<1>3. ResolveCredential(cfg, b, env) = "" <=> Provided(cfg, b) /\ ~broken
  <2>1. CASE HasCredential(cfg, b)
    BY <2>1, ShapeIsValidated DEF SourceOf
  <2>2. CASE ~HasCredential(cfg, b)
    <3>1. ResolveCredential(cfg, b, env) = ""
      BY <2>2 DEF ResolveCredential
    <3>2. SourceOf(cfg, b) = ""
      BY <2>2 DEF SourceOf
    <3> QED BY <3>1, <3>2 DEF Provided
  <2> QED BY <2>1, <2>2
<1> QED BY <1>1, <1>2, <1>3

LEMMA UseIsJust == ASSUME UseInv PROVE UsableWhenProvided
<1> DEFINE backends == Named(loaded, "backends")
<1> SUFFICES ASSUME verb = "use", pc = "idle", loaded # NoConfig,
                    Verdicts(base.lines, env, FALSE) # {FALSE}
             PROVE  code = "ok" <=> \A b \in backends : Provided(loaded, b) /\ ~Overlooked(loaded, b)
  BY DEF UsableWhenProvided
<1>1. loaded = Loaded(base.lines, env) /\ (code = "ok" <=> BackendErrors(loaded, env) = {})
  BY DEF UseInv
<1>2. TRUE \in Verdicts(base.lines, env, FALSE)
  BY VerdictsAreBoolean
<1>3. PICK first \in FirstVisits(loaded) : \A key, reason : Error(key, reason) \notin Findings(loaded, first)
  BY <1>1, <1>2, AcceptedIs
<1>4. BackendFindings(loaded) \subseteq Findings(loaded, first)
  BY DEF Findings
<1>5. backends # {}
  <2>1. When(backends = {}, Error(<< "backends" >>, "no_backend")) \subseteq BackendFindings(loaded)
    BY DEF BackendFindings
  <2> QED BY <1>3, <1>4, <2>1 DEF When
<1>6. ASSUME NEW b \in backends
      PROVE  BackendError(loaded, b, env) = "" <=> Provided(loaded, b) /\ ~Overlooked(loaded, b)
  <2>1. CredentialFindings(loaded, b) \subseteq OneBackendFindings(loaded, b)
    BY DEF OneBackendFindings
  <2>2. OneBackendFindings(loaded, b) \subseteq BackendFindings(loaded)
    BY DEF BackendFindings
  <2> QED BY <1>3, <1>4, <2>1, <2>2, ReadyWhenProvided
<1>7. BackendErrors(loaded, env) = {} <=> \A b \in backends : BackendError(loaded, b, env) = ""
  BY <1>5 DEF BackendErrors
<1> QED BY <1>1, <1>6, <1>7

\* UsableWhenProvided: what `config validate` may pass can be used exactly where the
\* world has its credentials and the file has nothing that validation overlooks.
THEOREM UsesHold == Spec => []UsableWhenProvided
BY LoadsHold, UseIsJust, PTL DEF LoadInv

-----------------------------------------------------------------------------
(* What was said of a text *)

\* Each thing said of the text at a place is so of the text that is there.
VerdictsHold(p) ==
    LET lines == files[p].lines IN
    /\ "accepted" \in verdicts[p] => TRUE \in Judgements(lines)
    /\ "E_CONFIG_INVALID" \in verdicts[p] => ~Decodes(lines)
    /\ "E_INVALID_ARG" \in verdicts[p] => env.default \notin Named(FromFile(lines), "backends")
    /\ "failed" \in verdicts[p] =>
          LoadError(lines, env) = "" /\ FALSE \in Verdicts(lines, env, FALSE)

\* And what is about to be written was accepted.
VerdictInv ==
    /\ DOMAIN files = Place /\ DOMAIN verdicts = Place
    /\ \A p \in Place : VerdictsHold(p)
    /\ pc = "write" /\ verb # "init" => TRUE \in Judgements(draft.lines)

\* What Read says of the text.
LEMMA ReadSays ==
    ASSUME Read
    PROVE  \/ UNCHANGED verdicts
           \/ \E verdict :
                /\ verdicts' = [verdicts EXCEPT ![target] = @ \cup {verdict}]
                /\ verdict # "accepted"
                /\ verdict = "E_CONFIG_INVALID" => ~Decodes(files[target].lines)
                /\ verdict = "E_INVALID_ARG" => env.default \notin Named(FromFile(files[target].lines), "backends")
                /\ verdict = "failed" =>
                      /\ LoadError(files[target].lines, env) = ""
                      /\ FALSE \in Verdicts(files[target].lines, env, FALSE)
<1> DEFINE text == files[target]
           error == LoadError(text.lines, env)
<1>1. CASE text = NoFile
  BY <1>1 DEF Read
<1>2. CASE text # NoFile /\ error # ""
  <2>1. Say(error)
    BY <1>2 DEF Read
  <2>2. /\ error \in {"E_CONFIG_INVALID", "E_INVALID_ARG"}
        /\ error = "E_CONFIG_INVALID" => ~Decodes(text.lines)
        /\ error = "E_INVALID_ARG" => env.default \notin Named(FromFile(text.lines), "backends")
    BY <1>2 DEF LoadError
  <2> HIDE DEF error
  <2> QED BY <2>1, <2>2 DEF Say
<1>3. CASE text # NoFile /\ error = ""
  <2> HIDE DEF error
  <2>1. \/ UNCHANGED verdicts
        \/ /\ verb \in {"validate", "strict"}
           /\ \E passed \in Verdicts(text.lines, env, verb = "strict") :
                IF passed THEN Say("passed")
                ELSE IF verb = "validate" THEN Say("failed") ELSE UNCHANGED verdicts
    BY <1>3 DEF Read, error
  <2>2. CASE UNCHANGED verdicts
    BY <2>2
  <2>3. CASE /\ verb \in {"validate", "strict"}
             /\ \E passed \in Verdicts(text.lines, env, verb = "strict") :
                  IF passed THEN Say("passed")
                  ELSE IF verb = "validate" THEN Say("failed") ELSE UNCHANGED verdicts
    <3>1. PICK passed \in Verdicts(text.lines, env, verb = "strict") :
                  IF passed THEN Say("passed")
                  ELSE IF verb = "validate" THEN Say("failed") ELSE UNCHANGED verdicts
      BY <2>3
    <3>2. CASE passed
      BY <3>1, <3>2 DEF Say
    <3>3. CASE ~passed /\ verb = "validate"
      <4>1. passed \in BOOLEAN /\ passed \in Verdicts(text.lines, env, FALSE)
        BY <3>1, <3>3 DEF Verdicts, Passed
      <4>2. FALSE \in Verdicts(text.lines, env, FALSE)
        BY <3>3, <4>1
      <4> QED BY <1>3, <3>1, <3>3, <4>2 DEF Say, error
    <3>4. CASE ~passed /\ verb # "validate"
      BY <3>1, <3>4
    <3> QED BY <3>2, <3>3, <3>4
  <2> QED BY <2>1, <2>2, <2>3
<1> QED BY <1>1, <1>2, <1>3

\* What is said stays so, as files change only with what is said of them.
LEMMA VerdictStep ==
    ASSUME PlaceInv, VerdictInv, [Next]_vars, TRUE \in Judgements(Text(Scaffold).lines)
    PROVE  VerdictInv'
<1>1. ASSUME UNCHANGED << files, verdicts >>, env' = env
      PROVE  (DOMAIN files = Place /\ DOMAIN verdicts = Place /\ \A p \in Place : VerdictsHold(p))'
  BY <1>1 DEF VerdictInv, VerdictsHold
<1>2. CASE BeginSet \/ BeginPatch \/ BeginRead \/ BeginDiscover
  <2>1. /\ \E v : Begin(v)
        /\ UNCHANGED verdicts
    BY <1>2 DEF BeginSet, BeginPatch, BeginRead, BeginDiscover
  <2>2. pc' # "write"
    BY <1>2 DEF BeginSet, BeginPatch, BeginRead, BeginDiscover, Answer, Goto, Aim
  <2>3. files' = files /\ env' = env
    BY <2>1, BeginIs
  <2> QED BY <1>1, <2>1, <2>2, <2>3 DEF VerdictInv
<1>3. CASE BeginInit
  <2>1. Begin("init") /\ UNCHANGED verdicts
    BY <1>3 DEF BeginInit
  <2>2. files' = files /\ env' = env /\ verb' = "init"
    BY <2>1, BeginIs
  <2> QED BY <1>1, <2>1, <2>2 DEF VerdictInv
<1>4. CASE Stat \/ ProbeVersion \/ ProbeModels \/ Deliver
  <2>1. UNCHANGED << session, files, verdicts >> /\ pc' # "write"
    BY <1>4 DEF Stat, ProbeVersion, ProbeModels, Deliver, NextPort, Answer, Goto
  <2> QED BY <1>1, <2>1, SameVerb DEF VerdictInv
<1>5. CASE Read
  <2>1. env' = env /\ files' = files /\ pc' # "write"
    BY <1>5, ReadIs, SameVerb
  <2>2. CASE UNCHANGED verdicts
    BY <1>1, <2>1, <2>2 DEF VerdictInv
  <2>3. ASSUME NEW verdict,
               verdicts' = [verdicts EXCEPT ![target] = @ \cup {verdict}],
               verdict # "accepted",
               verdict = "E_CONFIG_INVALID" => ~Decodes(files[target].lines),
               verdict = "E_INVALID_ARG" => env.default \notin Named(FromFile(files[target].lines), "backends"),
               verdict = "failed" =>
                      /\ LoadError(files[target].lines, env) = ""
                      /\ FALSE \in Verdicts(files[target].lines, env, FALSE)
        PROVE  VerdictInv'
    <3>1. ASSUME NEW p \in Place PROVE VerdictsHold(p)'
      <4>1. VerdictsHold(p)
        BY DEF VerdictInv
      <4>2. verdicts'[p] = IF p = target THEN verdicts[p] \cup {verdict} ELSE verdicts[p]
        BY <2>3 DEF VerdictInv
      <4>3. CASE p = target
        <5>1. files'[p] = files[p] /\ verdicts'[p] = verdicts[p] \cup {verdict}
          BY <2>1, <4>2, <4>3
        <5>2. LET lines == files[p].lines IN
              /\ "accepted" \in verdicts'[p] => TRUE \in Judgements(lines)
              /\ "E_CONFIG_INVALID" \in verdicts'[p] => ~Decodes(lines)
              /\ "E_INVALID_ARG" \in verdicts'[p] => env.default \notin Named(FromFile(lines), "backends")
              /\ "failed" \in verdicts'[p] =>
                    LoadError(lines, env) = "" /\ FALSE \in Verdicts(lines, env, FALSE)
          BY <2>3, <4>1, <4>3, <5>1 DEF VerdictsHold
        <5> QED BY <2>1, <5>1, <5>2 DEF VerdictsHold
      <4>4. CASE p # target
        BY <2>1, <4>1, <4>2, <4>4 DEF VerdictsHold
      <4> QED BY <4>3, <4>4
    <3>2. (DOMAIN files = Place /\ DOMAIN verdicts = Place)'
      BY <2>1, <2>3 DEF VerdictInv
    <3> QED BY <2>1, <3>1, <3>2 DEF VerdictInv
  <2> QED BY <1>5, <2>2, <2>3, ReadSays
<1>6. CASE Mutate
  <2>1. UNCHANGED << session, files, verdicts >>
        /\ (pc' = "write" => \E passed \in Judgements(draft'.lines) : passed)
    BY <1>6 DEF Mutate, Answer, Goto
  <2>2. pc' = "write" => TRUE \in Judgements(draft'.lines)
    <3>1. Judgements(draft'.lines) \subseteq BOOLEAN
      BY DEF Judgements, Verdicts, Passed
    <3> QED BY <2>1, <3>1
  <2>3. env' = env
    BY <2>1, SameVerb
  <2> QED BY <1>1, <2>1, <2>2, <2>3 DEF VerdictInv
<1>7. CASE Write
  <2>1. pc = "write" /\ pc' = "idle" /\ UNCHANGED session
    BY <1>7 DEF Write, Answer
  <2>2. env' = env
    BY <2>1, SameVerb
  <2>3. CASE UNCHANGED << files, verdicts >>
    BY <1>1, <2>1, <2>2, <2>3 DEF VerdictInv
  <2>4. CASE /\ files' = [files EXCEPT ![target] = Written]
             /\ verdicts' = [verdicts EXCEPT ![target] = {"accepted"}]
    <3>1. TRUE \in Judgements(Written.lines)
      BY <2>1 DEF Written, VerdictInv
    <3>2. ASSUME NEW p \in Place PROVE VerdictsHold(p)'
      <4>1. VerdictsHold(p)
        BY DEF VerdictInv
      <4>2. CASE p = target
        <5>1. files'[p] = Written /\ verdicts'[p] = {"accepted"}
          BY <2>4, <4>2 DEF VerdictInv
        <5> QED BY <3>1, <5>1 DEF VerdictsHold
      <4>3. CASE p # target
        <5>1. files'[p] = files[p] /\ verdicts'[p] = verdicts[p]
          BY <2>4, <4>3 DEF VerdictInv
        <5> QED BY <2>2, <4>1, <5>1 DEF VerdictsHold
      <4> QED BY <4>2, <4>3
    <3>3. (DOMAIN files = Place /\ DOMAIN verdicts = Place)'
      BY <2>4 DEF VerdictInv
    <3> QED BY <2>1, <3>2, <3>3 DEF VerdictInv
  <2> QED BY <1>7, <2>3, <2>4 DEF Write
<1>8. CASE \E p \in Place : HandEdit(p)
  <2>1. PICK q \in Place : HandEdit(q)
    BY <1>8
  <2>2. /\ \E t : files' = [files EXCEPT ![q] = t]
        /\ verdicts' = [verdicts EXCEPT ![q] = {}]
        /\ UNCHANGED << session, pc, draft >>
    BY <2>1 DEF HandEdit, job
  <2>3. verb' = verb /\ env' = env
    BY <2>2, SameVerb
  <2>4. ASSUME NEW p \in Place PROVE VerdictsHold(p)'
    <3>1. VerdictsHold(p)
      BY DEF VerdictInv
    <3>2. CASE p = q
      <4>1. verdicts'[p] = {}
        BY <2>2, <3>2 DEF VerdictInv
      <4> QED BY <4>1 DEF VerdictsHold
    <3>3. CASE p # q
      <4>1. files'[p] = files[p] /\ verdicts'[p] = verdicts[p]
        BY <2>2, <3>3 DEF VerdictInv
      <4> QED BY <2>3, <3>1, <4>1 DEF VerdictsHold
    <3> QED BY <3>2, <3>3
  <2>5. (DOMAIN files = Place /\ DOMAIN verdicts = Place)'
    BY <2>2 DEF VerdictInv
  <2> QED BY <2>2, <2>3, <2>4, <2>5 DEF VerdictInv
<1>9. CASE (\E port \in DOMAIN servers : ServerDrift(port)) \/ UNCHANGED vars
  <2>1. UNCHANGED << session, files, verdicts, pc, draft >>
    BY <1>9 DEF ServerDrift, vars, job
  <2>2. verb' = verb /\ env' = env
    BY <2>1, SameVerb
  <2> QED BY <1>1, <2>1, <2>2 DEF VerdictInv
<1> QED BY <1>2, <1>3, <1>4, <1>5, <1>6, <1>7, <1>8, <1>9 DEF Next, Command

-----------------------------------------------------------------------------
(* Two environments *)

\* What an environment may override: the mode and the backends' flags.
Overridable(k) == k = Mode \/ \E b : k = BackendKey(b, "default")

\* Configurations that mention the same and differ only there.
Alike(c, d) ==
    /\ c.mentioned = d.mentioned
    /\ \A k : ~Overridable(k) =>
          /\ k \in DOMAIN c.value <=> k \in DOMAIN d.value
          /\ k \in DOMAIN c.value => c.value[k] = d.value[k]

\* One text loaded twice.
LEMMA LoadedAlike ==
    ASSUME NEW lines, NEW e, NEW g
    PROVE  Alike(Loaded(lines, e), Loaded(lines, g))
<1>1. LoadedFrom(Loaded(lines, e), lines, e) /\ LoadedFrom(Loaded(lines, g), lines, g)
  BY LoadedIs
<1>2. Loaded(lines, e).mentioned = FileMentions(lines) /\ Loaded(lines, g).mentioned = FileMentions(lines)
  BY <1>1 DEF LoadedFrom, Config
<1>3. ASSUME NEW k, ~Overridable(k), NEW x
      PROVE  k \notin ModeKeys(x) \cup FlagKeys(lines, x)
  BY <1>3 DEF ModeKeys, FlagKeys, Overridable
<1>4. ASSUME NEW k, ~Overridable(k), NEW x, LoadedFrom(Loaded(lines, x), lines, x)
      PROVE  /\ k \in DOMAIN Loaded(lines, x).value <=> k \in DOMAIN PlainValues(lines)
             /\ k \in DOMAIN PlainValues(lines) => Loaded(lines, x).value[k] = PlainValues(lines)[k]
  <2>1. k \notin ModeKeys(x) \cup FlagKeys(lines, x)
    BY <1>3, <1>4
  <2> QED BY <1>4, <2>1 DEF LoadedFrom
<1> QED BY <1>1, <1>2, <1>4 DEF Alike

\* The keys that validation reads and no environment overrides.
LEMMA NotOverridable ==
    /\ \A b, f : ~Overridable(CredentialKey(b, f))
    /\ \A b, f : f # "default" => ~Overridable(BackendKey(b, f))
    /\ \A a, f : ~Overridable(<< "models", a, f >>)
    /\ \A a, c, f : ~Overridable(<< "models", a, "capabilities", c, f >>)
    /\ \A t, f : ~Overridable(<< "routing", t, f >>)
    /\ ~Overridable(<< "meta", "schema_version" >>)
    /\ \A f : f # "mode" => ~Overridable(<< "profile", f >>)
BY DEF Overridable, BackendKey, CredentialKey, Mode

\* Alike configurations have the same names and the same values there.
LEMMA AlikeRead ==
    ASSUME NEW c, NEW d, Alike(c, d)
    PROVE  /\ \A section : Named(c, section) = Named(d, section)
           /\ \A k : ~Overridable(k) =>
                 Str(c, k) = Str(d, k) /\ Num(c, k) = Num(d, k) /\ Flag(c, k) = Flag(d, k)
BY DEF Alike, Named, Str, Num, Flag

\* So the same is found in a backend,
LEMMA AlikeBackend ==
    ASSUME NEW c, NEW d, Alike(c, d), NEW b
    PROVE  OneBackendFindings(c, b) = OneBackendFindings(d, b)
<1>1. c.mentioned = d.mentioned
  BY DEF Alike
<1>2. \A f : /\ Str(c, CredentialKey(b, f)) = Str(d, CredentialKey(b, f))
             /\ (CredentialKey(b, f) \in DOMAIN c.value) = (CredentialKey(b, f) \in DOMAIN d.value)
  BY NotOverridable, AlikeRead DEF Alike
<1>3. \A f : f # "default" =>
             /\ Str(c, BackendKey(b, f)) = Str(d, BackendKey(b, f))
             /\ (BackendKey(b, f) \in DOMAIN c.value) = (BackendKey(b, f) \in DOMAIN d.value)
  BY NotOverridable, AlikeRead DEF Alike
<1>4. HasCredential(c, b) = HasCredential(d, b)
  BY <1>1 DEF HasCredential
<1>5. \A paths, reason : Required(c, paths, reason) = Required(d, paths, reason)
  BY <1>1 DEF Required
<1>6. CredentialFindings(c, b) = CredentialFindings(d, b)
  <2> DEFINE P(x, f, reason, condition) == When(condition, Error(CredentialKey(b, f), reason))
             val(x, f) == Str(x, CredentialKey(b, f))
             has(x, f) == CredentialKey(b, f) \in DOMAIN x.value
             literal(x) == BackendKey(b, "auth_header_value") \in DOMAIN x.value
             kind(x) == Str(x, BackendKey(b, "kind"))
             plain(x) == When(kind(x) = "openai_compat" /\ literal(x),
                              Warning(BackendKey(b, "auth_header_value"), "W_CONFIG_KEY_DEPRECATED"))
             first(x) == When(kind(x) # "openai_compat", Error(BackendKey(b, "credential"), "UNSUPPORTED_BACKEND"))
                         \cup When(literal(x), Error(BackendKey(b, "auth_header_value"), "CONFLICT"))
                         \cup Required(x, { CredentialKey(b, "version"), CredentialKey(b, "source") }, "REQUIRED")
             second(x) == P(x, "version", "VERSION_UNSUPPORTED", val(x, "version") \notin {"", "v1"})
             third(x) == P(x, "source", "SOURCE_UNSUPPORTED",
                           val(x, "source") \notin {"literal", "environment", "secure_store"})
             fourth(x) == P(x, "literal_value", "LITERAL_REQUIRED",
                            val(x, "source") = "literal" /\ Blankish(val(x, "literal_value")))
             fifth(x) == P(x, "literal_value", "SOURCE_FIELD_CONFLICT",
                           val(x, "source") = "environment" /\ has(x, "literal_value"))
             sixth(x) == P(x, "environment_variable", "ENVIRONMENT_VARIABLE",
                           val(x, "source") = "environment" /\ val(x, "environment_variable") \notin VariableName)
             seventh(x) == P(x, "service", "SECURE_STORE_IDENTITY_REQUIRED",
                             val(x, "source") = "secure_store" /\ Unidentified(val(x, "service"), val(x, "account")))
             eighth(x) == P(x, "environment_variable", "SOURCE_FIELD_CONFLICT",
                            val(x, "source") = "literal" /\ has(x, "environment_variable"))
             ninth(x) == When(Blankish(Str(x, BackendKey(b, "auth_header_name"))),
                              Error(BackendKey(b, "auth_header_name"), "HEADER_NAME_REQUIRED"))
  <2>1. ASSUME NEW x
        PROVE  CredentialFindings(x, b) =
                 IF ~HasCredential(x, b) THEN plain(x)
                 ELSE first(x) \cup second(x) \cup third(x) \cup fourth(x) \cup fifth(x) \cup sixth(x)
                      \cup seventh(x) \cup eighth(x) \cup ninth(x)
    BY DEF CredentialFindings
  <2>2. \A f : val(c, f) = val(d, f) /\ (has(c, f) <=> has(d, f))
    BY <1>2
  <2>3. kind(c) = kind(d) /\ (literal(c) <=> literal(d))
        /\ Str(c, BackendKey(b, "auth_header_name")) = Str(d, BackendKey(b, "auth_header_name"))
    BY <1>3
  <2> HIDE DEF val, has, kind, literal
  <2>4. plain(c) = plain(d) /\ first(c) = first(d) /\ ninth(c) = ninth(d)
    BY <1>5, <2>3 DEF When
  <2>5. second(c) = second(d) /\ third(c) = third(d) /\ fourth(c) = fourth(d) /\ fifth(c) = fifth(d)
    BY <2>2 DEF When
  <2>6. sixth(c) = sixth(d) /\ seventh(c) = seventh(d) /\ eighth(c) = eighth(d)
    BY <2>2 DEF When
  <2> HIDE DEF plain, first, second, third, fourth, fifth, sixth, seventh, eighth, ninth
  <2> QED BY <1>4, <2>1, <2>4, <2>5, <2>6
<1> QED BY <1>3, <1>5, <1>6 DEF OneBackendFindings

\* in an alias,
LEMMA AlikeAlias ==
    ASSUME NEW c, NEW d, Alike(c, d), NEW a
    PROVE  /\ TargetOf(c, a) = TargetOf(d, a)
           /\ \A x : Conflicts(c, a, x) = Conflicts(d, a, x)
           /\ AliasFindings(c, a) = AliasFindings(d, a)
<1>1. c.mentioned = d.mentioned
  BY DEF Alike
<1>2. \A x, f : Str(c, << "models", x, f >>) = Str(d, << "models", x, f >>)
  BY NotOverridable, AlikeRead
<1>3. \A x, y, f : Str(c, << "models", x, "capabilities", y, f >>) = Str(d, << "models", x, "capabilities", y, f >>)
  BY NotOverridable, AlikeRead
<1>4. \A paths, reason : Required(c, paths, reason) = Required(d, paths, reason)
  BY <1>1 DEF Required
<1>5. Named(c, "backends") = Named(d, "backends")
  BY AlikeRead
<1>6. \A x : CapabilitiesOf(c, x) = CapabilitiesOf(d, x)
  BY <1>1 DEF CapabilitiesOf
<1>7. \A x, y : Evidence(c, x, y) = Evidence(d, x, y)
  BY <1>3 DEF Evidence
<1>8. \A y : CapabilityFindings(c, a, y) = CapabilityFindings(d, a, y)
  BY <1>4, <1>7 DEF CapabilityFindings
<1>9. TargetOf(c, a) = TargetOf(d, a)
  BY <1>2 DEF TargetOf
<1>10. \A x : Conflicts(c, a, x) = Conflicts(d, a, x)
  BY <1>6, <1>7 DEF Conflicts
<1>11. AliasFindings(c, a) = AliasFindings(d, a)
  <2> DEFINE backend == << "models", a, "backend" >>
             model == << "models", a, "model" >>
             known(x) == Required(x, {backend, model}, "missing_required")
                         \cup When(Str(x, backend) \notin {""} \cup Named(x, "backends"),
                                   Error(backend, "E_MODEL_ALIAS_BACKEND_UNKNOWN"))
             aimed(x) == When(model \in x.mentioned /\ Str(x, model) = "",
                              Error(model, "E_MODEL_ALIAS_TARGET_REQUIRED"))
             able(x) == UNION { CapabilityFindings(x, a, y) : y \in CapabilitiesOf(x, a) }
  <2>1. \A x : AliasFindings(x, a) = known(x) \cup aimed(x) \cup able(x)
    BY DEF AliasFindings
  <2>2. Str(c, backend) = Str(d, backend) /\ Str(c, model) = Str(d, model)
    BY <1>2
  <2>3. able(c) = able(d)
    BY <1>6, <1>8
  <2> HIDE DEF backend, model, able
  <2>4. known(c) = known(d)
    BY <1>4, <1>5, <2>2
  <2>5. aimed(c) = aimed(d)
    BY <1>1, <2>2
  <2> QED BY <2>1, <2>3, <2>4, <2>5
<1> QED BY <1>9, <1>10, <1>11

\* and in a route.
LEMMA AlikeRoute ==
    ASSUME NEW c, NEW d, Alike(c, d), NEW t, << "routing", t, "fallback" >> \in DOMAIN c.value
    PROVE  RouteFindings(c, t) = RouteFindings(d, t)
<1>1. \A f : /\ Str(c, << "routing", t, f >>) = Str(d, << "routing", t, f >>)
             /\ Num(c, << "routing", t, f >>) = Num(d, << "routing", t, f >>)
             /\ (<< "routing", t, f >> \in DOMAIN c.value) = (<< "routing", t, f >> \in DOMAIN d.value)
  BY NotOverridable, AlikeRead DEF Alike
<1>2. \A x, f : Str(c, << "models", x, f >>) = Str(d, << "models", x, f >>)
  BY NotOverridable, AlikeRead
<1>3. Num(c, << "profile", "max_context_tokens" >>) = Num(d, << "profile", "max_context_tokens" >>)
  BY NotOverridable, AlikeRead
<1>4. \A section : Named(c, section) = Named(d, section)
  BY AlikeRead
<1>5. \A paths, reason : Required(c, paths, reason) = Required(d, paths, reason)
  BY DEF Required, Alike
<1>6. c.value[<< "routing", t, "fallback" >>] = d.value[<< "routing", t, "fallback" >>]
  BY NotOverridable DEF Alike
<1> DEFINE key(f) == << "routing", t, f >>
           backend(x) == Str(x, key("backend"))
           model(x) == Str(x, key("model"))
           aliased(x) == Str(x, << "models", model(x), "backend" >>)
           fallback(x) == x.value[key("fallback")][2]
           known(x) == Required(x, { key("model"), key("backend") }, "missing_required")
                       \cup When(backend(x) \notin {""} \cup Named(x, "backends"),
                                 Error(key("backend"), "no_such_backend"))
           aligned(x) == When(model(x) \in Named(x, "models") /\ backend(x) \notin {"", aliased(x)},
                              Error(key("backend"), "E_MODEL_ALIAS_BACKEND_CONFLICT"))
           sized(x) == When(Num(x, key("num_ctx")) > Num(x, << "profile", "max_context_tokens" >>)
                               /\ key("num_ctx") \in DOMAIN x.value,
                            Error(key("num_ctx"), "max_context_tokens"))
           ended(x) == When(\E i \in DOMAIN fallback(x) : fallback(x)[i] = model(x),
                            Error(key("fallback"), "fallback_is_primary"))
<1>7. ASSUME NEW x
      PROVE  RouteFindings(x, t) = known(x) \cup aligned(x) \cup sized(x) \cup ended(x)
  BY DEF RouteFindings
<1>8. backend(c) = backend(d) /\ model(c) = model(d) /\ fallback(c) = fallback(d)
  BY <1>1, <1>6
<1>9. aliased(c) = aliased(d)
  BY <1>2, <1>8
<1>10. sized(c) = sized(d)
  BY <1>1, <1>3 DEF When
<1> HIDE DEF key, backend, model, aliased, fallback
<1>11. known(c) = known(d)
  <2>1. Required(c, { key("model"), key("backend") }, "missing_required")
          = Required(d, { key("model"), key("backend") }, "missing_required")
    BY <1>5
  <2>2. Named(c, "backends") = Named(d, "backends")
    BY <1>4
  <2> QED BY <1>8, <2>1, <2>2
<1>12. aligned(c) = aligned(d)
  <2>1. Named(c, "models") = Named(d, "models")
    BY <1>4
  <2> QED BY <1>8, <1>9, <2>1
<1>13. ended(c) = ended(d)
  BY <1>8
<1> HIDE DEF known, aligned, sized, ended
<1> QED BY <1>7, <1>10, <1>11, <1>12, <1>13

\* Every route of a loaded configuration has its fallbacks.
LEMMA RoutesHaveFallbacks ==
    ASSUME NEW lines, NEW e, NEW t \in Named(Loaded(lines, e), "routing")
    PROVE  << "routing", t, "fallback" >> \in DOMAIN Loaded(lines, e).value
<1> DEFINE m == FileMentions(lines)
           v == Values(lines)
           k == << "routing", t, "fallback" >>
           low == [p \in DefaultedKeys(v, m) |-> Defaults(FromFile(lines))[p]]
<1>1. LoadedFrom(Loaded(lines, e), lines, e)
  BY LoadedIs
<1>2. Named(Loaded(lines, e), "routing") = NamedIn(m, "routing")
  BY LoadedNames
<1>3. k \in DefaultKeys(m)
  BY <1>2 DEF DefaultKeys
<1>4. PlainValues(lines) = Over(low, v) /\ DOMAIN low = DefaultedKeys(v, m)
  BY DEF PlainValues
<1>5. k \in DefaultedKeys(v, m) \cup DOMAIN v
  BY <1>3 DEF DefaultedKeys
<1> HIDE DEF low, v, m
<1>6. DOMAIN Over(low, v) = DOMAIN low \cup DOMAIN v
  BY OverIs
<1> QED BY <1>1, <1>4, <1>5, <1>6 DEF LoadedFrom

\* The mode is the environment's, or else the same in every environment without one.
LEMMA ModeOf ==
    ASSUME NEW lines, NEW e
    PROVE  Str(Loaded(lines, e), Mode) =
             IF e.mode = "" THEN Str(Loaded(lines, Neutral), Mode) ELSE e.mode
<1>1. LoadedFrom(Loaded(lines, e), lines, e) /\ LoadedFrom(Loaded(lines, Neutral), lines, Neutral)
  BY LoadedIs
<1>2. \A x : Mode \notin FlagKeys(lines, x)
  BY ModeIsNoBackendKey DEF FlagKeys
<1>3. Neutral.mode = ""
  BY DEF Neutral
<1>4. CASE e.mode = ""
  <2>1. \A x : x.mode = "" => Mode \notin ModeKeys(x) \cup FlagKeys(lines, x)
    BY <1>2 DEF ModeKeys
  <2>2. /\ Mode \in DOMAIN Loaded(lines, e).value <=> Mode \in DOMAIN PlainValues(lines)
        /\ Mode \in DOMAIN PlainValues(lines) => Loaded(lines, e).value[Mode] = PlainValues(lines)[Mode]
    BY <1>1, <1>4, <2>1 DEF LoadedFrom
  <2>3. /\ Mode \in DOMAIN Loaded(lines, Neutral).value <=> Mode \in DOMAIN PlainValues(lines)
        /\ Mode \in DOMAIN PlainValues(lines) => Loaded(lines, Neutral).value[Mode] = PlainValues(lines)[Mode]
    BY <1>1, <1>3, <2>1 DEF LoadedFrom
  <2> QED BY <1>4, <2>2, <2>3 DEF Str
<1>5. CASE e.mode # ""
  <2>1. Mode \in ModeKeys(e)
    BY <1>5 DEF ModeKeys
  <2>2. Mode \in DOMAIN Loaded(lines, e).value /\ Loaded(lines, e).value[Mode] = << "string", e.mode >>
    BY <1>1, <2>1 DEF LoadedFrom
  <2>3. << "string", e.mode >>[2] = e.mode
    OBVIOUS
  <2>4. Str(Loaded(lines, e), Mode) = Loaded(lines, e).value[Mode][2]
    BY <2>2 DEF Str
  <2> QED BY <1>5, <2>2, <2>3, <2>4
<1> QED BY <1>4, <1>5

\* The default backends are the one that the environment names, or else the same in
\* every environment that names none.
LEMMA DefaultBackendsOf ==
    ASSUME NEW lines, NEW e, LoadError(lines, e) = ""
    PROVE  DefaultBackends(Loaded(lines, e)) =
             IF e.default = "" THEN DefaultBackends(Loaded(lines, Neutral)) ELSE {e.default}
<1> DEFINE key(b) == BackendKey(b, "default")
           plain == WithDefaults(FromFile(lines))
           backends == NamedIn(FileMentions(lines), "backends")
<1>1. LoadedFrom(Loaded(lines, e), lines, e) /\ LoadedFrom(Loaded(lines, Neutral), lines, Neutral)
  BY LoadedIs
<1>2. \A x, b : key(b) \notin ModeKeys(x)
  BY ModeIsNoBackendKey DEF ModeKeys
<1>3. \A x : Named(Loaded(lines, x), "backends") = backends
  BY LoadedNames
<1>4. plain.value = PlainValues(lines)
  <2> DEFINE source == [p \in FileMentions(lines) |-> "file"]
  <2>1. plain = Config(PlainValues(lines), FileMentions(lines), source)
    BY PlainIs
  <2> HIDE DEF plain, source
  <2> QED BY <2>1 DEF Config
<1>5. ASSUME NEW x, LoadedFrom(Loaded(lines, x), lines, x), NEW b, key(b) \notin FlagKeys(lines, x)
      PROVE  Flag(Loaded(lines, x), key(b)) = Flag(plain, key(b))
  <2>1. /\ key(b) \in DOMAIN Loaded(lines, x).value <=> key(b) \in DOMAIN PlainValues(lines)
        /\ key(b) \in DOMAIN PlainValues(lines) => Loaded(lines, x).value[key(b)] = PlainValues(lines)[key(b)]
    <3>1. key(b) \notin ModeKeys(x) \cup FlagKeys(lines, x)
      BY <1>2, <1>5
    <3> HIDE DEF key
    <3> QED BY <1>5, <3>1 DEF LoadedFrom
  <2> HIDE DEF key, plain
  <2> QED BY <1>4, <2>1 DEF Flag
<1>6. CASE e.default = ""
  <2>1. FlagKeys(lines, e) = {} /\ FlagKeys(lines, Neutral) = {}
    BY <1>6 DEF FlagKeys, Neutral
  <2>2. \A b : Flag(Loaded(lines, e), key(b)) = Flag(Loaded(lines, Neutral), key(b))
    BY <1>1, <1>5, <2>1
  <2>3. Named(Loaded(lines, e), "backends") = Named(Loaded(lines, Neutral), "backends")
    BY <1>3
  <2> QED BY <1>6, <2>2, <2>3 DEF DefaultBackends
<1>7. CASE e.default # ""
  <2>1. e.default \in backends
    <3>1. e.default \in Named(FromFile(lines), "backends")
      BY <1>7 DEF LoadError
    <3> QED BY <3>1 DEF Named, NamedIn, FromFile, FileMentions
  <2>2. ASSUME NEW b \in backends
        PROVE  Flag(Loaded(lines, e), key(b)) <=> b = e.default
    <3>1. CASE b = e.default \/ Flag(plain, key(b))
      <4>1. key(b) \in FlagKeys(lines, e)
        BY <1>7, <3>1 DEF FlagKeys
      <4>2. key(b)[2] = b
        BY DEF BackendKey
      <4>3. key(b) \in DOMAIN Loaded(lines, e).value
            /\ Loaded(lines, e).value[key(b)] = << "bool", key(b)[2] = e.default >>
        <5> HIDE DEF key
        <5>1. key(b) \in DOMAIN Loaded(lines, e).value
          BY <1>1, <4>1 DEF LoadedFrom
        <5>2. Loaded(lines, e).value[key(b)] = << "bool", key(b)[2] = e.default >>
          BY <1>1, <4>1 DEF LoadedFrom
        <5> QED BY <5>1, <5>2
      <4>4. << "bool", b = e.default >>[2] = (b = e.default)
        OBVIOUS
      <4>5. Flag(Loaded(lines, e), key(b)) = Loaded(lines, e).value[key(b)][2]
        BY <4>3 DEF Flag
      <4> QED BY <4>2, <4>3, <4>4, <4>5
    <3>2. CASE b # e.default /\ ~Flag(plain, key(b))
      <4>1. key(b) \notin FlagKeys(lines, e)
        <5>1. ASSUME NEW c, key(c) = key(b) PROVE c = b
          BY <5>1 DEF BackendKey
        <5> HIDE DEF key
        <5> QED BY <3>2, <5>1 DEF FlagKeys, key
      <4>2. Flag(Loaded(lines, e), key(b)) = Flag(plain, key(b))
        BY <1>1, <1>5, <4>1
      <4> QED BY <3>2, <4>2
    <3> QED BY <3>1, <3>2
  <2>3. DefaultBackends(Loaded(lines, e)) = { b \in backends : Flag(Loaded(lines, e), key(b)) }
    BY <1>3 DEF DefaultBackends
  <2> QED BY <1>7, <2>1, <2>2, <2>3
<1> QED BY <1>6, <1>7

\* Of a text that validates in an empty environment, another one finds nothing wrong
\* but its own mode, or what the catalogue's order decides.
LEMMA EnvironmentIsHarmless ==
    ASSUME NEW lines, NEW e, LoadError(lines, e) = "",
           TRUE \in Verdicts(lines, Neutral, FALSE), FALSE \in Verdicts(lines, e, FALSE),
           e.mode \in {"", "strict", "warn", "advisory"}
    PROVE  Undecided(Loaded(lines, e))
<1> DEFINE c == Loaded(lines, e)
           d == Loaded(lines, Neutral)
<1>1. PICK calm \in FirstVisits(d) : Passed(Findings(d, calm), FALSE)
  BY DEF Verdicts
<1>2. PICK wild \in FirstVisits(c) : ~Passed(Findings(c, wild), FALSE)
  BY DEF Verdicts
<1>3. \A f \in Findings(d, calm) : f[1] # "error"
  BY <1>1 DEF Passed, Errors
<1>4. PICK f \in Findings(c, wild) : f[1] = "error"
  BY <1>2 DEF Passed, Errors
<1>5. Alike(c, d)
  BY LoadedAlike
<1>6. c.mentioned = d.mentioned /\ \A section : Named(c, section) = Named(d, section)
  BY <1>5, AlikeRead DEF Alike
<1>7. Str(c, Mode) = IF e.mode = "" THEN Str(d, Mode) ELSE e.mode
  BY ModeOf
<1>8. DefaultBackends(c) = IF e.default = "" THEN DefaultBackends(d) ELSE {e.default}
  BY DefaultBackendsOf
<1>9. \A t \in Named(c, "routing") : << "routing", t, "fallback" >> \in DOMAIN c.value
  BY RoutesHaveFallbacks
<1> HIDE DEF c, d
<1>10. f \notin UnknownKeys(c)
  <2>1. UnknownKeys(c) = UnknownKeys(d)
    BY <1>6 DEF UnknownKeys
  <2>2. UnknownKeys(d) \subseteq Findings(d, calm)
    BY DEF Findings
  <2> QED BY <1>3, <1>4, <2>1, <2>2
<1>11. f \notin ProfileFindings(c)
  <2> DEFINE version == << "meta", "schema_version" >>
             tokens == << "profile", "max_context_tokens" >>
             models == << "profile", "max_concurrent_models" >>
             stated(x) == Required(x, {version, << "profile", "name" >>, tokens, models,
                                       << "profile", "allow_premium" >>, Mode}, "missing_required")
             wide(x) == When(tokens \in x.mentioned /\ Num(x, tokens) <= 0, Error(tokens, "range"))
             many(x) == When(models \in x.mentioned /\ Num(x, models) < 1, Error(models, "range"))
             moded(x) == When(Str(x, Mode) \notin {"strict", "warn", "advisory"}, Error(Mode, "valid_set"))
             old(x) == When(version \in x.mentioned /\ Str(x, version) # "0.1",
                            Warning(version, "W_CONFIG_SCHEMA_VERSION_MISMATCH"))
             loose(x) == When(Str(x, Mode) \in {"strict", "advisory"},
                              Warning(Mode, "W_PROFILE_MODE_NOT_ENFORCED"))
  <2>1. \A x : ProfileFindings(x) = stated(x) \cup old(x) \cup wide(x) \cup many(x) \cup moded(x) \cup loose(x)
    BY DEF ProfileFindings, Mode
  <2>2. stated(c) = stated(d)
    BY <1>6 DEF Required
  <2>3. ~Overridable(tokens) /\ ~Overridable(models)
    BY NotOverridable
  <2>4. wide(c) = wide(d) /\ many(c) = many(d)
    <3>1. Num(c, tokens) = Num(d, tokens) /\ Num(c, models) = Num(d, models)
      BY <1>5, <2>3, AlikeRead
    <3> HIDE DEF tokens, models
    <3> QED BY <1>6, <3>1
  <2>5. f \notin old(c) \cup loose(c)
    <3>1. \A key, reason : Warning(key, reason)[1] # "error"
      BY DEF Warning
    <3>2. \A condition, finding : f \in When(condition, finding) => f = finding
      BY DEF When
    <3> QED BY <1>4, <3>1, <3>2
  <2>6. f \in moded(c) => f \in moded(d)
    <3>1. Str(c, Mode) \notin {"strict", "warn", "advisory"} => Str(c, Mode) = Str(d, Mode)
      BY <1>7
    <3> QED BY <3>1 DEF When
  <2>7. ProfileFindings(d) \subseteq Findings(d, calm)
    BY DEF Findings
  <2> HIDE DEF stated, wide, many, moded, old, loose
  <2> QED BY <1>3, <1>4, <2>1, <2>2, <2>4, <2>5, <2>6, <2>7
<1>12. f \notin BackendFindings(c)
  <2> DEFINE none(x) == When(Named(x, "backends") = {}, Error(<< "backends" >>, "no_backend"))
             one(x) == When(Named(x, "backends") # {} /\ Cardinality(DefaultBackends(x)) # 1,
                            Error(<< "backends", "*", "default" >>, "one_default"))
             each(x) == UNION { OneBackendFindings(x, b) : b \in Named(x, "backends") }
  <2>1. \A x : BackendFindings(x) = none(x) \cup one(x) \cup each(x)
    BY DEF BackendFindings
  <2>2. none(c) = none(d)
    BY <1>6
  <2>3. f \in one(c) => f \in one(d)
    <3>1. Cardinality({e.default}) = 1
      BY FS_Singleton
    <3> QED BY <1>6, <1>8, <3>1 DEF When
  <2>4. f \in each(c) => f \in each(d)
    <3>1. ASSUME NEW b \in Named(c, "backends"), f \in OneBackendFindings(c, b)
          PROVE  f \in OneBackendFindings(d, b) /\ b \in Named(d, "backends")
      BY <1>5, <1>6, <3>1, AlikeBackend
    <3> QED BY <3>1
  <2>5. BackendFindings(d) \subseteq Findings(d, calm)
    BY DEF Findings
  <2> HIDE DEF none, one, each
  <2> QED BY <1>3, <1>4, <2>1, <2>2, <2>3, <2>4, <2>5
<1>13. f \notin RoutingFindings(c)
  <2>1. ASSUME NEW t \in Named(c, "routing"), f \in RouteFindings(c, t)
        PROVE  f \in RouteFindings(d, t) /\ t \in Named(d, "routing")
    BY <1>5, <1>6, <1>9, <2>1, AlikeRoute
  <2>2. f \in RoutingFindings(c) => f \in RoutingFindings(d)
    BY <2>1 DEF RoutingFindings
  <2>3. RoutingFindings(d) \subseteq Findings(d, calm)
    BY DEF Findings
  <2> QED BY <1>3, <1>4, <2>2, <2>3
<1>14. f \in CatalogueFindings(c, wild)
  BY <1>4, <1>10, <1>11, <1>12, <1>13 DEF Findings
<1> DEFINE clash(x, first, a) ==
             { Error(<< "models", a, "capabilities", y >>, "E_MODEL_CAPABILITY_EVIDENCE_CONFLICT") :
                 y \in Conflicts(x, a, first[TargetOf(x, a)]) }
<1>15. PICK a \in Named(c, "models") : f \in AliasFindings(c, a) \cup clash(c, wild, a)
  BY <1>14 DEF CatalogueFindings
<1>16. \A x \in Named(d, "models") : /\ AliasFindings(d, x) \subseteq Findings(d, calm)
                                     /\ clash(d, calm, x) \subseteq Findings(d, calm)
  <2>1. CatalogueFindings(d, calm) \subseteq Findings(d, calm)
    BY DEF Findings
  <2>2. \A x \in Named(d, "models") : AliasFindings(d, x) \cup clash(d, calm, x) \subseteq CatalogueFindings(d, calm)
    BY DEF CatalogueFindings
  <2> QED BY <2>1, <2>2
<1>17. f \in clash(c, wild, a)
  <2>1. AliasFindings(c, a) = AliasFindings(d, a)
    BY <1>5, AlikeAlias
  <2> QED BY <1>3, <1>4, <1>6, <1>15, <1>16, <2>1
<1>18. \A x, y : TargetOf(c, x) = TargetOf(d, x) /\ Conflicts(c, x, y) = Conflicts(d, x, y)
  <2>1. ASSUME NEW x, NEW y PROVE TargetOf(c, x) = TargetOf(d, x) /\ Conflicts(c, x, y) = Conflicts(d, x, y)
    <3>1. /\ TargetOf(c, x) = TargetOf(d, x)
          /\ \A w : Conflicts(c, x, w) = Conflicts(d, x, w)
          /\ AliasFindings(c, x) = AliasFindings(d, x)
      BY <1>5, AlikeAlias
    <3> QED BY <3>1
  <2> QED BY <2>1
<1>19. ASSUME NEW x \in Named(c, "models")
       PROVE  Conflicts(c, x, calm[TargetOf(c, x)]) = {}
  <2>1. ASSUME NEW y \in Conflicts(d, x, calm[TargetOf(d, x)]) PROVE FALSE
    <3>1. Error(<< "models", x, "capabilities", y >>, "E_MODEL_CAPABILITY_EVIDENCE_CONFLICT") \in clash(d, calm, x)
      BY <2>1
    <3>2. Error(<< "models", x, "capabilities", y >>, "E_MODEL_CAPABILITY_EVIDENCE_CONFLICT")[1] = "error"
      BY DEF Error
    <3> HIDE DEF clash
    <3> QED BY <1>3, <1>6, <1>16, <3>1, <3>2
  <2> QED BY <1>18, <2>1
<1> DEFINE b == wild[TargetOf(c, a)]
           z == calm[TargetOf(c, a)]
<1>20. Conflicts(c, a, b) # {}
  BY <1>17
<1>21. b \in Named(c, "models") /\ TargetOf(c, b) = TargetOf(c, a)
  BY <1>2 DEF FirstVisits, Targets
<1>22. z \in Named(c, "models") /\ TargetOf(c, z) = TargetOf(c, a)
  <2>1. TargetOf(d, a) \in Targets(d)
    BY <1>6 DEF Targets
  <2>2. calm[TargetOf(d, a)] \in Named(d, "models") /\ TargetOf(d, calm[TargetOf(d, a)]) = TargetOf(d, a)
    BY <1>1, <2>1 DEF FirstVisits
  <2> QED BY <1>6, <1>18, <2>2
<1>23. Conflicts(c, a, z) = {} /\ Conflicts(c, b, z) = {}
  BY <1>19, <1>21
<1> HIDE DEF b, z
<1>24. Undecided(c)
  BY <1>20, <1>21, <1>22, <1>23 DEF Undecided
<1> QED BY <1>24 DEF c

\* What was accepted stays valid.
LEMMA AcceptedIsValid == ASSUME VerdictInv PROVE AcceptedStaysValid
<1> SUFFICES ASSUME NEW p \in Place, "accepted" \in verdicts[p]
             PROVE  /\ "E_CONFIG_INVALID" \notin verdicts[p]
                    /\ "E_INVALID_ARG" \in verdicts[p] =>
                           env.default \notin Named(FromFile(files[p].lines), "backends")
                    /\ "failed" \in verdicts[p] =>
                           \/ env.mode \notin {"", "strict", "warn", "advisory"}
                           \/ Undecided(Loaded(files[p].lines, env))
  BY DEF AcceptedStaysValid
<1>1. VerdictsHold(p)
  BY DEF VerdictInv
<1>2. TRUE \in Judgements(files[p].lines)
  BY <1>1 DEF VerdictsHold
<1>3. LoadError(files[p].lines, Neutral) = "" /\ TRUE \in Verdicts(files[p].lines, Neutral, FALSE)
  BY <1>2 DEF Judgements
<1>4. Decodes(files[p].lines)
  BY <1>3 DEF LoadError
<1> QED BY <1>1, <1>3, <1>4, EnvironmentIsHarmless DEF VerdictsHold

-----------------------------------------------------------------------------
(* The scaffold *)

\* The lines of the scaffold: its headers and its keys.
HeaderLines == {1, 4, 11, 16}
KeyLines == {2, 5, 6, 7, 8, 9, 12, 13, 14, 17, 18, 19}

ScaffoldTable == [i \in {1, 4, 11, 16} |->
    CASE i = 1 -> << "meta" >> [] i = 4 -> << "profile" >> [] i = 11 -> << "backends", "ollama" >>
      [] i = 16 -> << "routing", "code" >>]

ScaffoldKey == [i \in {2, 5, 6, 7, 8, 9, 12, 13, 14, 17, 18, 19} |->
    CASE i = 2  -> << "meta", "schema_version" >>
      [] i = 5  -> << "profile", "name" >>
      [] i = 6  -> << "profile", "max_context_tokens" >>
      [] i = 7  -> << "profile", "max_concurrent_models" >>
      [] i = 8  -> << "profile", "allow_premium" >>
      [] i = 9  -> << "profile", "mode" >>
      [] i = 12 -> << "backends", "ollama", "kind" >>
      [] i = 13 -> << "backends", "ollama", "base_url" >>
      [] i = 14 -> << "backends", "ollama", "default" >>
      [] i = 17 -> << "routing", "code", "model" >>
      [] i = 18 -> << "routing", "code", "backend" >>
      [] i = 19 -> << "routing", "code", "fallback" >>]

\* Each of its lines.
LEMMA ScaffoldLines ==
    /\ DOMAIN Scaffold = 1 .. 19
    /\ Scaffold[1] = Header(<< "meta" >>) /\ Scaffold[4] = Header(<< "profile" >>)
    /\ Scaffold[11] = Header(<< "backends", "ollama" >>) /\ Scaffold[16] = Header(<< "routing", "code" >>)
    /\ Scaffold[3] = Blank /\ Scaffold[10] = Blank /\ Scaffold[15] = Blank
    /\ Scaffold[2] = Assign("schema_version", << "string", "0.1" >>)
    /\ Scaffold[5] = Assign("name", << "string", "default_local_workstation" >>)
    /\ Scaffold[6] = Assign("max_context_tokens", << "int", 8192 >>)
    /\ Scaffold[7] = Assign("max_concurrent_models", << "int", 1 >>)
    /\ Scaffold[8] = Assign("allow_premium", << "bool", FALSE >>)
    /\ Scaffold[9] = Assign("mode", << "string", "warn" >>)
    /\ Scaffold[12] = Assign("kind", << "string", "ollama" >>)
    /\ Scaffold[13] = Assign("base_url", << "string", URLOf[OllamaPort] >>)
    /\ Scaffold[14] = Assign("default", << "bool", TRUE >>)
    /\ Scaffold[17] = Assign("model", << "string", "qwen3:8b" >>)
    /\ Scaffold[18] = Assign("backend", << "string", "ollama" >>)
    /\ Scaffold[19] = Assign("fallback", << "array", << >> >>)
BY DEF Scaffold

\* What a line is made of.
LEMMA LineIs ==
    /\ \A p : Header(p).kind = "header" /\ Header(p).path = p
    /\ \A p, v : Assign(p, v).kind = "key" /\ Assign(p, v).path = << p >> /\ Assign(p, v).value = v
    /\ Blank.kind = "blank"
BY DEF Header, Assign, Blank, Line

\* Which lines are of which kind.
LEMMA ScaffoldKinds ==
    /\ Kind(Scaffold, "header") = {1, 4, 11, 16}
    /\ Kind(Scaffold, "key") = {2, 5, 6, 7, 8, 9, 12, 13, 14, 17, 18, 19}
    /\ Kind(Scaffold, "garbage") = {}
<1>1. \A i \in 1 .. 19 : i \in {1, 4, 11, 16} \/ i \in {3, 10, 15} \/ i \in {2, 5, 6, 7, 8, 9, 12, 13, 14, 17, 18, 19}
  OBVIOUS
<1>2. \A i \in {1, 4, 11, 16} : Scaffold[i].kind = "header"
  BY ScaffoldLines, LineIs
<1>3. \A i \in {3, 10, 15} : Scaffold[i].kind = "blank"
  BY ScaffoldLines, LineIs
<1>4. \A i \in {2, 5, 6, 7, 8, 9, 12, 13, 14, 17, 18, 19} : Scaffold[i].kind = "key"
  BY ScaffoldLines, LineIs
<1>5. DOMAIN Scaffold = 1 .. 19
  BY ScaffoldLines
<1>6. ASSUME NEW kind PROVE Kind(Scaffold, kind) = { i \in 1 .. 19 : Scaffold[i].kind = kind }
  BY <1>5 DEF Kind
<1> QED BY <1>1, <1>2, <1>3, <1>4, <1>6

\* The last of some numbers.
LEMMA MaxIs ==
    ASSUME NEW S, S \subseteq Int, NEW m \in S, \A y \in S : m >= y
    PROVE  Max(S) = m
<1>1. Max(S) \in S /\ \A y \in S : Max(S) >= y
  BY DEF Max
<1>2. Max(S) >= m /\ m >= Max(S) /\ m \in Int /\ Max(S) \in Int
  BY <1>1
<1> HIDE DEF Max
<1> QED BY <1>2

\* The table of each line.
LEMMA ScaffoldTableAt ==
    ASSUME NEW i \in 1 .. 19
    PROVE  TableAt(Scaffold, i) = IF i < 4 THEN << "meta" >> ELSE IF i < 11 THEN << "profile" >>
                                  ELSE IF i < 16 THEN << "backends", "ollama" >> ELSE << "routing", "code" >>
<1> DEFINE above == { h \in Kind(Scaffold, "header") : h <= i }
           n == IF i < 4 THEN 1 ELSE IF i < 11 THEN 4 ELSE IF i < 16 THEN 11 ELSE 16
<1>1. above = { h \in {1, 4, 11, 16} : h <= i }
  BY ScaffoldKinds
<1>2. n \in above /\ above \subseteq Int /\ \A y \in above : n >= y
  BY <1>1
<1>3. Max(above) = n
  <2> HIDE DEF above, n
  <2> QED BY <1>2, MaxIs
<1>4. TableAt(Scaffold, i) = Scaffold[Max(above)].path
  BY <1>2 DEF TableAt
<1> QED BY <1>3, <1>4, ScaffoldLines, LineIs

\* A name below a table.
LEMMA Below ==
    /\ \A x, y : << x >> \o << y >> = << x, y >>
    /\ \A x, y, z : << x, y >> \o << z >> = << x, y, z >>
<1>1. ASSUME NEW x, NEW y PROVE << x >> \o << y >> = << x, y >>
  <2> DEFINE S == {x, y}
             s == << x >>
             t == << y >>
             u == << x, y >>
  <2>1. s \in Seq(S) /\ t \in Seq(S) /\ u \in Seq(S) /\ Len(s) = 1 /\ Len(t) = 1 /\ Len(u) = 2
        /\ u[1] = s[1] /\ u[2] = t[1]
    OBVIOUS
  <2> HIDE DEF s, t, u, S
  <2>2. /\ s \o t \in Seq(S) /\ Len(s \o t) = Len(s) + Len(t)
        /\ \A i \in 1 .. Len(s) + Len(t) : (s \o t)[i] = IF i <= Len(s) THEN s[i] ELSE t[i - Len(s)]
    BY <2>1, ConcatProperties
  <2>3. \A i \in 1 .. 2 : (s \o t)[i] = u[i]
    BY <2>1, <2>2
  <2>4. s \o t = u
    BY <2>1, <2>2, <2>3, SeqEqual
  <2> QED BY <2>4 DEF s, t, u
<1>2. ASSUME NEW x, NEW y, NEW z PROVE << x, y >> \o << z >> = << x, y, z >>
  <2> DEFINE S == {x, y, z}
             s == << x, y >>
             t == << z >>
             u == << x, y, z >>
  <2>1. s \in Seq(S) /\ t \in Seq(S) /\ u \in Seq(S) /\ Len(s) = 2 /\ Len(t) = 1 /\ Len(u) = 3
        /\ u[1] = s[1] /\ u[2] = s[2] /\ u[3] = t[1]
    OBVIOUS
  <2> HIDE DEF s, t, u, S
  <2>2. /\ s \o t \in Seq(S) /\ Len(s \o t) = Len(s) + Len(t)
        /\ \A i \in 1 .. Len(s) + Len(t) : (s \o t)[i] = IF i <= Len(s) THEN s[i] ELSE t[i - Len(s)]
    BY <2>1, ConcatProperties
  <2>3. \A i \in 1 .. 3 : (s \o t)[i] = u[i]
    BY <2>1, <2>2
  <2>4. s \o t = u
    BY <2>1, <2>2, <2>3, SeqEqual
  <2> QED BY <2>4 DEF s, t, u
<1> QED BY <1>1, <1>2

\* The path of each of its keys.
LEMMA ScaffoldPaths ==
    \A i \in KeyLines : PathAt(Scaffold, i) = ScaffoldKey[i]
<1>1. ASSUME NEW p, NEW v PROVE Assign(p, v).path = << p >>
  BY LineIs
<1>2. /\ Scaffold[2].path = << "schema_version" >>
      /\ Scaffold[5].path = << "name" >>
      /\ Scaffold[6].path = << "max_context_tokens" >>
      /\ Scaffold[7].path = << "max_concurrent_models" >>
      /\ Scaffold[8].path = << "allow_premium" >>
      /\ Scaffold[9].path = << "mode" >>
      /\ Scaffold[12].path = << "kind" >>
      /\ Scaffold[13].path = << "base_url" >>
      /\ Scaffold[14].path = << "default" >>
      /\ Scaffold[17].path = << "model" >>
      /\ Scaffold[18].path = << "backend" >>
      /\ Scaffold[19].path = << "fallback" >>
  BY ScaffoldLines, <1>1
<1>3. \A i \in {2} : TableAt(Scaffold, i) = << "meta" >>
  BY ScaffoldTableAt
<1>4. \A i \in {5, 6, 7, 8, 9} : TableAt(Scaffold, i) = << "profile" >>
  BY ScaffoldTableAt
<1>5. \A i \in {12, 13, 14} : TableAt(Scaffold, i) = << "backends", "ollama" >>
  BY ScaffoldTableAt
<1>6. \A i \in {17, 18, 19} : TableAt(Scaffold, i) = << "routing", "code" >>
  BY ScaffoldTableAt
<1>7. ASSUME NEW i, NEW x, NEW y, TableAt(Scaffold, i) = << x >>, Scaffold[i].path = << y >>
      PROVE  PathAt(Scaffold, i) = << x, y >>
  BY <1>7, Below DEF PathAt
<1>8. ASSUME NEW i, NEW x, NEW y, NEW z, TableAt(Scaffold, i) = << x, y >>, Scaffold[i].path = << z >>
      PROVE  PathAt(Scaffold, i) = << x, y, z >>
  BY <1>8, Below DEF PathAt
<1>9. PathAt(Scaffold, 2) = << "meta", "schema_version" >>
  BY <1>2, <1>3, <1>7
<1>10. PathAt(Scaffold, 5) = << "profile", "name" >>
  BY <1>2, <1>4, <1>7
<1>11. PathAt(Scaffold, 6) = << "profile", "max_context_tokens" >>
  BY <1>2, <1>4, <1>7
<1>12. PathAt(Scaffold, 7) = << "profile", "max_concurrent_models" >>
  BY <1>2, <1>4, <1>7
<1>13. PathAt(Scaffold, 8) = << "profile", "allow_premium" >>
  BY <1>2, <1>4, <1>7
<1>14. PathAt(Scaffold, 9) = << "profile", "mode" >>
  BY <1>2, <1>4, <1>7
<1>15. PathAt(Scaffold, 12) = << "backends", "ollama", "kind" >>
  BY <1>2, <1>5, <1>8
<1>16. PathAt(Scaffold, 13) = << "backends", "ollama", "base_url" >>
  BY <1>2, <1>5, <1>8
<1>17. PathAt(Scaffold, 14) = << "backends", "ollama", "default" >>
  BY <1>2, <1>5, <1>8
<1>18. PathAt(Scaffold, 17) = << "routing", "code", "model" >>
  BY <1>2, <1>6, <1>8
<1>19. PathAt(Scaffold, 18) = << "routing", "code", "backend" >>
  BY <1>2, <1>6, <1>8
<1>20. PathAt(Scaffold, 19) = << "routing", "code", "fallback" >>
  BY <1>2, <1>6, <1>8
<1> QED BY <1>9, <1>10, <1>11, <1>12, <1>13, <1>14, <1>15, <1>16, <1>17, <1>18, <1>19, <1>20 DEF KeyLines, ScaffoldKey

\* Its keys, and its tables.
LEMMA ScaffoldNames ==
    /\ Keys(Scaffold) = { ScaffoldKey[i] : i \in KeyLines }
    /\ Tables(Scaffold) = { ScaffoldTable[i] : i \in HeaderLines }
    /\ \A i, j \in KeyLines : ScaffoldKey[i] = ScaffoldKey[j] => i = j
    /\ \A i, j \in HeaderLines : ScaffoldTable[i] = ScaffoldTable[j] => i = j
<1>1. Keys(Scaffold) = { ScaffoldKey[i] : i \in KeyLines }
  <2>1. Kind(Scaffold, "key") = KeyLines
    BY ScaffoldKinds DEF KeyLines
  <2> QED BY <2>1, ScaffoldPaths DEF Keys
<1>2. Tables(Scaffold) = { ScaffoldTable[i] : i \in HeaderLines }
  <2>1. Kind(Scaffold, "header") = HeaderLines
    BY ScaffoldKinds DEF HeaderLines
  <2>2. ASSUME NEW p PROVE Header(p).path = p
    BY LineIs
  <2>3. \A i \in HeaderLines : Scaffold[i].path = ScaffoldTable[i]
    BY <2>2, ScaffoldLines DEF HeaderLines, ScaffoldTable
  <2> QED BY <2>1, <2>3 DEF Tables
<1>3. \A i, j \in KeyLines : ScaffoldKey[i] = ScaffoldKey[j] => i = j
  BY DEF KeyLines, ScaffoldKey
<1>4. \A i, j \in HeaderLines : ScaffoldTable[i] = ScaffoldTable[j] => i = j
  BY DEF HeaderLines, ScaffoldTable
<1> QED BY <1>1, <1>2, <1>3, <1>4

\* Both, one by one.
LEMMA ScaffoldNamed ==
    /\ ScaffoldKey[2] = << "meta", "schema_version" >>
    /\ ScaffoldKey[5] = << "profile", "name" >>
    /\ ScaffoldKey[6] = << "profile", "max_context_tokens" >>
    /\ ScaffoldKey[7] = << "profile", "max_concurrent_models" >>
    /\ ScaffoldKey[8] = << "profile", "allow_premium" >>
    /\ ScaffoldKey[9] = << "profile", "mode" >>
    /\ ScaffoldKey[12] = << "backends", "ollama", "kind" >>
    /\ ScaffoldKey[13] = << "backends", "ollama", "base_url" >>
    /\ ScaffoldKey[14] = << "backends", "ollama", "default" >>
    /\ ScaffoldKey[17] = << "routing", "code", "model" >>
    /\ ScaffoldKey[18] = << "routing", "code", "backend" >>
    /\ ScaffoldKey[19] = << "routing", "code", "fallback" >>
    /\ ScaffoldTable[1] = << "meta" >>
    /\ ScaffoldTable[4] = << "profile" >>
    /\ ScaffoldTable[11] = << "backends", "ollama" >>
    /\ ScaffoldTable[16] = << "routing", "code" >>
BY DEF ScaffoldKey, ScaffoldTable

\* The shapes of both.
LEMMA ScaffoldShapes ==
    /\ \A i \in KeyLines : LET p == ScaffoldKey[i] IN
          /\ Len(p) \in {2, 3}
          /\ Len(p) = 2 => p[1] \in {"meta", "profile"}
          /\ Len(p) = 3 => p[1] \in {"backends", "routing"}
    /\ \A i \in HeaderLines : LET p == ScaffoldTable[i] IN
          /\ Len(p) \in {1, 2}
          /\ Len(p) = 2 => p[1] \in {"backends", "routing"}
<1> DEFINE Pair(p, x) == Len(p) = 2 /\ p[1] = x
           Triple(p, x) == Len(p) = 3 /\ p[1] = x
<1>1. \A x, y : Pair(<< x, y >>, x)
  OBVIOUS
<1>2. \A x, y, z : Triple(<< x, y, z >>, x)
  OBVIOUS
<1> HIDE DEF Pair, Triple
<1>4. \A i \in KeyLines : LET p == ScaffoldKey[i] IN
          /\ Len(p) \in {2, 3}
          /\ Len(p) = 2 => p[1] \in {"meta", "profile"}
          /\ Len(p) = 3 => p[1] \in {"backends", "routing"}
  <2>1. /\ Pair(ScaffoldKey[2], "meta") /\ Pair(ScaffoldKey[5], "profile") /\ Pair(ScaffoldKey[6], "profile")
        /\ Pair(ScaffoldKey[7], "profile") /\ Pair(ScaffoldKey[8], "profile") /\ Pair(ScaffoldKey[9], "profile")
    BY <1>1, ScaffoldNamed
  <2>2. /\ Triple(ScaffoldKey[12], "backends") /\ Triple(ScaffoldKey[13], "backends")
        /\ Triple(ScaffoldKey[14], "backends") /\ Triple(ScaffoldKey[17], "routing")
        /\ Triple(ScaffoldKey[18], "routing") /\ Triple(ScaffoldKey[19], "routing")
    BY <1>2, ScaffoldNamed
  <2> USE DEF Pair, Triple
  <2> QED BY <2>1, <2>2 DEF KeyLines
<1>5. \A i \in HeaderLines : LET p == ScaffoldTable[i] IN
          /\ Len(p) \in {1, 2}
          /\ Len(p) = 2 => p[1] \in {"backends", "routing"}
  <2>1. Len(ScaffoldTable[1]) = 1 /\ Len(ScaffoldTable[4]) = 1
    BY ScaffoldNamed
  <2>2. Pair(ScaffoldTable[11], "backends") /\ Pair(ScaffoldTable[16], "routing")
    BY <1>1, ScaffoldNamed
  <2> USE DEF Pair
  <2> QED BY <2>1, <2>2 DEF HeaderLines
<1> QED BY <1>4, <1>5

\* They fit the schema.
LEMMA ScaffoldFits ==
    /\ \A i \in KeyLines : /\ IsField(ScaffoldKey[i]) /\ ~IsTable(ScaffoldKey[i])
                            /\ Scaffold[i].value[1] = TypeOf(ScaffoldKey[i])
                            /\ Scaffold[i].value[1] # "null"
    /\ \A i \in HeaderLines : IsTable(ScaffoldTable[i]) /\ ~IsField(ScaffoldTable[i])
<1>1. \A f \in ProfileFields : IsField(<< "profile", f >>) /\ ~IsTable(<< "profile", f >>)
  BY DEF IsField, IsTable
<1>2. \A b, f : f \in BackendFields \ {"credential"} =>
        IsField(<< "backends", b, f >>) /\ ~IsTable(<< "backends", b, f >>)
  BY DEF IsField, IsTable
<1>3. \A t, f : f \in RoutingFields => IsField(<< "routing", t, f >>) /\ ~IsTable(<< "routing", t, f >>)
  BY DEF IsField, IsTable
<1>10. IsField(<< "meta", "schema_version" >>) /\ ~IsTable(<< "meta", "schema_version" >>)
  BY DEF IsField, IsTable
<1>11. \A i \in {2, 5, 6, 7, 8, 9} : IsField(ScaffoldKey[i]) /\ ~IsTable(ScaffoldKey[i])
  BY <1>1, <1>10, ScaffoldNamed DEF ProfileFields
<1>12. \A i \in {12, 13, 14} : IsField(ScaffoldKey[i]) /\ ~IsTable(ScaffoldKey[i])
  BY <1>2, ScaffoldNamed DEF BackendFields
<1>13. \A i \in {17, 18, 19} : IsField(ScaffoldKey[i]) /\ ~IsTable(ScaffoldKey[i])
  BY <1>3, ScaffoldNamed DEF RoutingFields
<1>4. \A i \in HeaderLines : IsTable(ScaffoldTable[i]) /\ ~IsField(ScaffoldTable[i])
  BY DEF HeaderLines, ScaffoldTable, IsField, IsTable, Sections
<1>5. \A p, v : Assign(p, v).value = v
  BY LineIs
<1> DEFINE T(name) == CASE name \in {"max_context_tokens", "max_concurrent_models", "vram_total_bytes_hint",
                                      "fallback_chain_position", "timeout_ms", "num_ctx"} -> "int"
                        [] name \in {"allow_premium", "default", "remote_allowed"} -> "bool"
                        [] name = "fallback" -> "array"
                        [] OTHER -> "string"
<1>14. (\A x, y : TypeOf(<< x, y >>) = T(y)) /\ \A x, y, z : TypeOf(<< x, y, z >>) = T(z)
  <2>1. (\A x, y : << x, y >>[Len(<< x, y >>)] = y) /\ \A x, y, z : << x, y, z >>[Len(<< x, y, z >>)] = z
    OBVIOUS
  <2> QED BY <2>1 DEF TypeOf
<1>15. /\ \A name \in {"schema_version", "name", "mode", "kind", "base_url", "model", "backend"} : T(name) = "string"
       /\ \A name \in {"max_context_tokens", "max_concurrent_models"} : T(name) = "int"
       /\ \A name \in {"allow_premium", "default"} : T(name) = "bool"
       /\ T("fallback") = "array"
  OBVIOUS
<1> HIDE DEF T
<1>20. /\ TypeOf(<< "meta", "schema_version" >>) = "string"
       /\ TypeOf(<< "profile", "name" >>) = "string"
       /\ TypeOf(<< "profile", "max_context_tokens" >>) = "int"
       /\ TypeOf(<< "profile", "max_concurrent_models" >>) = "int"
       /\ TypeOf(<< "profile", "allow_premium" >>) = "bool"
       /\ TypeOf(<< "profile", "mode" >>) = "string"
       /\ TypeOf(<< "backends", "ollama", "kind" >>) = "string"
       /\ TypeOf(<< "backends", "ollama", "base_url" >>) = "string"
       /\ TypeOf(<< "backends", "ollama", "default" >>) = "bool"
       /\ TypeOf(<< "routing", "code", "model" >>) = "string"
       /\ TypeOf(<< "routing", "code", "backend" >>) = "string"
       /\ TypeOf(<< "routing", "code", "fallback" >>) = "array"
  BY <1>14, <1>15
<1>6. \A i \in {2, 5, 9, 12, 13, 17, 18} : TypeOf(ScaffoldKey[i]) = "string"
  BY <1>20, ScaffoldNamed
<1>7. \A i \in {6, 7} : TypeOf(ScaffoldKey[i]) = "int"
  BY <1>20, ScaffoldNamed
<1>8. \A i \in {8, 14} : TypeOf(ScaffoldKey[i]) = "bool"
  BY <1>20, ScaffoldNamed
<1>9. TypeOf(ScaffoldKey[19]) = "array"
  BY <1>20, ScaffoldNamed
<1>16. /\ \A i \in {2, 5, 9, 12, 13, 17, 18} : Scaffold[i].value[1] = "string"
       /\ \A i \in {6, 7} : Scaffold[i].value[1] = "int"
       /\ \A i \in {8, 14} : Scaffold[i].value[1] = "bool"
       /\ Scaffold[19].value[1] = "array"
  BY <1>5, ScaffoldLines
<1>17. \A i \in KeyLines : Scaffold[i].value[1] = TypeOf(ScaffoldKey[i]) /\ Scaffold[i].value[1] # "null"
  BY <1>6, <1>7, <1>8, <1>9, <1>16 DEF KeyLines
<1>18. \A i \in KeyLines : IsField(ScaffoldKey[i]) /\ ~IsTable(ScaffoldKey[i])
  BY <1>11, <1>12, <1>13 DEF KeyLines
<1> QED BY <1>4, <1>17, <1>18

\* A set of different things, one for each of a finite set, is as large as it.
LEMMA ImageSize ==
    ASSUME NEW S, IsFiniteSet(S), NEW f, \A i, j \in S : f[i] = f[j] => i = j
    PROVE  Cardinality({ f[i] : i \in S }) = Cardinality(S)
<1> DEFINE T == { f[i] : i \in S }
           g == [i \in S |-> f[i]]
<1>1. g \in Bijection(S, T)
  BY DEF Bijection, Injection, Surjection, IsInjective
<1>2. ExistsBijection(S, T)
  BY <1>1 DEF ExistsBijection
<1> QED BY <1>2, FS_Bijection

\* Some of the first numbers are finitely many.
LEMMA FewIsFinite ==
    ASSUME NEW n \in Nat, NEW S \in SUBSET (1 .. n)
    PROVE  IsFiniteSet(S)
<1>1. IsFiniteSet(1 .. n)
  BY FS_Interval
<1> QED BY <1>1, FS_Subset

\* A part of a path is shorter than it, and begins alike.
LEMMA ParentsAre ==
    ASSUME NEW p, Len(p) \in Nat, NEW q \in Parents(p)
    PROVE  Len(q) \in 1 .. Len(p) - 1 /\ q[1] = p[1]
<1>1. PICK n \in 1 .. Len(p) - 1 : q = SubSeq(p, 1, n)
  BY DEF Parents
<1> QED BY <1>1

\* The scaffold is a well-formed text.
LEMMA ScaffoldWellFormed == WellFormed(Scaffold)
<1>1. Cardinality(Tables(Scaffold)) = Cardinality(Kind(Scaffold, "header"))
  <2>1. IsFiniteSet(HeaderLines) /\ Kind(Scaffold, "header") = HeaderLines
    <3>1. HeaderLines \subseteq 1 .. 19
      BY DEF HeaderLines
    <3>2. \E n \in Nat : n = 19
      OBVIOUS
    <3>3. IsFiniteSet(HeaderLines)
      BY <3>1, <3>2, FewIsFinite
    <3> QED BY <3>3, ScaffoldKinds DEF HeaderLines
  <2> QED BY <2>1, ImageSize, ScaffoldNames
<1>2. Cardinality(Keys(Scaffold)) = Cardinality(Kind(Scaffold, "key"))
  <2>1. IsFiniteSet(KeyLines) /\ Kind(Scaffold, "key") = KeyLines
    <3>1. KeyLines \subseteq 1 .. 19
      BY DEF KeyLines
    <3>2. \E n \in Nat : n = 19
      OBVIOUS
    <3>3. IsFiniteSet(KeyLines)
      BY <3>1, <3>2, FewIsFinite
    <3> QED BY <3>3, ScaffoldKinds DEF KeyLines
  <2> QED BY <2>1, ImageSize, ScaffoldNames
<1>3. Dotted(Scaffold) = {}
  <2>1. \A i \in KeyLines : Len(Scaffold[i].path) = 1
    <3>1. ASSUME NEW p, NEW v PROVE Len(Assign(p, v).path) = 1
      <4>1. Assign(p, v).path = << p >>
        BY LineIs
      <4> QED BY <4>1
    <3> QED BY <3>1, ScaffoldLines DEF KeyLines
  <2>2. \A i \in KeyLines : Parents(Scaffold[i].path) = {}
    BY <2>1 DEF Parents
  <2>3. Kind(Scaffold, "key") = KeyLines
    BY ScaffoldKinds DEF KeyLines
  <2> QED BY <2>2, <2>3 DEF Dotted
<1>4. Tables(Scaffold) \cap Keys(Scaffold) = {}
  BY ScaffoldNames, ScaffoldFits
<1>5. \A p \in Tables(Scaffold) \cup Keys(Scaffold) : Parents(p) \cap Keys(Scaffold) = {}
  <2> SUFFICES ASSUME NEW p \in Tables(Scaffold) \cup Keys(Scaffold), NEW q \in Parents(p), q \in Keys(Scaffold)
               PROVE  FALSE
    OBVIOUS
  <2>1. Len(p) \in 1 .. 3 /\ (Len(p) = 3 => p[1] \in {"backends", "routing"})
    BY ScaffoldNames, ScaffoldShapes
  <2>2. Len(q) \in 1 .. Len(p) - 1 /\ q[1] = p[1]
    BY <2>1, ParentsAre
  <2>3. Len(q) \in {2, 3} /\ (Len(q) = 2 => q[1] \in {"meta", "profile"})
    BY ScaffoldNames, ScaffoldShapes
  <2> DEFINE m == Len(p)
             n == Len(q)
  <2> HIDE DEF m, n
  <2>4. m \in 1 .. 3 /\ n \in 1 .. m - 1 /\ n \in {2, 3}
    BY <2>1, <2>2, <2>3 DEF m, n
  <2>5. m = 3 /\ n = 2
    BY <2>4
  <2> QED BY <2>1, <2>2, <2>3, <2>5 DEF m, n
<1>6. \A i \in Kind(Scaffold, "key") : Scaffold[i].value[1] # "null"
  BY ScaffoldKinds, ScaffoldFits DEF KeyLines
<1> QED BY <1>1, <1>2, <1>3, <1>4, <1>5, <1>6, ScaffoldKinds DEF WellFormed

\* Its values are those that it assigns.
LEMMA ScaffoldValues ==
    /\ DOMAIN Values(Scaffold) = { ScaffoldKey[i] : i \in KeyLines }
    /\ \A i \in KeyLines : Values(Scaffold)[ScaffoldKey[i]] = Scaffold[i].value
<1> DEFINE path == [i \in Kind(Scaffold, "key") |-> PathAt(Scaffold, i)]
<1>1. Values(Scaffold) = [p \in Keys(Scaffold) |-> Scaffold[CHOOSE i \in DOMAIN path : path[i] = p].value]
  BY DEF Values
<1>2. DOMAIN path = KeyLines /\ \A i \in KeyLines : path[i] = ScaffoldKey[i]
  BY ScaffoldPaths, ScaffoldKinds DEF KeyLines
<1> HIDE DEF path
<1>3. \A i \in KeyLines : (CHOOSE j \in DOMAIN path : path[j] = ScaffoldKey[i]) = i
  BY <1>2, ScaffoldNames
<1> QED BY <1>1, <1>3, ScaffoldNames

\* It decodes.
LEMMA ScaffoldDecodes == Decodes(Scaffold)
<1>1. \A p \in Keys(Scaffold) : ~IsTable(p) /\ (IsField(p) => Values(Scaffold)[p][1] = TypeOf(p))
  BY ScaffoldNames, ScaffoldFits, ScaffoldValues
<1>2. \A p \in Tables(Scaffold) : ~IsField(p)
  BY ScaffoldNames, ScaffoldFits
<1>3. ASSUME NEW p \in Keys(Scaffold) \cup Tables(Scaffold), NEW q \in Parents(p) PROVE ~IsField(q)
  <2>1. Len(p) \in 1 .. 3 /\ (Len(p) = 3 => p[1] \in {"backends", "routing"})
    BY ScaffoldNames, ScaffoldShapes
  <2>2. Len(q) \in 1 .. Len(p) - 1 /\ q[1] = p[1]
    BY <2>1, ParentsAre
  <2>3. Len(q) \in {1, 2} /\ (Len(q) = 2 => q[1] \in {"backends", "routing"})
    <3> DEFINE m == Len(p)
               n == Len(q)
    <3> HIDE DEF m, n
    <3>1. m \in 1 .. 3 /\ n \in 1 .. m - 1
      BY <2>1, <2>2 DEF m, n
    <3>2. n \in {1, 2} /\ (n = 2 => m = 3)
      BY <3>1
    <3> QED BY <2>1, <2>2, <3>2 DEF m, n
  <2>4. Len(<< "meta", "schema_version" >>) = 2 /\ << "meta", "schema_version" >>[1] = "meta"
    OBVIOUS
  <2> QED BY <2>3, <2>4 DEF IsField
<1> QED BY <1>1, <1>2, <1>3, ScaffoldWellFormed DEF Decodes

\* The values that are there are the defaulted ones and the file's.
LEMMA PlainKeys ==
    ASSUME NEW lines
    PROVE  DOMAIN PlainValues(lines) = DefaultedKeys(Values(lines), FileMentions(lines)) \cup DOMAIN Values(lines)
<1> DEFINE low == [p \in DefaultedKeys(Values(lines), FileMentions(lines)) |-> Defaults(FromFile(lines))[p]]
           v == Values(lines)
<1>1. PlainValues(lines) = Over(low, v) /\ DOMAIN low = DefaultedKeys(Values(lines), FileMentions(lines))
  BY DEF PlainValues
<1> HIDE DEF low, v
<1>2. DOMAIN Over(low, v) = DOMAIN low \cup DOMAIN v
  BY OverIs
<1> QED BY <1>1, <1>2 DEF v

\* The default of a route's fallbacks is none.
LEMMA FallbackDefault ==
    ASSUME NEW cfg, NEW t \in Named(cfg, "routing")
    PROVE  Defaults(cfg)[<< "routing", t, "fallback" >>] = << "array", << >> >>
<1> DEFINE k == << "routing", t, "fallback" >>
           a == Only(<< "meta", "schema_version" >>, << "string", "0.1" >>)
           b == Only(<< "profile", "mode" >>, << "string", "warn" >>)
           c == [p \in { BackendKey(x, "timeout_ms") : x \in Named(cfg, "backends") } |-> << "int", 2000 >>]
           d == [p \in { << "routing", x, "fallback" >> : x \in Named(cfg, "routing") } |-> << "array", << >> >>]
<1>1. Defaults(cfg) = Over(Over(a, b), Over(c, d))
  BY DEF Defaults
<1>2. k \notin DOMAIN a /\ k \notin DOMAIN b
  <2>1. DOMAIN a = {<< "meta", "schema_version" >>} /\ DOMAIN b = {<< "profile", "mode" >>}
    BY OnlyIs
  <2> HIDE DEF a, b
  <2> QED BY <2>1
<1>3. k \notin DOMAIN c
  BY DEF BackendKey
<1>4. k \in DOMAIN d /\ d[k] = << "array", << >> >>
  OBVIOUS
<1> HIDE DEF a, b, c, d, k
<1>5. DOMAIN Over(a, b) = DOMAIN a \cup DOMAIN b
  BY OverIs
<1>6. k \in DOMAIN Over(c, d) /\ Over(c, d)[k] = d[k]
  <2>1. /\ DOMAIN Over(c, d) = DOMAIN c \cup DOMAIN d
        /\ \A x \in DOMAIN d \ DOMAIN c : Over(c, d)[x] = d[x]
    BY OverIs
  <2> QED BY <1>3, <1>4, <2>1
<1>7. Over(Over(a, b), Over(c, d))[k] = Over(c, d)[k]
  <2>1. \A x \in DOMAIN Over(c, d) \ DOMAIN Over(a, b) : Over(Over(a, b), Over(c, d))[x] = Over(c, d)[x]
    BY OverIs
  <2> QED BY <1>2, <1>5, <1>6, <2>1
<1> QED BY <1>1, <1>4, <1>6, <1>7 DEF k

\* In an empty environment a value of the file that is not a zero is the one loaded.
LEMMA NeutralValues ==
    ASSUME NEW lines, Decodes(lines)
    PROVE  /\ DOMAIN Loaded(lines, Neutral).value = DOMAIN PlainValues(lines)
           /\ \A k \in DOMAIN Values(lines) :
                 /\ k \in DOMAIN Loaded(lines, Neutral).value
                 /\ \/ Loaded(lines, Neutral).value[k] = Values(lines)[k]
                    \/ /\ Values(lines)[k] = Zero[TypeOf(k)]
                       /\ Loaded(lines, Neutral).value[k] = Defaults(WithDefaults(FromFile(lines)))[k]
<1> DEFINE cfg == Loaded(lines, Neutral)
<1>1. LoadedFrom(cfg, lines, Neutral)
  BY LoadedIs
<1>2. ModeKeys(Neutral) = {} /\ FlagKeys(lines, Neutral) = {}
  BY DEF Neutral, ModeKeys, FlagKeys
<1> HIDE DEF cfg
<1>3. DOMAIN cfg.value = DOMAIN PlainValues(lines)
      /\ \A k \in DOMAIN PlainValues(lines) : cfg.value[k] = PlainValues(lines)[k]
  BY <1>1, <1>2 DEF LoadedFrom
<1>4. ASSUME NEW k \in DOMAIN Values(lines)
      PROVE  /\ k \in DOMAIN PlainValues(lines)
             /\ \/ PlainValues(lines)[k] = Values(lines)[k]
                \/ /\ Values(lines)[k] = Zero[TypeOf(k)]
                   /\ PlainValues(lines)[k] = Defaults(WithDefaults(FromFile(lines)))[k]
  <2>1. k \in DOMAIN PlainValues(lines)
    BY PlainKeys
  <2> QED BY <2>1, PlainProvenance
<1> QED BY <1>3, <1>4 DEF cfg

\* What the scaffold mentions, section by section.
LEMMA ScaffoldMentions ==
    LET m == FileMentions(Scaffold) IN
    /\ NamedIn(m, "backends") = {"ollama"} /\ NamedIn(m, "routing") = {"code"} /\ NamedIn(m, "models") = {}
    /\ \A p \in m : KnownKey(p)
    /\ \A p \in m : Len(p) <= 3
    /\ \A p \in m : p[1] = "backends" /\ Len(p) = 3 => p[3] # "credential"
    /\ \A i \in KeyLines : ScaffoldKey[i] \in m
<1> DEFINE m == FileMentions(Scaffold)
<1>1. m = { ScaffoldKey[i] : i \in KeyLines } \cup { ScaffoldTable[i] : i \in HeaderLines }
  BY ScaffoldNames DEF FileMentions
<1>2. \A p \in m : KnownKey(p)
  BY <1>1, ScaffoldFits DEF KnownKey
<1>3. \A p \in m : Len(p) <= 3
  <2>1. \A i \in KeyLines : Len(ScaffoldKey[i]) \in {2, 3}
    BY ScaffoldShapes
  <2>2. \A i \in HeaderLines : Len(ScaffoldTable[i]) \in {1, 2}
    BY ScaffoldShapes
  <2>3. \A p \in m : Len(p) \in {1, 2, 3}
    BY <1>1, <2>1, <2>2
  <2> QED BY <2>3
<1>4. \A p \in m : p[1] = "backends" /\ Len(p) >= 2 => p[2] = "ollama" /\ (Len(p) = 3 => p[3] # "credential")
  <2> DEFINE Fits(p) == p[1] = "backends" /\ Len(p) >= 2 => p[2] = "ollama" /\ (Len(p) = 3 => p[3] # "credential")
  <2>1. \A x : Fits(<< x >>)
    OBVIOUS
  <2>2. \A x, y : x # "backends" \/ y = "ollama" => Fits(<< x, y >>)
    OBVIOUS
  <2>3. \A x, y, z : x # "backends" \/ (y = "ollama" /\ z # "credential") => Fits(<< x, y, z >>)
    OBVIOUS
  <2> HIDE DEF Fits
  <2>4. \A i \in KeyLines : Fits(ScaffoldKey[i])
    <3>1. /\ Fits(ScaffoldKey[2]) /\ Fits(ScaffoldKey[5]) /\ Fits(ScaffoldKey[6]) /\ Fits(ScaffoldKey[7])
          /\ Fits(ScaffoldKey[8]) /\ Fits(ScaffoldKey[9])
      BY <2>2, ScaffoldNamed
    <3>2. /\ Fits(ScaffoldKey[12]) /\ Fits(ScaffoldKey[13]) /\ Fits(ScaffoldKey[14]) /\ Fits(ScaffoldKey[17])
          /\ Fits(ScaffoldKey[18]) /\ Fits(ScaffoldKey[19])
      BY <2>3, ScaffoldNamed
    <3> QED BY <3>1, <3>2 DEF KeyLines
  <2>5. \A i \in HeaderLines : Fits(ScaffoldTable[i])
    BY <2>1, <2>2, ScaffoldNamed DEF HeaderLines
  <2>6. \A p \in m : Fits(p)
    BY <1>1, <2>4, <2>5
  <2> QED BY <2>6 DEF Fits
<1>5. \A p \in m : (p[1] = "routing" /\ Len(p) >= 2 => p[2] = "code") /\ p[1] # "models"
  <2> DEFINE Fits(p) == (p[1] = "routing" /\ Len(p) >= 2 => p[2] = "code") /\ p[1] # "models"
  <2>1. \A x : x # "models" => Fits(<< x >>)
    OBVIOUS
  <2>2. \A x, y : x # "models" /\ (x # "routing" \/ y = "code") => Fits(<< x, y >>)
    OBVIOUS
  <2>3. \A x, y, z : x # "models" /\ (x # "routing" \/ y = "code") => Fits(<< x, y, z >>)
    OBVIOUS
  <2> HIDE DEF Fits
  <2>4. \A i \in KeyLines : Fits(ScaffoldKey[i])
    <3>1. /\ Fits(ScaffoldKey[2]) /\ Fits(ScaffoldKey[5]) /\ Fits(ScaffoldKey[6]) /\ Fits(ScaffoldKey[7])
          /\ Fits(ScaffoldKey[8]) /\ Fits(ScaffoldKey[9])
      BY <2>2, ScaffoldNamed
    <3>2. /\ Fits(ScaffoldKey[12]) /\ Fits(ScaffoldKey[13]) /\ Fits(ScaffoldKey[14]) /\ Fits(ScaffoldKey[17])
          /\ Fits(ScaffoldKey[18]) /\ Fits(ScaffoldKey[19])
      BY <2>3, ScaffoldNamed
    <3> QED BY <3>1, <3>2 DEF KeyLines
  <2>5. \A i \in HeaderLines : Fits(ScaffoldTable[i])
    BY <2>1, <2>2, ScaffoldNamed DEF HeaderLines
  <2>6. \A p \in m : Fits(p)
    BY <1>1, <2>4, <2>5
  <2> QED BY <2>6 DEF Fits
<1>6. << "backends", "ollama" >> \in m /\ << "routing", "code" >> \in m
  BY <1>1, ScaffoldNamed DEF HeaderLines
<1>7. \A x, y : Len(<< x, y >>) = 2 /\ << x, y >>[1] = x /\ << x, y >>[2] = y
  OBVIOUS
<1>8. NamedIn(m, "backends") = {"ollama"} /\ NamedIn(m, "routing") = {"code"} /\ NamedIn(m, "models") = {}
  <2> HIDE DEF m
  <2> QED BY <1>4, <1>5, <1>6, <1>7 DEF NamedIn
<1>9. \A p \in m : p[1] = "backends" /\ Len(p) = 3 => p[3] # "credential"
  BY <1>4
<1>10. \A i \in KeyLines : ScaffoldKey[i] \in m
  BY <1>1
<1> QED BY <1>2, <1>3, <1>8, <1>9, <1>10

\* The values of the scaffold, one by one.
LEMMA ScaffoldData ==
    /\ Scaffold[2].value = << "string", "0.1" >>
    /\ Scaffold[5].value = << "string", "default_local_workstation" >>
    /\ Scaffold[6].value = << "int", 8192 >>
    /\ Scaffold[7].value = << "int", 1 >>
    /\ Scaffold[8].value = << "bool", FALSE >>
    /\ Scaffold[9].value = << "string", "warn" >>
    /\ Scaffold[12].value = << "string", "ollama" >>
    /\ Scaffold[13].value = << "string", URLOf[OllamaPort] >>
    /\ Scaffold[14].value = << "bool", TRUE >>
    /\ Scaffold[17].value = << "string", "qwen3:8b" >>
    /\ Scaffold[18].value = << "string", "ollama" >>
    /\ Scaffold[19].value = << "array", << >> >>
<1>1. ASSUME NEW p, NEW v PROVE Assign(p, v).value = v
  BY LineIs
<1>2. Scaffold[2].value = << "string", "0.1" >>
  BY <1>1, ScaffoldLines
<1>3. Scaffold[5].value = << "string", "default_local_workstation" >>
  BY <1>1, ScaffoldLines
<1>4. Scaffold[6].value = << "int", 8192 >>
  BY <1>1, ScaffoldLines
<1>5. Scaffold[7].value = << "int", 1 >>
  BY <1>1, ScaffoldLines
<1>6. Scaffold[8].value = << "bool", FALSE >>
  <2> DEFINE v == << "bool", FALSE >>
  <2>1. Scaffold[8] = Assign("allow_premium", v)
    BY ScaffoldLines
  <2> HIDE DEF v
  <2>2. Scaffold[8].value = v
    BY <1>1, <2>1
  <2> QED BY <2>2 DEF v
<1>7. Scaffold[9].value = << "string", "warn" >>
  BY <1>1, ScaffoldLines
<1>8. Scaffold[12].value = << "string", "ollama" >>
  BY <1>1, ScaffoldLines
<1>9. Scaffold[13].value = << "string", URLOf[OllamaPort] >>
  BY <1>1, ScaffoldLines
<1>10. Scaffold[14].value = << "bool", TRUE >>
  <2> DEFINE v == << "bool", TRUE >>
  <2>1. Scaffold[14] = Assign("default", v)
    BY ScaffoldLines
  <2> HIDE DEF v
  <2>2. Scaffold[14].value = v
    BY <1>1, <2>1
  <2> QED BY <2>2 DEF v
<1>11. Scaffold[17].value = << "string", "qwen3:8b" >>
  BY <1>1, ScaffoldLines
<1>12. Scaffold[18].value = << "string", "ollama" >>
  BY <1>1, ScaffoldLines
<1>13. Scaffold[19].value = << "array", << >> >>
  BY <1>1, ScaffoldLines
<1> QED BY <1>2, <1>3, <1>4, <1>5, <1>6, <1>7, <1>8, <1>9, <1>10, <1>11, <1>12, <1>13

\* The values of the scaffold that validation reads.
LEMMA ScaffoldLoads ==
    LET cfg == Loaded(Scaffold, Neutral) IN
    /\ \A i \in KeyLines : ScaffoldKey[i] \in DOMAIN cfg.value
    /\ \A i \in KeyLines \ {8, 19} : cfg.value[ScaffoldKey[i]] = Scaffold[i].value
    /\ cfg.value[ScaffoldKey[19]] = << "array", << >> >>
    /\ << "routing", "code", "num_ctx" >> \notin DOMAIN cfg.value
<1> DEFINE cfg == Loaded(Scaffold, Neutral)
           file == Values(Scaffold)
<1>1. /\ DOMAIN cfg.value = DOMAIN PlainValues(Scaffold)
      /\ \A k \in DOMAIN file :
            /\ k \in DOMAIN cfg.value
            /\ \/ cfg.value[k] = file[k]
               \/ /\ file[k] = Zero[TypeOf(k)]
                  /\ cfg.value[k] = Defaults(WithDefaults(FromFile(Scaffold)))[k]
  BY ScaffoldDecodes, NeutralValues
<1>2. \A i \in KeyLines : ScaffoldKey[i] \in DOMAIN file /\ file[ScaffoldKey[i]] = Scaffold[i].value
  BY ScaffoldValues
<1>3. \A i \in KeyLines \ {8, 19} : Scaffold[i].value # Zero[TypeOf(ScaffoldKey[i])]
  <2> DEFINE Nonzero(v) == v # Zero[v[1]]
  <2>1. /\ Zero["string"] = << "string", "" >> /\ Zero["int"] = << "int", 0 >>
        /\ Zero["bool"] = << "bool", FALSE >>
    BY DEF Zero, Types
  <2>11. ASSUME NEW t, NEW x, NEW z, Zero[t] = << t, z >>, x # z PROVE Nonzero(<< t, x >>)
    <3>1. << t, x >>[1] = t /\ << t, x >>[2] = x /\ << t, z >>[2] = z
      OBVIOUS
    <3>2. << t, x >> # << t, z >>
      BY <3>1, <2>11
    <3> QED BY <3>1, <3>2, <2>11
  <2>2. \A s : s # "" => Nonzero(<< "string", s >>)
    BY <2>1, <2>11
  <2>22. \A n : n # 0 => Nonzero(<< "int", n >>)
    BY <2>1, <2>11
  <2>23. Nonzero(<< "bool", TRUE >>)
    BY <2>1, <2>11
  <2>3. URLOf[OllamaPort] # ""
    <3>1. URLOf[OllamaPort] \in URL
      BY OllamaUrl
    <3>2. "" \notin URL
      BY StringAssumption
    <3> QED BY <3>1, <3>2
  <2> HIDE DEF Nonzero
  <2>4. /\ Nonzero(Scaffold[2].value) /\ Nonzero(Scaffold[5].value) /\ Nonzero(Scaffold[9].value)
        /\ Nonzero(Scaffold[12].value) /\ Nonzero(Scaffold[13].value) /\ Nonzero(Scaffold[17].value)
        /\ Nonzero(Scaffold[18].value)
    <3>1. /\ "0.1" # "" /\ "default_local_workstation" # "" /\ "warn" # "" /\ "ollama" # "" /\ "qwen3:8b" # ""
      OBVIOUS
    <3>5. /\ Scaffold[2].value = << "string", "0.1" >>
          /\ Scaffold[5].value = << "string", "default_local_workstation" >>
          /\ Scaffold[9].value = << "string", "warn" >>
          /\ Scaffold[12].value = << "string", "ollama" >>
          /\ Scaffold[17].value = << "string", "qwen3:8b" >>
          /\ Scaffold[18].value = << "string", "ollama" >>
      BY ScaffoldData
    <3>2. Nonzero(Scaffold[2].value) /\ Nonzero(Scaffold[5].value) /\ Nonzero(Scaffold[9].value)
      BY <2>2, <3>1, <3>5
    <3>3. Nonzero(Scaffold[12].value) /\ Nonzero(Scaffold[17].value) /\ Nonzero(Scaffold[18].value)
      BY <2>2, <3>1, <3>5
    <3>4. Nonzero(Scaffold[13].value)
      <4>1. Scaffold[13].value = << "string", URLOf[OllamaPort] >>
        BY ScaffoldData
      <4> QED BY <2>2, <2>3, <4>1
    <3> QED BY <3>2, <3>3, <3>4
  <2>5. Nonzero(Scaffold[6].value) /\ Nonzero(Scaffold[7].value)
    BY <2>22, ScaffoldData
  <2>6. Nonzero(Scaffold[14].value)
    BY <2>23, ScaffoldData
  <2>7. \A i \in KeyLines : TypeOf(ScaffoldKey[i]) = Scaffold[i].value[1]
    BY ScaffoldFits
  <2>8. \A i \in KeyLines \ {8, 19} : Nonzero(Scaffold[i].value)
    BY <2>4, <2>5, <2>6 DEF KeyLines
  <2> QED BY <2>7, <2>8 DEF Nonzero
<1>4. \A i \in KeyLines \ {8, 19} : cfg.value[ScaffoldKey[i]] = Scaffold[i].value
  BY <1>1, <1>2, <1>3
<1>5. cfg.value[ScaffoldKey[19]] = << "array", << >> >>
  <2>1. Scaffold[19].value = << "array", << >> >> /\ 19 \in KeyLines
    BY ScaffoldData DEF KeyLines
  <2>2. Defaults(WithDefaults(FromFile(Scaffold)))[ScaffoldKey[19]] = << "array", << >> >>
    <3> DEFINE plain == WithDefaults(FromFile(Scaffold))
               source == [p \in FileMentions(Scaffold) |-> "file"]
    <3>1. plain = Config(PlainValues(Scaffold), FileMentions(Scaffold), source)
      BY PlainIs
    <3> HIDE DEF plain, source
    <3>2. Named(plain, "routing") = NamedIn(FileMentions(Scaffold), "routing")
      BY <3>1 DEF Config, Named, NamedIn
    <3>3. "code" \in Named(plain, "routing")
      BY <3>2, ScaffoldMentions
    <3> QED BY <3>3, FallbackDefault, ScaffoldNamed DEF plain
  <2> QED BY <1>1, <1>2, <2>1, <2>2
<1>6. << "routing", "code", "num_ctx" >> \notin DOMAIN cfg.value
  <2> DEFINE k == << "routing", "code", "num_ctx" >>
  <2>1. \A i \in KeyLines : ScaffoldKey[i] # k
    <3>1. \A x, y : << x, y >> # k
      OBVIOUS
    <3>2. \A x, y, z : z # "num_ctx" => << x, y, z >> # k
      OBVIOUS
    <3> HIDE DEF k
    <3>3. /\ ScaffoldKey[2] # k /\ ScaffoldKey[5] # k /\ ScaffoldKey[6] # k /\ ScaffoldKey[7] # k
          /\ ScaffoldKey[8] # k /\ ScaffoldKey[9] # k
      BY <3>1, ScaffoldNamed
    <3>4. /\ ScaffoldKey[12] # k /\ ScaffoldKey[13] # k /\ ScaffoldKey[14] # k /\ ScaffoldKey[17] # k
          /\ ScaffoldKey[18] # k /\ ScaffoldKey[19] # k
      BY <3>2, ScaffoldNamed
    <3> QED BY <3>3, <3>4 DEF KeyLines
  <2>2. k \notin DefaultKeys(FileMentions(Scaffold))
    BY DEF DefaultKeys, BackendKey, Mode
  <2>3. k \notin DOMAIN file
    BY <2>1, ScaffoldValues
  <2> HIDE DEF k, file
  <2>4. DOMAIN cfg.value \subseteq DefaultKeys(FileMentions(Scaffold)) \cup DOMAIN file
    BY <1>1, PlainKeys DEF DefaultedKeys, file
  <2> QED BY <2>2, <2>3, <2>4 DEF k
<1> QED BY <1>1, <1>2, <1>4, <1>5, <1>6

\* No environment changes what is mentioned.
LEMMA LoadedMentions ==
    ASSUME NEW lines, NEW e
    PROVE  Loaded(lines, e).mentioned = FileMentions(lines)
<1>1. Loaded(lines, e) = Config(Loaded(lines, e).value, FileMentions(lines), Loaded(lines, e).source)
  BY LoadedIs DEF LoadedFrom
<1> QED BY <1>1 DEF Config

\* What validation reads in the scaffold.
LEMMA ScaffoldReads ==
    LET cfg == Loaded(Scaffold, Neutral) IN
    /\ Str(cfg, << "meta", "schema_version" >>) = "0.1"
    /\ Num(cfg, << "profile", "max_context_tokens" >>) \in Nat \ {0}
    /\ Num(cfg, << "profile", "max_concurrent_models" >>) = 1
    /\ Str(cfg, << "profile", "mode" >>) = "warn"
    /\ Str(cfg, << "backends", "ollama", "kind" >>) = "ollama"
    /\ Str(cfg, << "backends", "ollama", "base_url" >>) \in URL
    /\ Flag(cfg, << "backends", "ollama", "default" >>) = TRUE
    /\ Str(cfg, << "routing", "code", "backend" >>) = "ollama"
    /\ cfg.value[<< "routing", "code", "fallback" >>][2] = << >>
<1> DEFINE cfg == Loaded(Scaffold, Neutral)
<1>1. /\ \A i \in KeyLines : ScaffoldKey[i] \in DOMAIN cfg.value
      /\ \A i \in KeyLines \ {8, 19} : cfg.value[ScaffoldKey[i]] = Scaffold[i].value
      /\ cfg.value[ScaffoldKey[19]] = << "array", << >> >>
  BY ScaffoldLoads
<1> HIDE DEF cfg
<1>2. ASSUME NEW i \in KeyLines \ {8, 19}, NEW t, NEW x, Scaffold[i].value = << t, x >>
      PROVE  ScaffoldKey[i] \in DOMAIN cfg.value /\ cfg.value[ScaffoldKey[i]][2] = x
  BY <1>1, <1>2
<1>3. Str(cfg, ScaffoldKey[2]) = "0.1"
  <2>1. Scaffold[2].value = << "string", "0.1" >> /\ 2 \in KeyLines \ {8, 19}
    BY ScaffoldData DEF KeyLines
  <2> QED BY <1>2, <2>1 DEF Str
<1>4. Num(cfg, ScaffoldKey[6]) = 8192
  <2>1. Scaffold[6].value = << "int", 8192 >> /\ 6 \in KeyLines \ {8, 19}
    BY ScaffoldData DEF KeyLines
  <2> QED BY <1>2, <2>1 DEF Num
<1>5. Num(cfg, ScaffoldKey[7]) = 1
  <2>1. Scaffold[7].value = << "int", 1 >> /\ 7 \in KeyLines \ {8, 19}
    BY ScaffoldData DEF KeyLines
  <2> QED BY <1>2, <2>1 DEF Num
<1>6. Str(cfg, ScaffoldKey[9]) = "warn"
  <2>1. Scaffold[9].value = << "string", "warn" >> /\ 9 \in KeyLines \ {8, 19}
    BY ScaffoldData DEF KeyLines
  <2> QED BY <1>2, <2>1 DEF Str
<1>7. Str(cfg, ScaffoldKey[12]) = "ollama"
  <2>1. Scaffold[12].value = << "string", "ollama" >> /\ 12 \in KeyLines \ {8, 19}
    BY ScaffoldData DEF KeyLines
  <2> QED BY <1>2, <2>1 DEF Str
<1>8. Str(cfg, ScaffoldKey[13]) \in URL
  <2>1. Scaffold[13].value = << "string", URLOf[OllamaPort] >> /\ 13 \in KeyLines \ {8, 19}
    BY ScaffoldData DEF KeyLines
  <2>2. ScaffoldKey[13] \in DOMAIN cfg.value /\ cfg.value[ScaffoldKey[13]][2] = URLOf[OllamaPort]
    BY <1>2, <2>1
  <2>3. Str(cfg, ScaffoldKey[13]) = URLOf[OllamaPort]
    BY <2>2 DEF Str
  <2> QED BY <2>3, OllamaUrl
<1>9. Flag(cfg, ScaffoldKey[14]) = TRUE
  <2> DEFINE yes == TRUE
  <2>1. Scaffold[14].value = << "bool", yes >> /\ 14 \in KeyLines \ {8, 19}
    BY ScaffoldData DEF KeyLines
  <2> HIDE DEF yes
  <2>2. ScaffoldKey[14] \in DOMAIN cfg.value /\ cfg.value[ScaffoldKey[14]][2] = yes
    BY <1>2, <2>1
  <2>3. Flag(cfg, ScaffoldKey[14]) = yes
    BY <2>2 DEF Flag
  <2> QED BY <2>3 DEF yes
<1>10. Str(cfg, ScaffoldKey[18]) = "ollama"
  <2>1. Scaffold[18].value = << "string", "ollama" >> /\ 18 \in KeyLines \ {8, 19}
    BY ScaffoldData DEF KeyLines
  <2> QED BY <1>2, <2>1 DEF Str
<1>11. cfg.value[ScaffoldKey[19]][2] = << >>
  BY <1>1
<1>12. Num(cfg, ScaffoldKey[6]) \in Nat \ {0}
  BY <1>4
<1> QED BY <1>3, <1>5, <1>6, <1>7, <1>8, <1>9, <1>10, <1>11, <1>12, ScaffoldNamed DEF cfg

\* Validation finds nothing wrong with the scaffold's profile.
LEMMA ScaffoldProfile == ProfileFindings(Loaded(Scaffold, Neutral)) = {}
<1> DEFINE cfg == Loaded(Scaffold, Neutral)
           mode   == << "profile", "mode" >>
           tokens == << "profile", "max_context_tokens" >>
           models == << "profile", "max_concurrent_models" >>
           keys   == { << "meta", "schema_version" >>, << "profile", "name" >>, tokens, models,
                       << "profile", "allow_premium" >>, mode }
<1>1. /\ Str(cfg, << "meta", "schema_version" >>) = "0.1"
      /\ Num(cfg, tokens) \in Nat \ {0}
      /\ Num(cfg, models) = 1
      /\ Str(cfg, mode) = "warn"
  BY ScaffoldReads
<1>2. keys \subseteq cfg.mentioned
  <2>1. cfg.mentioned = FileMentions(Scaffold)
    BY LoadedMentions
  <2>2. \A i \in {2, 5, 6, 7, 8, 9} : ScaffoldKey[i] \in cfg.mentioned
    BY <2>1, ScaffoldMentions DEF KeyLines
  <2> QED BY <2>2, ScaffoldNamed
<1> HIDE DEF cfg
<1>3. Required(cfg, keys, "missing_required") = {}
  BY <1>2 DEF Required
<1>7. ~(Num(cfg, tokens) <= 0) /\ ~(Num(cfg, models) < 1)
  <2> DEFINE a == Num(cfg, tokens)
             b == Num(cfg, models)
  <2>1. a \in Nat \ {0} /\ b = 1
    BY <1>1
  <2> HIDE DEF a, b
  <2>3. ~(a <= 0) /\ ~(b < 1)
    BY <2>1
  <2> QED BY <2>3 DEF a, b
<1> HIDE DEF mode, tokens, models, keys
<1>4. ProfileFindings(cfg) = Required(cfg, keys, "missing_required")
        \cup When(/\ << "meta", "schema_version" >> \in cfg.mentioned
                  /\ Str(cfg, << "meta", "schema_version" >>) # "0.1",
                  Warning(<< "meta", "schema_version" >>, "W_CONFIG_SCHEMA_VERSION_MISMATCH"))
        \cup When(tokens \in cfg.mentioned /\ Num(cfg, tokens) <= 0, Error(tokens, "range"))
        \cup When(models \in cfg.mentioned /\ Num(cfg, models) < 1, Error(models, "range"))
        \cup When(Str(cfg, mode) \notin {"strict", "warn", "advisory"}, Error(mode, "valid_set"))
        \cup When(Str(cfg, mode) \in {"strict", "advisory"},
                  Warning(mode, "W_PROFILE_MODE_NOT_ENFORCED"))
  BY DEF ProfileFindings, mode, tokens, models, keys
<1> QED BY <1>1, <1>3, <1>4, <1>7 DEF When, cfg

\* Validation finds nothing wrong with the scaffold's backend.
LEMMA ScaffoldBackend == BackendFindings(Loaded(Scaffold, Neutral)) = {}
<1> DEFINE cfg == Loaded(Scaffold, Neutral)
           kind == << "backends", "ollama", "kind" >>
           url  == << "backends", "ollama", "base_url" >>
<1>1. cfg.mentioned = FileMentions(Scaffold)
  BY LoadedMentions
<1>2. Named(cfg, "backends") = {"ollama"}
  BY LoadedNames, ScaffoldMentions
<1>3. /\ Str(cfg, kind) = "ollama" /\ Str(cfg, url) \in URL
      /\ Flag(cfg, << "backends", "ollama", "default" >>) = TRUE
  BY ScaffoldReads
<1>4. kind \in cfg.mentioned /\ url \in cfg.mentioned
  <2>1. \A i \in {12, 13} : ScaffoldKey[i] \in cfg.mentioned
    BY <1>1, ScaffoldMentions DEF KeyLines
  <2> QED BY <2>1, ScaffoldNamed
<1>5. /\ \A p \in cfg.mentioned : Len(p) <= 3
      /\ \A p \in cfg.mentioned : p[1] = "backends" /\ Len(p) = 3 => p[3] # "credential"
      /\ \A p \in cfg.mentioned : Len(p) \in Nat
  BY <1>1, ScaffoldMentions
<1> HIDE DEF cfg
<1>6. ~HasCredential(cfg, "ollama")
  <2> SUFFICES ASSUME NEW p \in cfg.mentioned, Len(p) >= 3,
                      SubSeq(p, 1, 3) = BackendKey("ollama", "credential")
               PROVE  FALSE
    BY DEF HasCredential
  <2>1. SubSeq(p, 1, 3)[1] = p[1] /\ SubSeq(p, 1, 3)[3] = p[3]
    OBVIOUS
  <2>4. BackendKey("ollama", "credential")[1] = "backends" /\ BackendKey("ollama", "credential")[3] = "credential"
    BY DEF BackendKey
  <2>2. p[1] = "backends" /\ p[3] = "credential"
    BY <2>1, <2>4
  <2>3. Len(p) = 3
    BY <1>5
  <2> QED BY <1>5, <2>2, <2>3
<1>7. CredentialFindings(cfg, "ollama") = {}
  <2>1. Str(cfg, BackendKey("ollama", "kind")) # "openai_compat"
    BY <1>3 DEF BackendKey
  <2>2. CredentialFindings(cfg, "ollama") =
          When(/\ Str(cfg, BackendKey("ollama", "kind")) = "openai_compat"
               /\ BackendKey("ollama", "auth_header_value") \in DOMAIN cfg.value,
               Warning(BackendKey("ollama", "auth_header_value"), "W_CONFIG_KEY_DEPRECATED"))
    BY <1>6 DEF CredentialFindings
  <2> QED BY <2>1, <2>2 DEF When
<1>8. OneBackendFindings(cfg, "ollama") = {}
  <2>1. Required(cfg, {kind, url}, "missing_required") = {}
    BY <1>4 DEF Required
  <2>2. "ollama" \in BackendKind \cup {""}
    BY DEF BackendKind
  <2> HIDE DEF kind, url
  <2>3. OneBackendFindings(cfg, "ollama") =
          Required(cfg, {kind, url}, "missing_required")
          \cup When(Str(cfg, kind) \notin BackendKind \cup {""}, Error(kind, "valid_set"))
          \cup When(Str(cfg, url) \notin URL \cup {""}, Error(url, "url"))
          \cup CredentialFindings(cfg, "ollama")
    BY DEF OneBackendFindings, BackendKey, kind, url
  <2> QED BY <1>3, <1>7, <2>1, <2>2, <2>3 DEF When
<1>9. Cardinality(DefaultBackends(cfg)) = 1
  <2>1. DefaultBackends(cfg) = {"ollama"}
    BY <1>2, <1>3 DEF DefaultBackends, BackendKey
  <2> QED BY <2>1, FS_Singleton
<1> QED BY <1>2, <1>8, <1>9 DEF BackendFindings, When, cfg

\* Validation finds nothing wrong with its route.
LEMMA ScaffoldRoute == RouteFindings(Loaded(Scaffold, Neutral), "code") = {}
<1> DEFINE cfg == Loaded(Scaffold, Neutral)
           key(f) == << "routing", "code", f >>
           backend == Str(cfg, key("backend"))
           model == Str(cfg, key("model"))
           aliased == Str(cfg, << "models", model, "backend" >>)
           fallback == cfg.value[key("fallback")][2]
<1>1. Named(cfg, "backends") = {"ollama"} /\ Named(cfg, "models") = {}
  BY LoadedNames, ScaffoldMentions
<1>2. backend = "ollama" /\ fallback = << >>
  BY ScaffoldReads
<1>3. key("model") \in cfg.mentioned /\ key("backend") \in cfg.mentioned
  <2>1. \A i \in {17, 18} : ScaffoldKey[i] \in cfg.mentioned
    BY LoadedMentions, ScaffoldMentions DEF KeyLines
  <2> QED BY <2>1, ScaffoldNamed
<1>4. key("num_ctx") \notin DOMAIN cfg.value
  BY ScaffoldLoads
<1> HIDE DEF cfg
<1>5. Required(cfg, { key("model"), key("backend") }, "missing_required") = {}
  BY <1>3 DEF Required
<1>6. ~\E i \in DOMAIN fallback : fallback[i] = model
  <2>1. DOMAIN << >> = {}
    OBVIOUS
  <2> QED BY <1>2, <2>1
<1>7. RouteFindings(cfg, "code") =
        Required(cfg, { key("model"), key("backend") }, "missing_required")
        \cup When(backend \notin {""} \cup Named(cfg, "backends"), Error(key("backend"), "no_such_backend"))
        \cup When(model \in Named(cfg, "models") /\ backend \notin {"", aliased},
                  Error(key("backend"), "E_MODEL_ALIAS_BACKEND_CONFLICT"))
        \cup When(Num(cfg, key("num_ctx")) > Num(cfg, << "profile", "max_context_tokens" >>)
                      /\ key("num_ctx") \in DOMAIN cfg.value,
                  Error(key("num_ctx"), "max_context_tokens"))
        \cup When(\E i \in DOMAIN fallback : fallback[i] = model,
                  Error(key("fallback"), "fallback_is_primary"))
  BY DEF RouteFindings
<1> HIDE DEF backend, model, aliased, fallback, key
<1> QED BY <1>1, <1>2, <1>4, <1>5, <1>6, <1>7 DEF When, cfg

\* What config init writes is accepted (defaultConfigScaffold against Validate).
LEMMA ScaffoldAccepted == TRUE \in Judgements(Text(Scaffold).lines)
<1> DEFINE cfg == Loaded(Scaffold, Neutral)
<1>1. LoadError(Scaffold, Neutral) = ""
  BY ScaffoldDecodes DEF LoadError, Neutral
<1>2. PICK first \in FirstVisits(cfg) : TRUE
  BY VisitsExist
<1>3. Findings(cfg, first) = {}
  <2>1. UnknownKeys(cfg) = {}
    BY LoadedMentions, ScaffoldMentions DEF UnknownKeys
  <2>2. CatalogueFindings(cfg, first) = {}
    <3>1. Named(cfg, "models") = {}
      BY LoadedNames, ScaffoldMentions
    <3> HIDE DEF cfg
    <3> QED BY <3>1 DEF CatalogueFindings
  <2>3. RoutingFindings(cfg) = {}
    <3>1. Named(cfg, "routing") = {"code"}
      BY LoadedNames, ScaffoldMentions
    <3> QED BY <3>1, ScaffoldRoute DEF RoutingFindings
  <2> QED BY <2>1, <2>2, <2>3, ScaffoldProfile, ScaffoldBackend DEF Findings
<1>4. Passed(Findings(cfg, first), FALSE) = TRUE
  BY <1>3 DEF Passed, Errors
<1> HIDE DEF cfg
<1>5. TRUE \in { Passed(Findings(cfg, f), FALSE) : f \in FirstVisits(cfg) }
  BY <1>2, <1>4
<1>6. TRUE \in Judgements(Scaffold)
  BY <1>1, <1>5 DEF Judgements, Verdicts, cfg
<1> QED BY <1>6 DEF Text

-----------------------------------------------------------------------------

\* What config init, set and patch wrote stays loadable and valid until somebody
\* changes it, in every environment whose mode is one (validateConfigBytes against
\* Load and Validate): every step keeps what was said of each text true of it.
THEOREM AcceptedHolds == Spec => []AcceptedStaysValid
<1>1. ASSUME Init PROVE PlaceInv /\ VerdictInv
  <2>1. VerdictInv
    BY <1>1, SetupAssumption DEF Init, VerdictInv, VerdictsHold
  <2> QED BY <1>1, <2>1, PlaceFirst
<1>2. ASSUME PlaceInv, VerdictInv, [Next]_vars PROVE (PlaceInv /\ VerdictInv)'
  BY <1>2, PlaceStep, VerdictStep, ScaffoldAccepted
<1>3. ASSUME VerdictInv PROVE AcceptedStaysValid
  BY <1>3, AcceptedIsValid
<1> QED BY <1>1, <1>2, <1>3, PTL DEF Spec

-----------------------------------------------------------------------------
(* Induction over the natural numbers, stated of sets *)

\* Every nonempty set of natural numbers has a least element.
LEMMA LeastNatural ==
    ASSUME NEW S \in SUBSET Nat, S # {}
    PROVE  \E x \in S : \A y \in S : x <= y
<1> DEFINE R == OpToRel(<, Nat)
<1>1. IsWellFoundedOn(R, Nat)
  BY NatLessThanWellFounded
<1>2. R = { ss \in Nat \X Nat : ss[1] < ss[2] }
  BY DEF OpToRel
<1> HIDE DEF R
<1>3. PICK x \in S : \A y \in S : << y, x >> \notin R
  BY <1>1, WFMin
<1>4. \A y \in S : << y, x >> \in R <=> y < x
  <2> TAKE y \in S
  <2>1. << y, x >> \in Nat \X Nat
    OBVIOUS
  <2> QED BY <1>2, <2>1
<1>5. \A y \in S : ~(y < x)
  BY <1>3, <1>4
<1> QED BY <1>5

\* A set that holds 0 and the successor of each number it holds, holds all.
LEMMA NaturalInduction ==
    ASSUME NEW S, 0 \in S, \A n \in Nat : n \in S => n + 1 \in S
    PROVE  Nat \subseteq S
<1> SUFFICES ASSUME Nat \ S # {} PROVE FALSE
  OBVIOUS
<1>1. PICK x \in Nat \ S : \A y \in Nat \ S : x <= y
  <2>1. Nat \ S \in SUBSET Nat
    OBVIOUS
  <2> QED BY <2>1, LeastNatural
<1>2. x - 1 \in Nat /\ x - 1 \in S
  BY <1>1
<1>3. (x - 1) + 1 \in S
  BY <1>2
<1> QED BY <1>1, <1>3
-----------------------------------------------------------------------------
(* What FlattenSeq computes *)

\* The function that FlattenSeq recurs by.
Flattens(f, seqs) ==
    f = [i \in 1 .. Len(seqs) |-> IF i = 1 THEN seqs[i] ELSE f[i - 1] \o seqs[i]]

\* What FlattenSeq computes.
LEMMA FlattenSeqIs ==
    ASSUME NEW S, NEW seqs \in Seq(Seq(S)), seqs # << >>
    PROVE  FlattenSeq(seqs) = (CHOOSE f : Flattens(f, seqs))[Len(seqs)]
BY DEF FlattenSeq, Flattens

\* Its value at each place.
LEMMA FlattensAt ==
    ASSUME NEW f, NEW seqs, Flattens(f, seqs), NEW i \in 1 .. Len(seqs)
    PROVE  f[i] = IF i = 1 THEN seqs[i] ELSE f[i - 1] \o seqs[i]
<1> DEFINE h == [k \in 1 .. Len(seqs) |-> IF k = 1 THEN seqs[k] ELSE f[k - 1] \o seqs[k]]
<1>1. f = h
  BY DEF Flattens
<1>2. h[i] = IF i = 1 THEN seqs[i] ELSE f[i - 1] \o seqs[i]
  OBVIOUS
<1> HIDE DEF h
<1> QED BY <1>1, <1>2

\* There is one.
LEMMA FlattensExists ==
    ASSUME NEW S, NEW seqs \in Seq(Seq(S))
    PROVE  \E f : Flattens(f, seqs)
<1> DEFINE body(f, i) == IF i = 1 THEN seqs[i] ELSE f[i - 1] \o seqs[i]
           N == { n \in Nat : \E f : f = [i \in 1 .. n |-> body(f, i)] }
<1>1. 0 \in N
  <2> DEFINE f == [i \in 1 .. 0 |-> << >>]
  <2>1. f = [i \in 1 .. 0 |-> body(f, i)]
    OBVIOUS
  <2> QED BY <2>1
<1>2. ASSUME NEW n \in N PROVE n + 1 \in N
  <2>1. PICK f : f = [i \in 1 .. n |-> body(f, i)]
    OBVIOUS
  <2> DEFINE g == [i \in 1 .. n + 1 |-> IF i = n + 1 THEN body(f, i) ELSE f[i]]
  <2>2. \A i \in 1 .. n + 1 : g[i] = body(g, i)
    <3> TAKE i \in 1 .. n + 1
    <3>1. n \in Nat
      OBVIOUS
    <3>2. body(g, i) = body(f, i)
      <4>1. i = 1 \/ (i - 1 \in 1 .. n /\ g[i - 1] = f[i - 1])
        BY <3>1
      <4> HIDE DEF g
      <4> QED BY <4>1
    <3>3. g[i] = body(f, i)
      <4>1. i \in 1 .. n => f[i] = body(f, i)
        BY <2>1
      <4> HIDE DEF body
      <4> QED BY <3>1, <4>1
    <3> QED BY <3>2, <3>3
  <2>3. g = [i \in 1 .. n + 1 |-> body(g, i)]
    <3>1. g = [i \in 1 .. n + 1 |-> g[i]]
      OBVIOUS
    <3> HIDE DEF g
    <3> QED BY <2>2, <3>1
  <2> HIDE DEF g, body
  <2>4. n + 1 \in Nat
    OBVIOUS
  <2> QED BY <2>3, <2>4, Zenon
<1> HIDE DEF N
<1>3. Nat \subseteq N
  BY <1>1, <1>2, NaturalInduction
<1> QED BY <1>3, LenProperties DEF N, Flattens

\* Of two sequences of which one starts with the other, the functions agree.
LEMMA FlattensAgree ==
    ASSUME NEW S, NEW s \in Seq(Seq(S)), NEW t \in Seq(Seq(S)), NEW f, NEW g,
           Flattens(f, s), Flattens(g, t),
           Len(s) <= Len(t), \A i \in 1 .. Len(s) : s[i] = t[i]
    PROVE  \A i \in 1 .. Len(s) : f[i] = g[i] /\ f[i] \in Seq(S)
<1> DEFINE N == { n \in Nat : n \in 1 .. Len(s) => f[n] = g[n] /\ f[n] \in Seq(S) }
<1>0. Len(s) \in Nat /\ Len(t) \in Nat /\ \A i \in 1 .. Len(s) : s[i] \in Seq(S)
  BY LenProperties, ElementOfSeq
<1>1. 0 \in N
  OBVIOUS
<1>2. ASSUME NEW n \in N PROVE n + 1 \in N
  <2> SUFFICES ASSUME n + 1 \in 1 .. Len(s)
               PROVE  f[n + 1] = g[n + 1] /\ f[n + 1] \in Seq(S)
    OBVIOUS
  <2>1. /\ f[n + 1] = IF n + 1 = 1 THEN s[n + 1] ELSE f[(n + 1) - 1] \o s[n + 1]
        /\ g[n + 1] = IF n + 1 = 1 THEN t[n + 1] ELSE g[(n + 1) - 1] \o t[n + 1]
    <3>1. n + 1 \in 1 .. Len(t)
      BY <1>0
    <3> HIDE DEF N
    <3> QED BY <3>1, FlattensAt
  <2>2. s[n + 1] = t[n + 1] /\ s[n + 1] \in Seq(S) /\ n \in Nat /\ (n + 1) - 1 = n
    BY <1>0
  <2>3. CASE n = 0
    BY <2>1, <2>2, <2>3
  <2>4. CASE n # 0
    <3>1. n \in 1 .. Len(s)
      BY <1>0, <2>2, <2>4
    <3>2. f[n] = g[n] /\ f[n] \in Seq(S)
      BY <3>1
    <3>3. f[n] \o s[n + 1] \in Seq(S)
      BY <3>2, <2>2, ConcatProperties
    <3> QED BY <2>1, <2>2, <2>4, <3>2, <3>3
  <2> QED BY <2>3, <2>4
<1> HIDE DEF N
<1>3. Nat \subseteq N
  BY <1>1, <1>2, NaturalInduction
<1> QED BY <1>0, <1>3 DEF N

\* Flattening one sequence more.
LEMMA FlattenAppend ==
    ASSUME NEW S, NEW s \in Seq(Seq(S)), NEW e \in Seq(S)
    PROVE  /\ FlattenSeq(s) \in Seq(S)
           /\ FlattenSeq(Append(s, e)) = FlattenSeq(s) \o e
<1> DEFINE t == Append(s, e)
<1>1. /\ t \in Seq(Seq(S)) /\ Len(t) = Len(s) + 1 /\ t[Len(t)] = e /\ Len(s) \in Nat
      /\ \A i \in 1 .. Len(s) : s[i] = t[i]
  BY AppendProperties, LenProperties
<1>2. t # << >> /\ Len(t) \in 1 .. Len(t)
  BY <1>1, AppendProperties
<1> HIDE DEF t
<1> DEFINE f == CHOOSE x : Flattens(x, s)
           g == CHOOSE x : Flattens(x, t)
<1>3. Flattens(f, s) /\ Flattens(g, t)
  BY <1>1, FlattensExists
<1>4. s # << >> => FlattenSeq(s) = f[Len(s)]
  BY FlattenSeqIs
<1>5. FlattenSeq(t) = g[Len(t)]
  BY <1>1, <1>2, FlattenSeqIs
<1> HIDE DEF f, g
<1>6. g[Len(t)] = IF Len(t) = 1 THEN e ELSE g[Len(t) - 1] \o e
  BY <1>1, <1>2, <1>3, FlattensAt
<1>7. CASE s = << >>
  <2>1. Len(s) = 0 /\ FlattenSeq(s) = << >>
    BY <1>7 DEF FlattenSeq
  <2>2. << >> \o e = e
    BY ConcatEmptySeq
  <2> QED BY <1>1, <1>5, <1>6, <2>1, <2>2, EmptySeq DEF t
<1>8. CASE s # << >>
  <2>1. Len(s) \in 1 .. Len(s)
    BY <1>1, <1>8, EmptySeq
  <2>2. f[Len(s)] = g[Len(s)] /\ f[Len(s)] \in Seq(S)
    <3>1. Len(s) <= Len(t)
      BY <1>1
    <3> QED BY <1>1, <1>3, <2>1, <3>1, FlattensAgree, Zenon
  <2>3. Len(t) # 1 /\ Len(t) - 1 = Len(s)
    BY <1>1, <2>1
  <2> QED BY <1>4, <1>5, <1>6, <1>8, <2>2, <2>3 DEF t
<1> QED BY <1>7, <1>8

\* A sequence one longer is one with something appended.
LEMMA LastAppended ==
    ASSUME NEW S, NEW s \in Seq(S), Len(s) # 0
    PROVE  /\ Front(s) \in Seq(S) /\ Len(Front(s)) = Len(s) - 1 /\ s[Len(s)] \in S
           /\ s = Append(Front(s), s[Len(s)])
           /\ \A i \in 1 .. Len(s) - 1 : Front(s)[i] = s[i]
<1>1. Len(s) \in Nat /\ Len(s) \in 1 .. Len(s)
  BY LenProperties
<1>2. /\ Front(s) \in Seq(S) /\ Len(Front(s)) = Len(s) - 1
      /\ \A i \in 1 .. Len(s) - 1 : Front(s)[i] = s[i]
  <2> DEFINE m == Len(s) - 1
  <2>1. 1 \in Int /\ m \in Int /\ 1 <= m + 1 /\ \A i \in 1 .. m : s[i] \in S
    <3>1. \A i \in 1 .. Len(s) : s[i] \in S
      BY ElementOfSeq
    <3> QED BY <1>1, <3>1
  <2>2. Front(s) = SubSeq(s, 1, m)
    BY DEF Front
  <2> HIDE DEF m
  <2>3. /\ SubSeq(s, 1, m) \in Seq(S)
        /\ Len(SubSeq(s, 1, m)) = IF 1 <= m THEN m - 1 + 1 ELSE 0
        /\ \A i \in 1 .. m - 1 + 1 : SubSeq(s, 1, m)[i] = s[1 + i - 1]
    BY <2>1, SubSeqProperties
  <2>4. /\ Len(SubSeq(s, 1, m)) = m
        /\ \A i \in 1 .. m : SubSeq(s, 1, m)[i] = s[i]
    BY <2>1, <2>3
  <2> QED BY <2>2, <2>3, <2>4 DEF m
<1>3. s[Len(s)] \in S
  BY <1>1, ElementOfSeq
<1>4. /\ Append(Front(s), s[Len(s)]) \in Seq(S)
      /\ Len(Append(Front(s), s[Len(s)])) = Len(s)
      /\ \A i \in 1 .. Len(s) : Append(Front(s), s[Len(s)])[i] = s[i]
  <2> DEFINE u == Front(s)
             e == s[Len(s)]
  <2> HIDE DEF u, e
  <2>1. /\ Append(u, e) \in Seq(S) /\ Len(Append(u, e)) = Len(u) + 1
        /\ \A i \in 1 .. Len(u) : Append(u, e)[i] = u[i]
        /\ Append(u, e)[Len(u) + 1] = e
    <3>1. u \in Seq(S) /\ e \in S
      BY <1>2, <1>3 DEF u, e
    <3> QED BY <3>1, AppendProperties
  <2>2. Len(u) = Len(s) - 1 /\ \A i \in 1 .. Len(s) - 1 : u[i] = s[i]
    BY <1>2 DEF u
  <2>3. \A i \in 1 .. Len(s) : Append(u, e)[i] = s[i]
    <3> TAKE i \in 1 .. Len(s)
    <3>1. i \in 1 .. Len(u) \/ i = Len(u) + 1
      BY <1>1, <2>2
    <3> QED BY <1>1, <2>1, <2>2, <3>1 DEF e
  <2> QED BY <1>1, <2>1, <2>2, <2>3 DEF u, e
<1> QED BY <1>2, <1>3, <1>4, SeqEqual

\* Concatenation is associative.
LEMMA Associative ==
    \A S : \A s, t, u \in Seq(S) : (s \o t) \o u = s \o (t \o u)
BY ConcatAssociative

-----------------------------------------------------------------------------
(* Lines and the tables they are in *)

\* The least and the greatest of some of the first numbers.
LEMMA MinMaxOf ==
    ASSUME NEW n \in Nat, NEW Q \in SUBSET (1 .. n), Q # {}
    PROVE  /\ Min(Q) \in Q /\ \A y \in Q : Min(Q) <= y
           /\ Max(Q) \in Q /\ \A y \in Q : y <= Max(Q)
<1>1. \E x \in Q : \A y \in Q : x <= y
  <2>1. Q \in SUBSET Nat
    OBVIOUS
  <2> QED BY <2>1, LeastNatural
<1>2. \E x \in Q : \A y \in Q : x >= y
  <2> DEFINE flip(x) == n - x
             R == { flip(x) : x \in Q }
  <2>1. R \in SUBSET Nat /\ R # {}
    <3>1. \A x \in Q : n - x \in Nat /\ n - x \in R
      OBVIOUS
    <3> QED BY <3>1
  <2>2. PICK z \in R : \A y \in R : z <= y
    <3> HIDE DEF R
    <3> QED BY <2>1, LeastNatural
  <2>3. PICK x \in Q : z = n - x
    BY <2>2
  <2>4. \A y \in Q : n - y \in R
    OBVIOUS
  <2>5. \A y \in Q : x >= y
    <3> TAKE y \in Q
    <3>1. n - x <= n - y
      BY <2>2, <2>3, <2>4
    <3> QED BY <3>1
  <2> QED BY <2>5
<1>3. Min(Q) \in Q /\ \A y \in Q : Min(Q) <= y
  BY <1>1 DEF Min
<1>4. Max(Q) \in Q /\ \A y \in Q : Max(Q) >= y
  BY <1>2 DEF Max
<1>5. \A y \in Q : y <= Max(Q)
  <2> TAKE y \in Q
  <2> DEFINE m == Max(Q)
  <2>1. m \in Q /\ m >= y
    BY <1>4
  <2> HIDE DEF m
  <2>2. m \in Int /\ y \in Int
    BY <2>1
  <2>3. y <= m
    BY <2>1, <2>2
  <2> QED BY <2>3 DEF m
<1> QED BY <1>3, <1>4, <1>5

\* A line is a record of its kind, path, value and comment.
LEMMA LineFields ==
    ASSUME NEW l \in LineSet
    PROVE  /\ l = [kind |-> l.kind, path |-> l.path, value |-> l.value, comment |-> l.comment]
           /\ l.kind \in {"header", "key", "blank", "garbage"} /\ l.path \in Path
           /\ l.value \in Value \cup {<< >>} /\ l.comment \in BOOLEAN
           /\ l.kind \in {"header", "key"} => l.path # << >>
BY DEF LineSet

\* A sequence of one.
LEMMA OneIsSeq == \A S : \A x \in S : << x >> \in Seq(S) /\ Len(<< x >>) = 1
OBVIOUS

\* The lines that an edit or a patch makes are lines.
LEMMA MadeLines ==
    /\ Blank \in LineSet /\ Garbage \in LineSet
    /\ \A p \in Path \ {<< >>} : Header(p) \in LineSet
    /\ \A k \in String, v \in Value : Assign(k, v) \in LineSet
<1>1. << >> \in Path
  BY EmptySeq DEF Path
<1>2. Blank \in LineSet /\ Garbage \in LineSet
  BY <1>1 DEF Blank, Garbage, Line, LineSet
<1>3. \A p \in Path \ {<< >>} : Header(p) \in LineSet
  BY DEF Header, Line, LineSet
<1>4. ASSUME NEW k \in String, NEW v \in Value PROVE Assign(k, v) \in LineSet
  <2>1. << k >> \in Seq(String) /\ Len(<< k >>) = 1
    BY OneIsSeq
  <2>2. Len(<< >>) = 0
    OBVIOUS
  <2>3. << k >> \in Path /\ << k >> # << >>
    BY <2>1, <2>2 DEF Path
  <2> QED BY <2>3 DEF Assign, Line, LineSet
<1> QED BY <1>2, <1>3, <1>4

\* The lines of a kind are some of the lines.
LEMMA KindIs ==
    ASSUME NEW lines \in Seq(LineSet), NEW kind
    PROVE  /\ Kind(lines, kind) \subseteq 1 .. Len(lines)
           /\ Len(lines) \in Nat /\ DOMAIN lines = 1 .. Len(lines)
           /\ \A i \in 1 .. Len(lines) : lines[i] \in LineSet
           /\ \A i \in 1 .. Len(lines) : i \in Kind(lines, kind) <=> lines[i].kind = kind
<1>1. Len(lines) \in Nat /\ DOMAIN lines = 1 .. Len(lines)
  BY LenProperties
<1>2. \A i \in 1 .. Len(lines) : lines[i] \in LineSet
  BY ElementOfSeq
<1> QED BY <1>1, <1>2 DEF Kind

\* A line is in the table of the last header above it.
LEMMA TableAtFrom ==
    ASSUME NEW lines \in Seq(LineSet), NEW i \in Nat,
           NEW h \in Kind(lines, "header"), h <= i,
           \A g \in Kind(lines, "header") : g <= i => g <= h
    PROVE  TableAt(lines, i) = lines[h].path
<1> DEFINE above == { g \in Kind(lines, "header") : g <= i }
<1>1. h \in above /\ above # {} /\ above \subseteq Int /\ \A y \in above : h >= y
  BY KindIs
<1> HIDE DEF above
<1>2. Max(above) = h
  BY <1>1, MaxIs
<1> QED BY <1>1, <1>2 DEF TableAt, above

\* And that table is the header's, or there is no header above.
LEMMA TableAtCases ==
    ASSUME NEW lines \in Seq(LineSet), NEW i \in Nat
    PROVE  \/ /\ TableAt(lines, i) = << >>
              /\ \A g \in Kind(lines, "header") : ~(g <= i)
           \/ \E h \in Kind(lines, "header") :
                 /\ h <= i /\ TableAt(lines, i) = lines[h].path
                 /\ \A g \in Kind(lines, "header") : g <= i => g <= h
<1> DEFINE above == { g \in Kind(lines, "header") : g <= i }
<1>1. CASE above = {}
  BY <1>1 DEF TableAt
<1>2. CASE above # {}
  <2>1. above \in SUBSET (1 .. Len(lines)) /\ Len(lines) \in Nat
    BY KindIs
  <2>2. Max(above) \in above /\ \A y \in above : y <= Max(above)
    <3> HIDE DEF above
    <3> QED BY <1>2, <2>1, MinMaxOf
  <2> DEFINE h == Max(above)
  <2>3. TableAt(lines, i) = lines[h].path
    BY <1>2 DEF TableAt
  <2>4. h \in above /\ \A y \in above : y <= h
    BY <2>2
  <2> HIDE DEF h
  <2> QED BY <2>3, <2>4
<1> QED BY <1>1, <1>2

\* Tables and keys are paths.
LEMMA PathsAre ==
    ASSUME NEW lines \in Seq(LineSet), NEW i \in 1 .. Len(lines)
    PROVE  /\ TableAt(lines, i) \in Path /\ PathAt(lines, i) \in Path
           /\ lines[i].path \in Path
           /\ Len(PathAt(lines, i)) = Len(TableAt(lines, i)) + Len(lines[i].path)
<1>1. lines[i] \in LineSet /\ Len(lines) \in Nat /\ i \in Nat
  BY KindIs
<1>2. lines[i].path \in Path
  BY <1>1, LineFields
<1>3. TableAt(lines, i) \in Path
  <2>1. CASE TableAt(lines, i) = << >>
    BY <2>1, EmptySeq DEF Path
  <2>2. ASSUME NEW h \in Kind(lines, "header"), TableAt(lines, i) = lines[h].path
        PROVE  TableAt(lines, i) \in Path
    <3>1. lines[h] \in LineSet
      BY KindIs
    <3> QED BY <2>2, <3>1, LineFields
  <2> QED BY <1>1, <2>1, <2>2, TableAtCases
<1>4. /\ TableAt(lines, i) \o lines[i].path \in Path
      /\ Len(TableAt(lines, i) \o lines[i].path) = Len(TableAt(lines, i)) + Len(lines[i].path)
  <2> DEFINE a == TableAt(lines, i)
             b == lines[i].path
  <2>1. a \in Seq(String) /\ b \in Seq(String)
    BY <1>2, <1>3 DEF Path
  <2> HIDE DEF a, b
  <2>2. a \o b \in Seq(String) /\ Len(a \o b) = Len(a) + Len(b)
    BY <2>1, ConcatProperties
  <2> QED BY <2>2 DEF a, b, Path
<1> QED BY <1>2, <1>3, <1>4 DEF PathAt

-----------------------------------------------------------------------------
(* One edit *)

EditSet == [path : Path \ {<< >>}, value : Value]

\* Where a table begins and ends.
LEMMA RangeIs ==
    ASSUME NEW lines \in Seq(LineSet), NEW table
    PROVE  \/ /\ tableRange(lines, table) = << 0, 0 >>
              /\ \A g \in Kind(lines, "header") : lines[g].path # table
           \/ \E h \in Kind(lines, "header") : \E end \in h + 1 .. Len(lines) + 1 :
                 /\ lines[h].path = table /\ tableRange(lines, table) = << h + 1, end >>
                 /\ \A i \in h .. end - 1 : TableAt(lines, i) = table
                 /\ \A g \in Kind(lines, "header") : h < g => end <= g
<1> DEFINE heads == { i \in Kind(lines, "header") : lines[i].path = table }
           start == FirstOfLines(heads)
           next  == { i \in Kind(lines, "header") : i > start }
           end   == IF next = {} THEN Len(lines) + 1 ELSE Min(next)
<1>0. /\ Len(lines) \in Nat /\ Kind(lines, "header") \subseteq 1 .. Len(lines)
      /\ heads \subseteq 1 .. Len(lines)
  BY KindIs
<1>1. tableRange(lines, table) = IF start = 0 THEN << 0, 0 >> ELSE << start + 1, end >>
  BY DEF tableRange
<1>2. CASE heads = {}
  <2>1. start = 0
    BY <1>2 DEF FirstOfLines
  <2> QED BY <1>1, <1>2, <2>1
<1>3. CASE heads # {}
  <2>1. start = Min(heads)
    BY <1>3 DEF FirstOfLines
  <2>2. start \in heads
    <3> HIDE DEF heads
    <3>1. Min(heads) \in heads
      BY <1>0, <1>3, MinMaxOf
    <3> QED BY <2>1, <3>1
  <2> HIDE DEF start
  <2>3. start \in Kind(lines, "header") /\ lines[start].path = table /\ start \in 1 .. Len(lines)
    BY <1>0, <2>2
  <2>4. /\ end \in start + 1 .. Len(lines) + 1
        /\ \A g \in Kind(lines, "header") : start < g => end <= g
    <3>1. CASE next = {}
      <4>1. \A g \in Kind(lines, "header") : ~(start < g)
        BY <1>0, <2>3, <3>1
      <4> QED BY <1>0, <2>3, <3>1, <4>1
    <3>2. CASE next # {}
      <4>1. next \subseteq 1 .. Len(lines)
        BY <1>0
      <4>2. Min(next) \in next /\ \A y \in next : Min(next) <= y
        <5> HIDE DEF next
        <5> QED BY <1>0, <3>2, <4>1, MinMaxOf
      <4>3. end = Min(next)
        BY <3>2
      <4>4. \A g \in Kind(lines, "header") : start < g => g \in next
        BY <1>0, <2>3
      <4> DEFINE m == Min(next)
      <4>5. m \in Kind(lines, "header") /\ m > start
        BY <4>2
      <4> HIDE DEF m
      <4>6. m \in start + 1 .. Len(lines) + 1
        BY <1>0, <2>3, <4>5
      <4> QED BY <4>2, <4>3, <4>4, <4>6 DEF m
    <3> QED BY <3>1, <3>2
  <2> HIDE DEF end
  <2>5. \A i \in start .. end - 1 : TableAt(lines, i) = table
    <3> TAKE i \in start .. end - 1
    <3>1. i \in Nat /\ start <= i /\ i < end
      BY <2>3, <2>4
    <3>2. \A g \in Kind(lines, "header") : g <= i => g <= start
      <4> TAKE g \in Kind(lines, "header")
      <4>1. g \in Nat /\ start \in Nat /\ (start < g => end <= g) /\ end \in Nat
        BY <1>0, <2>3, <2>4
      <4> QED BY <3>1, <4>1
    <3> QED BY <2>3, <3>1, <3>2, TableAtFrom
  <2>6. start # 0
    BY <2>3
  <2> QED BY <1>1, <2>3, <2>4, <2>5, <2>6
<1> QED BY <1>2, <1>3

\* The parts of an edit.
LEMMA EditParts ==
    ASSUME NEW e \in EditSet
    PROVE  /\ TableOf(e.path) \in Path \ {<< >>} /\ Last(e.path) \in String
           /\ e.value \in Value
           /\ EditedKey(e) = TableOf(e.path) \o << Last(e.path) >>
           /\ EditedKey(e) \in Path /\ Len(EditedKey(e)) = Len(TableOf(e.path)) + 1
           /\ Front(EditedKey(e)) = TableOf(e.path)
<1> DEFINE p == e.path
           f == Front(p)
           l == Last(p)
<1>1. p \in Seq(String) /\ p # << >> /\ e.value \in Value
  BY DEF EditSet, Path
<1> HIDE DEF p
<1>2. Len(p) \in Nat \ {0}
  BY <1>1, EmptySeq
<1>3. f \in Seq(String) /\ Len(f) = Len(p) - 1 /\ p[Len(p)] \in String
  BY <1>1, <1>2, LastAppended
<1>4. l \in String
  BY <1>3 DEF Last
<1> HIDE DEF f, l
<1>5. TableOf(p) \in Path \ {<< >>}
  <2>1. CASE Len(p) < 2
    <3>1. << "meta" >> \in Seq(String) /\ Len(<< "meta" >>) = 1 /\ Len(<< >>) = 0
      BY WordAssumption, OneIsSeq
    <3>2. << "meta" >> # << >>
      BY <3>1
    <3> QED BY <2>1, <3>1, <3>2 DEF TableOf, Path
  <2>2. CASE ~(Len(p) < 2)
    <3>1. Len(f) # 0 /\ Len(<< >>) = 0
      BY <1>2, <1>3, <2>2
    <3>2. f # << >>
      BY <3>1
    <3> QED BY <1>3, <2>2, <3>2 DEF TableOf, Path, f
  <2> QED BY <2>1, <2>2
<1> DEFINE table == TableOf(p)
           key   == table \o << l >>
<1>7. table \in Seq(String) /\ << l >> \in Seq(String) /\ Len(<< l >>) = 1
  BY <1>4, <1>5, OneIsSeq DEF Path
<1> HIDE DEF table
<1>8. key \in Seq(String) /\ Len(key) = Len(table) + 1 /\ Len(table) \in Nat
  BY <1>7, ConcatProperties, LenProperties
<1>9. Append(table, l) = key
  BY <1>4, <1>7, AppendIsConcat
<1>10. Front(key) = table
  <2>1. key = Append(Front(key), key[Len(key)]) /\ Front(key) \in Seq(String) /\ key[Len(key)] \in String
    <3>1. Len(key) # 0
      BY <1>8
    <3> HIDE DEF key
    <3> QED BY <1>8, <3>1, LastAppended
  <2> DEFINE a == Front(key)
             b == key[Len(key)]
  <2>2. Append(a, b) = Append(table, l)
    BY <1>9, <2>1
  <2>3. a \in Seq(String) /\ b \in String /\ table \in Seq(String) /\ l \in String
    BY <1>4, <1>7, <2>1
  <2> HIDE DEF a, b
  <2>4. a = table
    <3>1. \A S : \A x, y \in S : \A s, t \in Seq(S) : Append(s, x) = Append(t, y) => s = t
      BY AppendInjective
    <3> QED BY <2>2, <2>3, <3>1
  <2> QED BY <2>4 DEF a
<1>11. EditedKey(e) = key
  BY DEF EditedKey, table, l, p
<1> HIDE DEF key
<1>12. EditedKey(e) = TableOf(e.path) \o << Last(e.path) >>
  BY DEF EditedKey
<1> QED BY <1>1, <1>4, <1>5, <1>8, <1>10, <1>11, <1>12 DEF table, l, p, Path

\* What may become of a value.
Outcomes(value) == {value} \cup Expansions(value)

\* The text that is no value is a value of no type.
LEMMA JunkIsValue == Junk \in Value
<1>1. Junk \in {"null"} \X {""}
  BY DEF Junk
<1> QED BY <1>1 DEF Value

\* What a template makes of a value on a line is a value, or breaks the line.
LEMMA ExpandIs ==
    ASSUME NEW value \in Value, NEW line, NEW ended
    PROVE  /\ Expand(value, line, ended) \in Outcomes(value)
           /\ Expand(value, line, ended) = << >> \/ Expand(value, line, ended) \in Value
<1> DEFINE e == << value, line, ended >>
<1>1. CASE e \in DOMAIN Expansion
  <2>1. Expand(value, line, ended) = Expansion[e] /\ e[1] = value
    BY <1>1 DEF Expand
  <2>2. Expansion[e] \in Expansions(value)
    <3> HIDE DEF e
    <3> QED BY <1>1, <2>1 DEF Expansions
  <2>3. Expansion[e] = << >> \/ Expansion[e] \in Value
    <3> HIDE DEF e
    <3> QED BY <1>1, ExpansionAssumption, JunkIsValue
  <2> QED BY <2>1, <2>2, <2>3 DEF Outcomes
<1>2. CASE e \notin DOMAIN Expansion
  BY <1>2 DEF Expand, Outcomes
<1> QED BY <1>1, <1>2

\* An edit replaces the value of a key of the table,
Replaces(t, e, u) ==
    \E i \in Kind(t.lines, "key"), w \in Value \cap Outcomes(e.value) :
        /\ TableAt(t.lines, i) = TableOf(e.path) /\ t.lines[i].path = << Last(e.path) >>
        /\ u.lines = [t.lines EXCEPT ![i] = [@ EXCEPT !.value = w]]
        /\ u.closed = t.closed

\* puts a key at the end of the table,
Inserts(t, e, u) ==
    \E r \in 2 .. Len(t.lines) + 1 :
        /\ TableAt(t.lines, r - 1) = TableOf(e.path)
        /\ u.lines = InsertAt(t.lines, r, Assign(Last(e.path), e.value))
        /\ u.closed = t.closed /\ (r = Len(t.lines) + 1 => t.closed)

\* appends a table,
Appends(t, e, u) ==
    /\ u.lines = t.lines \o << Blank, Header(TableOf(e.path)), Assign(Last(e.path), e.value) >>
    /\ u.closed = TRUE

\* or comes upon a last line without a newline, in the table,
AtOpenEnd(t, e, u) ==
    /\ ~t.closed /\ u.closed = TRUE /\ TableAt(t.lines, Len(t.lines)) = TableOf(e.path)

\* where it becomes part of a comment or of a value, not being there itself,
Lacks(t, e) ==
    \/ \E g, h \in Kind(t.lines, "header") : g # h /\ t.lines[g].path = t.lines[h].path
    \/ \A i \in Kind(t.lines, "key") :
          ~(TableAt(t.lines, i) = TableOf(e.path) /\ t.lines[i].path = << Last(e.path) >>)

Swallows(t, e, u) ==
    /\ AtOpenEnd(t, e, u) /\ Lacks(t, e)
    /\ Last(t.lines).comment /\ u.lines = t.lines

Mars(t, e, u) ==
    /\ AtOpenEnd(t, e, u) /\ Lacks(t, e)
    /\ ~Last(t.lines).comment /\ Last(t.lines).kind = "key"
    /\ u.lines = [t.lines EXCEPT ![Len(t.lines)] = [@ EXCEPT !.value = Junk]]

\* fills a blank line,
Fills(t, e, u) ==
    /\ AtOpenEnd(t, e, u) /\ Last(t.lines).kind = "blank" /\ ~Last(t.lines).comment
    /\ u.lines = [t.lines EXCEPT ![Len(t.lines)] = Assign(Last(e.path), e.value)]

\* or spoils a line.
Spoils(t, u) ==
    /\ \E i \in 1 .. Len(t.lines) : u.lines = [t.lines EXCEPT ![i] = Garbage]
    /\ u.closed \in BOOLEAN

\* The front of a sequence with something after it is the sequence with its end replaced.
LEMMA EndReplaced ==
    ASSUME NEW S, NEW s \in Seq(S), Len(s) # 0, NEW x \in S
    PROVE  Front(s) \o << x >> = [s EXCEPT ![Len(s)] = x]
<1> DEFINE f == Front(s)
           n == Len(s)
           w == << x >>
           b == [s EXCEPT ![n] = x]
<1>1. f \in Seq(S) /\ Len(f) = n - 1 /\ \A i \in 1 .. n - 1 : f[i] = s[i]
  BY LastAppended
<1>2. w \in Seq(S) /\ Len(w) = 1 /\ w[1] = x
  BY OneIsSeq
<1>3. n \in Nat /\ n \in 1 .. Len(s) /\ n - 1 \in Nat
  BY LenProperties
<1>4. /\ b \in Seq(S) /\ Len(b) = n
      /\ \A j \in 1 .. n : b[j] = IF j = n THEN x ELSE s[j]
  BY <1>3, ExceptSeq
<1> HIDE DEF f, n, w, b
<1>5. /\ f \o w \in Seq(S) /\ Len(f \o w) = n
      /\ \A i \in 1 .. n : (f \o w)[i] = IF i <= n - 1 THEN f[i] ELSE w[i - (n - 1)]
  <2>1. /\ f \o w \in Seq(S) /\ Len(f \o w) = Len(f) + Len(w)
        /\ \A i \in 1 .. Len(f) + Len(w) : (f \o w)[i] = IF i <= Len(f) THEN f[i] ELSE w[i - Len(f)]
    BY <1>1, <1>2, ConcatProperties
  <2>2. Len(f) + Len(w) = n
    BY <1>1, <1>2, <1>3
  <2> QED BY <1>1, <2>1, <2>2
<1>6. ASSUME NEW i \in 1 .. n PROVE (f \o w)[i] = b[i]
  <2>1. CASE i = n
    <3>1. ~(i <= n - 1) /\ i - (n - 1) = 1
      BY <1>3, <2>1
    <3> QED BY <1>2, <1>4, <1>5, <2>1, <3>1
  <2>2. CASE i # n
    <3>1. i <= n - 1 /\ i \in 1 .. n - 1
      BY <1>3, <2>2
    <3> QED BY <1>1, <1>4, <1>5, <2>2, <3>1
  <2> QED BY <2>1, <2>2
<1>7. f \o w = b
  BY <1>4, <1>5, <1>6, SeqEqual
<1> QED BY <1>7 DEF f, n, w, b

\* An edit does one of these.
LEMMA EditIs ==
    ASSUME NEW t, IsText(t), NEW e \in EditSet, NEW u, u = applyConfigEdit(t, e)
    PROVE  \/ Replaces(t, e, u) \/ Inserts(t, e, u) \/ Appends(t, e, u)
           \/ Swallows(t, e, u) \/ Mars(t, e, u) \/ Fills(t, e, u) \/ Spoils(t, u)
<1> DEFINE lines == t.lines
           table == TableOf(e.path)
           insert == Assign(Last(e.path), e.value)
           range == tableRange(lines, table)
           places == { i \in Kind(lines, "key") :
                         /\ range[1] <= i /\ i < range[2]
                         /\ lines[i].path = insert.path }
           there == FirstOfLines(places)
<1>0. /\ t = [lines |-> t.lines, closed |-> t.closed] /\ lines \in Seq(LineSet)
      /\ t.closed \in BOOLEAN /\ (~t.closed => lines # << >>)
      /\ Len(lines) \in Nat /\ places \subseteq 1 .. Len(lines)
  <2>1. lines \in Seq(LineSet)
    BY DEF IsText
  <2>2. Len(lines) \in Nat /\ places \subseteq 1 .. Len(lines)
    BY <2>1, KindIs
  <2> QED BY <2>1, <2>2 DEF IsText
<1>1. u = IF range[1] = 0
          THEN Text(lines \o << Blank, Header(table), insert >>)
          ELSE IF there # 0
          THEN [t EXCEPT !.lines[there] =
                             Replaced(@, e.value, there < Len(lines) \/ t.closed)]
          ELSE IF range[2] = Len(lines) + 1 /\ ~t.closed
          THEN Text(Front(lines) \o << Glued(Last(lines), insert) >>)
          ELSE [t EXCEPT !.lines = InsertAt(@, range[2], insert)]
  BY DEF applyConfigEdit
<1>2. insert.path = << Last(e.path) >> /\ insert \in LineSet
  BY LineIs, MadeLines, EditParts
<1>3. CASE range[1] = 0
  <2>1. u = Text(lines \o << Blank, Header(table), insert >>)
    BY <1>1, <1>3
  <2> QED BY <2>1 DEF Appends, Text
<1>4. CASE range[1] # 0
  <2> HIDE DEF insert
  <2>1. PICK h \in Kind(lines, "header") : \E end \in h + 1 .. Len(lines) + 1 :
              /\ lines[h].path = table /\ range = << h + 1, end >>
              /\ \A i \in h .. end - 1 : TableAt(lines, i) = table
              /\ \A g \in Kind(lines, "header") : h < g => end <= g
    <3>1. range = << 0, 0 >> => range[1] = 0
      OBVIOUS
    <3> QED BY <1>0, <1>4, <3>1, RangeIs
  <2>2. PICK end \in h + 1 .. Len(lines) + 1 :
              /\ lines[h].path = table /\ range = << h + 1, end >>
              /\ \A i \in h .. end - 1 : TableAt(lines, i) = table
              /\ \A g \in Kind(lines, "header") : h < g => end <= g
    BY <2>1
  <2>3. range[1] = h + 1 /\ range[2] = end /\ h \in 1 .. Len(lines) /\ end \in Nat /\ h \in Nat
    BY <1>0, <2>2, KindIs
  <2> HIDE DEF range
  <2>4. CASE there # 0
    <3>1. there \in places
      <4>1. places # {}
        BY <2>4 DEF FirstOfLines
      <4> HIDE DEF places
      <4>2. Min(places) \in places
        BY <1>0, <4>1, MinMaxOf
      <4> QED BY <4>1, <4>2 DEF FirstOfLines
    <3> HIDE DEF there
    <3>2. /\ there \in Kind(lines, "key") /\ there \in 1 .. Len(lines)
          /\ h + 1 <= there /\ there < end /\ lines[there].path = << Last(e.path) >>
      BY <1>0, <1>2, <2>3, <3>1
    <3>3. TableAt(lines, there) = table
      <4>1. there \in h .. end - 1
        BY <1>0, <2>3, <3>2
      <4> QED BY <2>2, <4>1
    <3> DEFINE ended == there < Len(lines) \/ t.closed
               w == Expand(e.value, lines[there], ended)
    <3>4. u = [t EXCEPT !.lines[there] = Replaced(@, e.value, ended)]
      BY <1>1, <1>4, <2>4 DEF there
    <3>5. /\ u.lines = [lines EXCEPT ![there] = Replaced(lines[there], e.value, ended)]
          /\ u.closed = t.closed
      BY <1>0, <3>4
    <3>6. w \in Outcomes(e.value) /\ (w = << >> \/ w \in Value)
      BY EditParts, ExpandIs
    <3>7. CASE w = << >>
      <4>1. u.lines = [lines EXCEPT ![there] = Garbage]
        BY <3>5, <3>7 DEF Replaced
      <4> QED BY <1>0, <3>2, <3>5, <4>1 DEF Spoils
    <3>8. CASE w # << >>
      <4>1. u.lines = [lines EXCEPT ![there] = [@ EXCEPT !.value = w]]
        BY <3>5, <3>8 DEF Replaced
      <4> HIDE DEF w
      <4> QED BY <3>2, <3>3, <3>5, <3>6, <3>8, <4>1 DEF Replaces
    <3> QED BY <3>7, <3>8
  <2>5. CASE there = 0 /\ end = Len(lines) + 1 /\ ~t.closed
    <3>1. u = Text(Front(lines) \o << Glued(Last(lines), insert) >>)
      BY <1>1, <1>4, <2>3, <2>5
    <3>2. Len(lines) # 0 /\ Len(lines) \in 1 .. Len(lines)
      BY <1>0, <2>3
    <3>3. Last(lines) = lines[Len(lines)] /\ Last(lines) \in LineSet
      BY <1>0, <3>2, ElementOfSeq DEF Last
    <3>4. AtOpenEnd(t, e, u)
      <4>1. Len(lines) \in h .. end - 1
        BY <1>0, <2>3, <2>5
      <4> QED BY <2>2, <2>5, <3>1, <4>1 DEF AtOpenEnd, Text
    <3>5. Glued(Last(lines), insert) \in LineSet
      <4>1. ASSUME NEW l \in LineSet, l.kind = "key" PROVE [l EXCEPT !.value = Junk] \in LineSet
        BY <4>1, JunkIsValue DEF LineSet
      <4> QED BY <1>2, <3>3, <4>1, MadeLines DEF Glued
    <3>6. u.lines = [lines EXCEPT ![Len(lines)] = Glued(Last(lines), insert)]
      <4> DEFINE x == Glued(Last(lines), insert)
                 s == lines
      <4>1. x \in LineSet /\ s \in Seq(LineSet) /\ Len(s) # 0
        BY <1>0, <3>2, <3>5
      <4>2. u.lines = Front(s) \o << x >>
        BY <3>1 DEF Text
      <4> HIDE DEF x, s
      <4>3. Front(s) \o << x >> = [s EXCEPT ![Len(s)] = x]
        BY <4>1, EndReplaced
      <4> QED BY <4>2, <4>3 DEF x, s
    <3>7. Lacks(t, e)
      <4>1. ASSUME NEW i \in Kind(lines, "key"), TableAt(lines, i) = table,
                   lines[i].path = << Last(e.path) >>,
                   \A f, g \in Kind(lines, "header") : lines[f].path = lines[g].path => f = g
            PROVE  FALSE
        <5>1. i \in 1 .. Len(lines) /\ i \in Nat
          BY <1>0, KindIs
        <5>2. table # << >>
          BY EditParts
        <5>3. PICK g \in Kind(lines, "header") :
                    /\ g <= i /\ TableAt(lines, i) = lines[g].path
                    /\ \A f \in Kind(lines, "header") : f <= i => f <= g
          BY <1>0, <4>1, <5>1, <5>2, TableAtCases
        <5>4. g = h
          BY <2>2, <4>1, <5>3
        <5>5. i # h
          <6>1. lines[i].kind = "key" /\ lines[h].kind = "header"
            BY DEF Kind
          <6> QED BY <6>1
        <5>6. h + 1 <= i /\ i < end
          BY <1>0, <2>3, <2>5, <5>1, <5>3, <5>4, <5>5
        <5>7. i \in places
          BY <1>2, <2>3, <4>1, <5>6
        <5>8. Min(places) \in places /\ there = Min(places)
          <6>1. places # {}
            BY <5>7
          <6>2. there = Min(places)
            BY <6>1 DEF FirstOfLines
          <6> HIDE DEF places, there
          <6> QED BY <1>0, <6>1, <6>2, MinMaxOf
        <5> HIDE DEF places, there
        <5> QED BY <1>0, <2>5, <5>8
      <4> QED BY <4>1 DEF Lacks
    <3>8. CASE Last(lines).comment
      <4>1. u.lines = lines
        <5>1. Glued(Last(lines), insert) = lines[Len(lines)]
          BY <3>3, <3>8 DEF Glued
        <5>2. lines \in [1 .. Len(lines) -> LineSet]
          BY <1>0, LenProperties
        <5> QED BY <3>6, <5>1, <5>2
      <4> QED BY <3>4, <3>7, <3>8, <4>1 DEF Swallows
    <3>9. CASE ~Last(lines).comment /\ Last(lines).kind = "blank"
      <4>1. Glued(Last(lines), insert) = insert
        BY <3>9 DEF Glued
      <4> QED BY <3>4, <3>6, <3>9, <4>1 DEF Fills, insert
    <3>10. CASE ~Last(lines).comment /\ Last(lines).kind = "key"
      <4>1. Glued(Last(lines), insert) = [lines[Len(lines)] EXCEPT !.value = Junk]
        BY <3>3, <3>10 DEF Glued
      <4> QED BY <3>4, <3>6, <3>7, <3>10, <4>1 DEF Mars
    <3>11. CASE ~Last(lines).comment /\ Last(lines).kind \notin {"blank", "key"}
      <4>1. Glued(Last(lines), insert) = Garbage
        BY <3>11 DEF Glued
      <4> QED BY <3>1, <3>2, <3>6, <4>1 DEF Spoils, Text
    <3> QED BY <3>8, <3>9, <3>10, <3>11
  <2>6. CASE there = 0 /\ ~(end = Len(lines) + 1 /\ ~t.closed)
    <3>1. u = [t EXCEPT !.lines = InsertAt(@, end, insert)]
      BY <1>1, <1>4, <2>3, <2>6
    <3>2. u.lines = InsertAt(lines, end, insert) /\ u.closed = t.closed
      BY <1>0, <3>1
    <3>3. end \in 2 .. Len(lines) + 1 /\ TableAt(lines, end - 1) = table
      <4>1. end - 1 \in h .. end - 1 /\ end \in 2 .. Len(lines) + 1
        BY <1>0, <2>2, <2>3
      <4> QED BY <2>2, <4>1
    <3>4. end = Len(lines) + 1 => t.closed
      BY <1>0, <2>6
    <3> QED BY <3>2, <3>3, <3>4 DEF Inserts, insert
  <2> QED BY <2>4, <2>5, <2>6
<1> QED BY <1>3, <1>4

\* What an insertion into a sequence returns.
LEMMA InsertIs ==
    ASSUME NEW S, NEW s \in Seq(S), NEW r \in 1 .. Len(s) + 1, NEW x \in S
    PROVE  /\ InsertAt(s, r, x) \in Seq(S) /\ Len(InsertAt(s, r, x)) = Len(s) + 1
           /\ InsertAt(s, r, x)[r] = x
           /\ \A j \in 1 .. r - 1 : InsertAt(s, r, x)[j] = s[j]
           /\ \A j \in r .. Len(s) : InsertAt(s, r, x)[j + 1] = s[j]
<1> DEFINE n == Len(s)
           a == SubSeq(s, 1, r - 1)
           w == << x >>
           c == SubSeq(s, r, n)
<1>1. n \in Nat /\ r \in Nat /\ 1 <= r /\ r <= n + 1
  BY LenProperties
<1>2. \A i \in 1 .. n : s[i] \in S
  BY ElementOfSeq
<1>3. InsertAt(s, r, x) = (a \o w) \o c
  BY DEF InsertAt
<1> HIDE DEF n
<1>4. a \in Seq(S) /\ Len(a) = r - 1 /\ \A i \in 1 .. r - 1 : a[i] = s[i]
  <2> DEFINE q == r - 1
  <2>1. 1 \in Int /\ q \in Int /\ 0 <= q /\ \A i \in 1 .. q : s[i] \in S
    BY <1>1, <1>2
  <2> HIDE DEF q
  <2>2. /\ SubSeq(s, 1, q) \in Seq(S)
        /\ Len(SubSeq(s, 1, q)) = IF 1 <= q THEN q - 1 + 1 ELSE 0
        /\ \A i \in 1 .. q - 1 + 1 : SubSeq(s, 1, q)[i] = s[1 + i - 1]
    BY <2>1, SubSeqProperties
  <2>3. Len(SubSeq(s, 1, q)) = q /\ \A i \in 1 .. q : SubSeq(s, 1, q)[i] = s[i]
    BY <2>1, <2>2
  <2> QED BY <2>2, <2>3 DEF q
<1>5. c \in Seq(S) /\ Len(c) = n - r + 1 /\ \A i \in 1 .. n - r + 1 : c[i] = s[r + i - 1]
  <2>1. r \in Int /\ n \in Int /\ \A i \in r .. n : s[i] \in S
    BY <1>1, <1>2
  <2>2. /\ SubSeq(s, r, n) \in Seq(S)
        /\ Len(SubSeq(s, r, n)) = IF r <= n THEN n - r + 1 ELSE 0
        /\ \A i \in 1 .. n - r + 1 : SubSeq(s, r, n)[i] = s[r + i - 1]
    BY <2>1, SubSeqProperties
  <2> QED BY <1>1, <2>2
<1>6. w \in Seq(S) /\ Len(w) = 1 /\ w[1] = x
  BY OneIsSeq
<1> HIDE DEF a, w, c
<1>7. /\ a \o w \in Seq(S) /\ Len(a \o w) = r
      /\ \A i \in 1 .. r : (a \o w)[i] = IF i <= r - 1 THEN a[i] ELSE w[i - (r - 1)]
  <2>1. /\ a \o w \in Seq(S) /\ Len(a \o w) = Len(a) + Len(w)
        /\ \A i \in 1 .. Len(a) + Len(w) : (a \o w)[i] = IF i <= Len(a) THEN a[i] ELSE w[i - Len(a)]
    BY <1>4, <1>6, ConcatProperties
  <2>2. Len(a) + Len(w) = r
    BY <1>1, <1>4, <1>6
  <2> QED BY <1>4, <2>1, <2>2
<1> DEFINE b == a \o w
<1>8. b \in Seq(S) /\ Len(b) = r /\ b[r] = x /\ \A i \in 1 .. r - 1 : b[i] = s[i]
  <2>1. b[r] = x
    <3>1. r \in 1 .. r /\ ~(r <= r - 1) /\ r - (r - 1) = 1
      BY <1>1
    <3> QED BY <1>6, <1>7, <3>1
  <2>2. \A i \in 1 .. r - 1 : b[i] = s[i]
    <3> TAKE i \in 1 .. r - 1
    <3>1. i \in 1 .. r /\ i <= r - 1
      BY <1>1
    <3> QED BY <1>4, <1>7, <3>1
  <2> QED BY <1>7, <2>1, <2>2
<1> HIDE DEF b
<1>9. /\ b \o c \in Seq(S) /\ Len(b \o c) = n + 1
      /\ \A i \in 1 .. n + 1 : (b \o c)[i] = IF i <= r THEN b[i] ELSE c[i - r]
  <2>1. /\ b \o c \in Seq(S) /\ Len(b \o c) = Len(b) + Len(c)
        /\ \A i \in 1 .. Len(b) + Len(c) : (b \o c)[i] = IF i <= Len(b) THEN b[i] ELSE c[i - Len(b)]
    BY <1>5, <1>8, ConcatProperties
  <2>2. Len(b) + Len(c) = n + 1
    BY <1>1, <1>5, <1>8
  <2> QED BY <1>8, <2>1, <2>2
<1>10. (b \o c)[r] = x
  <2>1. r \in 1 .. n + 1 /\ r <= r
    BY <1>1
  <2> QED BY <1>8, <1>9, <2>1
<1>11. ASSUME NEW j \in 1 .. r - 1 PROVE (b \o c)[j] = s[j]
  <2>1. j \in 1 .. n + 1 /\ j <= r
    BY <1>1
  <2> QED BY <1>8, <1>9, <2>1
<1>12. ASSUME NEW j \in r .. n PROVE (b \o c)[j + 1] = s[j]
  <2>1. /\ j + 1 \in 1 .. n + 1 /\ ~(j + 1 <= r) /\ (j + 1) - r \in 1 .. n - r + 1
        /\ r + ((j + 1) - r) - 1 = j
    BY <1>1
  <2>2. (b \o c)[j + 1] = c[(j + 1) - r]
    BY <1>9, <2>1
  <2>3. c[(j + 1) - r] = s[r + ((j + 1) - r) - 1]
    BY <1>5, <2>1
  <2> QED BY <2>1, <2>2, <2>3
<1>13. InsertAt(s, r, x) = b \o c
  BY <1>3 DEF b
<1> QED BY <1>9, <1>10, <1>11, <1>12, <1>13 DEF n

\* What comes of three lines put at the end.
LEMMA ThreeAppended ==
    ASSUME NEW S, NEW s \in Seq(S), NEW x \in S, NEW y \in S, NEW z \in S
    PROVE  LET b == s \o << x, y, z >> IN
           /\ b \in Seq(S) /\ Len(b) = Len(s) + 3
           /\ \A i \in 1 .. Len(s) : b[i] = s[i]
           /\ b[Len(s) + 1] = x /\ b[Len(s) + 2] = y /\ b[Len(s) + 3] = z
<1> DEFINE w == << x, y, z >>
           n == Len(s)
<1>1. w \in Seq(S) /\ Len(w) = 3 /\ w[1] = x /\ w[2] = y /\ w[3] = z
  OBVIOUS
<1>2. n \in Nat
  BY LenProperties
<1> HIDE DEF w
<1>3. /\ s \o w \in Seq(S) /\ Len(s \o w) = n + 3
      /\ \A i \in 1 .. n + 3 : (s \o w)[i] = IF i <= n THEN s[i] ELSE w[i - n]
  <2>1. /\ s \o w \in Seq(S) /\ Len(s \o w) = Len(s) + Len(w)
        /\ \A i \in 1 .. Len(s) + Len(w) : (s \o w)[i] = IF i <= Len(s) THEN s[i] ELSE w[i - Len(s)]
    BY <1>1, ConcatProperties
  <2> QED BY <1>1, <2>1
<1>4. \A i \in 1 .. n : (s \o w)[i] = s[i]
  BY <1>2, <1>3
<1>5. (s \o w)[n + 1] = x /\ (s \o w)[n + 2] = y /\ (s \o w)[n + 3] = z
  <2>1. n + 1 - n = 1 /\ n + 2 - n = 2 /\ n + 3 - n = 3
    BY <1>2
  <2> QED BY <1>1, <1>2, <1>3, <2>1
<1> QED BY <1>3, <1>4, <1>5 DEF w, n

\* What a replacement of a value returns.
LEMMA ReplacedIs ==
    ASSUME NEW a \in Seq(LineSet), NEW i \in 1 .. Len(a), NEW v \in Value
    PROVE  LET b == [a EXCEPT ![i] = [@ EXCEPT !.value = v]] IN
           /\ b \in Seq(LineSet) /\ Len(b) = Len(a)
           /\ \A j \in 1 .. Len(a) : j # i => b[j] = a[j]
           /\ b[i].kind = a[i].kind /\ b[i].path = a[i].path /\ b[i].value = v
           /\ b[i].comment = a[i].comment
<1> DEFINE x == [a[i] EXCEPT !.value = v]
           b == [a EXCEPT ![i] = x]
<1>1. a[i] \in LineSet
  BY ElementOfSeq
<1>2. /\ x \in LineSet /\ x.kind = a[i].kind /\ x.path = a[i].path /\ x.value = v
      /\ x.comment = a[i].comment
  BY <1>1 DEF LineSet
<1> HIDE DEF x
<1>3. /\ b \in Seq(LineSet) /\ Len(b) = Len(a)
      /\ \A j \in 1 .. Len(a) : b[j] = IF j = i THEN x ELSE a[j]
  BY <1>2, ExceptSeq
<1>4. b = [a EXCEPT ![i] = [@ EXCEPT !.value = v]]
  BY DEF x
<1> HIDE DEF b
<1> QED BY <1>2, <1>3, <1>4

\* An edited text is a text.
LEMMA EditTyped ==
    ASSUME NEW t, IsText(t), NEW e \in EditSet, NEW u, u = applyConfigEdit(t, e)
    PROVE  IsText(u)
<1> DEFINE insert == Assign(Last(e.path), e.value)
<1>0. /\ t.lines \in Seq(LineSet) /\ t.closed \in BOOLEAN /\ (~t.closed => t.lines # << >>)
      /\ Len(t.lines) \in Nat
  BY LenProperties DEF IsText
<1>1. insert \in LineSet /\ Blank \in LineSet /\ Garbage \in LineSet /\ Header(TableOf(e.path)) \in LineSet
  BY MadeLines, EditParts
<1>2. u = [lines |-> u.lines, closed |-> u.closed]
  <2>1. t = [lines |-> t.lines, closed |-> t.closed]
    BY DEF IsText
  <2> QED BY <2>1 DEF applyConfigEdit, Text
<1>3. CASE Replaces(t, e, u)
  <2>1. PICK i \in Kind(t.lines, "key"), w \in Value :
          /\ u.lines = [t.lines EXCEPT ![i] = [@ EXCEPT !.value = w]]
          /\ u.closed = t.closed
    BY <1>3 DEF Replaces
  <2>2. i \in 1 .. Len(t.lines)
    BY <1>0, KindIs
  <2>3. u.lines \in Seq(LineSet) /\ Len(u.lines) = Len(t.lines)
    BY <1>0, <2>1, <2>2, ReplacedIs
  <2>4. ~u.closed => u.lines # << >>
    BY <1>0, <2>1, <2>2, <2>3, EmptySeq
  <2> QED BY <1>0, <1>2, <2>1, <2>3, <2>4 DEF IsText
<1>4. CASE Inserts(t, e, u)
  <2>1. PICK r \in 2 .. Len(t.lines) + 1 :
          u.lines = InsertAt(t.lines, r, insert) /\ u.closed = t.closed
    BY <1>4 DEF Inserts
  <2>2. r \in 1 .. Len(t.lines) + 1
    BY <1>0
  <2> HIDE DEF insert
  <2>3. u.lines \in Seq(LineSet) /\ Len(u.lines) = Len(t.lines) + 1
    BY <1>0, <1>1, <2>1, <2>2, InsertIs
  <2>4. u.lines # << >>
    BY <1>0, <2>3, EmptySeq
  <2> QED BY <1>0, <1>2, <2>1, <2>3, <2>4 DEF IsText
<1>5. CASE Appends(t, e, u)
  <2>1. u.lines = t.lines \o << Blank, Header(TableOf(e.path)), insert >>
    BY <1>5 DEF Appends
  <2>2. u.closed = TRUE
    BY <1>5 DEF Appends
  <2> DEFINE head == Header(TableOf(e.path))
  <2> HIDE DEF insert, head
  <2>3. u.lines \in Seq(LineSet)
    <3>1. head \in LineSet
      BY <1>1 DEF head
    <3>2. t.lines \o << Blank, head, insert >> \in Seq(LineSet)
      BY <1>0, <1>1, <3>1, ThreeAppended
    <3> QED BY <2>1, <3>2 DEF head
  <2> QED BY <1>2, <2>2, <2>3 DEF IsText
<1>6. CASE Swallows(t, e, u) \/ Mars(t, e, u) \/ Fills(t, e, u)
  <2>1. u.closed = TRUE /\ ~t.closed
    BY <1>6 DEF Swallows, Mars, Fills, AtOpenEnd
  <2> HIDE DEF insert
  <2>3. u.lines \in Seq(LineSet)
    <3>1. Len(t.lines) \in 1 .. Len(t.lines)
      BY <1>0, <2>1, EmptySeq
    <3>2. CASE Swallows(t, e, u)
      BY <1>0, <3>2 DEF Swallows
    <3>3. CASE Fills(t, e, u)
      <4>1. u.lines = [t.lines EXCEPT ![Len(t.lines)] = insert]
        BY <3>3 DEF Fills, insert
      <4> QED BY <1>0, <1>1, <3>1, <4>1, ExceptSeq
    <3>4. CASE Mars(t, e, u)
      <4>1. u.lines = [t.lines EXCEPT ![Len(t.lines)] = [@ EXCEPT !.value = Junk]]
        BY <3>4 DEF Mars
      <4> QED BY <1>0, <3>1, <4>1, JunkIsValue, ReplacedIs
    <3> QED BY <1>6, <3>2, <3>3, <3>4
  <2> QED BY <1>2, <2>1, <2>3 DEF IsText
<1>7. CASE Spoils(t, u)
  <2>1. PICK i \in 1 .. Len(t.lines) : u.lines = [t.lines EXCEPT ![i] = Garbage]
    BY <1>7 DEF Spoils
  <2>2. u.lines \in Seq(LineSet) /\ Len(u.lines) = Len(t.lines)
    BY <1>0, <1>1, <2>1, ExceptSeq
  <2>3. u.lines # << >>
    <3>1. Len(u.lines) # 0
      BY <1>0, <2>2
    <3> QED BY <2>2, <3>1, EmptySeq
  <2> QED BY <1>2, <1>7, <2>2, <2>3 DEF Spoils, IsText
<1> QED BY <1>3, <1>4, <1>5, <1>6, <1>7, EditIs

-----------------------------------------------------------------------------
(* What an edit keeps *)

\* The lines of one text are in another, in order; none is a header that was none, and
\* no header comes between them.
Carries(m, a, b) ==
    /\ m \in [1 .. Len(a) -> 1 .. Len(b)]
    /\ \A i, j \in 1 .. Len(a) : i < j => m[i] < m[j]
    /\ \A i \in 1 .. Len(a) :
          /\ a[i].kind # "blank" => b[m[i]].kind = a[i].kind /\ b[m[i]].path = a[i].path
          /\ b[m[i]].kind = "header" => a[i].kind = "header"
          /\ \A g \in Kind(b, "header") : g <= m[i] => \E j \in 1 .. Len(a) : m[j] = g

\* Lines that are carried stay in order and apart.
LEMMA CarriedOrder ==
    ASSUME NEW a \in Seq(LineSet), NEW b \in Seq(LineSet), NEW m, Carries(m, a, b),
           NEW i \in 1 .. Len(a), NEW j \in 1 .. Len(a)
    PROVE  /\ m[i] \in 1 .. Len(b) /\ (m[i] <= m[j] <=> i <= j) /\ (m[i] = m[j] <=> i = j)
<1>1. m[i] \in 1 .. Len(b) /\ m[j] \in 1 .. Len(b) /\ Len(a) \in Nat /\ Len(b) \in Nat
  BY LenProperties DEF Carries
<1>2. (i < j => m[i] < m[j]) /\ (j < i => m[j] < m[i])
  BY DEF Carries
<1>3. i < j \/ i = j \/ j < i
  BY <1>1
<1> QED BY <1>1, <1>2, <1>3

\* And they stay in their tables, and keys keep their paths.
LEMMA CarriedPaths ==
    ASSUME NEW a \in Seq(LineSet), NEW b \in Seq(LineSet), NEW m, Carries(m, a, b),
           NEW i \in 1 .. Len(a)
    PROVE  /\ TableAt(b, m[i]) = TableAt(a, i)
           /\ a[i].kind # "blank" => PathAt(b, m[i]) = PathAt(a, i)
<1>1. /\ Len(a) \in Nat /\ Len(b) \in Nat /\ i \in Nat /\ m[i] \in 1 .. Len(b) /\ m[i] \in Nat
  <2>1. Len(a) \in Nat /\ Len(b) \in Nat
    BY LenProperties
  <2>2. m[i] \in 1 .. Len(b)
    BY DEF Carries
  <2> QED BY <2>1, <2>2
<1>2. ASSUME NEW g \in Kind(b, "header"), g <= m[i]
      PROVE  \E j \in 1 .. Len(a) : m[j] = g /\ j \in Kind(a, "header") /\ j <= i
  <2>1. PICK j \in 1 .. Len(a) : m[j] = g
    BY <1>2 DEF Carries
  <2>2. b[m[j]].kind = "header"
    BY <2>1 DEF Kind
  <2>3. a[j].kind = "header" /\ j \in Kind(a, "header")
    BY <2>2, KindIs DEF Carries
  <2>4. j <= i
    BY <1>2, <2>1, CarriedOrder
  <2> QED BY <2>1, <2>3, <2>4
<1>3. TableAt(b, m[i]) = TableAt(a, i)
  <2>1. CASE TableAt(a, i) = << >> /\ \A g \in Kind(a, "header") : ~(g <= i)
    <3>1. \A g \in Kind(b, "header") : ~(g <= m[i])
      BY <1>2, <2>1
    <3>2. TableAt(b, m[i]) = << >>
      BY <1>1, <3>1, TableAtCases
    <3> QED BY <2>1, <3>2
  <2>2. ASSUME NEW h \in Kind(a, "header"), h <= i, TableAt(a, i) = a[h].path,
               \A g \in Kind(a, "header") : g <= i => g <= h
        PROVE  TableAt(b, m[i]) = TableAt(a, i)
    <3>1. h \in 1 .. Len(a) /\ a[h].kind = "header"
      BY KindIs
    <3>2. m[h] \in 1 .. Len(b) /\ m[h] <= m[i]
      BY <2>2, <3>1, CarriedOrder
    <3>3. b[m[h]].kind = "header" /\ b[m[h]].path = a[h].path
      <4>1. a[h].kind # "blank"
        BY <3>1
      <4> QED BY <3>1, <4>1 DEF Carries
    <3>4. m[h] \in Kind(b, "header")
      BY <3>2, <3>3, KindIs
    <3>5. ASSUME NEW g \in Kind(b, "header"), g <= m[i] PROVE g <= m[h]
      <4>1. PICK j \in 1 .. Len(a) : m[j] = g /\ j \in Kind(a, "header") /\ j <= i
        BY <1>2, <3>5
      <4>2. j <= h
        BY <2>2, <4>1
      <4> QED BY <3>1, <4>1, <4>2, CarriedOrder
    <3>6. TableAt(b, m[i]) = b[m[h]].path
      BY <1>1, <3>2, <3>4, <3>5, TableAtFrom
    <3> QED BY <2>2, <3>3, <3>6
  <2> QED BY <1>1, <2>1, <2>2, TableAtCases
<1>4. a[i].kind # "blank" => b[m[i]].path = a[i].path
  BY DEF Carries
<1> QED BY <1>3, <1>4 DEF PathAt

\* No line is spoilt, no table and no key is there twice, and no dotted key is in a
\* table that has a header.
Clean(lines) ==
    /\ Kind(lines, "garbage") = {}
    /\ \A g, h \in Kind(lines, "header") : lines[g].path = lines[h].path => g = h
    /\ \A i, j \in Kind(lines, "key") : PathAt(lines, i) = PathAt(lines, j) => i = j
    /\ \A i \in Kind(lines, "key") : \A h \in Kind(lines, "header") :
          \A q \in Parents(lines[i].path) : lines[h].path # TableAt(lines, i) \o q

\* What is amiss in a text stays amiss.
LEMMA CarriedClean ==
    ASSUME NEW a \in Seq(LineSet), NEW b \in Seq(LineSet), NEW m, Carries(m, a, b), Clean(b)
    PROVE  Clean(a)
<1>1. ASSUME NEW kind \in {"header", "key", "garbage"}, NEW i \in Kind(a, kind)
      PROVE  i \in 1 .. Len(a) /\ m[i] \in Kind(b, kind) /\ b[m[i]].path = a[i].path
  <2>1. i \in 1 .. Len(a) /\ a[i].kind = kind
    BY KindIs
  <2>2. m[i] \in 1 .. Len(b) /\ b[m[i]].kind = kind /\ b[m[i]].path = a[i].path
    <3>1. a[i].kind # "blank"
      BY <2>1
    <3> QED BY <2>1, <3>1 DEF Carries
  <2> QED BY <2>1, <2>2, KindIs
<1>2. Kind(a, "garbage") = {}
  BY <1>1 DEF Clean
<1>3. ASSUME NEW g \in Kind(a, "header"), NEW h \in Kind(a, "header"), a[g].path = a[h].path
      PROVE  g = h
  <2>1. /\ g \in 1 .. Len(a) /\ h \in 1 .. Len(a)
        /\ m[g] \in Kind(b, "header") /\ m[h] \in Kind(b, "header")
        /\ b[m[g]].path = b[m[h]].path
    BY <1>1, <1>3
  <2>2. m[g] = m[h]
    BY <2>1 DEF Clean
  <2> QED BY <2>1, <2>2, CarriedOrder
<1>4. ASSUME NEW i \in Kind(a, "key")
      PROVE  /\ PathAt(b, m[i]) = PathAt(a, i) /\ TableAt(b, m[i]) = TableAt(a, i)
             /\ i \in 1 .. Len(a) /\ m[i] \in Kind(b, "key") /\ b[m[i]].path = a[i].path
  <2>1. i \in 1 .. Len(a) /\ a[i].kind # "blank"
    BY KindIs
  <2> QED BY <1>1, <2>1, CarriedPaths
<1>5. ASSUME NEW i \in Kind(a, "key"), NEW j \in Kind(a, "key"), PathAt(a, i) = PathAt(a, j)
      PROVE  i = j
  <2>1. m[i] = m[j]
    BY <1>4, <1>5 DEF Clean
  <2> QED BY <1>4, <2>1, CarriedOrder
<1>6. ASSUME NEW i \in Kind(a, "key"), NEW h \in Kind(a, "header"), NEW q \in Parents(a[i].path)
      PROVE  a[h].path # TableAt(a, i) \o q
  <2>1. m[i] \in Kind(b, "key") /\ q \in Parents(b[m[i]].path) /\ TableAt(b, m[i]) = TableAt(a, i)
    BY <1>4
  <2>2. m[h] \in Kind(b, "header") /\ b[m[h]].path = a[h].path
    BY <1>1
  <2>3. b[m[h]].path # TableAt(b, m[i]) \o q
    BY <2>1, <2>2 DEF Clean
  <2> QED BY <2>1, <2>2, <2>3
<1> QED BY <1>2, <1>3, <1>5, <1>6 DEF Clean

-----------------------------------------------------------------------------
(* One edit after the other *)

\* The texts that the edits pass through.
Runs(f, text, es) ==
    /\ f[0] = text /\ f[Len(es)] = ApplyEdits(text, es)
    /\ \A n \in 1 .. Len(es) : f[n] = applyConfigEdit(f[n - 1], es[n])

\* The function that ApplyEdits recurs by.
AppliesTo(f, text, es) ==
    f = [n \in 0 .. Len(es) |-> IF n = 0 THEN text ELSE applyConfigEdit(f[n - 1], es[n])]

\* There is one.
LEMMA AppliesExists ==
    ASSUME NEW text, NEW es, Len(es) \in Nat
    PROVE  \E f : AppliesTo(f, text, es)
<1> DEFINE body(f, i) == IF i = 0 THEN text ELSE applyConfigEdit(f[i - 1], es[i])
           N == { n \in Nat : \E f : f = [i \in 0 .. n |-> body(f, i)] }
<1>1. 0 \in N
  <2> DEFINE f == [i \in 0 .. 0 |-> text]
  <2>1. f = [i \in 0 .. 0 |-> body(f, i)]
    <3>1. \A i \in 0 .. 0 : i = 0
      OBVIOUS
    <3>2. \A i \in 0 .. 0 : body(f, i) = text
      BY <3>1
    <3> HIDE DEF body
    <3> QED BY <3>2
  <2> HIDE DEF f, body
  <2> QED BY <2>1
<1>2. ASSUME NEW n \in N PROVE n + 1 \in N
  <2>1. PICK f : f = [i \in 0 .. n |-> body(f, i)]
    OBVIOUS
  <2> DEFINE g == [i \in 0 .. n + 1 |-> IF i = n + 1 THEN body(f, i) ELSE f[i]]
  <2>2. \A i \in 0 .. n + 1 : g[i] = body(g, i)
    <3> TAKE i \in 0 .. n + 1
    <3>1. n \in Nat
      OBVIOUS
    <3>2. body(g, i) = body(f, i)
      <4>1. i = 0 \/ (i - 1 \in 0 .. n /\ g[i - 1] = f[i - 1])
        BY <3>1
      <4> HIDE DEF g
      <4> QED BY <4>1
    <3>3. g[i] = body(f, i)
      <4>1. i \in 0 .. n => f[i] = body(f, i)
        BY <2>1
      <4> HIDE DEF body
      <4> QED BY <3>1, <4>1
    <3> QED BY <3>2, <3>3
  <2>3. g = [i \in 0 .. n + 1 |-> body(g, i)]
    <3>1. g = [i \in 0 .. n + 1 |-> g[i]]
      OBVIOUS
    <3> HIDE DEF g
    <3> QED BY <2>2, <3>1
  <2> HIDE DEF g, body
  <2>4. n + 1 \in Nat
    OBVIOUS
  <2> QED BY <2>3, <2>4, Zenon
<1> HIDE DEF N
<1>3. Nat \subseteq N
  BY <1>1, <1>2, NaturalInduction
<1> QED BY <1>3 DEF N, AppliesTo

\* ApplyEdits runs through the edits.
LEMMA RunExists ==
    ASSUME NEW text, NEW es, Len(es) \in Nat
    PROVE  \E f : Runs(f, text, es)
<1> DEFINE f == CHOOSE x : AppliesTo(x, text, es)
<1>1. ApplyEdits(text, es) = f[Len(es)]
  BY DEF ApplyEdits, AppliesTo
<1>2. AppliesTo(f, text, es)
  BY AppliesExists
<1> HIDE DEF f
<1> DEFINE h == [n \in 0 .. Len(es) |-> IF n = 0 THEN text ELSE applyConfigEdit(f[n - 1], es[n])]
<1>3. f = h
  BY <1>2 DEF AppliesTo
<1>4. h[0] = text /\ \A n \in 1 .. Len(es) : h[n] = applyConfigEdit(f[n - 1], es[n])
  OBVIOUS
<1> HIDE DEF h
<1>5. Runs(f, text, es)
  BY <1>1, <1>3, <1>4 DEF Runs
<1> QED BY <1>5

\* All of them are texts.
LEMMA RunTyped ==
    ASSUME NEW text, IsText(text), NEW es \in Seq(EditSet), NEW f, Runs(f, text, es)
    PROVE  \A n \in 0 .. Len(es) : IsText(f[n])
<1> DEFINE N == { n \in Nat : n \in 0 .. Len(es) => IsText(f[n]) }
<1>1. 0 \in N
  BY DEF Runs
<1>2. ASSUME NEW n \in N PROVE n + 1 \in N
  <2> SUFFICES ASSUME n + 1 \in 0 .. Len(es) PROVE IsText(f[n + 1])
    OBVIOUS
  <2>1. /\ n \in 0 .. Len(es) /\ n + 1 \in 1 .. Len(es) /\ (n + 1) - 1 = n
    BY LenProperties
  <2>2. f[n + 1] = applyConfigEdit(f[n], es[n + 1]) /\ IsText(f[n]) /\ es[n + 1] \in EditSet
    BY <2>1, ElementOfSeq DEF Runs
  <2> HIDE DEF N
  <2> QED BY <2>2, EditTyped
<1> HIDE DEF N
<1>3. Nat \subseteq N
  BY <1>1, <1>2, NaturalInduction
<1> QED BY <1>3, LenProperties DEF N

\* So is what ApplyEdits returns.
LEMMA ApplyTyped ==
    ASSUME NEW text, IsText(text), NEW es \in Seq(EditSet)
    PROVE  IsText(ApplyEdits(text, es))
<1>1. Len(es) \in Nat
  BY LenProperties
<1>2. PICK f : Runs(f, text, es)
  BY <1>1, RunExists
<1>3. Len(es) \in 0 .. Len(es)
  BY <1>1
<1> QED BY <1>2, <1>3, RunTyped DEF Runs

-----------------------------------------------------------------------------
(* Types *)

\* What is flattened is a sequence.
LEMMA FlattenTyped ==
    ASSUME NEW S, NEW s \in Seq(Seq(S))
    PROVE  FlattenSeq(s) \in Seq(S)
<1>1. << >> \in Seq(S)
  BY EmptySeq
<1> QED BY <1>1, FlattenAppend

\* What is made for each element of a sequence is a sequence.
LEMMA MappedTyped ==
    ASSUME NEW S, NEW T, NEW s \in Seq(S), NEW f, f = [i \in DOMAIN s |-> f[i]],
           \A i \in 1 .. Len(s) : f[i] \in T
    PROVE  f \in Seq(T)
<1>1. Len(s) \in Nat /\ DOMAIN s = 1 .. Len(s)
  BY LenProperties
<1>2. f \in [1 .. Len(s) -> T]
  BY <1>1
<1> QED BY <1>1, <1>2, IsASeq

\* The lines of a fragment come to edits.
LEMMA CollectTyped ==
    ASSUME NEW lines \in Seq(LineSet)
    PROVE  collectPatchEdits(lines) \in Seq(EditSet)
<1> DEFINE f == [i \in DOMAIN lines |->
                    IF lines[i].kind = "key" THEN << Edit(PathAt(lines, i), lines[i].value) >>
                    ELSE << >>]
<1>1. DOMAIN lines = 1 .. Len(lines) /\ Len(lines) \in Nat
  BY LenProperties
<1>2. ASSUME NEW i \in 1 .. Len(lines) PROVE f[i] \in Seq(EditSet)
  <2>1. CASE lines[i].kind # "key"
    BY <1>1, <2>1, EmptySeq
  <2>2. CASE lines[i].kind = "key"
    <3> DEFINE p == PathAt(lines, i)
               v == lines[i].value
    <3>1. /\ p \in Path /\ lines[i].path \in Path /\ TableAt(lines, i) \in Path
          /\ Len(p) = Len(TableAt(lines, i)) + Len(lines[i].path)
      BY PathsAre
    <3>2. v \in Value /\ lines[i].path # << >>
      BY <2>2, ElementOfSeq DEF LineSet
    <3> HIDE DEF p, v
    <3>3. p # << >>
      <4>1. Len(lines[i].path) \in Nat \ {0} /\ Len(TableAt(lines, i)) \in Nat
        BY <3>1, <3>2, EmptySeq, LenProperties DEF Path
      <4> QED BY <3>1, <4>1, EmptySeq
    <3>4. Edit(p, v) \in EditSet
      BY <3>1, <3>2, <3>3 DEF Edit, EditSet
    <3>5. f[i] = << Edit(p, v) >>
      BY <1>1, <2>2 DEF p, v
    <3> HIDE DEF f
    <3> QED BY <3>4, <3>5, OneIsSeq
  <2> QED BY <2>1, <2>2
<1>3. collectPatchEdits(lines) = FlattenSeq(f)
  BY DEF collectPatchEdits
<1>4. f = [i \in DOMAIN lines |-> f[i]]
  OBVIOUS
<1> HIDE DEF f
<1>5. f \in Seq(Seq(EditSet))
  BY <1>2, <1>4, MappedTyped
<1> QED BY <1>3, <1>5, FlattenTyped

\* A value that is written is a value.
LEMMA EncodeTyped ==
    ASSUME NEW raw \in Value, NEW type, "quoted" \in String
    PROVE  encodeConfigValue(raw, type) \in Value \cup {<< >>}
BY DEF encodeConfigValue, Value

\* The ports of a kind, one by one.
LEMMA PortsAre ==
    ASSUME NEW kind
    PROVE  Len(PortsOf(kind)) \in Nat /\ DOMAIN PortsOf(kind) = 1 .. Len(PortsOf(kind))
<1>1. PortsOf(kind) \in Seq(Nat)
  BY DEF PortsOf, OllamaPort
<1> QED BY <1>1, LenProperties

\* What is found is a sequence of candidates.
CandidateSet == [kind : BackendKind, port : DOMAIN URLOf, patch : {"none", "plain", "default"}]

\* A candidate's patch is made of lines.
LEMMA PatchTyped ==
    ASSUME NEW c \in CandidateSet
    PROVE  PatchOf(c) \in Seq(LineSet)
<1> DEFINE name == NameOf(c.kind)
           url == URLOf[c.port]
           flag == c.patch = "default"
<1>1. c.kind \in BackendKind /\ c.port \in DOMAIN URLOf
  BY DEF CandidateSet
<1>2. name \in String /\ c.kind \in String /\ url \in String
  BY <1>1, SetupAssumption DEF NameOf, Words
<1>3. {"backends", "kind", "base_url", "default"} \subseteq String
  BY SetupAssumption DEF Words
<1> HIDE DEF name, url
<1>4. << "string", c.kind >> \in Value /\ << "string", url >> \in Value
      /\ \A b \in BOOLEAN : << "bool", b >> \in Value
  BY <1>2 DEF Value
<1>5. flag \in BOOLEAN
  OBVIOUS
<1> HIDE DEF flag
<1>6. << "backends", name >> \in Path \ {<< >>}
  <2>1. << "backends", name >> \in Seq(String) /\ Len(<< "backends", name >>) = 2 /\ Len(<< >>) = 0
    BY <1>2, <1>3
  <2>2. << "backends", name >> # << >>
    BY <2>1
  <2> QED BY <2>1, <2>2 DEF Path
<1> DEFINE a == Header(<< "backends", name >>)
           b == Assign("kind", << "string", c.kind >>)
           d == Assign("base_url", << "string", url >>)
           e == Assign("default", << "bool", flag >>)
<1>7. a \in LineSet /\ b \in LineSet /\ d \in LineSet /\ e \in LineSet /\ Blank \in LineSet
  BY <1>3, <1>4, <1>5, <1>6, MadeLines
<1>8. PatchOf(c) = << a, b, d, e, Blank >>
  BY DEF PatchOf, name, url, flag
<1> HIDE DEF a, b, d, e
<1> QED BY <1>7, <1>8

\* The patch is made of lines.
LEMMA PatchTextTyped ==
    ASSUME found \in Seq(CandidateSet)
    PROVE  PatchText \in Seq(LineSet)
<1> DEFINE f == [i \in DOMAIN found |->
                    IF found[i].patch = "none" THEN << >> ELSE PatchOf(found[i])]
<1>1. DOMAIN found = 1 .. Len(found) /\ Len(found) \in Nat
  BY LenProperties
<1>2. ASSUME NEW i \in 1 .. Len(found) PROVE f[i] \in Seq(LineSet)
  <2>1. found[i] \in CandidateSet
    BY ElementOfSeq
  <2>2. PatchOf(found[i]) \in Seq(LineSet) /\ << >> \in Seq(LineSet)
    BY <2>1, PatchTyped, EmptySeq
  <2> QED BY <1>1, <2>2
<1>3. PatchText = FlattenSeq(f)
  BY DEF PatchText
<1>4. f = [i \in DOMAIN found |-> f[i]]
  OBVIOUS
<1> HIDE DEF f
<1>5. f \in Seq(Seq(LineSet))
  BY <1>2, <1>4, MappedTyped
<1> QED BY <1>3, <1>5, FlattenTyped

\* The scaffold is a text.
LEMMA ScaffoldTyped == IsText(Text(Scaffold))
<1>1. Words \subseteq String /\ URLOf[OllamaPort] \in String
  BY SetupAssumption, OllamaUrl
<1>2. \A s \in String : << "string", s >> \in Value
  BY DEF Value
<1>3. /\ << "int", 8192 >> \in Value /\ << "int", 1 >> \in Value
      /\ << "bool", TRUE >> \in Value /\ << "bool", FALSE >> \in Value
  <2>1. (\A n \in Int : << "int", n >> \in Value) /\ \A b \in BOOLEAN : << "bool", b >> \in Value
    BY DEF Value
  <2>2. PICK n \in Int : n = 8192
    OBVIOUS
  <2>3. PICK m \in Int : m = 1
    OBVIOUS
  <2>4. << "int", 8192 >> \in Value
    BY <2>1, <2>2
  <2>5. << "int", 1 >> \in Value
    BY <2>1, <2>3
  <2>6. << "bool", TRUE >> \in Value /\ << "bool", FALSE >> \in Value
    BY <2>1
  <2> QED BY <2>4, <2>5, <2>6
<1>4. << "array", << >> >> \in Value
  BY EmptySeq DEF Value
<1>5. \A p \in String : << p >> \in Path \ {<< >>}
  <2> TAKE p \in String
  <2>1. << p >> \in Seq(String) /\ Len(<< p >>) = 1 /\ Len(<< >>) = 0
    BY OneIsSeq
  <2> QED BY <2>1 DEF Path
<1>6. \A p, q \in String : << p, q >> \in Path \ {<< >>}
  <2> TAKE p, q \in String
  <2>1. << p, q >> \in Seq(String) /\ Len(<< p, q >>) = 2 /\ Len(<< >>) = 0
    OBVIOUS
  <2> QED BY <2>1 DEF Path
<1>7. \A i \in {1, 4, 11, 16} : Scaffold[i] \in LineSet
  <2>1. /\ "meta" \in Words /\ "profile" \in Words /\ "backends" \in Words
        /\ "ollama" \in Words /\ "routing" \in Words /\ "code" \in Words
    BY DEF Words, BackendKind
  <2>2. /\ "meta" \in String /\ "profile" \in String /\ "backends" \in String
        /\ "ollama" \in String /\ "routing" \in String /\ "code" \in String
    BY <1>1, <2>1
  <2> QED BY <1>5, <1>6, <2>2, MadeLines, ScaffoldLines
<1>8. \A i \in {3, 10, 15} : Scaffold[i] \in LineSet
  BY MadeLines, ScaffoldLines
<1>9. \A i \in {2, 5, 9, 12, 13} : Scaffold[i] \in LineSet
  <2>1. /\ "schema_version" \in Words /\ "0.1" \in Words /\ "name" \in Words
        /\ "default_local_workstation" \in Words /\ "mode" \in Words /\ "warn" \in Words
        /\ "kind" \in Words /\ "ollama" \in Words /\ "base_url" \in Words
    BY DEF Words, BackendKind
  <2>2. /\ "schema_version" \in String /\ "0.1" \in String /\ "name" \in String
        /\ "default_local_workstation" \in String /\ "mode" \in String /\ "warn" \in String
        /\ "kind" \in String /\ "ollama" \in String /\ "base_url" \in String
    BY <1>1, <2>1
  <2> QED BY <1>1, <1>2, <2>2, MadeLines, ScaffoldLines
<1>10. \A i \in {6, 7, 8, 14, 17, 18, 19} : Scaffold[i] \in LineSet
  <2>1. /\ "max_context_tokens" \in Words /\ "max_concurrent_models" \in Words
        /\ "allow_premium" \in Words /\ "default" \in Words /\ "model" \in Words
        /\ "qwen3:8b" \in Words /\ "backend" \in Words /\ "ollama" \in Words
        /\ "fallback" \in Words
    BY DEF Words, BackendKind
  <2>2. /\ "max_context_tokens" \in String /\ "max_concurrent_models" \in String
        /\ "allow_premium" \in String /\ "default" \in String /\ "model" \in String
        /\ "qwen3:8b" \in String /\ "backend" \in String /\ "ollama" \in String
        /\ "fallback" \in String
    BY <1>1, <2>1
  <2> QED BY <1>2, <1>3, <1>4, <2>2, MadeLines, ScaffoldLines
<1>11. \A i \in 1 .. 19 : Scaffold[i] \in LineSet
  BY <1>7, <1>8, <1>9, <1>10
<1>12. Scaffold \in Seq(LineSet)
  <2>1. DOMAIN Scaffold = 1 .. 19 /\ Scaffold = [i \in DOMAIN Scaffold |-> Scaffold[i]]
    BY ScaffoldLines DEF Scaffold
  <2>2. Scaffold \in [1 .. 19 -> LineSet]
    BY <1>11, <2>1
  <2>3. PICK n \in Nat : n = 19
    OBVIOUS
  <2>4. Scaffold \in [1 .. n -> LineSet]
    BY <2>2, <2>3
  <2> QED BY <2>4, IsASeq
<1> QED BY <1>12 DEF IsText, Text

\* No text is a text.
LEMMA NoTextTyped == IsText(NoText)
BY EmptySeq DEF NoText, Text, IsText

-----------------------------------------------------------------------------
(* Every step keeps the types *)

\* What a text is, no file is, or is not, is there.
FilesTyped == DOMAIN files = Place /\ \A p \in Place : files[p] = NoFile \/ IsText(files[p])

VerdictSet == SUBSET {"accepted", "passed", "failed", "E_CONFIG_INVALID", "E_INVALID_ARG"}

\* The types, part by part.
LEMMA TypeParts ==
    TypeOK <=>
        /\ FilesTyped /\ verdicts \in [Place -> VerdictSet]
        /\ env \in Environment /\ script \in Scripts /\ commands \in 0 .. Len(script)
        /\ DOMAIN servers = DOMAIN URLOf /\ drifts \in 0 .. MaxDrifts
        /\ IsText(artifact) /\ IsText(base) /\ IsText(draft)
        /\ pc \in {"idle", "stat", "read", "edit", "write", "version", "models"}
        /\ at \in Nat \ {0} /\ (pc = "models" => at <= Len(PortsOf(target)))
        /\ pc \in {"read", "edit", "write"} => target \in Place
        /\ pc \in {"version", "models"} => target \in KindArgument
        /\ edits \in Seq(EditSet) /\ found \in Seq(CandidateSet) /\ exit \in {0, 1, 3}
BY DEF TypeOK, FilesTyped, VerdictSet, EditSet, CandidateSet

\* A command that begins.
LEMMA BeginTyped ==
    ASSUME TypeOK, NEW v, Begin(v), UNCHANGED << artifact, verdicts >>,
           pc' \in {"idle", "stat", "edit", "write", "version"},
           pc' \in {"edit", "write"} => target' \in Place,
           pc' = "version" => target' \in KindArgument,
           edits' \in Seq(EditSet), exit' \in {0, 1, 3}
    PROVE  TypeOK'
<1>1. /\ commands \in Nat /\ commands < Len(script) /\ commands' = commands + 1 /\ at' = 1
      /\ base' = NoText /\ draft' = NoText /\ found' = << >>
      /\ UNCHANGED << files, servers, drifts, env, script >>
  BY DEF Begin, TypeOK
<1>2. Len(script) \in Nat
  BY SetupAssumption, LenProperties DEF TypeOK
<1>3. commands' \in 0 .. Len(script')
  BY <1>1, <1>2
<1>4. IsText(base') /\ IsText(draft') /\ found' \in Seq(CandidateSet)
  BY <1>1, NoTextTyped, EmptySeq
<1>5. FilesTyped'
  BY <1>1, TypeParts DEF FilesTyped
<1>6. /\ FilesTyped' /\ verdicts' \in [Place -> VerdictSet]
      /\ env' \in Environment /\ script' \in Scripts /\ commands' \in 0 .. Len(script')
      /\ DOMAIN servers' = DOMAIN URLOf /\ drifts' \in 0 .. MaxDrifts
      /\ IsText(artifact') /\ IsText(base') /\ IsText(draft')
      /\ pc' \in {"idle", "stat", "read", "edit", "write", "version", "models"}
      /\ at' \in Nat \ {0} /\ (pc' = "models" => at' <= Len(PortsOf(target')))
      /\ pc' \in {"read", "edit", "write"} => target' \in Place
      /\ pc' \in {"version", "models"} => target' \in KindArgument
      /\ edits' \in Seq(EditSet) /\ found' \in Seq(CandidateSet) /\ exit' \in {0, 1, 3}
  BY <1>1, <1>3, <1>4, <1>5, TypeParts
<1> QED BY <1>6 DEF TypeOK, FilesTyped, VerdictSet, EditSet, CandidateSet

\* A command that goes on, with its session and what it is given.
LEMMA StepTyped ==
    ASSUME TypeOK, UNCHANGED << session, drifts, edits >>,
           FilesTyped', verdicts' \in [Place -> VerdictSet], DOMAIN servers' = DOMAIN URLOf,
           IsText(artifact'), IsText(base'), IsText(draft'),
           pc' \in {"idle", "stat", "read", "edit", "write", "version", "models"},
           at' \in Nat \ {0}, pc' = "models" => at' <= Len(PortsOf(target')),
           pc' \in {"read", "edit", "write"} => target' \in Place,
           pc' \in {"version", "models"} => target' \in KindArgument,
           found' \in Seq(CandidateSet), exit' \in {0, 1, 3}
    PROVE  TypeOK'
<1>1. /\ env' \in Environment /\ script' \in Scripts /\ commands' \in 0 .. Len(script')
      /\ drifts' \in 0 .. MaxDrifts /\ edits' \in Seq(EditSet)
  BY TypeParts DEF session
<1> QED BY <1>1 DEF TypeOK, FilesTyped, VerdictSet, EditSet, CandidateSet

\* Files that stay are files.
LEMMA FilesStay == ASSUME TypeOK, files' = files PROVE FilesTyped'
BY TypeParts DEF FilesTyped

\* What config set is given to write.
LEMMA BeginSetTyped == ASSUME TypeOK, BeginSet PROVE TypeOK'
<1>1. Begin("set") /\ UNCHANGED << artifact, verdicts >>
  BY DEF BeginSet
<1>2. PICK a \in Argument :
         LET value == encodeConfigValue(a.raw, a.type)
         IN  IF value = << >>
             THEN Answer("E_INVALID_ARG", 1) /\ edits' = << >> /\ target' = "none"
             ELSE edits' = << Edit(a.path, value) >> /\ Aim
  BY DEF BeginSet
<1> DEFINE value == encodeConfigValue(a.raw, a.type)
<1>3. a.path \in Path \ {<< >>} /\ value \in Value \cup {<< >>}
  <2>1. a.path \in Path \ {<< >>} /\ a.raw \in Value
    BY SetupAssumption
  <2>2. "quoted" \in String
    BY WordAssumption
  <2> QED BY <2>1, <2>2, EncodeTyped
<1> HIDE DEF value
<1>4. CASE value = << >>
  <2>1. Answer("E_INVALID_ARG", 1) /\ edits' = << >>
    BY <1>2, <1>4 DEF value
  <2> QED BY <1>1, <2>1, BeginTyped, EmptySeq DEF Answer
<1>5. CASE value # << >>
  <2>1. edits' = << Edit(a.path, value) >> /\ Aim
    BY <1>2, <1>5 DEF value
  <2>2. Edit(a.path, value) \in EditSet
    BY <1>3, <1>5 DEF Edit, EditSet
  <2>3. edits' \in Seq(EditSet)
    BY <2>1, <2>2, OneIsSeq
  <2>4. pc' \in {"stat", "edit"} /\ (pc' = "edit" => target' \in Place) /\ exit' \in {0, 1, 3}
    BY <2>1, TypeParts DEF Aim, Goto
  <2> QED BY <1>1, <2>3, <2>4, BeginTyped
<1> QED BY <1>4, <1>5

\* What config patch is given to write.
LEMMA BeginPatchTyped == ASSUME TypeOK, BeginPatch PROVE TypeOK'
<1>1. Begin("patch") /\ UNCHANGED << artifact, verdicts >>
  BY DEF BeginPatch
<1>2. PICK fragment \in Fragment \cup {artifact.lines} :
         IF ~WellFormed(fragment)
         THEN Answer("E_CONFIG_WRITE_FAILED", 1) /\ edits' = << >> /\ target' = "none"
         ELSE IF collectPatchEdits(fragment) = << >>
         THEN Answer("E_CONFIG_PATCH_DELETE_UNSUPPORTED", 1) /\ edits' = << >> /\ target' = "none"
         ELSE edits' = collectPatchEdits(fragment) /\ Aim
  BY DEF BeginPatch
<1>3. fragment \in Seq(LineSet)
  <2>1. IsText(artifact) /\ Fragment \subseteq Seq(LineSet)
    BY TypeParts, SetupAssumption
  <2> QED BY <1>2, <2>1 DEF IsText
<1>4. collectPatchEdits(fragment) \in Seq(EditSet)
  BY <1>3, CollectTyped
<1>5. CASE pc' = "idle" /\ exit' = 1 /\ edits' = << >>
  BY <1>1, <1>5, BeginTyped, EmptySeq
<1>6. CASE edits' = collectPatchEdits(fragment) /\ Aim
  <2>1. pc' \in {"stat", "edit"} /\ (pc' = "edit" => target' \in Place) /\ exit' \in {0, 1, 3}
    BY <1>6, TypeParts DEF Aim, Goto
  <2> QED BY <1>1, <1>4, <1>6, <2>1, BeginTyped
<1> QED BY <1>2, <1>5, <1>6 DEF Answer

\* Reading and writing.
LEMMA FileStepTyped == ASSUME TypeOK, Stat \/ Read \/ Mutate \/ Write PROVE TypeOK'
<1>1. CASE Stat
  <2>1. /\ UNCHANGED << session, drifts, edits, files, verdicts, servers, artifact, base, draft, found >>
        /\ \/ pc' = "idle" /\ exit' = 3 /\ at' = at
           \/ pc' = "stat" /\ exit' = exit /\ at' = at + 1
           \/ pc' = "read" /\ exit' = exit /\ at' = at /\ target' \in Place
    BY <1>1 DEF Stat, Answer, Goto
  <2>2. at' \in Nat \ {0}
    BY <2>1, TypeParts
  <2> QED BY <2>1, <2>2, StepTyped, FilesStay, TypeParts
<1>2. CASE Read
  <2> DEFINE text == files[target]
             error == LoadError(text.lines, env)
  <2>1. /\ UNCHANGED << session, drifts, edits, files, servers, artifact, target, at, draft, found >>
        /\ pc = "read" /\ target \in Place
    BY <1>2, TypeParts DEF Read
  <2>2. ASSUME NEW verdict \in {"accepted", "passed", "failed", "E_CONFIG_INVALID", "E_INVALID_ARG"},
               Say(verdict)
        PROVE  verdicts' \in [Place -> VerdictSet]
    <3>1. verdicts \in [Place -> VerdictSet]
      BY TypeParts
    <3>2. verdicts' = [verdicts EXCEPT ![target] = @ \cup {verdict}]
      BY <2>2 DEF Say
    <3>3. verdicts[target] \cup {verdict} \in VerdictSet
      BY <2>1, <3>1 DEF VerdictSet
    <3> QED BY <3>1, <3>2, <3>3
  <2>3. /\ pc' \in {"idle", "edit"} /\ exit' \in {0, 1, 3}
        /\ base' = base \/ (base' = text /\ text # NoFile)
        /\ \/ UNCHANGED verdicts
           \/ \E verdict \in {"accepted", "passed", "failed", "E_CONFIG_INVALID", "E_INVALID_ARG"} :
                Say(verdict)
    <3>1. CASE text = NoFile
      <4>1. pc' = "idle" /\ exit' = 3 /\ base' = base /\ UNCHANGED verdicts
        BY <1>2, <3>1 DEF Read, Answer
      <4> QED BY <4>1
    <3>2. CASE text # NoFile /\ error # ""
      <4>1. Say(error) /\ UNCHANGED base /\ pc' = "idle" /\ exit' \in {1, 3}
        BY <1>2, <3>2 DEF Read, Answer
      <4>2. error \in {"E_CONFIG_INVALID", "E_INVALID_ARG"}
        BY <3>2 DEF LoadError
      <4> HIDE DEF error
      <4>3. pc' \in {"idle", "edit"} /\ exit' \in {0, 1, 3} /\ base' = base
        BY <4>1
      <4> QED BY <4>1, <4>2, <4>3
    <3>3. CASE text # NoFile /\ error = ""
      <4> HIDE DEF error
      <4>1. /\ base' = text
            /\ \/ verb \in {"set", "patch"} /\ Goto("edit") /\ UNCHANGED verdicts
               \/ verb = "show" /\ Answer("ok", 0) /\ UNCHANGED verdicts
               \/ /\ verb \in {"validate", "strict"}
                  /\ \E passed \in Verdicts(text.lines, env, verb = "strict") :
                       IF passed THEN Answer("ok", 0) /\ Say("passed")
                       ELSE /\ Answer("E_CONFIG_VALIDATION_FAILED", 1)
                            /\ IF verb = "validate" THEN Say("failed") ELSE UNCHANGED verdicts
               \/ /\ verb = "use" /\ UNCHANGED verdicts
                  /\ IF BackendErrors(loaded', env) = {} THEN Answer("ok", 0)
                     ELSE \E e \in BackendErrors(loaded', env) : Answer(e, 3)
        BY <1>2, <3>3 DEF Read, error
      <4>2. exit \in {0, 1, 3}
        BY TypeParts
      <4> HIDE DEF text
      <4>3. CASE verb \in {"set", "patch"} /\ Goto("edit") /\ UNCHANGED verdicts
        BY <3>3, <4>1, <4>2, <4>3 DEF Goto
      <4>4. CASE verb = "show" /\ Answer("ok", 0) /\ UNCHANGED verdicts
        BY <3>3, <4>1, <4>4 DEF Answer
      <4>5. CASE \E passed \in Verdicts(text.lines, env, verb = "strict") :
                    IF passed THEN Answer("ok", 0) /\ Say("passed")
                    ELSE /\ Answer("E_CONFIG_VALIDATION_FAILED", 1)
                         /\ IF verb = "validate" THEN Say("failed") ELSE UNCHANGED verdicts
        BY <3>3, <4>1, <4>5 DEF Answer
      <4>6. CASE /\ UNCHANGED verdicts
                 /\ IF BackendErrors(loaded', env) = {} THEN Answer("ok", 0)
                    ELSE \E e \in BackendErrors(loaded', env) : Answer(e, 3)
        BY <3>3, <4>1, <4>6 DEF Answer
      <4> QED BY <4>1, <4>3, <4>4, <4>5, <4>6
    <3> QED BY <3>1, <3>2, <3>3
  <2> HIDE DEF error
  <2>4. IsText(base')
    BY <2>1, <2>3, TypeParts DEF FilesTyped
  <2>5. verdicts' \in [Place -> VerdictSet]
    BY <2>2, <2>3, TypeParts
  <2> QED BY <2>1, <2>3, <2>4, <2>5, StepTyped, FilesStay, TypeParts
<1>3. CASE Mutate
  <2> DEFINE text == files[target]
             edited == ApplyEdits(text, edits)
  <2>1. /\ UNCHANGED << session, drifts, edits, files, verdicts, servers, artifact, target, at, found >>
        /\ target \in Place
    BY <1>3, TypeParts DEF Mutate
  <2>2. CASE text = NoFile
    <3>1. pc' = "idle" /\ exit' = 3 /\ UNCHANGED << base, draft >>
      BY <1>3, <2>2 DEF Mutate, Answer
    <3> QED BY <2>1, <3>1, StepTyped, FilesStay, TypeParts
  <2>3. CASE text # NoFile
    <3>1. IsText(text) /\ IsText(edited)
      BY <2>1, <2>3, TypeParts, ApplyTyped DEF FilesTyped
    <3>2. /\ base' = text
          /\ \E passed \in Judgements(edited.lines) :
               IF passed THEN draft' = edited /\ Goto("write")
               ELSE Answer("E_CONFIG_WRITE_FAILED", 3) /\ UNCHANGED draft
      BY <1>3, <2>3 DEF Mutate
    <3> HIDE DEF text, edited
    <3>3. /\ pc' \in {"idle", "write"} /\ exit' \in {exit, 3} /\ draft' \in {draft, edited}
      BY <3>2 DEF Goto, Answer
    <3> QED BY <2>1, <3>1, <3>2, <3>3, StepTyped, FilesStay, TypeParts
  <2> QED BY <2>2, <2>3
<1>4. CASE Write
  <2>1. /\ UNCHANGED << session, drifts, edits, servers, artifact, target, at, base, draft, found >>
        /\ pc = "write" /\ target \in Place /\ pc' = "idle" /\ exit' \in {0, 3}
    BY <1>4, TypeParts DEF Write, Answer, job
  <2>2. FilesTyped' /\ verdicts' \in [Place -> VerdictSet]
    <3>1. CASE UNCHANGED << files, verdicts >>
      BY <3>1, FilesStay, TypeParts
    <3>2. CASE /\ files' = [files EXCEPT ![target] = Written]
               /\ verdicts' = [verdicts EXCEPT ![target] = {"accepted"}]
      <4>1. IsText(Written)
        BY ScaffoldTyped, TypeParts DEF Written
      <4>2. FilesTyped'
        BY <2>1, <3>2, <4>1, TypeParts DEF FilesTyped
      <4>3. verdicts' \in [Place -> VerdictSet]
        <5>1. {"accepted"} \in VerdictSet /\ verdicts \in [Place -> VerdictSet]
          BY TypeParts DEF VerdictSet
        <5> QED BY <3>2, <5>1
      <4> QED BY <4>2, <4>3
    <3> QED BY <1>4, <3>1, <3>2 DEF Write
  <2> QED BY <2>1, <2>2, StepTyped, TypeParts
<1> QED BY <1>1, <1>2, <1>3, <1>4

\* Discovery.
LEMMA DiscoveryTyped == ASSUME TypeOK, ProbeVersion \/ ProbeModels \/ Deliver PROVE TypeOK'
<1>1. /\ target \in KindArgument /\ target \in {""} \cup BackendKind
      /\ at \in Nat \ {0} /\ Len(Ports) \in Nat
      /\ UNCHANGED << session, drifts, edits, files, verdicts, servers, target, base, draft >>
  <2>1. pc \in {"version", "models"}
        /\ UNCHANGED << session, drifts, edits, files, verdicts, servers, target, base, draft >>
    BY DEF ProbeVersion, ProbeModels, Deliver, job
  <2>2. KindArgument \subseteq {""} \cup BackendKind
    BY SetupAssumption
  <2> QED BY <2>1, <2>2, TypeParts, PortsAre DEF Ports
<1>0. at \in Nat /\ 1 <= at /\ Len(Ports) \in Nat /\ at + 1 \in Nat \ {0}
  <2>1. at \in Nat \ {0}
    BY <1>1
  <2>2. at \in Nat /\ 1 <= at /\ at + 1 \in Nat \ {0}
    BY <2>1
  <2> QED BY <1>1, <2>2
<1>2. ASSUME NEW kind \in BackendKind, NEW patch \in {"none", "plain", "default"}, at <= Len(Ports)
      PROVE  Candidate(kind, patch) \in CandidateSet
  <2>1. at \in DOMAIN Ports
    <3>1. DOMAIN Ports = 1 .. Len(Ports)
      BY PortsAre DEF Ports
    <3> QED BY <1>0, <1>2, <3>1
  <2>2. Ports[at] \in DOMAIN URLOf
    BY <1>1, <2>1, SetupAssumption DEF Ports
  <2> QED BY <2>2 DEF Candidate, CandidateSet
<1>3. /\ found \in Seq(CandidateSet) /\ FilesTyped' /\ verdicts' \in [Place -> VerdictSet]
      /\ DOMAIN servers' = DOMAIN URLOf /\ IsText(base') /\ IsText(draft') /\ exit \in {0, 1, 3}
      /\ IsText(artifact)
  BY <1>1, FilesStay, TypeParts
<1>4. CASE ProbeVersion
  <2>1. /\ at <= Len(Ports) /\ UNCHANGED artifact /\ exit' = exit
        /\ found' = found \/ found' = Append(found, Candidate("ollama", PatchFor("ollama")))
        /\ \/ at' = at + 1 /\ pc' = "version"
           \/ at' = at /\ pc' = "models"
    BY <1>4 DEF ProbeVersion, NextPort, Goto
  <2>2. found' \in Seq(CandidateSet)
    <3>1. Candidate("ollama", PatchFor("ollama")) \in CandidateSet
      BY <1>2, <2>1 DEF BackendKind, PatchFor
    <3> QED BY <1>3, <2>1, <3>1, AppendProperties
  <2>3. at' \in Nat \ {0} /\ (pc' = "models" => at' <= Len(PortsOf(target')))
    <3>1. at' \in Nat \ {0} /\ target' = target
      BY <1>0, <1>1, <2>1
    <3>2. pc' = "models" => at' = at
      BY <2>1
    <3> QED BY <2>1, <3>1, <3>2 DEF Ports
  <2> QED BY <1>1, <1>3, <2>1, <2>2, <2>3, StepTyped
<1>5. CASE ProbeModels
  <2> DEFINE answer == servers[Ports[at]].models
             more == IF target # "" THEN << Candidate(target, PatchFor(target)) >>
                     ELSE [i \in 1 .. 4 |-> Candidate(Ambiguous[i], "none")]
  <2>1. /\ pc = "models" /\ UNCHANGED artifact
        /\ \/ pc' = "idle" /\ exit' = 3 /\ UNCHANGED << found, at >>
           \/ UNCHANGED found /\ NextPort
           \/ found' = found \o more /\ NextPort
    BY <1>5 DEF ProbeModels, Answer
  <2>2. at <= Len(Ports)
    BY <2>1, TypeParts DEF Ports
  <2>3. more \in Seq(CandidateSet)
    <3>1. CASE target # ""
      <4>1. Candidate(target, PatchFor(target)) \in CandidateSet
        BY <1>1, <1>2, <2>2, <3>1 DEF PatchFor
      <4> QED BY <3>1, <4>1, OneIsSeq
    <3>2. CASE target = ""
      <4>1. \A i \in 1 .. 4 : Ambiguous[i] \in BackendKind
        BY DEF Ambiguous, BackendKind
      <4>2. \A i \in 1 .. 4 : Candidate(Ambiguous[i], "none") \in CandidateSet
        BY <1>2, <2>2, <4>1
      <4>3. more \in [1 .. 4 -> CandidateSet]
        BY <3>2, <4>2
      <4> HIDE DEF more
      <4>4. PICK n \in Nat : n = 4
        OBVIOUS
      <4>5. more \in [1 .. n -> CandidateSet]
        BY <4>3, <4>4
      <4> QED BY <4>5, IsASeq
    <3> QED BY <3>1, <3>2
  <2> HIDE DEF more
  <2>4. found' \in Seq(CandidateSet)
    BY <1>3, <2>1, <2>3, ConcatProperties
  <2>5. /\ at' \in Nat \ {0} /\ pc' \in {"idle", "version"} /\ exit' \in {0, 1, 3}
    <3>1. at' \in {at, at + 1} /\ pc' \in {"idle", "version"} /\ exit' \in {exit, 3}
      BY <2>1 DEF NextPort, Goto
    <3> QED BY <1>0, <1>1, <1>3, <3>1
  <2> QED BY <1>1, <1>3, <2>1, <2>4, <2>5, StepTyped
<1>6. CASE Deliver
  <2>1. /\ pc' = "idle" /\ exit' \in {0, 3} /\ UNCHANGED << at, found >>
        /\ artifact' = artifact \/ artifact' = Text(PatchText)
    BY <1>6 DEF Deliver, Answer, job
  <2>2. IsText(Text(PatchText))
    BY <1>3, PatchTextTyped DEF IsText, Text
  <2>3. IsText(artifact')
    BY <1>3, <2>1, <2>2
  <2> QED BY <1>1, <1>3, <2>1, <2>3, StepTyped
<1> QED BY <1>4, <1>5, <1>6

\* Changes from outside.
LEMMA DriftTyped ==
    ASSUME TypeOK, (\E p \in Place : HandEdit(p)) \/ \E port \in DOMAIN servers : ServerDrift(port)
    PROVE  TypeOK'
<1>1. /\ drifts < MaxDrifts /\ drifts' = drifts + 1
      /\ UNCHANGED << artifact, session, pc, at, target, edits, base, draft, found, exit >>
  BY DEF HandEdit, ServerDrift, job
<1>2. drifts' \in 0 .. MaxDrifts
  <2>1. MaxDrifts \in Nat
    BY SetupAssumption
  <2>2. drifts \in 0 .. MaxDrifts
    BY TypeParts
  <2> QED BY <1>1, <2>1, <2>2
<1>3. DOMAIN servers' = DOMAIN URLOf /\ FilesTyped' /\ verdicts' \in [Place -> VerdictSet]
  <2>1. CASE \E p \in Place : HandEdit(p)
    <3>1. PICK p \in Place : HandEdit(p)
      BY <2>1
    <3>2. PICK t \in HandWritten \cup {NoFile} : files' = [files EXCEPT ![p] = t]
      BY <3>1 DEF HandEdit
    <3>3. t = NoFile \/ IsText(t)
      BY SetupAssumption
    <3>4. FilesTyped'
      BY <3>2, <3>3, TypeParts DEF FilesTyped
    <3>5. verdicts' \in [Place -> VerdictSet]
      <4>1. verdicts' = [verdicts EXCEPT ![p] = {}] /\ {} \in VerdictSet
        BY <3>1 DEF HandEdit, VerdictSet
      <4> QED BY <4>1, TypeParts
    <3>6. servers' = servers
      BY <3>1 DEF HandEdit
    <3> QED BY <3>4, <3>5, <3>6, TypeParts
  <2>2. CASE \E port \in DOMAIN servers : ServerDrift(port)
    <3>1. UNCHANGED << files, verdicts >> /\ DOMAIN servers' = DOMAIN servers
      BY <2>2 DEF ServerDrift
    <3> QED BY <3>1, FilesStay, TypeParts
  <2> QED BY <2>1, <2>2
<1>4. /\ env' \in Environment /\ script' \in Scripts /\ commands' \in 0 .. Len(script')
      /\ IsText(artifact') /\ IsText(base') /\ IsText(draft')
      /\ pc' \in {"idle", "stat", "read", "edit", "write", "version", "models"}
      /\ at' \in Nat \ {0} /\ (pc' = "models" => at' <= Len(PortsOf(target')))
      /\ pc' \in {"read", "edit", "write"} => target' \in Place
      /\ pc' \in {"version", "models"} => target' \in KindArgument
      /\ edits' \in Seq(EditSet) /\ found' \in Seq(CandidateSet) /\ exit' \in {0, 1, 3}
  BY <1>1, TypeParts DEF session
<1> QED BY <1>2, <1>3, <1>4 DEF TypeOK, FilesTyped, VerdictSet, EditSet, CandidateSet

\* Every step keeps the types.
LEMMA TypeStep == ASSUME TypeOK, [Next]_vars PROVE TypeOK'
<1>1. CASE BeginRead \/ BeginInit \/ BeginDiscover
  <2>1. /\ \E v : Begin(v)
        /\ UNCHANGED << artifact, verdicts >> /\ edits' = << >> /\ exit' \in {exit, 3}
        /\ pc' \in {"idle", "stat", "write", "version"}
        /\ pc' = "write" => target' \in Place
        /\ pc' = "version" => target' \in KindArgument
    BY <1>1 DEF BeginRead, BeginInit, BeginDiscover, Goto, Answer
  <2>2. edits' \in Seq(EditSet) /\ exit' \in {0, 1, 3}
    BY <2>1, TypeParts, EmptySeq
  <2> QED BY <2>1, <2>2, BeginTyped
<1>2. CASE UNCHANGED vars
  <2>1. /\ FilesTyped' /\ verdicts' \in [Place -> VerdictSet]
        /\ UNCHANGED << session, drifts, edits, servers, artifact, target, base, draft, found, pc, at, exit >>
    BY <1>2, FilesStay, TypeParts DEF vars, job
  <2> QED BY <2>1, StepTyped, TypeParts
<1> QED BY <1>1, <1>2, BeginSetTyped, BeginPatchTyped, FileStepTyped, DiscoveryTyped, DriftTyped
        DEF Next, Command

\* So it begins.
LEMMA TypeFirst == ASSUME Init PROVE TypeOK
<1>1. FilesTyped
  BY SetupAssumption DEF Init, FilesTyped
<1>2. verdicts \in [Place -> VerdictSet] /\ DOMAIN servers = DOMAIN URLOf
  BY SetupAssumption DEF Init, VerdictSet
<1>3. IsText(artifact) /\ IsText(base) /\ IsText(draft)
  BY NoTextTyped DEF Init
<1>4. edits \in Seq(EditSet) /\ found \in Seq(CandidateSet)
  BY EmptySeq DEF Init
<1>5. commands \in 0 .. Len(script) /\ drifts \in 0 .. MaxDrifts
  <2>1. commands = 0 /\ drifts = 0 /\ script \in Scripts
    BY DEF Init
  <2>2. MaxDrifts \in Nat /\ Len(script) \in Nat
    BY <2>1, SetupAssumption, LenProperties
  <2> QED BY <2>1, <2>2
<1>6. env \in Environment /\ script \in Scripts /\ pc = "idle" /\ at = 1 /\ exit = 0
  BY DEF Init
<1>7. at \in Nat \ {0}
  BY <1>6
<1> QED BY <1>1, <1>2, <1>3, <1>4, <1>5, <1>6, <1>7, TypeParts

\* Every text is a text: whatever is edited, and whatever a fragment or the patch
\* that discover delivers says, what is read and written is made of lines, edits name
\* keys and give them values, and only ports that are asked are found
\* (applyConfigEdit, collectPatchEdits, configPatchForCandidate).
THEOREM SetupTyped == Spec => []TypeOK
<1>1. ASSUME Init PROVE TypeOK
  BY <1>1, TypeFirst
<1>2. ASSUME TypeOK, [Next]_vars PROVE TypeOK'
  BY <1>2, TypeStep
<1> QED BY <1>1, <1>2, PTL DEF Spec

-----------------------------------------------------------------------------
(* What one edit comes to *)

\* The key k has the value v.
Bound(lines, k, v) == \E i \in Kind(lines, "key") : PathAt(lines, i) = k /\ lines[i].value = v

\* An edit of a key that is there, of one that is not, and of one that is lost.
Changes(t, e, u) ==
    /\ EditedKey(e) \in Keys(t.lines) /\ Keys(u.lines) = Keys(t.lines)
    /\ \E w \in Outcomes(e.value) : \A k, v :
          Bound(u.lines, k, v) <=> IF k = EditedKey(e) THEN v = w ELSE Bound(t.lines, k, v)

Adds(t, e, u) ==
    /\ EditedKey(e) \notin Keys(t.lines) /\ Keys(u.lines) = Keys(t.lines) \cup {EditedKey(e)}
    /\ \A k, v : Bound(u.lines, k, v) <=>
                    IF k = EditedKey(e) THEN v = e.value ELSE Bound(t.lines, k, v)

Loses(t, e, u) ==
    /\ EditedKey(e) \notin Keys(t.lines) /\ Keys(u.lines) = Keys(t.lines)
    /\ ~t.closed /\ u.closed = TRUE
    /\ TableAt(t.lines, Len(t.lines)) = Front(EditedKey(e))

\* The key of the last line.
EndKey(t) == PathAt(t.lines, Len(t.lines))

\* It is lost in a comment or in the value of the last line.
InComment(t, e, u) == Loses(t, e, u) /\ u.lines = t.lines /\ Last(t.lines).comment

InValue(t, e, u) ==
    /\ Loses(t, e, u) /\ Last(t.lines).kind = "key" /\ EndKey(t) \in Keys(t.lines)
    /\ \A k, v : Bound(u.lines, k, v) <=> IF k = EndKey(t) THEN v = Junk ELSE Bound(t.lines, k, v)

\* Lines that stay where they are are carried.
LEMMA InPlace ==
    ASSUME NEW a \in Seq(LineSet), NEW b \in Seq(LineSet), Len(a) <= Len(b),
           \A i \in 1 .. Len(a) :
              /\ a[i].kind # "blank" => b[i].kind = a[i].kind /\ b[i].path = a[i].path
              /\ b[i].kind = "header" => a[i].kind = "header"
    PROVE  Carries([i \in 1 .. Len(a) |-> i], a, b)
<1> DEFINE m == [i \in 1 .. Len(a) |-> i]
<1>1. Len(a) \in Nat /\ Len(b) \in Nat
  BY LenProperties
<1>2. m \in [1 .. Len(a) -> 1 .. Len(b)] /\ \A i \in 1 .. Len(a) : m[i] = i
  BY <1>1
<1> HIDE DEF m
<1>3. ASSUME NEW i \in 1 .. Len(a), NEW g \in Kind(b, "header"), g <= m[i]
      PROVE  \E j \in 1 .. Len(a) : m[j] = g
  <2>1. g \in 1 .. Len(b) /\ g <= i
    BY <1>2, <1>3, KindIs
  <2>2. g \in 1 .. Len(a)
    BY <1>1, <2>1
  <2> QED BY <1>2, <2>2
<1>4. \A i, j \in 1 .. Len(a) : i < j => m[i] < m[j]
  BY <1>2
<1>5. Carries(m, a, b)
  BY <1>2, <1>3, <1>4 DEF Carries
<1> QED BY <1>5 DEF m

\* From r on, lines are one further down.
Shifts(m, r, n) == m = [i \in 1 .. n |-> IF i < r THEN i ELSE i + 1]

\* Lines make room for a key.
LEMMA MadeRoom ==
    ASSUME NEW a \in Seq(LineSet), NEW b \in Seq(LineSet), NEW r \in 1 .. Len(a) + 1,
           Len(b) = Len(a) + 1, b[r].kind = "key",
           \A j \in 1 .. r - 1 : b[j] = a[j],
           \A j \in r .. Len(a) : b[j + 1] = a[j],
           NEW m, Shifts(m, r, Len(a))
    PROVE  /\ Carries(m, a, b)
           /\ \A i \in 1 .. Len(a) : m[i] # r /\ b[m[i]] = a[i]
           /\ \A j \in 1 .. Len(b) : j = r \/ \E i \in 1 .. Len(a) : m[i] = j
<1>1. Len(a) \in Nat /\ Len(b) \in Nat /\ r \in Nat
  BY LenProperties
<1>2. /\ m \in [1 .. Len(a) -> 1 .. Len(b)]
      /\ \A i \in 1 .. Len(a) : m[i] = IF i < r THEN i ELSE i + 1
  BY <1>1 DEF Shifts
<1>3. \A i \in 1 .. Len(a) : m[i] # r /\ b[m[i]] = a[i]
  <2> TAKE i \in 1 .. Len(a)
  <2>1. CASE i < r
    <3>1. i \in 1 .. r - 1 /\ m[i] = i
      BY <1>1, <1>2, <2>1
    <3> QED BY <2>1, <3>1
  <2>2. CASE ~(i < r)
    <3>1. i \in r .. Len(a) /\ m[i] = i + 1 /\ i + 1 # r
      BY <1>1, <1>2, <2>2
    <3> QED BY <3>1
  <2> QED BY <2>1, <2>2
<1>4. \A j \in 1 .. Len(b) : j = r \/ \E i \in 1 .. Len(a) : m[i] = j
  <2> TAKE j \in 1 .. Len(b)
  <2>1. CASE j < r
    <3>1. j \in 1 .. Len(a)
      BY <1>1, <2>1
    <3> QED BY <1>2, <2>1, <3>1
  <2>2. CASE j > r
    <3>1. j - 1 \in 1 .. Len(a) /\ ~(j - 1 < r) /\ (j - 1) + 1 = j
      BY <1>1, <2>2
    <3>2. m[j - 1] = j
      BY <1>2, <3>1
    <3> QED BY <3>1, <3>2
  <2> QED BY <1>1, <2>1, <2>2
<1>5. ASSUME NEW g \in Kind(b, "header") PROVE \E j \in 1 .. Len(a) : m[j] = g
  <2>1. g \in 1 .. Len(b) /\ g # r
    <3>1. b[g].kind = "header" /\ g \in 1 .. Len(b)
      BY KindIs
    <3> QED BY <3>1
  <2> QED BY <1>4, <2>1
<1>6. ASSUME NEW i \in 1 .. Len(a), NEW j \in 1 .. Len(a), i < j PROVE m[i] < m[j]
  <2>1. /\ m[i] = (IF i < r THEN i ELSE i + 1) /\ m[j] = (IF j < r THEN j ELSE j + 1)
        /\ i \in Nat /\ j \in Nat
    BY <1>1, <1>2
  <2> QED BY <1>1, <1>6, <2>1
<1> QED BY <1>2, <1>3, <1>4, <1>5, <1>6 DEF Carries

\* Keys are bound, and bound ones are keys.
LEMMA KeysAreBound ==
    ASSUME NEW lines
    PROVE  \A k : k \in Keys(lines) <=> \E v : Bound(lines, k, v)
BY DEF Keys, Bound

\* In a clean text a key has one value.
LEMMA OneValue ==
    ASSUME NEW lines, Clean(lines), NEW k, NEW v, Bound(lines, k, v)
    PROVE  k \in DOMAIN Values(lines) /\ Values(lines)[k] = v
<1> DEFINE path == [i \in Kind(lines, "key") |-> PathAt(lines, i)]
           c == CHOOSE i \in DOMAIN path : path[i] = k
<1>1. PICK i \in Kind(lines, "key") : PathAt(lines, i) = k /\ lines[i].value = v
  BY DEF Bound
<1>2. k \in Keys(lines)
  BY <1>1 DEF Keys
<1>3. k \in DOMAIN Values(lines) /\ Values(lines)[k] = lines[c].value
  BY <1>2 DEF Values
<1>4. \E j \in DOMAIN path : path[j] = k
  BY <1>1
<1>5. c \in DOMAIN path /\ path[c] = k
  BY <1>4
<1>6. c \in Kind(lines, "key") /\ PathAt(lines, c) = k
  BY <1>5
<1> HIDE DEF c
<1>7. c = i
  BY <1>1, <1>6 DEF Clean
<1> QED BY <1>1, <1>3, <1>7

\* What a new key does.
LEMMA KeyIsNew ==
    ASSUME NEW a \in Seq(LineSet), NEW b \in Seq(LineSet), NEW m, Carries(m, a, b), Clean(b),
           NEW x \in Kind(b, "key"),
           \A i \in 1 .. Len(a) : a[i].kind = "key" => m[i] # x /\ b[m[i]].value = a[i].value,
           \A j \in Kind(b, "key") : j = x \/ \E i \in Kind(a, "key") : m[i] = j
    PROVE  /\ PathAt(b, x) \notin Keys(a) /\ Keys(b) = Keys(a) \cup {PathAt(b, x)}
           /\ \A k, v : Bound(b, k, v) <=>
                           IF k = PathAt(b, x) THEN v = b[x].value ELSE Bound(a, k, v)
<1>1. ASSUME NEW i \in Kind(a, "key")
      PROVE  /\ m[i] \in Kind(b, "key") /\ m[i] # x /\ PathAt(b, m[i]) = PathAt(a, i)
             /\ b[m[i]].value = a[i].value
  <2>1. i \in 1 .. Len(a) /\ a[i].kind = "key"
    BY KindIs
  <2>2. a[i].kind # "blank"
    BY <2>1
  <2>3. m[i] \in 1 .. Len(b) /\ b[m[i]].kind = "key"
    BY <2>1, <2>2 DEF Carries
  <2>4. m[i] \in Kind(b, "key")
    BY <2>3, KindIs
  <2>5. PathAt(b, m[i]) = PathAt(a, i)
    BY <2>1, <2>2, CarriedPaths
  <2> QED BY <2>1, <2>4, <2>5
<1>2. \A i \in Kind(a, "key") : PathAt(a, i) # PathAt(b, x)
  <2> TAKE i \in Kind(a, "key")
  <2>1. \A j, l \in Kind(b, "key") : PathAt(b, j) = PathAt(b, l) => j = l
    BY DEF Clean
  <2> QED BY <1>1, <2>1
<1>3. PathAt(b, x) \notin Keys(a)
  BY <1>2 DEF Keys
<1>4. Keys(b) = Keys(a) \cup {PathAt(b, x)}
  <2>1. \A k \in Keys(b) : k \in Keys(a) \cup {PathAt(b, x)}
    <3> TAKE k \in Keys(b)
    <3>1. PICK j \in Kind(b, "key") : PathAt(b, j) = k
      BY DEF Keys
    <3> QED BY <1>1, <3>1 DEF Keys
  <2>2. \A k \in Keys(a) : k \in Keys(b)
    <3> TAKE k \in Keys(a)
    <3>1. PICK i \in Kind(a, "key") : PathAt(a, i) = k
      BY DEF Keys
    <3> QED BY <1>1, <3>1 DEF Keys
  <2>3. PathAt(b, x) \in Keys(b)
    BY DEF Keys
  <2> QED BY <2>1, <2>2, <2>3
<1>5. ASSUME NEW k, NEW v, k # PathAt(b, x) PROVE Bound(b, k, v) <=> Bound(a, k, v)
  <2>1. ASSUME Bound(b, k, v) PROVE Bound(a, k, v)
    <3>1. PICK j \in Kind(b, "key") : PathAt(b, j) = k /\ b[j].value = v
      BY <2>1 DEF Bound
    <3>2. PICK i \in Kind(a, "key") : m[i] = j
      BY <1>5, <3>1
    <3>3. PathAt(a, i) = k /\ a[i].value = v
      BY <1>1, <3>1, <3>2
    <3> QED BY <3>3 DEF Bound
  <2>2. ASSUME Bound(a, k, v) PROVE Bound(b, k, v)
    <3>1. PICK i \in Kind(a, "key") : PathAt(a, i) = k /\ a[i].value = v
      BY <2>2 DEF Bound
    <3>2. m[i] \in Kind(b, "key") /\ PathAt(b, m[i]) = k /\ b[m[i]].value = v
      BY <1>1, <3>1
    <3> QED BY <3>2 DEF Bound
  <2> QED BY <2>1, <2>2
<1>6. ASSUME NEW v PROVE Bound(b, PathAt(b, x), v) <=> v = b[x].value
  <2>1. \A j \in Kind(b, "key") : PathAt(b, j) = PathAt(b, x) => j = x
    BY DEF Clean
  <2> QED BY <2>1 DEF Bound
<1> QED BY <1>3, <1>4, <1>5, <1>6

\* A text that is still without its newline was so before, and ends in the same table
\* and in the same key, a comment or not.
SameEnd(t, u) ==
    /\ Last(u.lines).comment = Last(t.lines).comment /\ Last(u.lines).kind = Last(t.lines).kind
    /\ TableAt(u.lines, Len(u.lines)) = TableAt(t.lines, Len(t.lines)) /\ EndKey(u) = EndKey(t)

StaysOpen(t, u) == u.closed = FALSE => t.closed = FALSE /\ SameEnd(t, u)

\* The key that is replaced has the new value.
LEMMA ReplacingChanges ==
    ASSUME NEW t, IsText(t), NEW e \in EditSet, NEW u, IsText(u), Replaces(t, e, u), Clean(u.lines)
    PROVE  Changes(t, e, u) /\ StaysOpen(t, u) /\ Clean(t.lines)
<1> DEFINE a == t.lines
           b == u.lines
           key == EditedKey(e)
<1>0. a \in Seq(LineSet) /\ b \in Seq(LineSet) /\ Len(a) \in Nat
  BY LenProperties DEF IsText
<1>1. PICK i \in Kind(a, "key"), w \in Value \cap Outcomes(e.value) :
        /\ TableAt(a, i) = TableOf(e.path) /\ a[i].path = << Last(e.path) >>
        /\ b = [a EXCEPT ![i] = [@ EXCEPT !.value = w]]
        /\ u.closed = t.closed
  BY DEF Replaces
<1>2. i \in 1 .. Len(a) /\ a[i].kind = "key" /\ w \in Value
  BY <1>0, KindIs
<1>3. PathAt(a, i) = key
  BY <1>1, EditParts DEF PathAt
<1> HIDE DEF a, b, key
<1>4. /\ Len(b) = Len(a)
      /\ \A j \in 1 .. Len(a) : j # i => b[j] = a[j]
      /\ b[i].kind = a[i].kind /\ b[i].path = a[i].path /\ b[i].value = w
      /\ b[i].comment = a[i].comment
  BY <1>0, <1>1, <1>2, ReplacedIs
<1>5. \A j \in 1 .. Len(a) : b[j].kind = a[j].kind /\ b[j].path = a[j].path /\ b[j].comment = a[j].comment
  BY <1>4
<1> DEFINE m == [j \in 1 .. Len(a) |-> j]
<1>6. Carries(m, a, b)
  BY <1>0, <1>4, <1>5, InPlace
<1>7. \A j \in 1 .. Len(a) : m[j] = j
  OBVIOUS
<1> HIDE DEF m
<1>8. \A j \in 1 .. Len(a) : TableAt(b, j) = TableAt(a, j)
  BY <1>0, <1>6, <1>7, CarriedPaths
<1>9. \A j \in 1 .. Len(a) : PathAt(b, j) = PathAt(a, j)
  BY <1>5, <1>8 DEF PathAt
<1>10. Kind(b, "key") = Kind(a, "key") /\ Kind(a, "key") \subseteq 1 .. Len(a)
  <2>1. DOMAIN a = DOMAIN b /\ DOMAIN a = 1 .. Len(a)
    BY <1>0, <1>4, LenProperties
  <2> QED BY <1>5, <2>1 DEF Kind
<1>11. Keys(b) = Keys(a)
  BY <1>9, <1>10 DEF Keys
<1>12. key \in Keys(a)
  BY <1>1, <1>3 DEF Keys
<1>13. \A j \in Kind(a, "key") : PathAt(a, j) = key => j = i
  <2> TAKE j \in Kind(a, "key")
  <2>1. PathAt(b, j) = PathAt(a, j) /\ PathAt(b, i) = key /\ j \in Kind(b, "key") /\ i \in Kind(b, "key")
    BY <1>1, <1>3, <1>9, <1>10
  <2> QED BY <2>1 DEF Clean, b
<1>14. ASSUME NEW k, NEW v
       PROVE  Bound(b, k, v) <=> IF k = key THEN v = w ELSE Bound(a, k, v)
  <2>1. CASE k = key
    BY <1>1, <1>3, <1>4, <1>9, <1>10, <1>13, <2>1 DEF Bound
  <2>2. CASE k # key
    <3>1. \A j \in Kind(a, "key") : PathAt(a, j) = k => b[j].value = a[j].value
      BY <1>3, <1>4, <1>10, <2>2
    <3> QED BY <1>9, <1>10, <2>2, <3>1 DEF Bound
  <2> QED BY <2>1, <2>2
<1>15. Changes(t, e, u)
  <2>1. w \in Outcomes(e.value)
    BY <1>1
  <2> QED BY <1>11, <1>12, <1>14, <2>1 DEF Changes, a, b, key
<1>16. StaysOpen(t, u)
  <2> SUFFICES ASSUME u.closed = FALSE
               PROVE  /\ t.closed = FALSE
                      /\ Last(b).comment = Last(a).comment /\ Last(b).kind = Last(a).kind
                      /\ TableAt(b, Len(b)) = TableAt(a, Len(a)) /\ PathAt(b, Len(b)) = PathAt(a, Len(a))
    BY DEF StaysOpen, SameEnd, EndKey, a, b
  <2>1. Len(a) \in 1 .. Len(a)
    BY <1>0, <1>2
  <2> QED BY <1>1, <1>4, <1>5, <1>8, <1>9, <2>1 DEF Last
<1>17. Clean(a)
  BY <1>0, <1>6, CarriedClean DEF b
<1> QED BY <1>15, <1>16, <1>17 DEF a

\* The lines of a text and one more, at r; m says where the others are.
Inserted(t, e, u, r, m) ==
    /\ r \in 1 .. Len(t.lines) + 1 /\ Len(u.lines) = Len(t.lines) + 1
    /\ u.lines[r].kind = "key" /\ u.lines[r].value = e.value /\ PathAt(u.lines, r) = EditedKey(e)
    /\ Carries(m, t.lines, u.lines)
    /\ \A i \in 1 .. Len(t.lines) :
          m[i] = (IF i < r THEN i ELSE i + 1) /\ m[i] # r /\ u.lines[m[i]] = t.lines[i]
    /\ \A j \in 1 .. Len(u.lines) : j = r \/ \E i \in 1 .. Len(t.lines) : m[i] = j
    /\ u.closed = t.closed /\ (r = Len(t.lines) + 1 => t.closed)

\* That is what an insertion comes to.
LEMMA InsertedAt ==
    ASSUME NEW t, IsText(t), NEW e \in EditSet, NEW u, IsText(u), Inserts(t, e, u)
    PROVE  \E r, m : Inserted(t, e, u, r, m)
<1> DEFINE a == t.lines
           b == u.lines
           key == EditedKey(e)
           insert == Assign(Last(e.path), e.value)
<1>0. a \in Seq(LineSet) /\ b \in Seq(LineSet) /\ Len(a) \in Nat /\ insert \in LineSet
      /\ t.closed \in BOOLEAN
  BY LenProperties, MadeLines, EditParts DEF IsText
<1>1. PICK r \in 2 .. Len(a) + 1 :
        /\ TableAt(a, r - 1) = TableOf(e.path)
        /\ b = InsertAt(a, r, insert)
        /\ u.closed = t.closed /\ (r = Len(a) + 1 => t.closed)
  BY DEF Inserts
<1>2. insert.kind = "key" /\ insert.path = << Last(e.path) >> /\ insert.value = e.value
  BY LineIs
<1> HIDE DEF a, b, insert
<1>4. /\ r \in 1 .. Len(a) + 1 /\ Len(b) = Len(a) + 1 /\ b[r] = insert
      /\ \A j \in 1 .. r - 1 : b[j] = a[j]
      /\ \A j \in r .. Len(a) : b[j + 1] = a[j]
  <2>1. r \in 1 .. Len(a) + 1
    BY <1>0
  <2> DEFINE c == InsertAt(a, r, insert)
  <2>2. /\ Len(c) = Len(a) + 1 /\ c[r] = insert
        /\ \A j \in 1 .. r - 1 : c[j] = a[j]
        /\ \A j \in r .. Len(a) : c[j + 1] = a[j]
    BY <1>0, <2>1, InsertIs
  <2>3. b = c
    BY <1>1
  <2> HIDE DEF c
  <2> QED BY <2>1, <2>2, <2>3
<1> DEFINE m == [i \in 1 .. Len(a) |-> IF i < r THEN i ELSE i + 1]
<1>5. Shifts(m, r, Len(a)) /\ \A i \in 1 .. Len(a) : m[i] = IF i < r THEN i ELSE i + 1
  BY DEF Shifts
<1> HIDE DEF m
<1>6. /\ Carries(m, a, b)
      /\ \A i \in 1 .. Len(a) : m[i] # r /\ b[m[i]] = a[i]
      /\ \A j \in 1 .. Len(b) : j = r \/ \E i \in 1 .. Len(a) : m[i] = j
  <2>1. r \in 1 .. Len(a) + 1
    BY <1>4
  <2>2. Len(b) = Len(a) + 1 /\ b[r].kind = "key"
    BY <1>2, <1>4
  <2>3. /\ \A j \in 1 .. r - 1 : b[j] = a[j]
        /\ \A j \in r .. Len(a) : b[j + 1] = a[j]
    BY <1>4
  <2>4. a \in Seq(LineSet) /\ b \in Seq(LineSet) /\ Shifts(m, r, Len(a))
    BY <1>0, <1>5
  <2> QED BY <2>1, <2>2, <2>3, <2>4, MadeRoom, SMTT(60)
<1>7. r \in Kind(b, "key")
  BY <1>0, <1>2, <1>4, KindIs
<1>9. PathAt(b, r) = key
  <2>1. r - 1 \in 1 .. Len(a) /\ m[r - 1] = r - 1 /\ r - 1 \in Nat /\ r \in Nat
    BY <1>0, <1>5
  <2>2. TableAt(b, r - 1) = TableOf(e.path)
    BY <1>0, <1>1, <1>6, <2>1, CarriedPaths
  <2>3. TableAt(b, r) = TableAt(b, r - 1)
    <3>1. \A g \in Kind(b, "header") : g <= r <=> g <= r - 1
      <4> TAKE g \in Kind(b, "header")
      <4>1. b[g].kind = "header" /\ g \in 1 .. Len(b)
        BY <1>0, KindIs
      <4>2. g # r
        BY <1>2, <1>4, <4>1
      <4> QED BY <2>1, <4>1, <4>2
    <3>2. { h \in Kind(b, "header") : h <= r } = { h \in Kind(b, "header") : h <= r - 1 }
      BY <3>1
    <3> QED BY <3>2 DEF TableAt
  <2>4. PathAt(b, r) = TableOf(e.path) \o << Last(e.path) >>
    BY <1>2, <1>4, <2>2, <2>3 DEF PathAt
  <2> QED BY <2>4, EditParts
<1>10. Inserted(t, e, u, r, m)
  <2>1. /\ r \in 1 .. Len(a) + 1 /\ Len(b) = Len(a) + 1
        /\ b[r].kind = "key" /\ b[r].value = e.value /\ PathAt(b, r) = key
    BY <1>2, <1>4, <1>9
  <2>2. \A i \in 1 .. Len(a) : m[i] = (IF i < r THEN i ELSE i + 1) /\ m[i] # r /\ b[m[i]] = a[i]
    BY <1>5, <1>6
  <2>3. u.closed = t.closed /\ (r = Len(a) + 1 => t.closed)
    BY <1>1
  <2> QED BY <1>6, <2>1, <2>2, <2>3 DEF Inserted, a, b
<1> QED BY <1>10

\* The key that is inserted is new.
LEMMA InsertingAdds ==
    ASSUME NEW t, IsText(t), NEW e \in EditSet, NEW u, IsText(u), Inserts(t, e, u), Clean(u.lines)
    PROVE  Adds(t, e, u) /\ StaysOpen(t, u) /\ Clean(t.lines)
<1> DEFINE a == t.lines
           b == u.lines
           key == EditedKey(e)
<1>0. a \in Seq(LineSet) /\ b \in Seq(LineSet) /\ Len(a) \in Nat /\ t.closed \in BOOLEAN
  BY LenProperties DEF IsText
<1>1. PICK r, m : Inserted(t, e, u, r, m)
  BY InsertedAt
<1>3. Clean(b)
  OBVIOUS
<1>2. /\ r \in 1 .. Len(a) + 1 /\ Len(b) = Len(a) + 1
      /\ b[r].kind = "key" /\ b[r].value = e.value /\ PathAt(b, r) = key
      /\ u.closed = t.closed /\ (r = Len(a) + 1 => t.closed)
  BY <1>1 DEF Inserted
<1>6. /\ Carries(m, a, b)
      /\ \A i \in 1 .. Len(a) :
            m[i] = (IF i < r THEN i ELSE i + 1) /\ m[i] # r /\ b[m[i]] = a[i]
      /\ \A j \in 1 .. Len(b) : j = r \/ \E i \in 1 .. Len(a) : m[i] = j
  BY <1>1 DEF Inserted
<1> HIDE DEF a, b
<1>7. r \in Kind(b, "key")
  BY <1>0, <1>2, KindIs
<1>8. \A j \in Kind(b, "key") : j = r \/ \E i \in Kind(a, "key") : m[i] = j
  <2> TAKE j \in Kind(b, "key")
  <2>1. j \in 1 .. Len(b) /\ b[j].kind = "key"
    BY <1>0, KindIs
  <2>2. ASSUME NEW i \in 1 .. Len(a), m[i] = j PROVE i \in Kind(a, "key")
    BY <1>0, <1>6, <2>1, <2>2, KindIs
  <2> QED BY <1>6, <2>1, <2>2
<1>10. \A i \in 1 .. Len(a) : a[i].kind = "key" => m[i] # r /\ b[m[i]].value = a[i].value
  BY <1>6
<1>11. /\ PathAt(b, r) \notin Keys(a) /\ Keys(b) = Keys(a) \cup {PathAt(b, r)}
       /\ \A k, v : Bound(b, k, v) <=> IF k = PathAt(b, r) THEN v = b[r].value ELSE Bound(a, k, v)
  BY <1>0, <1>3, <1>6, <1>7, <1>8, <1>10, KeyIsNew
<1>12. Adds(t, e, u)
  <2>1. /\ key \notin Keys(a) /\ Keys(b) = Keys(a) \cup {key}
        /\ \A k, v : Bound(b, k, v) <=> IF k = key THEN v = e.value ELSE Bound(a, k, v)
    BY <1>2, <1>11
  <2> QED BY <2>1 DEF Adds, a, b
<1>13. StaysOpen(t, u)
  <2> SUFFICES ASSUME u.closed = FALSE
               PROVE  /\ t.closed = FALSE
                      /\ Last(b).comment = Last(a).comment /\ Last(b).kind = Last(a).kind
                      /\ TableAt(b, Len(b)) = TableAt(a, Len(a)) /\ PathAt(b, Len(b)) = PathAt(a, Len(a))
    BY DEF StaysOpen, SameEnd, EndKey, a, b
  <2>1. t.closed = FALSE /\ r # Len(a) + 1
    BY <1>2
  <2>2. Len(a) \in 1 .. Len(a) /\ Len(a) \in r .. Len(a) /\ m[Len(a)] = Len(b)
    BY <1>0, <1>2, <1>6, <2>1
  <2>3. b[Len(b)] = a[Len(a)]
    BY <1>6, <2>2
  <2>4. TableAt(b, Len(b)) = TableAt(a, Len(a))
    BY <1>0, <1>6, <2>2, CarriedPaths
  <2>5. PathAt(b, Len(b)) = PathAt(a, Len(a))
    BY <2>3, <2>4 DEF PathAt
  <2> QED BY <2>1, <2>3, <2>4, <2>5 DEF Last
<1>14. Clean(a)
  BY <1>0, <1>3, <1>6, CarriedClean
<1> QED BY <1>12, <1>13, <1>14 DEF a

\* The key that is appended with its table is new.
LEMMA AppendingAdds ==
    ASSUME NEW t, IsText(t), NEW e \in EditSet, NEW u, IsText(u), Appends(t, e, u), Clean(u.lines)
    PROVE  Adds(t, e, u) /\ StaysOpen(t, u) /\ Clean(t.lines)
<1> DEFINE a == t.lines
           b == u.lines
           n == Len(a)
           key == EditedKey(e)
           insert == Assign(Last(e.path), e.value)
           head == Header(TableOf(e.path))
<1>0. /\ a \in Seq(LineSet) /\ b \in Seq(LineSet) /\ n \in Nat
      /\ insert \in LineSet /\ head \in LineSet /\ Blank \in LineSet
  BY LenProperties, MadeLines, EditParts DEF IsText
<1>1. b = a \o << Blank, head, insert >> /\ u.closed = TRUE
  BY DEF Appends
<1>2. /\ insert.kind = "key" /\ insert.path = << Last(e.path) >> /\ insert.value = e.value
      /\ head.kind = "header" /\ head.path = TableOf(e.path) /\ Blank.kind = "blank"
  BY LineIs
<1>3. Clean(b)
  OBVIOUS
<1> HIDE DEF a, b, insert, head
<1>4. /\ Len(b) = n + 3 /\ \A i \in 1 .. n : b[i] = a[i]
      /\ b[n + 1] = Blank /\ b[n + 2] = head /\ b[n + 3] = insert
  BY <1>0, <1>1, ThreeAppended
<1> DEFINE m == [i \in 1 .. Len(a) |-> i]
<1>5. \A i \in 1 .. n : m[i] = i
  OBVIOUS
<1>6. Carries(m, a, b)
  <2>1. \A i \in 1 .. Len(a) :
           /\ a[i].kind # "blank" => b[i].kind = a[i].kind /\ b[i].path = a[i].path
           /\ b[i].kind = "header" => a[i].kind = "header"
    BY <1>4
  <2>2. Len(a) <= Len(b)
    BY <1>0, <1>4
  <2> QED BY <1>0, <2>1, <2>2, InPlace
<1> HIDE DEF m, n
<1> DEFINE x == n + 3
<1>7. x \in 1 .. Len(b) /\ n + 2 \in 1 .. Len(b) /\ x \in Nat
  BY <1>0, <1>4
<1>8. x \in Kind(b, "key") /\ n + 2 \in Kind(b, "header")
  BY <1>0, <1>2, <1>4, <1>7, KindIs
<1>9. \A j \in 1 .. Len(b) : j \in 1 .. n \/ j \in {n + 1, n + 2, x}
  BY <1>0, <1>4
<1>10. \A j \in Kind(b, "key") : j = x \/ \E i \in Kind(a, "key") : m[i] = j
  <2> TAKE j \in Kind(b, "key")
  <2>1. j \in 1 .. Len(b) /\ b[j].kind = "key"
    BY <1>0, KindIs
  <2>2. j # n + 1 /\ j # n + 2
    BY <1>2, <1>4, <2>1
  <2>3. j \in 1 .. n => j \in Kind(a, "key") /\ m[j] = j
    BY <1>0, <1>4, <1>5, <2>1, KindIs DEF n
  <2> QED BY <1>9, <2>1, <2>2, <2>3
<1>11. PathAt(b, x) = key
  <2>1. \A g \in Kind(b, "header") : g <= x => g <= n + 2
    <3> TAKE g \in Kind(b, "header")
    <3>1. g \in 1 .. Len(b) /\ b[g].kind = "header"
      BY <1>0, KindIs
    <3>2. g # x
      BY <1>2, <1>4, <3>1
    <3> QED BY <1>0, <3>1, <3>2
  <2>2. n + 2 <= x
    BY <1>0
  <2>3. TableAt(b, x) = b[n + 2].path
    <3> HIDE DEF x
    <3> QED BY <1>0, <1>7, <1>8, <2>1, <2>2, TableAtFrom
  <2>4. PathAt(b, x) = TableOf(e.path) \o << Last(e.path) >>
    BY <1>2, <1>4, <2>3 DEF PathAt
  <2> QED BY <2>4, EditParts
<1>12. \A i \in 1 .. Len(a) : a[i].kind = "key" => m[i] # x /\ b[m[i]].value = a[i].value
  BY <1>0, <1>4, <1>5 DEF n
<1>13. /\ PathAt(b, x) \notin Keys(a) /\ Keys(b) = Keys(a) \cup {PathAt(b, x)}
       /\ \A k, v : Bound(b, k, v) <=> IF k = PathAt(b, x) THEN v = b[x].value ELSE Bound(a, k, v)
  <2> HIDE DEF x
  <2> QED BY <1>0, <1>3, <1>6, <1>8, <1>10, <1>12, KeyIsNew
<1>14. Adds(t, e, u)
  <2>1. /\ key \notin Keys(a) /\ Keys(b) = Keys(a) \cup {key}
        /\ \A k, v : Bound(b, k, v) <=> IF k = key THEN v = e.value ELSE Bound(a, k, v)
    BY <1>2, <1>4, <1>11, <1>13
  <2> QED BY <2>1 DEF Adds, a, b
<1>15. StaysOpen(t, u)
  BY <1>1 DEF StaysOpen
<1>16. Clean(a)
  BY <1>0, <1>3, <1>6, CarriedClean
<1> QED BY <1>14, <1>15, <1>16 DEF a

\* The key that fills the last line is new.
LEMMA FillingAdds ==
    ASSUME NEW t, IsText(t), NEW e \in EditSet, NEW u, IsText(u), Fills(t, e, u), Clean(u.lines)
    PROVE  Adds(t, e, u) /\ StaysOpen(t, u) /\ Clean(t.lines)
<1> DEFINE a == t.lines
           b == u.lines
           n == Len(a)
           key == EditedKey(e)
           insert == Assign(Last(e.path), e.value)
<1>0. /\ a \in Seq(LineSet) /\ b \in Seq(LineSet) /\ n \in Nat /\ insert \in LineSet
      /\ (~t.closed => a # << >>)
  BY LenProperties, MadeLines, EditParts DEF IsText
<1>1. /\ ~t.closed /\ u.closed = TRUE /\ TableAt(a, n) = TableOf(e.path) /\ Last(a).kind = "blank"
      /\ b = [a EXCEPT ![n] = insert]
  BY DEF Fills, AtOpenEnd
<1>2. insert.kind = "key" /\ insert.path = << Last(e.path) >> /\ insert.value = e.value
  BY LineIs
<1>3. Clean(b)
  OBVIOUS
<1>4. n \in 1 .. Len(a) /\ a[n].kind = "blank"
  BY <1>0, <1>1, EmptySeq DEF Last
<1> HIDE DEF a, b, insert, n
<1>5. Len(b) = Len(a) /\ \A j \in 1 .. Len(a) : b[j] = IF j = n THEN insert ELSE a[j]
  BY <1>0, <1>1, <1>4, ExceptSeq
<1> DEFINE m == [i \in 1 .. Len(a) |-> i]
<1>6. \A i \in 1 .. Len(a) : m[i] = i
  OBVIOUS
<1>7. Carries(m, a, b)
  <2>1. \A i \in 1 .. Len(a) :
           /\ a[i].kind # "blank" => b[i].kind = a[i].kind /\ b[i].path = a[i].path
           /\ b[i].kind = "header" => a[i].kind = "header"
    BY <1>2, <1>4, <1>5
  <2>2. Len(a) <= Len(b)
    BY <1>0, <1>5, LenProperties
  <2> QED BY <1>0, <2>1, <2>2, InPlace
<1> HIDE DEF m
<1>8. n \in Kind(b, "key")
  BY <1>0, <1>2, <1>4, <1>5, KindIs
<1>9. \A j \in Kind(b, "key") : j = n \/ \E i \in Kind(a, "key") : m[i] = j
  <2> TAKE j \in Kind(b, "key")
  <2>1. j \in 1 .. Len(a) /\ b[j].kind = "key"
    BY <1>0, <1>5, KindIs
  <2>2. j # n => j \in Kind(a, "key") /\ m[j] = j
    BY <1>0, <1>5, <1>6, <2>1, KindIs
  <2> QED BY <2>2
<1>10. PathAt(b, n) = key
  <2>1. TableAt(b, n) = TableOf(e.path)
    <3>1. TableAt(b, m[n]) = TableAt(a, n) /\ m[n] = n
      BY <1>0, <1>4, <1>6, <1>7, CarriedPaths
    <3> QED BY <1>1, <3>1
  <2>2. PathAt(b, n) = TableOf(e.path) \o << Last(e.path) >>
    BY <1>2, <1>4, <1>5, <2>1 DEF PathAt
  <2> QED BY <2>2, EditParts
<1>11. \A i \in 1 .. Len(a) : a[i].kind = "key" => m[i] # n /\ b[m[i]].value = a[i].value
  BY <1>4, <1>5, <1>6
<1>12. /\ PathAt(b, n) \notin Keys(a) /\ Keys(b) = Keys(a) \cup {PathAt(b, n)}
       /\ \A k, v : Bound(b, k, v) <=> IF k = PathAt(b, n) THEN v = b[n].value ELSE Bound(a, k, v)
  BY <1>0, <1>3, <1>7, <1>8, <1>9, <1>11, KeyIsNew
<1>13. Adds(t, e, u)
  <2>1. /\ key \notin Keys(a) /\ Keys(b) = Keys(a) \cup {key}
        /\ \A k, v : Bound(b, k, v) <=> IF k = key THEN v = e.value ELSE Bound(a, k, v)
    BY <1>2, <1>4, <1>5, <1>10, <1>12
  <2> QED BY <2>1 DEF Adds, a, b
<1>14. StaysOpen(t, u)
  BY <1>1 DEF StaysOpen
<1>15. Clean(a)
  BY <1>0, <1>3, <1>7, CarriedClean
<1> QED BY <1>13, <1>14, <1>15 DEF a

\* The path p, seen from a table, is a name in another.
Ends(s, p, table, x) == s \o p = table \o << x >>

\* Paths that end alike begin alike.
LEMMA EndsAlike ==
    ASSUME NEW S, NEW s \in Seq(S), NEW p \in Seq(S), p # << >>,
           NEW table \in Seq(S), NEW x \in S, Ends(s, p, table, x)
    PROVE  /\ Front(p) \in Seq(S) /\ s \o Front(p) = table
           /\ Front(p) = << >> => s = table /\ p = << x >>
<1> DEFINE f == Front(p)
           y == p[Len(p)]
           w == << y >>
           z == << x >>
<1>0. s \o p = table \o z
  BY DEF Ends
<1>1. Len(p) # 0
  BY EmptySeq
<1>2. f \in Seq(S) /\ y \in S /\ p = Append(f, y)
  BY <1>1, LastAppended
<1> HIDE DEF f, y
<1>3. w \in Seq(S) /\ Append(f, y) = f \o w
  BY <1>2, AppendIsConcat, OneIsSeq
<1>4. z \in Seq(S) /\ Append(table, x) = table \o z
  BY AppendIsConcat, OneIsSeq
<1> HIDE DEF w, z
<1> DEFINE c == s \o f
<1>5. c \in Seq(S)
  BY <1>2, ConcatProperties
<1>6. s \o p = c \o w
  <2>1. p = f \o w
    BY <1>2, <1>3
  <2>2. (s \o f) \o w = s \o (f \o w)
    BY <1>2, <1>3, Associative
  <2> QED BY <2>1, <2>2
<1> HIDE DEF c
<1>7. Append(c, y) = c \o w
  BY <1>2, <1>5, AppendIsConcat DEF w
<1>8. Append(c, y) = Append(table, x)
  BY <1>0, <1>4, <1>6, <1>7
<1>9. c = table /\ y = x
  <2>1. \A q, r \in S : \A a, b \in Seq(S) : Append(a, q) = Append(b, r) => a = b /\ q = r
    BY AppendInjective
  <2> QED BY <1>2, <1>5, <1>8, <2>1
<1>10. ASSUME f = << >> PROVE s = table /\ p = z
  <2>1. c = s
    BY <1>10, ConcatEmptySeq DEF c
  <2>2. p = w
    BY <1>2, <1>3, <1>10, ConcatEmptySeq
  <2>3. w = z
    BY <1>9 DEF w, z
  <2> QED BY <1>9, <2>1, <2>2, <2>3
<1> QED BY <1>2, <1>9, <1>10 DEF c, f, z

\* In a clean text that lacks a key of its last table, no key has that path.
LEMMA LackedIsNoKey ==
    ASSUME NEW t, IsText(t), NEW e \in EditSet, Clean(t.lines), Lacks(t, e),
           TableAt(t.lines, Len(t.lines)) = TableOf(e.path)
    PROVE  EditedKey(e) \notin Keys(t.lines)
<1> DEFINE a == t.lines
           key == EditedKey(e)
           table == TableOf(e.path)
           x == Last(e.path)
<1>0. a \in Seq(LineSet) /\ Len(a) \in Nat
  BY LenProperties DEF IsText
<1>1. TableAt(a, Len(a)) = table
  OBVIOUS
<1>2. Clean(a)
  OBVIOUS
<1>3. \A i \in Kind(a, "key") : ~(TableAt(a, i) = table /\ a[i].path = << x >>)
  BY <1>2 DEF Lacks, Clean
<1>4. /\ table \in Seq(String) /\ table # << >> /\ x \in String /\ key = table \o << x >>
      /\ Front(key) = table
  BY EditParts DEF Path
<1> HIDE DEF a, key, table, x
<1>5. ASSUME NEW i \in Kind(a, "key"), PathAt(a, i) = key PROVE FALSE
  <2> DEFINE s == TableAt(a, i)
             p == a[i].path
  <2>1. i \in 1 .. Len(a) /\ a[i].kind = "key"
    BY <1>0, KindIs
  <2>2. s \in Seq(String) /\ p \in Seq(String) /\ p # << >>
    <3>1. a[i] \in LineSet
      BY <1>0, <2>1, ElementOfSeq
    <3> QED BY <1>0, <2>1, <3>1, PathsAre, LineFields DEF Path
  <2>3. s \o p = table \o << x >>
    BY <1>4, <1>5 DEF PathAt
  <2>4. \A q \in Parents(p) : \A h \in Kind(a, "header") : a[h].path # s \o q
    BY <1>2 DEF Clean
  <2>5. ~(s = table /\ p = << x >>)
    BY <1>3
  <2> HIDE DEF s, p
  <2>6. s \o Front(p) = table /\ Front(p) # << >> /\ Front(p) \in Seq(String)
    <3>1. table \in Seq(String) /\ x \in String
      BY <1>4
    <3>2. Ends(s, p, table, x)
      BY <2>3 DEF Ends
    <3>3. /\ Front(p) \in Seq(String) /\ s \o Front(p) = table
          /\ Front(p) = << >> => s = table /\ p = << x >>
      BY <2>2, <3>1, <3>2, EndsAlike
    <3> QED BY <2>5, <3>3, Zenon
  <2>7. Front(p) \in Parents(p)
    <3>1. Len(p) # 0 /\ Len(p) \in Nat
      BY <2>2, EmptySeq, LenProperties
    <3>2. Len(Front(p)) = Len(p) - 1
      BY <2>2, <3>1, LastAppended
    <3>3. Len(Front(p)) # 0
      BY <2>6, EmptySeq
    <3>4. Len(p) - 1 \in 1 .. Len(p) - 1
      BY <3>1, <3>2, <3>3
    <3> QED BY <3>4 DEF Parents, Front
  <2>8. \E h \in Kind(a, "header") : a[h].path = table
    BY <1>0, <1>1, <1>4, TableAtCases
  <2> QED BY <2>4, <2>6, <2>7, <2>8
<1>6. key \notin Keys(a)
  BY <1>5 DEF Keys
<1> QED BY <1>6 DEF a, key

\* The key that is swallowed is lost,
LEMMA SwallowingLoses ==
    ASSUME NEW t, IsText(t), NEW e \in EditSet, NEW u, Swallows(t, e, u), Clean(u.lines)
    PROVE  InComment(t, e, u) /\ StaysOpen(t, u) /\ Clean(t.lines)
<1>1. /\ ~t.closed /\ u.closed = TRUE /\ TableAt(t.lines, Len(t.lines)) = TableOf(e.path)
      /\ Lacks(t, e) /\ Last(t.lines).comment /\ u.lines = t.lines
  BY DEF Swallows, AtOpenEnd
<1>2. Clean(t.lines) /\ EditedKey(e) \notin Keys(t.lines) /\ Front(EditedKey(e)) = TableOf(e.path)
  BY <1>1, LackedIsNoKey, EditParts
<1> QED BY <1>1, <1>2 DEF InComment, Loses, StaysOpen

\* and the key that mars a value is.
LEMMA MarringLoses ==
    ASSUME NEW t, IsText(t), NEW e \in EditSet, NEW u, IsText(u), Mars(t, e, u), Clean(u.lines)
    PROVE  InValue(t, e, u) /\ StaysOpen(t, u) /\ Clean(t.lines)
<1> DEFINE a == t.lines
           b == u.lines
           n == Len(a)
           end == PathAt(a, n)
<1>0. a \in Seq(LineSet) /\ b \in Seq(LineSet) /\ n \in Nat /\ (~t.closed => a # << >>)
  BY LenProperties DEF IsText
<1>1. /\ ~t.closed /\ u.closed = TRUE /\ TableAt(a, n) = TableOf(e.path) /\ Lacks(t, e)
      /\ Last(a).kind = "key" /\ b = [a EXCEPT ![n] = [@ EXCEPT !.value = Junk]]
  BY DEF Mars, AtOpenEnd
<1>2. n \in 1 .. Len(a) /\ a[n].kind = "key"
  BY <1>0, <1>1, EmptySeq DEF Last
<1> HIDE DEF a, b, n
<1>3. /\ Len(b) = Len(a)
      /\ \A j \in 1 .. Len(a) : j # n => b[j] = a[j]
      /\ b[n].kind = a[n].kind /\ b[n].path = a[n].path /\ b[n].value = Junk
  BY <1>0, <1>1, <1>2, JunkIsValue, ReplacedIs
<1>4. \A j \in 1 .. Len(a) : b[j].kind = a[j].kind /\ b[j].path = a[j].path
  BY <1>3
<1> DEFINE m == [j \in 1 .. Len(a) |-> j]
<1>5. Carries(m, a, b)
  <2>1. Len(a) <= Len(b)
    BY <1>0, <1>3, LenProperties
  <2> QED BY <1>0, <1>4, <2>1, InPlace
<1>6. \A j \in 1 .. Len(a) : m[j] = j
  OBVIOUS
<1> HIDE DEF m
<1>7. Clean(a)
  BY <1>0, <1>5, CarriedClean DEF b
<1>8. \A j \in 1 .. Len(a) : PathAt(b, j) = PathAt(a, j)
  <2>1. \A j \in 1 .. Len(a) : TableAt(b, j) = TableAt(a, j)
    BY <1>0, <1>5, <1>6, CarriedPaths
  <2> QED BY <1>4, <2>1 DEF PathAt
<1>9. Kind(b, "key") = Kind(a, "key") /\ Kind(a, "key") \subseteq 1 .. Len(a) /\ n \in Kind(a, "key")
  <2>1. DOMAIN a = DOMAIN b /\ DOMAIN a = 1 .. Len(a)
    BY <1>0, <1>3, LenProperties
  <2> QED BY <1>2, <1>4, <2>1 DEF Kind
<1>10. Keys(b) = Keys(a) /\ end \in Keys(a)
  BY <1>8, <1>9 DEF Keys
<1>11. \A j \in Kind(a, "key") : PathAt(a, j) = end => j = n
  BY <1>7, <1>9 DEF Clean
<1>12. ASSUME NEW k, NEW v
       PROVE  Bound(b, k, v) <=> IF k = end THEN v = Junk ELSE Bound(a, k, v)
  <2>1. CASE k = end
    BY <1>3, <1>8, <1>9, <1>11, <2>1 DEF Bound
  <2>2. CASE k # end
    <3>1. \A j \in Kind(a, "key") : PathAt(a, j) = k => b[j].value = a[j].value
      BY <1>3, <1>9, <2>2
    <3> QED BY <1>8, <1>9, <2>2, <3>1 DEF Bound
  <2> QED BY <2>1, <2>2
<1>13. Loses(t, e, u)
  <2>1. EditedKey(e) \notin Keys(t.lines)
    BY <1>1, <1>7, LackedIsNoKey DEF a, n
  <2>2. Front(EditedKey(e)) = TableOf(e.path)
    BY EditParts
  <2> QED BY <1>1, <1>10, <2>1, <2>2 DEF Loses, a, b, n
<1>14. EndKey(t) = end
  BY DEF EndKey, a, n
<1>15. InValue(t, e, u)
  <2> HIDE DEF end
  <2> QED BY <1>1, <1>10, <1>12, <1>13, <1>14 DEF InValue, a, b
<1> QED BY <1>1, <1>7, <1>15 DEF StaysOpen, a

\* A well-formed text has no line of garbage.
LEMMA NotSpoiled ==
    ASSUME NEW t, IsText(t), NEW u, Clean(u.lines)
    PROVE  ~Spoils(t, u)
<1> SUFFICES ASSUME Spoils(t, u) PROVE FALSE
  OBVIOUS
<1>1. t.lines \in Seq(LineSet)
  BY DEF IsText
<1>2. PICK i \in 1 .. Len(t.lines) : u.lines = [t.lines EXCEPT ![i] = Garbage]
  BY DEF Spoils
<1>3. Len(u.lines) = Len(t.lines) /\ u.lines[i] = Garbage /\ u.lines \in Seq(LineSet)
  BY <1>1, <1>2, MadeLines, ExceptSeq
<1>4. Garbage.kind = "garbage"
  BY DEF Garbage, Line
<1>5. i \in Kind(u.lines, "garbage")
  BY <1>3, <1>4, KindIs
<1> QED BY <1>5 DEF Clean

\* An edit of which a clean text comes changes a key, adds one or loses one.
LEMMA EditEffect ==
    ASSUME NEW t, IsText(t), NEW e \in EditSet, NEW u, u = applyConfigEdit(t, e), Clean(u.lines)
    PROVE  /\ Clean(t.lines) /\ StaysOpen(t, u)
           /\ Changes(t, e, u) \/ Adds(t, e, u) \/ InComment(t, e, u) \/ InValue(t, e, u)
<1>1. IsText(u)
  BY EditTyped
<1>2. ~Spoils(t, u)
  BY NotSpoiled
<1> QED BY <1>1, <1>2, EditIs, ReplacingChanges, InsertingAdds, AppendingAdds, FillingAdds,
           SwallowingLoses, MarringLoses

\* A value that is none stays until its key is edited.
LEMMA JunkStays ==
    ASSUME NEW t, IsText(t), NEW e \in EditSet, NEW u, u = applyConfigEdit(t, e), Clean(u.lines),
           NEW k, k # EditedKey(e), Bound(t.lines, k, Junk)
    PROVE  Bound(u.lines, k, Junk)
<1>1. CASE Changes(t, e, u)
  BY <1>1 DEF Changes
<1>2. CASE Adds(t, e, u)
  BY <1>2 DEF Adds
<1>3. CASE InComment(t, e, u)
  BY <1>3 DEF InComment
<1>4. CASE InValue(t, e, u)
  BY <1>4 DEF InValue
<1> QED BY <1>1, <1>2, <1>3, <1>4, EditEffect

-----------------------------------------------------------------------------
(* What is not edited *)

\* What of a line is not edited, E being the keys that are.
Left(lines, i, E) ==
    IF lines[i].kind = "key" /\ PathAt(lines, i) \in E THEN << >>
    ELSE << << lines[i], PathAt(lines, i) >> >>

Part(lines, n, E) == FlattenSeq([i \in 1 .. n |-> Left(lines, i, E)])

Pairs == LineSet \X Path

\* It is a line and where it is, or nothing.
LEMMA LeftTyped ==
    ASSUME NEW lines \in Seq(LineSet), NEW i \in 1 .. Len(lines), NEW E
    PROVE  Left(lines, i, E) \in Seq(Pairs)
<1> DEFINE x == << lines[i], PathAt(lines, i) >>
<1>1. x \in Pairs
  BY PathsAre, ElementOfSeq DEF Pairs
<1>2. Left(lines, i, E) = << >> \/ Left(lines, i, E) = << x >>
  BY DEF Left
<1> HIDE DEF x
<1>3. << x >> \in Seq(Pairs) /\ << >> \in Seq(Pairs)
  BY <1>1, OneIsSeq, EmptySeq
<1> QED BY <1>2, <1>3

\* What is left of the first lines, line by line.
LEMMA PartIs ==
    ASSUME NEW lines \in Seq(LineSet), NEW E, NEW n \in 0 .. Len(lines)
    PROVE  /\ Part(lines, n, E) \in Seq(Pairs)
           /\ n < Len(lines) => Part(lines, n + 1, E) = Part(lines, n, E) \o Left(lines, n + 1, E)
<1> DEFINE f == [i \in 1 .. n |-> Left(lines, i, E)]
           g == [i \in 1 .. n + 1 |-> Left(lines, i, E)]
           x == Left(lines, n + 1, E)
<1>1. n \in Nat /\ n + 1 \in Nat /\ Len(lines) \in Nat
  BY LenProperties
<1>2. \A i \in 1 .. n : Left(lines, i, E) \in Seq(Pairs)
  BY <1>1, LeftTyped
<1>3. f \in Seq(Seq(Pairs)) /\ Len(f) = n /\ \A i \in 1 .. n : f[i] = Left(lines, i, E)
  <2>1. f \in [1 .. n -> Seq(Pairs)]
    BY <1>2
  <2>2. \A i \in 1 .. n : f[i] = Left(lines, i, E)
    OBVIOUS
  <2>3. DOMAIN f = 1 .. n
    OBVIOUS
  <2> HIDE DEF f
  <2>4. f \in Seq(Seq(Pairs))
    BY <1>1, <2>1, IsASeq
  <2>5. Len(f) = n
    BY <1>1, <2>3, <2>4, LenProperties
  <2> QED BY <2>2, <2>4, <2>5
<1>4. Part(lines, n, E) = FlattenSeq(f) /\ Part(lines, n + 1, E) = FlattenSeq(g)
  BY DEF Part
<1>5. ASSUME n < Len(lines) PROVE g = Append(f, x) /\ x \in Seq(Pairs)
  <2>1. x \in Seq(Pairs)
    <3>1. n + 1 \in 1 .. Len(lines)
      BY <1>1, <1>5
    <3> QED BY <3>1, LeftTyped
  <2>2. \A i \in 1 .. n + 1 : g[i] = Left(lines, i, E)
    OBVIOUS
  <2>3. g \in Seq(Seq(Pairs)) /\ Len(g) = n + 1
    <3>1. \A i \in 1 .. n + 1 : Left(lines, i, E) \in Seq(Pairs)
      <4> TAKE i \in 1 .. n + 1
      <4>1. i \in 1 .. n \/ i = n + 1
        BY <1>1
      <4> QED BY <1>2, <2>1, <4>1
    <3>2. g \in [1 .. n + 1 -> Seq(Pairs)]
      BY <3>1
    <3>3. DOMAIN g = 1 .. n + 1
      OBVIOUS
    <3> DEFINE k == n + 1
    <3>4. k \in Nat /\ g \in [1 .. k -> Seq(Pairs)] /\ DOMAIN g = 1 .. k
      BY <1>1, <3>2, <3>3
    <3> HIDE DEF g, k
    <3>5. g \in Seq(Seq(Pairs))
      BY <3>4, IsASeq
    <3>6. Len(g) = k
      BY <3>4, <3>5, LenProperties
    <3> QED BY <3>5, <3>6 DEF k
  <2> HIDE DEF f, g, x
  <2>4. /\ Append(f, x) \in Seq(Seq(Pairs)) /\ Len(Append(f, x)) = n + 1
        /\ \A i \in 1 .. n : Append(f, x)[i] = f[i]
        /\ Append(f, x)[n + 1] = x
    BY <1>3, <2>1, AppendProperties
  <2>5. \A i \in 1 .. n + 1 : Append(f, x)[i] = g[i]
    <3> TAKE i \in 1 .. n + 1
    <3>1. i \in 1 .. n \/ i = n + 1
      BY <1>1
    <3> QED BY <1>3, <2>2, <2>4, <3>1 DEF x
  <2>6. g = Append(f, x)
    BY <2>3, <2>4, <2>5, SeqEqual
  <2> QED BY <2>1, <2>6
<1> HIDE DEF f, g, x
<1>6. FlattenSeq(f) \in Seq(Pairs)
  BY <1>3, FlattenTyped
<1>7. n < Len(lines) => FlattenSeq(g) = FlattenSeq(f) \o x
  BY <1>3, <1>5, FlattenAppend
<1> QED BY <1>4, <1>6, <1>7 DEF x

\* What is the same line by line is the same.
LEMMA PartSame ==
    ASSUME NEW a, NEW b, NEW E, NEW n \in Nat,
           \A i \in 1 .. n : Left(b, i, E) = Left(a, i, E)
    PROVE  Part(b, n, E) = Part(a, n, E)
<1> DEFINE f == [i \in 1 .. n |-> Left(a, i, E)]
           g == [i \in 1 .. n |-> Left(b, i, E)]
<1>1. f = g
  OBVIOUS
<1>2. Part(a, n, E) = FlattenSeq(f) /\ Part(b, n, E) = FlattenSeq(g)
  BY DEF Part
<1> HIDE DEF f, g
<1> QED BY <1>1, <1>2

\* An edited key in between leaves nothing.
LEMMA PartShifted ==
    ASSUME NEW a \in Seq(LineSet), NEW b \in Seq(LineSet), NEW E, NEW r \in 1 .. Len(a) + 1,
           Len(b) = Len(a) + 1, Left(b, r, E) = << >>,
           \A i \in 1 .. r - 1 : Left(b, i, E) = Left(a, i, E),
           \A i \in r .. Len(a) : Left(b, i + 1, E) = Left(a, i, E)
    PROVE  \A n \in r - 1 .. Len(a) : Part(b, n + 1, E) = Part(a, n, E)
<1> DEFINE N == { n \in Nat : n \in r - 1 .. Len(a) => Part(b, n + 1, E) = Part(a, n, E) }
<1>0. Len(a) \in Nat /\ Len(b) \in Nat /\ r \in Nat /\ 1 <= r
  BY LenProperties
<1>1. Part(b, r, E) = Part(a, r - 1, E)
  <2>1. /\ r - 1 \in 0 .. Len(b) /\ r - 1 < Len(b) /\ (r - 1) + 1 = r /\ r - 1 \in Nat
        /\ r - 1 \in 0 .. Len(a)
    BY <1>0
  <2> DEFINE k == r - 1
  <2>2. k \in 0 .. Len(b) /\ k < Len(b) /\ k + 1 = r
    BY <2>1
  <2> HIDE DEF k
  <2>3. Part(b, k + 1, E) = Part(b, k, E) \o Left(b, k + 1, E) /\ Part(b, k, E) \in Seq(Pairs)
    BY <2>2, PartIs
  <2>4. Part(b, r, E) = Part(b, k, E)
    BY <2>2, <2>3, ConcatEmptySeq
  <2>5. Part(b, k, E) = Part(a, k, E)
    BY <2>1, PartSame DEF k
  <2> QED BY <2>4, <2>5 DEF k
<1>2. 0 \in N
  <2>1. 0 \in r - 1 .. Len(a) => 0 + 1 = r /\ 0 = r - 1
    BY <1>0
  <2> QED BY <1>1, <2>1
<1>3. ASSUME NEW n \in N PROVE n + 1 \in N
  <2> SUFFICES ASSUME n + 1 \in r - 1 .. Len(a) PROVE Part(b, (n + 1) + 1, E) = Part(a, n + 1, E)
    OBVIOUS
  <2>0. n \in Nat
    OBVIOUS
  <2>1. CASE n + 1 = r - 1
    <3>1. (n + 1) + 1 = r
      BY <1>0, <2>0, <2>1
    <3> QED BY <1>1, <2>1, <3>1
  <2>2. CASE n + 1 # r - 1
    <3>1. n \in r - 1 .. Len(a) /\ n + 1 \in r .. Len(a)
      BY <1>0, <2>0, <2>2
    <3>2. Part(b, n + 1, E) = Part(a, n, E)
      BY <3>1
    <3>3. /\ n + 1 \in 0 .. Len(b) /\ n + 1 < Len(b) /\ n \in 0 .. Len(a) /\ n < Len(a)
      BY <1>0, <2>0, <3>1
    <3> DEFINE k == n + 1
    <3>4. k \in 0 .. Len(b) /\ k < Len(b)
      BY <3>3
    <3> HIDE DEF N, k
    <3>5. Part(b, k + 1, E) = Part(b, k, E) \o Left(b, k + 1, E)
      BY <3>4, PartIs
    <3>6. Part(a, n + 1, E) = Part(a, n, E) \o Left(a, n + 1, E)
      BY <3>3, PartIs
    <3>7. Left(b, k + 1, E) = Left(a, k, E)
      BY <3>1 DEF k
    <3> QED BY <3>2, <3>5, <3>6, <3>7 DEF k
  <2> QED BY <2>1, <2>2
<1> HIDE DEF N
<1>4. Nat \subseteq N
  BY <1>2, <1>3, NaturalInduction
<1>5. \A n \in r - 1 .. Len(a) : n \in Nat
  BY <1>0
<1> QED BY <1>4, <1>5 DEF N

\* What is left of more lines is what is left of fewer and then some.
Extends(s, t) == s \in Seq(Pairs) /\ \E w \in Seq(Pairs) : t = s \o w

\* So it is of one text and itself,
LEMMA ExtendsItself == ASSUME NEW s \in Seq(Pairs) PROVE Extends(s, s)
<1>1. << >> \in Seq(Pairs) /\ s = s \o << >>
  BY EmptySeq, ConcatEmptySeq
<1> QED BY <1>1 DEF Extends

\* and of one and another and a third.
LEMMA ExtendsOn ==
    ASSUME NEW s, NEW t, NEW u, Extends(s, t), Extends(t, u)
    PROVE  Extends(s, u)
<1>1. PICK v \in Seq(Pairs) : t = s \o v
  BY DEF Extends
<1>2. PICK w \in Seq(Pairs) : u = t \o w
  BY DEF Extends
<1>3. s \in Seq(Pairs)
  BY DEF Extends
<1>4. (s \o v) \o w = s \o (v \o w)
  BY <1>3, Associative
<1>5. v \o w \in Seq(Pairs)
  BY ConcatProperties
<1> QED BY <1>1, <1>2, <1>3, <1>4, <1>5 DEF Extends

\* What is extended is a prefix.
LEMMA ExtendsIsPrefix ==
    ASSUME NEW s, NEW t, Extends(s, t)
    PROVE  IsPrefix(s, t)
<1>1. PICK w \in Seq(Pairs) : t = s \o w
  BY DEF Extends
<1>2. s \in Seq(Pairs)
  BY DEF Extends
<1> DEFINE n == Len(s)
<1>3. n \in Nat /\ Len(w) \in Nat /\ \A i \in 1 .. n : s[i] \in Pairs
  BY <1>2, LenProperties, ElementOfSeq
<1>4. /\ t \in Seq(Pairs) /\ Len(t) = n + Len(w)
      /\ \A i \in 1 .. n + Len(w) : t[i] = IF i <= n THEN s[i] ELSE w[i - n]
  BY <1>1, <1>2, ConcatProperties
<1> HIDE DEF n
<1>5. \A i \in 1 .. n : t[i] = s[i] /\ t[i] \in Pairs
  BY <1>3, <1>4
<1>6. /\ SubSeq(s, 1, n) \in Seq(Pairs) /\ Len(SubSeq(s, 1, n)) = n
      /\ \A i \in 1 .. n : SubSeq(s, 1, n)[i] = s[i]
  <2>1. /\ SubSeq(s, 1, n) \in Seq(Pairs)
        /\ Len(SubSeq(s, 1, n)) = IF 1 <= n THEN n - 1 + 1 ELSE 0
        /\ \A i \in 1 .. n - 1 + 1 : SubSeq(s, 1, n)[i] = s[1 + i - 1]
    BY <1>3, SubSeqProperties
  <2> QED BY <1>3, <2>1
<1>7. /\ SubSeq(t, 1, n) \in Seq(Pairs) /\ Len(SubSeq(t, 1, n)) = n
      /\ \A i \in 1 .. n : SubSeq(t, 1, n)[i] = t[i]
  <2>1. /\ SubSeq(t, 1, n) \in Seq(Pairs)
        /\ Len(SubSeq(t, 1, n)) = IF 1 <= n THEN n - 1 + 1 ELSE 0
        /\ \A i \in 1 .. n - 1 + 1 : SubSeq(t, 1, n)[i] = t[1 + i - 1]
    BY <1>3, <1>5, SubSeqProperties
  <2> QED BY <1>3, <2>1
<1> DEFINE c == SubSeq(s, 1, n)
           d == SubSeq(t, 1, n)
<1>8. /\ c \in Seq(Pairs) /\ d \in Seq(Pairs) /\ Len(c) = n /\ Len(d) = n
      /\ \A i \in 1 .. n : c[i] = d[i]
  BY <1>5, <1>6, <1>7
<1> HIDE DEF c, d
<1>9. c = d
  BY <1>8, SeqEqual
<1>10. n <= Len(t)
  BY <1>3, <1>4
<1> QED BY <1>9, <1>10 DEF IsPrefix, c, d, n

\* More lines extend fewer.
LEMMA PartMore ==
    ASSUME NEW lines \in Seq(LineSet), NEW E, NEW k \in 0 .. Len(lines)
    PROVE  \A n \in k .. Len(lines) : Extends(Part(lines, k, E), Part(lines, n, E))
<1> DEFINE N == { n \in Nat : n \in k .. Len(lines) => Extends(Part(lines, k, E), Part(lines, n, E)) }
<1>0. Len(lines) \in Nat /\ k \in Nat
  BY LenProperties
<1>1. Extends(Part(lines, k, E), Part(lines, k, E))
  BY PartIs, ExtendsItself
<1>2. 0 \in N
  <2>1. 0 \in k .. Len(lines) => k = 0
    BY <1>0
  <2> QED BY <1>1, <2>1
<1>3. ASSUME NEW n \in N PROVE n + 1 \in N
  <2> SUFFICES ASSUME n + 1 \in k .. Len(lines)
               PROVE  Extends(Part(lines, k, E), Part(lines, n + 1, E))
    OBVIOUS
  <2>0. n \in Nat
    OBVIOUS
  <2>1. CASE n + 1 = k
    BY <1>1, <2>1
  <2>2. CASE n + 1 # k
    <3>1. n \in k .. Len(lines) /\ n \in 0 .. Len(lines) /\ n < Len(lines) /\ n + 1 \in 1 .. Len(lines)
      BY <1>0, <2>0, <2>2
    <3>2. Extends(Part(lines, k, E), Part(lines, n, E))
      BY <3>1
    <3> HIDE DEF N
    <3>3. /\ Part(lines, n + 1, E) = Part(lines, n, E) \o Left(lines, n + 1, E)
          /\ Part(lines, n, E) \in Seq(Pairs) /\ Left(lines, n + 1, E) \in Seq(Pairs)
      BY <3>1, PartIs, LeftTyped
    <3>4. Extends(Part(lines, n, E), Part(lines, n + 1, E))
      BY <3>3 DEF Extends
    <3> QED BY <3>2, <3>4, ExtendsOn
  <2> QED BY <2>1, <2>2
<1> HIDE DEF N
<1>4. Nat \subseteq N
  BY <1>2, <1>3, NaturalInduction
<1>5. \A n \in k .. Len(lines) : n \in Nat
  BY <1>0
<1> QED BY <1>4, <1>5 DEF N

\* A line that is carried as it is leaves the same.
LEMMA LeftCarried ==
    ASSUME NEW a \in Seq(LineSet), NEW b \in Seq(LineSet), NEW m, Carries(m, a, b),
           NEW i \in 1 .. Len(a), b[m[i]] = a[i], NEW E
    PROVE  Left(b, m[i], E) = Left(a, i, E)
<1>1. TableAt(b, m[i]) = TableAt(a, i)
  BY CarriedPaths
<1>2. PathAt(b, m[i]) = PathAt(a, i)
  BY <1>1 DEF PathAt
<1> QED BY <1>2 DEF Left

-----------------------------------------------------------------------------
(* What one edit keeps *)

\* The lines of Kept(t).
KeptLen(t) ==
    IF ~t.closed /\ Last(t.lines).kind = "blank" /\ ~Last(t.lines).comment THEN Len(t.lines) - 1
    ELSE Len(t.lines)

\* What Kept and Unedited come to, in terms of the lines.
LEMMA KeptIs ==
    ASSUME NEW t, IsText(t)
    PROVE  /\ KeptLen(t) \in 0 .. Len(t.lines) /\ (t.closed => KeptLen(t) = Len(t.lines))
           /\ Len(t.lines) - 1 <= KeptLen(t)
           /\ Unedited(Kept(t)) = Part(t.lines, KeptLen(t), Edited)
           /\ Unedited(t.lines) = Part(t.lines, Len(t.lines), Edited)
<1> DEFINE a == t.lines
<1>1. a \in Seq(LineSet) /\ Len(a) \in Nat /\ (~t.closed => a # << >>) /\ DOMAIN a = 1 .. Len(a)
  BY LenProperties DEF IsText
<1>2. a # << >> => Len(a) # 0
  BY <1>1, EmptySeq
<1>3. Unedited(a) = Part(a, Len(a), Edited)
  <2>1. \A i \in 1 .. Len(a) :
           (IF a[i].kind = "key" /\ PathAt(a, i) \in Edited THEN << >>
            ELSE << << a[i], PathAt(a, i) >> >>) = Left(a, i, Edited)
    BY DEF Left
  <2>2. [i \in DOMAIN a |-> IF a[i].kind = "key" /\ PathAt(a, i) \in Edited THEN << >>
                           ELSE << << a[i], PathAt(a, i) >> >>]
          = [i \in 1 .. Len(a) |-> Left(a, i, Edited)]
    <3> HIDE DEF a
    <3> QED BY <1>1, <2>1
  <2> HIDE DEF a
  <2> QED BY <2>2 DEF Unedited, Part
<1>4. CASE KeptLen(t) = Len(a)
  <2>1. Kept(t) = a
    <3>1. ~(~t.closed /\ Last(a).kind = "blank" /\ ~Last(a).comment)
      BY <1>1, <1>4 DEF KeptLen
    <3> QED BY <3>1 DEF Kept
  <2> QED BY <1>1, <1>3, <1>4, <2>1
<1>5. CASE KeptLen(t) # Len(a)
  <2>1. ~t.closed /\ KeptLen(t) = Len(a) - 1 /\ Kept(t) = Front(a)
    BY <1>5 DEF KeptLen, Kept
  <2>2. Len(a) # 0
    BY <1>1, <1>2, <2>1
  <2> DEFINE c == Front(a)
             n == Len(a) - 1
  <2>3. c \in Seq(LineSet) /\ Len(c) = n /\ \A i \in 1 .. n : c[i] = a[i]
    BY <1>1, <2>2, LastAppended
  <2>4. n \in Nat /\ n <= Len(a) /\ DOMAIN c = 1 .. n
    BY <1>1, <2>2, <2>3, LenProperties
  <2> HIDE DEF a, c, n
  <2> DEFINE m == [i \in 1 .. Len(c) |-> i]
  <2>5. Carries(m, c, a)
    BY <1>1, <2>3, <2>4, InPlace
  <2>6. \A i \in 1 .. Len(c) : m[i] = i
    OBVIOUS
  <2> HIDE DEF m
  <2>7. \A i \in 1 .. n : Left(a, i, Edited) = Left(c, i, Edited)
    BY <1>1, <2>3, <2>5, <2>6, LeftCarried
  <2>8. Part(a, n, Edited) = Part(c, n, Edited)
    BY <2>4, <2>7, PartSame
  <2>9. Unedited(c) = Part(c, n, Edited)
    <3>1. \A i \in 1 .. n :
             (IF c[i].kind = "key" /\ PathAt(c, i) \in Edited THEN << >>
              ELSE << << c[i], PathAt(c, i) >> >>) = Left(c, i, Edited)
      BY DEF Left
    <3>2. [i \in DOMAIN c |-> IF c[i].kind = "key" /\ PathAt(c, i) \in Edited THEN << >>
                             ELSE << << c[i], PathAt(c, i) >> >>]
            = [i \in 1 .. n |-> Left(c, i, Edited)]
      BY <2>4, <3>1
    <3> QED BY <3>2 DEF Unedited, Part
  <2> QED BY <1>1, <1>3, <2>1, <2>2, <2>8, <2>9 DEF a, c, n
<1> QED BY <1>4, <1>5

\* Lines that stay where they are, or are of a key that is edited, leave the same.
LEMMA InPlaceKeeps ==
    ASSUME NEW a \in Seq(LineSet), NEW b \in Seq(LineSet), Len(a) <= Len(b),
           \A i \in 1 .. Len(a) :
              /\ a[i].kind # "blank" => b[i].kind = a[i].kind /\ b[i].path = a[i].path
              /\ b[i].kind = "header" => a[i].kind = "header",
           NEW E, NEW n \in 0 .. Len(a), NEW k \in n .. Len(b),
           \A i \in 1 .. n :
              b[i] = a[i] \/ (a[i].kind = "key" /\ b[i].kind = "key" /\ PathAt(a, i) \in E)
    PROVE  Extends(Part(a, n, E), Part(b, k, E))
<1> DEFINE m == [i \in 1 .. Len(a) |-> i]
<1>1. Carries(m, a, b)
  BY InPlace
<1>2. \A i \in 1 .. Len(a) : m[i] = i
  OBVIOUS
<1> HIDE DEF m
<1>3. n \in Nat /\ n \in 0 .. Len(b) /\ \A i \in 1 .. n : i \in 1 .. Len(a)
  BY LenProperties
<1>4. ASSUME NEW i \in 1 .. n PROVE Left(b, i, E) = Left(a, i, E)
  <2>1. CASE b[i] = a[i]
    BY <1>1, <1>2, <1>3, <2>1, LeftCarried
  <2>2. CASE a[i].kind = "key" /\ b[i].kind = "key" /\ PathAt(a, i) \in E
    <3>1. PathAt(b, i) = PathAt(a, i)
      <4>1. i \in 1 .. Len(a) /\ m[i] = i /\ a[i].kind # "blank"
        BY <1>2, <1>3, <2>2
      <4> QED BY <1>1, <4>1, CarriedPaths
    <3> QED BY <2>2, <3>1 DEF Left
  <2> QED BY <2>1, <2>2
<1>5. Part(b, n, E) = Part(a, n, E)
  BY <1>3, <1>4, PartSame
<1>6. Extends(Part(b, n, E), Part(b, k, E))
  BY <1>3, PartMore
<1> QED BY <1>5, <1>6

\* An insertion leaves what there was.
LEMMA InsertingKeeps ==
    ASSUME NEW t, IsText(t), NEW e \in EditSet, NEW u, IsText(u), Inserts(t, e, u),
           NEW E, EditedKey(e) \in E
    PROVE  Extends(Part(t.lines, KeptLen(t), E), Part(u.lines, KeptLen(u), E))
<1> DEFINE a == t.lines
           b == u.lines
<1>0. a \in Seq(LineSet) /\ b \in Seq(LineSet) /\ Len(a) \in Nat /\ Len(b) \in Nat
  BY LenProperties DEF IsText
<1>1. PICK r, m : Inserted(t, e, u, r, m)
  BY InsertedAt
<1>2. /\ r \in 1 .. Len(a) + 1 /\ Len(b) = Len(a) + 1
      /\ b[r].kind = "key" /\ PathAt(b, r) = EditedKey(e)
      /\ u.closed = t.closed /\ (r = Len(a) + 1 => t.closed)
  BY <1>1 DEF Inserted
<1>3. /\ Carries(m, a, b)
      /\ \A i \in 1 .. Len(a) : m[i] = (IF i < r THEN i ELSE i + 1) /\ b[m[i]] = a[i]
  BY <1>1 DEF Inserted
<1>4. /\ KeptLen(t) \in 0 .. Len(a) /\ Len(a) - 1 <= KeptLen(t)
      /\ (t.closed => KeptLen(t) = Len(a)) /\ (u.closed => KeptLen(u) = Len(b))
  BY KeptIs
<1>5. KeptLen(u) = KeptLen(t) + 1
  <2>1. CASE t.closed
    BY <1>0, <1>2, <1>4, <2>1
  <2>2. CASE ~t.closed
    <3>1. Len(a) \in 1 .. Len(a) /\ m[Len(a)] = Len(b)
      BY <1>0, <1>2, <1>3, <2>2
    <3>2. Last(b) = Last(a)
      BY <1>3, <3>1 DEF Last
    <3> HIDE DEF a, b
    <3>3. t.lines = a /\ u.lines = b
      BY DEF a, b
    <3> QED BY <1>0, <1>2, <2>2, <3>2, <3>3 DEF KeptLen
  <2> QED BY <2>1, <2>2
<1> HIDE DEF a, b
<1>6. \A i \in 1 .. Len(a) : Left(b, m[i], E) = Left(a, i, E)
  BY <1>0, <1>3, LeftCarried
<1>7. /\ \A i \in 1 .. r - 1 : Left(b, i, E) = Left(a, i, E)
      /\ \A i \in r .. Len(a) : Left(b, i + 1, E) = Left(a, i, E)
  <2>1. \A i \in 1 .. r - 1 : i \in 1 .. Len(a) /\ m[i] = i
    BY <1>0, <1>2, <1>3
  <2>2. \A i \in r .. Len(a) : i \in 1 .. Len(a) /\ m[i] = i + 1
    BY <1>0, <1>2, <1>3
  <2> QED BY <1>6, <2>1, <2>2
<1>8. Left(b, r, E) = << >>
  BY <1>2 DEF Left
<1> DEFINE n == KeptLen(t)
<1>9. n \in r - 1 .. Len(a)
  <2>1. CASE t.closed
    BY <1>0, <1>2, <1>4, <2>1
  <2>2. CASE ~t.closed
    BY <1>0, <1>2, <1>4, <2>2
  <2> QED BY <2>1, <2>2
<1> HIDE DEF n
<1>10. Part(b, n + 1, E) = Part(a, n, E)
  <2>1. \A i \in r - 1 .. Len(a) : Part(b, i + 1, E) = Part(a, i, E)
    BY <1>0, <1>2, <1>7, <1>8, PartShifted
  <2> QED BY <1>9, <2>1
<1>11. Part(a, n, E) \in Seq(Pairs)
  BY <1>0, <1>4, PartIs DEF n
<1> QED BY <1>5, <1>10, <1>11, ExtendsItself DEF a, b, n

\* So does every edit of a text that comes to be well-formed, but for one that leaves
\* a key without a value.
LEMMA EditKeeps ==
    ASSUME NEW t, IsText(t), NEW e \in EditSet, NEW u, u = applyConfigEdit(t, e), Clean(u.lines),
           NEW E, EditedKey(e) \in E, \A k : Bound(u.lines, k, Junk) => k \in E
    PROVE  Extends(Part(t.lines, KeptLen(t), E), Part(u.lines, KeptLen(u), E))
<1> DEFINE a == t.lines
           b == u.lines
           insert == Assign(Last(e.path), e.value)
<1>0. IsText(u)
  BY EditTyped
<1>1. /\ a \in Seq(LineSet) /\ b \in Seq(LineSet) /\ Len(a) \in Nat /\ Len(b) \in Nat
      /\ (~t.closed => Len(a) \in 1 .. Len(a)) /\ t.closed \in BOOLEAN
  <2>1. /\ a \in Seq(LineSet) /\ b \in Seq(LineSet) /\ (~t.closed => a # << >>) /\ t.closed \in BOOLEAN
    BY <1>0 DEF IsText
  <2> QED BY <2>1, LenProperties, EmptySeq
<1>2. /\ KeptLen(t) \in 0 .. Len(a) /\ Len(a) - 1 <= KeptLen(t)
      /\ KeptLen(u) \in 0 .. Len(b) /\ (u.closed => KeptLen(u) = Len(b))
  BY <1>0, KeptIs
<1>3. insert.kind = "key" /\ insert \in LineSet
  BY LineIs, MadeLines, EditParts
<1>4. \/ Replaces(t, e, u) \/ Inserts(t, e, u) \/ Appends(t, e, u)
      \/ Swallows(t, e, u) \/ Mars(t, e, u) \/ Fills(t, e, u) \/ Spoils(t, u)
  BY EditIs
<1>5. CASE Replaces(t, e, u)
  <2>1. PICK i \in Kind(a, "key"), w \in Value :
          /\ TableAt(a, i) = TableOf(e.path) /\ a[i].path = << Last(e.path) >>
          /\ b = [a EXCEPT ![i] = [@ EXCEPT !.value = w]]
          /\ u.closed = t.closed
    BY <1>5 DEF Replaces
  <2>2. i \in 1 .. Len(a) /\ a[i].kind = "key"
    <3>1. a \in Seq(LineSet)
      BY <1>1
    <3> HIDE DEF a
    <3> QED BY <3>1, KindIs
  <2>3. PathAt(a, i) \in E
    BY <2>1, EditParts DEF PathAt
  <2> HIDE DEF a, b, insert
  <2>4. /\ Len(b) = Len(a) /\ \A j \in 1 .. Len(a) : j # i => b[j] = a[j]
        /\ b[i].kind = a[i].kind /\ b[i].path = a[i].path /\ b[i].comment = a[i].comment
    BY <1>1, <2>1, <2>2, ReplacedIs
  <2>5. \A j \in 1 .. Len(a) : b[j].kind = a[j].kind /\ b[j].path = a[j].path
    BY <2>4
  <2>6. \A j \in 1 .. Len(a) :
           b[j] = a[j] \/ (a[j].kind = "key" /\ b[j].kind = "key" /\ PathAt(a, j) \in E)
    BY <2>2, <2>3, <2>4
  <2>7. KeptLen(u) = KeptLen(t)
    <3>1. CASE t.closed
      BY <2>1, <2>4, <3>1 DEF KeptLen, a, b
    <3>2. CASE ~t.closed
      <4>1. Last(b).kind = Last(a).kind /\ Last(b).comment = Last(a).comment
        <5>1. \A j \in 1 .. Len(a) : b[j].kind = a[j].kind /\ b[j].comment = a[j].comment
          BY <2>4
        <5> QED BY <1>1, <2>4, <3>2, <5>1 DEF Last
      <4> QED BY <2>1, <2>4, <4>1 DEF KeptLen, a, b
    <3> QED BY <3>1, <3>2
  <2> DEFINE n == KeptLen(t)
  <2>8. n \in 0 .. Len(a) /\ n \in n .. Len(b) /\ \A j \in 1 .. n : j \in 1 .. Len(a)
    BY <1>1, <1>2, <2>4
  <2> HIDE DEF n
  <2>9. Extends(Part(a, n, E), Part(b, n, E))
    <3>1. Len(a) <= Len(b)
      BY <1>1, <2>4
    <3>2. \A j \in 1 .. n :
             b[j] = a[j] \/ (a[j].kind = "key" /\ b[j].kind = "key" /\ PathAt(a, j) \in E)
      BY <2>6, <2>8
    <3> QED BY <1>1, <2>5, <2>8, <3>1, <3>2, InPlaceKeeps
  <2> QED BY <2>7, <2>9 DEF a, b, n
<1>6. CASE Inserts(t, e, u)
  BY <1>0, <1>6, InsertingKeeps
<1>7. CASE Appends(t, e, u)
  <2>1. b = a \o << Blank, Header(TableOf(e.path)), insert >> /\ u.closed = TRUE
    BY <1>7 DEF Appends
  <2>2. Len(b) = Len(a) + 3 /\ \A i \in 1 .. Len(a) : b[i] = a[i]
    BY <1>1, <1>3, <2>1, MadeLines, EditParts, ThreeAppended
  <2> DEFINE n == KeptLen(t)
             k == KeptLen(u)
  <2>3. n \in 0 .. Len(a) /\ k \in n .. Len(b) /\ Len(a) <= Len(b) /\ \A j \in 1 .. n : j \in 1 .. Len(a)
    BY <1>1, <1>2, <2>1, <2>2
  <2> HIDE DEF a, b, n, k
  <2>4. Extends(Part(a, n, E), Part(b, k, E))
    BY <1>1, <2>2, <2>3, InPlaceKeeps
  <2> QED BY <2>4 DEF a, b, n, k
<1>8. CASE Swallows(t, e, u)
  <2>1. b = a /\ u.closed = TRUE
    BY <1>8 DEF Swallows, AtOpenEnd
  <2> DEFINE n == KeptLen(t)
             k == KeptLen(u)
  <2>2. n \in 0 .. Len(a) /\ k \in n .. Len(a)
    BY <1>1, <1>2, <2>1
  <2> HIDE DEF a, b, n, k
  <2>3. Extends(Part(a, n, E), Part(a, k, E))
    BY <1>1, <2>2, PartMore
  <2> QED BY <2>1, <2>3 DEF a, b, n, k
<1>9. CASE Fills(t, e, u)
  <2>1. /\ ~t.closed /\ u.closed = TRUE /\ Last(a).kind = "blank" /\ ~Last(a).comment
        /\ b = [a EXCEPT ![Len(a)] = insert]
    BY <1>9 DEF Fills, AtOpenEnd
  <2> DEFINE n == KeptLen(t)
             k == KeptLen(u)
  <2>2. n = Len(a) - 1
    BY <2>1 DEF KeptLen
  <2>3. Len(a) \in 1 .. Len(a) /\ a[Len(a)].kind = "blank"
    BY <1>1, <2>1 DEF Last
  <2> HIDE DEF a, b, insert
  <2>4. Len(b) = Len(a) /\ \A j \in 1 .. Len(a) : b[j] = IF j = Len(a) THEN insert ELSE a[j]
    BY <1>1, <1>3, <2>1, <2>3, ExceptSeq
  <2>5. n \in 0 .. Len(a) /\ k \in n .. Len(b) /\ Len(a) <= Len(b)
    BY <1>1, <1>2, <2>1, <2>2, <2>4 DEF b
  <2>6. \A j \in 1 .. Len(a) :
           /\ a[j].kind # "blank" => b[j].kind = a[j].kind /\ b[j].path = a[j].path
           /\ b[j].kind = "header" => a[j].kind = "header"
    BY <1>3, <2>3, <2>4
  <2>7. \A j \in 1 .. n : b[j] = a[j]
    <3>1. \A j \in 1 .. n : j \in 1 .. Len(a) /\ j # Len(a)
      BY <1>1, <2>2
    <3> QED BY <2>4, <3>1
  <2> HIDE DEF n, k
  <2>8. Extends(Part(a, n, E), Part(b, k, E))
    BY <1>1, <2>5, <2>6, <2>7, InPlaceKeeps
  <2> QED BY <2>8 DEF a, b, n, k
<1>10. CASE Mars(t, e, u)
  <2> DEFINE n == Len(a)
             end == PathAt(a, n)
  <2>1. /\ ~t.closed /\ u.closed = TRUE /\ Last(a).kind = "key"
        /\ b = [a EXCEPT ![n] = [@ EXCEPT !.value = Junk]]
    BY <1>10 DEF Mars, AtOpenEnd
  <2>2. KeptLen(t) = n
    BY <2>1 DEF KeptLen
  <2>3. n \in 1 .. Len(a) /\ a[n].kind = "key"
    BY <1>1, <2>1 DEF Last
  <2>4. end \in E
    <3>1. InValue(t, e, u)
      BY <1>0, <1>10, MarringLoses
    <3>2. Bound(u.lines, EndKey(t), Junk)
      BY <3>1 DEF InValue
    <3> QED BY <3>2 DEF EndKey
  <2>5. KeptLen(u) = Len(b)
    BY <1>2, <2>1
  <2> HIDE DEF a, b, n, end
  <2>6. /\ Len(b) = Len(a) /\ \A j \in 1 .. Len(a) : j # n => b[j] = a[j]
        /\ b[n].kind = a[n].kind /\ b[n].path = a[n].path
    BY <1>1, <2>1, <2>3, JunkIsValue, ReplacedIs
  <2>7. \A j \in 1 .. Len(a) : b[j].kind = a[j].kind /\ b[j].path = a[j].path
    BY <2>6
  <2>8. \A j \in 1 .. n : b[j] = a[j] \/ (a[j].kind = "key" /\ b[j].kind = "key" /\ PathAt(a, j) \in E)
    BY <1>1, <2>3, <2>4, <2>6 DEF end
  <2>9. n \in 0 .. Len(a) /\ Len(b) \in n .. Len(b) /\ Len(a) <= Len(b)
    BY <1>1, <2>3, <2>6 DEF n
  <2>10. Extends(Part(a, n, E), Part(b, Len(b), E))
    BY <1>1, <2>7, <2>8, <2>9, InPlaceKeeps
  <2> QED BY <2>2, <2>5, <2>10 DEF a, b
<1>11. ~Spoils(t, u)
  BY NotSpoiled
<1> HIDE DEF a, b
<1> QED BY <1>4, <1>5, <1>6, <1>7, <1>8, <1>9, <1>10, <1>11

-----------------------------------------------------------------------------
(* Well-formed texts *)

\* As many as are counted are all different.
LEMMA SizeOfImage ==
    ASSUME NEW S, IsFiniteSet(S), NEW f, NEW T, T = { f[i] : i \in S },
           Cardinality(T) = Cardinality(S)
    PROVE  \A i, j \in S : f[i] = f[j] => i = j
<1> DEFINE g == [i \in S |-> f[i]]
<1>1. g \in Surjection(S, T)
  BY DEF Surjection
<1>2. g \in Injection(S, T)
  <2> HIDE DEF g
  <2> QED BY <1>1, FS_SurjSameCardinalityImpliesInj
<1> QED BY <1>2 DEF Injection, IsInjective

\* In a well-formed text no header and no key is there twice, and no header names the
\* table that a dotted key makes.
LEMMA WellFormedIsClean ==
    ASSUME NEW lines \in Seq(LineSet), WellFormed(lines)
    PROVE  Clean(lines)
<1> DEFINE H == Kind(lines, "header")
           K == Kind(lines, "key")
<1>1. IsFiniteSet(H) /\ IsFiniteSet(K)
  BY KindIs, FewIsFinite
<1>2. /\ Kind(lines, "garbage") = {} /\ Cardinality(Tables(lines)) = Cardinality(H)
      /\ Cardinality(Keys(lines)) = Cardinality(K)
      /\ Tables(lines) \cap Dotted(lines) = {}
  BY DEF WellFormed
<1>3. \A g, h \in H : lines[g].path = lines[h].path => g = h
  <2> DEFINE f == [i \in H |-> lines[i].path]
             T == Tables(lines)
  <2>1. \A i \in H : f[i] = lines[i].path
    OBVIOUS
  <2>2. { f[i] : i \in H } = { lines[i].path : i \in H }
    BY <2>1
  <2>3. T = { f[i] : i \in H }
    BY <2>2 DEF Tables
  <2> HIDE DEF f, T, H
  <2>4. Cardinality(T) = Cardinality(H)
    BY <1>2 DEF T
  <2>5. \A i, j \in H : f[i] = f[j] => i = j
    BY <1>1, <2>3, <2>4, SizeOfImage
  <2> QED BY <2>1, <2>5
<1>4. \A i, j \in K : PathAt(lines, i) = PathAt(lines, j) => i = j
  <2> DEFINE f == [i \in K |-> PathAt(lines, i)]
             T == Keys(lines)
  <2>1. \A i \in K : f[i] = PathAt(lines, i)
    OBVIOUS
  <2>2. { f[i] : i \in K } = { PathAt(lines, i) : i \in K }
    BY <2>1
  <2>3. T = { f[i] : i \in K }
    BY <2>2 DEF Keys
  <2> HIDE DEF f, T, K
  <2>4. Cardinality(T) = Cardinality(K)
    BY <1>2 DEF T
  <2>5. \A i, j \in K : f[i] = f[j] => i = j
    BY <1>1, <2>3, <2>4, SizeOfImage
  <2> QED BY <2>1, <2>5
<1>5. ASSUME NEW i \in K, NEW h \in H, NEW q \in Parents(lines[i].path)
      PROVE  lines[h].path # TableAt(lines, i) \o q
  <2>1. TableAt(lines, i) \o q \in Dotted(lines)
    <3>1. TableAt(lines, i) \o q \in { TableAt(lines, i) \o p : p \in Parents(lines[i].path) }
      OBVIOUS
    <3> QED BY <3>1 DEF Dotted
  <2>2. lines[h].path \in Tables(lines)
    BY DEF Tables
  <2> QED BY <1>2, <2>1, <2>2
<1> QED BY <1>2, <1>3, <1>4, <1>5 DEF Clean

\* All the texts on the way to a clean one are clean.
LEMMA RunClean ==
    ASSUME NEW text, IsText(text), NEW es \in Seq(EditSet), NEW f, Runs(f, text, es),
           Clean(f[Len(es)].lines)
    PROVE  \A n \in 0 .. Len(es) : Clean(f[n].lines)
<1> DEFINE N == { n \in Nat : n \in 0 .. Len(es) => Clean(f[Len(es) - n].lines) }
<1>0. Len(es) \in Nat
  BY LenProperties
<1>1. 0 \in N
  <2>1. Len(es) - 0 = Len(es)
    BY <1>0
  <2> QED BY <2>1
<1>2. ASSUME NEW n \in N PROVE n + 1 \in N
  <2> SUFFICES ASSUME n + 1 \in 0 .. Len(es) PROVE Clean(f[Len(es) - (n + 1)].lines)
    OBVIOUS
  <2> DEFINE k == Len(es) - n
  <2>1. /\ n \in 0 .. Len(es) /\ k \in 1 .. Len(es) /\ k - 1 = Len(es) - (n + 1)
        /\ k - 1 \in 0 .. Len(es)
    BY <1>0
  <2>2. Clean(f[k].lines)
    BY <2>1
  <2> HIDE DEF N, k
  <2>3. f[k] = applyConfigEdit(f[k - 1], es[k]) /\ es[k] \in EditSet
    BY <2>1, ElementOfSeq DEF Runs
  <2>4. IsText(f[k - 1])
    BY <2>1, RunTyped
  <2>5. Clean(f[k - 1].lines)
    BY <2>2, <2>3, <2>4, EditEffect
  <2> QED BY <2>1, <2>5
<1> HIDE DEF N
<1>3. Nat \subseteq N
  BY <1>1, <1>2, NaturalInduction
<1> SUFFICES ASSUME NEW n \in 0 .. Len(es) PROVE Clean(f[n].lines)
  OBVIOUS
<1>4. Len(es) - n \in Nat /\ Len(es) - n \in 0 .. Len(es) /\ Len(es) - (Len(es) - n) = n
  BY <1>0
<1> QED BY <1>3, <1>4 DEF N

-----------------------------------------------------------------------------
(* What the edits come to *)

\* The keys of the first edits.
EditedTo(es, n) == { EditedKey(es[i]) : i \in 1 .. n }

\* The last edit of a key.
LastTo(es, n, k, i) ==
    i \in 1 .. n /\ EditedKey(es[i]) = k /\ \A j \in i + 1 .. n : EditedKey(es[j]) # k

\* Nothing but what is edited changes, unless the last value is marred;
OthersStay(a, u, es, n) ==
    /\ Keys(a.lines) \subseteq Keys(u.lines)
    /\ Keys(u.lines) \subseteq Keys(a.lines) \cup EditedTo(es, n)
    /\ \A k, v : k \notin EditedTo(es, n) =>
          (Bound(u.lines, k, v) <=> Bound(a.lines, k, v)) \/ (Bound(u.lines, k, v) <=> v = Junk)

\* what is edited has the last value given, or none;
LastCounts(a, u, es, n) ==
    \A k, i, v :
        LastTo(es, n, k, i) /\ Bound(u.lines, k, v) =>
            \/ v = Junk
            \/ /\ v \in Outcomes(es[i].value)
               /\ k \notin Keys(a.lines) /\ (\A j \in 1 .. n : EditedKey(es[j]) = k => j = i) =>
                      v = es[i].value

\* while there is an open end it is that of the first text, and nothing was lost;
EndStays(a, u, es, n) ==
    u.closed = FALSE => a.closed = FALSE /\ SameEnd(a, u) /\ EditedTo(es, n) \subseteq Keys(u.lines)

\* and what is lost is one key, by a comment or a value that the open end is in; the
\* value is replaced or it is none.
Wherein(a, u, E) ==
    \/ Last(a.lines).comment
    \/ Last(a.lines).kind = "key" /\ (EndKey(a) \in E \/ Bound(u.lines, EndKey(a), Junk))

OneLost(a, u, es, n) ==
    /\ \A k \in EditedTo(es, n) \ Keys(u.lines) :
          /\ a.closed = FALSE /\ Wherein(a, u, EditedTo(es, n))
          /\ TableAt(a.lines, Len(a.lines)) = Front(k)
    /\ \A k, l \in EditedTo(es, n) \ Keys(u.lines) : k = l

Comes(a, u, es, n) ==
    OthersStay(a, u, es, n) /\ LastCounts(a, u, es, n) /\ EndStays(a, u, es, n) /\ OneLost(a, u, es, n)

\* One edit more is one key more.
LEMMA OneMore ==
    ASSUME NEW es, NEW n \in Nat
    PROVE  /\ EditedTo(es, n + 1) = EditedTo(es, n) \cup {EditedKey(es[n + 1])}
           /\ \A k, i : LastTo(es, n + 1, k, i) <=>
                 IF k = EditedKey(es[n + 1]) THEN i = n + 1 ELSE LastTo(es, n, k, i)
<1>1. 1 .. n + 1 = (1 .. n) \cup {n + 1}
  OBVIOUS
<1>2. EditedTo(es, n + 1) = EditedTo(es, n) \cup {EditedKey(es[n + 1])}
  BY <1>1 DEF EditedTo
<1>3. ASSUME NEW k, NEW i
      PROVE  LastTo(es, n + 1, k, i) <=>
                IF k = EditedKey(es[n + 1]) THEN i = n + 1 ELSE LastTo(es, n, k, i)
  <2> DEFINE ek(j) == EditedKey(es[j])
  <2> HIDE DEF ek
  <2>1. LastTo(es, n + 1, k, i) <=>
           i \in 1 .. n + 1 /\ ek(i) = k /\ \A j \in i + 1 .. n + 1 : ek(j) # k
    BY DEF LastTo, ek
  <2>2. LastTo(es, n, k, i) <=> i \in 1 .. n /\ ek(i) = k /\ \A j \in i + 1 .. n : ek(j) # k
    BY DEF LastTo, ek
  <2>3. CASE k = ek(n + 1)
    <3>1. i \in 1 .. n => n + 1 \in i + 1 .. n + 1
      OBVIOUS
    <3>2. i = n + 1 => \A j \in i + 1 .. n + 1 : FALSE
      OBVIOUS
    <3>3. LastTo(es, n + 1, k, i) <=> i = n + 1
      BY <1>1, <2>1, <2>3, <3>1, <3>2
    <3> QED BY <2>3, <3>3 DEF ek
  <2>4. CASE k # ek(n + 1)
    <3>1. i \in 1 .. n => i + 1 .. n + 1 = (i + 1 .. n) \cup {n + 1}
      OBVIOUS
    <3>2. LastTo(es, n + 1, k, i) <=> LastTo(es, n, k, i)
      BY <1>1, <2>1, <2>2, <2>4, <3>1
    <3> QED BY <2>4, <3>2 DEF ek
  <2> QED BY <2>3, <2>4
<1> QED BY <1>2, <1>3

\* So it begins,
LEMMA ComesFirst ==
    ASSUME NEW a, NEW es
    PROVE  Comes(a, a, es, 0)
<1>1. EditedTo(es, 0) = {} /\ \A k, i : ~LastTo(es, 0, k, i)
  BY DEF EditedTo, LastTo
<1> QED BY <1>1 DEF Comes, OthersStay, LastCounts, EndStays, OneLost, SameEnd

\* and so it goes on.
LEMMA ComesOn ==
    ASSUME NEW a, NEW t, IsText(t), NEW es, NEW n \in Nat, es[n + 1] \in EditSet,
           Comes(a, t, es, n), NEW u, u = applyConfigEdit(t, es[n + 1]), Clean(u.lines)
    PROVE  Comes(a, u, es, n + 1)
<1> DEFINE e == es[n + 1]
           key == EditedKey(e)
           E == EditedTo(es, n)
           F == EditedTo(es, n + 1)
<1>1. /\ F = E \cup {key}
      /\ \A k, i : LastTo(es, n + 1, k, i) <=> IF k = key THEN i = n + 1 ELSE LastTo(es, n, k, i)
  BY OneMore
<1>2. /\ StaysOpen(t, u)
      /\ Changes(t, e, u) \/ Adds(t, e, u) \/ InComment(t, e, u) \/ InValue(t, e, u)
  BY EditEffect
<1>3. /\ Keys(t.lines) \subseteq Keys(u.lines) /\ Keys(u.lines) \subseteq Keys(t.lines) \cup {key}
      /\ \A k, v : k # key =>
            (Bound(u.lines, k, v) <=> Bound(t.lines, k, v)) \/ (Bound(u.lines, k, v) <=> v = Junk)
      /\ \A v : Bound(u.lines, key, v) =>
             v = e.value \/ (key \in Keys(t.lines) /\ v \in Outcomes(e.value))
      /\ key \in Keys(u.lines) \/ InComment(t, e, u) \/ InValue(t, e, u)
  <2>1. CASE Changes(t, e, u)
    <3>1. PICK w \in Outcomes(e.value) : \A k, v :
            Bound(u.lines, k, v) <=> IF k = key THEN v = w ELSE Bound(t.lines, k, v)
      BY <2>1 DEF Changes
    <3>2. key \in Keys(t.lines) /\ Keys(u.lines) = Keys(t.lines)
      BY <2>1 DEF Changes
    <3> QED BY <3>1, <3>2
  <2>2. CASE Adds(t, e, u)
    BY <2>2 DEF Adds
  <2>3. CASE InComment(t, e, u)
    <3>1. key \notin Keys(t.lines) /\ u.lines = t.lines
      BY <2>3 DEF InComment, Loses
    <3>2. \A v : ~Bound(u.lines, key, v)
      BY <3>1, KeysAreBound
    <3> QED BY <2>3, <3>1, <3>2
  <2>4. CASE InValue(t, e, u)
    <3>1. key \notin Keys(t.lines) /\ Keys(u.lines) = Keys(t.lines)
      BY <2>4 DEF InValue, Loses
    <3>2. \A v : ~Bound(u.lines, key, v)
      BY <3>1, KeysAreBound
    <3>3. \A k, v : Bound(u.lines, k, v) <=> IF k = EndKey(t) THEN v = Junk ELSE Bound(t.lines, k, v)
      BY <2>4 DEF InValue
    <3> QED BY <2>4, <3>1, <3>2, <3>3
  <2> QED BY <1>2, <2>1, <2>2, <2>3, <2>4
<1>4. OthersStay(a, t, es, n) /\ LastCounts(a, t, es, n) /\ EndStays(a, t, es, n) /\ OneLost(a, t, es, n)
  BY DEF Comes
<1>5. OthersStay(a, u, es, n + 1)
  <2>1. ASSUME NEW k, NEW v, k \notin F
        PROVE  \/ Bound(u.lines, k, v) <=> Bound(a.lines, k, v)
               \/ Bound(u.lines, k, v) <=> v = Junk
    <3>1. k # key /\ k \notin EditedTo(es, n)
      BY <1>1, <2>1
    <3>2. \/ Bound(t.lines, k, v) <=> Bound(a.lines, k, v)
          \/ Bound(t.lines, k, v) <=> v = Junk
      BY <1>4, <3>1 DEF OthersStay
    <3>3. \/ Bound(u.lines, k, v) <=> Bound(t.lines, k, v)
          \/ Bound(u.lines, k, v) <=> v = Junk
      BY <1>3, <3>1
    <3> QED BY <3>2, <3>3
  <2>2. /\ Keys(a.lines) \subseteq Keys(u.lines)
        /\ Keys(u.lines) \subseteq Keys(a.lines) \cup EditedTo(es, n + 1)
    BY <1>1, <1>3, <1>4 DEF OthersStay
  <2> QED BY <2>1, <2>2 DEF OthersStay
<1>6. LastCounts(a, u, es, n + 1)
  <2> SUFFICES ASSUME NEW k, NEW i, NEW v, LastTo(es, n + 1, k, i), Bound(u.lines, k, v), v # Junk
               PROVE  /\ v \in Outcomes(es[i].value)
                      /\ k \notin Keys(a.lines)
                         /\ (\A j \in 1 .. n + 1 : EditedKey(es[j]) = k => j = i) => v = es[i].value
    BY DEF LastCounts
  <2>1. CASE k = key
    <3>1. i = n + 1
      BY <1>1, <2>1
    <3>2. v = e.value \/ (key \in Keys(t.lines) /\ v \in Outcomes(e.value))
      BY <1>3, <2>1
    <3>3. ASSUME k \notin Keys(a.lines), \A j \in 1 .. n + 1 : EditedKey(es[j]) = k => j = i,
                 key \in Keys(t.lines)
          PROVE  FALSE
      <4>1. key \in EditedTo(es, n)
        BY <1>4, <2>1, <3>3 DEF OthersStay
      <4>2. PICK j \in 1 .. n : EditedKey(es[j]) = key
        BY <4>1 DEF EditedTo
      <4>3. j \in 1 .. n + 1 /\ j # n + 1
        OBVIOUS
      <4> QED BY <2>1, <3>1, <3>3, <4>2, <4>3
    <3>4. e.value \in Outcomes(e.value)
      BY DEF Outcomes
    <3> QED BY <3>1, <3>2, <3>3, <3>4
  <2>2. CASE k # key
    <3>1. LastTo(es, n, k, i) /\ Bound(t.lines, k, v)
      BY <1>1, <1>3, <2>2
    <3>2. \A j \in 1 .. n : j \in 1 .. n + 1
      OBVIOUS
    <3>3. /\ v \in Outcomes(es[i].value)
          /\ k \notin Keys(a.lines) /\ (\A j \in 1 .. n : EditedKey(es[j]) = k => j = i) =>
                 v = es[i].value
      BY <1>4, <3>1 DEF LastCounts
    <3> QED BY <3>2, <3>3
  <2> QED BY <2>1, <2>2
<1>7. EndStays(a, u, es, n + 1)
  <2> SUFFICES ASSUME u.closed = FALSE
               PROVE  a.closed = FALSE /\ SameEnd(a, u) /\ F \subseteq Keys(u.lines)
    BY DEF EndStays
  <2>1. t.closed = FALSE /\ SameEnd(t, u)
    BY <1>2 DEF StaysOpen
  <2>2. a.closed = FALSE /\ SameEnd(a, t) /\ E \subseteq Keys(t.lines)
    BY <1>4, <2>1 DEF EndStays
  <2>3. key \in Keys(u.lines)
    BY <1>3 DEF InComment, InValue, Loses
  <2>4. SameEnd(a, u)
    BY <2>1, <2>2 DEF SameEnd
  <2> QED BY <1>1, <1>3, <2>2, <2>3, <2>4
<1>8. OneLost(a, u, es, n + 1)
  <2> HIDE DEF E, F
  <2>0. E = EditedTo(es, n) /\ F = EditedTo(es, n + 1)
    BY DEF E, F
  <2>1. CASE key \in Keys(u.lines)
    <3>1. F \ Keys(u.lines) \subseteq E \ Keys(t.lines)
      BY <1>1, <1>3, <2>0, <2>1
    <3>2. Bound(t.lines, EndKey(a), Junk) => EndKey(a) = key \/ Bound(u.lines, EndKey(a), Junk)
      BY JunkStays
    <3>3. Wherein(a, t, E) => Wherein(a, u, F)
      BY <1>1, <2>0, <3>2 DEF Wherein
    <3> QED BY <1>4, <2>0, <3>1, <3>3 DEF OneLost
  <2>2. CASE InComment(t, e, u) \/ InValue(t, e, u)
    <3>1. /\ Keys(u.lines) = Keys(t.lines) /\ ~t.closed
          /\ TableAt(t.lines, Len(t.lines)) = Front(key)
      BY <2>2 DEF InComment, InValue, Loses
    <3>2. t.closed = FALSE
      BY <3>1 DEF IsText
    <3>3. a.closed = FALSE /\ SameEnd(a, t) /\ E \subseteq Keys(t.lines)
      BY <1>4, <2>0, <3>2 DEF EndStays
    <3>4. F \ Keys(u.lines) \subseteq {key}
      BY <1>1, <2>0, <3>1, <3>3
    <3>5. Wherein(a, u, F)
      <4>1. CASE InComment(t, e, u)
        BY <3>3, <4>1 DEF InComment, SameEnd, Wherein
      <4>2. CASE InValue(t, e, u)
        <5>1. Last(t.lines).kind = "key" /\ Bound(u.lines, EndKey(t), Junk)
          BY <4>2 DEF InValue
        <5> QED BY <3>3, <5>1 DEF SameEnd, Wherein
      <4> QED BY <2>2, <4>1, <4>2
    <3>6. TableAt(a.lines, Len(a.lines)) = Front(key)
      BY <3>1, <3>3 DEF SameEnd
    <3> QED BY <2>0, <3>3, <3>4, <3>5, <3>6 DEF OneLost
  <2> QED BY <1>3, <2>1, <2>2
<1> QED BY <1>5, <1>6, <1>7, <1>8 DEF Comes

\* What all edits come to.
LEMMA RunComes ==
    ASSUME NEW text, IsText(text), NEW es \in Seq(EditSet), Clean(ApplyEdits(text, es).lines)
    PROVE  Comes(text, ApplyEdits(text, es), es, Len(es))
<1>0. Len(es) \in Nat
  BY LenProperties
<1>1. PICK f : Runs(f, text, es)
  BY <1>0, RunExists
<1>2. f[0] = text /\ f[Len(es)] = ApplyEdits(text, es)
  BY <1>1 DEF Runs
<1>3. \A n \in 0 .. Len(es) : IsText(f[n]) /\ Clean(f[n].lines)
  BY <1>1, <1>2, RunTyped, RunClean
<1> DEFINE N == { n \in Nat : n \in 0 .. Len(es) => Comes(text, f[n], es, n) }
<1>4. 0 \in N
  BY <1>2, ComesFirst
<1>5. ASSUME NEW n \in N PROVE n + 1 \in N
  <2> SUFFICES ASSUME n + 1 \in 0 .. Len(es) PROVE Comes(text, f[n + 1], es, n + 1)
    OBVIOUS
  <2>1. n \in Nat /\ n \in 0 .. Len(es) /\ n + 1 \in 1 .. Len(es) /\ (n + 1) - 1 = n
    BY <1>0
  <2>2. Comes(text, f[n], es, n)
    BY <2>1
  <2> HIDE DEF N
  <2>3. f[n + 1] = applyConfigEdit(f[n], es[n + 1])
    BY <1>1, <2>1 DEF Runs
  <2>4. es[n + 1] \in EditSet
    BY <2>1, ElementOfSeq
  <2>5. IsText(f[n]) /\ Clean(f[n + 1].lines)
    BY <1>3, <2>1
  <2> QED BY <2>1, <2>2, <2>3, <2>4, <2>5, ComesOn
<1> HIDE DEF N
<1>6. Nat \subseteq N
  BY <1>4, <1>5, NaturalInduction
<1>7. Len(es) \in 0 .. Len(es)
  BY <1>0
<1>8. Comes(text, f[Len(es)], es, Len(es))
  BY <1>0, <1>6, <1>7 DEF N
<1> QED BY <1>2, <1>8

\* And all of them keep what they do not edit.
LEMMA RunKeeps ==
    ASSUME NEW text, IsText(text), NEW es \in Seq(EditSet), NEW u, u = ApplyEdits(text, es),
           Clean(u.lines), NEW E, \A i \in 1 .. Len(es) : EditedKey(es[i]) \in E,
           \A k : Bound(u.lines, k, Junk) => k \in E
    PROVE  Extends(Part(text.lines, KeptLen(text), E), Part(u.lines, KeptLen(u), E))
<1>0. Len(es) \in Nat
  BY LenProperties
<1>1. PICK f : Runs(f, text, es)
  BY <1>0, RunExists
<1>2. f[0] = text /\ f[Len(es)] = u
  BY <1>1 DEF Runs
<1>3. \A n \in 0 .. Len(es) : IsText(f[n]) /\ Clean(f[n].lines)
  BY <1>1, <1>2, RunTyped, RunClean
<1> DEFINE part(t) == Part(t.lines, KeptLen(t), E)
           spoilt(t) == \E k : k \notin E /\ Bound(t.lines, k, Junk)
           N == { n \in Nat : n \in 0 .. Len(es) => Extends(part(text), part(f[n])) \/ spoilt(f[n]) }
<1>4. 0 \in N
  <2>1. KeptLen(text) \in 0 .. Len(text.lines) /\ text.lines \in Seq(LineSet)
    BY KeptIs DEF IsText
  <2>2. Extends(part(text), part(text))
    BY <2>1, PartIs, ExtendsItself
  <2> HIDE DEF part, spoilt
  <2> QED BY <1>2, <2>2
<1>5. ASSUME NEW n \in N PROVE n + 1 \in N
  <2> SUFFICES ASSUME n + 1 \in 0 .. Len(es)
               PROVE  Extends(part(text), part(f[n + 1])) \/ spoilt(f[n + 1])
    OBVIOUS
  <2>1. n \in Nat /\ n \in 0 .. Len(es) /\ n + 1 \in 1 .. Len(es) /\ (n + 1) - 1 = n
    BY <1>0
  <2>2. Extends(part(text), part(f[n])) \/ spoilt(f[n])
    BY <2>1
  <2> HIDE DEF N
  <2>3. f[n + 1] = applyConfigEdit(f[n], es[n + 1])
    BY <1>1, <2>1 DEF Runs
  <2>4. es[n + 1] \in EditSet /\ EditedKey(es[n + 1]) \in E
    BY <2>1, ElementOfSeq
  <2>5. IsText(f[n]) /\ Clean(f[n + 1].lines)
    BY <1>3, <2>1
  <2>6. Extends(part(f[n]), part(f[n + 1])) \/ spoilt(f[n + 1])
    BY <2>3, <2>4, <2>5, EditKeeps
  <2>7. spoilt(f[n]) => spoilt(f[n + 1])
    <3> SUFFICES ASSUME NEW k, k \notin E, Bound(f[n].lines, k, Junk) PROVE spoilt(f[n + 1])
      OBVIOUS
    <3>1. Bound(f[n + 1].lines, k, Junk)
      <4>1. k # EditedKey(es[n + 1])
        BY <2>4
      <4> QED BY <2>3, <2>4, <2>5, <4>1, JunkStays
    <3> QED BY <3>1
  <2> HIDE DEF part, spoilt
  <2> QED BY <2>2, <2>6, <2>7, ExtendsOn
<1> HIDE DEF N
<1>6. Nat \subseteq N
  BY <1>4, <1>5, NaturalInduction
<1>7. Len(es) \in 0 .. Len(es)
  BY <1>0
<1>8. Extends(part(text), part(f[Len(es)])) \/ spoilt(f[Len(es)])
  BY <1>0, <1>6, <1>7 DEF N
<1> QED BY <1>2, <1>8

\* What is edited into a clean text was clean.
LEMMA StartClean ==
    ASSUME NEW text, IsText(text), NEW es \in Seq(EditSet), Clean(ApplyEdits(text, es).lines)
    PROVE  Clean(text.lines)
<1>1. Len(es) \in Nat
  BY LenProperties
<1>2. PICK f : Runs(f, text, es)
  BY <1>1, RunExists
<1>3. f[0] = text /\ f[Len(es)] = ApplyEdits(text, es)
  BY <1>2 DEF Runs
<1>4. \A n \in 0 .. Len(es) : Clean(f[n].lines)
  BY <1>2, <1>3, RunClean
<1>5. 0 \in 0 .. Len(es)
  BY <1>1
<1> QED BY <1>3, <1>4, <1>5

\* A key that is edited is edited a last time.
LEMMA LastIsOne ==
    ASSUME edits \in Seq(EditSet), NEW k \in Edited
    PROVE  LastTo(edits, Len(edits), k, LastEdit(k))
<1> DEFINE n == Len(edits)
           Q == { i \in 1 .. n : EditedKey(edits[i]) = k }
<1>1. n \in Nat /\ DOMAIN edits = 1 .. n
  BY LenProperties
<1>2. Q # {}
  BY <1>1 DEF Edited
<1> DEFINE i == Max(Q)
<1>3. i \in Q /\ \A y \in Q : y <= i
  <2> HIDE DEF i
  <2>1. Q \in SUBSET (1 .. n)
    OBVIOUS
  <2> HIDE DEF Q, n
  <2> QED BY <1>1, <1>2, <2>1, MinMaxOf DEF i
<1> HIDE DEF i
<1>4. i \in 1 .. n /\ EditedKey(edits[i]) = k
  BY <1>3
<1>5. \A j \in i + 1 .. n : EditedKey(edits[j]) # k
  <2> TAKE j \in i + 1 .. n
  <2>1. j \in 1 .. n /\ ~(j <= i)
    BY <1>1, <1>4
  <2> QED BY <1>3, <2>1
<1> HIDE DEF Q
<1>6. \E x \in DOMAIN edits :
         EditedKey(edits[x]) = k /\ \A j \in x + 1 .. Len(edits) : EditedKey(edits[j]) # k
  BY <1>1, <1>4, <1>5
<1>7. /\ LastEdit(k) \in DOMAIN edits /\ EditedKey(edits[LastEdit(k)]) = k
      /\ \A j \in LastEdit(k) + 1 .. Len(edits) : EditedKey(edits[j]) # k
  <2> DEFINE is(x) == EditedKey(edits[x]) = k
                      /\ \A j \in x + 1 .. Len(edits) : EditedKey(edits[j]) # k
  <2>1. \E x \in DOMAIN edits : is(x)
    BY <1>6
  <2>2. LastEdit(k) = CHOOSE x \in DOMAIN edits : is(x)
    BY DEF LastEdit
  <2> HIDE DEF is
  <2>3. LastEdit(k) \in DOMAIN edits /\ is(LastEdit(k))
    BY <2>1, <2>2
  <2> QED BY <2>3 DEF is
<1> QED BY <1>1, <1>7 DEF LastTo

\* The text about to be written is the text read, edited.
DraftInv == pc = "write" /\ verb # "init" => draft = ApplyEdits(base, edits)

LEMMA DraftStep ==
    ASSUME PlaceInv, DraftInv, [Next]_vars
    PROVE  DraftInv'
<1>1. CASE BeginSet \/ BeginPatch \/ BeginRead \/ BeginDiscover
  <2>1. pc' # "write"
    BY <1>1 DEF BeginSet, BeginPatch, BeginRead, BeginDiscover, Answer, Goto, Aim
  <2> QED BY <2>1 DEF DraftInv
<1>2. CASE BeginInit
  <2>1. Begin("init")
    BY <1>2 DEF BeginInit
  <2> QED BY <2>1, BeginIs DEF DraftInv
<1>3. CASE Stat \/ ProbeVersion \/ ProbeModels \/ Deliver \/ Read \/ Write
  <2>1. pc' # "write"
    BY <1>3, ReadIs DEF Stat, ProbeVersion, ProbeModels, Deliver, NextPort, Write, Answer, Goto
  <2> QED BY <2>1 DEF DraftInv
<1>4. CASE Mutate
  <2> DEFINE text == files[target]
             edited == ApplyEdits(text, edits)
  <2>1. edits' = edits
    BY <1>4 DEF Mutate
  <2>2. CASE text = NoFile
    BY <1>4, <2>2 DEF Mutate, Answer, DraftInv
  <2>3. CASE text # NoFile
    <3>1. /\ base' = text
          /\ \E passed \in Judgements(edited.lines) :
               IF passed THEN draft' = edited /\ Goto("write")
               ELSE Answer("E_CONFIG_WRITE_FAILED", 3) /\ UNCHANGED draft
      BY <1>4, <2>3 DEF Mutate
    <3>2. pc' = "write" => draft' = edited
      BY <3>1 DEF Answer
    <3> QED BY <2>1, <3>1, <3>2 DEF DraftInv
  <2> QED BY <2>2, <2>3
<1>5. CASE UNCHANGED << session, pc, job >>
  <2>1. verb' = verb
    BY <1>5, SameVerb
  <2> QED BY <1>5, <2>1 DEF DraftInv, job
<1> QED BY <1>1, <1>2, <1>3, <1>4, <1>5 DEF Next, Command, HandEdit, ServerDrift, vars

\* So it has the effect that it should.
LEMMA EffectIs ==
    ASSUME TypeOK, VerdictInv, DraftInv
    PROVE  EditTakesEffect
<1> SUFFICES ASSUME pc = "write", verb # "init"
             PROVE  LET before == Values(base.lines)
                        after  == Values(draft.lines)
                        lost   == { k \in Edited : Swallowed(k) }
                    IN  /\ DOMAIN after = DOMAIN before \cup (Edited \ lost)
                        /\ Cardinality(lost) <= 1
                        /\ \A k \in Edited \ lost :
                             LET given == edits[LastEdit(k)].value
                                 once  == Cardinality({ i \in DOMAIN edits : EditedKey(edits[i]) = k }) = 1
                             IN  /\ after[k] \in {given} \cup Expansions(given)
                                 /\ k \notin DOMAIN before /\ once => after[k] = given
                        /\ \A k \in DOMAIN before \ Edited : after[k] = before[k]
                        /\ IsPrefix(Unedited(Kept(base)), Unedited(draft.lines))
  BY DEF EditTakesEffect
<1> DEFINE n == Len(edits)
           lost == { k \in Edited : Swallowed(k) }
           before == Values(base.lines)
           after == Values(draft.lines)
<1>1. /\ IsText(base) /\ IsText(draft) /\ edits \in Seq(EditSet)
      /\ draft = ApplyEdits(base, edits) /\ TRUE \in Judgements(draft.lines)
  BY TypeParts DEF VerdictInv, DraftInv
<1>2. /\ n \in Nat /\ DOMAIN edits = 1 .. n /\ base.lines \in Seq(LineSet) /\ draft.lines \in Seq(LineSet)
      /\ base.closed \in BOOLEAN
  BY <1>1, LenProperties DEF IsText
<1>3. Clean(draft.lines) /\ Clean(base.lines) /\ \A k : ~Bound(draft.lines, k, Junk)
  <2>1. LoadError(draft.lines, Neutral) = ""
    BY <1>1 DEF Judgements
  <2>2. WellFormed(draft.lines)
    BY <2>1 DEF LoadError, Decodes
  <2>3. Clean(draft.lines)
    BY <1>2, <2>2, WellFormedIsClean
  <2>4. \A i \in Kind(draft.lines, "key") : draft.lines[i].value # Junk
    <3>1. Junk[1] = "null"
      BY DEF Junk
    <3> QED BY <2>2, <3>1 DEF WellFormed
  <2>5. \A k : ~Bound(draft.lines, k, Junk)
    BY <2>4 DEF Bound
  <2> QED BY <1>1, <2>3, <2>5, StartClean
<1>4. Comes(base, draft, edits, n)
  BY <1>1, <1>3, RunComes
<1>5. EditedTo(edits, n) = Edited
  BY <1>2 DEF EditedTo, Edited
<1>6. DOMAIN before = Keys(base.lines) /\ DOMAIN after = Keys(draft.lines)
  BY DEF Values
<1> HIDE DEF before, after
<1>7. /\ Keys(base.lines) \subseteq Keys(draft.lines)
      /\ Keys(draft.lines) \subseteq Keys(base.lines) \cup Edited
      /\ \A k, v : k \notin Edited /\ Bound(draft.lines, k, v) => Bound(base.lines, k, v)
  <2>1. /\ Keys(base.lines) \subseteq Keys(draft.lines)
        /\ Keys(draft.lines) \subseteq Keys(base.lines) \cup Edited
        /\ \A k, v : k \notin Edited =>
              \/ Bound(draft.lines, k, v) <=> Bound(base.lines, k, v)
              \/ Bound(draft.lines, k, v) <=> v = Junk
    BY <1>4, <1>5 DEF Comes, OthersStay
  <2> QED BY <1>3, <2>1
<1>8. lost = Edited \ Keys(draft.lines)
  <2>1. ASSUME NEW k \in Edited, k \notin Keys(draft.lines) PROVE Swallowed(k)
    <3>1. /\ base.closed = FALSE /\ Wherein(base, draft, Edited)
          /\ TableAt(base.lines, Len(base.lines)) = Front(k)
      BY <1>4, <1>5, <2>1 DEF Comes, OneLost
    <3>2. \/ Last(base.lines).comment
          \/ Last(base.lines).kind = "key" /\ PathAt(base.lines, Len(base.lines)) \in Edited
      BY <1>3, <3>1 DEF Wherein, EndKey
    <3> QED BY <1>7, <2>1, <3>1, <3>2 DEF Swallowed
  <2>2. \A k : Swallowed(k) => k \notin Keys(draft.lines)
    BY DEF Swallowed
  <2> QED BY <2>1, <2>2
<1> HIDE DEF lost
<1>9. DOMAIN after = DOMAIN before \cup (Edited \ lost)
  BY <1>6, <1>7, <1>8
<1>10. Cardinality(lost) <= 1
  <2>1. \A k, l \in lost : k = l
    BY <1>4, <1>5, <1>8 DEF Comes, OneLost
  <2>2. lost = {} \/ \E k : lost = {k}
    BY <2>1
  <2>3. Cardinality(lost) = 0 \/ Cardinality(lost) = 1
    BY <2>2, FS_EmptySet, FS_Singleton
  <2> QED BY <2>3
<1>11. \A k, v : Bound(draft.lines, k, v) => after[k] = v
  BY <1>3, OneValue DEF after
<1>12. \A k, v : Bound(base.lines, k, v) => before[k] = v
  BY <1>3, OneValue DEF before
<1>13. ASSUME NEW k \in Edited \ lost
       PROVE  LET given == edits[LastEdit(k)].value
                  once  == Cardinality({ i \in DOMAIN edits : EditedKey(edits[i]) = k }) = 1
              IN  /\ after[k] \in {given} \cup Expansions(given)
                  /\ k \notin DOMAIN before /\ once => after[k] = given
  <2> DEFINE i == LastEdit(k)
             Q == { j \in DOMAIN edits : EditedKey(edits[j]) = k }
  <2>1. LastTo(edits, n, k, i)
    BY <1>1, LastIsOne
  <2>2. PICK v : Bound(draft.lines, k, v)
    BY <1>8, KeysAreBound
  <2>3. after[k] = v
    BY <1>11, <2>2
  <2>4. /\ v \in {edits[i].value} \cup Expansions(edits[i].value)
        /\ k \notin Keys(base.lines) /\ (\A j \in 1 .. n : EditedKey(edits[j]) = k => j = i) =>
               v = edits[i].value
    <3>1. v # Junk
      BY <1>3, <2>2
    <3> QED BY <1>4, <2>1, <2>2, <3>1 DEF Comes, LastCounts, Outcomes
  <2>5. ASSUME Cardinality(Q) = 1 PROVE \A j \in 1 .. n : EditedKey(edits[j]) = k => j = i
    <3>1. Q \in SUBSET (1 .. n) /\ i \in Q
      BY <1>2, <2>1 DEF LastTo
    <3>2. IsFiniteSet(Q)
      BY <1>2, <3>1, FewIsFinite
    <3> HIDE DEF Q
    <3>3. PICK x : Q = {x}
      BY <2>5, <3>2, FS_Singleton
    <3> QED BY <1>2, <3>1, <3>3 DEF Q
  <2> HIDE DEF i, Q
  <2> QED BY <1>6, <2>3, <2>4, <2>5 DEF i, Q
<1>14. \A k \in DOMAIN before \ Edited : after[k] = before[k]
  <2> TAKE k \in DOMAIN before \ Edited
  <2>1. PICK v : Bound(draft.lines, k, v)
    BY <1>6, <1>7, KeysAreBound
  <2>2. Bound(base.lines, k, v)
    BY <1>7, <2>1
  <2> QED BY <1>11, <1>12, <2>1, <2>2
<1>15. IsPrefix(Unedited(Kept(base)), Unedited(draft.lines))
  <2> DEFINE b == draft.lines
             m == KeptLen(draft)
             first == Unedited(Kept(base))
  <2>1. \A i \in 1 .. Len(edits) : EditedKey(edits[i]) \in Edited
    BY <1>2 DEF Edited
  <2>2. Extends(Part(base.lines, KeptLen(base), Edited), Part(b, m, Edited))
    BY <1>1, <1>3, <2>1, RunKeeps
  <2>3. first = Part(base.lines, KeptLen(base), Edited)
    BY <1>1, KeptIs
  <2>4. m \in 0 .. Len(b) /\ Unedited(b) = Part(b, Len(b), Edited)
    BY <1>1, KeptIs
  <2>5. b \in Seq(LineSet)
    BY <1>2
  <2> HIDE DEF b, m, first
  <2>6. Len(b) \in m .. Len(b)
    BY <2>4, <2>5, LenProperties
  <2>7. Extends(Part(b, m, Edited), Part(b, Len(b), Edited))
    BY <2>4, <2>5, <2>6, PartMore
  <2>8. Extends(first, Unedited(b))
    BY <2>2, <2>3, <2>4, <2>7, ExtendsOn
  <2>9. IsPrefix(first, Unedited(b))
    BY <2>8, ExtendsIsPrefix
  <2> QED BY <2>9 DEF b, first
<1> QED BY <1>9, <1>10, <1>13, <1>14, <1>15 DEF before, after, lost

\* config set and config patch have the effect that their arguments name: what they
\* edit line by line, without parsing it, is, once it was validated, the text there was
\* with each edited key at its last value, the others at theirs, and its comments and
\* lines in order, but for what EditTakesEffect excepts (applyConfigEdit, tableRange,
\* runConfigMutation).
THEOREM EditsHold == Spec => []EditTakesEffect
<1>1. ASSUME Init PROVE TypeOK /\ PlaceInv /\ VerdictInv /\ DraftInv
  <2>1. VerdictInv /\ DraftInv
    BY <1>1, SetupAssumption DEF Init, VerdictInv, VerdictsHold, DraftInv
  <2> QED BY <1>1, <2>1, PlaceFirst, TypeFirst
<1>2. ASSUME TypeOK, PlaceInv, VerdictInv, DraftInv, [Next]_vars
      PROVE  (TypeOK /\ PlaceInv /\ VerdictInv /\ DraftInv)'
  BY <1>2, TypeStep, PlaceStep, VerdictStep, DraftStep, ScaffoldAccepted
<1>3. ASSUME TypeOK, VerdictInv, DraftInv PROVE EditTakesEffect
  BY <1>3, EffectIs
<1> QED BY <1>1, <1>2, <1>3, PTL DEF Spec
=============================================================================
