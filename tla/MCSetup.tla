------------------------------ MODULE MCSetup ------------------------------
(* Small instances of Setup for TLC: a handful of files, arguments and servers. *)
EXTENDS Setup

S(s) == << "string", s >>
I(i) == << "int", i >>
B(b) == << "bool", b >>

Strings == STRING

Urls == {"http://local", "http://remote", "http://ollama", "http://alt"}

Ports_ == {1234, 8080, 8081, 8090, 11434}
UrlOf == [p \in Ports_ |-> IF p = 11434 THEN "http://ollama" ELSE IF p = 8090 THEN "http://alt" ELSE "http://local"]

\* What the template makes of three values on the lines that they may replace.  The
\* text `$2` is that of the whole value replaced, in quotation marks: no TOML.  `$0` is
\* the line with its newline, which ends the string early; on a last line without a
\* newline it is still a line within a string.
Dollar ==
    LET written == { Assign("literal_value", S(v)) : v \in {"old", "two-lines", "pa", "pa$s", "$2", "$0"} }
        lines   == written \cup { Commented(l) : l \in written }
    IN  [e \in {S("pa$s")} \X lines \X BOOLEAN |-> S("pa")] @@
        [e \in {S("$2"), S("$0")} \X lines \X BOOLEAN |->
            IF e[1] = S("$0") /\ e[3] THEN << >> ELSE << "null", "" >>]

Profile(mode) ==
    << Header(<< "meta" >>), Assign("schema_version", S("0.1")),
       Header(<< "profile" >>), Assign("name", S("w")), Assign("max_context_tokens", I(8)),
       Assign("max_concurrent_models", I(1)), Assign("allow_premium", B(FALSE)),
       Commented(Assign("mode", S(mode))) >>

Backend_(name, kind, url, default) ==
    << Header(<< "backends", name >>), Assign("kind", S(kind)), Assign("base_url", S(url)),
       Assign("default", B(default)) >>

\* A backend with a credential, in a file that ends in a comment without a newline.
Secured ==
    Open(Profile("warn") \o Backend_("main", "openai_compat", "http://remote", TRUE)
         \o << Assign("auth_header_name", S("Authorization")),
               Header(<< "backends", "main", "credential" >>), Assign("version", S("v1")),
               Assign("source", S("literal")), Commented(Assign("literal_value", S("old"))) >>)

\* A file that ends in a key without a newline.
Unended ==
    Open(Profile("warn") \o Backend_("main", "ollama", "http://ollama", TRUE))

\* The same as Secured by another source.
Referring(source, key, value) ==
    Text(Profile("warn") \o Backend_("main", "openai_compat", "http://local", TRUE)
         \o << Assign("auth_header_name", S("Authorization")),
               Header(<< "backends", "main", "credential" >>), Assign("version", S("v1")),
               Assign("source", S(source)), Assign(key, S(value)), Assign("account", S("me")) >>)

Two ==
    Text(Profile("") \o Backend_("main", "ollama", "http://ollama", TRUE) \o << Assign("timeout_ms", I(0)) >>
         \o Backend_("spare", "mlx", "http://local", FALSE)
         \o << Header(<< "routing", "code" >>), Assign("model", S("m")), Assign("backend", S("main")) >>)

\* One server of a kind is already known.
Known == Text(Profile("warn") \o Backend_("ollama", "ollama", "http://alt", TRUE)
              \o Backend_("mlx", "mlx", "http://alt", FALSE))

\* A server of the kind mlx is known as another kind, which may have a credential.
Lent ==
    Text(Profile("warn") \o Backend_("mlx", "openai_compat", "http://local", TRUE)
         \o << Assign("auth_header_name", S("Authorization")),
               Header(<< "backends", "mlx", "credential" >>), Assign("version", S("v1")),
               Assign("source", S("literal")), Assign("literal_value", S("old")) >>)

Alias(a, evidence) ==
    << Header(<< "models", a >>), Assign("backend", S("main")), Assign("model", S("m")) >> \o
    (IF evidence = "none" THEN << >>
     ELSE << Header(<< "models", a, "capabilities", "tools" >>), Assign("status", S(evidence)),
             Assign("source", S("declared")) >>)

Catalogued ==
    Text(Two.lines \o Alias("a", "supported") \o Alias("b", "none") \o Alias("c", "unsupported"))

\* A table that TOML refuses to see twice, made by a dotted key, in a file that ends in
\* white space without a newline.
Dangling ==
    Open(Profile("warn") \o Backend_("main", "ollama", "http://ollama", TRUE)
         \o << [Blank EXCEPT !.kind = "key", !.path = << "credential", "version" >>, !.value = S("v1")], Blank >>)

Texts == { Secured, Referring("environment", "environment_variable", "TOKEN"),
           Referring("literal", "literal_value", "two-lines"),
           Referring("secure_store", "service", "inferctl"), Known, Catalogued, Dangling, Unended, Lent }

FewTexts == { Secured }

Arg(path, raw, type) == [path |-> path, raw |-> raw, type |-> type]

Arguments ==
    { Arg(<< "backends", "main", "credential", "literal_value" >>, S("pa$s"), ""),
      Arg(<< "backends", "main", "credential", "source" >>, S("secure_store"), ""),
      Arg(<< "backends", "main", "timeout_ms" >>, I(5), ""),
      Arg(<< "backends", "spare", "default" >>, B(TRUE), ""),
      Arg(<< "schema_version" >>, S("0.2"), ""),
      Arg(<< "profile", "mode" >>, S("strict"), "bool"),
      Arg(<< "profile", "mode" >>, S("strict"), ""),
      Arg(<< "models", "b", "capabilities", "tools", "status" >>, S("supported"), ""),
      Arg(<< "profile", "name" >>, << "null", "" >>, "") }

Secrets == { Arg(<< "backends", "main", "credential", "literal_value" >>, S("pa$s"), "") }

Fragments ==
    { << Header(<< "backends", "main", "credential" >>), Assign("literal_value", S("$2")) >>,
      << Header(<< "backends", "main", "credential" >>), Assign("literal_value", S("$0")) >>,
      << Header(<< "backends", "main" >>), Assign("default", B(FALSE)),
         Header(<< "backends", "spare" >>), Assign("default", B(TRUE)) >>,
      << Header(<< "backends", "main", "credential" >>), Assign("literal_value", S("pa$s")),
         Assign("service", S("inferctl")), Assign("source", S("literal")) >>,
      << Header(<< "backends", "main" >>), Assign("timeout_ms", I(5)), Assign("default", B(TRUE)) >>,
      Alias("a", "supported") \o Alias("b", "none") \o Alias("c", "unsupported"),
      << Assign("schema_version", S("0.3")), Header(<< "meta" >>), Assign("schema_version", S("0.2")) >>,
      << Assign("mode", S("a")), Assign("mode", S("b")) >> }

Sessions ==
    { << "discover", "patch" >>, << "set", "validate" >>,
      << "patch", "show" >>, << "set", "show" >>, << "init", "set", "use" >>,
      << "patch", "validate", "strict" >> }

OneSet == { << "set", "use" >> }

Env(named, mode, default, secrets, store) ==
    [named |-> named, xdg |-> FALSE, mode |-> mode, default |-> default, secrets |-> secrets,
     store |-> store]

Environments ==
    { Env("unset", "", "", << >>, "none"),
      Env("unset", "bogus", "spare", [v \in {"TOKEN"} |-> "secret"], "usable"),
      Env("home", "strict", "main", [v \in {"TOKEN"} |-> ""], "usable") }

At(local, home) == [p \in Place |-> IF p = "local" THEN local ELSE home]

Starts == { At(t, NoFile) : t \in Texts } \cup { At(NoFile, Two) }

Silent == [version |-> FALSE, models |-> "none"]
Ollama == [version |-> TRUE, models |-> "ok"]
OpenAI == [version |-> FALSE, models |-> "ok"]
Guarded == [version |-> FALSE, models |-> "refused"]

Answers == { Silent, OpenAI, Guarded }

Listening ==
    { [p \in Ports_ |-> IF p = 11434 THEN Ollama ELSE IF p = 8080 THEN OpenAI ELSE Silent] }
=============================================================================
