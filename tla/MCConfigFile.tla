---------------------------- MODULE MCConfigFile ----------------------------
(* Small instances of ConfigFile for TLC: two backends, of which exactly one
   must be the default, and one independent setting. *)
EXTENDS ConfigFile, TLC

Keys == { "ollama.default", "mlx.default", "allow_premium" }

MCValid == { t \in Text : t["ollama.default"] # t["mlx.default"] }

MCScaffold == [k \in Key |-> k = "ollama.default"]

\* One key at a time is refused where it would leave two defaults or none; the
\* patch changes both.
MCEdits == { "mlx.default" :> TRUE,
             "allow_premium" :> TRUE,
             "ollama.default" :> FALSE @@ "mlx.default" :> TRUE }

Symmetry == Permutations(Proc)
=============================================================================
