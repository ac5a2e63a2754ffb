---------------------------- MODULE DiffCommand -----------------------------
(***************************************************************************)
(* `inferctl diff`: it reads two snapshots, or a stored one and the state  *)
(* of now, and reports what changed (cmd/inferctl/diff.go).                *)
(***************************************************************************)
EXTENDS ChangeClassifier, SequencesExt

CONSTANTS
    Capture,         \* what a snapshot can hold: its version, its models and what is compared
    CurrentVersion   \* snapshotSchemaVersion

ASSUME CaptureAssumption == \A c \in Capture : IsState(c.state) /\ IsFiniteSet(c.models)

VARIABLES pc, mode, before, after, changes, result

vars == << pc, mode, before, after, changes, result >>

Nothing == [version |-> "", models |-> {}]

\* What the classifier sees of a capture: of the models their number.
Compared(c) == [c.state EXCEPT !.loaded = Cardinality(c.models)]

\* Types, and: the command is done exactly when it has a result.
TypeOK ==
    /\ pc \in {"start", "before", "after", "compare", "done"}
    /\ mode \in {"files", "since"}
    /\ before \in Capture \cup {Nothing} /\ after \in Capture \cup {Nothing}
    /\ result.code \in {"", "ok", "E_INVALID_ARG", "E_CONFIG_UNREADABLE",
                        "E_CONFIG_INVALID", "E_CAPTURE"}
    /\ result = [code |-> result.code, human |-> result.human]
    /\ pc = "done" <=> result.code # ""

Init ==
    /\ pc = "start" /\ mode \in {"files", "since"}
    /\ before = Nothing /\ after = Nothing
    /\ changes = << >> /\ result = [code |-> "", human |-> << >>]

End(code) == pc' = "done" /\ result' = [result EXCEPT !.code = code]

\* The flags: --since goes with --task alone, otherwise both paths are needed.
ParseFlags ==
    /\ pc = "start"
    /\ \/ pc' = "before" /\ UNCHANGED result
       \/ End("E_INVALID_ARG")
    /\ UNCHANGED << mode, before, after, changes >>

\* A file that cannot be read, or is no snapshot.
Unread == {"E_CONFIG_UNREADABLE", "E_CONFIG_INVALID"}

\* selectStoredSnapshot also refuses where no stored snapshot is old enough, or two
\* are of the same time.
ReadBefore ==
    /\ pc = "before"
    /\ \/ before' \in Capture /\ pc' = "after" /\ UNCHANGED result
       \/ /\ \E code \in Unread \cup (IF mode = "since" THEN {"E_INVALID_ARG"} ELSE {}) : End(code)
          /\ UNCHANGED before
    /\ UNCHANGED << mode, after, changes >>

\* The second file, or buildSnapshot, whose captures have the current version and
\* which can fail like any command that probes.
ReadAfter ==
    /\ pc = "after"
    /\ \/ /\ after' \in Capture
          /\ mode = "since" => after'.version = CurrentVersion /\ after'.state.task = before.state.task
          /\ pc' = "compare" /\ UNCHANGED result
       \/ /\ mode = "files"
          /\ \E code \in Unread : End(code)
          /\ UNCHANGED after
       \/ mode = "since" /\ End("E_CAPTURE") /\ UNCHANGED after
    /\ UNCHANGED << mode, before, changes >>

-----------------------------------------------------------------------------
\* The changes of some types, in their order.
OfTypes(ranked, types) ==
    EntriesAt(ranked, { i \in DOMAIN ranked : ranked[i].type \in types })

First(seq) == SubSeq(seq, 1, IF Len(seq) > 1 THEN 1 ELSE Len(seq))

\* writeDiffHuman: four groups, in each the changes of its types in their order;
\* of the route and of the fallback the first only.
HumanWithoutInstalled(ranked) ==
    First(OfTypes(ranked, {"selected_route"}))
    \o First(OfTypes(ranked, {"fallback_status"}))
    \o OfTypes(ranked, {"backend_reachability"})
    \o OfTypes(ranked, {"selected_model_readiness", "loaded_model_count"})
    \o OfTypes(ranked, {"warning_codes", "error_codes", "recommended_action"})

Human(ranked) ==
    First(OfTypes(ranked, {"selected_route"}))
    \o First(OfTypes(ranked, {"fallback_status"}))
    \o OfTypes(ranked, {"backend_reachability"})
    \o OfTypes(ranked, {"selected_model_readiness", "installed_model_count",
                        "loaded_model_count"})
    \o OfTypes(ranked, {"warning_codes", "error_codes", "recommended_action"})

\* The two versions must agree; two files must have the current one.
Compare ==
    /\ pc = "compare"
    /\ IF \/ before.version # after.version
          \/ mode = "files" /\ before.version # CurrentVersion
       THEN End("E_INVALID_ARG") /\ UNCHANGED changes
       ELSE /\ changes' = Changes(Compared(before), Compared(after))
            /\ result' = [code |-> "ok", human |-> Human(RankedChanges(changes'))]
            /\ pc' = "done"
    /\ UNCHANGED << mode, before, after >>

Next == ParseFlags \/ ReadBefore \/ ReadAfter \/ Compare

Spec == Init /\ [][Next]_vars

-----------------------------------------------------------------------------
(* Properties *)

Reported == result.code = "ok"

\* A reader who knows the earlier snapshot and applies the reported changes knows
\* the later one, as far as the two are about one task: nothing that was compared
\* is lost, whether it appeared, disappeared or changed (appendStringSetChanges,
\* appendReachabilityChanges).
ChangesExplain ==
    Reported /\ before.state.task = after.state.task =>
        Apply(Compared(before), changes) = Compared(after)

\* The order is that of the domain, and complete: ranks are 1, 2, ... without ties,
\* and what a change is about outweighs its severity: a low-severity change of a
\* type told earlier precedes a high-severity one of a type told later (rankChanges).
RanksAreTotal ==
    Reported =>
        LET rank == Ranks(changes)
        IN  /\ { rank[a] : a \in DOMAIN changes } = 1 .. Cardinality(DOMAIN changes)
            /\ \A a, b \in DOMAIN changes :
                 ChangeTypeRank(a.type) < ChangeTypeRank(b.type) => rank[a] < rank[b]

\* Human output shows each change that --json shows, once (the groups of
\* writeDiffHuman cover the types of classifyControlPlaneChanges).
HumanShowsAll ==
    Reported => /\ ToSet(result.human) = DOMAIN changes
                /\ Len(result.human) = Cardinality(DOMAIN changes)
=============================================================================
