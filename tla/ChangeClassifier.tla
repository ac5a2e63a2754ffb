-------------------------- MODULE ChangeClassifier --------------------------
(***************************************************************************)
(* What `diff` and the event stream of `status --watch` say of two         *)
(* captured states: which aspects changed and in which order they are      *)
(* told (cmd/inferctl/readiness_contract.go).                              *)
(***************************************************************************)
EXTENDS Integers, Sequences, FiniteSets

CONSTANT SubjectOrder    \* the subjects of changes, sorted as strings

ASSUME SubjectAssumption ==
    /\ DOMAIN SubjectOrder \subseteq Nat
    /\ {"", "models"} \subseteq { SubjectOrder[i] : i \in DOMAIN SubjectOrder }

\* A captured state, as far as it is compared, is a record of
\*   task, route (backend and model, or << >>), fallback, ready,
\*   status (of each backend listed), warnings and errors (their codes),
\*   action, loaded and installed (how many).
\* A backend that is listed has a status; what changes are about can be sorted.
IsState(s) ==
    /\ s = [task |-> s.task, route |-> s.route, fallback |-> s.fallback, ready |-> s.ready,
            status |-> s.status, warnings |-> s.warnings, errors |-> s.errors,
            action |-> s.action, loaded |-> s.loaded, installed |-> s.installed]
    /\ s.fallback \in BOOLEAN /\ s.ready \in BOOLEAN
    /\ s.status = [b \in DOMAIN s.status |-> s.status[b]]
    /\ \A b \in DOMAIN s.status : s.status[b] # ""
    /\ IsFiniteSet(DOMAIN s.status) /\ IsFiniteSet(s.warnings) /\ IsFiniteSet(s.errors)
    /\ {s.task} \cup DOMAIN s.status \cup s.warnings \cup s.errors
            \cup (IF s.route = << >> THEN {} ELSE {s.route[2]})
          \subseteq { SubjectOrder[i] : i \in DOMAIN SubjectOrder }

\* What can differ is an aspect of it: a kind of change, about something.
About(types, subjects) == [type : types, about : subjects]

CodesBeforeOnly(before, after) ==
    About({"selected_route", "fallback_status", "selected_model_readiness",
           "recommended_action"}, {before.task})
    \cup About({"loaded_model_count", "installed_model_count"}, {"models"})
    \cup About({"backend_reachability"}, DOMAIN before.status \cup DOMAIN after.status)
    \cup About({"warning_codes"}, before.warnings)
    \cup About({"error_codes"}, before.errors)

Aspects(before, after) ==
    About({"selected_route", "fallback_status", "selected_model_readiness",
           "recommended_action"}, {before.task})
    \cup About({"loaded_model_count", "installed_model_count"}, {"models"})
    \cup About({"backend_reachability"}, DOMAIN before.status \cup DOMAIN after.status)
    \cup About({"warning_codes"}, before.warnings \cup after.warnings)
    \cup About({"error_codes"}, before.errors \cup after.errors)

\* The value of an aspect; a backend that is not listed has the status "".
ValueOf(s, a) ==
    CASE a.type = "selected_route" -> s.route
      [] a.type = "fallback_status" -> s.fallback
      [] a.type = "selected_model_readiness" -> s.ready
      [] a.type = "backend_reachability" ->
            IF a.about \in DOMAIN s.status THEN s.status[a.about] ELSE ""
      [] a.type = "warning_codes" -> a.about \in s.warnings
      [] a.type = "error_codes" -> a.about \in s.errors
      [] a.type = "recommended_action" -> s.action
      [] a.type = "loaded_model_count" -> s.loaded
      [] a.type = "installed_model_count" -> s.installed

\* classifyControlPlaneChanges: the aspects that differ, with both values and the
\* name the change goes by, which for readiness is the model selected afterwards.
Changes(before, after) ==
    [a \in { x \in Aspects(before, after) : ValueOf(before, x) # ValueOf(after, x) } |->
        [subject |-> IF a.type # "selected_model_readiness" THEN a.about
                     ELSE IF after.route = << >> THEN "" ELSE after.route[2],
         before  |-> ValueOf(before, a), after |-> ValueOf(after, a)]]

-----------------------------------------------------------------------------
\* changeTypeRank, and the severities given to each type.
ChangeTypeRank(type) ==
    CASE type = "selected_route" -> 0
      [] type = "fallback_status" -> 1
      [] type = "backend_reachability" -> 2
      [] type = "selected_model_readiness" -> 3
      [] type \in {"warning_codes", "error_codes"} -> 4
      [] type = "recommended_action" -> 5
      [] type \in {"loaded_model_count", "installed_model_count"} -> 6

SeverityRank(type) ==
    CASE type \in {"selected_route", "fallback_status", "backend_reachability",
                   "error_codes"} -> 0
      [] type \in {"selected_model_readiness", "warning_codes", "recommended_action"} -> 1
      [] type \in {"loaded_model_count", "installed_model_count"} -> 2

Position == [s \in { SubjectOrder[i] : i \in DOMAIN SubjectOrder } |->
                CHOOSE i \in DOMAIN SubjectOrder : SubjectOrder[i] = s]

\* rankChanges: rank and severity of the type, its name (which only the two counts
\* need), the subject. Changes that agree in all of these stay in the order they
\* were found in, by task: short slices are sorted by insertion.
SeverityFirst(changes) ==
    [a \in DOMAIN changes |->
        << SeverityRank(a.type), ChangeTypeRank(a.type),
           IF a.type = "loaded_model_count" THEN 1 ELSE 0,
           Position[changes[a].subject], Position[a.about] >>]

SortKeys(changes) ==
    [a \in DOMAIN changes |->
        << ChangeTypeRank(a.type), SeverityRank(a.type),
           IF a.type = "loaded_model_count" THEN 1 ELSE 0,
           Position[changes[a].subject], Position[a.about] >>]

LexLess(x, y) ==
    \E i \in 1 .. 5 : x[i] < y[i] /\ \A j \in 1 .. i - 1 : x[j] = y[j]

Ranks(changes) ==
    LET key == SortKeys(changes)
    IN  [a \in DOMAIN changes |->
            Cardinality({ b \in DOMAIN changes : LexLess(key[b], key[a]) }) + 1]

\* The entries of a sequence at some of its places, in their order.
EntriesAt(seq, places) ==
    [k \in 1 .. Cardinality(places) |->
        seq[CHOOSE i \in places : Cardinality({ j \in places : j < i }) + 1 = k]]

\* Changes in the order of their ranks: what --json shows.
RankedChanges(changes) ==
    LET rank == Ranks(changes)
    IN  [i \in 1 .. Cardinality(DOMAIN changes) |->
            CHOOSE a \in DOMAIN changes : rank[a] = i]

-----------------------------------------------------------------------------
\* What a reader of the changes makes of the state before.
Apply(s, changes) ==
    LET After(type, about, old) ==
            IF [type |-> type, about |-> about] \in DOMAIN changes
            THEN changes[[type |-> type, about |-> about]].after ELSE old
        Present(type, old) ==
            { c \in old \cup { a.about : a \in { x \in DOMAIN changes : x.type = type } } :
                After(type, c, TRUE) }
        listed == DOMAIN s.status
            \cup { a.about : a \in { x \in DOMAIN changes : x.type = "backend_reachability" } }
        status == [b \in listed |-> After("backend_reachability", b,
                                          IF b \in DOMAIN s.status THEN s.status[b] ELSE "")]
    IN  [s EXCEPT
            !.route     = After("selected_route", s.task, @),
            !.fallback  = After("fallback_status", s.task, @),
            !.ready     = After("selected_model_readiness", s.task, @),
            !.status    = [b \in { x \in listed : status[x] # "" } |-> status[b]],
            !.warnings  = Present("warning_codes", @),
            !.errors    = Present("error_codes", @),
            !.action    = After("recommended_action", s.task, @),
            !.loaded    = After("loaded_model_count", "models", @),
            !.installed = After("installed_model_count", "models", @)]
=============================================================================
