------------------------------- MODULE Triage -------------------------------
(***************************************************************************)
(* What triage makes of errors, warnings and findings: items in an order,  *)
(* filtered and cut, and the command it recommends                         *)
(* (cmd/inferctl/triage.go).                                               *)
(***************************************************************************)
EXTENDS DoctorReport, ChangeClassifier, SequencesExt

NoCommand == << >>

\* A message is told by the names in it; details that name no backend leave the item
\* out of a filter by backend.
Item(severity, code, subject, message, backend, command) ==
    [severity |-> severity, code |-> code, subject |-> subject, message |-> message,
     backend |-> backend, command |-> command]

\* triageItemFromError, of an access check and of a load.
RefusalItem(b) ==
    Item("error", "E_BACKEND_AUTH_FAILED", b, << b >>, b, Command("config show", b))
LoadItem == Item("error", "E_CONFIG", "E_CONFIG", << >>, NoBackend, NoCommand)

\* triageItemFromFinding, of a finding about a key of a backend.
FindingItem(severity, b) ==
    Item(severity, IF severity = "error" THEN "E_CONFIG_VALIDATION_FAILED" ELSE "W_CONFIG_VALIDATION",
         b, << b >>, b, Command("config explain", b))

\* triageItemFromWarning and commandForWarning: the subject is the first of backend,
\* task and model that the details name.
UnreachableItem(b) ==
    Item("warning", "W_BACKEND_UNREACHABLE", b, << b >>, b, Command("backends", b))
DegradedItem(b, listing) ==
    Item("warning", "W_BACKEND_DEGRADED", b, << b, listing >>, b, Command("backends", b))
NotInstalledItem(task, cfg) ==
    Item("warning", "W_MODEL_NOT_INSTALLED", IF cfg.backend = NoBackend THEN task ELSE cfg.backend,
         << cfg.model >>, cfg.backend, Command("model", cfg.model))
FallbackItem(task, model, primary) ==
    Item("warning", "W_FALLBACK_USED", task, << model, primary >>, NoBackend, Command("route", task))

\* The warnings of buildDoctorReport in the order it finds them.
BackendItems(b, seen, degraded) ==
    IF b \notin seen.reachable THEN << UnreachableItem(b) >>
    ELSE (IF << b, "installed" >> \in degraded THEN << DegradedItem(b, "installed") >> ELSE << >>)
      \o (IF << b, "loaded" >> \in degraded THEN << DegradedItem(b, "loaded") >> ELSE << >>)

TaskItems(t, seen) ==
    LET route == DoctorRoute(t.route, seen)
    IN  (IF route.position # 1 THEN << NotInstalledItem(t.task, t.route) >> ELSE << >>)
        \o (IF route.position > 1 THEN << FallbackItem(t.task, route.model, t.route.model) >> ELSE << >>)

DoctorItems(tasks, seen, degraded) ==
    FlattenSeq([k \in DOMAIN Order |-> BackendItems(Order[k], seen, degraded)])
    \o FlattenSeq([t \in DOMAIN tasks |-> TaskItems(tasks[t], seen)])

\* severityRank.
Urgency(severity) == CASE severity = "error" -> 0 [] severity = "warning" -> 1 [] OTHER -> 2

\* sortTriageItems: by severity, code, subject and message; equal ones stay in order.
\* All sources that are compared have different codes.
Key(item) ==
    << Urgency(item.severity), Position[item.code], Position[item.subject],
       IF Len(item.message) = 0 THEN 0 ELSE Position[item.message[1]],
       IF Len(item.message) < 2 THEN 0 ELSE Position[item.message[2]] >>

SortedItems(items) ==
    LET key == [i \in DOMAIN items |-> Key(items[i])]
        rank(i) == Cardinality({ j \in DOMAIN items :
                                   \/ LexLess(key[j], key[i])
                                   \/ key[j] = key[i] /\ j < i }) + 1
    IN  [n \in DOMAIN items |-> items[CHOOSE i \in DOMAIN items : rank(i) = n]]

\* --severity, --backend and --limit; 0 is no limit.
Unlimited == [severity |-> "", backend |-> NoBackend, limit |-> 0]

\* filterTriageItems.
Kept(items, opts) ==
    EntriesAt(items, { i \in DOMAIN items : /\ opts.severity \in {"", items[i].severity}
                                            /\ opts.backend \in {NoBackend, items[i].backend} })

Cut(items, limit) ==
    IF limit > 0 /\ Len(items) > limit THEN SubSeq(items, 1, limit) ELSE items

\* buildTriageReport: filtered, sorted, cut.
TriagedCutFirst(items, opts) == SortedItems(Cut(Kept(items, opts), opts.limit))
Triaged(items, opts)         == Cut(SortedItems(Kept(items, opts)), opts.limit)

\* commandsFromTriageItems: doctor's commands follow, of which none is filtered.
ItemCommands(items, extra) ==
    LET given == SelectSeq(items, LAMBDA i : i.command # NoCommand)
    IN  [i \in DOMAIN given |-> given[i].command] \o extra
=============================================================================
