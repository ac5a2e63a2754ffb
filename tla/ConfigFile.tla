----------------------------- MODULE ConfigFile -----------------------------
(***************************************************************************)
(* One configuration file under concurrent `inferctl config init`,         *)
(* `config set` and `config patch` (cmd/inferctl/config_write.go), each    *)
(* replacing it with internal/config/atomic.go's AtomicWriteFile, with     *)
(* failing system calls, killed processes and power failures.              *)
(*                                                                         *)
(* Each element of Proc is one invocation.  The commands take no lock, so  *)
(* another invocation can run between any two system calls.                *)
(***************************************************************************)
EXTENDS Integers

CONSTANTS
    Proc,       \* command invocations
    Key, Val,   \* configuration keys and their values
    Valid,      \* the texts config.Validate passes with no error
    Scaffold,   \* defaultConfigScaffold
    Edits,      \* what set and patch are asked to change: functions from some keys
    MaxOutages, \* bound on power failures
    Absent,     \* no file
    Malformed   \* text that does not decode

\* A configuration text is what its keys are set to.
Text == [Key -> Val]

ASSUME ConfigAssumption ==
    /\ Valid \subseteq Text /\ Scaffold \in Valid
    /\ \A e \in Edits : \E K \in SUBSET Key : e \in [K -> Val]
ASSUME OutageAssumption == MaxOutages \in Nat
ASSUME FileAssumption == Malformed \notin Text

\* A file: its text, whose edits that text is built on, and whether its data
\* has been flushed to the device.
File == [text : Text \cup {Malformed}, edits : SUBSET Proc, synced : BOOLEAN]

ASSUME AbsentAssumption == Absent \notin File /\ Absent \notin Text \cup {Malformed}

VARIABLES
    target,   \* the configuration file
    durable,  \* what a power failure would leave of it
    temp,     \* each invocation's temporary file
    pc,       \* where each invocation is, or the result it ended with
    job,      \* what each invocation was asked to do
    draft,    \* what each invocation is going to write
    outages   \* power failures so far

vars == << target, durable, temp, pc, job, draft, outages >>

Writing == { "create", "write", "sync", "rename", "cleanup" }
Running == { "resolve", "read" } \cup Writing
Refused == { "E_INVALID_ARG", "E_MISSING_ARG", "E_CONFIG_WRITE_FAILED",
             "E_CONFIG_PATCH_DELETE_UNSUPPORTED" }
Failed  == { "E_CONFIG_MISSING", "E_CONFIG_UNREADABLE", "E_CONFIG_INVALID" } \cup Refused

NoEdit == [k \in {} |-> Absent]

Job == [op : {"none", "init", "edit"}, edit : Edits \cup {NoEdit},
        force : BOOLEAN, blind : BOOLEAN, dryRun : BOOLEAN, past : SUBSET Proc]

NoJob == [op |-> "none", edit |-> NoEdit, force |-> FALSE, blind |-> FALSE,
          dryRun |-> FALSE, past |-> {}]

NoDraft == [text |-> Scaffold, edits |-> {}]

TypeOK ==
    /\ target \in File \cup {Absent}
    /\ durable \in File \cup {Absent}
    /\ temp \in [Proc -> File \cup {Absent}]
    /\ pc \in [Proc -> {"idle", "ok", "previewed", "crashed"} \cup Running \cup Failed]
    /\ job \in [Proc -> Job]
    /\ draft \in [Proc -> [text : Valid, edits : SUBSET Proc]]
    /\ outages \in 0 .. MaxOutages

\* To begin with there is no file, or one its user wrote, valid or not.
Init ==
    /\ target \in {Absent} \cup [text : Text \cup {Malformed}, edits : {{}}, synced : {TRUE}]
    /\ durable = target
    /\ temp = [p \in Proc |-> Absent]
    /\ pc = [p \in Proc |-> "idle"]
    /\ job = [p \in Proc |-> NoJob]
    /\ draft = [p \in Proc |-> NoDraft]
    /\ outages = 0

-----------------------------------------------------------------------------
Goto(p, label) == pc' = [pc EXCEPT ![p] = label]

Succeeded == { q \in Proc : pc[q] = "ok" }

\* applyConfigEdit for each key of the edit: it works on lines and keeps the
\* other ones, so editing a malformed text may happen to repair it.
Apply(text, e) ==
    IF text = Malformed THEN Valid \cup {Malformed}
    ELSE { [k \in Key |-> IF k \in DOMAIN e THEN e[k] ELSE text[k]] }

\* config init: an existing file is refused unless --force is given; but it is
\* taken as absent when Stat fails on it, for whatever reason (blind).
BeginInitUnchecked(p) ==
    /\ pc[p] = "idle"
    /\ \E force \in BOOLEAN :
         job' = [job EXCEPT ![p] = [NoJob EXCEPT !.op = "init", !.force = force,
                                                 !.past = Succeeded]]
    /\ draft' = [draft EXCEPT ![p] = [text |-> Scaffold, edits |-> {p}]]
    /\ Goto(p, "create")
    /\ UNCHANGED << target, durable, temp, outages >>

BeginInit(p) ==
    /\ pc[p] = "idle"
    /\ \E force \in BOOLEAN, blind \in { b \in BOOLEAN : b => target # Absent } :
         /\ job' = [job EXCEPT ![p] = [NoJob EXCEPT !.op = "init", !.force = force,
                                             !.blind = blind, !.past = Succeeded]]
         /\ \/ /\ target # Absent /\ ~blind /\ ~force
               /\ Goto(p, "E_CONFIG_WRITE_FAILED") /\ UNCHANGED draft
            \/ /\ target = Absent \/ blind \/ force
               /\ draft' = [draft EXCEPT ![p] = [text |-> Scaffold, edits |-> {p}]]
               /\ Goto(p, "create")
    /\ UNCHANGED << target, durable, temp, outages >>

\* config set, config patch: arguments that encode to no edit are refused, by
\* set as invalid, by patch also as missing, as unreadable or undecodable and as
\* assigning nothing; with no --path the file is looked up by loading it first.
BeginEdit(p) ==
    /\ pc[p] = "idle"
    /\ \E e \in Edits, dryRun \in BOOLEAN :
         job' = [job EXCEPT ![p] = [NoJob EXCEPT !.op = "edit", !.edit = e,
                                       !.dryRun = dryRun, !.past = Succeeded]]
    /\ \E next \in {"resolve", "read"} \cup Refused : Goto(p, next)
    /\ UNCHANGED << target, durable, temp, draft, outages >>

\* resolveMutationPath: Loader.Load finds, reads and decodes the file and
\* applies the environment, which may name a backend the file lacks.
Resolve(p) ==
    /\ pc[p] = "resolve"
    /\ \/ target = Absent /\ Goto(p, "E_CONFIG_MISSING")
       \/ /\ target # Absent
          /\ IF target.text = Malformed
             THEN Goto(p, "E_CONFIG_INVALID")
             ELSE \E next \in {"read", "E_CONFIG_UNREADABLE", "E_INVALID_ARG"} : Goto(p, next)
    /\ UNCHANGED << target, durable, temp, job, draft, outages >>

\* runConfigMutation up to the write: the file is read again, edited and
\* validated; --dry-run stops there.
ReadConfigUnvalidated(p) ==
    /\ pc[p] = "read"
    /\ \/ target = Absent /\ Goto(p, "E_CONFIG_WRITE_FAILED") /\ UNCHANGED draft
       \/ /\ target # Absent
          /\ \E text \in Apply(target.text, job[p].edit) :
               draft' = [draft EXCEPT ![p] = [text |-> text,
                                              edits |-> target.edits \cup {p}]]
          /\ Goto(p, IF job[p].dryRun THEN "previewed" ELSE "create")
    /\ UNCHANGED << target, durable, temp, job, outages >>

ReadConfigFromScaffold(p) ==
    /\ pc[p] = "read"
    /\ \/ target = Absent /\ Goto(p, "E_CONFIG_WRITE_FAILED") /\ UNCHANGED draft
       \/ /\ target # Absent
          /\ \E text \in Apply(Scaffold, job[p].edit) :
               \/ /\ text \notin Valid
                  /\ Goto(p, "E_CONFIG_WRITE_FAILED") /\ UNCHANGED draft
               \/ /\ text \in Valid
                  /\ draft' = [draft EXCEPT ![p] = [text |-> text, edits |-> {p}]]
                  /\ Goto(p, IF job[p].dryRun THEN "previewed" ELSE "create")
    /\ UNCHANGED << target, durable, temp, job, outages >>

ReadConfig(p) ==
    /\ pc[p] = "read"
    /\ \/ target = Absent /\ Goto(p, "E_CONFIG_WRITE_FAILED") /\ UNCHANGED draft
       \/ /\ target # Absent
          /\ \E text \in Apply(target.text, job[p].edit) :
               \/ /\ text \notin Valid
                  /\ Goto(p, "E_CONFIG_WRITE_FAILED") /\ UNCHANGED draft
               \/ /\ text \in Valid
                  /\ draft' = [draft EXCEPT ![p] = [text |-> text,
                                                    edits |-> target.edits \cup {p}]]
                  /\ Goto(p, IF job[p].dryRun THEN "previewed" ELSE "create")
    /\ UNCHANGED << target, durable, temp, job, outages >>

\* AtomicWriteFile, one action per system call that others can tell apart.
CreateTemp(p) ==
    /\ pc[p] = "create"
    /\ temp' = [temp EXCEPT ![p] = [text |-> Malformed, edits |-> {}, synced |-> FALSE]]
    /\ Goto(p, "write")
    /\ UNCHANGED << target, durable, job, draft, outages >>

\* Write and Chmod.
WriteTemp(p) ==
    /\ pc[p] = "write"
    /\ temp' = [temp EXCEPT ![p] = [text |-> draft[p].text, edits |-> draft[p].edits,
                                    synced |-> FALSE]]
    /\ Goto(p, "sync")
    /\ UNCHANGED << target, durable, job, draft, outages >>

SyncTempSkipped(p) ==
    /\ pc[p] = "sync"
    /\ Goto(p, "rename")
    /\ UNCHANGED << target, durable, temp, job, draft, outages >>

\* Sync and Close.
SyncTemp(p) ==
    /\ pc[p] = "sync"
    /\ temp' = [temp EXCEPT ![p].synced = TRUE]
    /\ Goto(p, "rename")
    /\ UNCHANGED << target, durable, job, draft, outages >>

RenameTemp(p) ==
    /\ pc[p] = "rename"
    /\ target' = temp[p]
    /\ temp' = [temp EXCEPT ![p] = Absent]
    /\ Goto(p, "ok")
    /\ UNCHANGED << durable, job, draft, outages >>

\* The deferred cleanup.  Removing one's own temporary file is taken to work.
RemoveTempForgotten(p) ==
    /\ pc[p] = "cleanup"
    /\ Goto(p, "E_CONFIG_WRITE_FAILED")
    /\ UNCHANGED << target, durable, temp, job, draft, outages >>

RemoveTemp(p) ==
    /\ pc[p] = "cleanup"
    /\ temp' = [temp EXCEPT ![p] = Absent]
    /\ Goto(p, "E_CONFIG_WRITE_FAILED")
    /\ UNCHANGED << target, durable, job, draft, outages >>

\* A system call fails; a failed write leaves part of the text in the file.
IOError(p) ==
    /\ \/ pc[p] \in {"read", "create"} /\ Goto(p, "E_CONFIG_WRITE_FAILED")
       \/ pc[p] \in {"write", "sync", "rename"} /\ Goto(p, "cleanup")
    /\ UNCHANGED << target, durable, temp, job, draft, outages >>

\* The process is killed: its deferred cleanup does not run.
Crash(p) ==
    /\ pc[p] \in Running
    /\ Goto(p, "crashed")
    /\ UNCHANGED << target, durable, temp, job, draft, outages >>

\* The directory entry reaches the device: AtomicWriteFile does not wait for it.
Flush ==
    /\ durable # target
    /\ durable' = target
    /\ UNCHANGED << target, temp, pc, job, draft, outages >>

\* Data that was not synced is gone although its directory entry survives.
Recovered(f) == IF f # Absent /\ ~f.synced THEN [f EXCEPT !.text = Malformed] ELSE f

PowerLoss ==
    /\ outages < MaxOutages
    /\ outages' = outages + 1
    /\ target' = Recovered(durable)
    /\ durable' = Recovered(durable)
    /\ pc' = [p \in Proc |-> IF pc[p] \in Running THEN "crashed" ELSE pc[p]]
    /\ UNCHANGED << temp, job, draft >>

Next ==
    \/ \E p \in Proc :
         \/ BeginInit(p) \/ BeginEdit(p) \/ Resolve(p) \/ ReadConfig(p)
         \/ CreateTemp(p) \/ WriteTemp(p) \/ SyncTemp(p) \/ RenameTemp(p) \/ RemoveTemp(p)
         \/ IOError(p) \/ Crash(p)
    \/ Flush \/ PowerLoss

Spec == Init /\ [][Next]_vars

-----------------------------------------------------------------------------
(* Properties *)

TextOf(f) == IF f = Absent THEN Absent ELSE f.text

\* Readers of the file see an atomic register: whichever of AtomicWriteFile's
\* calls fails, whoever is killed where, and after a power failure, the file
\* holds one whole text, and only validated texts are ever written to it.
Register == INSTANCE AtomicRegister
    WITH Value <- Text \cup {Absent, Malformed}, Writable <- Valid,
         value <- TextOf(target), durable <- TextOf(durable)

RegisterSpec == Register!Spec

\* Neither invocation had ended when the other began.
Overlap(p, q) == p \notin job[q].past /\ q \notin job[p].past

\* An init that writes whether or not there is a file.
Unguarded(p) == job[p].force \/ job[p].blind

\* Read, edit, replace is not locked, so edits can be lost, but only in one
\* way: while an edit reported as written is missing from the file, another
\* invocation that overlapped it in time has also written (or an init was forced
\* or could not see the file, or the power failed before the directory was
\* flushed).
FinishedEditSurvives ==
    \A s \in Proc :
        pc[s] = "ok" =>
            \/ target # Absent /\ s \in target.edits
            \/ \E q \in Proc \ {s} : pc[q] = "ok" /\ (Unguarded(q) \/ Overlap(s, q))
            \/ outages > 0

\* config init without --force, once its Stat has told it whether there is a
\* file, overwrites one only if another invocation wrote it after init had
\* begun: between its Stat and its Rename.
InitOverwritesOnlyNewcomers ==
    [][ \A p \in Proc :
          /\ pc[p] = "rename" /\ pc'[p] = "ok"
          /\ job[p].op = "init" /\ ~Unguarded(p)
          /\ target # Absent
          => \E q \in target.edits : q \notin job[p].past ]_vars

\* A temporary file outlives its command only when the process was killed.
TempOnlyLeftByCrash ==
    \A p \in Proc : temp[p] # Absent => pc[p] \in Writing \cup {"crashed"}
=============================================================================
