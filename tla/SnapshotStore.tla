--------------------------- MODULE SnapshotStore ---------------------------
(***************************************************************************)
(* The snapshot history of `inferctl snapshot --store` and                 *)
(* `inferctl diff --since`                                                 *)
(* (cmd/inferctl/snapshot_store.go), as run by any number of concurrent    *)
(* command invocations over one shared state directory.                    *)
(*                                                                         *)
(* Each element of Proc is one invocation of the command: it starts, takes *)
(* one step per system call, and ends (or is killed).  Nothing in the code *)
(* excludes another invocation between two of those calls.                 *)
(***************************************************************************)
EXTENDS Integers, FiniteSets

CONSTANTS
    Proc,         \* command invocations
    Task,         \* configured task names
    Dir,          \* task directories of the store
    DirOf,        \* [Task -> Dir]: safeSnapshotTask, which is not injective
    Unsearchable, \* directories in which os.Stat fails with something other than ENOENT
    Limits,       \* values given to --retention-limit (0: rejected)
    Keep,         \* no accepted limit is smaller
    Base,         \* a timestamp has two fractional digits of this base
    MaxTime,      \* bound on the clock
    MaxIdx,       \* bound on the suffix of a file name
    Absent, Empty, Garbled, None

ASSUME DirAssumption == /\ DirOf \in [Task -> Dir] /\ Task # {}
                        /\ IsFiniteSet(Dir) /\ Unsearchable \subseteq Dir
ASSUME LimitAssumption == /\ Limits \subseteq Nat
                          /\ Keep \in Nat \ {0}
                          /\ \A l \in Limits : l > 0 => l >= Keep
ASSUME TimeAssumption == Base \in Nat \ {0, 1} /\ MaxTime \in Nat
ASSUME IdxAssumption == MaxIdx \in Nat
ASSUME SentinelAssumption ==
    /\ {Absent, Empty, Garbled, None} \cap Proc = {}
    /\ Cardinality({Absent, Empty, Garbled, None}) = 4
    /\ Absent \notin {Empty, Garbled, None}

Time == 0 .. MaxTime

\* A file of the store: <task dir>/<captured time>[-<idx>].json
Path == [dir : Dir, time : Time, idx : 0 .. MaxIdx]

(***************************************************************************)
(* Order.  CapturedAtISO is time.RFC3339Nano, which drops trailing zeros   *)
(* of the fraction and the whole fraction when it is zero, and the code    *)
(* compares the strings.  With two fractional digits the strings of one    *)
(* second end in "Z", ".dZ" or ".ddZ"; '.' sorts before 'Z' and the digits *)
(* sort before 'Z'.  StampRank(t) is the position of t's string in that    *)
(* order.                                                                  *)
(***************************************************************************)
StampRank(t) ==
    LET sec  == t \div (Base * Base)
        frac == t % (Base * Base)
        d1   == frac \div Base
        d2   == IF frac % Base = 0 THEN Base ELSE frac % Base   \* Base stands for 'Z'
        wide == (Base + 1) * (Base + 1)
    IN  IF frac = 0 THEN (2 * sec + 1) * wide
                    ELSE 2 * sec * wide + d1 * (Base + 1) + d2

\* Files with one captured time: "T-01.json" < "T-02.json" < ... < "T.json".
Rank(q) ==
    StampRank(q.time) * (MaxIdx + 2) + (IF q.idx = 0 THEN MaxIdx + 1 ELSE q.idx)

After(q, r) == q.dir = r.dir /\ Rank(q) > Rank(r)

-----------------------------------------------------------------------------
VARIABLES
    clock,    \* the wall clock
    store,    \* [Path -> Absent, Empty, Garbled, or the invocation whose snapshot it holds]
    pc,       \* where each invocation is, or the result it ended with
    job,      \* what each invocation was asked to do
    path,     \* the file name a store is probing, writing or has written
    open,     \* invocations whose open file is the one its path names
    toRead,   \* directory entries still to be read
    found,    \* stored snapshots read so far
    victims,  \* files still to be pruned
    baseline  \* the snapshot a diff --since selected

vars == << clock, store, pc, job, path, open, toRead, found, victims, baseline >>

Running == { "stat", "create", "write", "readdir", "read", "prune" }
Failed  == { "E_INVALID_ARG", "E_CONFIG_WRITE_FAILED", "E_CONFIG_UNREADABLE",
             "E_CONFIG_INVALID" }

Candidate == [path : Path, by : Proc]

Job == [op : {"none", "store", "since"}, task : Task, time : Time,
        limit : Nat, past : SUBSET Proc]

NoJob == [op |-> "none", task |-> CHOOSE t \in Task : TRUE, time |-> 0,
          limit |-> 0, past |-> {}]

DirOfJob(p) == DirOf[job[p].task]

Files(d) == { q \in Path : q.dir = d /\ store[q] # Absent }

TypeOK ==
    /\ clock \in Time
    /\ store \in [Path -> Proc \cup {Absent, Empty, Garbled}]
    /\ pc \in [Proc -> {"idle", "ok", "crashed"} \cup Running \cup Failed]
    /\ job \in [Proc -> Job]
    /\ path \in [Proc -> Path]
    /\ open \subseteq Proc
    /\ toRead \in [Proc -> SUBSET Path]
    /\ found \in [Proc -> SUBSET Candidate]
    /\ victims \in [Proc -> SUBSET Path]
    /\ baseline \in [Proc -> Candidate \cup {None}]

Init ==
    /\ clock = 0
    /\ store = [q \in Path |-> Absent]
    /\ pc = [p \in Proc |-> "idle"]
    /\ job = [p \in Proc |-> NoJob]
    /\ path = [p \in Proc |-> [dir |-> DirOf[NoJob.task], time |-> 0, idx |-> 0]]
    /\ open = {}
    /\ toRead = [p \in Proc |-> {}]
    /\ found = [p \in Proc |-> {}]
    /\ victims = [p \in Proc |-> {}]
    /\ baseline = [p \in Proc |-> None]

-----------------------------------------------------------------------------
Goto(p, label) == pc' = [pc EXCEPT ![p] = label]

Tick ==
    /\ clock < MaxTime
    /\ clock' = clock + 1
    /\ UNCHANGED << store, pc, job, path, open, toRead, found, victims, baseline >>

\* Invocations that have ended well; job[p].past remembers those that had when
\* p began (no code reads it, properties do).
Succeeded == { q \in Proc : pc[q] = "ok" }

\* snapshot --store: the snapshot is captured now, then storeSnapshot rejects
\* a limit below 1 and makes the task directory, which may fail.
BeginStore(p) ==
    /\ pc[p] = "idle"
    /\ \E t \in Task, l \in Limits :
         /\ job' = [job EXCEPT ![p] = [op |-> "store", task |-> t, time |-> clock,
                                       limit |-> l, past |-> Succeeded]]
         /\ path' = [path EXCEPT ![p] = [dir |-> DirOf[t], time |-> clock, idx |-> 0]]
         /\ \/ l <= 0 /\ Goto(p, "E_INVALID_ARG")
            \/ l > 0 /\ Goto(p, "stat")
            \/ l > 0 /\ Goto(p, "E_CONFIG_WRITE_FAILED")
    /\ UNCHANGED << clock, store, open, toRead, found, victims, baseline >>

StatNameOnce(p) ==
    /\ pc[p] = "stat"
    /\ path' = [path EXCEPT ![p].idx = IF store[path[p]] # Absent /\ @ < MaxIdx
                                       THEN @ + 1 ELSE @]
    /\ Goto(p, "create")
    /\ UNCHANGED << clock, store, job, open, toRead, found, victims, baseline >>

StatNameSameSuffix(p) ==
    /\ pc[p] = "stat"
    /\ store[path[p]] = Absent /\ path[p].dir \notin Unsearchable
    /\ Goto(p, "create")
    /\ UNCHANGED << clock, store, job, path, open, toRead, found, victims, baseline >>

\* The loop that looks for a free name: anything but "does not exist" means taken.
StatName(p) ==
    /\ pc[p] = "stat"
    /\ \/ /\ store[path[p]] # Absent \/ path[p].dir \in Unsearchable
          /\ path' = [path EXCEPT ![p].idx = IF @ < MaxIdx THEN @ + 1 ELSE @]
          /\ UNCHANGED pc
       \/ /\ store[path[p]] = Absent /\ path[p].dir \notin Unsearchable
          /\ Goto(p, "create")
          /\ UNCHANGED path
    /\ UNCHANGED << clock, store, job, open, toRead, found, victims, baseline >>

\* os.WriteFile, first half: open with O_CREATE and O_TRUNC.
CreateFile(p) ==
    /\ pc[p] = "create"
    /\ store' = [store EXCEPT ![path[p]] = Empty]
    /\ open' = open \cup {p}
    /\ Goto(p, "write")
    /\ UNCHANGED << clock, job, path, toRead, found, victims, baseline >>

\* os.WriteFile, second half.  Writing over what another invocation wrote
\* since leaves a mixture when that text was longer; a descriptor whose file
\* was unlinked changes nothing in the directory.
WriteFile(p) ==
    /\ pc[p] = "write"
    /\ \/ /\ p \in open
          /\ \E c \in IF store[path[p]] = Empty THEN {p} ELSE {p, Garbled} :
               store' = [store EXCEPT ![path[p]] = c]
       \/ p \notin open /\ UNCHANGED store
    /\ open' = open \ {p}
    /\ Goto(p, "readdir")
    /\ UNCHANGED << clock, job, path, toRead, found, victims, baseline >>

\* diff --since: the cutoff is now minus a duration, or any time given (text
\* that is neither ends like a cutoff before every snapshot: E_INVALID_ARG).
BeginSince(p) ==
    /\ pc[p] = "idle"
    /\ \E t \in Task, cutoff \in Time :
         job' = [job EXCEPT ![p] = [op |-> "since", task |-> t, time |-> cutoff,
                                    limit |-> 0, past |-> Succeeded]]
    /\ Goto(p, "readdir")
    /\ UNCHANGED << clock, store, path, open, toRead, found, victims, baseline >>

\* listStoredSnapshots: one os.ReadDir, then one os.ReadFile per entry.
ReadDir(p) ==
    /\ pc[p] = "readdir"
    /\ toRead' = [toRead EXCEPT ![p] = Files(DirOfJob(p))]
    /\ Goto(p, "read")
    /\ UNCHANGED << clock, store, job, path, open, found, victims, baseline >>

\* os.ReadDir sorts by name, and within one directory names order like Rank.
ReadEntry(p) ==
    /\ pc[p] = "read"
    /\ \E q \in toRead[p] :
         /\ \A r \in toRead[p] : Rank(q) <= Rank(r)
         /\ \/ /\ store[q] \in Proc
               /\ found' = [found EXCEPT ![p] = @ \cup {[path |-> q, by |-> store[q]]}]
               /\ toRead' = [toRead EXCEPT ![p] = @ \ {q}]
               /\ UNCHANGED pc
            \/ /\ store[q] = Absent
               /\ Goto(p, "E_CONFIG_UNREADABLE")
               /\ UNCHANGED << found, toRead >>
            \/ /\ store[q] \in {Empty, Garbled}
               /\ Goto(p, "E_CONFIG_INVALID")
               /\ UNCHANGED << found, toRead >>
    /\ UNCHANGED << clock, store, job, path, open, victims, baseline >>

\* pruneSnapshotStore sorts and takes all but the last `limit` candidates.
OldestKeepingOneLess(cands, limit) ==
    LET files == { c.path : c \in cands }
    IN  { q \in files : Cardinality({ r \in files : After(r, q) }) >= limit - 1 }

OldestKeepingOneMore(cands, limit) ==
    LET files == { c.path : c \in cands }
    IN  { q \in files : Cardinality({ r \in files : After(r, q) }) > limit }

OldestSortedBackwards(cands, limit) ==
    LET files == { c.path : c \in cands }
    IN  { q \in files : Cardinality({ r \in files : After(q, r) }) >= limit }

Oldest(cands, limit) ==
    LET files == { c.path : c \in cands }
    IN  { q \in files : Cardinality({ r \in files : After(r, q) }) >= limit }

PlanPrune(p) ==
    /\ pc[p] = "read" /\ toRead[p] = {} /\ job[p].op = "store"
    /\ victims' = [victims EXCEPT ![p] = Oldest(found[p], job[p].limit)]
    /\ Goto(p, IF victims'[p] = {} THEN "ok" ELSE "prune")
    /\ UNCHANGED << clock, store, job, path, open, toRead, found, baseline >>

\* One os.Remove, oldest first.  A file someone else removed is an error and
\* ends the command; an unlinked file stays open for whoever is writing it.
RemoveOldest(p) ==
    /\ pc[p] = "prune"
    /\ \E v \in victims[p] :
         /\ \A r \in victims[p] : Rank(v) <= Rank(r)
         /\ \/ /\ store[v] = Absent
               /\ Goto(p, "E_CONFIG_WRITE_FAILED")
               /\ UNCHANGED << store, open, victims >>
            \/ /\ store[v] # Absent
               /\ store' = [store EXCEPT ![v] = Absent]
               /\ open' = { r \in open : path[r] # v }
               /\ victims' = [victims EXCEPT ![p] = @ \ {v}]
               /\ Goto(p, IF victims[p] = {v} THEN "ok" ELSE "prune")
    /\ UNCHANGED << clock, job, path, toRead, found, baseline >>

\* selectStoredSnapshot, after the listing: times are compared to the cutoff
\* as times, and then with each other as strings.
AtOrBefore(cands, cutoff) == { c \in cands : c.path.time <= cutoff }

Worst(cands) ==
    { c \in cands : \A d \in cands : StampRank(d.path.time) >= StampRank(c.path.time) }

Best(cands) ==
    { c \in cands : \A d \in cands : StampRank(d.path.time) <= StampRank(c.path.time) }

SelectBaseline(p) ==
    /\ pc[p] = "read" /\ toRead[p] = {} /\ job[p].op = "since"
    /\ LET best == Best(AtOrBefore(found[p], job[p].time)) IN
       \/ /\ Cardinality(best) = 1
          /\ \E c \in best : baseline' = [baseline EXCEPT ![p] = c]
          /\ Goto(p, "ok")
       \/ /\ Cardinality(best) # 1        \* none, or several share the stamp
          /\ Goto(p, "E_INVALID_ARG")
          /\ UNCHANGED baseline
    /\ UNCHANGED << clock, store, job, path, open, toRead, found, victims >>

\* A system call fails for a reason of its own (permissions, a full disk).
\* A failed write leaves whatever the file held or part of the new text.
IOErrorCodeUncatalogued(label) == "E_SNAPSHOT_WRITE_FAILED"

IOErrorCode(label) ==
    IF label \in {"readdir", "read"} THEN "E_CONFIG_UNREADABLE"
                                     ELSE "E_CONFIG_WRITE_FAILED"

IOError(p) ==
    /\ pc[p] \in Running \ {"stat"}
    /\ pc[p] = "read" => toRead[p] # {}
    /\ Goto(p, IOErrorCode(pc[p]))
    /\ open' = open \ {p}
    /\ \/ UNCHANGED store
       \/ /\ pc[p] = "write" /\ p \in open
          /\ store' = [store EXCEPT ![path[p]] = Garbled]
    /\ UNCHANGED << clock, job, path, toRead, found, victims, baseline >>

\* The process is killed between two system calls.
Crash(p) ==
    /\ pc[p] \in Running
    /\ Goto(p, "crashed")
    /\ open' = open \ {p}
    /\ UNCHANGED << clock, store, job, path, toRead, found, victims, baseline >>

Step(p) ==
    \/ StatName(p) \/ CreateFile(p) \/ WriteFile(p)
    \/ ReadDir(p) \/ ReadEntry(p)
    \/ PlanPrune(p) \/ RemoveOldest(p) \/ SelectBaseline(p)

Next ==
    \/ Tick
    \/ \E p \in Proc : \/ BeginStore(p) \/ BeginSince(p) \/ Step(p)
                       \/ IOError(p) \/ Crash(p)

Spec == Init /\ [][Next]_vars

\* A started command keeps running: the only scheduling assumption.
FairSpec == Spec /\ \A p \in Proc : WF_vars(Step(p))

-----------------------------------------------------------------------------
(* Properties *)

\* Retention across processes: whatever the interleaving, a file leaves the
\* history only while at least Keep files that sort after it stay, and files
\* enter it one at a time (pruneSnapshotStore, storeSnapshot).
Retained == INSTANCE RetainedLog
    WITH Entry <- Path, NewerThan <- After, kept <- { q \in Path : store[q] # Absent }

RetentionSpec == Retained!Spec

\* How many existing files of q's directory sort after q.
NewerCount(q) == Cardinality({ r \in Path : store[r] # Absent /\ After(r, q) })

\* A store that has created its file finds, at every later moment, that file
\* in place or Keep newer ones: a concurrent prune never drops a snapshot that
\* is among the newest Keep (storeSnapshot against another pruneSnapshotStore).
StoredOrSuperseded ==
    \A p \in Proc :
        /\ job[p].op = "store"
        /\ pc[p] \in { "write", "readdir", "read", "prune", "ok" }
        => store[path[p]] # Absent \/ NewerCount(path[p]) >= Keep

\* The search for a free name: a snapshot whose store ended well before this
\* store began is never overwritten by it (it may be pruned).  Only stores
\* that overlap in time can destroy each other's snapshot.
FinishedStoreNotClobbered ==
    [][ \A q \in Path, s \in Proc :
          store[q] = s /\ store'[q] \notin {s, Absent} =>
            \E p \in Proc : /\ pc[p] \in {"create", "write"}
                            /\ path[p] = q
                            /\ s \notin job[p].past ]_vars

\* The history is bounded: when every store that ran ended well, each of their
\* directories holds at most one of the requested limits (storeSnapshot prunes
\* after it writes, so the last one to list sees every file).
QuiescentRetention ==
    (\A p \in Proc : pc[p] \in {"idle", "ok"}) =>
        \A p \in Proc : job[p].op = "store" =>
            \E q \in Proc : /\ job[q].op = "store"
                            /\ DirOfJob(q) = DirOfJob(p)
                            /\ Cardinality(Files(DirOfJob(p))) <= job[q].limit

\* diff --since sees every snapshot whose store ended before it began: none of
\* those still in the directory, at or before the cutoff, sorts after the
\* baseline it chose, whatever was written or pruned meanwhile.
BaselineIsNewestFinished ==
    \A p \in Proc : baseline[p] # None =>
        \A q \in Files(DirOfJob(p)) :
            store[q] \in job[p].past /\ q.time <= job[p].time =>
                StampRank(q.time) <= StampRank(baseline[p].path.time)

\* Every command ends, unless its directory cannot be searched: there the loop
\* over free names never sees "does not exist" and spins for ever.
CommandsTerminate ==
    \A p \in Proc :
        (pc[p] \in Running /\ ~(pc[p] = "stat" /\ path[p].dir \in Unsearchable))
            ~> (pc[p] \notin Running)

\* "--retention-limit keeps the newest N snapshots": what is pruned is older,
\* by the clock, than Keep files that stay.
PrunesOldestByTime ==
    [][ \A q \in Path : store[q] # Absent /\ store'[q] = Absent =>
          Cardinality({ r \in Path : store[r] # Absent /\ r.dir = q.dir
                                       /\ r.time >= q.time /\ r # q }) >= Keep ]_vars
=============================================================================
