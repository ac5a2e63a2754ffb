------------------------ MODULE SnapshotStoreProofs ------------------------
(***************************************************************************)
(* Proofs about SnapshotStore for any number of invocations, tasks,        *)
(* directories and times.                                                  *)
(*                                                                         *)
(* The heart is Safe(q): the file q exists, or Keep files that sort after  *)
(* it do.  Deleting a victim keeps Safe of every file, because a victim    *)
(* has Keep files after it, and those sort after everything the victim     *)
(* sorted after.  So all a concurrent listing holds (toRead, found) stays  *)
(* Safe however stale it gets, and what is planned from it is a victim     *)
(* that has Keep files after it.                                           *)
(***************************************************************************)
EXTENDS SnapshotStore, FiniteSetTheorems, WellFoundedInduction, TLAPS

Later(q) == { r \in Path : store[r] # Absent /\ After(r, q) }

Superseded(q) == Cardinality(Later(q)) >= Keep

Safe(q) == store[q] # Absent \/ Superseded(q)

PastCreate == { "write", "readdir", "read", "prune", "ok" }

ListingsSafe ==
    \A p \in Proc :
        /\ \A q \in toRead[p] : Safe(q)
        /\ \A c \in found[p] : Safe(c.path)

VictimsSuperseded == \A p \in Proc : \A v \in victims[p] : Superseded(v)

LimitsAccepted ==
    \A p \in Proc :
        pc[p] \in Running /\ job[p].op = "store" => job[p].limit >= Keep

RetentionInv ==
    /\ TypeOK
    /\ StoredOrSuperseded
    /\ ListingsSafe
    /\ VictimsSuperseded
    /\ LimitsAccepted

-----------------------------------------------------------------------------
(* Order and finiteness *)

\* The position of a time's RFC3339Nano string is an integer.
LEMMA StampRankInt == ASSUME NEW t \in Time PROVE StampRank(t) \in Int
<1>1. t \in Int /\ Base \in Nat /\ Base > 1
  BY TimeAssumption DEF Time
<1> DEFINE sq == Base * Base
<1>2. sq \in Int /\ sq > 0
  BY <1>1, SMT
<1> DEFINE sec == t \div sq
           frac == t % sq
<1>3. sec \in Int /\ frac \in Int
  <2> HIDE DEF sq
  <2> QED BY <1>1, <1>2
<1> HIDE DEF sec, frac
<1>4. frac \div Base \in Int /\ frac % Base \in Int
  BY <1>1, <1>3
<1> DEFINE d1 == frac \div Base
           m == frac % Base
           d2 == IF m = 0 THEN Base ELSE m
           wide == (Base + 1) * (Base + 1)
<1>5. d1 \in Int /\ d2 \in Int /\ wide \in Int
  <2>1. d1 \in Int /\ m \in Int BY <1>4
  <2> HIDE DEF d1, m
  <2> QED BY <2>1, <1>1
<1>6. StampRank(t) = IF frac = 0 THEN (2 * sec + 1) * wide
                                 ELSE 2 * sec * wide + d1 * (Base + 1) + d2
  BY DEF StampRank, sec, frac
<1> HIDE DEF d1, m, d2, wide
<1> QED BY <1>1, <1>3, <1>5, <1>6

\* The position of a file name is an integer.
LEMMA RankInt == ASSUME NEW q \in Path PROVE Rank(q) \in Int
<1>1. q.time \in Time /\ q.idx \in Int
  BY DEF Path
<1>2. StampRank(q.time) \in Int
  BY <1>1, StampRankInt
<1>3. MaxIdx \in Int
  BY IdxAssumption
<1> QED BY <1>1, <1>2, <1>3 DEF Rank

\* Files of one directory that sort after a later file sort after this one.
LEMMA AfterTransitive ==
    ASSUME NEW q \in Path, NEW r \in Path, NEW s \in Path,
           After(s, r), After(r, q)
    PROVE  After(s, q)
BY RankInt DEF After

\* No file sorts after itself.
LEMMA AfterIrreflexive == ASSUME NEW q \in Path PROVE ~After(q, q)
BY RankInt DEF After

\* There are finitely many file names.
LEMMA PathFinite == IsFiniteSet(Path)
<1> DEFINE Names == Dir \X (Time \X (0 .. MaxIdx))
           f == [n \in Names |-> [dir |-> n[1], time |-> n[2][1], idx |-> n[2][2]]]
<1>1. IsFiniteSet(Time) /\ IsFiniteSet(0 .. MaxIdx) /\ IsFiniteSet(Dir)
  BY FS_Interval, TimeAssumption, IdxAssumption, DirAssumption DEF Time
<1>2. IsFiniteSet(Names)
  BY <1>1, FS_Product
<1>3. f \in Surjection(Names, Path)
  <2>1. f \in [Names -> Path]
    BY DEF Path
  <2>2. ASSUME NEW q \in Path PROVE \E n \in Names : f[n] = q
    <3>1. << q.dir, << q.time, q.idx >> >> \in Names
      BY DEF Path
    <3>2. f[<< q.dir, << q.time, q.idx >> >>] = q
      BY <3>1 DEF Path
    <3> QED BY <3>1, <3>2
  <2> QED BY <2>1, <2>2 DEF Surjection
<1> QED BY <1>2, <1>3, FS_Surjection

\* Counting: a set of files that contains Keep files has at least Keep.
LEMMA EnoughFiles ==
    ASSUME NEW S \in SUBSET Path, NEW T \in SUBSET S, NEW k \in Nat,
           Cardinality(T) >= k
    PROVE  Cardinality(S) >= k
<1>1. IsFiniteSet(S) /\ IsFiniteSet(T)
  BY PathFinite, FS_Subset
<1>2. Cardinality(S) \in Nat /\ Cardinality(T) \in Nat
  BY <1>1, FS_CardinalityType
<1>3. Cardinality(T) <= Cardinality(S)
  BY <1>1, FS_Subset
<1> QED BY <1>2, <1>3

\* The least accepted limit is a number.
LEMMA KeepNat == Keep \in Nat
BY LimitAssumption

-----------------------------------------------------------------------------
(* Type correctness *)

\* What a file can hold besides a snapshot differs from every snapshot, and from Absent.
LEMMA SentinelsDiffer ==
    /\ Absent \notin Proc /\ Absent # Empty /\ Absent # Garbled
BY SentinelAssumption

\* Every step keeps every variable in its type.
LEMMA TypeStep == TypeOK /\ [Next]_vars => TypeOK'
<1> SUFFICES ASSUME TypeOK, [Next]_vars PROVE TypeOK'
  OBVIOUS
<1> USE DEF TypeOK
<1>1. CASE Tick
  BY <1>1, TimeAssumption DEF Tick, Time
<1>2. ASSUME NEW p \in Proc, BeginStore(p) PROVE TypeOK'
  <2> PICK t \in Task, l \in Limits :
         /\ job' = [job EXCEPT ![p] = [op |-> "store", task |-> t, time |-> clock,
                                       limit |-> l, past |-> Succeeded]]
         /\ path' = [path EXCEPT ![p] = [dir |-> DirOf[t], time |-> clock, idx |-> 0]]
         /\ \/ l <= 0 /\ Goto(p, "E_INVALID_ARG")
            \/ l > 0 /\ Goto(p, "stat")
            \/ l > 0 /\ Goto(p, "E_CONFIG_WRITE_FAILED")
    BY <1>2 DEF BeginStore
  <2>1. job' \in [Proc -> Job]
    BY LimitAssumption DEF Job, Succeeded
  <2>2. path' \in [Proc -> Path]
    BY DirAssumption, IdxAssumption DEF Path
  <2>3. pc' \in [Proc -> {"idle", "ok", "crashed"} \cup Running \cup Failed]
    BY DEF Goto, Running, Failed
  <2> QED BY <1>2, <2>1, <2>2, <2>3 DEF BeginStore
<1>3. ASSUME NEW p \in Proc, BeginSince(p) PROVE TypeOK'
  <2>1. job' \in [Proc -> Job]
    BY <1>3 DEF BeginSince, Job, Succeeded
  <2> QED BY <1>3, <2>1 DEF BeginSince, Goto, Running
<1>4. ASSUME NEW p \in Proc, StatName(p) PROVE TypeOK'
  <2>1. path' \in [Proc -> Path]
    BY <1>4, IdxAssumption DEF StatName, Path
  <2> QED BY <1>4, <2>1 DEF StatName, Goto, Running
<1>5. ASSUME NEW p \in Proc, CreateFile(p) PROVE TypeOK'
  BY <1>5 DEF CreateFile, Goto, Running
<1>6. ASSUME NEW p \in Proc, WriteFile(p) PROVE TypeOK'
  <2>1. store' \in [Path -> Proc \cup {Absent, Empty, Garbled}]
    BY <1>6 DEF WriteFile
  <2> QED BY <1>6, <2>1 DEF WriteFile, Goto, Running
<1>7. ASSUME NEW p \in Proc, ReadDir(p) PROVE TypeOK'
  BY <1>7 DEF ReadDir, Goto, Running, Files
<1>8. ASSUME NEW p \in Proc, ReadEntry(p) PROVE TypeOK'
  <2>1. found' \in [Proc -> SUBSET Candidate] /\ toRead' \in [Proc -> SUBSET Path]
    BY <1>8 DEF ReadEntry, Candidate
  <2>2. pc' \in [Proc -> {"idle", "ok", "crashed"} \cup Running \cup Failed]
    BY <1>8 DEF ReadEntry, Goto, Failed
  <2> QED BY <1>8, <2>1, <2>2 DEF ReadEntry
<1>9. ASSUME NEW p \in Proc, PlanPrune(p) PROVE TypeOK'
  <2>1. Oldest(found[p], job[p].limit) \in SUBSET Path
    BY DEF Oldest, Candidate
  <2> QED BY <1>9, <2>1 DEF PlanPrune, Goto, Running
<1>10. ASSUME NEW p \in Proc, RemoveOldest(p) PROVE TypeOK'
  BY <1>10 DEF RemoveOldest, Goto, Running, Failed
<1>11. ASSUME NEW p \in Proc, SelectBaseline(p) PROVE TypeOK'
  <2>1. Best(AtOrBefore(found[p], job[p].time)) \subseteq Candidate
    BY DEF Best, AtOrBefore
  <2> QED BY <1>11, <2>1 DEF SelectBaseline, Goto, Failed
<1>12. ASSUME NEW p \in Proc, IOError(p) PROVE TypeOK'
  BY <1>12 DEF IOError, IOErrorCode, Goto, Failed
<1>13. ASSUME NEW p \in Proc, Crash(p) PROVE TypeOK'
  BY <1>13 DEF Crash, Goto
<1>14. CASE UNCHANGED vars
  BY <1>14 DEF vars
<1> QED
  BY <1>1, <1>2, <1>3, <1>4, <1>5, <1>6, <1>7, <1>8, <1>9, <1>10, <1>11, <1>12,
     <1>13, <1>14 DEF Next, Step

\* The initial state is well typed.
LEMMA TypeInit == Init => TypeOK
<1> SUFFICES ASSUME Init PROVE TypeOK
  OBVIOUS
<1>1. NoJob \in Job
  BY DirAssumption, TimeAssumption DEF NoJob, Job, Time
<1>2. [dir |-> DirOf[NoJob.task], time |-> 0, idx |-> 0] \in Path
  BY <1>1, DirAssumption, TimeAssumption, IdxAssumption DEF Path, Job, Time
<1> QED
  BY <1>1, <1>2, TimeAssumption DEF Init, TypeOK, Time

\* The model's state keeps its type for all values of the constants.
THEOREM TypeCorrect == Spec => []TypeOK
BY TypeInit, TypeStep, PTL DEF Spec

-----------------------------------------------------------------------------
(* Retention *)

\* The empty history satisfies the retention invariant.
LEMMA RetentionInit == Init => RetentionInv
<1> SUFFICES ASSUME Init PROVE RetentionInv
  OBVIOUS
<1>1. TypeOK
  BY TypeInit
<1>2. StoredOrSuperseded /\ ListingsSafe /\ VictimsSuperseded /\ LimitsAccepted
  BY DEF Init, NoJob, StoredOrSuperseded, ListingsSafe, VictimsSuperseded,
         LimitsAccepted, Running
<1> QED BY <1>1, <1>2 DEF RetentionInv

\* Superseded is the counting condition of StoredOrSuperseded.
LEMMA LaterIsNewerCount == \A q : Superseded(q) <=> NewerCount(q) >= Keep
BY DEF Superseded, NewerCount, Later

\* Files are only added: whoever had Keep newer files still has them.
LEMMA SafeWhenNothingGoes ==
    ASSUME TypeOK, \A r \in Path : store[r] # Absent => store'[r] # Absent
    PROVE  \A q \in Path : (Superseded(q) => Superseded(q)') /\ (Safe(q) => Safe(q)')
<1> SUFFICES ASSUME NEW q \in Path
             PROVE  (Superseded(q) => Superseded(q)') /\ (Safe(q) => Safe(q)')
  OBVIOUS
<1>1. Later(q) \subseteq Later(q)' /\ Later(q)' \subseteq Path
  BY DEF Later
<1>2. Superseded(q) => Superseded(q)'
  BY <1>1, EnoughFiles, KeepNat DEF Superseded
<1> QED BY <1>2 DEF Safe

\* A superseded file is removed: everything that sorts before it keeps the
\* Keep files that sort after the removed one.
LEMMA SafeWhenVictimGoes ==
    ASSUME TypeOK, NEW v \in Path, Superseded(v),
           store' = [store EXCEPT ![v] = Absent]
    PROVE  \A q \in Path : (Superseded(q) => Superseded(q)') /\ (Safe(q) => Safe(q)')
<1> SUFFICES ASSUME NEW q \in Path
             PROVE  (Superseded(q) => Superseded(q)') /\ (Safe(q) => Safe(q)')
  OBVIOUS
<1>1. \A r \in Path : r # v => store'[r] = store[r]
  BY DEF TypeOK
<1>2. Later(v) \subseteq Later(v)'
  BY <1>1, AfterIrreflexive DEF Later
<1>3. Superseded(q) => Superseded(q)'
  <2> SUFFICES ASSUME Superseded(q) PROVE Superseded(q)'
    OBVIOUS
  <2>1. CASE After(v, q)
    <3>1. Later(v) \subseteq Later(q)' /\ Later(q)' \subseteq Path
      BY <1>2, <2>1, AfterTransitive DEF Later
    <3> QED BY <3>1, EnoughFiles, KeepNat DEF Superseded
  <2>2. CASE ~After(v, q)
    <3>1. Later(q) \subseteq Later(q)' /\ Later(q)' \subseteq Path
      BY <1>1, <2>2 DEF Later
    <3> QED BY <3>1, EnoughFiles, KeepNat DEF Superseded
  <2> QED BY <2>1, <2>2
<1>4. Safe(q) => Safe(q)'
  <2>1. CASE q = v
    BY <2>1, <1>3 DEF Safe
  <2>2. CASE q # v
    BY <2>2, <1>1, <1>3 DEF Safe
  <2> QED BY <2>1, <2>2
<1> QED BY <1>3, <1>4

\* What is planned from a listing of Safe files has Keep files after it, even
\* when files of the listing have been removed since.
LEMMA PlannedAreSuperseded ==
    ASSUME TypeOK, NEW p \in Proc, \A c \in found[p] : Safe(c.path),
           NEW limit \in Nat, limit >= Keep,
           NEW v \in Oldest(found[p], limit)
    PROVE  Superseded(v)
<1> DEFINE files == { c.path : c \in found[p] }
           newer == { r \in files : After(r, v) }
<1>1. files \subseteq Path /\ v \in files /\ Cardinality(newer) >= limit
  BY DEF TypeOK, Candidate, Oldest
<1>2. \A r \in files : Safe(r)
  OBVIOUS
<1>3. CASE \A r \in newer : store[r] # Absent
  <2>1. newer \subseteq Later(v) /\ Later(v) \subseteq Path
    BY <1>1, <1>3 DEF Later
  <2>2. Cardinality(Later(v)) >= limit
    BY <1>1, <2>1, EnoughFiles
  <2>3. Cardinality(Later(v)) \in Nat
    BY <2>1, PathFinite, FS_Subset, FS_CardinalityType
  <2> QED BY <2>2, <2>3, KeepNat DEF Superseded
<1>4. CASE \E r \in newer : store[r] = Absent
  <2>1. PICK r \in newer : store[r] = Absent
    BY <1>4
  <2>2. Superseded(r) /\ r \in Path /\ After(r, v)
    BY <1>1, <1>2, <2>1 DEF Safe
  <2>3. Later(r) \subseteq Later(v) /\ Later(v) \subseteq Path
    BY <1>1, <2>2, AfterTransitive DEF Later
  <2> QED BY <2>2, <2>3, EnoughFiles, KeepNat DEF Superseded
<1> QED BY <1>3, <1>4

\* One step changes the directory by adding a file, changing what a file
\* holds, or removing a superseded file; nothing else ever happens to it.
LEMMA StoreChanges ==
    ASSUME TypeOK, VictimsSuperseded, [Next]_vars
    PROVE  \/ \A r \in Path : store[r] # Absent => store'[r] # Absent
           \/ \E p \in Proc : \E v \in victims[p] :
                  store' = [store EXCEPT ![v] = Absent] /\ store[v] # Absent
<1>1. CASE Tick
  BY <1>1 DEF Tick
<1>2. ASSUME NEW p \in Proc, CreateFile(p)
      PROVE  \A r \in Path : store[r] # Absent => store'[r] # Absent
  BY <1>2, SentinelsDiffer DEF CreateFile, TypeOK
<1>3. ASSUME NEW p \in Proc, WriteFile(p)
      PROVE  \A r \in Path : store[r] # Absent => store'[r] # Absent
  BY <1>3, SentinelsDiffer DEF WriteFile, TypeOK
<1>4. ASSUME NEW p \in Proc, IOError(p)
      PROVE  \A r \in Path : store[r] # Absent => store'[r] # Absent
  BY <1>4, SentinelsDiffer DEF IOError, TypeOK
<1>5. ASSUME NEW p \in Proc, RemoveOldest(p)
      PROVE  \/ \A r \in Path : store[r] # Absent => store'[r] # Absent
             \/ \E v \in victims[p] :
                  store' = [store EXCEPT ![v] = Absent] /\ store[v] # Absent
  BY <1>5 DEF RemoveOldest
<1>6. ASSUME NEW p \in Proc,
             BeginStore(p) \/ BeginSince(p) \/ StatName(p) \/ ReadDir(p) \/ ReadEntry(p)
               \/ PlanPrune(p) \/ SelectBaseline(p) \/ Crash(p)
      PROVE  store' = store
  BY <1>6 DEF BeginStore, BeginSince, StatName, ReadDir, ReadEntry, PlanPrune,
              SelectBaseline, Crash
<1>7. CASE UNCHANGED vars
  BY <1>7 DEF vars
<1> QED
  BY <1>1, <1>2, <1>3, <1>4, <1>5, <1>6, <1>7 DEF Next, Step

\* So Safe and Superseded, once true of a file, stay true.
LEMMA SafeIsStable ==
    ASSUME TypeOK, VictimsSuperseded, [Next]_vars
    PROVE  \A q \in Path : (Superseded(q) => Superseded(q)') /\ (Safe(q) => Safe(q)')
<1>1. CASE \A r \in Path : store[r] # Absent => store'[r] # Absent
  BY <1>1, SafeWhenNothingGoes
<1>2. ASSUME NEW p \in Proc, NEW v \in victims[p],
             store' = [store EXCEPT ![v] = Absent]
      PROVE  \A q \in Path : (Superseded(q) => Superseded(q)') /\ (Safe(q) => Safe(q)')
  <2>1. v \in Path /\ Superseded(v)
    BY DEF TypeOK, VictimsSuperseded
  <2> QED BY <1>2, <2>1, SafeWhenVictimGoes
<1> QED BY <1>1, <1>2, StoreChanges

\* A limit of 0 never gets past BeginStore, and what prunes is a store.
LEMMA LimitsStep ==
    ASSUME RetentionInv, [Next]_vars
    PROVE  LimitsAccepted'
<1> USE DEF LimitsAccepted, RetentionInv, TypeOK, Goto, Running
<1>1. ASSUME NEW p \in Proc, BeginStore(p) PROVE LimitsAccepted'
  <2> PICK t \in Task, l \in Limits :
         /\ job' = [job EXCEPT ![p] = [op |-> "store", task |-> t, time |-> clock,
                                       limit |-> l, past |-> Succeeded]]
         /\ \/ l <= 0 /\ Goto(p, "E_INVALID_ARG")
            \/ l > 0 /\ Goto(p, "stat")
            \/ l > 0 /\ Goto(p, "E_CONFIG_WRITE_FAILED")
    BY <1>1 DEF BeginStore
  <2>1. ASSUME NEW q \in Proc, pc'[q] \in Running, job'[q].op = "store"
        PROVE  job'[q].limit >= Keep
    <3>1. CASE q = p
      BY <2>1, <3>1, LimitAssumption
    <3>2. CASE q # p
      BY <2>1, <3>2
    <3> QED BY <3>1, <3>2
  <2> QED BY <2>1
<1>2. ASSUME NEW p \in Proc, BeginSince(p) PROVE LimitsAccepted'
  BY <1>2 DEF BeginSince
<1>3. ASSUME NEW p \in Proc, Step(p) PROVE LimitsAccepted'
  <2>1. job' = job /\ pc[p] \in Running /\ \A q \in Proc : q # p => pc'[q] = pc[q]
    BY <1>3 DEF Step, StatName, CreateFile, WriteFile, ReadDir, ReadEntry,
                PlanPrune, RemoveOldest, SelectBaseline
  <2> QED BY <2>1
<1>4. ASSUME NEW p \in Proc, IOError(p) \/ Crash(p) PROVE LimitsAccepted'
  <2>1. job' = job /\ pc[p] \in Running /\ \A q \in Proc : q # p => pc'[q] = pc[q]
    BY <1>4 DEF IOError, Crash
  <2> QED BY <2>1
<1>5. CASE Tick \/ UNCHANGED vars
  BY <1>5 DEF Tick, vars
<1> QED BY <1>1, <1>2, <1>3, <1>4, <1>5 DEF Next

\* A listing holds only files that exist when it is made, and keeps only those.
LEMMA ListingsStep ==
    ASSUME RetentionInv, [Next]_vars
    PROVE  ListingsSafe'
<1> USE DEF RetentionInv
<1>a. TypeOK'
  BY TypeStep
<1>b. \A q \in Path : Safe(q) => Safe(q)'
  BY SafeIsStable
<1>1. TypeOK' /\ \A q \in Path : Safe(q) => Safe(q)'
  BY <1>a, <1>b
<1>2. ASSUME \A p \in Proc : toRead'[p] \subseteq toRead[p] /\ found'[p] \subseteq found[p]
      PROVE  ListingsSafe'
  BY <1>1, <1>2 DEF ListingsSafe, TypeOK, Candidate
<1>3. ASSUME NEW p \in Proc, ReadDir(p) PROVE ListingsSafe'
  <2>1. \A q \in toRead'[p] : q \in Path /\ store'[q] # Absent
    BY <1>3 DEF ReadDir, Files, TypeOK
  <2>2. found' = found /\ \A r \in Proc \ {p} : toRead'[r] = toRead[r]
    BY <1>3 DEF ReadDir, TypeOK
  <2> QED BY <1>1, <2>1, <2>2 DEF ListingsSafe, TypeOK, Candidate, Safe
<1>4. ASSUME NEW p \in Proc, ReadEntry(p) PROVE ListingsSafe'
  <2>1. CASE UNCHANGED << found, toRead >>
    BY <1>2, <2>1
  <2>2. CASE \E q \in toRead[p] :
               /\ store[q] \in Proc
               /\ found' = [found EXCEPT ![p] = @ \cup {[path |-> q, by |-> store[q]]}]
               /\ toRead' = [toRead EXCEPT ![p] = @ \ {q}]
    <3> PICK q \in toRead[p] :
               /\ found' = [found EXCEPT ![p] = @ \cup {[path |-> q, by |-> store[q]]}]
               /\ toRead' = [toRead EXCEPT ![p] = @ \ {q}]
      BY <2>2
    <3>1. \A r \in Proc : toRead'[r] \subseteq toRead[r]
      BY DEF TypeOK
    <3>2. \A r \in Proc : \A c \in found'[r] : c \in found[r] \/ (r = p /\ c.path = q)
      BY DEF TypeOK
    <3>3. Safe(q) /\ q \in Path
      BY DEF ListingsSafe, TypeOK
    <3> QED BY <1>1, <3>1, <3>2, <3>3 DEF ListingsSafe, TypeOK, Candidate
  <2> QED BY <1>4, <2>1, <2>2 DEF ReadEntry
<1>5. ASSUME NEW p \in Proc,
             BeginStore(p) \/ BeginSince(p) \/ StatName(p) \/ CreateFile(p)
               \/ WriteFile(p) \/ PlanPrune(p) \/ RemoveOldest(p) \/ SelectBaseline(p)
               \/ IOError(p) \/ Crash(p)
      PROVE  ListingsSafe'
  <2>1. toRead' = toRead /\ found' = found
    BY <1>5 DEF BeginStore, BeginSince, StatName, CreateFile, WriteFile, PlanPrune,
                RemoveOldest, SelectBaseline, IOError, Crash
  <2> QED BY <1>2, <2>1
<1>6. CASE Tick \/ UNCHANGED vars
  BY <1>2, <1>6 DEF Tick, vars
<1> QED BY <1>3, <1>4, <1>5, <1>6 DEF Next, Step

\* Victims are superseded when they are planned and for ever after.
LEMMA VictimsStep ==
    ASSUME RetentionInv, [Next]_vars
    PROVE  VictimsSuperseded'
<1> USE DEF RetentionInv
<1>a. TypeOK'
  BY TypeStep
<1>b. \A q \in Path : Superseded(q) => Superseded(q)'
  BY SafeIsStable
<1>1. TypeOK' /\ \A q \in Path : Superseded(q) => Superseded(q)'
  BY <1>a, <1>b
<1>2. ASSUME \A p \in Proc : victims'[p] \subseteq victims[p]
      PROVE  VictimsSuperseded'
  BY <1>1, <1>2 DEF VictimsSuperseded, TypeOK
<1>3. ASSUME NEW p \in Proc, PlanPrune(p) PROVE VictimsSuperseded'
  <2>1. job[p].limit \in Nat /\ job[p].limit >= Keep
    BY <1>3 DEF PlanPrune, LimitsAccepted, TypeOK, Job, Running
  <2>2. \A c \in found[p] : Safe(c.path)
    BY DEF ListingsSafe
  <2>3. \A v \in Oldest(found[p], job[p].limit) : Superseded(v)
    BY <2>1, <2>2, PlannedAreSuperseded
  <2>4. victims'[p] = Oldest(found[p], job[p].limit)
        /\ \A r \in Proc \ {p} : victims'[r] = victims[r]
    BY <1>3 DEF PlanPrune, TypeOK
  <2>5. \A v \in victims'[p] : v \in Path /\ Superseded(v)
    BY <1>1, <2>3, <2>4 DEF TypeOK
  <2> QED BY <1>1, <2>4, <2>5 DEF VictimsSuperseded, TypeOK
<1>4. ASSUME NEW p \in Proc, RemoveOldest(p) PROVE VictimsSuperseded'
  <2>1. \A r \in Proc : victims'[r] \subseteq victims[r]
    BY <1>4 DEF RemoveOldest, TypeOK
  <2> QED BY <1>2, <2>1
<1>5. ASSUME NEW p \in Proc,
             BeginStore(p) \/ BeginSince(p) \/ StatName(p) \/ CreateFile(p)
               \/ WriteFile(p) \/ ReadDir(p) \/ ReadEntry(p) \/ SelectBaseline(p)
               \/ IOError(p) \/ Crash(p)
      PROVE  VictimsSuperseded'
  <2>1. victims' = victims
    BY <1>5 DEF BeginStore, BeginSince, StatName, CreateFile, WriteFile, ReadDir,
                ReadEntry, SelectBaseline, IOError, Crash
  <2> QED BY <1>2, <2>1
<1>6. CASE Tick \/ UNCHANGED vars
  BY <1>2, <1>6 DEF Tick, vars
<1> QED BY <1>3, <1>4, <1>5, <1>6 DEF Next, Step

\* A store's own file exists once created, and is Safe from then on.
LEMMA StoredStep ==
    ASSUME RetentionInv, [Next]_vars
    PROVE  StoredOrSuperseded'
<1> USE DEF RetentionInv
<1>a. TypeOK'
  BY TypeStep
<1>b. \A q \in Path : Safe(q) => Safe(q)'
  BY SafeIsStable
<1>1. TypeOK' /\ \A q \in Path : Safe(q) => Safe(q)'
  BY <1>a, <1>b
<1>2. StoredOrSuperseded <=>
        \A p \in Proc : job[p].op = "store" /\ pc[p] \in PastCreate => Safe(path[p])
  BY DEF StoredOrSuperseded, Safe, Superseded, Later, NewerCount, PastCreate
<1>3. StoredOrSuperseded' <=>
        \A p \in Proc : job'[p].op = "store" /\ pc'[p] \in PastCreate => Safe(path[p])'
  BY DEF StoredOrSuperseded, Safe, Superseded, Later, NewerCount, PastCreate
<1>4. ASSUME \A r \in Proc :
               job'[r].op = "store" /\ pc'[r] \in PastCreate =>
                 \/ path'[r] = path[r] /\ job[r].op = "store" /\ pc[r] \in PastCreate
                 \/ store'[path'[r]] # Absent
      PROVE  StoredOrSuperseded'
  <2> SUFFICES ASSUME NEW r \in Proc, job'[r].op = "store", pc'[r] \in PastCreate
               PROVE  Safe(path[r])'
    BY <1>3
  <2>1. CASE store'[path'[r]] # Absent
    BY <2>1 DEF Safe
  <2>2. CASE path'[r] = path[r] /\ job[r].op = "store" /\ pc[r] \in PastCreate
    <3>1. PICK q \in Path : q = path[r]
      BY DEF TypeOK
    <3>2. Safe(q)
      BY <1>2, <2>2, <3>1
    <3>3. Safe(q)'
      BY <1>1, <3>2
    <3> QED BY <2>2, <3>1, <3>3 DEF Safe, Superseded, Later
  <2> QED BY <1>4, <2>1, <2>2
<1>5. ASSUME NEW p \in Proc, BeginStore(p) PROVE StoredOrSuperseded'
  <2>1. pc'[p] \notin PastCreate
    BY <1>5 DEF BeginStore, Goto, PastCreate, TypeOK
  <2>2. \A r \in Proc \ {p} : pc'[r] = pc[r] /\ job'[r] = job[r] /\ path'[r] = path[r]
    BY <1>5 DEF BeginStore, Goto, TypeOK
  <2> QED BY <1>4, <2>1, <2>2
<1>6. ASSUME NEW p \in Proc, BeginSince(p) PROVE StoredOrSuperseded'
  <2>1. job'[p].op = "since" /\ path' = path
    BY <1>6 DEF BeginSince, TypeOK
  <2>2. \A r \in Proc \ {p} : pc'[r] = pc[r] /\ job'[r] = job[r]
    BY <1>6 DEF BeginSince, Goto, TypeOK
  <2> QED BY <1>4, <2>1, <2>2
<1>7. ASSUME NEW p \in Proc, StatName(p) PROVE StoredOrSuperseded'
  <2>1. pc'[p] \in {"stat", "create"} /\ job' = job
    BY <1>7 DEF StatName, Goto, TypeOK
  <2>2. \A r \in Proc \ {p} : pc'[r] = pc[r] /\ path'[r] = path[r]
    BY <1>7 DEF StatName, Goto, TypeOK
  <2> QED BY <1>4, <2>1, <2>2 DEF PastCreate
<1>8. ASSUME NEW p \in Proc, CreateFile(p) PROVE StoredOrSuperseded'
  <2>1. path' = path /\ job' = job /\ store'[path[p]] # Absent
    BY <1>8, SentinelsDiffer DEF CreateFile, TypeOK
  <2>2. \A r \in Proc \ {p} : pc'[r] = pc[r]
    BY <1>8 DEF CreateFile, Goto, TypeOK
  <2> QED BY <1>4, <2>1, <2>2
<1>9. ASSUME NEW p \in Proc,
             WriteFile(p) \/ ReadDir(p) \/ ReadEntry(p) \/ PlanPrune(p)
               \/ RemoveOldest(p) \/ SelectBaseline(p)
      PROVE  StoredOrSuperseded'
  <2>1. path' = path /\ job' = job /\ pc[p] \in PastCreate
    BY <1>9 DEF WriteFile, ReadDir, ReadEntry, PlanPrune, RemoveOldest, SelectBaseline,
                PastCreate
  <2>2. \A r \in Proc \ {p} : pc'[r] = pc[r]
    BY <1>9 DEF WriteFile, ReadDir, ReadEntry, PlanPrune, RemoveOldest, SelectBaseline,
                Goto, TypeOK
  <2> QED BY <1>4, <2>1, <2>2
<1>10. ASSUME NEW p \in Proc, IOError(p) \/ Crash(p) PROVE StoredOrSuperseded'
  <2>1. path' = path /\ job' = job /\ pc'[p] \notin PastCreate
    BY <1>10 DEF IOError, IOErrorCode, Crash, Goto, PastCreate, TypeOK
  <2>2. \A r \in Proc \ {p} : pc'[r] = pc[r]
    BY <1>10 DEF IOError, Crash, Goto, TypeOK
  <2> QED BY <1>4, <2>1, <2>2
<1>11. CASE Tick \/ UNCHANGED vars
  <2>1. path' = path /\ job' = job /\ pc' = pc
    BY <1>11 DEF Tick, vars
  <2> QED BY <1>4, <2>1
<1> QED
  BY <1>5, <1>6, <1>7, <1>8, <1>9, <1>10, <1>11 DEF Next, Step

\* Each step keeps the retention invariant.
LEMMA RetentionStep == RetentionInv /\ [Next]_vars => RetentionInv'
<1> SUFFICES ASSUME RetentionInv, [Next]_vars PROVE RetentionInv'
  OBVIOUS
<1>1. TypeOK'
  BY TypeStep DEF RetentionInv
<1>2. StoredOrSuperseded'
  BY StoredStep
<1>3. ListingsSafe' /\ VictimsSuperseded' /\ LimitsAccepted'
  BY ListingsStep, VictimsStep, LimitsStep
<1> QED BY <1>1, <1>2, <1>3 DEF RetentionInv

\* A snapshot that has been created stays in the history until Keep newer
\* files are there, however many stores and prunes run beside its own.
THEOREM RetentionHolds == Spec => []StoredOrSuperseded
<1>1. RetentionInv => StoredOrSuperseded
  BY DEF RetentionInv
<1> QED BY <1>1, RetentionInit, RetentionStep, PTL DEF Spec

-----------------------------------------------------------------------------
(* Refinement of RetainedLog *)

Kept == { q \in Path : store[q] # Absent }

\* Every step of the store is a step of the log, or changes nothing in it.
LEMMA RefinementStep ==
    ASSUME RetentionInv, [Next]_vars
    PROVE  [Retained!Next]_Kept
<1> USE DEF RetentionInv
<1>1. ASSUME store' = store PROVE Kept' = Kept
  BY <1>1 DEF Kept
<1>2. ASSUME NEW q \in Path, store'[q] # Absent,
             \A r \in Path \ {q} : store'[r] = store[r]
      PROVE  Retained!Retain(q)
  <2>1. Kept' = Kept \cup {q}
    BY <1>2 DEF Kept
  <2> QED BY <2>1 DEF Retained!Retain, Kept
<1>3. ASSUME NEW p \in Proc, CreateFile(p) PROVE Retained!Next
  <2>1. path[p] \in Path /\ store'[path[p]] # Absent
        /\ \A r \in Path \ {path[p]} : store'[r] = store[r]
    BY <1>3, SentinelsDiffer DEF CreateFile, TypeOK
  <2> QED BY <1>2, <2>1 DEF Retained!Next
<1>4. ASSUME NEW p \in Proc, WriteFile(p) PROVE Retained!Next \/ Kept' = Kept
  <2>1. CASE store' = store
    BY <1>1, <2>1
  <2>2. CASE \E c \in {p, Garbled} : store' = [store EXCEPT ![path[p]] = c]
    <3>1. path[p] \in Path /\ store'[path[p]] # Absent
          /\ \A r \in Path \ {path[p]} : store'[r] = store[r]
      BY <2>2, SentinelsDiffer DEF TypeOK
    <3> QED BY <1>2, <3>1 DEF Retained!Next
  <2> QED BY <1>4, <2>1, <2>2 DEF WriteFile
<1>5. ASSUME NEW p \in Proc, IOError(p) PROVE Retained!Next \/ Kept' = Kept
  <2>1. CASE store' = store
    BY <1>1, <2>1
  <2>2. CASE store' = [store EXCEPT ![path[p]] = Garbled]
    <3>1. path[p] \in Path /\ store'[path[p]] # Absent
          /\ \A r \in Path \ {path[p]} : store'[r] = store[r]
      BY <2>2, SentinelsDiffer DEF TypeOK
    <3> QED BY <1>2, <3>1 DEF Retained!Next
  <2> QED BY <1>5, <2>1, <2>2 DEF IOError
<1>6. ASSUME NEW p \in Proc, RemoveOldest(p) PROVE Retained!Next \/ Kept' = Kept
  <2>1. CASE store' = store
    BY <1>1, <2>1
  <2>2. CASE \E v \in victims[p] :
               store[v] # Absent /\ store' = [store EXCEPT ![v] = Absent]
    <3> PICK v \in victims[p] :
               store[v] # Absent /\ store' = [store EXCEPT ![v] = Absent]
      BY <2>2
    <3>1. v \in Path /\ Superseded(v)
      BY DEF TypeOK, VictimsSuperseded
    <3>2. v \in Kept /\ Kept' = Kept \ {v}
      BY <3>1 DEF Kept, TypeOK
    <3>3. Retained!Newer(v) = Later(v)
      BY DEF Retained!Newer, Later
    <3>4. Retained!Drop(v)
      BY <3>1, <3>2, <3>3
      DEF Retained!Drop, Superseded, Kept, Cardinality, Retained!Cardinality
    <3> QED BY <3>1, <3>4 DEF Retained!Next
  <2> QED BY <1>6, <2>1, <2>2 DEF RemoveOldest
<1>7. ASSUME NEW p \in Proc,
             BeginStore(p) \/ BeginSince(p) \/ StatName(p) \/ ReadDir(p) \/ ReadEntry(p)
               \/ PlanPrune(p) \/ SelectBaseline(p) \/ Crash(p)
      PROVE  Kept' = Kept
  <2>1. store' = store
    BY <1>7 DEF BeginStore, BeginSince, StatName, ReadDir, ReadEntry, PlanPrune,
                SelectBaseline, Crash
  <2> QED BY <1>1, <2>1
<1>8. CASE Tick \/ UNCHANGED vars
  BY <1>1, <1>8 DEF Tick, vars
<1> QED
  BY <1>3, <1>4, <1>5, <1>6, <1>7, <1>8 DEF Next, Step

\* The concurrent stores, prunes, crashes and failures together are the plain
\* log that drops an entry only while Keep newer ones stay.
THEOREM RetentionRefined == Spec => RetentionSpec
<1>1. Init => Retained!Init
  BY DEF Init, Retained!Init
<1> QED
  BY <1>1, RetentionInit, RetentionStep, RefinementStep, PTL
  DEF Spec, RetentionSpec, Retained!Spec, Kept

-----------------------------------------------------------------------------
(* Finished stores are not clobbered *)

PastSucceeded == \A p \in Proc : \A s \in job[p].past : pc[s] = "ok"

\* The name a store writes under never holds a snapshot finished before it began.
FreshName ==
    \A p \in Proc : pc[p] \in {"create", "write"} => store[path[p]] \notin job[p].past

ClobberInv == TypeOK /\ PastSucceeded /\ FreshName

\* The stores that had ended when a command began have ended well for good.
LEMMA PastStep ==
    ASSUME ClobberInv, [Next]_vars
    PROVE  PastSucceeded'
<1> USE DEF ClobberInv, Goto
<1>1. ASSUME \A r \in Proc : pc[r] = "ok" => pc'[r] = "ok",
             \A r \in Proc : job'[r].past \in {job[r].past, Succeeded}
      PROVE  PastSucceeded'
  <2> SUFFICES ASSUME NEW r \in Proc, NEW s \in job'[r].past PROVE pc'[s] = "ok"
    BY DEF PastSucceeded
  <2>1. s \in Proc /\ pc[s] = "ok"
    BY <1>1 DEF PastSucceeded, Succeeded, TypeOK, Job
  <2> QED BY <1>1, <2>1
<1>2. ASSUME NEW p \in Proc, BeginStore(p) \/ BeginSince(p) PROVE PastSucceeded'
  <2>1. pc[p] # "ok" /\ \A r \in Proc \ {p} : pc'[r] = pc[r] /\ job'[r] = job[r]
    BY <1>2 DEF BeginStore, BeginSince, TypeOK
  <2>2. job'[p].past = Succeeded
    BY <1>2 DEF BeginStore, BeginSince, TypeOK
  <2> QED BY <1>1, <2>1, <2>2
<1>3. ASSUME NEW p \in Proc, Step(p) \/ IOError(p) \/ Crash(p) PROVE PastSucceeded'
  <2>1. job' = job /\ pc[p] # "ok" /\ \A r \in Proc \ {p} : pc'[r] = pc[r]
    BY <1>3 DEF Step, StatName, CreateFile, WriteFile, ReadDir, ReadEntry, PlanPrune,
                RemoveOldest, SelectBaseline, IOError, Crash, Running, TypeOK
  <2> QED BY <1>1, <2>1
<1>4. CASE Tick \/ UNCHANGED vars
  BY <1>1, <1>4 DEF Tick, vars
<1> QED BY <1>2, <1>3, <1>4 DEF Next

\* What a step puts into a file is never a snapshot that is already finished.
LEMMA NewContent ==
    ASSUME ClobberInv, [Next]_vars, NEW q \in Path, store'[q] # store[q]
    PROVE  \/ store'[q] = Absent
           \/ \E p \in Proc : /\ pc[p] \in {"create", "write"} /\ path[p] = q
                              /\ store'[q] \in {Empty, Garbled, p}
<1> USE DEF ClobberInv, TypeOK
<1>1. ASSUME NEW p \in Proc, CreateFile(p) \/ WriteFile(p) \/ IOError(p)
      PROVE  /\ pc[p] \in {"create", "write"} /\ path[p] = q
             /\ store'[q] \in {Empty, Garbled, p}
  BY <1>1 DEF CreateFile, WriteFile, IOError
<1>2. ASSUME NEW p \in Proc, RemoveOldest(p) PROVE store'[q] = Absent
  BY <1>2 DEF RemoveOldest
<1>3. ASSUME NEW p \in Proc,
             BeginStore(p) \/ BeginSince(p) \/ StatName(p) \/ ReadDir(p) \/ ReadEntry(p)
               \/ PlanPrune(p) \/ SelectBaseline(p) \/ Crash(p)
      PROVE  FALSE
  BY <1>3 DEF BeginStore, BeginSince, StatName, ReadDir, ReadEntry, PlanPrune,
              SelectBaseline, Crash
<1>4. CASE Tick \/ UNCHANGED vars
  BY <1>4 DEF Tick, vars
<1> QED BY <1>1, <1>2, <1>3, <1>4 DEF Next, Step

\* The names already claimed keep being fresh.
LEMMA FreshStep ==
    ASSUME ClobberInv, [Next]_vars
    PROVE  FreshName'
<1> USE DEF ClobberInv, Goto
<1> SUFFICES ASSUME NEW p \in Proc, pc'[p] \in {"create", "write"}
             PROVE  store'[path'[p]] \notin job'[p].past
  BY DEF FreshName
<1>1. \A r \in Proc : Absent # r /\ Empty # r /\ Garbled # r
  BY SentinelAssumption
<1>2. CASE /\ pc[p] \in {"create", "write"}
           /\ job'[p] = job[p] /\ path'[p] = path[p]
  <2> DEFINE past == job[p].past
  <2>1. past \subseteq Proc /\ path[p] \in Path /\ \A s \in past : pc[s] = "ok"
    BY DEF TypeOK, Job, PastSucceeded
  <2>2. store[path[p]] \notin past
    BY <1>2 DEF FreshName
  <2>3. CASE store'[path[p]] = store[path[p]]
    BY <1>2, <2>2, <2>3
  <2>4. CASE store'[path[p]] # store[path[p]]
    <3>1. \/ store'[path[p]] = Absent
          \/ \E r \in Proc : pc[r] # "ok" /\ store'[path[p]] \in {Empty, Garbled, r}
      BY <2>1, <2>4, NewContent
    <3> QED BY <1>1, <1>2, <2>1, <3>1
  <2> QED BY <2>3, <2>4
<1>3. ASSUME StatName(p) PROVE store'[path'[p]] \notin job'[p].past
  <2>1. store'[path'[p]] = Absent /\ job'[p].past \subseteq Proc
    BY <1>3 DEF StatName, TypeOK, Job
  <2> QED BY <1>1, <2>1
<1>4. ASSUME NEW r \in Proc, Step(r) \/ IOError(r) \/ Crash(r), ~(r = p /\ StatName(r))
      PROVE  pc[p] \in {"create", "write"} /\ job'[p] = job[p] /\ path'[p] = path[p]
  BY <1>4 DEF Step, StatName, CreateFile, WriteFile, ReadDir, ReadEntry, PlanPrune,
              RemoveOldest, SelectBaseline, IOError, IOErrorCode, Crash, TypeOK
<1>5. ASSUME NEW r \in Proc, BeginStore(r) \/ BeginSince(r)
      PROVE  pc[p] \in {"create", "write"} /\ job'[p] = job[p] /\ path'[p] = path[p]
  BY <1>5 DEF BeginStore, BeginSince, TypeOK
<1>6. CASE Tick \/ UNCHANGED vars
  BY <1>2, <1>6 DEF Tick, vars
<1> QED BY <1>2, <1>3, <1>4, <1>5, <1>6 DEF Next

\* Each step keeps the invariant about fresh names.
LEMMA ClobberStep == ClobberInv /\ [Next]_vars => ClobberInv'
<1> SUFFICES ASSUME ClobberInv, [Next]_vars PROVE ClobberInv'
  OBVIOUS
<1>1. TypeOK'
  BY TypeStep DEF ClobberInv
<1> QED BY <1>1, PastStep, FreshStep DEF ClobberInv

\* The initial state satisfies the invariant about fresh names.
LEMMA ClobberInit == Init => ClobberInv
<1> SUFFICES ASSUME Init PROVE ClobberInv
  OBVIOUS
<1>1. PastSucceeded /\ FreshName
  BY DEF Init, NoJob, PastSucceeded, FreshName
<1> QED BY <1>1, TypeInit DEF ClobberInv

NoClobber ==
    \A q \in Path, s \in Proc :
        store[q] = s /\ store'[q] \notin {s, Absent} =>
            \E p \in Proc : /\ pc[p] \in {"create", "write"}
                            /\ path[p] = q
                            /\ s \notin job[p].past

\* A snapshot is only ever overwritten by a store that began before its own ended.
THEOREM NotClobbered == Spec => FinishedStoreNotClobbered
<1>1. ClobberInv /\ [Next]_vars => NoClobber
  <2> SUFFICES ASSUME ClobberInv, [Next]_vars, NEW q \in Path, NEW s \in Proc,
                      store[q] = s, store'[q] \notin {s, Absent}
               PROVE  \E p \in Proc : /\ pc[p] \in {"create", "write"}
                                      /\ path[p] = q
                                      /\ s \notin job[p].past
    BY DEF NoClobber
  <2>1. PICK p \in Proc : pc[p] \in {"create", "write"} /\ path[p] = q
    BY NewContent
  <2> QED BY <2>1 DEF ClobberInv, FreshName
<1> QED
  BY <1>1, ClobberInit, ClobberStep, PTL DEF Spec, FinishedStoreNotClobbered, NoClobber

-----------------------------------------------------------------------------
(* What diff --since selects *)

\* A listing that is being read has, or has still to read, each snapshot in its
\* directory that was finished before the command began.
ListingComplete ==
    \A p \in Proc : pc[p] = "read" =>
        \A q \in Files(DirOfJob(p)) : store[q] \in job[p].past =>
            \/ q \in toRead[p]
            \/ [path |-> q, by |-> store[q]] \in found[p]

BaselineDone == \A p \in Proc : baseline[p] # None => pc[p] = "ok"

BaselineInv ==
    /\ ClobberInv
    /\ ListingComplete
    /\ BaselineDone
    /\ BaselineIsNewestFinished

\* A file that holds a snapshot finished before p began has held it all along.
LEMMA FinishedContentIsOld ==
    ASSUME ClobberInv, [Next]_vars, NEW p \in Proc, NEW q \in Path,
           store'[q] \in job[p].past
    PROVE  store'[q] = store[q]
<1> SUFFICES ASSUME store'[q] # store[q] PROVE FALSE
  OBVIOUS
<1>1. job[p].past \subseteq Proc /\ \A s \in job[p].past : pc[s] = "ok"
  BY DEF ClobberInv, TypeOK, Job, PastSucceeded
<1>2. \/ store'[q] = Absent
      \/ \E r \in Proc : pc[r] # "ok" /\ store'[q] \in {Empty, Garbled, r}
  BY NewContent
<1>3. \A r \in Proc : Absent # r /\ Empty # r /\ Garbled # r
  BY SentinelAssumption
<1> QED BY <1>1, <1>2, <1>3

\* While an invocation runs, no step but its own moves it, and none gives it another job.
LEMMA OwnSteps ==
    ASSUME TypeOK, [Next]_vars, NEW p \in Proc, pc[p] # "idle"
    PROVE  /\ job'[p] = job[p]
           /\ \/ Step(p) \/ IOError(p) \/ Crash(p)
              \/ /\ pc'[p] = pc[p] /\ path'[p] = path[p] /\ toRead'[p] = toRead[p]
                 /\ found'[p] = found[p] /\ victims'[p] = victims[p]
                 /\ baseline'[p] = baseline[p]
<1> USE DEF TypeOK, Goto
<1>1. ASSUME NEW r \in Proc, BeginStore(r) \/ BeginSince(r)
      PROVE  /\ r # p /\ job'[p] = job[p] /\ pc'[p] = pc[p] /\ path'[p] = path[p]
             /\ UNCHANGED << toRead, found, victims, baseline >>
  BY <1>1 DEF BeginStore, BeginSince
<1>2. ASSUME NEW r \in Proc, Step(r) \/ IOError(r) \/ Crash(r)
      PROVE  /\ job' = job
             /\ r # p => /\ pc'[p] = pc[p] /\ path'[p] = path[p] /\ toRead'[p] = toRead[p]
                         /\ found'[p] = found[p] /\ victims'[p] = victims[p]
                         /\ baseline'[p] = baseline[p]
  BY <1>2 DEF Step, StatName, CreateFile, WriteFile, ReadDir, ReadEntry, PlanPrune,
              RemoveOldest, SelectBaseline, IOError, Crash
<1>3. CASE Tick \/ UNCHANGED vars
  BY <1>3 DEF Tick, vars
<1> QED BY <1>1, <1>2, <1>3 DEF Next

\* One os.ReadDir is enough: what was finished before it is in it, as long as it is there.
LEMMA ListingStep ==
    ASSUME BaselineInv, [Next]_vars
    PROVE  ListingComplete'
<1> USE DEF BaselineInv, ClobberInv
<1> SUFFICES ASSUME NEW p \in Proc, pc'[p] = "read", NEW q \in Path,
                    q.dir = DirOf[job'[p].task], store'[q] # Absent,
                    store'[q] \in job'[p].past
             PROVE  \/ q \in toRead'[p]
                    \/ [path |-> q, by |-> store'[q]] \in found'[p]
  BY DEF ListingComplete, Files, DirOfJob
<1>1. pc[p] # "idle"
  <2> USE DEF TypeOK, Goto
  <2>1. CASE Tick \/ UNCHANGED vars
    BY <2>1 DEF Tick, vars
  <2>2. ASSUME NEW r \in Proc, BeginStore(r) \/ BeginSince(r) PROVE pc[p] # "idle"
    BY <2>2 DEF BeginStore, BeginSince
  <2>3. ASSUME NEW r \in Proc, Step(r) \/ IOError(r) \/ Crash(r) PROVE pc[p] # "idle"
    BY <2>3 DEF Step, StatName, CreateFile, WriteFile, ReadDir, ReadEntry, PlanPrune,
                RemoveOldest, SelectBaseline, IOError, Crash, Running
  <2> QED BY <2>1, <2>2, <2>3 DEF Next
<1>2. job'[p] = job[p]
  BY <1>1, OwnSteps
<1>3. store'[q] = store[q]
  BY <1>2, FinishedContentIsOld
<1>4. pc[p] = "read" => q \in toRead[p] \/ [path |-> q, by |-> store[q]] \in found[p]
  BY <1>2, <1>3 DEF ListingComplete, Files, DirOfJob
<1>5. CASE ReadDir(p)
  BY <1>2, <1>3, <1>5 DEF ReadDir, Files, DirOfJob, TypeOK
<1>6. CASE ReadEntry(p)
  <2>1. pc[p] = "read" /\ toRead \in [Proc -> SUBSET Path] /\ found \in [Proc -> SUBSET Candidate]
    BY <1>6 DEF ReadEntry, TypeOK
  <2>2. PICK r \in toRead[p] :
               \/ /\ found' = [found EXCEPT ![p] = @ \cup {[path |-> r, by |-> store[r]]}]
                  /\ toRead' = [toRead EXCEPT ![p] = @ \ {r}]
               \/ UNCHANGED << found, toRead >>
    BY <1>6 DEF ReadEntry
  <2> QED BY <1>3, <1>4, <2>1, <2>2
<1>7. CASE /\ pc'[p] = pc[p] /\ toRead'[p] = toRead[p] /\ found'[p] = found[p]
  BY <1>3, <1>4, <1>7
<1>8. CASE \/ StatName(p) \/ CreateFile(p) \/ WriteFile(p) \/ PlanPrune(p) \/ RemoveOldest(p)
           \/ SelectBaseline(p) \/ IOError(p) \/ Crash(p)
  <2>1. pc'[p] # "read"
    BY <1>8 DEF StatName, CreateFile, WriteFile, PlanPrune, RemoveOldest, SelectBaseline,
                IOError, IOErrorCode, Crash, Goto, TypeOK
  <2> QED BY <2>1
<1> QED BY <1>1, <1>5, <1>6, <1>7, <1>8, OwnSteps DEF Step

\* Only SelectBaseline sets a baseline, and later writes bring in nothing it should have seen.
LEMMA BaselineStep ==
    ASSUME BaselineInv, [Next]_vars
    PROVE  BaselineDone' /\ BaselineIsNewestFinished'
<1> USE DEF BaselineInv, ClobberInv
<1> SUFFICES ASSUME NEW p \in Proc, baseline'[p] # None
             PROVE  /\ pc'[p] = "ok"
                    /\ \A q \in Path :
                         (/\ q.dir = DirOf[job'[p].task] /\ store'[q] # Absent
                          /\ store'[q] \in job'[p].past /\ q.time <= job'[p].time) =>
                            StampRank(q.time) <= StampRank(baseline'[p].path.time)
  BY DEF BaselineDone, BaselineIsNewestFinished, Files, DirOfJob
<1>1. CASE SelectBaseline(p)
  <2> DEFINE best == Best(AtOrBefore(found[p], job[p].time))
  <2>0. pc[p] = "read" /\ toRead[p] = {} /\ store' = store /\ job' = job
    BY <1>1 DEF SelectBaseline
  <2>1. baseline[p] = None
    BY <2>0 DEF BaselineDone
  <2>2. PICK c \in best : baseline' = [baseline EXCEPT ![p] = c] /\ Goto(p, "ok")
    BY <1>1, <2>1 DEF SelectBaseline
  <2>3. pc'[p] = "ok" /\ baseline'[p] = c
    BY <2>2 DEF Goto, TypeOK
  <2>4. ASSUME NEW q \in Path, q.dir = DirOf[job[p].task], store[q] # Absent,
               store[q] \in job[p].past, q.time <= job[p].time
        PROVE  StampRank(q.time) <= StampRank(c.path.time)
    <3> DEFINE k == [path |-> q, by |-> store[q]]
    <3>1. k \in found[p]
      BY <2>0, <2>4 DEF ListingComplete, Files, DirOfJob
    <3>2. k \in AtOrBefore(found[p], job[p].time)
      BY <2>4, <3>1 DEF AtOrBefore
    <3>3. StampRank(k.path.time) <= StampRank(c.path.time)
      BY <3>2 DEF Best
    <3> QED BY <3>3
  <2> QED BY <2>0, <2>3, <2>4
<1>2. CASE baseline'[p] = baseline[p]
  <2>1. pc[p] = "ok"
    BY <1>2 DEF BaselineDone
  <2>2. job'[p] = job[p]
    BY <2>1, OwnSteps
  <2>3. pc'[p] = "ok"
    <3>1. ~Step(p) /\ ~IOError(p) /\ ~Crash(p)
      BY <2>1 DEF Step, StatName, CreateFile, WriteFile, ReadDir, ReadEntry, PlanPrune,
                  RemoveOldest, SelectBaseline, IOError, Crash, Running
    <3> QED BY <2>1, <3>1, OwnSteps
  <2>4. ASSUME NEW q \in Path, q.dir = DirOf[job[p].task], store'[q] # Absent,
               store'[q] \in job[p].past, q.time <= job[p].time
        PROVE  StampRank(q.time) <= StampRank(baseline[p].path.time)
    <3>1. store'[q] = store[q]
      BY <2>4, FinishedContentIsOld
    <3> QED BY <1>2, <2>4, <3>1 DEF BaselineIsNewestFinished, Files, DirOfJob
  <2> QED BY <1>2, <2>2, <2>3, <2>4
<1>3. baseline' = baseline \/ \E r \in Proc : SelectBaseline(r)
  BY DEF Next, vars, Tick, Step, BeginStore, BeginSince, StatName, CreateFile, WriteFile,
         ReadDir, ReadEntry, PlanPrune, RemoveOldest, IOError, Crash
<1>4. ASSUME NEW r \in Proc, SelectBaseline(r), r # p PROVE baseline'[p] = baseline[p]
  BY <1>4 DEF SelectBaseline, TypeOK
<1> QED BY <1>1, <1>2, <1>3, <1>4

\* The initial state satisfies the baseline invariant.
LEMMA BaselineInit == Init => BaselineInv
<1> SUFFICES ASSUME Init PROVE BaselineInv
  OBVIOUS
<1>1. ListingComplete /\ BaselineDone /\ BaselineIsNewestFinished
  BY DEF Init, ListingComplete, BaselineDone, BaselineIsNewestFinished
<1> QED BY <1>1, ClobberInit DEF BaselineInv

\* Whatever is written or pruned while diff --since reads, of the snapshots it could
\* rely on none that is still there sorts after the one it selected.
THEOREM BaselineChosen == Spec => []BaselineIsNewestFinished
<1>1. BaselineInv /\ [Next]_vars => BaselineInv'
  BY ClobberStep, ListingStep, BaselineStep DEF BaselineInv
<1>2. BaselineInv => BaselineIsNewestFinished
  BY DEF BaselineInv
<1> QED BY <1>1, <1>2, BaselineInit, PTL DEF Spec

-----------------------------------------------------------------------------
(* Stamps and names as numbers: distinct, so that the order of names is total *)

\* Quotient and remainder are unique.
LEMMA DigitsUnique ==
    ASSUME NEW w \in Nat \ {0}, NEW a \in Int, NEW b \in Int,
           NEW x \in 0 .. w - 1, NEW y \in 0 .. w - 1, a * w + x = b * w + y
    PROVE  a = b /\ x = y
<1>1. ASSUME NEW c \in Int, NEW d \in Int, c > d PROVE c * w >= d * w + w
  <2>1. PICK k \in Nat : c = d + 1 + k
    <3>1. c - d - 1 \in Nat /\ c = d + 1 + (c - d - 1)
      BY <1>1
    <3> QED BY <3>1
  <2>2. c * w = d * w + w + k * w
    BY <2>1
  <2>3. k * w >= 0 /\ k * w \in Int /\ d * w \in Int
    OBVIOUS
  <2> QED BY <2>2, <2>3
<1>2. a * w \in Int /\ b * w \in Int
  OBVIOUS
<1>3. ~(a > b) /\ ~(b > a)
  BY <1>1, <1>2
<1> QED BY <1>3

\* Of two times with one RFC3339Nano string there is one.
LEMMA StampRankInjective ==
    ASSUME NEW s \in Time, NEW t \in Time, StampRank(s) = StampRank(t)
    PROVE  s = t
<1>1. s \in Int /\ t \in Int /\ Base \in Nat /\ Base > 1
  BY TimeAssumption DEF Time
<1> DEFINE sq == Base * Base
           wide == (Base + 1) * (Base + 1)
           low(u)  == ((u % sq) \div Base) * (Base + 1)
                      + (IF (u % sq) % Base = 0 THEN Base ELSE (u % sq) % Base)
           high(u) == IF u % sq = 0 THEN 2 * (u \div sq) + 1 ELSE 2 * (u \div sq)
           rest(u) == IF u % sq = 0 THEN 0 ELSE low(u)
<1>2. sq \in Nat \ {0} /\ sq > Base /\ wide \in Nat \ {0} /\ wide = sq + 2 * Base + 1
  BY <1>1
<1> HIDE DEF wide
<1>3. ASSUME NEW u \in Int
      PROVE  /\ u = (u \div sq) * sq + (u % sq)
             /\ u \div sq \in Int /\ u % sq \in 0 .. sq - 1
  <2> HIDE DEF sq
  <2> QED BY <1>2
<1>4. ASSUME NEW f \in 0 .. sq - 1
      PROVE  /\ f \div Base \in 0 .. Base - 1 /\ f % Base \in 0 .. Base - 1
             /\ f = (f \div Base) * Base + (f % Base)
  <2>1. f = (f \div Base) * Base + (f % Base) /\ f \div Base \in Int /\ f % Base \in 0 .. Base - 1
    BY <1>1
  <2> DEFINE q == f \div Base
  <2>2. q >= 0 BY <1>1
  <2> HIDE DEF q
  <2>3. q < Base
    <3> SUFFICES ASSUME q >= Base PROVE FALSE
      BY <2>1, <1>1 DEF q
    <3>1. q * Base >= Base * Base
      BY <1>1, <2>1 DEF q
    <3> QED BY <3>1, <2>1, <1>1 DEF q
  <2> QED BY <2>1, <2>2, <2>3, <1>1 DEF q
<1>5. ASSUME NEW u \in Int
      PROVE  /\ high(u) \in Int /\ rest(u) \in 0 .. wide - 1
             /\ u % sq # 0 => rest(u) > 0
  <2> DEFINE f == u % sq
             q == f \div Base
             r == f % Base
  <2>1. f \in 0 .. sq - 1 /\ u \div sq \in Int
    BY <1>3
  <2>2. q \in 0 .. Base - 1 /\ r \in 0 .. Base - 1
    BY <1>4, <2>1
  <2>3. q * (Base + 1) <= (Base - 1) * (Base + 1) /\ q * (Base + 1) >= 0 /\ q * (Base + 1) \in Int
    <3> HIDE DEF q
    <3> QED BY <2>2, <1>1
  <2>4. (Base - 1) * (Base + 1) = sq - 1
    BY <1>1
  <2> HIDE DEF f, q, r, sq
  <2>5. rest(u) = IF f = 0 THEN 0 ELSE q * (Base + 1) + (IF r = 0 THEN Base ELSE r)
    BY DEF f, q, r
  <2>6. high(u) \in Int
    BY <2>1 DEF f
  <2> HIDE DEF rest, high
  <2>7. sq \in Int /\ wide \in Int /\ wide = sq + 2 * Base + 1
    BY <1>2
  <2> DEFINE z == rest(u)
             x == q * (Base + 1)
  <2>8. x \in Int /\ x <= sq - 1 /\ x >= 0
        /\ z = IF f = 0 THEN 0 ELSE x + (IF r = 0 THEN Base ELSE r)
    BY <2>3, <2>4, <2>5
  <2> HIDE DEF x, z
  <2>9. z \in 0 .. wide - 1 /\ (f # 0 => z > 0)
    BY <2>1, <2>2, <2>7, <2>8, <1>1
  <2> QED BY <2>6, <2>9 DEF f, z
<1>6. ASSUME NEW u \in Int PROVE StampRank(u) = high(u) * wide + rest(u)
  <2>1. u \div sq \in Int /\ wide \in Int /\ high(u) \in Int
    <3>1. u \div sq \in Int
      BY <1>3
    <3>2. wide \in Int
      BY <1>2
    <3> HIDE DEF high
    <3>3. high(u) \in Int
      BY <1>5
    <3> QED BY <3>1, <3>2, <3>3
  <2>2. StampRank(u) = IF u % sq = 0 THEN (2 * (u \div sq) + 1) * wide
                       ELSE 2 * (u \div sq) * wide + ((u % sq) \div Base) * (Base + 1)
                       + (IF (u % sq) % Base = 0 THEN Base ELSE (u % sq) % Base)
    BY DEF StampRank, wide
  <2>3. (u % sq) \div Base \in Int /\ (u % sq) % Base \in Int
    BY <1>3, <1>4
  <2> DEFINE d == ((u % sq) \div Base) * (Base + 1)
             e == IF (u % sq) % Base = 0 THEN Base ELSE (u % sq) % Base
             m == 2 * (u \div sq) * wide
  <2>4. d \in Int /\ e \in Int /\ m \in Int
    BY <2>1, <2>3, <1>1
  <2>5. StampRank(u) = IF u % sq = 0 THEN (2 * (u \div sq) + 1) * wide ELSE m + d + e
    BY <2>2
  <2>6. low(u) = d + e
    OBVIOUS
  <2>7. (2 * (u \div sq) + 1) * wide \in Int
    BY <2>1
  <2> HIDE DEF d, e, low
  <2> QED BY <2>4, <2>5, <2>6, <2>7
<1>7. high(s) = high(t) /\ rest(s) = rest(t)
  <2> HIDE DEF high, rest
  <2>1. high(s) * wide + rest(s) = high(t) * wide + rest(t)
    BY <1>1, <1>6
  <2> DEFINE a == high(s)  b == high(t)  x == rest(s)  y == rest(t)
  <2>2. a \in Int /\ b \in Int /\ x \in 0 .. wide - 1 /\ y \in 0 .. wide - 1
    BY <1>1, <1>5
  <2>3. a * wide + x = b * wide + y
    BY <2>1
  <2>4. wide \in Nat \ {0}
    BY <1>2
  <2> HIDE DEF a, b, x, y
  <2>5. a = b /\ x = y
    BY <2>2, <2>3, <2>4, DigitsUnique
  <2> QED BY <2>5 DEF a, b, x, y
<1>8. s \div sq = t \div sq /\ (s % sq = 0 <=> t % sq = 0)
  <2>1. s \div sq \in Int /\ t \div sq \in Int
    BY <1>1, <1>3
  <2> HIDE DEF sq, rest
  <2> QED BY <1>7, <2>1, <1>1, <1>5
<1>9. s % sq = t % sq
  <2>1. CASE s % sq = 0
    BY <1>8, <2>1
  <2>2. CASE s % sq # 0
    <3> DEFINE f == s % sq
               g == t % sq
               e(k) == IF k % Base = 0 THEN Base ELSE k % Base
    <3>1. f \in 0 .. sq - 1 /\ g \in 0 .. sq - 1
      BY <1>1, <1>3
    <3>2. (f \div Base) * (Base + 1) + e(f) = (g \div Base) * (Base + 1) + e(g)
      BY <1>7, <1>8, <2>2
    <3> HIDE DEF f, g
    <3>3. /\ f \div Base \in Int /\ g \div Base \in Int
          /\ f % Base \in 0 .. Base - 1 /\ g % Base \in 0 .. Base - 1
          /\ f = (f \div Base) * Base + (f % Base) /\ g = (g \div Base) * Base + (g % Base)
      BY <3>1, <1>4
    <3>4. e(f) \in 0 .. (Base + 1) - 1 /\ e(g) \in 0 .. (Base + 1) - 1
      BY <3>3, <1>1
    <3> HIDE DEF e
    <3>5. f \div Base = g \div Base /\ e(f) = e(g)
      <4>1. Base + 1 \in Nat \ {0}
        BY <1>1
      <4> DEFINE a == f \div Base
                 b == g \div Base
                 w == Base + 1
      <4>2. a \in Int /\ b \in Int /\ a * w + e(f) = b * w + e(g)
        BY <3>2, <3>3
      <4> HIDE DEF a, b, w
      <4>3. a = b /\ e(f) = e(g)
        BY <3>4, <4>1, <4>2, DigitsUnique DEF w
      <4> QED BY <4>3 DEF a, b
    <3>6. f % Base = g % Base
      BY <3>3, <3>5, <1>1 DEF e
    <3>7. f = g
      BY <3>3, <3>5, <3>6
    <3> QED BY <3>7 DEF f, g
  <2> QED BY <2>1, <2>2
<1>10. s = (s \div sq) * sq + (s % sq) /\ t = (t \div sq) * sq + (t % sq)
  BY <1>1, <1>3
<1> QED
  <2> DEFINE a == s \div sq
             b == s % sq
  <2>1. s = a * sq + b /\ t = a * sq + b
    BY <1>8, <1>9, <1>10
  <2> HIDE DEF a, b
  <2> QED BY <2>1

\* The position of a stamp is a natural number.
LEMMA StampRankNat == ASSUME NEW t \in Time PROVE StampRank(t) \in Nat
<1>1. t \in Nat /\ Base \in Nat /\ Base > 1
  BY TimeAssumption DEF Time
<1> DEFINE sq == Base * Base
<1>2. sq \in Int /\ sq > 0
  BY <1>1, SMT
<1> DEFINE sec == t \div sq
           frac == t % sq
<1>3. sec \in Nat /\ frac \in Nat
  <2> HIDE DEF sq
  <2> QED BY <1>1, <1>2
<1> HIDE DEF sec, frac
<1>4. frac \div Base \in Nat /\ frac % Base \in Nat
  BY <1>1, <1>3
<1> DEFINE d1 == frac \div Base
           m == frac % Base
           d2 == IF m = 0 THEN Base ELSE m
           wide == (Base + 1) * (Base + 1)
<1>5. d1 \in Nat /\ d2 \in Nat /\ wide \in Nat
  <2>1. d1 \in Nat /\ m \in Nat BY <1>4
  <2> HIDE DEF d1, m
  <2> QED BY <2>1, <1>1
<1>6. StampRank(t) = IF frac = 0 THEN (2 * sec + 1) * wide
                                 ELSE 2 * sec * wide + d1 * (Base + 1) + d2
  BY DEF StampRank, sec, frac
<1> HIDE DEF d1, m, d2, wide
<1>7. 2 * sec * wide \in Nat /\ (2 * sec + 1) * wide \in Nat /\ d1 * (Base + 1) \in Nat
  BY <1>1, <1>3, <1>5
<1> QED BY <1>5, <1>6, <1>7

\* The position of a file name is a natural number.
LEMMA RankNat == ASSUME NEW q \in Path PROVE Rank(q) \in Nat
<1>1. q.time \in Time /\ q.idx \in Nat /\ MaxIdx \in Nat
  BY IdxAssumption DEF Path
<1> DEFINE s == StampRank(q.time)
<1>2. s \in Nat
  BY <1>1, StampRankNat
<1> HIDE DEF s
<1>3. s * (MaxIdx + 2) \in Nat
  BY <1>1, <1>2
<1> QED BY <1>1, <1>3 DEF Rank, s

\* Within a directory the name order is total.
LEMMA RankInjective ==
    ASSUME NEW q \in Path, NEW r \in Path, q.dir = r.dir, Rank(q) = Rank(r)
    PROVE  q = r
<1> DEFINE w == MaxIdx + 2
           a == StampRank(q.time)
           b == StampRank(r.time)
           x == IF q.idx = 0 THEN MaxIdx + 1 ELSE q.idx
           y == IF r.idx = 0 THEN MaxIdx + 1 ELSE r.idx
<1>1. /\ q.time \in Time /\ q.idx \in 0 .. MaxIdx
      /\ r.time \in Time /\ r.idx \in 0 .. MaxIdx /\ MaxIdx \in Nat
  BY IdxAssumption DEF Path
<1>2. a \in Int /\ b \in Int
  BY <1>1, StampRankNat
<1>3. w \in Nat \ {0} /\ x \in 0 .. w - 1 /\ y \in 0 .. w - 1
  BY <1>1
<1>4. a * w + x = b * w + y
  BY DEF Rank
<1>5. a = b /\ x = y
  <2> HIDE DEF a, b, w, x, y
  <2> QED BY <1>2, <1>3, <1>4, DigitsUnique
<1>6. q.time = r.time
  BY <1>1, <1>5, StampRankInjective
<1>7. q.idx = r.idx
  BY <1>1, <1>5
<1> QED BY <1>6, <1>7 DEF Path

\* Every nonempty set of natural numbers has a least element.
LEMMA LeastNatural ==
    ASSUME NEW S \in SUBSET Nat, S # {}
    PROVE  \E x \in S : \A y \in S : x <= y
<1> DEFINE R == OpToRel(<, Nat)
<1>1. IsWellFoundedOn(R, Nat)
  BY NatLessThanWellFounded
<1>2. R = { ss \in Nat \X Nat : ss[1] < ss[2] }
  BY DEF OpToRel
<1> HIDE DEF R
<1>3. PICK x \in S : \A y \in S : << y, x >> \notin R
  BY <1>1, WFMin
<1>4. \A y \in S : << y, x >> \in R <=> y < x
  <2> TAKE y \in S
  <2>1. << y, x >> \in Nat \X Nat
    OBVIOUS
  <2> QED BY <1>2, <2>1
<1>5. \A y \in S : ~(y < x)
  BY <1>3, <1>4
<1> QED BY <1>5

\* The files of a directory have a first one.
LEMMA FirstFile ==
    ASSUME NEW S \in SUBSET Path, S # {}, NEW d, \A q \in S : q.dir = d
    PROVE  \E m \in S : \A q \in S \ {m} : After(q, m)
<1> DEFINE R == { Rank(q) : q \in S }
<1>1. R \in SUBSET Nat /\ R # {}
  BY RankNat
<1> HIDE DEF R
<1>2. PICK n \in R : \A k \in R : n <= k
  BY <1>1, LeastNatural
<1>3. PICK m \in S : n = Rank(m)
  BY DEF R
<1>4. \A q \in S : Rank(m) <= Rank(q) /\ Rank(q) \in Nat /\ Rank(m) \in Nat
  BY <1>2, <1>3, RankNat DEF R
<1>5. \A q \in S \ {m} : Rank(q) # Rank(m)
  BY RankInjective
<1> QED BY <1>4, <1>5 DEF After

\* What pruning to a limit keeps of one directory is no more than the limit.
LEMMA KeptAtMostLimit ==
    ASSUME NEW cands, { c.path : c \in cands } \subseteq Path, NEW limit \in Nat,
           NEW S \in SUBSET ({ c.path : c \in cands } \ Oldest(cands, limit)),
           NEW d, \A q \in S : q.dir = d
    PROVE  Cardinality(S) <= limit
<1> DEFINE files == { c.path : c \in cands }
<1>1. S \in SUBSET Path /\ IsFiniteSet(S)
  BY PathFinite, FS_Subset
<1>2. CASE S = {}
  BY <1>2, FS_EmptySet
<1>3. CASE S # {}
  <2>1. PICK m \in S : \A q \in S \ {m} : After(q, m)
    BY <1>1, <1>3, FirstFile
  <2> DEFINE later == { r \in files : After(r, m) }
  <2>2. m \in files /\ ~(Cardinality(later) >= limit)
    BY DEF Oldest
  <2>3. S \ {m} \subseteq later
    BY <2>1
  <2>4. IsFiniteSet(later)
    <3>1. later \subseteq Path
      OBVIOUS
    <3> QED BY <3>1, PathFinite, FS_Subset
  <2>5. Cardinality(S \ {m}) <= Cardinality(later)
    <3> HIDE DEF later
    <3> QED BY <2>3, <2>4, FS_Subset
  <2>6. Cardinality(S \ {m}) = Cardinality(S) - 1
    BY <1>1, FS_RemoveElement
  <2>7. Cardinality(later) \in Nat /\ Cardinality(S) \in Nat
    BY <1>1, <2>4, FS_CardinalityType
  <2> HIDE DEF later
  <2> QED BY <2>2, <2>5, <2>6, <2>7
<1> QED BY <1>2, <1>3

-----------------------------------------------------------------------------
(* The history is bounded when all stores have ended *)

Paths(cands) == { c.path : c \in cands }

Stores(p) == job[p].op = "store"

\* Stores that have still to list their directory, and stores that have.
Unlisted == { "stat", "create", "write", "readdir" }
Listed   == { "read", "prune", "ok" }

\* A store that has listed its directory accounts for each file in it: it has still to
\* read it, has read it, will remove it or leaves it among its newest.
Accounts(q) ==
    /\ pc[q] = "read" => Files(DirOfJob(q)) \subseteq toRead[q] \cup Paths(found[q])
    /\ pc[q] \in {"prune", "ok"} =>
         Files(DirOfJob(q)) \subseteq
             victims[q] \cup (Paths(found[q]) \ Oldest(found[q], job[q].limit))
    /\ pc[q] = "ok" => victims[q] = {}

\* Somewhere a command has failed or was killed.
SomeFailed == \E r \in Proc : pc[r] \notin {"idle", "ok"} \cup Running

\* Of the stores that share a directory the last to list it accounts for all of it, as
\* long as none has still to list it and none has failed.
LastListerAccounts ==
    SomeFailed \/ \A p \in Proc : Stores(p) /\ pc[p] \in Listed =>
        \E q \in Proc : /\ Stores(q) /\ DirOfJob(q) = DirOfJob(p)
                        /\ pc[q] \in Unlisted \/ (pc[q] \in Listed /\ Accounts(q))

IdleHasNoJob == \A p \in Proc : pc[p] = "idle" => job[p].op = "none"

\* A store writes in its task's directory; only stores write and prune.
StoresOnly ==
    \A p \in Proc :
        /\ pc[p] \in {"stat", "create", "write", "prune"} => Stores(p)
        /\ Stores(p) => path[p].dir = DirOfJob(p)

QuiescentInv == TypeOK /\ LastListerAccounts /\ IdleHasNoJob /\ StoresOnly

\* Each step keeps IdleHasNoJob.
LEMMA IdleStep ==
    ASSUME QuiescentInv, [Next]_vars
    PROVE  IdleHasNoJob'
<1> SUFFICES ASSUME NEW p \in Proc, pc'[p] = "idle" PROVE job'[p].op = "none"
  BY DEF IdleHasNoJob
<1> USE DEF QuiescentInv, TypeOK, Goto
<1>1. pc[p] = "idle" /\ job'[p] = job[p]
  <2>1. CASE Tick \/ UNCHANGED vars
    BY <2>1 DEF Tick, vars
  <2>2. ASSUME NEW r \in Proc, BeginStore(r) \/ BeginSince(r)
        PROVE  pc[p] = "idle" /\ job'[p] = job[p]
    BY <2>2 DEF BeginStore, BeginSince
  <2>3. ASSUME NEW r \in Proc, Step(r) \/ IOError(r) \/ Crash(r)
        PROVE  pc[p] = "idle" /\ job'[p] = job[p]
    BY <2>3 DEF Step, StatName, CreateFile, WriteFile, ReadDir, ReadEntry, PlanPrune,
                RemoveOldest, SelectBaseline, IOError, IOErrorCode, Crash, Running
  <2> QED BY <2>1, <2>2, <2>3 DEF Next
<1> QED BY <1>1 DEF IdleHasNoJob

\* A command that has failed stays failed.
LEMMA FailureStays ==
    ASSUME QuiescentInv, [Next]_vars, SomeFailed
    PROVE  SomeFailed'
<1> USE DEF QuiescentInv
<1>1. PICK r \in Proc : pc[r] \notin {"idle", "ok"} \cup Running
  BY DEF SomeFailed
<1>2. ~Step(r) /\ ~IOError(r) /\ ~Crash(r)
  BY <1>1 DEF Step, StatName, CreateFile, WriteFile, ReadDir, ReadEntry, PlanPrune,
              RemoveOldest, SelectBaseline, IOError, Crash, Running
<1>3. pc'[r] = pc[r]
  BY <1>1, <1>2, OwnSteps
<1> QED BY <1>1, <1>3 DEF SomeFailed

\* Files come into a directory only by a store that has still to list it, or fails.
LEMMA FilesComeFrom ==
    ASSUME QuiescentInv, [Next]_vars, NEW d \in Dir, NEW q \in Files(d)', q \notin Files(d)
    PROVE  \E p \in Proc : path[p].dir = d /\ (CreateFile(p) \/ WriteFile(p) \/ IOError(p))
<1> USE DEF QuiescentInv, TypeOK
<1>0. q \in Path /\ q.dir = d /\ store[q] = Absent /\ store'[q] # Absent
  BY DEF Files
<1>1. ASSUME NEW p \in Proc, CreateFile(p) \/ WriteFile(p) \/ IOError(p)
      PROVE  path[p] = q
  BY <1>0, <1>1 DEF CreateFile, WriteFile, IOError
<1>2. ASSUME NEW p \in Proc, RemoveOldest(p) PROVE FALSE
  BY <1>0, <1>2 DEF RemoveOldest
<1>3. ASSUME NEW p \in Proc,
             BeginStore(p) \/ BeginSince(p) \/ StatName(p) \/ ReadDir(p) \/ ReadEntry(p)
               \/ PlanPrune(p) \/ SelectBaseline(p) \/ Crash(p)
      PROVE  FALSE
  BY <1>0, <1>3 DEF BeginStore, BeginSince, StatName, ReadDir, ReadEntry, PlanPrune,
                    SelectBaseline, Crash
<1>4. CASE Tick \/ UNCHANGED vars
  BY <1>0, <1>4 DEF Tick, vars
<1> QED BY <1>0, <1>1, <1>2, <1>3, <1>4 DEF Next, Step

\* Each step keeps StoresOnly.
LEMMA StoresOnlyStep ==
    ASSUME QuiescentInv, [Next]_vars
    PROVE  StoresOnly'
<1> USE DEF QuiescentInv, TypeOK, Goto
<1> SUFFICES ASSUME NEW p \in Proc
             PROVE  /\ pc'[p] \in {"stat", "create", "write", "prune"} => job'[p].op = "store"
                    /\ job'[p].op = "store" => path'[p].dir = DirOf[job'[p].task]
  BY DEF StoresOnly, Stores, DirOfJob
<1>1. /\ pc[p] \in {"stat", "create", "write", "prune"} => job[p].op = "store"
      /\ job[p].op = "store" => path[p].dir = DirOf[job[p].task]
  BY DEF StoresOnly, Stores, DirOfJob
<1>2. ASSUME NEW r \in Proc, BeginStore(r) \/ BeginSince(r)
      PROVE  /\ pc'[p] \in {"stat", "create", "write", "prune"} => job'[p].op = "store"
             /\ job'[p].op = "store" => path'[p].dir = DirOf[job'[p].task]
  BY <1>1, <1>2 DEF BeginStore, BeginSince
<1>3. ASSUME NEW r \in Proc, Step(r) \/ IOError(r) \/ Crash(r)
      PROVE  /\ job'[p] = job[p] /\ path'[p].dir = path[p].dir
             /\ \/ pc'[p] = pc[p]
                \/ pc'[p] \notin {"stat", "create", "write", "prune"}
                \/ pc[p] \in {"stat", "create", "write", "prune"}
                \/ job[p].op = "store"
  <2>1. CASE Step(r)
    BY <2>1 DEF Step, StatName, CreateFile, WriteFile, ReadDir, ReadEntry, PlanPrune,
                RemoveOldest, SelectBaseline, Path
  <2>2. CASE IOError(r) \/ Crash(r)
    BY <2>2 DEF IOError, IOErrorCode, Crash
  <2> QED BY <1>3, <2>1, <2>2
<1>4. CASE Tick \/ UNCHANGED vars
  BY <1>1, <1>4 DEF Tick, vars
<1> QED BY <1>1, <1>2, <1>3, <1>4 DEF Next

\* A store that has listed keeps accounting for its directory, if no file comes into it.
LEMMA AccountsStep ==
    ASSUME QuiescentInv, [Next]_vars, ~SomeFailed', NEW q \in Proc,
           Stores(q), pc[q] \in Listed, Accounts(q),
           Files(DirOfJob(q))' \subseteq Files(DirOfJob(q))
    PROVE  pc'[q] \in Listed /\ Accounts(q)'
<1> USE DEF QuiescentInv
<1>0. pc[q] # "idle" /\ job'[q] = job[q]
  BY OwnSteps DEF Listed
<1> DEFINE files == Files(DirOfJob(q))
           files1 == Files(DirOfJob(q))'
           kept == Paths(found[q]) \ Oldest(found[q], job[q].limit)
<1>1. /\ pc[q] = "read" => files \subseteq toRead[q] \cup Paths(found[q])
      /\ pc[q] \in {"prune", "ok"} => files \subseteq victims[q] \cup kept
      /\ pc[q] = "ok" => victims[q] = {}
      /\ files1 \subseteq files
  BY DEF Accounts
<1>2. SUFFICES /\ pc'[q] \in Listed
               /\ pc'[q] = "read" => files1 \subseteq toRead'[q] \cup Paths(found'[q])
               /\ pc'[q] \in {"prune", "ok"} =>
                    files1 \subseteq victims'[q]
                                     \cup (Paths(found'[q]) \ Oldest(found'[q], job[q].limit))
               /\ pc'[q] = "ok" => victims'[q] = {}
  BY <1>0 DEF Accounts, Paths, Oldest, Files, DirOfJob
<1>3. pc'[q] \in {"idle", "ok"} \cup Running
  BY DEF SomeFailed
<1> HIDE DEF files, files1
<1>4. CASE /\ pc'[q] = pc[q] /\ toRead'[q] = toRead[q]
           /\ found'[q] = found[q] /\ victims'[q] = victims[q]
  BY <1>1, <1>4
<1>5. CASE ReadEntry(q)
  <2>1. pc[q] = "read"
    BY <1>5 DEF ReadEntry
  <2>2. PICK r \in toRead[q] :
           \/ /\ found' = [found EXCEPT ![q] = @ \cup {[path |-> r, by |-> store[r]]}]
              /\ toRead' = [toRead EXCEPT ![q] = @ \ {r}]
              /\ UNCHANGED pc
           \/ Goto(q, "E_CONFIG_UNREADABLE")
           \/ Goto(q, "E_CONFIG_INVALID")
    BY <1>5 DEF ReadEntry
  <2>3. /\ found' = [found EXCEPT ![q] = @ \cup {[path |-> r, by |-> store[r]]}]
        /\ toRead' = [toRead EXCEPT ![q] = @ \ {r}]
        /\ UNCHANGED pc
    BY <1>3, <2>2 DEF Goto, TypeOK, Running
  <2>4. Paths(found'[q]) = Paths(found[q]) \cup {r} /\ toRead'[q] = toRead[q] \ {r}
    <3> DEFINE k == [path |-> r, by |-> store[r]]
    <3>1. found'[q] = found[q] \cup {k} /\ toRead'[q] = toRead[q] \ {r}
      BY <2>3 DEF TypeOK
    <3>2. k.path = r
      OBVIOUS
    <3> HIDE DEF k
    <3>3. Paths(found[q] \cup {k}) = Paths(found[q]) \cup {k.path}
      BY DEF Paths
    <3> QED BY <3>1, <3>2, <3>3
  <2> QED BY <1>1, <2>1, <2>3, <2>4 DEF Listed
<1>6. CASE PlanPrune(q)
  <2>1. /\ pc[q] = "read" /\ toRead[q] = {} /\ found' = found
        /\ victims'[q] = Oldest(found[q], job[q].limit)
        /\ pc'[q] = IF victims'[q] = {} THEN "ok" ELSE "prune"
    BY <1>6 DEF PlanPrune, Goto, TypeOK
  <2> QED BY <1>1, <2>1 DEF Listed
<1>7. CASE RemoveOldest(q)
  <2>1. pc[q] = "prune" /\ found' = found
    BY <1>7 DEF RemoveOldest
  <2>2. PICK v \in victims[q] :
           \/ Goto(q, "E_CONFIG_WRITE_FAILED")
           \/ /\ store' = [store EXCEPT ![v] = Absent]
              /\ victims' = [victims EXCEPT ![q] = @ \ {v}]
              /\ Goto(q, IF victims[q] = {v} THEN "ok" ELSE "prune")
    BY <1>7 DEF RemoveOldest
  <2>3. /\ store' = [store EXCEPT ![v] = Absent]
        /\ victims' = [victims EXCEPT ![q] = @ \ {v}]
        /\ pc'[q] = IF victims[q] = {v} THEN "ok" ELSE "prune"
    BY <1>3, <2>2 DEF Goto, TypeOK, Running
  <2>4. v \notin files1
    BY <2>3 DEF files1, Files, TypeOK
  <2>5. victims'[q] = victims[q] \ {v}
    BY <2>3 DEF TypeOK
  <2> QED BY <1>1, <2>1, <2>3, <2>4, <2>5 DEF Listed
<1>8. CASE \/ StatName(q) \/ CreateFile(q) \/ WriteFile(q) \/ ReadDir(q) \/ SelectBaseline(q)
           \/ IOError(q) \/ Crash(q)
  BY <1>3, <1>8 DEF StatName, CreateFile, WriteFile, ReadDir, SelectBaseline, IOError,
                    IOErrorCode, Crash, Goto, Listed, Stores, Running, TypeOK
<1> QED BY <1>0, <1>4, <1>5, <1>6, <1>7, <1>8, OwnSteps DEF Step

\* Each step keeps LastListerAccounts: while a store has still to list its directory, others
\* may lose track of what it writes; the one that lists last sees all of it.
LEMMA LastListerStep ==
    ASSUME QuiescentInv, [Next]_vars
    PROVE  LastListerAccounts'
<1> USE DEF QuiescentInv
<1> SUFFICES ASSUME ~SomeFailed', NEW p \in Proc, Stores(p)', pc'[p] \in Listed
             PROVE  \E q \in Proc : /\ Stores(q)' /\ DirOfJob(q)' = DirOfJob(p)'
                                    /\ \/ pc'[q] \in Unlisted
                                       \/ pc'[q] \in Listed /\ Accounts(q)'
  BY DEF LastListerAccounts
<1>0. ~SomeFailed
  BY FailureStays
<1>1. \A r \in Proc : pc'[r] \in {"idle", "ok"} \cup Running
  BY DEF SomeFailed
<1>2. pc[p] # "idle" /\ job'[p] = job[p] /\ pc[p] \in Listed \cup {"readdir"}
  <2>1. pc[p] # "idle"
    <3> SUFFICES ASSUME pc[p] = "idle" PROVE FALSE
      OBVIOUS
    <3>1. job[p].op # "store" /\ job'[p].op = "store" /\ pc'[p] \in Listed
      BY DEF IdleHasNoJob, Stores
    <3>2. CASE Tick \/ UNCHANGED vars
      BY <3>2, <3>1 DEF Tick, vars, Listed, Stores
    <3>3. ASSUME NEW r \in Proc, BeginStore(r) \/ BeginSince(r) PROVE FALSE
      BY <3>1, <3>3 DEF BeginStore, BeginSince, Listed, Stores, Goto, TypeOK
    <3>4. ASSUME NEW r \in Proc, Step(r) \/ IOError(r) \/ Crash(r) PROVE FALSE
      BY <3>1, <3>4 DEF Step, StatName, CreateFile, WriteFile, ReadDir, ReadEntry, PlanPrune,
                RemoveOldest, SelectBaseline, IOError, IOErrorCode, Crash, Listed, Stores,
                Running, Goto, TypeOK
    <3> QED BY <3>2, <3>3, <3>4 DEF Next
  <2>2. job'[p] = job[p]
    BY <2>1, OwnSteps
  <2>3. CASE pc'[p] = pc[p]
    BY <2>1, <2>2, <2>3 DEF Listed
  <2>4. CASE Step(p)
    BY <2>4 DEF Step, StatName, CreateFile, WriteFile, ReadDir, ReadEntry, PlanPrune,
                RemoveOldest, SelectBaseline, Listed, Goto, TypeOK
  <2>5. CASE IOError(p) \/ Crash(p)
    BY <1>1, <2>5 DEF IOError, IOErrorCode, Crash, Listed, Goto, TypeOK, Running
  <2> QED BY <2>1, <2>2, <2>3, <2>4, <2>5, OwnSteps
<1>d. PICK d \in Dir : d = DirOf[job[p].task]
  BY DirAssumption DEF TypeOK, Job
<1>3. Stores(p) /\ DirOfJob(p)' = d
  BY <1>d, <1>2 DEF Stores, DirOfJob
<1>4. PICK q \in Proc : /\ Stores(q) /\ DirOfJob(q) = d
                        /\ pc[q] \in Unlisted \/ (pc[q] \in Listed /\ Accounts(q))
  <2>1. CASE pc[p] \in Listed
    BY <1>0, <1>d, <1>3, <2>1 DEF LastListerAccounts, DirOfJob
  <2>2. CASE pc[p] = "readdir"
    BY <1>d, <1>3, <2>2 DEF Unlisted, DirOfJob
  <2> QED BY <1>2, <2>1, <2>2
<1>5. pc[q] # "idle" /\ job'[q] = job[q] /\ Stores(q)' /\ DirOfJob(q)' = d
  <2>1. pc[q] # "idle"
    BY <1>4 DEF Listed, Unlisted
  <2>2. job'[q] = job[q]
    BY <2>1, OwnSteps
  <2> QED BY <1>4, <2>1, <2>2 DEF Stores, DirOfJob
<1>6. CASE pc[q] \in Unlisted
  <2>1. CASE pc'[q] = pc[q]
    BY <1>3, <1>5, <1>6, <2>1
  <2>2. CASE StatName(q) \/ CreateFile(q) \/ WriteFile(q)
    <3>1. pc'[q] \in Unlisted
      BY <1>6, <2>2 DEF StatName, CreateFile, WriteFile, Goto, Unlisted, TypeOK
    <3> QED BY <1>3, <1>5, <3>1
  <2>3. CASE ReadDir(q)
    <3>1. pc'[q] = "read" /\ toRead'[q] = Files(DirOfJob(q)) /\ store' = store
      BY <2>3 DEF ReadDir, Goto, TypeOK
    <3>2. Files(DirOfJob(q))' = Files(DirOfJob(q))
      BY <1>4, <1>5, <3>1 DEF Files
    <3>3. Accounts(q)' /\ pc'[q] \in Listed
      BY <3>1, <3>2 DEF Accounts, Listed
    <3> QED BY <1>3, <1>5, <3>3
  <2>4. CASE ReadEntry(q) \/ PlanPrune(q) \/ RemoveOldest(q) \/ SelectBaseline(q)
    BY <1>6, <2>4 DEF ReadEntry, PlanPrune, RemoveOldest, SelectBaseline, Unlisted
  <2>5. CASE IOError(q) \/ Crash(q)
    BY <1>1, <2>5 DEF IOError, IOErrorCode, Crash, Goto, TypeOK, Running
  <2> QED BY <1>5, <2>1, <2>2, <2>3, <2>4, <2>5, OwnSteps DEF Step
<1>7. CASE pc[q] \in Listed /\ Accounts(q)
  <2>1. CASE Files(d)' \subseteq Files(d)
    <3>1. Files(DirOfJob(q))' \subseteq Files(DirOfJob(q))
      BY <1>4, <1>5, <2>1 DEF Files
    <3>2. pc'[q] \in Listed /\ Accounts(q)'
      BY <1>4, <1>7, <3>1, AccountsStep
    <3> QED BY <1>3, <1>5, <3>2
  <2>2. ASSUME NEW f \in Files(d)', f \notin Files(d)
        PROVE  \E r \in Proc : Stores(r)' /\ DirOfJob(r)' = d /\ pc'[r] \in Unlisted
    <3>1. PICK r \in Proc : path[r].dir = d /\ (CreateFile(r) \/ WriteFile(r) \/ IOError(r))
      BY <1>3, <2>2, FilesComeFrom
    <3>2. ~IOError(r)
      BY <1>1 DEF IOError, IOErrorCode, Goto, TypeOK, Running
    <3>3. pc[r] \in {"create", "write"} /\ pc'[r] \in Unlisted /\ job' = job
      BY <3>1, <3>2 DEF CreateFile, WriteFile, Goto, Unlisted, TypeOK
    <3>4. Stores(r) /\ DirOfJob(r) = d
      BY <3>1, <3>3 DEF StoresOnly
    <3> QED BY <3>3, <3>4 DEF Stores, DirOfJob
  <2> QED BY <1>3, <2>1, <2>2
<1> QED BY <1>4, <1>6, <1>7

\* Each step keeps the invariant behind QuiescentRetention.
LEMMA QuiescentStep == QuiescentInv /\ [Next]_vars => QuiescentInv'
<1> SUFFICES ASSUME QuiescentInv, [Next]_vars PROVE QuiescentInv'
  OBVIOUS
<1>1. TypeOK'
  BY TypeStep DEF QuiescentInv
<1> QED BY <1>1, IdleStep, StoresOnlyStep, LastListerStep DEF QuiescentInv

\* The initial state satisfies it.
LEMMA QuiescentInit == Init => QuiescentInv
<1> SUFFICES ASSUME Init PROVE QuiescentInv
  OBVIOUS
<1>1. LastListerAccounts /\ IdleHasNoJob /\ StoresOnly
  BY DEF Init, LastListerAccounts, IdleHasNoJob, StoresOnly, Stores, Listed, NoJob
<1> QED BY <1>1, TypeInit DEF QuiescentInv

\* When every store that ran has ended well, each of their directories holds no more
\* files than one of them was asked to keep.
THEOREM QuiescentBounded == Spec => []QuiescentRetention
<1>1. QuiescentInv => QuiescentRetention
  <2> SUFFICES ASSUME QuiescentInv, \A r \in Proc : pc[r] \in {"idle", "ok"},
                      NEW p \in Proc, Stores(p)
               PROVE  \E q \in Proc : /\ Stores(q) /\ DirOfJob(q) = DirOfJob(p)
                                      /\ Cardinality(Files(DirOfJob(p))) <= job[q].limit
    BY DEF QuiescentRetention, Stores
  <2> USE DEF QuiescentInv
  <2>1. ~SomeFailed /\ pc[p] \in Listed
    BY DEF SomeFailed, IdleHasNoJob, Stores, Listed
  <2>2. PICK q \in Proc : /\ Stores(q) /\ DirOfJob(q) = DirOfJob(p)
                          /\ pc[q] \in Unlisted \/ (pc[q] \in Listed /\ Accounts(q))
    BY <2>1 DEF LastListerAccounts
  <2>3. pc[q] = "ok" /\ Accounts(q)
    BY <2>2 DEF Unlisted, Listed
  <2> DEFINE S == Files(DirOfJob(q))
  <2>4. S \subseteq Paths(found[q]) \ Oldest(found[q], job[q].limit)
    BY <2>3 DEF Accounts
  <2>5. Paths(found[q]) \subseteq Path /\ job[q].limit \in Nat
    BY DEF TypeOK, Candidate, Job, Paths
  <2>6. \A f \in S : f.dir = DirOfJob(q)
    BY DEF Files
  <2> HIDE DEF S
  <2>7. Cardinality(S) <= job[q].limit
    BY <2>4, <2>5, <2>6, KeptAtMostLimit DEF Paths
  <2> QED BY <2>2, <2>7 DEF S
<1> QED BY <1>1, QuiescentInit, QuiescentStep, PTL DEF Spec
=============================================================================
