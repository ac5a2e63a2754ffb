-------------------------- MODULE ConfigFileProofs --------------------------
(***************************************************************************)
(* Proofs about ConfigFile for any number of invocations, any keys and     *)
(* values, any set of valid texts and any number of power failures.        *)
(*                                                                         *)
(* FileInv says what AtomicWriteFile's order of calls buys: what is about  *)
(* to be renamed is whole, valid and on the device, so whatever the file   *)
(* becomes, a power failure finds it intact.  EditInv says why an edit is  *)
(* lost only to an overlapping command: an invocation that began after     *)
(* another had ended holds its edit in its draft.                          *)
(***************************************************************************)
EXTENDS ConfigFile, TLAPS

\* What the file holds is on the device.
Synced ==
    /\ target # Absent => target.synced
    /\ durable # Absent => durable.synced

\* A temporary file that may be renamed is what its invocation drafted.
Drafted ==
    \A p \in Proc :
        /\ pc[p] \in {"sync", "rename"} =>
             /\ temp[p] \in File
             /\ temp[p].text = draft[p].text
             /\ temp[p].edits = draft[p].edits
        /\ pc[p] = "rename" => temp[p].synced

FileInv == TypeOK /\ Synced /\ Drafted

LEMMA InitFile == Init => FileInv
<1> SUFFICES ASSUME Init PROVE FileInv
  OBVIOUS
<1>1. target \in File \cup {Absent} /\ (target # Absent => target.synced)
  BY DEF Init, File
<1>2. NoJob \in Job /\ NoDraft \in [text : Valid, edits : SUBSET Proc]
  BY ConfigAssumption DEF NoJob, Job, NoDraft
<1>3. TypeOK
  BY <1>1, <1>2, OutageAssumption DEF Init, TypeOK
<1> QED BY <1>1, <1>3 DEF Init, FileInv, Synced, Drafted

\* The job an invocation begins with.
LEMMA InitJobType ==
    ASSUME NEW f \in BOOLEAN, NEW b \in BOOLEAN, NEW P \in SUBSET Proc
    PROVE  [NoJob EXCEPT !.op = "init", !.force = f, !.blind = b, !.past = P] \in Job
BY DEF NoJob, Job

LEMMA EditJobType ==
    ASSUME NEW e \in Edits, NEW d \in BOOLEAN, NEW P \in SUBSET Proc
    PROVE  [NoJob EXCEPT !.op = "edit", !.edit = e, !.dryRun = d, !.past = P] \in Job
BY DEF NoJob, Job

LEMMA RecoveredSynced ==
    ASSUME NEW f, f # Absent => f.synced PROVE Recovered(f) = f
BY DEF Recovered

\* Type correctness, step by step.
LEMMA FileStep == FileInv /\ [Next]_vars => FileInv'
<1> SUFFICES ASSUME FileInv, [Next]_vars PROVE FileInv'
  OBVIOUS
<1> USE DEF FileInv
<1>1. ASSUME NEW p \in Proc, BeginInit(p) PROVE FileInv'
  <2>1. Succeeded \in SUBSET Proc
    BY DEF Succeeded
  <2>2. job' \in [Proc -> Job]
    <3>1. PICK f \in BOOLEAN, b \in BOOLEAN :
            job' = [job EXCEPT ![p] = [NoJob EXCEPT !.op = "init", !.force = f,
                                                    !.blind = b, !.past = Succeeded]]
      BY <1>1 DEF BeginInit
    <3>2. [NoJob EXCEPT !.op = "init", !.force = f, !.blind = b, !.past = Succeeded] \in Job
      BY <2>1, InitJobType
    <3> QED BY <3>1, <3>2 DEF TypeOK
  <2>3. draft' \in [Proc -> [text : Valid, edits : SUBSET Proc]]
    <3>1. [text |-> Scaffold, edits |-> {p}] \in [text : Valid, edits : SUBSET Proc]
      BY ConfigAssumption
    <3> QED BY <1>1, <3>1 DEF BeginInit, TypeOK
  <2>4. pc' \in [Proc -> {"idle", "ok", "previewed", "crashed"} \cup Running \cup Failed]
    BY <1>1 DEF BeginInit, TypeOK, Goto, Running, Writing, Failed, Refused
  <2>5. \A q \in Proc : pc'[q] \in {"sync", "rename"} =>
            pc'[q] = pc[q] /\ draft'[q] = draft[q] /\ temp'[q] = temp[q]
    BY <1>1 DEF BeginInit, TypeOK, Goto
  <2> QED BY <1>1, <2>2, <2>3, <2>4, <2>5 DEF BeginInit, TypeOK, Synced, Drafted
<1>2. ASSUME NEW p \in Proc, BeginEdit(p) PROVE FileInv'
  <2>1. Succeeded \in SUBSET Proc
    BY DEF Succeeded
  <2>2. job' \in [Proc -> Job]
    <3>1. PICK e \in Edits, d \in BOOLEAN :
            job' = [job EXCEPT ![p] = [NoJob EXCEPT !.op = "edit", !.edit = e,
                                          !.dryRun = d, !.past = Succeeded]]
      BY <1>2 DEF BeginEdit
    <3>2. [NoJob EXCEPT !.op = "edit", !.edit = e, !.dryRun = d, !.past = Succeeded] \in Job
      BY <2>1, EditJobType
    <3> QED BY <3>1, <3>2 DEF TypeOK
  <2>3. pc' \in [Proc -> {"idle", "ok", "previewed", "crashed"} \cup Running \cup Failed]
    BY <1>2 DEF BeginEdit, TypeOK, Goto, Running, Writing, Failed, Refused
  <2>4. \A q \in Proc : pc'[q] \in {"sync", "rename"} => pc'[q] = pc[q]
    BY <1>2 DEF BeginEdit, TypeOK, Goto, Refused
  <2> QED BY <1>2, <2>2, <2>3, <2>4 DEF BeginEdit, TypeOK, Synced, Drafted
<1>3. ASSUME NEW p \in Proc, Resolve(p) PROVE FileInv'
  <2>1. pc' \in [Proc -> {"idle", "ok", "previewed", "crashed"} \cup Running \cup Failed]
    BY <1>3 DEF Resolve, TypeOK, Goto, Running, Writing, Failed, Refused
  <2>2. \A q \in Proc : pc'[q] \in {"sync", "rename"} => pc'[q] = pc[q]
    BY <1>3 DEF Resolve, TypeOK, Goto
  <2> QED BY <1>3, <2>1, <2>2 DEF Resolve, TypeOK, Synced, Drafted
<1>4. ASSUME NEW p \in Proc, ReadConfig(p) PROVE FileInv'
  <2>1. target # Absent => target.edits \cup {p} \in SUBSET Proc
    BY DEF TypeOK, File
  <2>2. draft' \in [Proc -> [text : Valid, edits : SUBSET Proc]]
    BY <1>4, <2>1 DEF ReadConfig, TypeOK
  <2>3. pc' \in [Proc -> {"idle", "ok", "previewed", "crashed"} \cup Running \cup Failed]
    BY <1>4 DEF ReadConfig, TypeOK, Goto, Running, Writing, Failed, Refused
  <2>4. \A q \in Proc : pc'[q] \in {"sync", "rename"} =>
            pc'[q] = pc[q] /\ draft'[q] = draft[q] /\ temp'[q] = temp[q]
    BY <1>4 DEF ReadConfig, TypeOK, Goto
  <2> QED BY <1>4, <2>2, <2>3, <2>4 DEF ReadConfig, TypeOK, Synced, Drafted
<1>5. ASSUME NEW p \in Proc, CreateTemp(p) PROVE FileInv'
  <2>1. [text |-> Malformed, edits |-> {}, synced |-> FALSE] \in File
    BY DEF File
  <2>2. temp' \in [Proc -> File \cup {Absent}]
    BY <1>5, <2>1 DEF CreateTemp, TypeOK
  <2>3. pc' \in [Proc -> {"idle", "ok", "previewed", "crashed"} \cup Running \cup Failed]
    BY <1>5 DEF CreateTemp, TypeOK, Goto, Running, Writing
  <2>4. \A q \in Proc : pc'[q] \in {"sync", "rename"} =>
            pc'[q] = pc[q] /\ temp'[q] = temp[q]
    BY <1>5 DEF CreateTemp, TypeOK, Goto
  <2> QED BY <1>5, <2>2, <2>3, <2>4 DEF CreateTemp, TypeOK, Synced, Drafted
<1>6. ASSUME NEW p \in Proc, WriteTemp(p) PROVE FileInv'
  <2> DEFINE new == [text |-> draft[p].text, edits |-> draft[p].edits, synced |-> FALSE]
  <2>1. new \in File
    BY ConfigAssumption DEF TypeOK, File
  <2>2. temp' \in [Proc -> File \cup {Absent}] /\ temp'[p] = new
    BY <1>6, <2>1 DEF WriteTemp, TypeOK
  <2>3. pc' \in [Proc -> {"idle", "ok", "previewed", "crashed"} \cup Running \cup Failed]
    BY <1>6 DEF WriteTemp, TypeOK, Goto, Running, Writing
  <2>4. pc'[p] = "sync"
    BY <1>6 DEF WriteTemp, TypeOK, Goto
  <2>5. \A q \in Proc \ {p} : pc'[q] = pc[q] /\ temp'[q] = temp[q]
    BY <1>6 DEF WriteTemp, TypeOK, Goto
  <2>6. temp'[p] \in File /\ temp'[p].text = draft'[p].text /\ temp'[p].edits = draft'[p].edits
    BY <1>6, <2>1, <2>2 DEF WriteTemp
  <2>7. Drafted'
    BY <1>6, <2>4, <2>5, <2>6 DEF WriteTemp, Drafted
  <2> QED BY <1>6, <2>2, <2>3, <2>7 DEF WriteTemp, TypeOK, Synced
<1>7. ASSUME NEW p \in Proc, SyncTemp(p) PROVE FileInv'
  <2>1. temp[p] \in File /\ temp[p].text = draft[p].text /\ temp[p].edits = draft[p].edits
    BY <1>7 DEF SyncTemp, Drafted
  <2>2. temp' = [temp EXCEPT ![p] = [temp[p] EXCEPT !.synced = TRUE]]
    BY <1>7 DEF SyncTemp
  <2>3. [temp[p] EXCEPT !.synced = TRUE] \in File
    BY <2>1 DEF File
  <2>4. temp' \in [Proc -> File \cup {Absent}]
    BY <2>2, <2>3 DEF TypeOK
  <2>5. pc' \in [Proc -> {"idle", "ok", "previewed", "crashed"} \cup Running \cup Failed]
    BY <1>7 DEF SyncTemp, TypeOK, Goto, Running, Writing
  <2>6. \A q \in Proc \ {p} : pc'[q] = pc[q] /\ temp'[q] = temp[q]
    BY <1>7, <2>2 DEF SyncTemp, TypeOK, Goto
  <2>7. /\ temp'[p] \in File /\ temp'[p].synced
        /\ temp'[p].text = draft'[p].text /\ temp'[p].edits = draft'[p].edits
    BY <1>7, <2>1, <2>2, <2>3 DEF SyncTemp, TypeOK, File
  <2>8. Drafted'
    BY <1>7, <2>6, <2>7 DEF SyncTemp, Drafted
  <2> QED BY <1>7, <2>4, <2>5, <2>8 DEF SyncTemp, TypeOK, Synced
<1>8. ASSUME NEW p \in Proc, RenameTemp(p) PROVE FileInv'
  <2>1. temp[p] \in File /\ temp[p].synced
    BY <1>8 DEF RenameTemp, Drafted
  <2>2. temp' \in [Proc -> File \cup {Absent}]
    BY <1>8 DEF RenameTemp, TypeOK
  <2>3. pc' \in [Proc -> {"idle", "ok", "previewed", "crashed"} \cup Running \cup Failed]
    BY <1>8 DEF RenameTemp, TypeOK, Goto
  <2>4. \A q \in Proc : pc'[q] \in {"sync", "rename"} =>
            pc'[q] = pc[q] /\ temp'[q] = temp[q]
    BY <1>8 DEF RenameTemp, TypeOK, Goto
  <2> QED BY <1>8, <2>1, <2>2, <2>3, <2>4 DEF RenameTemp, TypeOK, Synced, Drafted
<1>9. ASSUME NEW p \in Proc, RemoveTemp(p) PROVE FileInv'
  <2>1. temp' \in [Proc -> File \cup {Absent}]
    BY <1>9 DEF RemoveTemp, TypeOK
  <2>2. pc' \in [Proc -> {"idle", "ok", "previewed", "crashed"} \cup Running \cup Failed]
    BY <1>9 DEF RemoveTemp, TypeOK, Goto, Failed, Refused
  <2>3. \A q \in Proc : pc'[q] \in {"sync", "rename"} =>
            pc'[q] = pc[q] /\ temp'[q] = temp[q]
    BY <1>9 DEF RemoveTemp, TypeOK, Goto
  <2> QED BY <1>9, <2>1, <2>2, <2>3 DEF RemoveTemp, TypeOK, Synced, Drafted
<1>10. ASSUME NEW p \in Proc, IOError(p) \/ Crash(p) PROVE FileInv'
  <2>1. UNCHANGED << target, durable, temp, job, draft, outages >>
    BY <1>10 DEF IOError, Crash
  <2>2. pc' \in [Proc -> {"idle", "ok", "previewed", "crashed"} \cup Running \cup Failed]
    BY <1>10 DEF IOError, Crash, TypeOK, Goto, Running, Writing, Failed, Refused
  <2>3. \A q \in Proc : pc'[q] \in {"sync", "rename"} => pc'[q] = pc[q]
    BY <1>10 DEF IOError, Crash, TypeOK, Goto
  <2> QED BY <2>1, <2>2, <2>3 DEF TypeOK, Synced, Drafted
<1>11. CASE Flush
  BY <1>11 DEF Flush, TypeOK, Synced, Drafted
<1>12. CASE PowerLoss
  <2>1. Recovered(durable) = durable
    BY RecoveredSynced DEF Synced
  <2>2. outages' \in 0 .. MaxOutages
    BY <1>12, OutageAssumption DEF PowerLoss, TypeOK
  <2>3. pc' \in [Proc -> {"idle", "ok", "previewed", "crashed"} \cup Running \cup Failed]
    BY <1>12 DEF PowerLoss, TypeOK
  <2>4. \A q \in Proc : pc'[q] \notin {"sync", "rename"}
    BY <1>12 DEF PowerLoss, TypeOK, Running, Writing
  <2> QED BY <1>12, <2>1, <2>2, <2>3, <2>4 DEF PowerLoss, TypeOK, Synced, Drafted
<1>13. CASE UNCHANGED vars
  BY <1>13 DEF vars, TypeOK, Synced, Drafted
<1> QED
  BY <1>1, <1>2, <1>3, <1>4, <1>5, <1>6, <1>7, <1>8, <1>9, <1>10, <1>11, <1>12, <1>13
     DEF Next

LEMMA FileInvariant == Spec => []FileInv
BY InitFile, FileStep, PTL DEF Spec

\* The state of the file and its commands keeps its type: in particular only
\* texts that config.Validate passes are ever drafted (runConfigMutation).
THEOREM TypeCorrect == Spec => []TypeOK
<1>1. FileInv => TypeOK
  BY DEF FileInv
<1> QED BY <1>1, FileInvariant, PTL

-----------------------------------------------------------------------------
(* Refinement *)

LEMMA RegisterInit == FileInv /\ Init => Register!Init
<1> SUFFICES ASSUME FileInv, Init PROVE Register!Init
  OBVIOUS
<1>1. TextOf(target) \in Text \cup {Absent, Malformed}
  BY DEF FileInv, TypeOK, TextOf, File
<1>2. TextOf(durable) = TextOf(target)
  BY DEF Init
<1> QED BY <1>1, <1>2 DEF Register!Init

LEMMA RegisterStep ==
    FileInv /\ [Next]_vars => [Register!Next]_<< TextOf(target), TextOf(durable) >>
<1> SUFFICES ASSUME FileInv, [Next]_vars
             PROVE  [Register!Next]_<< TextOf(target), TextOf(durable) >>
  OBVIOUS
<1>1. CASE UNCHANGED << target, durable >>
  BY <1>1 DEF TextOf
<1>2. ASSUME NEW p \in Proc, RenameTemp(p) PROVE Register!Write
  <2>1. temp[p] \in File /\ temp[p].text = draft[p].text
    BY <1>2 DEF FileInv, RenameTemp, Drafted
  <2>2. target' = temp[p] /\ durable' = durable
    BY <1>2 DEF RenameTemp
  <2>3. target' # Absent
    BY <2>1, <2>2, AbsentAssumption
  <2>4. TextOf(target)' \in Valid
    BY <2>1, <2>2, <2>3 DEF FileInv, TypeOK, TextOf
  <2>5. TextOf(durable)' = TextOf(durable)
    BY <2>2 DEF TextOf
  <2> QED BY <2>4, <2>5 DEF Register!Write
<1>3. CASE Flush
  <2>1. TextOf(durable)' = TextOf(target) /\ TextOf(target)' = TextOf(target)
    BY <1>3 DEF Flush, TextOf
  <2> QED BY <2>1 DEF Register!Next, Register!Persist
<1>4. CASE PowerLoss
  <2>1. Recovered(durable) = durable
    BY RecoveredSynced DEF FileInv, Synced
  <2>2. TextOf(target)' = TextOf(durable) /\ TextOf(durable)' = TextOf(durable)
    BY <1>4, <2>1 DEF PowerLoss, TextOf
  <2> QED BY <2>2 DEF Register!Next, Register!PowerLoss
<1>5. CASE Next /\ ~UNCHANGED << target, durable >> /\ ~Flush /\ ~PowerLoss
  <2>1. PICK p \in Proc : RenameTemp(p)
    BY <1>5 DEF Next, BeginInit, BeginEdit, Resolve, ReadConfig, CreateTemp, WriteTemp,
                SyncTemp, RemoveTemp, IOError, Crash
  <2> QED BY <2>1, <1>2 DEF Register!Next
<1> QED BY <1>1, <1>3, <1>4, <1>5 DEF vars

\* Whatever fails or is killed, and after a power failure, the file holds one
\* whole text, and only validated texts replace it (AtomicWriteFile).
THEOREM RegisterRefined == Spec => RegisterSpec
<1>1. Spec => Init /\ []FileInv /\ [][Next]_vars
  BY FileInvariant, PTL DEF Spec
<1>2. Init /\ []FileInv => Register!Init
  BY RegisterInit, PTL
<1>3. []FileInv /\ [][Next]_vars
          => [][Register!Next]_<< TextOf(target), TextOf(durable) >>
  BY RegisterStep, PTL
<1> QED BY <1>1, <1>2, <1>3, PTL DEF RegisterSpec, Register!Spec

-----------------------------------------------------------------------------
(* Temporary files *)

\* No temporary file has been created yet in "create".
TempInv ==
    \A p \in Proc : temp[p] # Absent => pc[p] \in (Writing \ {"create"}) \cup {"crashed"}

LEMMA TempStep == FileInv /\ TempInv /\ [Next]_vars => TempInv'
<1> SUFFICES ASSUME FileInv, TempInv, [Next]_vars, NEW q \in Proc, temp'[q] # Absent
             PROVE  pc'[q] \in (Writing \ {"create"}) \cup {"crashed"}
  BY DEF TempInv
<1>1. temp \in [Proc -> File \cup {Absent}] /\ DOMAIN pc = Proc
  BY DEF FileInv, TypeOK
<1>2. temp[q] # Absent => pc[q] \in (Writing \ {"create"}) \cup {"crashed"}
  BY DEF TempInv
<1>3. CASE pc'[q] = pc[q] /\ temp'[q] = temp[q]
  BY <1>2, <1>3
<1>4. ASSUME NEW p \in Proc, BeginInit(p) \/ BeginEdit(p) \/ Resolve(p) \/ ReadConfig(p)
      PROVE  p # q \/ temp'[q] = Absent
  BY <1>2, <1>4 DEF BeginInit, BeginEdit, Resolve, ReadConfig, Writing
<1>5. ASSUME NEW p \in Proc, BeginInit(p) \/ BeginEdit(p) \/ Resolve(p) \/ ReadConfig(p)
      PROVE  temp'[q] = temp[q] /\ (p # q => pc'[q] = pc[q])
  BY <1>1, <1>5 DEF BeginInit, BeginEdit, Resolve, ReadConfig, Goto, Refused
<1>6. ASSUME NEW p \in Proc, CreateTemp(p) \/ WriteTemp(p) \/ SyncTemp(p)
      PROVE  pc'[q] \in (Writing \ {"create"}) \cup {"crashed"}
  <2>1. CASE p = q
    BY <1>1, <1>6, <2>1 DEF CreateTemp, WriteTemp, SyncTemp, Goto, Writing
  <2>2. CASE p # q
    <3>1. pc'[q] = pc[q] /\ temp'[q] = temp[q]
      BY <1>1, <1>6, <2>2 DEF CreateTemp, WriteTemp, SyncTemp, Goto
    <3> QED BY <3>1, <1>3
  <2> QED BY <2>1, <2>2
<1>7. ASSUME NEW p \in Proc, RenameTemp(p) \/ RemoveTemp(p)
      PROVE  pc'[q] = pc[q] /\ temp'[q] = temp[q]
  <2>1. p # q
    BY <1>1, <1>7 DEF RenameTemp, RemoveTemp
  <2> QED BY <1>1, <1>7, <2>1 DEF RenameTemp, RemoveTemp, Goto
<1>8. ASSUME NEW p \in Proc, IOError(p) \/ Crash(p)
      PROVE  pc'[q] \in (Writing \ {"create"}) \cup {"crashed"}
  <2>1. temp'[q] = temp[q]
    BY <1>8 DEF IOError, Crash
  <2>2. CASE p = q
    BY <1>1, <1>2, <1>8, <2>1, <2>2 DEF IOError, Crash, Goto, Writing, Running
  <2>3. CASE p # q
    BY <1>1, <1>2, <1>8, <2>1, <2>3 DEF IOError, Crash, Goto
  <2> QED BY <2>2, <2>3
<1>9. CASE Flush
  BY <1>3, <1>9 DEF Flush
<1>10. CASE PowerLoss
  BY <1>2, <1>10 DEF PowerLoss, Running
<1>11. CASE UNCHANGED vars
  BY <1>3, <1>11 DEF vars
<1> QED
  BY <1>3, <1>4, <1>5, <1>6, <1>7, <1>8, <1>9, <1>10, <1>11 DEF Next

\* A temporary file outlives its command only when the process was killed: on
\* every other way out the deferred cleanup has removed it (AtomicWriteFile).
THEOREM TempsRemoved == Spec => []TempOnlyLeftByCrash
<1>1. Init => TempInv
  BY DEF Init, TempInv
<1>2. TempInv => TempOnlyLeftByCrash
  BY DEF TempInv, TempOnlyLeftByCrash
<1> QED BY <1>1, <1>2, TempStep, FileInvariant, PTL DEF Spec

-----------------------------------------------------------------------------
(* Edits *)

\* The invocations whose draft may still become the file.
Unrenamed == { "create", "write", "sync", "rename" }

\* What excuses the loss of s's edit.
Superseded(s) ==
    \/ \E q \in Proc \ {s} : pc[q] = "ok" /\ (Unguarded(q) \/ Overlap(s, q))
    \/ outages > 0

PastEnded == \A p \in Proc : \A s \in job[p].past : pc[s] = "ok"

\* What p is about to write holds its own edit and those written before it began.
Carries(p) ==
    pc[p] \in Unrenamed =>
        /\ p \in draft[p].edits
        /\ \A s \in job[p].past : s \in draft[p].edits \/ Unguarded(p) \/ Superseded(s)

Survives(s) ==
    pc[s] = "ok" => (target # Absent /\ s \in target.edits) \/ Superseded(s)

\* A file that appears after an unforced init found none is a newcomer's.
MetNewcomer(p) ==
    pc[p] \in Unrenamed /\ job[p].op = "init" /\ ~Unguarded(p) /\ target # Absent
        => \E q \in target.edits : q \notin job[p].past

\* Only config set and config patch read the file.
ReadersEdit == \A p \in Proc : pc[p] \in {"resolve", "read"} => job[p].op = "edit"

EditInv ==
    /\ FileInv
    /\ PastEnded
    /\ ReadersEdit
    /\ \A p \in Proc : Carries(p)
    /\ \A p \in Proc : Survives(p)
    /\ \A p \in Proc : MetNewcomer(p)

\* What one step may change of one invocation.
LEMMA DraftsChange ==
    ASSUME TypeOK, [Next]_vars, NEW q \in Proc, pc'[q] \in Unrenamed
    PROVE  \/ pc[q] \in Unrenamed /\ job'[q] = job[q] /\ draft'[q] = draft[q]
           \/ BeginInit(q)
           \/ ReadConfig(q)
<1>1. ASSUME NEW p \in Proc,
             \/ BeginInit(p) \/ BeginEdit(p) \/ Resolve(p) \/ ReadConfig(p)
             \/ CreateTemp(p) \/ WriteTemp(p) \/ SyncTemp(p) \/ RenameTemp(p)
             \/ RemoveTemp(p) \/ IOError(p) \/ Crash(p),
             p # q
      PROVE  pc'[q] = pc[q] /\ job'[q] = job[q] /\ draft'[q] = draft[q]
  BY <1>1 DEF TypeOK, BeginInit, BeginEdit, Resolve, ReadConfig, CreateTemp, WriteTemp,
              SyncTemp, RenameTemp, RemoveTemp, IOError, Crash, Goto, Refused
<1>2. CASE BeginEdit(q) \/ Resolve(q) \/ RenameTemp(q) \/ RemoveTemp(q) \/ IOError(q) \/ Crash(q)
  BY <1>2 DEF TypeOK, BeginEdit, Resolve, RenameTemp, RemoveTemp, IOError, Crash, Goto, Refused,
              Unrenamed
<1>3. CASE CreateTemp(q) \/ WriteTemp(q) \/ SyncTemp(q)
  BY <1>3 DEF CreateTemp, WriteTemp, SyncTemp, Unrenamed
<1>4. CASE Flush \/ UNCHANGED vars
  BY <1>4 DEF Flush, vars
<1>5. CASE PowerLoss
  BY <1>5 DEF PowerLoss, TypeOK, Unrenamed, Running, Writing
<1> QED BY <1>1, <1>2, <1>3, <1>4, <1>5 DEF Next

LEMMA JobsChange ==
    ASSUME TypeOK, [Next]_vars, NEW q \in Proc
    PROVE  job'[q] = job[q] \/ (pc[q] = "idle" /\ job'[q].past = Succeeded)
<1>1. Succeeded \subseteq Proc
  BY DEF Succeeded
<1>2. ASSUME NEW p \in Proc, BeginInit(p)
      PROVE  job'[q] = job[q] \/ (pc[q] = "idle" /\ job'[q].past = Succeeded)
  <2>1. PICK f \in BOOLEAN, b \in BOOLEAN :
          job' = [job EXCEPT ![p] = [NoJob EXCEPT !.op = "init", !.force = f,
                                                  !.blind = b, !.past = Succeeded]]
    BY <1>2 DEF BeginInit
  <2>2. DOMAIN job = Proc /\ pc[p] = "idle"
    BY <1>2 DEF TypeOK, BeginInit
  <2>3. job'[p].past = Succeeded
    BY <2>1, <2>2 DEF NoJob
  <2> QED BY <2>1, <2>2, <2>3
<1>3. ASSUME NEW p \in Proc, BeginEdit(p)
      PROVE  job'[q] = job[q] \/ (pc[q] = "idle" /\ job'[q].past = Succeeded)
  <2>1. PICK e \in Edits, d \in BOOLEAN :
          job' = [job EXCEPT ![p] = [NoJob EXCEPT !.op = "edit", !.edit = e,
                                        !.dryRun = d, !.past = Succeeded]]
    BY <1>3 DEF BeginEdit
  <2>2. DOMAIN job = Proc /\ pc[p] = "idle"
    BY <1>3 DEF TypeOK, BeginEdit
  <2>3. job'[p].past = Succeeded
    BY <2>1, <2>2 DEF NoJob
  <2> QED BY <2>1, <2>2, <2>3
<1>4. ASSUME NEW p \in Proc,
             \/ Resolve(p) \/ ReadConfig(p) \/ CreateTemp(p) \/ WriteTemp(p) \/ SyncTemp(p)
             \/ RenameTemp(p) \/ RemoveTemp(p) \/ IOError(p) \/ Crash(p)
      PROVE  job' = job
  BY <1>4 DEF Resolve, ReadConfig, CreateTemp, WriteTemp, SyncTemp, RenameTemp, RemoveTemp,
              IOError, Crash
<1>5. CASE Flush \/ PowerLoss \/ UNCHANGED vars
  BY <1>5 DEF Flush, PowerLoss, vars
<1> QED BY <1>2, <1>3, <1>4, <1>5 DEF Next

\* A command ends well only by renaming, and then stays ended.
LEMMA EndingsChange ==
    ASSUME TypeOK, [Next]_vars, NEW q \in Proc
    PROVE  /\ pc[q] = "ok" => pc'[q] = "ok" /\ job'[q] = job[q]
           /\ pc'[q] = "ok" => pc[q] = "ok" \/ RenameTemp(q)
           /\ outages > 0 => outages' > 0
<1>1. ASSUME NEW p \in Proc,
             \/ BeginInit(p) \/ BeginEdit(p) \/ Resolve(p) \/ ReadConfig(p)
             \/ CreateTemp(p) \/ WriteTemp(p) \/ SyncTemp(p) \/ RemoveTemp(p)
             \/ IOError(p) \/ Crash(p)
      PROVE  (pc[q] = "ok" <=> pc'[q] = "ok") /\ outages' = outages
  <2>1. CASE BeginInit(p) \/ BeginEdit(p) \/ Resolve(p)
    BY <2>1 DEF TypeOK, BeginInit, BeginEdit, Resolve, Goto, Refused
  <2>2. CASE ReadConfig(p)
    BY <2>2 DEF TypeOK, ReadConfig, Goto
  <2>3. CASE CreateTemp(p) \/ WriteTemp(p) \/ SyncTemp(p) \/ RemoveTemp(p)
    BY <2>3 DEF TypeOK, CreateTemp, WriteTemp, SyncTemp, RemoveTemp, Goto
  <2>4. CASE IOError(p) \/ Crash(p)
    BY <2>4 DEF TypeOK, IOError, Crash, Goto, Running, Writing
  <2> QED BY <1>1, <2>1, <2>2, <2>3, <2>4
<1>2. ASSUME NEW p \in Proc, RenameTemp(p)
      PROVE  /\ pc[q] = "ok" => pc'[q] = "ok"
             /\ pc'[q] = "ok" => pc[q] = "ok" \/ p = q
             /\ outages' = outages
  BY <1>2 DEF TypeOK, RenameTemp, Goto
<1>3. outages \in Int
  BY OutageAssumption DEF TypeOK
<1>4. CASE Flush \/ UNCHANGED vars
  BY <1>3, <1>4 DEF Flush, vars
<1>5. CASE PowerLoss
  <2>1. outages' = outages + 1
    BY <1>5 DEF PowerLoss
  <2>2. (pc[q] = "ok" <=> pc'[q] = "ok") /\ job' = job
    BY <1>5 DEF PowerLoss, TypeOK, Running, Writing
  <2> QED BY <1>3, <2>1, <2>2
<1>6. pc[q] = "ok" => job'[q] = job[q]
  BY JobsChange
<1> QED BY <1>1, <1>2, <1>3, <1>4, <1>5, <1>6 DEF Next

LEMMA TargetChange ==
    ASSUME [Next]_vars
    PROVE  target' = target \/ PowerLoss \/ \E p \in Proc : RenameTemp(p)
BY DEF Next, BeginInit, BeginEdit, Resolve, ReadConfig, CreateTemp, WriteTemp, SyncTemp,
       RemoveTemp, IOError, Crash, Flush, vars

\* An excuse stays one.
LEMMA SupersededStays ==
    ASSUME TypeOK, [Next]_vars, NEW s \in Proc, pc[s] = "ok", Superseded(s)
    PROVE  Superseded(s)'
<1>1. CASE outages > 0
  BY <1>1, EndingsChange DEF Superseded
<1>2. CASE \E q \in Proc \ {s} : pc[q] = "ok" /\ (Unguarded(q) \/ Overlap(s, q))
  <2>1. PICK q \in Proc \ {s} : pc[q] = "ok" /\ (Unguarded(q) \/ Overlap(s, q))
    BY <1>2
  <2>2. pc'[q] = "ok" /\ job'[q] = job[q] /\ job'[s] = job[s]
    BY <2>1, EndingsChange
  <2> QED BY <2>1, <2>2 DEF Superseded, Overlap, Unguarded
<1> QED BY <1>1, <1>2 DEF Superseded

LEMMA EditInit == Init => EditInv
<1> SUFFICES ASSUME Init PROVE EditInv
  OBVIOUS
<1>1. FileInv
  BY InitFile
<1>2. PastEnded
  BY DEF Init, PastEnded, NoJob
<1> QED BY <1>1, <1>2 DEF Init, EditInv, Carries, Survives, MetNewcomer, Unrenamed,
                           ReadersEdit

LEMMA PastStep ==
    ASSUME TypeOK, PastEnded, [Next]_vars PROVE PastEnded'
<1> SUFFICES ASSUME NEW p \in Proc, NEW s \in job'[p].past PROVE pc'[s] = "ok"
  BY DEF PastEnded
<1>1. CASE s \in job[p].past
  <2>1. pc[s] = "ok" /\ s \in Proc
    BY <1>1 DEF PastEnded, TypeOK, Job
  <2> QED BY <2>1, EndingsChange
<1>2. CASE s \in Succeeded
  BY <1>2, EndingsChange DEF Succeeded
<1> QED BY <1>1, <1>2, JobsChange

LEMMA ReadersStep ==
    ASSUME TypeOK, ReadersEdit, [Next]_vars PROVE ReadersEdit'
<1> SUFFICES ASSUME NEW q \in Proc, pc'[q] \in {"resolve", "read"}
             PROVE  job'[q].op = "edit"
  BY DEF ReadersEdit
<1>1. CASE pc'[q] = pc[q] /\ job'[q] = job[q]
  BY <1>1 DEF ReadersEdit
<1>2. ASSUME NEW p \in Proc, BeginEdit(p) PROVE job'[q].op = "edit"
  <2>1. PICK e \in Edits, d \in BOOLEAN :
          job' = [job EXCEPT ![p] = [NoJob EXCEPT !.op = "edit", !.edit = e,
                                        !.dryRun = d, !.past = Succeeded]]
    BY <1>2 DEF BeginEdit
  <2>2. CASE q = p
    <3>1. DOMAIN job = Proc
      BY DEF TypeOK
    <3> QED BY <2>1, <2>2, <3>1 DEF NoJob
  <2>3. CASE q # p
    BY <1>1, <1>2, <2>1, <2>3 DEF TypeOK, BeginEdit, Goto, Refused
  <2> QED BY <2>2, <2>3
<1>3. ASSUME NEW p \in Proc, BeginInit(p) PROVE job'[q].op = "edit"
  BY <1>1, <1>3 DEF TypeOK, BeginInit, Goto
<1>4. ASSUME NEW p \in Proc, Resolve(p) PROVE job'[q].op = "edit"
  BY <1>4 DEF TypeOK, Resolve, ReadersEdit, Goto
<1>5. ASSUME NEW p \in Proc, ReadConfig(p) PROVE job'[q].op = "edit"
  BY <1>1, <1>5 DEF TypeOK, ReadConfig, Goto
<1>6. ASSUME NEW p \in Proc,
             \/ CreateTemp(p) \/ WriteTemp(p) \/ SyncTemp(p) \/ RenameTemp(p)
             \/ RemoveTemp(p) \/ IOError(p) \/ Crash(p)
      PROVE  job'[q].op = "edit"
  BY <1>1, <1>6 DEF TypeOK, CreateTemp, WriteTemp, SyncTemp, RenameTemp, RemoveTemp,
                    IOError, Crash, Goto
<1>7. CASE Flush \/ UNCHANGED vars
  BY <1>1, <1>7 DEF Flush, vars
<1>8. CASE PowerLoss
  BY <1>8 DEF PowerLoss, TypeOK, Running
<1> QED BY <1>2, <1>3, <1>4, <1>5, <1>6, <1>7, <1>8 DEF Next

\* A draft keeps what it carries, and a new one takes it from the file.
LEMMA CarriesStep ==
    ASSUME EditInv, [Next]_vars, NEW p \in Proc PROVE Carries(p)'
<1> SUFFICES ASSUME pc'[p] \in Unrenamed
             PROVE  /\ p \in draft'[p].edits
                    /\ \A s \in job'[p].past :
                         s \in draft'[p].edits \/ Unguarded(p)' \/ Superseded(s)'
  BY DEF Carries
<1> USE DEF EditInv
<1>1. TypeOK
  BY DEF FileInv
<1>2. ASSUME NEW s \in job[p].past PROVE s \in Proc /\ pc[s] = "ok"
  BY <1>1 DEF PastEnded, TypeOK, Job
<1>3. CASE pc[p] \in Unrenamed /\ job'[p] = job[p] /\ draft'[p] = draft[p]
  <2>1. p \in draft[p].edits
    BY <1>3 DEF Carries
  <2>2. ASSUME NEW s \in job[p].past
        PROVE  s \in draft[p].edits \/ Unguarded(p) \/ Superseded(s)'
    <3>1. s \in draft[p].edits \/ Unguarded(p) \/ Superseded(s)
      BY <1>3 DEF Carries
    <3> QED BY <1>1, <1>2, <3>1, SupersededStays
  <2> QED BY <1>3, <2>1, <2>2 DEF Unguarded
<1>4. CASE BeginInit(p)
  <2>1. PICK f \in BOOLEAN, b \in BOOLEAN :
          /\ job' = [job EXCEPT ![p] = [NoJob EXCEPT !.op = "init", !.force = f,
                                                     !.blind = b, !.past = Succeeded]]
          /\ \/ /\ target # Absent /\ ~b /\ ~f
                /\ Goto(p, "E_CONFIG_WRITE_FAILED") /\ UNCHANGED draft
             \/ /\ target = Absent \/ b \/ f
                /\ draft' = [draft EXCEPT ![p] = [text |-> Scaffold, edits |-> {p}]]
                /\ Goto(p, "create")
    BY <1>4 DEF BeginInit
  <2>2. job'[p].force = f /\ job'[p].blind = b /\ job'[p].past = Succeeded
    BY <1>1, <2>1 DEF TypeOK, NoJob
  <2>3. (target = Absent \/ b \/ f) /\ p \in draft'[p].edits
    BY <1>1, <2>1 DEF TypeOK, Goto, Unrenamed
  <2>4. ASSUME NEW s \in Succeeded, target = Absent PROVE Superseded(s)'
    <3>1. pc[s] = "ok" /\ Superseded(s) /\ s \in Proc
      BY <2>4 DEF Succeeded, Survives
    <3> QED BY <1>1, <3>1, SupersededStays
  <2> QED BY <2>2, <2>3, <2>4 DEF Unguarded
<1>5. CASE ReadConfig(p)
  <2>1. target # Absent /\ draft'[p].edits = target.edits \cup {p}
    BY <1>1, <1>5 DEF ReadConfig, TypeOK, Goto, Unrenamed
  <2>2. job'[p] = job[p]
    BY <1>5 DEF ReadConfig
  <2>3. ASSUME NEW s \in job[p].past PROVE s \in target.edits \/ Superseded(s)'
    <3>1. s \in target.edits \/ Superseded(s)
      BY <1>2 DEF Survives
    <3> QED BY <1>1, <1>2, <3>1, SupersededStays
  <2> QED BY <2>1, <2>2, <2>3
<1> QED BY <1>1, <1>3, <1>4, <1>5, DraftsChange

\* Only a rename drops an edit, and then it carried it, was forced or overlaps.
LEMMA SurvivesStep ==
    ASSUME EditInv, [Next]_vars, NEW s \in Proc PROVE Survives(s)'
<1> SUFFICES ASSUME pc'[s] = "ok"
             PROVE  (target' # Absent /\ s \in target'.edits) \/ Superseded(s)'
  BY DEF Survives
<1> USE DEF EditInv
<1>1. TypeOK
  BY DEF FileInv
<1>2. ASSUME NEW p \in Proc, RenameTemp(p)
      PROVE  (target' # Absent /\ s \in target'.edits) \/ Superseded(s)'
  <2>1. target' # Absent /\ target'.edits = draft[p].edits
    BY <1>2, AbsentAssumption DEF FileInv, Drafted, RenameTemp
  <2>2. pc[p] = "rename" /\ pc'[p] = "ok" /\ job' = job
    BY <1>1, <1>2 DEF RenameTemp, Goto, TypeOK
  <2>3. Carries(p) /\ pc[p] \in Unrenamed
    BY <2>2 DEF Unrenamed
  <2>4. CASE s = p
    BY <2>1, <2>3, <2>4 DEF Carries
  <2>5. CASE s # p /\ s \in job[p].past
    <3>1. s \in draft[p].edits \/ Unguarded(p) \/ Superseded(s)
      BY <2>3, <2>5 DEF Carries
    <3>2. pc[s] = "ok"
      BY <2>5 DEF PastEnded
    <3>3. Unguarded(p) => Superseded(s)'
      BY <2>2, <2>5 DEF Superseded, Unguarded
    <3> QED BY <1>1, <2>1, <3>1, <3>2, <3>3, SupersededStays
  <2>6. CASE s # p /\ s \notin job[p].past
    <3>1. p \notin job[s].past
      BY <2>2 DEF PastEnded
    <3>2. Overlap(s, p)'
      BY <2>2, <2>6, <3>1 DEF Overlap
    <3> QED BY <2>2, <2>6, <3>2 DEF Superseded
  <2> QED BY <2>4, <2>5, <2>6
<1>3. CASE PowerLoss
  <2>1. outages' > 0
    BY <1>1, <1>3, OutageAssumption DEF PowerLoss, TypeOK
  <2> QED BY <2>1 DEF Superseded
<1>4. CASE target' = target /\ \A p \in Proc : ~RenameTemp(p)
  <2>1. pc[s] = "ok"
    BY <1>1, <1>4, EndingsChange
  <2>2. (target # Absent /\ s \in target.edits) \/ Superseded(s)
    BY <2>1 DEF Survives
  <2> QED BY <1>1, <1>4, <2>1, <2>2, SupersededStays
<1> QED BY <1>2, <1>3, <1>4, TargetChange

LEMMA NewcomerStep ==
    ASSUME EditInv, [Next]_vars, NEW p \in Proc PROVE MetNewcomer(p)'
<1> SUFFICES ASSUME pc'[p] \in Unrenamed, job'[p].op = "init", ~Unguarded(p)',
                    target' # Absent
             PROVE  \E q \in target'.edits : q \notin job'[p].past
  BY DEF MetNewcomer
<1> USE DEF EditInv
<1>1. TypeOK
  BY DEF FileInv
<1>2. ASSUME NEW r \in Proc, RenameTemp(r)
      PROVE  \E q \in target'.edits : q \notin job'[p].past
  <2>1. target'.edits = draft[r].edits
    BY <1>2 DEF FileInv, Drafted, RenameTemp
  <2>2. pc[r] = "rename" /\ job' = job
    BY <1>2 DEF RenameTemp
  <2>3. r \in draft[r].edits
    BY <2>2 DEF Carries, Unrenamed
  <2>4. r \notin job[p].past
    BY <2>2 DEF PastEnded
  <2> QED BY <2>1, <2>2, <2>3, <2>4
<1>3. CASE PowerLoss
  BY <1>1, <1>3 DEF PowerLoss, TypeOK, Unrenamed, Running, Writing
<1>4. CASE target' = target
  <2>1. CASE BeginInit(p)
    <3>1. PICK f \in BOOLEAN, b \in BOOLEAN :
            /\ job' = [job EXCEPT ![p] = [NoJob EXCEPT !.op = "init", !.force = f,
                                                       !.blind = b, !.past = Succeeded]]
            /\ \/ Goto(p, "E_CONFIG_WRITE_FAILED")
               \/ target = Absent \/ b \/ f
      BY <2>1 DEF BeginInit
    <3>2. ~f /\ ~b
      BY <1>1, <3>1 DEF TypeOK, NoJob, Unguarded
    <3>3. pc'[p] = "E_CONFIG_WRITE_FAILED"
      BY <1>1, <1>4, <3>1, <3>2 DEF TypeOK, Goto
    <3> QED BY <3>3 DEF Unrenamed
  <2>2. CASE ReadConfig(p)
    BY <2>2 DEF ReadConfig, ReadersEdit
  <2>3. CASE pc[p] \in Unrenamed /\ job'[p] = job[p]
    BY <1>4, <2>3 DEF MetNewcomer, Unguarded
  <2> QED BY <1>1, <2>1, <2>2, <2>3, DraftsChange
<1> QED BY <1>2, <1>3, <1>4, TargetChange

LEMMA EditInvariant == Spec => []EditInv
<1>1. ASSUME EditInv, [Next]_vars PROVE EditInv'
  <2>1. FileInv'
    BY <1>1, FileStep DEF EditInv
  <2>2. PastEnded'
    BY <1>1, PastStep DEF EditInv, FileInv
  <2>3. ReadersEdit'
    BY <1>1, ReadersStep DEF EditInv, FileInv
  <2> QED BY <1>1, <2>1, <2>2, <2>3, CarriesStep, SurvivesStep, NewcomerStep DEF EditInv
<1> QED BY <1>1, EditInit, PTL DEF Spec

\* An edit reported as written is in the file, unless the power failed or an
\* invocation that was forced or overlapped it in time has written since
\* (runConfigMutation and config init take no lock).
THEOREM EditsSurvive == Spec => []FinishedEditSurvives
<1>1. EditInv => FinishedEditSurvives
  BY DEF EditInv, Survives, FinishedEditSurvives, Superseded
<1> QED BY <1>1, EditInvariant, PTL

\* config init without --force overwrites a file only if another invocation
\* wrote it after init had begun: between its Stat and its Rename.
THEOREM InitKeepsFiles == Spec => InitOverwritesOnlyNewcomers
<1> DEFINE Overwrites ==
             \A p \in Proc :
               /\ pc[p] = "rename" /\ pc'[p] = "ok"
               /\ job[p].op = "init" /\ ~Unguarded(p)
               /\ target # Absent
               => \E q \in target.edits : q \notin job[p].past
<1>1. EditInv /\ [Next]_vars => [Overwrites]_vars
  BY DEF EditInv, MetNewcomer, Unrenamed
<1>2. [][Overwrites]_vars => InitOverwritesOnlyNewcomers
  BY PTL DEF InitOverwritesOnlyNewcomers
<1> QED BY <1>1, <1>2, EditInvariant, PTL DEF Spec
=============================================================================
