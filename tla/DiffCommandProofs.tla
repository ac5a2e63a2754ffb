------------------------- MODULE DiffCommandProofs --------------------------
(***************************************************************************)
(* Proofs about DiffCommand for all captures.                              *)
(***************************************************************************)
EXTENDS DiffCommand, ChangeProofs

-----------------------------------------------------------------------------
(* What human output shows *)

\* Two lists without a common element, one after the other.
LEMMA ListsConcat ==
    ASSUME NEW S, NEW s, Lists(s, S), NEW T, NEW t, Lists(t, T), S \cap T = {}
    PROVE  Lists(s \o t, S \cup T)
<1>1. s \in Seq(S \cup T) /\ t \in Seq(S \cup T)
  BY DEF Lists
<1>2. /\ s \o t \in Seq(S \cup T) /\ Len(s \o t) = Len(s) + Len(t)
      /\ Len(s) \in Nat /\ Len(t) \in Nat
      /\ \A i \in 1 .. Len(s) + Len(t) :
           (s \o t)[i] = IF i <= Len(s) THEN s[i] ELSE t[i - Len(s)]
  BY <1>1, ConcatProperties, LenProperties
<1>3. Cardinality(S \cup T) = Cardinality(S) + Cardinality(T) /\ IsFiniteSet(S \cup T)
  <2>1. Cardinality(S) \in Nat /\ Cardinality(T) \in Nat
    BY FS_CardinalityType DEF Lists
  <2>2. /\ IsFiniteSet(S \cup T)
        /\ Cardinality(S \cup T) = Cardinality(S) + Cardinality(T) - Cardinality(S \cap T)
    BY FS_Union DEF Lists
  <2>3. Cardinality(S \cap T) = 0
    BY FS_EmptySet
  <2> QED BY <2>1, <2>2, <2>3
<1>4. ASSUME NEW x \in S \cup T PROVE \E i \in 1 .. Cardinality(S \cup T) : (s \o t)[i] = x
  <2>1. CASE x \in S
    <3>1. PICK i \in 1 .. Len(s) : s[i] = x
      BY <2>1, <1>1, LenProperties DEF Lists
    <3>2. i \in 1 .. Len(s) + Len(t) /\ i <= Len(s)
      BY <1>2
    <3> QED BY <1>2, <1>3, <3>1, <3>2 DEF Lists
  <2>2. CASE x \in T
    <3>1. PICK i \in 1 .. Len(t) : t[i] = x
      BY <2>2, <1>1, LenProperties DEF Lists
    <3>2. /\ Len(s) + i \in 1 .. Len(s) + Len(t) /\ ~(Len(s) + i <= Len(s))
          /\ (Len(s) + i) - Len(s) = i
      BY <1>2
    <3> QED BY <1>2, <1>3, <3>1, <3>2 DEF Lists
  <2> QED BY <2>1, <2>2
<1>5. s \o t \in [1 .. Cardinality(S \cup T) -> S \cup T]
  BY <1>2, <1>3, LenProperties DEF Lists
<1> QED BY <1>3, <1>4, <1>5, OntoLists

\* The ranked changes list them.
LEMMA RankedLists ==
    ASSUME NEW b, IsState(b), NEW a, IsState(a), NEW delta, delta = Changes(b, a)
    PROVE  Lists(RankedChanges(delta), DOMAIN delta)
<1> DEFINE D == DOMAIN delta
           rank == Ranks(delta)
           n == Cardinality(D)
           r == RankedChanges(delta)
<1>1. IsFiniteSet(D) /\ rank \in Bijection(D, 1 .. n)
  BY ChangesRanked
<1> HIDE DEF rank
<1>2. r = [i \in 1 .. n |-> CHOOSE x \in D : rank[x] = i]
  BY DEF RankedChanges, rank
<1>3. ASSUME NEW i \in 1 .. n
      PROVE  (CHOOSE x \in D : rank[x] = i) \in D /\ rank[CHOOSE x \in D : rank[x] = i] = i
  <2>1. \E x \in D : rank[x] = i
    BY <1>1 DEF Bijection, Surjection
  <2> QED BY <2>1
<1>4. r \in [1 .. n -> D] /\ \A i \in 1 .. n : rank[r[i]] = i
  BY <1>2, <1>3
<1>5. ASSUME NEW x \in D PROVE \E i \in 1 .. n : r[i] = x
  <2>1. rank[x] \in 1 .. n
    BY <1>1 DEF Bijection, Injection
  <2>2. rank[r[rank[x]]] = rank[x] /\ r[rank[x]] \in D
    BY <1>4, <2>1
  <2>3. r[rank[x]] = x
    BY <1>1, <2>2 DEF Bijection, Injection, IsInjective
  <2> QED BY <2>1, <2>3
<1>6. Lists(r, D)
  <2> HIDE DEF r, D
  <2> QED BY <1>1, <1>4, <1>5, OntoLists
<1> QED BY <1>6

\* The changes of some types in a list of changes list them.
LEMMA OfTypesLists ==
    ASSUME NEW D, NEW ranked, Lists(ranked, D), NEW types
    PROVE  Lists(OfTypes(ranked, types), { x \in D : x.type \in types })
<1> DEFINE P == { i \in DOMAIN ranked : ranked[i].type \in types }
           S == { ranked[i] : i \in P }
           Q == { x \in D : x.type \in types }
<1>1. { ranked[i] : i \in DOMAIN ranked } = D
  BY DEF Lists
<1>2. S = Q
  BY <1>1
<1>3. Lists(EntriesAt(ranked, P), S)
  BY EntriesListed
<1> HIDE DEF S, Q
<1>4. Lists(EntriesAt(ranked, P), Q)
  BY <1>2, <1>3
<1> QED BY <1>4 DEF OfTypes, Q

\* Of a list of no more than one element the first is all.
LEMMA FirstLists ==
    ASSUME NEW S, NEW s, Lists(s, S), \A x, y \in S : x = y
    PROVE  Lists(First(s), S)
<1>1. /\ Len(s) \in Nat /\ s \in [1 .. Len(s) -> S]
      /\ \A i, j \in 1 .. Len(s) : s[i] = s[j] => i = j
  BY ListsOnce
<1>2. ~(Len(s) > 1)
  <2> SUFFICES ASSUME Len(s) > 1 PROVE FALSE
    OBVIOUS
  <2>1. 1 \in 1 .. Len(s) /\ 2 \in 1 .. Len(s)
    BY <1>1
  <2>2. s[1] \in S /\ s[2] \in S
    BY <1>1, <2>1
  <2>3. s[1] = s[2]
    BY <2>2
  <2> QED BY <1>1, <2>1, <2>3
<1>3. First(s) = SubSeq(s, 1, Len(s))
  BY <1>2 DEF First
<1>4. SubSeq(s, 1, Len(s)) = s
  BY SubSeqFull DEF Lists
<1> QED BY <1>3, <1>4

\* Human output lists the changes.
LEMMA HumanLists ==
    ASSUME NEW b, IsState(b), NEW a, IsState(a), NEW delta, delta = Changes(b, a)
    PROVE  Lists(Human(RankedChanges(delta)), DOMAIN delta)
<1> DEFINE D == DOMAIN delta
           r == RankedChanges(delta)
           Of(types) == { x \in D : x.type \in types }
           t1 == {"selected_route"}
           t2 == {"fallback_status"}
           t3 == {"backend_reachability"}
           t4 == {"selected_model_readiness", "installed_model_count", "loaded_model_count"}
           t5 == {"warning_codes", "error_codes", "recommended_action"}
           S12 == Of(t1) \cup Of(t2)
           S123 == S12 \cup Of(t3)
           S1234 == S123 \cup Of(t4)
           h12 == First(OfTypes(r, t1)) \o First(OfTypes(r, t2))
           h123 == h12 \o OfTypes(r, t3)
           h1234 == h123 \o OfTypes(r, t4)
<1>1. Lists(r, D)
  BY RankedLists
<1>2. /\ D \subseteq Aspects(b, a)
      /\ \A x \in D : x.type \in Types /\ x = [type |-> x.type, about |-> x.about]
  BY ChangesTyped
<1>3. \A x, y \in D : x.type = y.type /\ x.type \in {"selected_route", "fallback_status"} => x = y
  <2> TAKE x, y \in D
  <2> HAVE x.type = y.type /\ x.type \in {"selected_route", "fallback_status"}
  <2>1. x.about = b.task /\ y.about = b.task
    BY <1>2 DEF Aspects, About
  <2> QED BY <1>2, <2>1
<1>4. \A types : Lists(OfTypes(r, types), Of(types))
  <2> HIDE DEF r, D
  <2> QED BY <1>1, OfTypesLists
<1>5. (\A x, y \in Of(t1) : x = y) /\ \A x, y \in Of(t2) : x = y
  BY <1>3
<1>6. /\ Of(t1) \cap Of(t2) = {} /\ S12 \cap Of(t3) = {} /\ S123 \cap Of(t4) = {}
      /\ S1234 \cap Of(t5) = {}
  OBVIOUS
<1>7. S1234 \cup Of(t5) = D
  BY <1>2 DEF Types
<1>8. Human(r) = h1234 \o OfTypes(r, t5)
  BY DEF Human
<1> HIDE DEF D, r, Of, t1, t2, t3, t4, t5
<1>9. Lists(First(OfTypes(r, t1)), Of(t1)) /\ Lists(First(OfTypes(r, t2)), Of(t2))
  BY <1>4, <1>5, FirstLists
<1>10. Lists(h12, S12)
  BY <1>6, <1>9, ListsConcat
<1> HIDE DEF h12, S12
<1>11. Lists(h123, S123)
  BY <1>4, <1>6, <1>10, ListsConcat
<1> HIDE DEF h123, S123
<1>12. Lists(h1234, S1234)
  BY <1>4, <1>6, <1>11, ListsConcat
<1> HIDE DEF h1234, S1234
<1>13. Lists(h1234 \o OfTypes(r, t5), S1234 \cup Of(t5))
  BY <1>4, <1>6, <1>12, ListsConcat
<1>14. Lists(Human(r), D)
  BY <1>7, <1>8, <1>13
<1> QED BY <1>14 DEF r, D

-----------------------------------------------------------------------------
(* The command *)

\* What has been read is a capture, and what is reported is about both.
ReportInv ==
    /\ TypeOK
    /\ pc \in {"after", "compare"} \/ Reported => before \in Capture
    /\ pc = "compare" \/ Reported => after \in Capture
    /\ Reported => /\ changes = Changes(Compared(before), Compared(after))
                   /\ result.human = Human(RankedChanges(changes))

\* The invariant holds at first.
LEMMA ReportInit == Init => ReportInv
<1> SUFFICES ASSUME Init PROVE ReportInv
  OBVIOUS
<1>1. result.code = "" /\ result.human = << >> /\ pc = "start"
  BY DEF Init
<1>2. TypeOK
  BY <1>1 DEF Init, TypeOK
<1> QED BY <1>1, <1>2 DEF ReportInv, Reported

\* Each step keeps it.
LEMMA ReportStep == ReportInv /\ [Next]_vars => ReportInv'
<1> SUFFICES ASSUME ReportInv, [Next]_vars PROVE ReportInv'
  OBVIOUS
<1> USE DEF ReportInv, TypeOK, Reported
<1>1. CASE ParseFlags
  BY <1>1 DEF ParseFlags, End
<1>2. CASE ReadBefore
  BY <1>2 DEF ReadBefore, End, Unread
<1>3. CASE ReadAfter
  BY <1>3 DEF ReadAfter, End, Unread
<1>4. CASE Compare
  <2>1. CASE End("E_INVALID_ARG") /\ UNCHANGED changes
    BY <1>4, <2>1 DEF Compare, End
  <2>2. CASE /\ changes' = Changes(Compared(before), Compared(after))
             /\ result' = [code |-> "ok", human |-> Human(RankedChanges(changes'))]
             /\ pc' = "done"
    <3>1. UNCHANGED << mode, before, after >> /\ before \in Capture /\ after \in Capture
      BY <1>4 DEF Compare
    <3>2. Compared(before') = Compared(before) /\ Compared(after') = Compared(after)
      BY <3>1
    <3> QED BY <2>2, <3>1, <3>2
  <2> QED BY <1>4, <2>1, <2>2 DEF Compare
<1>5. CASE UNCHANGED vars
  BY <1>5 DEF vars
<1> QED BY <1>1, <1>2, <1>3, <1>4, <1>5 DEF Next

\* It holds always.
LEMMA ReportAlways == Spec => []ReportInv
<1> QED BY ReportInit, ReportStep, PTL DEF Spec

\* Every variable stays in its type, and the command is done exactly when it has a result.
THEOREM TypeCorrect == Spec => []TypeOK
<1>1. ReportInv => TypeOK
  BY DEF ReportInv
<1> QED BY <1>1, ReportAlways, PTL

\* What the classifier sees of a capture is a state.
LEMMA ComparedIsState ==
    ASSUME NEW c \in Capture
    PROVE  IsState(Compared(c))
<1> DEFINE s == c.state
           t == [s EXCEPT !.loaded = Cardinality(c.models)]
<1>1. IsState(s)
  BY CaptureAssumption
<1>2. s = [task |-> s.task, route |-> s.route, fallback |-> s.fallback, ready |-> s.ready,
           status |-> s.status, warnings |-> s.warnings, errors |-> s.errors,
           action |-> s.action, loaded |-> s.loaded, installed |-> s.installed]
  BY <1>1 DEF IsState
<1> HIDE DEF s
<1>3. t = [task |-> s.task, route |-> s.route, fallback |-> s.fallback, ready |-> s.ready,
           status |-> s.status, warnings |-> s.warnings, errors |-> s.errors,
           action |-> s.action, loaded |-> Cardinality(c.models), installed |-> s.installed]
  BY <1>2
<1> HIDE DEF t
<1>4. /\ t.task = s.task /\ t.route = s.route /\ t.fallback = s.fallback /\ t.ready = s.ready
      /\ t.status = s.status /\ t.warnings = s.warnings /\ t.errors = s.errors
      /\ t.action = s.action /\ t.loaded = Cardinality(c.models) /\ t.installed = s.installed
  BY <1>3
<1>5. IsState(t)
  BY <1>1, <1>3, <1>4, Zenon DEF IsState
<1> QED BY <1>5 DEF t, s, Compared

\* What is reported lists, and ranks, all that differs.
LEMMA ReportIs ==
    ASSUME ReportInv, Reported
    PROVE  /\ IsState(Compared(before)) /\ IsState(Compared(after))
           /\ changes = Changes(Compared(before), Compared(after))
           /\ result.human = Human(RankedChanges(changes))
BY ComparedIsState DEF ReportInv

\* Ranks are 1, 2, ... without ties, and what a change is about outweighs its severity.
THEOREM RanksTotal == Spec => []RanksAreTotal
<1>1. ASSUME ReportInv PROVE RanksAreTotal
  <2> SUFFICES ASSUME Reported
               PROVE  /\ { Ranks(changes)[a] : a \in DOMAIN changes }
                            = 1 .. Cardinality(DOMAIN changes)
                      /\ \A a, b \in DOMAIN changes :
                            ChangeTypeRank(a.type) < ChangeTypeRank(b.type)
                              => Ranks(changes)[a] < Ranks(changes)[b]
    BY DEF RanksAreTotal
  <2> DEFINE D == DOMAIN changes
             rank == Ranks(changes)
  <2>1. /\ rank \in Bijection(D, 1 .. Cardinality(D))
        /\ \A a, b \in D : ChangeTypeRank(a.type) < ChangeTypeRank(b.type)
                           => rank[a] < rank[b]
    BY <1>1, ReportIs, ChangesRanked
  <2> HIDE DEF D, rank
  <2>2. { rank[a] : a \in D } = 1 .. Cardinality(D)
    BY <2>1 DEF Bijection, Injection, Surjection
  <2> QED BY <2>1, <2>2 DEF D, rank
<1> QED BY <1>1, ReportAlways, PTL

\* Human output shows each change once.
THEOREM HumanComplete == Spec => []HumanShowsAll
<1>1. ASSUME ReportInv PROVE HumanShowsAll
  <2> SUFFICES ASSUME Reported
               PROVE  /\ ToSet(result.human) = DOMAIN changes
                      /\ Len(result.human) = Cardinality(DOMAIN changes)
    BY DEF HumanShowsAll
  <2>1. Lists(result.human, DOMAIN changes)
    BY <1>1, ReportIs, HumanLists
  <2> QED BY <2>1 DEF Lists, ToSet
<1> QED BY <1>1, ReportAlways, PTL

\* A reader of the earlier snapshot and of the changes knows the later one.
THEOREM ChangesSuffice == Spec => []ChangesExplain
<1>1. ASSUME ReportInv PROVE ChangesExplain
  <2> SUFFICES ASSUME Reported, before.state.task = after.state.task
               PROVE  Apply(Compared(before), changes) = Compared(after)
    BY DEF ChangesExplain
  <2>1. before \in Capture /\ after \in Capture
    BY <1>1 DEF ReportInv
  <2>2. ASSUME NEW c \in Capture PROVE Compared(c).task = c.state.task
    <3> DEFINE s == c.state
    <3>1. s = [task |-> s.task, route |-> s.route, fallback |-> s.fallback, ready |-> s.ready,
               status |-> s.status, warnings |-> s.warnings, errors |-> s.errors,
               action |-> s.action, loaded |-> s.loaded, installed |-> s.installed]
      BY CaptureAssumption DEF IsState
    <3> HIDE DEF s
    <3>2. [s EXCEPT !.loaded = Cardinality(c.models)].task = s.task
      BY <3>1
    <3> QED BY <3>2 DEF Compared, s
  <2>3. Compared(before).task = Compared(after).task
    BY <2>1, <2>2
  <2> QED BY <1>1, <2>3, ReportIs, ApplyExplains
<1> QED BY <1>1, ReportAlways, PTL
=============================================================================
