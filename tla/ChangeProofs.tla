---------------------------- MODULE ChangeProofs ----------------------------
(***************************************************************************)
(* Lemmas about what the classifier of changes is built from, for all      *)
(* states: sorting by keys, and what a reader makes of changes.            *)
(***************************************************************************)
EXTENDS ChangeClassifier, FiniteSetTheorems, FunctionTheorems, SequenceTheorems, TLAPS

-----------------------------------------------------------------------------
(* Sorting a finite set *)

\* The elements of S that precede a.
Before(S, R, a) == { b \in S : << b, a >> \in R }

StrictOrder(S, R) ==
    /\ \A a \in S : << a, a >> \notin R
    /\ \A a, b, c \in S : << a, b >> \in R /\ << b, c >> \in R => << a, c >> \in R
    /\ \A a, b \in S : a = b \/ << a, b >> \in R \/ << b, a >> \in R

\* An element that precedes another has fewer before it.
LEMMA FewerBefore ==
    ASSUME NEW S, IsFiniteSet(S), NEW R, StrictOrder(S, R),
           NEW a \in S, NEW b \in S, << a, b >> \in R
    PROVE  Cardinality(Before(S, R, a)) < Cardinality(Before(S, R, b))
<1> DEFINE A == Before(S, R, a)
           B == Before(S, R, b)
<1>1. A \subseteq B /\ a \in B \ A
  BY DEF Before, StrictOrder
<1>2. IsFiniteSet(B)
  <2>1. B \in SUBSET S
    BY DEF Before
  <2> QED BY <2>1, FS_Subset
<1>3. IsFiniteSet(A) /\ Cardinality(A) <= Cardinality(B) /\ Cardinality(A) # Cardinality(B)
  <2> HIDE DEF A, B
  <2>1. A \in SUBSET B /\ A # B
    BY <1>1
  <2> QED BY <1>2, <2>1, FS_Subset
<1>4. Cardinality(A) \in Nat /\ Cardinality(B) \in Nat
  BY <1>2, <1>3, FS_CardinalityType
<1> HIDE DEF A, B
<1>5. Cardinality(A) < Cardinality(B)
  BY <1>3, <1>4
<1> QED BY <1>5 DEF A, B

\* Elements that are counted by what precedes them are numbered 1, 2, ...
LEMMA Numbered ==
    ASSUME NEW S, IsFiniteSet(S), NEW R, StrictOrder(S, R),
           NEW rank, rank = [a \in S |-> Cardinality(Before(S, R, a)) + 1]
    PROVE  /\ rank \in Bijection(S, 1 .. Cardinality(S))
           /\ \A a, b \in S : << a, b >> \in R => rank[a] < rank[b]
<1>1. ASSUME NEW a \in S
      PROVE  /\ Cardinality(Before(S, R, a)) \in Nat
             /\ Cardinality(Before(S, R, a)) < Cardinality(S)
  <2> DEFINE A == Before(S, R, a)
  <2>1. A \in SUBSET S /\ a \notin A
    BY DEF Before, StrictOrder
  <2> HIDE DEF A
  <2>2. IsFiniteSet(A) /\ Cardinality(A) <= Cardinality(S) /\ Cardinality(A) # Cardinality(S)
    BY <2>1, FS_Subset
  <2>3. Cardinality(A) \in Nat /\ Cardinality(S) \in Nat
    BY <2>2, FS_CardinalityType
  <2>4. Cardinality(A) < Cardinality(S)
    BY <2>2, <2>3
  <2> QED BY <2>3, <2>4 DEF A
<1>2. Cardinality(S) \in Nat
  BY FS_CardinalityType
<1>3. rank \in [S -> 1 .. Cardinality(S)]
  <2>1. ASSUME NEW a \in S PROVE Cardinality(Before(S, R, a)) + 1 \in 1 .. Cardinality(S)
    BY <1>1, <1>2
  <2> QED BY <2>1
<1>4. ASSUME NEW a \in S, NEW b \in S, << a, b >> \in R
      PROVE  rank[a] < rank[b]
  <2>1. Cardinality(Before(S, R, a)) < Cardinality(Before(S, R, b))
    BY <1>4, FewerBefore
  <2> QED BY <1>1, <2>1
<1>5. ASSUME NEW a \in S, NEW b \in S, rank[a] = rank[b]
      PROVE  a = b
  <2>1. rank[a] \in Nat /\ rank[b] \in Nat
    BY <1>3
  <2>2. << a, b >> \notin R /\ << b, a >> \notin R
    BY <1>4, <1>5, <2>1
  <2> QED BY <2>2 DEF StrictOrder
<1>6. rank \in Injection(S, 1 .. Cardinality(S))
  BY <1>3, <1>5 DEF Injection, IsInjective
<1>7. IsFiniteSet(1 .. Cardinality(S)) /\ Cardinality(1 .. Cardinality(S)) = Cardinality(S)
  BY <1>2, FS_Interval
<1>8. rank \in Surjection(S, 1 .. Cardinality(S))
  BY <1>6, <1>7, FS_Injection
<1> QED BY <1>4, <1>6, <1>8 DEF Bijection

-----------------------------------------------------------------------------
(* The order of changes *)

Subject == { SubjectOrder[i] : i \in DOMAIN SubjectOrder }

Types == { "selected_route", "fallback_status", "backend_reachability",
           "selected_model_readiness", "warning_codes", "error_codes",
           "recommended_action", "loaded_model_count", "installed_model_count" }

\* LexLess, place by place.
LEMMA LexLessIs ==
    ASSUME NEW x, NEW y
    PROVE  LexLess(x, y) <=>
              \/ x[1] < y[1]
              \/ x[1] = y[1] /\ x[2] < y[2]
              \/ x[1] = y[1] /\ x[2] = y[2] /\ x[3] < y[3]
              \/ x[1] = y[1] /\ x[2] = y[2] /\ x[3] = y[3] /\ x[4] < y[4]
              \/ x[1] = y[1] /\ x[2] = y[2] /\ x[3] = y[3] /\ x[4] = y[4] /\ x[5] < y[5]
<1> DEFINE L(i) == x[i] < y[i] /\ \A j \in 1 .. i - 1 : x[j] = y[j]
<1>1. LexLess(x, y) <=> L(1) \/ L(2) \/ L(3) \/ L(4) \/ L(5)
  <2>1. LexLess(x, y) <=> \E i \in 1 .. 5 : L(i)
    BY DEF LexLess
  <2>2. 1 .. 5 = {1, 2, 3, 4, 5}
    OBVIOUS
  <2> HIDE DEF L
  <2> QED BY <2>1, <2>2
<1>2. /\ 1 .. 1 - 1 = {} /\ 1 .. 2 - 1 = {1} /\ 1 .. 3 - 1 = {1, 2}
      /\ 1 .. 4 - 1 = {1, 2, 3} /\ 1 .. 5 - 1 = {1, 2, 3, 4}
  OBVIOUS
<1>3. /\ L(1) <=> x[1] < y[1]
      /\ L(2) <=> x[2] < y[2] /\ x[1] = y[1]
      /\ L(3) <=> x[3] < y[3] /\ x[1] = y[1] /\ x[2] = y[2]
      /\ L(4) <=> x[4] < y[4] /\ x[1] = y[1] /\ x[2] = y[2] /\ x[3] = y[3]
      /\ L(5) <=> x[5] < y[5] /\ x[1] = y[1] /\ x[2] = y[2] /\ x[3] = y[3] /\ x[4] = y[4]
  BY <1>2
<1> HIDE DEF L
<1> QED BY <1>1, <1>3

SortKey == Int \X Int \X Int \X Int \X Int

\* Keys are ordered strictly and completely.
LEMMA LexOrder ==
    ASSUME NEW x \in SortKey, NEW y \in SortKey, NEW z \in SortKey
    PROVE  /\ ~LexLess(x, x)
           /\ LexLess(x, y) /\ LexLess(y, z) => LexLess(x, z)
           /\ x = y \/ LexLess(x, y) \/ LexLess(y, x)
<1>1. ASSUME NEW u \in SortKey
      PROVE  /\ u[1] \in Int /\ u[2] \in Int /\ u[3] \in Int /\ u[4] \in Int /\ u[5] \in Int
             /\ u = << u[1], u[2], u[3], u[4], u[5] >>
  BY DEF SortKey
<1>2. ~LexLess(x, x)
  BY <1>1, LexLessIs
<1>3. LexLess(x, y) /\ LexLess(y, z) => LexLess(x, z)
  BY <1>1, LexLessIs
<1>4. x = y \/ LexLess(x, y) \/ LexLess(y, x)
  <2>1. CASE /\ x[1] = y[1] /\ x[2] = y[2] /\ x[3] = y[3] /\ x[4] = y[4] /\ x[5] = y[5]
    BY <1>1, <2>1
  <2>2. CASE ~(/\ x[1] = y[1] /\ x[2] = y[2] /\ x[3] = y[3] /\ x[4] = y[4] /\ x[5] = y[5])
    BY <1>1, <2>2, LexLessIs
  <2> QED BY <2>1, <2>2
<1> QED BY <1>2, <1>3, <1>4

\* A subject has a position, and no other subject has the same.
LEMMA PositionIs ==
    ASSUME NEW s \in Subject
    PROVE  Position[s] \in Nat /\ SubjectOrder[Position[s]] = s
<1>1. PICK i \in DOMAIN SubjectOrder : SubjectOrder[i] = s
  BY DEF Subject
<1>2. Position[s] = CHOOSE k \in DOMAIN SubjectOrder : SubjectOrder[k] = s
  BY DEF Subject, Position
<1>3. Position[s] \in DOMAIN SubjectOrder /\ SubjectOrder[Position[s]] = s
  BY <1>1, <1>2
<1> QED BY <1>3, SubjectAssumption

\* What can differ between two states.
LEMMA AspectsTyped ==
    ASSUME NEW b, IsState(b), NEW a, IsState(a)
    PROVE  /\ IsFiniteSet(Aspects(b, a))
           /\ \A x \in Aspects(b, a) :
                 /\ x = [type |-> x.type, about |-> x.about]
                 /\ x.type \in Types /\ x.about \in Subject
<1>1. /\ b.task \in Subject /\ DOMAIN b.status \subseteq Subject
      /\ b.warnings \subseteq Subject /\ b.errors \subseteq Subject
      /\ DOMAIN a.status \subseteq Subject
      /\ a.warnings \subseteq Subject /\ a.errors \subseteq Subject /\ "models" \in Subject
  BY SubjectAssumption, Zenon DEF IsState, Subject
<1>2. \A x \in Aspects(b, a) :
         /\ x = [type |-> x.type, about |-> x.about]
         /\ x.type \in Types /\ x.about \in Subject
  BY <1>1 DEF Aspects, About, Types
<1> DEFINE Abouts == {b.task, "models"} \cup (DOMAIN b.status \cup DOMAIN a.status)
                     \cup (b.warnings \cup a.warnings) \cup (b.errors \cup a.errors)
<1>3. IsFiniteSet(Abouts)
  <2>1. IsFiniteSet({b.task, "models"})
    <3>1. IsFiniteSet({b.task}) /\ IsFiniteSet({b.task} \cup {"models"})
      BY FS_Singleton, FS_AddElement
    <3>2. {b.task, "models"} = {b.task} \cup {"models"}
      BY Zenon
    <3> QED BY <3>1, <3>2
  <2> QED BY <2>1, FS_Union DEF IsState
<1>4. IsFiniteSet(Types)
  <2>1. Types = {} \cup {"selected_route"} \cup {"fallback_status"} \cup {"backend_reachability"}
                \cup {"selected_model_readiness"} \cup {"warning_codes"} \cup {"error_codes"}
                \cup {"recommended_action"} \cup {"loaded_model_count"}
                \cup {"installed_model_count"}
    BY DEF Types
  <2> QED BY <2>1, FS_EmptySet, FS_AddElement
<1> DEFINE Pairs == Types \X Abouts
           f == [p \in Pairs |-> [type |-> p[1], about |-> p[2]]]
           Image == { f[p] : p \in Pairs }
<1>5. IsFiniteSet(Pairs)
  BY <1>3, <1>4, FS_Product
<1>6. f \in Surjection(Pairs, Image)
  BY DEF Surjection
<1>7. IsFiniteSet(Image)
  BY <1>5, <1>6, FS_Surjection
<1>8. ASSUME NEW x \in Aspects(b, a) PROVE x \in Image
  <2>1. x.about \in Abouts
    BY DEF Aspects, About
  <2>2. x.type \in Types /\ x = [type |-> x.type, about |-> x.about]
    BY <1>2
  <2>3. << x.type, x.about >> \in Pairs
    BY <2>1, <2>2
  <2>4. f[<< x.type, x.about >>] = [type |-> x.type, about |-> x.about]
    BY <2>3
  <2> HIDE DEF f, Pairs
  <2> QED BY <2>2, <2>3, <2>4
<1>9. Aspects(b, a) \in SUBSET Image
  BY <1>8
<1> QED BY <1>2, <1>7, <1>9, FS_Subset

\* The changes of two states, what they are about and their subjects.
LEMMA ChangesTyped ==
    ASSUME NEW b, IsState(b), NEW a, IsState(a), NEW D, D = DOMAIN Changes(b, a)
    PROVE  /\ D = { x \in Aspects(b, a) : ValueOf(b, x) # ValueOf(a, x) }
           /\ IsFiniteSet(D)
           /\ \A x \in D : /\ x = [type |-> x.type, about |-> x.about]
                           /\ x.type \in Types /\ x.about \in Subject
                           /\ Changes(b, a)[x].subject \in Subject
                           /\ Changes(b, a)[x].after = ValueOf(a, x)
<1>1. D = { x \in Aspects(b, a) : ValueOf(b, x) # ValueOf(a, x) }
  BY DEF Changes
<1>2. D \in SUBSET Aspects(b, a)
  BY <1>1
<1>3. IsFiniteSet(D)
  BY <1>2, AspectsTyped, FS_Subset
<1>4. ASSUME NEW x \in D
      PROVE  /\ x = [type |-> x.type, about |-> x.about]
             /\ x.type \in Types /\ x.about \in Subject
  BY <1>2, AspectsTyped
<1>5. ASSUME NEW x \in D
      PROVE  /\ Changes(b, a)[x].subject \in Subject
             /\ Changes(b, a)[x].after = ValueOf(a, x)
  <2> DEFINE s == IF x.type # "selected_model_readiness" THEN x.about
                  ELSE IF a.route = << >> THEN "" ELSE a.route[2]
             v == ValueOf(b, x)
             w == ValueOf(a, x)
  <2>1. Changes(b, a)[x] = [subject |-> s, before |-> v, after |-> w]
    BY <1>1 DEF Changes
  <2>2. s \in Subject
    <3>1. a.route # << >> => a.route[2] \in Subject
      BY Zenon DEF IsState, Subject
    <3>2. "" \in Subject
      BY SubjectAssumption, Zenon DEF Subject
    <3> QED BY <1>4, <3>1, <3>2
  <2> HIDE DEF s, v, w
  <2>3. Changes(b, a)[x].subject = s /\ Changes(b, a)[x].after = w
    BY <2>1
  <2> QED BY <2>2, <2>3 DEF w
<1> QED BY <1>1, <1>3, <1>4, <1>5

\* The ranks of types are numbers.
LEMMA TypeRanks ==
    ASSUME NEW t \in Types
    PROVE  ChangeTypeRank(t) \in 0 .. 6 /\ SeverityRank(t) \in 0 .. 2
BY DEF Types, ChangeTypeRank, SeverityRank

\* Type, severity and the order of the counts tell the types apart.
LEMMA TypesToldApart ==
    ASSUME NEW t \in Types, NEW u \in Types,
           ChangeTypeRank(t) = ChangeTypeRank(u), SeverityRank(t) = SeverityRank(u),
           t = "loaded_model_count" <=> u = "loaded_model_count"
    PROVE  t = u
BY DEF Types, ChangeTypeRank, SeverityRank

\* Every change has a key of its own.
LEMMA KeysDiffer ==
    ASSUME NEW changes, NEW D, D = DOMAIN changes,
           \A x \in D : /\ x = [type |-> x.type, about |-> x.about]
                       /\ x.type \in Types /\ x.about \in Subject
                       /\ changes[x].subject \in Subject
    PROVE  \A x \in D : /\ SortKeys(changes)[x] \in SortKey
                       /\ SortKeys(changes)[x][1] = ChangeTypeRank(x.type)
                       /\ \A y \in D : SortKeys(changes)[x] = SortKeys(changes)[y] => x = y
<1> DEFINE k(x) == << ChangeTypeRank(x.type), SeverityRank(x.type),
                      IF x.type = "loaded_model_count" THEN 1 ELSE 0,
                      Position[changes[x].subject], Position[x.about] >>
<1>1. ASSUME NEW x \in D PROVE SortKeys(changes)[x] = k(x)
  BY DEF SortKeys
<1>2. ASSUME NEW x \in D PROVE k(x) \in SortKey /\ k(x)[1] = ChangeTypeRank(x.type)
  <2>1. /\ ChangeTypeRank(x.type) \in Int /\ SeverityRank(x.type) \in Int
        /\ (IF x.type = "loaded_model_count" THEN 1 ELSE 0) \in Int
    BY TypeRanks
  <2>2. Position[changes[x].subject] \in Int /\ Position[x.about] \in Int
    BY PositionIs
  <2> QED BY <2>1, <2>2 DEF SortKey
<1>3. ASSUME NEW x \in D, NEW y \in D, k(x) = k(y) PROVE x = y
  <2>1. /\ ChangeTypeRank(x.type) = ChangeTypeRank(y.type)
        /\ SeverityRank(x.type) = SeverityRank(y.type)
        /\ (IF x.type = "loaded_model_count" THEN 1 ELSE 0)
              = IF y.type = "loaded_model_count" THEN 1 ELSE 0
        /\ Position[x.about] = Position[y.about]
    BY <1>3
  <2>2. x.type = y.type
    BY <2>1, TypesToldApart
  <2>3. x.about = y.about
    BY <2>1, PositionIs
  <2> QED BY <2>2, <2>3
<1> HIDE DEF k
<1> QED BY <1>1, <1>2, <1>3

\* The ranks of the changes are 1, 2, ... in the order of their types.
LEMMA ChangesRanked ==
    ASSUME NEW b, IsState(b), NEW a, IsState(a),
           NEW changes, changes = Changes(b, a), NEW D, D = DOMAIN changes
    PROVE  /\ IsFiniteSet(D)
           /\ Ranks(changes) \in Bijection(D, 1 .. Cardinality(D))
           /\ \A x, y \in D : ChangeTypeRank(x.type) < ChangeTypeRank(y.type)
                              => Ranks(changes)[x] < Ranks(changes)[y]
<1> DEFINE key == SortKeys(changes)
           R == { p \in D \X D : LexLess(key[p[1]], key[p[2]]) }
           rank == Ranks(changes)
<1>1. /\ IsFiniteSet(D)
      /\ \A x \in D : /\ x = [type |-> x.type, about |-> x.about]
                       /\ x.type \in Types /\ x.about \in Subject
                       /\ changes[x].subject \in Subject
  BY ChangesTyped
<1>2. \A x \in D : /\ key[x] \in SortKey
                   /\ key[x][1] = ChangeTypeRank(x.type)
                   /\ \A y \in D : key[x] = key[y] => x = y
  BY <1>1, KeysDiffer
<1>3. \A x, y \in D : << x, y >> \in R <=> LexLess(key[x], key[y])
  OBVIOUS
<1> HIDE DEF R
<1>4. StrictOrder(D, R)
  <2> HIDE DEF key
  <2>1. \A x \in D : << x, x >> \notin R
    BY <1>2, <1>3, LexOrder
  <2>2. \A x, y, z \in D : << x, y >> \in R /\ << y, z >> \in R => << x, z >> \in R
    <3> TAKE x, y, z \in D
    <3>1. key[x] \in SortKey /\ key[y] \in SortKey /\ key[z] \in SortKey
      BY <1>2
    <3>2. LexLess(key[x], key[y]) /\ LexLess(key[y], key[z]) => LexLess(key[x], key[z])
      BY <3>1, LexOrder
    <3> QED BY <1>3, <3>2
  <2>3. \A x, y \in D : x = y \/ << x, y >> \in R \/ << y, x >> \in R
    <3> TAKE x, y \in D
    <3>1. key[x] = key[y] \/ LexLess(key[x], key[y]) \/ LexLess(key[y], key[x])
      BY <1>2, LexOrder
    <3> QED BY <1>2, <1>3, <3>1
  <2> QED BY <2>1, <2>2, <2>3 DEF StrictOrder
<1>5. rank = [x \in D |-> Cardinality(Before(D, R, x)) + 1]
  <2>1. ASSUME NEW x \in D
        PROVE  { y \in DOMAIN changes : LexLess(key[y], key[x]) } = Before(D, R, x)
    <3> HIDE DEF key
    <3> QED BY <1>3 DEF Before
  <2> QED BY <2>1 DEF Ranks
<1> HIDE DEF rank, key
<1>6. /\ rank \in Bijection(D, 1 .. Cardinality(D))
      /\ \A x, y \in D : << x, y >> \in R => rank[x] < rank[y]
  BY <1>1, <1>4, <1>5, Numbered
<1>7. ASSUME NEW x \in D, NEW y \in D, ChangeTypeRank(x.type) < ChangeTypeRank(y.type)
      PROVE  rank[x] < rank[y]
  <2>1. LexLess(key[x], key[y])
    BY <1>2, <1>7, LexLessIs
  <2> QED BY <1>3, <1>6, <2>1
<1> QED BY <1>1, <1>6, <1>7 DEF rank

-----------------------------------------------------------------------------
(* Lists of sets *)

\* s holds each element of S once.
Lists(s, S) ==
    /\ s \in Seq(S) /\ { s[i] : i \in DOMAIN s } = S
    /\ Len(s) = Cardinality(S) /\ IsFiniteSet(S)

\* A function from 1 .. n onto a set of n elements lists it.
LEMMA OntoLists ==
    ASSUME NEW S, IsFiniteSet(S), NEW s \in [1 .. Cardinality(S) -> S],
           \A x \in S : \E i \in 1 .. Cardinality(S) : s[i] = x
    PROVE  Lists(s, S)
<1>1. Cardinality(S) \in Nat
  BY FS_CardinalityType
<1>2. s \in Seq(S) /\ Len(s) = Cardinality(S)
  BY <1>1, IsASeq, LenProperties
<1>3. { s[i] : i \in DOMAIN s } = S
  OBVIOUS
<1> QED BY <1>2, <1>3 DEF Lists

\* A list takes as many places as there are elements, so none is there twice.
LEMMA ListsOnce ==
    ASSUME NEW S, NEW s, Lists(s, S)
    PROVE  /\ Len(s) \in Nat /\ s \in [1 .. Len(s) -> S]
           /\ \A i, j \in 1 .. Len(s) : s[i] = s[j] => i = j
<1>1. Len(s) \in Nat /\ s \in [1 .. Len(s) -> S]
  BY LenProperties DEF Lists
<1>2. s \in Surjection(1 .. Len(s), S)
  BY <1>1 DEF Lists, Surjection
<1>3. IsFiniteSet(1 .. Len(s)) /\ Cardinality(1 .. Len(s)) = Cardinality(S)
  <2>1. IsFiniteSet(1 .. Len(s)) /\ Cardinality(1 .. Len(s)) = Len(s)
    BY <1>1, FS_Interval
  <2> QED BY <2>1 DEF Lists
<1>4. s \in Injection(1 .. Len(s), S)
  BY <1>2, <1>3, FS_Surjection
<1> QED BY <1>1, <1>4 DEF Injection, IsInjective

\* The entries of s at the places P in the order of their ranks 1 .. n.
InOrder(s, P, rank, n) == [k \in 1 .. n |-> s[CHOOSE i \in P : rank[i] = k]]

\* They are as many as the places, and each is where its rank says.
Ordered(out, S, s, P, rank, n) ==
    /\ out \in Seq(S) /\ Len(out) = n
    /\ \A i \in P : rank[i] \in 1 .. n /\ out[rank[i]] = s[i]
    /\ \A k \in 1 .. n : \E i \in P : out[k] = s[i]

\* That is so whenever the ranks are 1 .. n.
LEMMA ByRank ==
    ASSUME NEW S, NEW P, NEW s, \A i \in P : s[i] \in S,
           NEW n \in Nat, NEW rank \in Bijection(P, 1 .. n)
    PROVE  Ordered(InOrder(s, P, rank, n), S, s, P, rank, n)
<1> DEFINE out == InOrder(s, P, rank, n)
<1> USE DEF InOrder
<1>1. ASSUME NEW k \in 1 .. n
      PROVE  /\ (CHOOSE i \in P : rank[i] = k) \in P
             /\ rank[CHOOSE i \in P : rank[i] = k] = k
  <2>1. \E i \in P : rank[i] = k
    BY DEF Bijection, Surjection
  <2> QED BY <2>1
<1>2. out \in [1 .. n -> S] /\ DOMAIN out = 1 .. n
  BY <1>1
<1>3. out \in Seq(S) /\ Len(out) = n
  <2> HIDE DEF out
  <2> QED BY <1>2, IsASeq, LenProperties
<1>4. ASSUME NEW i \in P PROVE rank[i] \in 1 .. n /\ out[rank[i]] = s[i]
  <2>1. rank[i] \in 1 .. n
    BY DEF Bijection, Injection
  <2>2. (CHOOSE j \in P : rank[j] = rank[i]) = i
    BY <1>1, <2>1 DEF Bijection, Injection, IsInjective
  <2> QED BY <2>1, <2>2
<1>5. ASSUME NEW k \in 1 .. n PROVE \E i \in P : out[k] = s[i]
  BY <1>1, <1>2
<1> QED BY <1>3, <1>4, <1>5 DEF Ordered

\* The entries at some places of a sequence are as many as the places, and are there.
LEMMA EntriesAre ==
    ASSUME NEW S, NEW s \in Seq(S), NEW P, P \subseteq DOMAIN s
    PROVE  /\ IsFiniteSet(P) /\ EntriesAt(s, P) \in Seq(S)
           /\ Len(EntriesAt(s, P)) = Cardinality(P)
           /\ { EntriesAt(s, P)[k] : k \in DOMAIN EntriesAt(s, P) } = { s[i] : i \in P }
<1> DEFINE N == 1 .. Len(s)
           R == { p \in P \X P : p[1] < p[2] }
           rank == [i \in P |-> Cardinality(Before(P, R, i)) + 1]
           out == EntriesAt(s, P)
           n == Cardinality(P)
<1>1. Len(s) \in Nat /\ s \in [N -> S] /\ DOMAIN s = N
  BY LenProperties
<1>2. IsFiniteSet(P)
  <2>1. IsFiniteSet(N)
    BY <1>1, FS_Interval
  <2>2. P \in SUBSET N
    BY <1>1
  <2> HIDE DEF N
  <2> QED BY <2>1, <2>2, FS_Subset
<1>3. n \in Nat
  BY <1>2, FS_CardinalityType
<1>4. \A i \in P : i \in Int /\ s[i] \in S
  BY <1>1
<1>5. StrictOrder(P, R)
  <2>1. \A i, j \in P : << i, j >> \in R <=> i < j
    OBVIOUS
  <2> HIDE DEF R
  <2> QED BY <1>4, <2>1 DEF StrictOrder
<1>6. rank \in Bijection(P, 1 .. n)
  <2> HIDE DEF R
  <2> QED BY <1>2, <1>5, Numbered
<1>7. \A i \in P : rank[i] = Cardinality({ j \in P : j < i }) + 1
  <2>1. ASSUME NEW i \in P PROVE Before(P, R, i) = { j \in P : j < i }
    BY DEF Before
  <2> HIDE DEF R
  <2> QED BY <2>1
<1> HIDE DEF rank
<1>8. out = [k \in 1 .. n |-> s[CHOOSE i \in P : rank[i] = k]]
  <2> DEFINE c(k) == CHOOSE i \in P : Cardinality({ j \in P : j < i }) + 1 = k
             d(k) == CHOOSE i \in P : rank[i] = k
  <2>1. out = [k \in 1 .. n |-> s[c(k)]]
    BY DEF EntriesAt
  <2>2. \A k \in 1 .. n : c(k) = d(k)
    BY <1>7
  <2> HIDE DEF out, c, d
  <2>3. out = [k \in 1 .. n |-> s[d(k)]]
    BY <2>1, <2>2
  <2> QED BY <2>3 DEF d
<1> DEFINE byRank == InOrder(s, P, rank, n)
<1>9. Ordered(byRank, S, s, P, rank, n)
  <2>1. \A i \in P : s[i] \in S
    BY <1>4
  <2> HIDE DEF n
  <2> QED BY <1>3, <1>6, <2>1, ByRank
<1> HIDE DEF out, byRank, n
<1>10. out = byRank
  BY <1>8 DEF byRank, InOrder
<1>11. DOMAIN byRank = 1 .. n
  BY <1>9, LenProperties DEF Ordered
<1>12. { byRank[k] : k \in DOMAIN byRank } = { s[i] : i \in P }
  BY <1>9, <1>11 DEF Ordered
<1> QED BY <1>2, <1>9, <1>10, <1>12 DEF out, n, Ordered

\* The entries at some places of a list are a list of them.
LEMMA EntriesListed ==
    ASSUME NEW D, NEW ranked, Lists(ranked, D), NEW P, P \subseteq DOMAIN ranked
    PROVE  Lists(EntriesAt(ranked, P), { ranked[i] : i \in P })
<1> DEFINE S == { ranked[i] : i \in P }
           out == EntriesAt(ranked, P)
<1>1. /\ DOMAIN ranked = 1 .. Len(ranked) /\ ranked \in Seq(D)
      /\ \A i, j \in P : ranked[i] = ranked[j] => i = j
  BY ListsOnce DEF Lists
<1>2. /\ IsFiniteSet(P) /\ out \in Seq(D) /\ Len(out) = Cardinality(P)
      /\ { out[k] : k \in DOMAIN out } = S
  <2>1. ranked \in Seq(D)
    BY <1>1
  <2> QED BY <2>1, EntriesAre, Zenon
<1>3. Cardinality(P) = Cardinality(S) /\ IsFiniteSet(S)
  <2> DEFINE f == [i \in P |-> ranked[i]]
  <2>1. f \in [P -> S] /\ \A i, j \in P : f[i] = f[j] => i = j
    BY <1>1
  <2>2. \A x \in S : \E i \in P : f[i] = x
    OBVIOUS
  <2>3. f \in Bijection(P, S)
    BY <2>1, <2>2 DEF Bijection, Injection, Surjection, IsInjective
  <2>4. ExistsBijection(P, S)
    BY <2>3 DEF ExistsBijection
  <2> HIDE DEF S
  <2> QED BY <1>2, <2>4, FS_Bijection
<1> HIDE DEF out, S
<1>4. out \in Seq(S)
  <2>1. \A k \in 1 .. Len(out) : out[k] \in S
    BY <1>2, LenProperties
  <2> QED BY <1>2, <2>1, IsASeq, LenProperties
<1>5. Lists(out, S)
  BY <1>2, <1>3, <1>4 DEF Lists
<1> QED BY <1>5 DEF out, S

-----------------------------------------------------------------------------
(* Changes as they are read *)

\* A reader of the changes from one state to another of the same task gets the other.
LEMMA ApplyExplains ==
    ASSUME NEW b, IsState(b), NEW a, IsState(a), b.task = a.task,
           NEW changes, changes = Changes(b, a)
    PROVE  Apply(b, changes) = a
<1> DEFINE D == DOMAIN changes
           Asp(t, c) == [type |-> t, about |-> c]
           New(t, c, old) == IF Asp(t, c) \in D THEN changes[Asp(t, c)].after ELSE old
           AboutOf(t) == { x.about : x \in { y \in D : y.type = t } }
           Present(t, old) == { c \in old \cup AboutOf(t) : New(t, c, TRUE) }
           listed == DOMAIN b.status \cup AboutOf("backend_reachability")
           stat == [k \in listed |-> New("backend_reachability", k,
                                        IF k \in DOMAIN b.status THEN b.status[k] ELSE "")]
           status == [k \in { x \in listed : stat[x] # "" } |-> stat[k]]
<1>1. /\ D = { x \in Aspects(b, a) : ValueOf(b, x) # ValueOf(a, x) }
      /\ \A x \in D : changes[x].after = ValueOf(a, x) /\ x = Asp(x.type, x.about)
  <2>1. D = DOMAIN Changes(b, a)
    OBVIOUS
  <2> HIDE DEF D
  <2>2. D = { x \in Aspects(b, a) : ValueOf(b, x) # ValueOf(a, x) }
    BY <2>1 DEF Changes
  <2>3. \A x \in D : Changes(b, a)[x].after = ValueOf(a, x)
                     /\ x = [type |-> x.type, about |-> x.about]
    BY <2>1, ChangesTyped
  <2> QED BY <2>2, <2>3
<1>2. ASSUME NEW t, NEW c, Asp(t, c) \in Aspects(b, a)
      PROVE  /\ Asp(t, c) \in D <=> ValueOf(b, Asp(t, c)) # ValueOf(a, Asp(t, c))
             /\ New(t, c, ValueOf(b, Asp(t, c))) = ValueOf(a, Asp(t, c))
  <2> DEFINE x == Asp(t, c)
  <2> HIDE DEF x, D
  <2>1. x \in D <=> ValueOf(b, x) # ValueOf(a, x)
    BY <1>1, <1>2 DEF x
  <2>2. (IF x \in D THEN changes[x].after ELSE ValueOf(b, x)) = ValueOf(a, x)
    BY <1>1, <2>1
  <2> QED BY <2>1, <2>2 DEF x
<1>3. \A t, c : Asp(t, c).type = t /\ Asp(t, c).about = c
  OBVIOUS
<1>4. \A t, c : c \in AboutOf(t) <=> Asp(t, c) \in D
  <2> TAKE t, c
  <2> HIDE DEF D, Asp
  <2>1. ASSUME c \in AboutOf(t) PROVE Asp(t, c) \in D
    <3>1. PICK x \in D : x.type = t /\ x.about = c
      BY <2>1
    <3> QED BY <1>1, <3>1
  <2>2. ASSUME Asp(t, c) \in D PROVE c \in AboutOf(t)
    BY <1>3, <2>2
  <2> QED BY <2>1, <2>2
<1>5. Apply(b, changes)
        = [b EXCEPT !.route = New("selected_route", b.task, b.route),
                    !.fallback = New("fallback_status", b.task, b.fallback),
                    !.ready = New("selected_model_readiness", b.task, b.ready),
                    !.status = status,
                    !.warnings = Present("warning_codes", b.warnings),
                    !.errors = Present("error_codes", b.errors),
                    !.action = New("recommended_action", b.task, b.action),
                    !.loaded = New("loaded_model_count", "models", b.loaded),
                    !.installed = New("installed_model_count", "models", b.installed)]
  BY DEF Apply
<1> HIDE DEF D, New, Asp
<1>6. /\ New("selected_route", b.task, b.route) = a.route
      /\ New("fallback_status", b.task, b.fallback) = a.fallback
      /\ New("selected_model_readiness", b.task, b.ready) = a.ready
      /\ New("recommended_action", b.task, b.action) = a.action
      /\ New("loaded_model_count", "models", b.loaded) = a.loaded
      /\ New("installed_model_count", "models", b.installed) = a.installed
  <2>1. /\ Asp("selected_route", b.task) \in Aspects(b, a)
        /\ Asp("fallback_status", b.task) \in Aspects(b, a)
        /\ Asp("selected_model_readiness", b.task) \in Aspects(b, a)
        /\ Asp("recommended_action", b.task) \in Aspects(b, a)
        /\ Asp("loaded_model_count", "models") \in Aspects(b, a)
        /\ Asp("installed_model_count", "models") \in Aspects(b, a)
    BY DEF Asp, Aspects, About
  <2>2. \A s : /\ ValueOf(s, Asp("selected_route", b.task)) = s.route
               /\ ValueOf(s, Asp("fallback_status", b.task)) = s.fallback
               /\ ValueOf(s, Asp("selected_model_readiness", b.task)) = s.ready
               /\ ValueOf(s, Asp("recommended_action", b.task)) = s.action
               /\ ValueOf(s, Asp("loaded_model_count", "models")) = s.loaded
               /\ ValueOf(s, Asp("installed_model_count", "models")) = s.installed
    BY DEF ValueOf, Asp
  <2> QED BY <1>2, <2>1, <2>2
<1>7. ASSUME NEW t, NEW olds, NEW news,
             \A c \in olds \cup news : Asp(t, c) \in Aspects(b, a),
             \A c : /\ ValueOf(b, Asp(t, c)) = (c \in olds)
                    /\ ValueOf(a, Asp(t, c)) = (c \in news),
             AboutOf(t) \subseteq olds \cup news
      PROVE  Present(t, olds) = news
  <2>1. ASSUME NEW c \in olds \cup news
        PROVE  Asp(t, c) \in D <=> ((c \in olds) # (c \in news))
    BY <1>2, <1>7
  <2>2. ASSUME NEW c \in olds \cup news PROVE New(t, c, TRUE) = (c \in news)
    BY <1>1, <1>7, <2>1 DEF New
  <2>3. ASSUME NEW c \in olds \cup news PROVE c \in olds \/ c \in AboutOf(t)
    BY <1>4, <2>1
  <2> HIDE DEF AboutOf
  <2> QED BY <1>7, <2>2, <2>3
<1>8. status = a.status
  <2>1. ASSUME NEW k \in DOMAIN b.status \cup DOMAIN a.status
        PROVE  /\ Asp("backend_reachability", k) \in Aspects(b, a)
               /\ ValueOf(b, Asp("backend_reachability", k))
                    = IF k \in DOMAIN b.status THEN b.status[k] ELSE ""
               /\ ValueOf(a, Asp("backend_reachability", k))
                    = IF k \in DOMAIN a.status THEN a.status[k] ELSE ""
    BY DEF Aspects, About, Asp, ValueOf
  <2>2. ASSUME NEW k \in AboutOf("backend_reachability")
        PROVE  k \in DOMAIN b.status \cup DOMAIN a.status
    <3>1. Asp("backend_reachability", k) \in Aspects(b, a)
      BY <1>1, <1>4
    <3> QED BY <3>1 DEF Aspects, About, Asp
  <2>3. ASSUME NEW k \in listed
        PROVE  stat[k] = IF k \in DOMAIN a.status THEN a.status[k] ELSE ""
    <3>1. k \in DOMAIN b.status \cup DOMAIN a.status
      BY <2>2
    <3> QED BY <1>2, <2>1, <3>1
  <2>4. ASSUME NEW k \in DOMAIN a.status PROVE k \in listed
    <3>1. a.status[k] # ""
      BY DEF IsState
    <3>2. k \in DOMAIN b.status \/ Asp("backend_reachability", k) \in D
      BY <1>2, <2>1, <3>1
    <3> QED BY <1>4, <3>2
  <2>5. \A k \in DOMAIN a.status : a.status[k] # ""
    BY DEF IsState
  <2> HIDE DEF stat, listed
  <2>6. { x \in listed : stat[x] # "" } = DOMAIN a.status
    BY <2>3, <2>4, <2>5
  <2>7. \A k \in DOMAIN a.status : stat[k] = a.status[k]
    BY <2>3, <2>4
  <2>8. a.status = [k \in DOMAIN a.status |-> a.status[k]]
    BY DEF IsState
  <2> QED BY <2>6, <2>7, <2>8
<1>9. Present("warning_codes", b.warnings) = a.warnings
  <2>1. \A c \in b.warnings \cup a.warnings : Asp("warning_codes", c) \in Aspects(b, a)
    BY DEF Aspects, About, Asp
  <2>2. \A c : /\ ValueOf(b, Asp("warning_codes", c)) = (c \in b.warnings)
               /\ ValueOf(a, Asp("warning_codes", c)) = (c \in a.warnings)
    BY DEF ValueOf, Asp
  <2>3. ASSUME NEW c \in AboutOf("warning_codes") PROVE c \in b.warnings \cup a.warnings
    <3>1. Asp("warning_codes", c) \in Aspects(b, a)
      BY <1>1, <1>4
    <3> QED BY <3>1 DEF Aspects, About, Asp
  <2> HIDE DEF Present, AboutOf
  <2>4. AboutOf("warning_codes") \subseteq b.warnings \cup a.warnings
    BY <2>3
  <2> QED BY <1>7, <2>1, <2>2, <2>4
<1>10. Present("error_codes", b.errors) = a.errors
  <2>1. \A c \in b.errors \cup a.errors : Asp("error_codes", c) \in Aspects(b, a)
    BY DEF Aspects, About, Asp
  <2>2. \A c : /\ ValueOf(b, Asp("error_codes", c)) = (c \in b.errors)
               /\ ValueOf(a, Asp("error_codes", c)) = (c \in a.errors)
    BY DEF ValueOf, Asp
  <2>3. ASSUME NEW c \in AboutOf("error_codes") PROVE c \in b.errors \cup a.errors
    <3>1. Asp("error_codes", c) \in Aspects(b, a)
      BY <1>1, <1>4
    <3> QED BY <3>1 DEF Aspects, About, Asp
  <2> HIDE DEF Present, AboutOf
  <2>4. AboutOf("error_codes") \subseteq b.errors \cup a.errors
    BY <2>3
  <2> QED BY <1>7, <2>1, <2>2, <2>4
<1> HIDE DEF Present, status
<1>11. b = [task |-> b.task, route |-> b.route, fallback |-> b.fallback, ready |-> b.ready,
            status |-> b.status, warnings |-> b.warnings, errors |-> b.errors,
            action |-> b.action, loaded |-> b.loaded, installed |-> b.installed]
  BY DEF IsState
<1>12. a = [task |-> a.task, route |-> a.route, fallback |-> a.fallback, ready |-> a.ready,
            status |-> a.status, warnings |-> a.warnings, errors |-> a.errors,
            action |-> a.action, loaded |-> a.loaded, installed |-> a.installed]
  BY DEF IsState
<1>13. Apply(b, changes)
        = [b EXCEPT !.route = a.route, !.fallback = a.fallback, !.ready = a.ready,
                    !.status = a.status, !.warnings = a.warnings, !.errors = a.errors,
                    !.action = a.action, !.loaded = a.loaded, !.installed = a.installed]
  BY <1>5, <1>6, <1>8, <1>9, <1>10, Zenon
<1> QED BY <1>11, <1>12, <1>13
=============================================================================
