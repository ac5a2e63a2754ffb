-------------------------- MODULE DashboardProofs ---------------------------
(***************************************************************************)
(* Proofs about Dashboard for any number of frames and events.             *)
(***************************************************************************)
EXTENDS Dashboard, SequenceTheorems, WellFoundedInduction, TLAPS

-----------------------------------------------------------------------------
(* Induction over the natural numbers, stated of sets *)

\* Every nonempty set of natural numbers has a least element.
LEMMA LeastNatural ==
    ASSUME NEW S \in SUBSET Nat, S # {}
    PROVE  \E x \in S : \A y \in S : x <= y
<1> DEFINE R == OpToRel(<, Nat)
<1>1. IsWellFoundedOn(R, Nat)
  BY NatLessThanWellFounded
<1>2. R = { ss \in Nat \X Nat : ss[1] < ss[2] }
  BY DEF OpToRel
<1> HIDE DEF R
<1>3. PICK x \in S : \A y \in S : << y, x >> \notin R
  BY <1>1, WFMin
<1>4. \A y \in S : << y, x >> \in R <=> y < x
  <2> TAKE y \in S
  <2>1. << y, x >> \in Nat \X Nat
    OBVIOUS
  <2> QED BY <1>2, <2>1
<1>5. \A y \in S : ~(y < x)
  BY <1>3, <1>4
<1> QED BY <1>5

\* A set that holds 0 and the successor of each number it holds, holds all.
LEMMA NaturalInduction ==
    ASSUME NEW S, 0 \in S, \A n \in Nat : n \in S => n + 1 \in S
    PROVE  Nat \subseteq S
<1> SUFFICES ASSUME Nat \ S # {} PROVE FALSE
  OBVIOUS
<1>1. PICK x \in Nat \ S : \A y \in Nat \ S : x <= y
  <2>1. Nat \ S \in SUBSET Nat
    OBVIOUS
  <2> QED BY <2>1, LeastNatural
<1>2. x - 1 \in Nat /\ x - 1 \in S
  BY <1>1
<1>3. (x - 1) + 1 \in S
  BY <1>2
<1> QED BY <1>1, <1>3

-----------------------------------------------------------------------------
(* What FlattenSeq computes *)

\* The function that FlattenSeq recurs by.
Flattens(f, seqs) ==
    f = [i \in 1 .. Len(seqs) |-> IF i = 1 THEN seqs[i] ELSE f[i - 1] \o seqs[i]]

\* What FlattenSeq computes.
LEMMA FlattenSeqIs ==
    ASSUME NEW S, NEW seqs \in Seq(Seq(S)), seqs # << >>
    PROVE  FlattenSeq(seqs) = (CHOOSE f : Flattens(f, seqs))[Len(seqs)]
BY DEF FlattenSeq, Flattens

\* Its value at each place.
LEMMA FlattensAt ==
    ASSUME NEW f, NEW seqs, Flattens(f, seqs), NEW i \in 1 .. Len(seqs)
    PROVE  f[i] = IF i = 1 THEN seqs[i] ELSE f[i - 1] \o seqs[i]
<1> DEFINE h == [k \in 1 .. Len(seqs) |-> IF k = 1 THEN seqs[k] ELSE f[k - 1] \o seqs[k]]
<1>1. f = h
  BY DEF Flattens
<1>2. h[i] = IF i = 1 THEN seqs[i] ELSE f[i - 1] \o seqs[i]
  OBVIOUS
<1> HIDE DEF h
<1> QED BY <1>1, <1>2

\* There is one.
LEMMA FlattensExists ==
    ASSUME NEW S, NEW seqs \in Seq(Seq(S))
    PROVE  \E f : Flattens(f, seqs)
<1> DEFINE body(f, i) == IF i = 1 THEN seqs[i] ELSE f[i - 1] \o seqs[i]
           N == { n \in Nat : \E f : f = [i \in 1 .. n |-> body(f, i)] }
<1>1. 0 \in N
  <2> DEFINE f == [i \in 1 .. 0 |-> << >>]
  <2>1. f = [i \in 1 .. 0 |-> body(f, i)]
    OBVIOUS
  <2> QED BY <2>1
<1>2. ASSUME NEW n \in N PROVE n + 1 \in N
  <2>1. PICK f : f = [i \in 1 .. n |-> body(f, i)]
    OBVIOUS
  <2> DEFINE g == [i \in 1 .. n + 1 |-> IF i = n + 1 THEN body(f, i) ELSE f[i]]
  <2>2. \A i \in 1 .. n + 1 : g[i] = body(g, i)
    <3> TAKE i \in 1 .. n + 1
    <3>1. n \in Nat
      OBVIOUS
    <3>2. body(g, i) = body(f, i)
      <4>1. i = 1 \/ (i - 1 \in 1 .. n /\ g[i - 1] = f[i - 1])
        BY <3>1
      <4> HIDE DEF g
      <4> QED BY <4>1
    <3>3. g[i] = body(f, i)
      <4>1. i \in 1 .. n => f[i] = body(f, i)
        BY <2>1
      <4> HIDE DEF body
      <4> QED BY <3>1, <4>1
    <3> QED BY <3>2, <3>3
  <2>3. g = [i \in 1 .. n + 1 |-> body(g, i)]
    <3>1. g = [i \in 1 .. n + 1 |-> g[i]]
      OBVIOUS
    <3> HIDE DEF g
    <3> QED BY <2>2, <3>1
  <2> HIDE DEF g, body
  <2>4. n + 1 \in Nat
    OBVIOUS
  <2> QED BY <2>3, <2>4, Zenon
<1> HIDE DEF N
<1>3. Nat \subseteq N
  BY <1>1, <1>2, NaturalInduction
<1> QED BY <1>3, LenProperties DEF N, Flattens

\* Of two sequences of which one starts with the other, the functions agree.
LEMMA FlattensAgree ==
    ASSUME NEW S, NEW s \in Seq(Seq(S)), NEW t \in Seq(Seq(S)), NEW f, NEW g,
           Flattens(f, s), Flattens(g, t),
           Len(s) <= Len(t), \A i \in 1 .. Len(s) : s[i] = t[i]
    PROVE  \A i \in 1 .. Len(s) : f[i] = g[i] /\ f[i] \in Seq(S)
<1> DEFINE N == { n \in Nat : n \in 1 .. Len(s) => f[n] = g[n] /\ f[n] \in Seq(S) }
<1>0. Len(s) \in Nat /\ Len(t) \in Nat /\ \A i \in 1 .. Len(s) : s[i] \in Seq(S)
  BY LenProperties, ElementOfSeq
<1>1. 0 \in N
  OBVIOUS
<1>2. ASSUME NEW n \in N PROVE n + 1 \in N
  <2> SUFFICES ASSUME n + 1 \in 1 .. Len(s)
               PROVE  f[n + 1] = g[n + 1] /\ f[n + 1] \in Seq(S)
    OBVIOUS
  <2>1. /\ f[n + 1] = IF n + 1 = 1 THEN s[n + 1] ELSE f[(n + 1) - 1] \o s[n + 1]
        /\ g[n + 1] = IF n + 1 = 1 THEN t[n + 1] ELSE g[(n + 1) - 1] \o t[n + 1]
    <3>1. n + 1 \in 1 .. Len(t)
      BY <1>0
    <3> HIDE DEF N
    <3> QED BY <3>1, FlattensAt
  <2>2. s[n + 1] = t[n + 1] /\ s[n + 1] \in Seq(S) /\ n \in Nat /\ (n + 1) - 1 = n
    BY <1>0
  <2>3. CASE n = 0
    BY <2>1, <2>2, <2>3
  <2>4. CASE n # 0
    <3>1. n \in 1 .. Len(s)
      BY <1>0, <2>2, <2>4
    <3>2. f[n] = g[n] /\ f[n] \in Seq(S)
      BY <3>1
    <3>3. f[n] \o s[n + 1] \in Seq(S)
      BY <3>2, <2>2, ConcatProperties
    <3> QED BY <2>1, <2>2, <2>4, <3>2, <3>3
  <2> QED BY <2>3, <2>4
<1> HIDE DEF N
<1>3. Nat \subseteq N
  BY <1>1, <1>2, NaturalInduction
<1> QED BY <1>0, <1>3 DEF N

\* Flattening one sequence more.
LEMMA FlattenAppend ==
    ASSUME NEW S, NEW s \in Seq(Seq(S)), NEW e \in Seq(S)
    PROVE  /\ FlattenSeq(s) \in Seq(S)
           /\ FlattenSeq(Append(s, e)) = FlattenSeq(s) \o e
<1> DEFINE t == Append(s, e)
<1>1. /\ t \in Seq(Seq(S)) /\ Len(t) = Len(s) + 1 /\ t[Len(t)] = e /\ Len(s) \in Nat
      /\ \A i \in 1 .. Len(s) : s[i] = t[i]
  BY AppendProperties, LenProperties
<1>2. t # << >> /\ Len(t) \in 1 .. Len(t)
  BY <1>1, AppendProperties
<1> HIDE DEF t
<1> DEFINE f == CHOOSE x : Flattens(x, s)
           g == CHOOSE x : Flattens(x, t)
<1>3. Flattens(f, s) /\ Flattens(g, t)
  BY <1>1, FlattensExists
<1>4. s # << >> => FlattenSeq(s) = f[Len(s)]
  BY FlattenSeqIs
<1>5. FlattenSeq(t) = g[Len(t)]
  BY <1>1, <1>2, FlattenSeqIs
<1> HIDE DEF f, g
<1>6. g[Len(t)] = IF Len(t) = 1 THEN e ELSE g[Len(t) - 1] \o e
  BY <1>1, <1>2, <1>3, FlattensAt
<1>7. CASE s = << >>
  <2>1. Len(s) = 0 /\ FlattenSeq(s) = << >>
    BY <1>7 DEF FlattenSeq
  <2>2. << >> \o e = e
    BY ConcatEmptySeq
  <2> QED BY <1>1, <1>5, <1>6, <2>1, <2>2, EmptySeq DEF t
<1>8. CASE s # << >>
  <2>1. Len(s) \in 1 .. Len(s)
    BY <1>1, <1>8, EmptySeq
  <2>2. f[Len(s)] = g[Len(s)] /\ f[Len(s)] \in Seq(S)
    <3>1. Len(s) <= Len(t)
      BY <1>1
    <3> QED BY <1>1, <1>3, <2>1, <3>1, FlattensAgree, Zenon
  <2>3. Len(t) # 1 /\ Len(t) - 1 = Len(s)
    BY <1>1, <2>1
  <2> QED BY <1>4, <1>5, <1>6, <1>8, <2>2, <2>3 DEF t
<1> QED BY <1>7, <1>8

-----------------------------------------------------------------------------
(* What is shown *)

EventsOf(n) == [i \in 1 .. n |-> stream[i].events]

FramesOf(n) == { i \in 1 .. n : stream[i].kind = "frame" }

\* The last records of a sequence are in the type of its records, and no more than fit.
LEMMA LastOfType ==
    ASSUME NEW s \in Seq(Nat)
    PROVE  /\ LastOf(s) \in Seq(Nat)
           /\ Len(LastOf(s)) = IF Len(s) > EventLimit THEN EventLimit ELSE Len(s)
           /\ \A i \in 1 .. Len(LastOf(s)) : LastOf(s)[i] = s[Len(s) - Len(LastOf(s)) + i]
<1>0. Len(s) \in Nat /\ EventLimit \in Nat /\ EventLimit > 0
  BY LenProperties, DashboardAssumption
<1> DEFINE m == IF Len(s) > EventLimit THEN Len(s) - EventLimit + 1 ELSE 1
           n == Len(s)
<1>1. m \in Int /\ n \in Int /\ LastOf(s) = SubSeq(s, m, n) /\ m >= 1 /\ n <= Len(s)
  BY <1>0 DEF LastOf
<1>2. \A i \in m .. n : s[i] \in Nat
  BY <1>0, ElementOfSeq
<1> HIDE DEF m, n
<1>3. /\ SubSeq(s, m, n) \in Seq(Nat)
      /\ Len(SubSeq(s, m, n)) = IF m <= n THEN n - m + 1 ELSE 0
      /\ \A i \in 1 .. n - m + 1 : SubSeq(s, m, n)[i] = s[m + i - 1]
  BY <1>1, <1>2, SubSeqProperties
<1>4. Len(LastOf(s)) = n - m + 1 /\ Len(LastOf(s)) = IF n > EventLimit THEN EventLimit ELSE n
  <2>1. Len(LastOf(s)) = IF m <= n THEN n - m + 1 ELSE 0
    BY <1>1, <1>3
  <2>2. n \in Nat /\ m = IF n > EventLimit THEN n - EventLimit + 1 ELSE 1
    BY <1>0 DEF m, n
  <2> QED BY <1>0, <2>1, <2>2
<1>5. \A i \in 1 .. n - m + 1 : m + i - 1 = Len(s) - (n - m + 1) + i
  BY <1>0, <1>1 DEF n
<1> QED BY <1>1, <1>3, <1>4, <1>5 DEF n

\* Nothing is lost by cutting before the new events are added.
LEMMA LastOfConcat ==
    ASSUME NEW s \in Seq(Nat), NEW t \in Seq(Nat)
    PROVE  LastOf(LastOf(s) \o t) = LastOf(s \o t)
<1> DEFINE a == LastOf(s) \o t
           b == s \o t
           l == Len(s)
           c == Len(LastOf(s))
           k == Len(t)
<1>0. EventLimit \in Nat /\ EventLimit > 0
  BY DashboardAssumption
<1>1. /\ LastOf(s) \in Seq(Nat) /\ l \in Nat /\ k \in Nat /\ c \in Nat
      /\ c = IF l > EventLimit THEN EventLimit ELSE l
      /\ \A i \in 1 .. c : LastOf(s)[i] = s[l - c + i]
  BY LastOfType, LenProperties
<1>2. /\ a \in Seq(Nat) /\ Len(a) = c + k
      /\ \A i \in 1 .. c + k : a[i] = IF i <= c THEN LastOf(s)[i] ELSE t[i - c]
  BY <1>1, ConcatProperties
<1>3. /\ b \in Seq(Nat) /\ Len(b) = l + k
      /\ \A i \in 1 .. l + k : b[i] = IF i <= l THEN s[i] ELSE t[i - l]
  BY ConcatProperties
<1> HIDE DEF a, b, l, c, k
<1>4. \A i \in 1 .. c + k : a[i] = b[l - c + i]
  <2> TAKE i \in 1 .. c + k
  <2>1. l - c + i \in 1 .. l + k /\ (i <= c <=> l - c + i <= l) /\ (l - c + i) - l = i - c
    BY <1>0, <1>1
  <2>2. i <= c => i \in 1 .. c
    BY <1>1
  <2> QED BY <1>1, <1>2, <1>3, <2>1, <2>2
<1> DEFINE x == LastOf(a)
           y == LastOf(b)
<1>5. /\ x \in Seq(Nat) /\ Len(x) = IF Len(a) > EventLimit THEN EventLimit ELSE Len(a)
      /\ \A i \in 1 .. Len(x) : x[i] = a[Len(a) - Len(x) + i]
  BY <1>2, LastOfType
<1>6. /\ y \in Seq(Nat) /\ Len(y) = IF Len(b) > EventLimit THEN EventLimit ELSE Len(b)
      /\ \A i \in 1 .. Len(y) : y[i] = b[Len(b) - Len(y) + i]
  BY <1>3, LastOfType
<1> HIDE DEF x, y
<1>7. Len(x) = Len(y) /\ Len(x) \in Nat /\ Len(x) <= c + k
  <2>1. /\ l \in Nat /\ k \in Nat /\ c = IF l > EventLimit THEN EventLimit ELSE l
        /\ Len(x) = IF c + k > EventLimit THEN EventLimit ELSE c + k
        /\ Len(y) = IF l + k > EventLimit THEN EventLimit ELSE l + k
    BY <1>1, <1>2, <1>3, <1>5, <1>6
  <2> QED BY <1>0, <2>1
<1>8. \A i \in 1 .. Len(x) : x[i] = y[i]
  <2> TAKE i \in 1 .. Len(x)
  <2>1. c + k - Len(x) + i \in 1 .. c + k
    BY <1>1, <1>7
  <2>2. l - c + (c + k - Len(x) + i) = l + k - Len(x) + i
    BY <1>1, <1>7
  <2> DEFINE j == c + k - Len(x) + i
  <2>3. x[i] = a[j] /\ y[i] = b[l + k - Len(x) + i]
    <3>1. Len(a) = c + k /\ Len(b) = l + k /\ i \in 1 .. Len(y)
      BY <1>2, <1>3, <1>7
    <3>2. x[i] = a[Len(a) - Len(x) + i] /\ y[i] = b[Len(b) - Len(y) + i]
      BY <1>5, <1>6, <3>1
    <3>3. Len(a) - Len(x) + i = j /\ Len(b) - Len(y) + i = l + k - Len(x) + i
      BY <1>1, <1>7, <3>1
    <3> HIDE DEF j
    <3> QED BY <3>2, <3>3
  <2>4. a[j] = b[l - c + j]
    BY <1>4, <2>1
  <2> QED BY <2>2, <2>3, <2>4
<1>9. x = y
  BY <1>5, <1>6, <1>7, <1>8, SeqEqual
<1> QED BY <1>9 DEF x, y, a, b

\* A nonempty set of places has a last one.
LEMMA LastPlace ==
    ASSUME NEW n \in Nat, NEW S \in SUBSET (1 .. n), S # {}
    PROVE  Max(S) \in S /\ \A i \in S : Max(S) >= i
<1> DEFINE D == { n - i : i \in S }
<1>1. D \in SUBSET Nat /\ D # {}
  <2>1. \A i \in S : n - i \in Nat
    OBVIOUS
  <2> QED BY <2>1
<1> HIDE DEF D
<1>2. PICK d \in D : \A e \in D : d <= e
  BY <1>1, LeastNatural
<1>3. PICK m \in S : d = n - m
  BY DEF D
<1>4. \A i \in S : m >= i
  <2> TAKE i \in S
  <2>1. n - m <= n - i
    BY <1>2, <1>3 DEF D
  <2>2. m \in Int /\ i \in Int
    OBVIOUS
  <2> HIDE DEF D
  <2> QED BY <2>1, <2>2
<1> QED BY <1>4 DEF Max

\* The stream is a sequence, so that its length is a number.
LEMMA StreamLength == ASSUME TypeOK PROVE stream \in Seq(Entry) /\ Len(stream) \in Nat
<1>1. stream \in Seq(Entry)
  BY DEF TypeOK
<1> QED BY <1>1, LenProperties

\* The events of the first n records, one sequence for each.
LEMMA EventsTyped ==
    ASSUME TypeOK, NEW n \in 0 .. Len(stream)
    PROVE  /\ EventsOf(n) \in Seq(Seq(Nat)) /\ Len(EventsOf(n)) = n
           /\ FlattenSeq(EventsOf(n)) \in Seq(Nat)
           /\ \A i \in 1 .. n : EventsOf(n)[i] = stream[i].events /\ stream[i] \in Entry
<1>1. stream \in Seq(Entry) /\ Len(stream) \in Nat /\ n \in Nat
  BY StreamLength
<1>2. \A i \in 1 .. n : stream[i] \in Entry /\ stream[i].events \in Seq(Nat)
  <2> TAKE i \in 1 .. n
  <2>1. i \in 1 .. Len(stream)
    BY <1>1
  <2>2. stream[i] \in Entry
    BY <1>1, <2>1, ElementOfSeq
  <2> QED BY <2>2 DEF Entry
<1>3. EventsOf(n) \in [1 .. n -> Seq(Nat)]
  BY <1>2 DEF EventsOf
<1>4. EventsOf(n) \in Seq(Seq(Nat))
  BY <1>1, <1>3, SeqDef
<1>5. Len(EventsOf(n)) = n
  <2>1. DOMAIN EventsOf(n) = 1 .. n /\ DOMAIN EventsOf(n) = 1 .. Len(EventsOf(n))
    BY <1>3, <1>4, LenProperties
  <2>2. Len(EventsOf(n)) \in Nat
    BY <1>4, LenProperties
  <2> QED BY <1>1, <2>1, <2>2
<1>6. FlattenSeq(EventsOf(n)) \in Seq(Nat)
  <2>1. << >> \in Seq(Nat)
    BY EmptySeq
  <2> QED BY <1>4, <2>1, FlattenAppend
<1> QED BY <1>2, <1>4, <1>5, <1>6 DEF EventsOf

\* View, with its places and events named.
LEMMA ViewIs ==
    ASSUME TypeOK, NEW n \in 0 .. Len(stream)
    PROVE  View(n) = [frame |-> IF FramesOf(n) = {} THEN 0
                                ELSE stream[Max(FramesOf(n))].frame,
                      events |-> LastOf(FlattenSeq(EventsOf(n)))]
<1> DEFINE e == FlattenSeq(EventsOf(n))
<1>1. Len(e) \in Nat /\ EventLimit \in Nat
  BY EventsTyped, LenProperties, DashboardAssumption
<1>2. View(n) = [frame |-> IF FramesOf(n) = {} THEN 0 ELSE stream[Max(FramesOf(n))].frame,
                 events |-> SubSeq(e, Len(e) + 1 - (IF Len(e) < EventLimit THEN Len(e)
                                                    ELSE EventLimit), Len(e))]
  BY DEF View, FramesOf, EventsOf
<1> HIDE DEF e
<1>3. Len(e) + 1 - (IF Len(e) < EventLimit THEN Len(e) ELSE EventLimit)
        = IF Len(e) > EventLimit THEN Len(e) - EventLimit + 1 ELSE 1
  <2>1. CASE Len(e) < EventLimit
    BY <1>1, <2>1
  <2>2. CASE ~(Len(e) < EventLimit)
    <3>1. Len(e) + 1 - EventLimit = Len(e) - EventLimit + 1 /\ Len(e) >= EventLimit
      BY <1>1, <2>2
    <3>2. Len(e) = EventLimit => Len(e) - EventLimit + 1 = 1
      BY <1>1
    <3> QED BY <1>1, <2>2, <3>1, <3>2
  <2> QED BY <2>1, <2>2
<1> QED BY <1>2, <1>3 DEF LastOf, e

\* What one record adds to what is shown, as Update has it.
LEMMA ViewStep ==
    ASSUME TypeOK, NEW n \in Nat, n + 1 \in 1 .. Len(stream)
    PROVE  View(n + 1) =
             [frame |-> IF stream[n + 1].kind = "frame" THEN stream[n + 1].frame
                        ELSE View(n).frame,
              events |-> LastOf(View(n).events \o stream[n + 1].events)]
<1>0. n \in 0 .. Len(stream) /\ n + 1 \in 0 .. Len(stream) /\ Len(stream) \in Nat
  BY StreamLength
<1> DEFINE r == stream[n + 1]
           e == FlattenSeq(EventsOf(n))
           f == FlattenSeq(EventsOf(n + 1))
<1>1. r \in Entry /\ r.events \in Seq(Nat)
  BY <1>0, EventsTyped DEF Entry
<1>2. f = e \o r.events /\ e \in Seq(Nat)
  <2> DEFINE a == Append(EventsOf(n), r.events)
             b == EventsOf(n + 1)
  <2>1. /\ EventsOf(n) \in Seq(Seq(Nat)) /\ Len(EventsOf(n)) = n /\ e \in Seq(Nat)
        /\ \A i \in 1 .. n : EventsOf(n)[i] = stream[i].events
    BY <1>0, EventsTyped
  <2>2. /\ b \in Seq(Seq(Nat)) /\ Len(b) = n + 1
        /\ \A i \in 1 .. n + 1 : b[i] = stream[i].events
    BY <1>0, EventsTyped
  <2>3. /\ a \in Seq(Seq(Nat)) /\ Len(a) = n + 1 /\ a[n + 1] = r.events
        /\ \A i \in 1 .. n : a[i] = EventsOf(n)[i]
    BY <1>1, <2>1, AppendProperties
  <2> HIDE DEF a, b
  <2>4. \A i \in 1 .. n + 1 : a[i] = b[i]
    <3> TAKE i \in 1 .. n + 1
    <3>1. i \in 1 .. n \/ i = n + 1
      OBVIOUS
    <3> QED BY <2>1, <2>2, <2>3, <3>1
  <2>5. a = b
    BY <2>2, <2>3, <2>4, SeqEqual
  <2> QED BY <1>1, <2>1, <2>5, FlattenAppend DEF a, b
<1>3. LastOf(LastOf(e) \o r.events) = LastOf(f)
  BY <1>1, <1>2, LastOfConcat
<1>4. View(n).events = LastOf(e) /\ View(n + 1).events = LastOf(f)
  BY <1>0, ViewIs
<1>5. (IF FramesOf(n + 1) = {} THEN 0 ELSE stream[Max(FramesOf(n + 1))].frame)
        = IF r.kind = "frame" THEN r.frame ELSE View(n).frame
  <2>1. CASE r.kind = "frame"
    <3>1. n + 1 \in FramesOf(n + 1) /\ FramesOf(n + 1) \in SUBSET (1 .. n + 1)
      BY <2>1 DEF FramesOf
    <3>2. Max(FramesOf(n + 1)) = n + 1
      <4>1. /\ Max(FramesOf(n + 1)) \in FramesOf(n + 1)
            /\ \A i \in FramesOf(n + 1) : Max(FramesOf(n + 1)) >= i
        <5>1. n + 1 \in Nat /\ FramesOf(n + 1) # {}
          BY <3>1
        <5> QED BY <3>1, <5>1, LastPlace
      <4> QED BY <3>1, <4>1
    <3> QED BY <2>1, <3>1, <3>2
  <2>2. CASE r.kind # "frame"
    <3>1. FramesOf(n + 1) = FramesOf(n)
      BY <2>2 DEF FramesOf
    <3>2. View(n).frame = IF FramesOf(n) = {} THEN 0 ELSE stream[Max(FramesOf(n))].frame
      BY <1>0, ViewIs
    <3> QED BY <2>2, <3>1, <3>2
  <2> QED BY <2>1, <2>2
<1>6. View(n + 1) = [frame |-> IF FramesOf(n + 1) = {} THEN 0
                               ELSE stream[Max(FramesOf(n + 1))].frame,
                     events |-> LastOf(f)]
  BY <1>0, ViewIs
<1> QED BY <1>3, <1>4, <1>5, <1>6

\* Nothing is shown before the first record.
LEMMA ViewEmpty == View(0) = [frame |-> 0, events |-> << >>]
<1> DEFINE e == [i \in 1 .. 0 |-> stream[i].events]
<1>1. e = << >> /\ Len(e) = 0
  <2>1. e \in [1 .. 0 -> Seq(Nat)]
    OBVIOUS
  <2>2. e \in Seq(Seq(Nat)) /\ DOMAIN e = 1 .. 0
    BY <2>1, SeqDef
  <2>3. Len(e) \in Nat /\ 1 .. Len(e) = 1 .. 0
    BY <2>2, LenProperties
  <2>4. Len(e) = 0
    BY <2>3
  <2> QED BY <2>2, <2>4, EmptySeq
<1>2. FlattenSeq(e) = << >>
  BY <1>1 DEF FlattenSeq
<1>3. { i \in 1 .. 0 : stream[i].kind = "frame" } = {}
  OBVIOUS
<1>4. EventLimit \in Nat /\ Len(<< >>) = 0 /\ EventLimit > 0
  BY DashboardAssumption, EmptySeq
<1>5. SubSeq(<< >>, 1, 0) = << >>
  BY SubSeqEmpty
<1> HIDE DEF e
<1>6. View(0) = [frame |-> 0,
                 events |-> SubSeq(FlattenSeq(e), Len(FlattenSeq(e)) + 1
                               - (IF Len(FlattenSeq(e)) < EventLimit THEN Len(FlattenSeq(e))
                                  ELSE EventLimit), Len(FlattenSeq(e)))]
  BY <1>3 DEF View, e
<1>7. 0 + 1 - (IF 0 < EventLimit THEN 0 ELSE EventLimit) = 1
  BY <1>4
<1> QED BY <1>2, <1>4, <1>5, <1>6, <1>7

\* What is written later does not change what was to be shown.
LEMMA ViewStays ==
    ASSUME TypeOK, NEW n \in 0 .. Len(stream), \A i \in 1 .. n : stream'[i] = stream[i]
    PROVE  View(n)' = View(n)
<1>1. [i \in 1 .. n |-> stream'[i].events] = [i \in 1 .. n |-> stream[i].events]
  OBVIOUS
<1> DEFINE F == { i \in 1 .. n : stream[i].kind = "frame" }
<1>2. { i \in 1 .. n : stream'[i].kind = "frame" } = F
  OBVIOUS
<1>3. F # {} => stream'[Max(F)].frame = stream[Max(F)].frame
  <2> SUFFICES ASSUME F # {} PROVE stream'[Max(F)].frame = stream[Max(F)].frame
    OBVIOUS
  <2>1. n \in Nat /\ F \in SUBSET (1 .. n)
    BY StreamLength
  <2> HIDE DEF F
  <2>2. Max(F) \in F
    BY <2>1, LastPlace
  <2> QED BY <2>1, <2>2
<1> HIDE DEF F
<1> QED BY <1>1, <1>2, <1>3 DEF View, F

-----------------------------------------------------------------------------
(* Type correctness *)

BoolsOK == /\ feed \in BOOLEAN /\ err \in BOOLEAN /\ quitting \in BOOLEAN
           /\ interrupted \in BOOLEAN /\ open \in BOOLEAN /\ reaped \in BOOLEAN

LabelsOK == /\ program \in {"running", "stopping", "closing", "exited"}
            /\ command \in {"starting", "reading", "waiting", "stopping", "message", "none"}
            /\ tail \in {"nothing", "frame", "batch", "error"}
            /\ status \in {"none", "running", "ended", "failed", "killed"}
            /\ exit \in {0, 1, 137}

DataOK == /\ shown \in [frame : 0 .. MaxFrames, events : Seq(Nat)]
          /\ Len(shown.events) <= EventLimit
          /\ message \in Message
          /\ command = "message" <=> message.kind # "none"
          /\ frames \in 0 .. MaxFrames
          /\ stream \in Seq(Entry) /\ got \in 0 .. Len(stream)

AskedOK == asked \subseteq {"q", "early q", "TERM", "INT", "KILL"}

\* TypeOK in parts.
LEMMA TypeParts ==
    /\ TypeOK <=> BoolsOK /\ LabelsOK /\ DataOK /\ AskedOK
    /\ TypeOK' <=> BoolsOK' /\ LabelsOK' /\ DataOK' /\ AskedOK'
BY Zenon DEF TypeOK, BoolsOK, LabelsOK, DataOK, AskedOK

\* A record that is appended, and one that is told.
LEMMA Messages ==
    /\ \A k \in {"none", "started", "not started", "failed", "done"} : Plain(k) \in Message
    /\ Plain("error") \in Entry /\ Entry \subseteq Message
    /\ \A n \in 0 .. MaxFrames : Frame(n) \in Entry
    /\ \A e \in Seq(Nat) : Batch(e) \in Entry
<1>1. << >> \in Seq(Nat) /\ 0 \in 0 .. MaxFrames
  BY EmptySeq, DashboardAssumption
<1> QED BY <1>1 DEF Message, Entry, Plain, Frame, Batch

\* What the child appends is a record.
LEMMA AppendTyped ==
    ASSUME TypeOK, ChildWrites
    PROVE  \E e \in Entry : /\ stream' = Append(stream, e)
                            /\ e.kind # "batch" => e.events = << >>
                            /\ e.kind = "error" => tail' = "error"
<1> USE DEF Feed!SendFrame, Feed!SendBatch, Feed!SendError
<1>1. CASE Feed!SendFrame /\ stream' = Append(stream, Frame(frames'))
  <2>1. frames \in 0 .. MaxFrames /\ frames < MaxFrames /\ frames' = frames + 1
    BY <1>1, TypeParts DEF DataOK
  <2>2. frames' \in 0 .. MaxFrames
    BY <2>1, DashboardAssumption
  <2> QED BY <1>1, <2>2, Messages DEF Frame
<1>2. CASE Feed!SendBatch /\ \E n \in 1 .. MaxBatch :
             stream' = Append(stream, Batch([i \in 1 .. n |-> Len(Written) + i]))
  <2>1. PICK n \in 1 .. MaxBatch :
               stream' = Append(stream, Batch([i \in 1 .. n |-> Len(Written) + i]))
    BY <1>2
  <2>2. Len(Written) \in Nat
    <3>1. Len(stream) \in Nat /\ DOMAIN stream = 1 .. Len(stream)
      BY StreamLength, LenProperties
    <3>2. Written = FlattenSeq(EventsOf(Len(stream)))
      BY <3>1 DEF Written, EventsOf
    <3>3. Written \in Seq(Nat)
      BY <3>1, <3>2, EventsTyped
    <3> QED BY <3>3, LenProperties
  <2>3. [i \in 1 .. n |-> Len(Written) + i] \in Seq(Nat)
    <3>1. n \in Nat
      OBVIOUS
    <3>2. [i \in 1 .. n |-> Len(Written) + i] \in [1 .. n -> Nat]
      BY <2>2
    <3> QED BY <3>1, <3>2, SeqDef
  <2> QED BY <2>1, <2>3, Messages DEF Batch
<1>3. CASE Feed!SendError /\ stream' = Append(stream, Plain("error"))
  BY <1>3, Messages DEF Plain
<1> QED BY <1>1, <1>2, <1>3 DEF ChildWrites

\* What a key does to the program and to its child.
LEMMA KeyEffect ==
    ASSUME Key
    PROVE  /\ program' \in {program, "stopping"} /\ status' \in {status, "killed"}
           /\ UNCHANGED << command, tail, exit >>
<1> USE DEF Key
<1>1. CASE feed
  BY <1>1, Zenon DEF QuitKey, Killed
<1>2. CASE ~feed
  BY <1>2, Zenon DEF QuitKey, QuitOnly
<1> QED BY <1>1, <1>2

\* Every step keeps every variable in its type.
LEMMA TypeStep == TypeOK /\ [Next]_vars => TypeOK'
<1> SUFFICES ASSUME TypeOK, [Next]_vars PROVE TypeOK'
  OBVIOUS
<1>0. BoolsOK /\ LabelsOK /\ DataOK /\ AskedOK
  BY TypeParts
<1>1. CASE ChildWrites
  <2>1. PICK e \in Entry : stream' = Append(stream, e)
    BY <1>1, AppendTyped
  <2>2. stream' \in Seq(Entry) /\ got \in 0 .. Len(stream')
    <3>1. Len(stream) \in Nat /\ stream' \in Seq(Entry) /\ Len(stream') = Len(stream) + 1
      BY <2>1, StreamLength, AppendProperties
    <3>2. got \in 0 .. Len(stream)
      BY <1>0 DEF DataOK
    <3> QED BY <3>1, <3>2
  <2>3. /\ frames \in 0 .. MaxFrames
        /\ frames' = frames \/ (frames < MaxFrames /\ frames' = frames + 1)
    BY <1>0, <1>1 DEF ChildWrites, DataOK, Feed!SendFrame, Feed!SendBatch, Feed!SendError
  <2>4. frames' \in 0 .. MaxFrames
    BY <2>3, DashboardAssumption
  <2>5. DataOK'
    BY <1>0, <1>1, <2>2, <2>4 DEF DataOK, ChildWrites, model
  <2>6. LabelsOK'
    BY <1>0, <1>1 DEF LabelsOK, ChildWrites, Feed!SendFrame, Feed!SendBatch, Feed!SendError
  <2>7. BoolsOK' /\ AskedOK'
    <3>1. UNCHANGED << feed, err, quitting, interrupted, open, reaped, asked >>
      BY <1>1 DEF ChildWrites, model
    <3> QED BY <1>0, <3>1, Zenon DEF BoolsOK, AskedOK
  <2> QED BY <2>5, <2>6, <2>7, TypeParts
<1>2. CASE ChildEnds
  <2> USE DEF ChildEnds, Feed!FeedFails, Feed!FeedEnds, model
  <2>1. BoolsOK'
    BY <1>0, <1>2 DEF BoolsOK
  <2>2. LabelsOK'
    BY <1>0, <1>2 DEF LabelsOK
  <2>3. DataOK'
    BY <1>0, <1>2 DEF DataOK
  <2>4. AskedOK'
    BY <1>0, <1>2 DEF AskedOK
  <2> QED BY <2>1, <2>2, <2>3, <2>4, TypeParts
<1>3. CASE ChildBreaks
  <2> USE DEF ChildBreaks, model
  <2>1. BoolsOK'
    BY <1>0, <1>3 DEF BoolsOK
  <2>2. LabelsOK'
    BY <1>0, <1>3 DEF LabelsOK
  <2>3. DataOK'
    BY <1>0, <1>3 DEF DataOK
  <2>4. AskedOK'
    BY <1>0, <1>3 DEF AskedOK
  <2> QED BY <2>1, <2>2, <2>3, <2>4, TypeParts
<1>4. CASE StartFeed
  <2> USE DEF StartFeed, Tell, Plain, model
  <2>1. BoolsOK'
    BY <1>0, <1>4 DEF BoolsOK
  <2>2. LabelsOK'
    BY <1>0, <1>4 DEF LabelsOK
  <2>3. DataOK'
    <3>1. /\ message' \in {Plain("started"), Plain("not started")} /\ command' = "message"
          /\ UNCHANGED << shown, frames, stream, got >>
      BY <1>4
    <3>2. message' \in Message /\ message'.kind # "none"
      <4>1. /\ Plain("started") \in Message /\ Plain("not started") \in Message
            /\ Plain("started").kind # "none" /\ Plain("not started").kind # "none"
        BY Messages
      <4> HIDE DEF Plain
      <4> QED BY <3>1, <4>1
    <3> QED BY <1>0, <3>1, <3>2 DEF DataOK
  <2>4. AskedOK'
    BY <1>0, <1>4 DEF AskedOK
  <2> QED BY <2>1, <2>2, <2>3, <2>4, TypeParts
<1>5. CASE StopFeed
  <2> USE DEF StopFeed, Tell, Plain, Killed, model
  <2>1. BoolsOK'
    BY <1>0, <1>5 DEF BoolsOK
  <2>2. LabelsOK'
    BY <1>0, <1>5 DEF LabelsOK
  <2>3. DataOK'
    BY <1>0, <1>5, Messages DEF DataOK
  <2>4. AskedOK'
    BY <1>0, <1>5 DEF AskedOK
  <2> QED BY <2>1, <2>2, <2>3, <2>4, TypeParts
<1>6. CASE WaitFeed
  <2> USE DEF WaitFeed, WaitResult, Tell, Plain, model, child
  <2>1. BoolsOK'
    BY <1>0, <1>6 DEF BoolsOK
  <2>2. LabelsOK'
    BY <1>0, <1>6 DEF LabelsOK
  <2>3. DataOK'
    BY <1>0, <1>6, Messages DEF DataOK
  <2>4. AskedOK'
    BY <1>0, <1>6 DEF AskedOK
  <2> QED BY <2>1, <2>2, <2>3, <2>4, TypeParts
<1>7. CASE Reap
  <2> USE DEF Reap, model, child
  <2>1. BoolsOK'
    BY <1>0, <1>7 DEF BoolsOK
  <2>2. LabelsOK'
    BY <1>0, <1>7 DEF LabelsOK
  <2>3. DataOK'
    BY <1>0, <1>7 DEF DataOK
  <2>4. AskedOK'
    BY <1>0, <1>7 DEF AskedOK
  <2> QED BY <2>1, <2>2, <2>3, <2>4, TypeParts
<1>8. CASE Started
  <2> USE DEF Started, Plain, child
  <2>1. BoolsOK'
    BY <1>0, <1>8 DEF BoolsOK
  <2>2. LabelsOK'
    BY <1>0, <1>8 DEF LabelsOK
  <2>3. DataOK'
    BY <1>0, <1>8, Messages DEF DataOK
  <2>4. AskedOK'
    BY <1>0, <1>8 DEF AskedOK
  <2> QED BY <2>1, <2>2, <2>3, <2>4, TypeParts
<1>9. CASE Exit
  <2> USE DEF Exit, model, child
  <2>1. BoolsOK'
    BY <1>0, <1>9 DEF BoolsOK
  <2>2. LabelsOK'
    BY <1>0, <1>9 DEF LabelsOK
  <2>3. DataOK'
    BY <1>0, <1>9 DEF DataOK
  <2>4. AskedOK'
    BY <1>0, <1>9 DEF AskedOK
  <2> QED BY <2>1, <2>2, <2>3, <2>4, TypeParts
<1>10. CASE Quit
  <2> USE DEF Quit, model, child
  <2>1. BoolsOK'
    BY <1>0, <1>10 DEF BoolsOK
  <2>2. LabelsOK'
    BY <1>0, <1>10 DEF LabelsOK
  <2>3. DataOK'
    BY <1>0, <1>10 DEF DataOK
  <2>4. AskedOK'
    BY <1>0, <1>10 DEF AskedOK
  <2> QED BY <2>1, <2>2, <2>3, <2>4, TypeParts
<1>11. CASE Signal
  <2> USE DEF Signal, model, child
  <2>1. BoolsOK'
    BY <1>0, <1>11 DEF BoolsOK
  <2>2. LabelsOK'
    BY <1>0, <1>11 DEF LabelsOK
  <2>3. DataOK'
    BY <1>0, <1>11 DEF DataOK
  <2>4. AskedOK'
    BY <1>0, <1>11 DEF AskedOK
  <2> QED BY <2>1, <2>2, <2>3, <2>4, TypeParts
<1>12. CASE Kill
  <2> USE DEF Kill, model, child
  <2>1. BoolsOK'
    BY <1>0, <1>12 DEF BoolsOK
  <2>2. LabelsOK'
    BY <1>0, <1>12 DEF LabelsOK
  <2>3. DataOK'
    BY <1>0, <1>12 DEF DataOK
  <2>4. AskedOK'
    BY <1>0, <1>12 DEF AskedOK
  <2> QED BY <2>1, <2>2, <2>3, <2>4, TypeParts
<1>13. CASE Key
  <2>1. BoolsOK'
    BY <1>0, <1>13 DEF BoolsOK, Key, QuitKey, QuitOnly, model
  <2>2. LabelsOK'
    BY <1>0, <1>13, KeyEffect DEF LabelsOK
  <2>3. DataOK'
    BY <1>0, <1>13 DEF DataOK, Key, model
  <2>4. AskedOK'
    BY <1>0, <1>13 DEF AskedOK, Key
  <2> QED BY <2>1, <2>2, <2>3, <2>4, TypeParts
<1>14. CASE Scan
  <2>1. BoolsOK'
    BY <1>0, <1>14 DEF BoolsOK, Scan, model
  <2>2. LabelsOK'
    BY <1>0, <1>14 DEF LabelsOK, Scan, Tell, child
  <2>3. AskedOK'
    BY <1>0, <1>14 DEF AskedOK, Scan
  <2>4. UNCHANGED << model, child >>
    BY <1>14 DEF Scan
  <2>5. DataOK'
    <3>1. CASE got < Len(stream) /\ got' = got + 1 /\ Tell(stream[got + 1])
      <4>1. got + 1 \in 1 .. Len(stream)
        BY <1>0, <3>1, StreamLength DEF DataOK
      <4>2. stream[got + 1] \in Entry
        BY <4>1, StreamLength, ElementOfSeq
      <4>3. got' \in 0 .. Len(stream)
        BY <3>1, <4>1, StreamLength
      <4>4. message' \in Message /\ command' = "message" /\ message'.kind # "none"
        BY <3>1, <4>2, Messages DEF Tell, Entry
      <4> QED BY <1>0, <2>4, <4>3, <4>4 DEF DataOK, model, child
    <3>2. CASE /\ command = "reading" /\ command' \in {"stopping", "waiting"}
               /\ UNCHANGED << got, message >>
      BY <1>0, <2>4, <3>2 DEF DataOK, model, child
    <3> QED BY <1>14, <3>1, <3>2 DEF Scan
  <2> QED BY <2>1, <2>2, <2>3, <2>5, TypeParts
<1>15. CASE Record
  <2>1. BoolsOK'
    BY <1>0, <1>15 DEF BoolsOK, Record
  <2>2. LabelsOK'
    BY <1>0, <1>15 DEF LabelsOK, Record, child
  <2>3. AskedOK'
    BY <1>0, <1>15 DEF AskedOK, Record
  <2>4. /\ shown' \in [frame : 0 .. MaxFrames, events : Seq(Nat)]
        /\ Len(shown'.events) <= EventLimit
    <3>1. CASE message.kind = "frame"
      <4>1. shown' = [shown EXCEPT !.frame = message.frame]
        BY <1>15, <3>1 DEF Record
      <4>2. message.frame \in 0 .. MaxFrames
        BY <1>0 DEF DataOK, Message
      <4> QED BY <1>0, <4>1, <4>2 DEF DataOK
    <3>2. CASE message.kind = "batch"
      <4> DEFINE s == shown.events \o message.events
      <4>1. s \in Seq(Nat)
        <5>1. shown.events \in Seq(Nat) /\ message.events \in Seq(Nat)
          BY <1>0 DEF DataOK, Message
        <5> QED BY <5>1, ConcatProperties
      <4>2. shown' = [shown EXCEPT !.events = LastOf(s)]
        BY <1>15, <3>2 DEF Record
      <4> HIDE DEF s
      <4>3. LastOf(s) \in Seq(Nat) /\ Len(LastOf(s)) <= EventLimit
        <5>1. Len(s) \in Nat /\ EventLimit \in Nat
          BY <4>1, LenProperties, DashboardAssumption
        <5>2. Len(LastOf(s)) = IF Len(s) > EventLimit THEN EventLimit ELSE Len(s)
          BY <4>1, LastOfType
        <5>3. LastOf(s) \in Seq(Nat)
          BY <4>1, LastOfType
        <5> QED BY <5>1, <5>2, <5>3
      <4>4. shown'.events = LastOf(s) /\ shown'.frame = shown.frame
            /\ shown' = [frame |-> shown.frame, events |-> LastOf(s)]
        BY <1>0, <4>2 DEF DataOK
      <4> QED BY <1>0, <4>3, <4>4 DEF DataOK
    <3>3. CASE message.kind \in {"error", "failed", "done"}
      BY <1>0, <1>15, <3>3 DEF Record, DataOK
    <3> QED BY <1>15, <3>1, <3>2, <3>3 DEF Record
  <2>5. /\ message' = Plain("none") /\ command' \in {"reading", "none"}
        /\ UNCHANGED << child, got >>
    BY <1>15 DEF Record
  <2>6. DataOK'
    BY <1>0, <2>4, <2>5, Messages DEF DataOK, child, Plain
  <2> QED BY <2>1, <2>2, <2>3, <2>6, TypeParts
<1>16. CASE UNCHANGED vars
  <2>1. BoolsOK' /\ AskedOK'
    BY <1>0, <1>16, Zenon DEF BoolsOK, AskedOK, vars
  <2>2. LabelsOK'
    BY <1>0, <1>16 DEF LabelsOK, vars
  <2>3. DataOK'
    BY <1>0, <1>16 DEF DataOK, vars
  <2> QED BY <2>1, <2>2, <2>3, TypeParts
<1> QED BY <1>1, <1>2, <1>3, <1>4, <1>5, <1>6, <1>7, <1>8, <1>9, <1>10,
          <1>11, <1>12, <1>13, <1>14, <1>15, <1>16 DEF Next, Command, Loop

\* The initial state is well typed.
LEMMA TypeInit == Init => TypeOK
<1> SUFFICES ASSUME Init PROVE TypeOK
  OBVIOUS
<1>1. BoolsOK /\ LabelsOK /\ AskedOK
  BY DEF Init, BoolsOK, LabelsOK, AskedOK
<1>2. DataOK
  <2>1. /\ << >> \in Seq(Nat) /\ << >> \in Seq(Entry) /\ Len(<< >>) = 0
        /\ 0 <= EventLimit /\ 0 \in 0 .. MaxFrames
    BY EmptySeq, DashboardAssumption
  <2>2. shown.events = << >> /\ shown \in [frame : 0 .. MaxFrames, events : Seq(Nat)]
    BY <2>1 DEF Init
  <2>3. Plain("none") \in Message /\ Plain("none").kind = "none"
    BY Messages DEF Plain
  <2>4. message \in Message /\ (command = "message" <=> message.kind # "none")
    BY <2>3 DEF Init
  <2>5. frames \in 0 .. MaxFrames /\ stream \in Seq(Entry) /\ got \in 0 .. Len(stream)
    BY <2>1 DEF Init
  <2>6. Len(shown.events) <= EventLimit
    BY <2>1, <2>2
  <2> QED BY <2>2, <2>4, <2>5, <2>6 DEF DataOK
<1> QED BY <1>1, <1>2, TypeParts

\* Every variable stays in its type, and no more events are shown than the limit.
THEOREM TypeCorrect == Spec => []TypeOK
BY TypeInit, TypeStep, PTL DEF Spec


-----------------------------------------------------------------------------
(* How the dashboard ends *)

\* What a command in progress, or its message, says of the child.
ChildKnown ==
    /\ command = "starting" => status = "none"
    /\ command = "waiting" => status # "running"
    /\ message.kind = "done" => status = "ended"
    /\ message.kind \in {"not started", "failed"} => status # "running"
    /\ message.kind = "error" => tail = "error"
    /\ \A i \in DOMAIN stream : stream[i].kind = "error" => tail = "error"

\* A q that found the feed has stopped the child, and no other is started.
QStopped ==
    /\ command = "starting" => ~feed
    /\ "q" \in asked => feed /\ status # "running"
    /\ program = "stopping" => "q" \in asked

\* A quit was asked for, or has a reason that is shown, unless the child ended well.
QuitReason == quitting => asked # {} \/ err \/ status = "ended"

\* A quit leaves the child running only for the reasons ChildStoppedAtExit has.
QuitStops ==
    quitting => \/ asked \cap {"TERM", "INT", "KILL", "early q"} # {}
                \/ tail = "error"
                \/ command # "starting" /\ status # "running"

\* The program ends by a quit or a kill.
EndsByQuit ==
    /\ program = "closing" => quitting
    /\ program = "exited" => quitting \/ "KILL" \in asked

EndInv == TypeOK /\ ChildKnown /\ QStopped /\ QuitReason /\ QuitStops /\ EndsByQuit

\* Once a q has found the feed its child runs no more.
LEMMA QStoppedStep ==
    ASSUME QStopped, [Next]_vars
    PROVE  QStopped'
<1>1. CASE ChildWrites \/ ChildEnds \/ ChildBreaks
  BY <1>1 DEF QStopped, ChildWrites, Feed!SendFrame, Feed!SendBatch, Feed!SendError, model,
              ChildEnds, Feed!FeedFails, Feed!FeedEnds, ChildBreaks
<1>2. CASE StartFeed \/ Scan \/ StopFeed \/ WaitFeed
  BY <1>2 DEF QStopped, StartFeed, Tell, Plain, model, Scan, child, StopFeed, Killed,
              WaitFeed, WaitResult
<1>3. CASE Key
  BY <1>3 DEF QStopped, Key, QuitKey, QuitOnly, Killed, model
<1>4. CASE Reap
  BY <1>4 DEF QStopped, Reap, model, child
<1>5. CASE Started \/ Record
  BY <1>5 DEF QStopped, Started, Plain, child, Record
<1>6. CASE Exit \/ Quit \/ Signal
  BY <1>6 DEF QStopped, Exit, model, child, Quit, Signal
<1>7. CASE Kill
  BY <1>7 DEF QStopped, Kill, model, child
<1>8. CASE UNCHANGED vars
  BY <1>8 DEF QStopped, vars
<1> QED BY <1>1, <1>2, <1>3, <1>4, <1>5, <1>6, <1>7, <1>8 DEF Next, Command, Loop

\* Each step keeps QuitReason.
LEMMA QuitReasonStep ==
    ASSUME LabelsOK, ChildKnown, QStopped, QuitReason, [Next]_vars
    PROVE  QuitReason'
<1>1. CASE ChildWrites \/ ChildEnds \/ ChildBreaks
  BY <1>1 DEF LabelsOK, ChildKnown, QStopped, QuitReason, ChildWrites, Feed!SendFrame,
              Feed!SendBatch, Feed!SendError, model, ChildEnds, Feed!FeedFails,
              Feed!FeedEnds, ChildBreaks
<1>2. CASE StartFeed \/ Scan \/ StopFeed \/ WaitFeed
  BY <1>2 DEF LabelsOK, ChildKnown, QStopped, QuitReason, StartFeed, Tell, Plain, model,
              Scan, child, StopFeed, Killed, WaitFeed, WaitResult
<1>3. CASE Key
  BY <1>3 DEF LabelsOK, ChildKnown, QStopped, QuitReason, Key, QuitKey, QuitOnly, Killed,
              model
<1>4. CASE Reap
  BY <1>4 DEF LabelsOK, ChildKnown, QStopped, QuitReason, Reap, model, child
<1>5. CASE Started \/ Record
  BY <1>5 DEF LabelsOK, ChildKnown, QStopped, QuitReason, Started, Plain, child, Record
<1>6. CASE Exit \/ Quit \/ Signal \/ Kill \/ UNCHANGED vars
  BY <1>6 DEF LabelsOK, ChildKnown, QStopped, QuitReason, Exit, model, child, Quit, Signal,
              Kill, vars
<1> QED BY <1>1, <1>2, <1>3, <1>4, <1>5, <1>6 DEF Next, Command, Loop

\* Each step keeps QuitStops.
LEMMA QuitStopsStep ==
    ASSUME QStopped, ChildKnown, QuitStops, [Next]_vars
    PROVE  QuitStops'
<1>1. CASE ChildWrites \/ ChildEnds \/ ChildBreaks
  BY <1>1 DEF QStopped, ChildKnown, QuitStops, ChildWrites, Feed!SendFrame, Feed!SendBatch,
              Feed!SendError, model, ChildEnds, Feed!FeedFails, Feed!FeedEnds, ChildBreaks
<1>2. CASE StartFeed \/ Scan \/ StopFeed \/ WaitFeed
  BY <1>2 DEF QStopped, ChildKnown, QuitStops, StartFeed, Tell, Plain, model, Scan, child,
              StopFeed, Killed, WaitFeed, WaitResult
<1>3. CASE Key \/ Reap
  BY <1>3 DEF QStopped, ChildKnown, QuitStops, Key, QuitKey, QuitOnly, Killed, model, Reap,
              child
<1>4. CASE Started \/ Record
  BY <1>4 DEF QStopped, ChildKnown, QuitStops, Started, Plain, child, Record
<1>5. CASE Exit \/ Quit \/ Signal \/ Kill \/ UNCHANGED vars
  BY <1>5 DEF QStopped, ChildKnown, QuitStops, Exit, model, child, Quit, Signal, Kill, vars
<1> QED BY <1>1, <1>2, <1>3, <1>4, <1>5 DEF Next, Command, Loop

\* Each step keeps EndsByQuit.
LEMMA EndsByQuitStep ==
    ASSUME EndsByQuit, [Next]_vars
    PROVE  EndsByQuit'
<1>1. CASE ChildWrites \/ ChildEnds \/ ChildBreaks
  BY <1>1 DEF EndsByQuit, ChildWrites, Feed!SendFrame, Feed!SendBatch, Feed!SendError,
              model, ChildEnds, Feed!FeedFails, Feed!FeedEnds, ChildBreaks
<1>2. CASE StartFeed \/ Scan \/ StopFeed \/ WaitFeed
  BY <1>2 DEF EndsByQuit, StartFeed, Tell, Plain, model, Scan, child, StopFeed, Killed,
              WaitFeed, WaitResult
<1>3. CASE Key \/ Reap
  BY <1>3 DEF EndsByQuit, Key, QuitKey, QuitOnly, Killed, model, Reap, child
<1>4. CASE Started \/ Record
  BY <1>4 DEF EndsByQuit, Started, Plain, child, Record
<1>5. CASE Exit \/ Quit \/ Signal \/ Kill \/ UNCHANGED vars
  BY <1>5 DEF EndsByQuit, Exit, model, child, Quit, Signal, Kill, vars
<1> QED BY <1>1, <1>2, <1>3, <1>4, <1>5 DEF Next, Command, Loop

\* Each step keeps ChildKnown.
LEMMA ChildKnownStep ==
    ASSUME TypeOK, ChildKnown, [Next]_vars
    PROVE  ChildKnown'
<1>1. CASE ChildWrites
  <2>1. PICK e \in Entry : /\ stream' = Append(stream, e)
                           /\ e.kind = "error" => tail' = "error"
    BY <1>1, TypeParts, AppendTyped
  <2>2. UNCHANGED << command, message, status >> /\ tail # "error"
    BY <1>1 DEF ChildWrites, Feed!SendFrame, Feed!SendBatch, Feed!SendError
  <2>3. ASSUME NEW i \in DOMAIN stream', stream'[i].kind = "error" PROVE tail' = "error"
    <3>1. /\ DOMAIN stream' = 1 .. Len(stream) + 1 /\ stream'[Len(stream) + 1] = e
          /\ DOMAIN stream = 1 .. Len(stream) /\ Len(stream) \in Nat
          /\ \A j \in 1 .. Len(stream) : stream'[j] = stream[j]
      <4>1. /\ stream' \in Seq(Entry) /\ Len(stream') = Len(stream) + 1
            /\ stream'[Len(stream) + 1] = e
            /\ \A j \in 1 .. Len(stream) : stream'[j] = stream[j]
        BY <2>1, StreamLength, AppendProperties
      <4> QED BY <4>1, StreamLength, LenProperties
    <3>2. CASE i = Len(stream) + 1
      BY <2>1, <2>3, <3>1, <3>2
    <3>3. CASE i \in 1 .. Len(stream)
      BY <2>2, <2>3, <3>1, <3>3 DEF ChildKnown
    <3> QED BY <3>1, <3>2, <3>3
  <2>4. message.kind = "error" => tail' = "error"
    BY <2>2 DEF ChildKnown
  <2> QED BY <2>2, <2>3, <2>4 DEF ChildKnown
<1>2. CASE ChildEnds \/ ChildBreaks
  BY <1>2 DEF ChildKnown, ChildEnds, Feed!FeedFails, Feed!FeedEnds, model, ChildBreaks
<1>3. CASE StartFeed
  <2>1. UNCHANGED << tail, stream >> /\ command' = "message" /\ status = "none"
    BY <1>3 DEF StartFeed, Tell, ChildKnown
  <2>2. \/ message'.kind = "started"
        \/ message'.kind = "not started" /\ status' = status
    <3>1. \/ message' = Plain("started")
          \/ message' = Plain("not started") /\ status' = status
      BY <1>3 DEF StartFeed, Tell
    <3>2. Plain("started").kind = "started" /\ Plain("not started").kind = "not started"
      BY DEF Plain
    <3> QED BY <3>1, <3>2
  <2> QED BY <2>1, <2>2 DEF ChildKnown
<1>4. CASE Scan
  <2>1. /\ UNCHANGED << frames, tail, status, stream >> /\ command = "reading"
        /\ command' \in {"message", "stopping", "waiting"}
        /\ command' = "waiting" => status # "running"
    BY <1>4 DEF Scan, Tell, child
  <2>2. CASE got < Len(stream) /\ Tell(stream[got + 1])
    <3>1. got + 1 \in 1 .. Len(stream) /\ DOMAIN stream = 1 .. Len(stream)
      BY <2>2, TypeParts, StreamLength, LenProperties DEF DataOK
    <3>2. message' \in Entry /\ (message'.kind = "error" => tail = "error")
      BY <2>2, <3>1, StreamLength, ElementOfSeq DEF Tell, ChildKnown
    <3>3. message'.kind \in {"frame", "batch", "error"}
      BY <3>2 DEF Entry
    <3> QED BY <2>1, <3>2, <3>3 DEF ChildKnown
  <2>3. CASE message' = message
    BY <2>1, <2>3 DEF ChildKnown
  <2> QED BY <1>4, <2>2, <2>3 DEF Scan
<1>5. CASE StopFeed
  BY <1>5 DEF ChildKnown, StopFeed, Tell, Plain, Killed, model
<1>6. CASE WaitFeed
  BY <1>6 DEF ChildKnown, WaitFeed, WaitResult, Tell, Plain, model, child
<1>7. CASE Key
  BY <1>7 DEF ChildKnown, Key, QuitKey, QuitOnly, Killed, model
<1>8. CASE Reap
  BY <1>8 DEF ChildKnown, Reap, model, child
<1>9. CASE Started \/ Record
  <2>1. /\ UNCHANGED << tail, status, stream >> /\ command' \in {"reading", "none"}
        /\ message' = Plain("none")
    <3>1. CASE Started
      BY <3>1 DEF Started, child
    <3>2. CASE Record
      BY <3>2 DEF Record, child
    <3> QED BY <1>9, <3>1, <3>2
  <2>2. message'.kind = "none"
    BY <2>1 DEF Plain
  <2> QED BY <2>1, <2>2 DEF ChildKnown
<1>10. CASE Exit \/ Quit \/ Signal \/ Kill \/ UNCHANGED vars
  BY <1>10 DEF ChildKnown, Exit, model, child, Quit, Signal, Kill, vars
<1> QED BY <1>1, <1>2, <1>3, <1>4, <1>5, <1>6, <1>7, <1>8, <1>9, <1>10 DEF Next, Command, Loop

\* The invariant of the end holds at first.
LEMMA EndInit == Init => EndInv
<1> SUFFICES ASSUME Init PROVE EndInv
  OBVIOUS
<1>1. DOMAIN stream = {}
  <2>1. stream = << >> /\ << >> \in Seq(Nat) /\ Len(<< >>) = 0
    BY EmptySeq DEF Init
  <2>2. DOMAIN << >> = 1 .. 0
    BY <2>1, LenProperties
  <2> QED BY <2>1, <2>2
<1>2. command = "starting" /\ status = "none" /\ message.kind = "none" /\ asked = {}
  BY DEF Init, Plain
<1>3. ~feed /\ ~quitting /\ program = "running"
  BY DEF Init
<1>4. ChildKnown
  BY <1>1, <1>2 DEF ChildKnown
<1>5. QStopped /\ QuitReason /\ QuitStops /\ EndsByQuit
  BY <1>2, <1>3 DEF QStopped, QuitReason, QuitStops, EndsByQuit
<1> QED BY <1>4, <1>5, TypeInit DEF EndInv

\* Each step keeps it.
LEMMA EndStep == EndInv /\ [Next]_vars => EndInv'
<1> SUFFICES ASSUME EndInv, [Next]_vars PROVE EndInv'
  OBVIOUS
<1> USE DEF EndInv
<1>1. TypeOK' /\ LabelsOK
  BY TypeStep, TypeParts
<1>2. ChildKnown' /\ QStopped' /\ EndsByQuit'
  BY ChildKnownStep, QStoppedStep, EndsByQuitStep
<1>3. QuitReason' /\ QuitStops'
  BY <1>1, QuitReasonStep, QuitStopsStep
<1> QED BY <1>1, <1>2, <1>3

\* A dashboard that nobody ended has an error to show, or its child ended well.
THEOREM EndHasReason == Spec => []EndsForAReason
<1>1. EndInv => EndsForAReason
  BY DEF EndInv, EndsForAReason, EndsByQuit, QuitReason
<1> QED BY <1>1, EndInit, EndStep, PTL DEF Spec

\* Which dashboards can leave their child running; none of those that a q has told to stop it.
THEOREM ChildStopped == Spec => []ChildStoppedAtExit
<1>1. EndInv => ChildStoppedAtExit
  BY DEF EndInv, ChildStoppedAtExit, EndsByQuit, QuitStops, QStopped
<1> QED BY <1>1, EndInit, EndStep, PTL DEF Spec

-----------------------------------------------------------------------------
(* What is shown is a prefix of what was written *)

\* A record of the child is on its way to the model.
Pending == command = "message" /\ message.kind \in {"frame", "batch", "error"}

\* The model shows all that was scanned, but for a record on its way and, once no
\* command is left, an error that ended the feed.
ShownUpTo(n) ==
    /\ shown = View(n) /\ n >= got - 1
    /\ Pending => n = got - 1 /\ message = stream[got]
    /\ ~Pending /\ command # "none" => n = got

OnlyBatchesHaveEvents ==
    \A i \in 1 .. Len(stream) : stream[i].kind # "batch" => stream[i].events = << >>

ViewInv == TypeOK /\ OnlyBatchesHaveEvents /\ \E n \in 0 .. got : ShownUpTo(n)

\* Events that fit are all shown.
LEMMA LastOfShort ==
    ASSUME NEW s \in Seq(Nat), Len(s) <= EventLimit
    PROVE  LastOf(s \o << >>) = s
<1>1. s \o << >> = s
  BY ConcatEmptySeq
<1>2. /\ LastOf(s) \in Seq(Nat)
      /\ Len(LastOf(s)) = IF Len(s) > EventLimit THEN EventLimit ELSE Len(s)
      /\ \A i \in 1 .. Len(LastOf(s)) : LastOf(s)[i] = s[Len(s) - Len(LastOf(s)) + i]
  BY LastOfType
<1>3. Len(s) \in Nat /\ EventLimit \in Nat
  BY LenProperties, DashboardAssumption
<1>4. Len(LastOf(s)) = Len(s)
  BY <1>2, <1>3
<1>5. \A i \in 1 .. Len(s) : LastOf(s)[i] = s[i]
  <2> TAKE i \in 1 .. Len(s)
  <2>1. Len(s) - Len(s) + i = i
    BY <1>3
  <2> QED BY <1>2, <1>4, <2>1
<1> QED BY <1>1, <1>2, <1>4, <1>5, SeqEqual

\* Update turns what the first records show into what one more shows.
LEMMA RecordShows ==
    ASSUME TypeOK, OnlyBatchesHaveEvents, Record, NEW n \in Nat, n + 1 \in 1 .. Len(stream),
           shown = View(n), message = stream[n + 1], message.kind \in {"frame", "batch"}
    PROVE  shown' = View(n + 1)
<1>1. shown \in [frame : 0 .. MaxFrames, events : Seq(Nat)] /\ Len(shown.events) <= EventLimit
  BY TypeParts DEF DataOK
<1>2. View(n + 1) =
        [frame |-> IF message.kind = "frame" THEN message.frame ELSE shown.frame,
         events |-> LastOf(shown.events \o message.events)]
  BY ViewStep
<1>3. CASE message.kind = "frame"
  <2>1. shown' = [shown EXCEPT !.frame = message.frame]
    BY <1>3 DEF Record
  <2>2. shown' = [frame |-> message.frame, events |-> shown.events]
    BY <1>1, <2>1
  <2>3. message.events = << >>
    BY <1>3 DEF OnlyBatchesHaveEvents
  <2>4. LastOf(shown.events \o << >>) = shown.events
    BY <1>1, LastOfShort
  <2> QED BY <1>2, <1>3, <2>2, <2>3, <2>4
<1>4. CASE message.kind = "batch"
  <2>1. shown' = [shown EXCEPT !.events = LastOf(@ \o message.events)]
    BY <1>4 DEF Record
  <2>2. shown' = [frame |-> shown.frame, events |-> LastOf(shown.events \o message.events)]
    BY <1>1, <2>1
  <2> QED BY <1>2, <1>4, <2>2
<1> QED BY <1>3, <1>4

\* The child numbers no events but those of a batch.
LEMMA EventsStep ==
    ASSUME TypeOK, OnlyBatchesHaveEvents, [Next]_vars
    PROVE  /\ OnlyBatchesHaveEvents'
           /\ Len(stream) <= Len(stream')
           /\ \A i \in 1 .. Len(stream) : stream'[i] = stream[i]
<1>1. CASE ChildWrites
  <2>1. PICK e \in Entry : /\ stream' = Append(stream, e)
                           /\ e.kind # "batch" => e.events = << >>
    BY <1>1, AppendTyped
  <2>2. /\ Len(stream') = Len(stream) + 1 /\ Len(stream) \in Nat
        /\ stream'[Len(stream) + 1] = e
        /\ \A j \in 1 .. Len(stream) : stream'[j] = stream[j]
    BY <2>1, StreamLength, AppendProperties
  <2>3. ASSUME NEW i \in 1 .. Len(stream'), stream'[i].kind # "batch"
        PROVE  stream'[i].events = << >>
    <3>1. i \in 1 .. Len(stream) \/ i = Len(stream) + 1
      BY <2>2
    <3>2. CASE i \in 1 .. Len(stream)
      BY <2>2, <2>3, <3>2 DEF OnlyBatchesHaveEvents
    <3>3. CASE i = Len(stream) + 1
      BY <2>1, <2>2, <2>3, <3>3
    <3> QED BY <3>1, <3>2, <3>3
  <2>4. Len(stream) <= Len(stream')
    BY <2>2
  <2> QED BY <2>2, <2>3, <2>4 DEF OnlyBatchesHaveEvents
<1>2. CASE stream' = stream
  BY <1>2, StreamLength DEF OnlyBatchesHaveEvents
<1>3. ChildWrites \/ stream' = stream
  BY DEF Next, Command, Loop, ChildEnds, ChildBreaks, StartFeed, Scan, StopFeed, WaitFeed, Key,
         Reap, Started, Record, Exit, Quit, Signal, Kill, child, vars
<1> QED BY <1>1, <1>2, <1>3

\* Each step shows what it should.
LEMMA ViewInvStep == ViewInv /\ [Next]_vars => ViewInv'
<1> SUFFICES ASSUME ViewInv, [Next]_vars PROVE ViewInv'
  OBVIOUS
<1>1. TypeOK /\ TypeOK' /\ OnlyBatchesHaveEvents /\ OnlyBatchesHaveEvents'
  BY TypeStep, EventsStep DEF ViewInv
<1>2. PICK n \in 0 .. got : ShownUpTo(n)
  BY DEF ViewInv
<1>3. /\ got \in 0 .. Len(stream) /\ got' \in 0 .. Len(stream') /\ Len(stream) \in Nat
      /\ Len(stream') \in Nat /\ n \in 0 .. Len(stream)
  <2>1. got \in 0 .. Len(stream) /\ got' \in 0 .. Len(stream')
    BY <1>1, TypeParts DEF DataOK
  <2>2. Len(stream) \in Nat /\ Len(stream') \in Nat
    <3>1. stream' \in Seq(Entry)
      BY <1>1, TypeParts DEF DataOK
    <3> QED BY <1>1, <3>1, StreamLength, LenProperties
  <2> QED BY <2>1, <2>2
<1>4. \A i \in 1 .. Len(stream) : stream'[i] = stream[i]
  BY <1>1, EventsStep
<1>5. \A k \in 0 .. Len(stream) : View(k)' = View(k)
  <2> TAKE k \in 0 .. Len(stream)
  <2>1. \A i \in 1 .. k : stream'[i] = stream[i]
    BY <1>3, <1>4
  <2> QED BY <1>1, <2>1, ViewStays
<1>6. SUFFICES \E k \in 0 .. got' : ShownUpTo(k)'
  BY <1>1 DEF ViewInv
<1>7. CASE Scan
  <2>1. n = got /\ shown' = View(n) /\ command = "reading"
    BY <1>2, <1>7 DEF Scan, ShownUpTo, Pending, model
  <2>2. CASE got < Len(stream) /\ got' = got + 1 /\ Tell(stream[got + 1])
    <3>1. stream' = stream /\ message' = stream'[got']
      BY <1>7, <2>2 DEF Scan, Tell, child
    <3>2. n \in 0 .. got' /\ n = got' - 1
      BY <1>3, <2>1, <2>2
    <3>3. Pending'
      <4>1. got + 1 \in 1 .. Len(stream)
        BY <1>3, <2>2
      <4>2. stream[got + 1] \in Entry
        BY <1>1, <4>1, StreamLength, ElementOfSeq
      <4> QED BY <2>2, <4>2 DEF Pending, Entry, Tell
    <3>4. ShownUpTo(n)'
      <4>1. shown' = View(n)'
        <5>1. n \in 0 .. Len(stream) /\ View(n)' = View(n)
          BY <1>3, <1>5, <2>1
        <5>2. shown' = shown
          BY <1>7 DEF Scan, model
        <5> QED BY <2>1, <5>1, <5>2
      <4> QED BY <3>1, <3>2, <3>3, <4>1 DEF ShownUpTo
    <3> QED BY <3>2, <3>4
  <2>3. CASE command' \in {"stopping", "waiting"} /\ got' = got
    <3>1. ShownUpTo(n)'
      BY <1>3, <1>5, <2>1, <2>3 DEF ShownUpTo, Pending
    <3> QED BY <2>3, <3>1
  <2> QED BY <1>7, <2>2, <2>3 DEF Scan
<1>8. CASE Record
  <2>1. /\ UNCHANGED << got, stream >> /\ command = "message"
        /\ message' = Plain("none") /\ command' \in {"reading", "none"}
    BY <1>8 DEF Record, child
  <2>2. ~Pending'
    BY <2>1 DEF Pending
  <2>3. CASE message.kind \in {"frame", "batch"}
    <3>1. n = got - 1 /\ message = stream[got] /\ shown = View(n) /\ command' = "reading"
      BY <1>2, <1>8, <2>1, <2>3 DEF ShownUpTo, Pending, Record
    <3>2. n \in Nat /\ n + 1 = got /\ n + 1 \in 1 .. Len(stream)
      BY <1>3, <3>1
    <3>3. shown' = View(n + 1)
      BY <1>1, <1>8, <2>3, <3>1, <3>2, RecordShows
    <3>4. PICK k \in 0 .. Len(stream) : k = got
      BY <1>3
    <3>5. shown' = View(k)'
      BY <1>5, <3>2, <3>3, <3>4
    <3>6. ShownUpTo(k)'
      BY <1>3, <2>1, <2>2, <3>4, <3>5 DEF ShownUpTo
    <3> QED BY <1>3, <2>1, <3>4, <3>6
  <2>4. CASE message.kind = "error"
    <3>1. n = got - 1 /\ shown' = View(n) /\ command' = "none"
      BY <1>2, <1>8, <2>1, <2>4 DEF ShownUpTo, Pending, Record
    <3>2. ShownUpTo(n)'
      BY <1>3, <1>5, <2>1, <2>2, <3>1 DEF ShownUpTo
    <3> QED BY <2>1, <3>2
  <2>5. CASE message.kind \in {"failed", "done"}
    <3>1. n = got /\ shown' = View(n) /\ command' = "none"
      BY <1>2, <1>8, <2>1, <2>5 DEF ShownUpTo, Pending, Record
    <3>2. ShownUpTo(n)'
      BY <1>3, <1>5, <2>1, <2>2, <3>1 DEF ShownUpTo
    <3> QED BY <2>1, <3>2
  <2> QED BY <1>8, <2>3, <2>4, <2>5 DEF Record
<1>9. CASE StartFeed \/ StopFeed \/ WaitFeed \/ Started
  <2>1. shown' = shown /\ got' = got /\ ~Pending /\ command # "none"
    BY <1>9 DEF StartFeed, StopFeed, WaitFeed, Started, Pending, model
  <2>2. ~Pending'
    <3>1. CASE Started
      BY <3>1 DEF Started, Pending
    <3>2. CASE StartFeed \/ StopFeed \/ WaitFeed
      <4>1. PICK k \in {"started", "not started", "failed", "done"} : message' = Plain(k)
        BY <3>2 DEF StartFeed, StopFeed, WaitFeed, WaitResult, Tell
      <4>2. message'.kind = k
        <5>1. Plain(k).kind = k
          BY DEF Plain
        <5> QED BY <4>1, <5>1
      <4> QED BY <4>2 DEF Pending
    <3> QED BY <1>9, <3>1, <3>2
  <2>3. n = got /\ shown' = View(n)
    BY <1>2, <2>1 DEF ShownUpTo
  <2>4. ShownUpTo(n)'
    BY <1>3, <1>5, <2>1, <2>2, <2>3 DEF ShownUpTo
  <2> QED BY <2>1, <2>4
<1>10. CASE UNCHANGED << command, message, shown, got >>
  <2>1. Pending => got \in 1 .. Len(stream)
    BY <1>2, <1>3 DEF ShownUpTo
  <2>2. Pending => stream'[got] = stream[got]
    BY <1>4, <2>1
  <2>3. ShownUpTo(n)'
    BY <1>2, <1>3, <1>5, <1>10, <2>2 DEF ShownUpTo, Pending
  <2> QED BY <1>10, <2>3
<1>11. \/ Scan \/ Record \/ StartFeed \/ StopFeed \/ WaitFeed \/ Started
       \/ UNCHANGED << command, message, shown, got >>
  BY DEF Next, Command, Loop, ChildWrites, ChildEnds, ChildBreaks, Key, Reap, Exit, Quit,
         Signal, Kill, model, vars
<1> QED BY <1>7, <1>8, <1>9, <1>10, <1>11

\* Nothing is shown, and nothing written, at first.
LEMMA ViewInit == Init => ViewInv
<1> SUFFICES ASSUME Init PROVE ViewInv
  OBVIOUS
<1>1. shown = View(0) /\ got = 0 /\ command = "starting"
  BY ViewEmpty DEF Init
<1>2. ShownUpTo(0)
  BY <1>1 DEF ShownUpTo, Pending
<1>3. OnlyBatchesHaveEvents
  <2>1. Len(stream) = 0
    BY EmptySeq DEF Init
  <2> QED BY <2>1 DEF OnlyBatchesHaveEvents
<1> QED BY <1>1, <1>2, <1>3, TypeInit DEF ViewInv

\* No record is lost, shown twice or out of order, for any number of frames and events.
THEOREM ViewIsPrefix == Spec => []ViewIsStreamPrefix
<1>1. ViewInv => ViewIsStreamPrefix
  BY DEF ViewInv, ShownUpTo, ViewIsStreamPrefix
<1> QED BY <1>1, ViewInit, ViewInvStep, PTL DEF Spec
=============================================================================
