---------------------------- MODULE SurveyProofs ----------------------------
(***************************************************************************)
(* Proofs about Survey for any backends, names, tasks and configurations,  *)
(* and any number of frames and of changes of the world.                   *)
(***************************************************************************)
EXTENDS Survey, ChangeProofs, WellFoundedInduction

-----------------------------------------------------------------------------
(* Induction over the natural numbers, stated of sets *)

\* Every nonempty set of natural numbers has a least element.
LEMMA LeastNatural ==
    ASSUME NEW S \in SUBSET Nat, S # {}
    PROVE  \E x \in S : \A y \in S : x <= y
<1> DEFINE R == OpToRel(<, Nat)
<1>1. IsWellFoundedOn(R, Nat)
  BY NatLessThanWellFounded
<1>2. R = { ss \in Nat \X Nat : ss[1] < ss[2] }
  BY DEF OpToRel
<1> HIDE DEF R
<1>3. PICK x \in S : \A y \in S : << y, x >> \notin R
  BY <1>1, WFMin
<1>4. \A y \in S : << y, x >> \in R <=> y < x
  <2> TAKE y \in S
  <2>1. << y, x >> \in Nat \X Nat
    OBVIOUS
  <2> QED BY <1>2, <2>1
<1>5. \A y \in S : ~(y < x)
  BY <1>3, <1>4
<1> QED BY <1>5

\* A set that holds 0 and the successor of each number it holds, holds all.
LEMMA NaturalInduction ==
    ASSUME NEW S, 0 \in S, \A n \in Nat : n \in S => n + 1 \in S
    PROVE  Nat \subseteq S
<1> SUFFICES ASSUME Nat \ S # {} PROVE FALSE
  OBVIOUS
<1>1. PICK x \in Nat \ S : \A y \in Nat \ S : x <= y
  <2>1. Nat \ S \in SUBSET Nat
    OBVIOUS
  <2> QED BY <2>1, LeastNatural
<1>2. x - 1 \in Nat /\ x - 1 \in S
  BY <1>1
<1>3. (x - 1) + 1 \in S
  BY <1>2
<1> QED BY <1>1, <1>3

-----------------------------------------------------------------------------
(* What FlattenSeq computes *)

\* The function that FlattenSeq recurs by.
Flattens(f, seqs) ==
    f = [i \in 1 .. Len(seqs) |-> IF i = 1 THEN seqs[i] ELSE f[i - 1] \o seqs[i]]

\* What FlattenSeq computes.
LEMMA FlattenSeqIs ==
    ASSUME NEW S, NEW seqs \in Seq(Seq(S)), seqs # << >>
    PROVE  FlattenSeq(seqs) = (CHOOSE f : Flattens(f, seqs))[Len(seqs)]
BY DEF FlattenSeq, Flattens

\* Its value at each place.
LEMMA FlattensAt ==
    ASSUME NEW f, NEW seqs, Flattens(f, seqs), NEW i \in 1 .. Len(seqs)
    PROVE  f[i] = IF i = 1 THEN seqs[i] ELSE f[i - 1] \o seqs[i]
<1> DEFINE h == [k \in 1 .. Len(seqs) |-> IF k = 1 THEN seqs[k] ELSE f[k - 1] \o seqs[k]]
<1>1. f = h
  BY DEF Flattens
<1>2. h[i] = IF i = 1 THEN seqs[i] ELSE f[i - 1] \o seqs[i]
  OBVIOUS
<1> HIDE DEF h
<1> QED BY <1>1, <1>2

\* There is one.
LEMMA FlattensExists ==
    ASSUME NEW S, NEW seqs \in Seq(Seq(S))
    PROVE  \E f : Flattens(f, seqs)
<1> DEFINE body(f, i) == IF i = 1 THEN seqs[i] ELSE f[i - 1] \o seqs[i]
           N == { n \in Nat : \E f : f = [i \in 1 .. n |-> body(f, i)] }
<1>1. 0 \in N
  <2> DEFINE f == [i \in 1 .. 0 |-> << >>]
  <2>1. f = [i \in 1 .. 0 |-> body(f, i)]
    OBVIOUS
  <2> QED BY <2>1
<1>2. ASSUME NEW n \in N PROVE n + 1 \in N
  <2>1. PICK f : f = [i \in 1 .. n |-> body(f, i)]
    OBVIOUS
  <2> DEFINE g == [i \in 1 .. n + 1 |-> IF i = n + 1 THEN body(f, i) ELSE f[i]]
  <2>2. \A i \in 1 .. n + 1 : g[i] = body(g, i)
    <3> TAKE i \in 1 .. n + 1
    <3>1. n \in Nat
      OBVIOUS
    <3>2. body(g, i) = body(f, i)
      <4>1. i = 1 \/ (i - 1 \in 1 .. n /\ g[i - 1] = f[i - 1])
        BY <3>1
      <4> HIDE DEF g
      <4> QED BY <4>1
    <3>3. g[i] = body(f, i)
      <4>1. i \in 1 .. n => f[i] = body(f, i)
        BY <2>1
      <4> HIDE DEF body
      <4> QED BY <3>1, <4>1
    <3> QED BY <3>2, <3>3
  <2>3. g = [i \in 1 .. n + 1 |-> body(g, i)]
    <3>1. g = [i \in 1 .. n + 1 |-> g[i]]
      OBVIOUS
    <3> HIDE DEF g
    <3> QED BY <2>2, <3>1
  <2> HIDE DEF g, body
  <2>4. n + 1 \in Nat
    OBVIOUS
  <2> QED BY <2>3, <2>4, Zenon
<1> HIDE DEF N
<1>3. Nat \subseteq N
  BY <1>1, <1>2, NaturalInduction
<1> QED BY <1>3, LenProperties DEF N, Flattens

\* What is in a sequence is in its flattening, which holds nothing else.
LEMMA FlattenHolds ==
    ASSUME NEW S, NEW seqs \in Seq(Seq(S))
    PROVE  /\ FlattenSeq(seqs) \in Seq(S)
           /\ \A k \in DOMAIN seqs : \A i \in DOMAIN seqs[k] :
                 \E j \in DOMAIN FlattenSeq(seqs) : FlattenSeq(seqs)[j] = seqs[k][i]
<1> DEFINE f == CHOOSE x : Flattens(x, seqs)
           Has(s, k) == \A i \in DOMAIN seqs[k] : \E j \in DOMAIN s : s[j] = seqs[k][i]
           N == { n \in Nat : n \in 1 .. Len(seqs) =>
                                f[n] \in Seq(S) /\ \A k \in 1 .. n : Has(f[n], k) }
<1>1. /\ Len(seqs) \in Nat /\ DOMAIN seqs = 1 .. Len(seqs)
      /\ \A i \in 1 .. Len(seqs) : seqs[i] \in Seq(S)
  BY LenProperties, ElementOfSeq
<1>2. Flattens(f, seqs)
  BY FlattensExists
<1> HIDE DEF f
<1>3. 0 \in N
  OBVIOUS
<1>4. ASSUME NEW n \in N PROVE n + 1 \in N
  <2> SUFFICES ASSUME n + 1 \in 1 .. Len(seqs)
               PROVE  f[n + 1] \in Seq(S) /\ \A k \in 1 .. n + 1 : Has(f[n + 1], k)
    OBVIOUS
  <2>1. f[n + 1] = IF n + 1 = 1 THEN seqs[n + 1] ELSE f[(n + 1) - 1] \o seqs[n + 1]
    BY <1>2, FlattensAt
  <2>2. n \in Nat /\ (n + 1) - 1 = n /\ seqs[n + 1] \in Seq(S)
    BY <1>1
  <2>3. CASE n = 0
    <3>1. f[n + 1] = seqs[n + 1] /\ 1 .. n + 1 = {n + 1}
      BY <2>1, <2>3
    <3> QED BY <2>2, <3>1
  <2>4. CASE n # 0
    <3>1. f[n] \in Seq(S) /\ \A k \in 1 .. n : Has(f[n], k)
      BY <1>1, <2>2, <2>4
    <3> DEFINE a == f[n]
               b == seqs[n + 1]
    <3>2. a \in Seq(S) /\ b \in Seq(S)
      BY <2>2, <3>1
    <3>3. f[n + 1] = a \o b
      <4>1. n + 1 # 1
        BY <2>2, <2>4
      <4> QED BY <2>1, <2>2, <4>1, Zenon
    <3>4. /\ a \o b \in Seq(S) /\ DOMAIN (a \o b) = 1 .. Len(a) + Len(b)
          /\ Len(a) \in Nat /\ Len(b) \in Nat
          /\ DOMAIN a = 1 .. Len(a) /\ DOMAIN b = 1 .. Len(b)
          /\ \A i \in 1 .. Len(a) + Len(b) :
                (a \o b)[i] = IF i <= Len(a) THEN a[i] ELSE b[i - Len(a)]
      <4> HIDE DEF a, b
      <4> QED BY <3>2, ConcatProperties, LenProperties
    <3> HIDE DEF a
    <3>5. ASSUME NEW k \in 1 .. n PROVE Has(a \o b, k)
      <4> SUFFICES ASSUME NEW i \in DOMAIN seqs[k]
                   PROVE  \E j \in DOMAIN (a \o b) : (a \o b)[j] = seqs[k][i]
        OBVIOUS
      <4>1. PICK j \in DOMAIN a : a[j] = seqs[k][i]
        BY <3>1 DEF a
      <4>2. j \in 1 .. Len(a) + Len(b) /\ j <= Len(a)
        BY <3>4
      <4> QED BY <3>4, <4>1, <4>2
    <3>6. Has(a \o b, n + 1)
      <4> SUFFICES ASSUME NEW i \in DOMAIN b
                   PROVE  \E j \in DOMAIN (a \o b) : (a \o b)[j] = b[i]
        OBVIOUS
      <4>1. /\ Len(a) + i \in 1 .. Len(a) + Len(b) /\ ~(Len(a) + i <= Len(a))
            /\ (Len(a) + i) - Len(a) = i
        BY <3>4
      <4> QED BY <3>4, <4>1
    <3>7. \A k \in 1 .. n + 1 : k \in 1 .. n \/ k = n + 1
      BY <2>2
    <3> HIDE DEF b, Has
    <3> QED BY <3>4, <3>3, <3>5, <3>6, <3>7
  <2> QED BY <2>3, <2>4
<1> HIDE DEF N
<1>5. Nat \subseteq N
  BY <1>3, <1>4, NaturalInduction
<1>6. CASE seqs = << >>
  BY <1>6 DEF FlattenSeq
<1>7. CASE seqs # << >>
  <2>1. Len(seqs) \in 1 .. Len(seqs) /\ Len(seqs) \in N
    BY <1>1, <1>5, <1>7, EmptySeq
  <2>2. FlattenSeq(seqs) = f[Len(seqs)]
    BY <1>7, FlattenSeqIs DEF f
  <2> QED BY <1>1, <2>1, <2>2 DEF N
<1> QED BY <1>6, <1>7

-----------------------------------------------------------------------------
(* Routes *)

\* FirstOf is 0 for no position, and a position otherwise.
LEMMA FirstOfIs ==
    ASSUME NEW S \in SUBSET (Nat \ {0})
    PROVE  (FirstOf(S) = 0 <=> S = {}) /\ (S # {} => FirstOf(S) \in S)
<1>1. CASE S = {}
  BY <1>1 DEF FirstOf
<1>2. CASE S # {}
  <2>1. \E i \in S : \A j \in S : i <= j
    BY <1>2, LeastNatural
  <2>2. FirstOf(S) = CHOOSE i \in S : \A j \in S : i <= j
    BY <1>2 DEF FirstOf
  <2>3. FirstOf(S) \in S
    BY <2>1, <2>2
  <2> QED BY <1>2, <2>3
<1> QED BY <1>1, <1>2

\* The backends in their order.
LEMMA OrderIs ==
    /\ Len(Order) \in Nat /\ DOMAIN Order = 1 .. Len(Order)
    /\ \A i \in DOMAIN Order : i \in Nat \ {0} /\ Order[i] \in Backend
    /\ \A b \in Backend : \E i \in DOMAIN Order : Order[i] = b
    /\ IsFiniteSet(Backend)
<1>1. Len(Order) \in Nat /\ DOMAIN Order = 1 .. Len(Order)
  BY OrderAssumption, LenProperties
<1>2. \A i \in DOMAIN Order : i \in Nat \ {0} /\ Order[i] \in Backend
  BY <1>1, OrderAssumption, ElementOfSeq
<1>3. \A b \in Backend : \E i \in DOMAIN Order : Order[i] = b
  BY OrderAssumption
<1>4. IsFiniteSet(Backend)
  <2>1. IsFiniteSet(1 .. Len(Order))
    BY <1>1, FS_Interval
  <2>2. Order \in Surjection(1 .. Len(Order), Backend)
    BY <1>1, <1>3, OrderAssumption, LenProperties DEF Surjection
  <2> QED BY <2>1, <2>2, FS_Surjection
<1> QED BY <1>1, <1>2, <1>3, <1>4

\* A candidate before it is evaluated.
LEMMA CandidatesAre ==
    ASSUME NEW cfg, IsConfig(cfg)
    PROVE  /\ DOMAIN Candidates(cfg) = 1 .. Len(cfg.fallback) + 1 /\ Len(cfg.fallback) \in Nat
           /\ \A i \in DOMAIN Candidates(cfg) :
                 Candidates(cfg)[i] \in Candidate /\ ~Candidates(cfg)[i].available
<1>1. /\ \E A \in SUBSET Name : cfg.models \in [A -> ModelConfig]
      /\ cfg.model \in Name
      /\ cfg.backend \in Backend \cup {NoBackend}
      /\ cfg.fallback \in Seq(Name)
  BY DEF IsConfig
<1>2. ASSUME NEW name \in Name, NEW role \in {"primary", "fallback"}
      PROVE  /\ CandidateFor(cfg, name, role) \in Candidate
             /\ ~CandidateFor(cfg, name, role).available
  BY <1>1, <1>2 DEF CandidateFor, Candidate, ModelConfig, Reasons
<1>3. Primary(cfg) \in Candidate /\ ~Primary(cfg).available
  BY <1>1, <1>2 DEF Primary, Candidate
<1>4. Len(cfg.fallback) \in Nat
  BY <1>1
<1>5. DOMAIN Candidates(cfg) = 1 .. Len(cfg.fallback) + 1
  BY <1>4 DEF Candidates
<1>6. ASSUME NEW i \in DOMAIN Candidates(cfg)
      PROVE  Candidates(cfg)[i] \in Candidate /\ ~Candidates(cfg)[i].available
  <2>1. CASE i = 1
    BY <1>3, <1>5, <2>1 DEF Candidates
  <2>2. CASE i # 1
    <3>1. i - 1 \in 1 .. Len(cfg.fallback)
      BY <1>4, <1>5, <2>2
    <3>2. cfg.fallback[i - 1] \in Name
      BY <1>1, <3>1
    <3>3. Candidates(cfg)[i] = CandidateFor(cfg, cfg.fallback[i - 1], "fallback")
      BY <1>5, <2>2 DEF Candidates
    <3> QED BY <1>2, <1>5, <3>2, <3>3
  <2> QED BY <2>1, <2>2
<1> QED BY <1>4, <1>5, <1>6

\* A round found the model m on the backend at place k.
FoundAt(k, m, seen) == Order[k] \in seen.reachable /\ m \in seen.installed[Order[k]]

\* What is said of a candidate, from what was seen: where it is, or that it is nowhere.
Evaluates(e, c, seen) ==
    /\ e \in Candidate /\ e.model = c.model
    /\ e.available =>
          \E k \in Places(c) : /\ e.backend = Order[k] /\ FoundAt(k, c.model, seen)
                               /\ e.loaded = (c.model \in seen.loaded[Order[k]])
    /\ ~e.available => \A k \in Places(c) : ~FoundAt(k, c.model, seen)

\* That is what Evaluate says.
LEMMA EvaluateIs ==
    ASSUME NEW c \in Candidate, ~c.available, NEW seen
    PROVE  Evaluates(Evaluate(c, seen), c, seen)
<1> DEFINE S == Serving(c, seen)
           k == FirstOf(S)
           e == Evaluate(c, seen)
<1>1. S \in SUBSET (Nat \ {0}) /\ S \subseteq Places(c)
  BY OrderIs DEF Serving, Places
<1>2. \A i : i \in S <=> i \in Places(c) /\ FoundAt(i, c.model, seen)
  BY DEF Serving, FoundAt
<1>3. CASE S = {}
  <2>1. e = [c EXCEPT !.reason = IF \E i \in Places(c) : Order[i] \in seen.reachable
                                  THEN "not_installed" ELSE "backend_unreachable"]
    BY <1>3 DEF Evaluate
  <2>2. e \in Candidate /\ e.model = c.model /\ ~e.available
    BY <2>1 DEF Candidate, Reasons
  <2>3. \A i \in Places(c) : ~FoundAt(i, c.model, seen)
    BY <1>2, <1>3
  <2> HIDE DEF e, S
  <2>4. Evaluates(e, c, seen)
    BY <2>2, <2>3, Zenon DEF Evaluates
  <2> QED BY <2>4 DEF e
<1>4. CASE S # {}
  <2>1. k \in S
    BY <1>1, <1>4, FirstOfIs
  <2>2. Order[k] \in Backend
    BY <1>1, <2>1, OrderIs DEF Places
  <2> DEFINE l == c.model \in seen.loaded[Order[k]]
  <2>3. l \in BOOLEAN
    OBVIOUS
  <2>4. e = [c EXCEPT !.backend = Order[k], !.available = TRUE, !.loaded = l]
    BY <1>4 DEF Evaluate
  <2> HIDE DEF S, k, e, l
  <2>5. e \in Candidate /\ e.model = c.model
    BY <2>2, <2>3, <2>4 DEF Candidate
  <2>6. e.available /\ e.backend = Order[k] /\ e.loaded = l
    BY <2>4 DEF Candidate
  <2>7. k \in Places(c) /\ FoundAt(k, c.model, seen)
    BY <1>2, <2>1
  <2>8. \E i \in Places(c) : /\ e.backend = Order[i] /\ FoundAt(i, c.model, seen)
                              /\ e.loaded = (c.model \in seen.loaded[Order[i]])
    BY <2>6, <2>7, Zenon DEF l
  <2>9. Evaluates(e, c, seen)
    BY <2>5, <2>6, <2>8, Zenon DEF Evaluates
  <2> QED BY <2>9 DEF e
<1> QED BY <1>3, <1>4

\* What a route's decision says, from what was seen for it.
Decides(r, cfg, seen) ==
    /\ r.found \in BOOLEAN
    /\ r.found => /\ r \in Decision
                  /\ r.backend \in seen.reachable /\ r.model \in seen.installed[r.backend]
                  /\ r.ready = (r.model \in seen.loaded[r.backend])
    /\ ~r.found => \A i \in DOMAIN Candidates(cfg) :
                      \A k \in Places(Candidates(cfg)[i]) :
                         ~FoundAt(k, Candidates(cfg)[i].model, seen)

\* That is what Route says.
LEMMA RouteIs ==
    ASSUME NEW t, IsConfig(config[t].route), config[t].task \in Task, NEW seen
    PROVE  Decides(Route(t, seen), config[t].route, seen)
<1> DEFINE cfg == config[t].route
           cands == Evaluated(cfg, seen)
           Q == { i \in DOMAIN cands :
                    Qualifies(cands[i], [caps |-> {}, allowFallback |-> TRUE, requireReady |-> FALSE]) }
           chosen == FirstOf(Q)
           c == cands[chosen]
           r == Route(t, seen)
<1>1. /\ DOMAIN Candidates(cfg) = 1 .. Len(cfg.fallback) + 1 /\ Len(cfg.fallback) \in Nat
      /\ \A i \in DOMAIN Candidates(cfg) :
            Candidates(cfg)[i] \in Candidate /\ ~Candidates(cfg)[i].available
  BY CandidatesAre
<1>2. /\ DOMAIN cands = DOMAIN Candidates(cfg)
      /\ \A i \in DOMAIN Candidates(cfg) : Evaluates(cands[i], Candidates(cfg)[i], seen)
  <2>1. \A i \in DOMAIN Candidates(cfg) : cands[i] = Evaluate(Candidates(cfg)[i], seen)
    BY DEF Evaluated
  <2>2. DOMAIN cands = DOMAIN Candidates(cfg)
    BY DEF Evaluated
  <2> HIDE DEF cands, cfg
  <2> QED BY <1>1, <2>1, <2>2, EvaluateIs
<1>3. r = [task |-> config[t].task, found |-> chosen # 0,
           backend |-> IF chosen = 0 THEN NoBackend ELSE c.backend,
           model |-> IF chosen = 0 THEN cfg.model ELSE c.model,
           fallback |-> chosen > 1, ready |-> chosen # 0 /\ c.loaded,
           primaryDown |-> IF cands[1].reason = "backend_unreachable" THEN cands[1].backend
                           ELSE NoBackend]
  BY DEF Route, Select
<1> HIDE DEF cands, cfg, r
<1>4. /\ Q \in SUBSET (Nat \ {0}) /\ Q \subseteq DOMAIN cands
      /\ \A i \in DOMAIN cands : i \in Q <=> cands[i].available
  <2>1. \A i \in DOMAIN cands : i \in Q <=> cands[i].available
    BY DEF Qualifies
  <2> QED BY <1>1, <1>2, <2>1
<1>5. chosen \in Nat /\ (chosen = 0 <=> Q = {}) /\ (Q # {} => chosen \in Q)
  <2> HIDE DEF Q
  <2>1. (FirstOf(Q) = 0 <=> Q = {}) /\ (Q # {} => FirstOf(Q) \in Q)
    BY <1>4, FirstOfIs
  <2>2. \A i \in Q : i \in Nat
    BY <1>4
  <2>3. FirstOf(Q) \in Nat
    BY <2>1, <2>2
  <2> QED BY <2>1, <2>3
<1> HIDE DEF Q, chosen
<1>6. CASE chosen = 0
  <2>1. \A i \in DOMAIN Candidates(cfg) : ~cands[i].available
    BY <1>2, <1>4, <1>5, <1>6
  <2>2. ~r.found /\ r.found \in BOOLEAN
    BY <1>3, <1>6
  <2>3. \A i \in DOMAIN Candidates(cfg) : \A k \in Places(Candidates(cfg)[i]) :
           ~FoundAt(k, Candidates(cfg)[i].model, seen)
    BY <1>2, <2>1 DEF Evaluates
  <2> QED BY <2>2, <2>3, Zenon DEF Decides, r, cfg
<1>7. CASE chosen # 0
  <2>1. chosen \in DOMAIN Candidates(cfg) /\ c.available
    BY <1>2, <1>4, <1>5, <1>7
  <2>2. Evaluates(c, Candidates(cfg)[chosen], seen)
    BY <1>2, <2>1
  <2> HIDE DEF c
  <2>3. PICK k \in Places(Candidates(cfg)[chosen]) :
            /\ c.backend = Order[k] /\ FoundAt(k, c.model, seen)
            /\ c.loaded = (c.model \in seen.loaded[Order[k]])
    BY <2>1, <2>2 DEF Evaluates
  <2>4. /\ Order[k] \in Backend /\ c.model \in Name /\ c.loaded \in BOOLEAN
    BY <2>2, OrderIs DEF Evaluates, Candidate, Places
  <2>5. cands[1].backend \in Backend \cup {NoBackend}
    BY <1>1, <1>2 DEF Evaluates, Candidate
  <2>6. r = [task |-> config[t].task, found |-> TRUE, backend |-> c.backend, model |-> c.model,
             fallback |-> chosen > 1, ready |-> c.loaded,
             primaryDown |-> IF cands[1].reason = "backend_unreachable" THEN cands[1].backend
                             ELSE NoBackend]
    BY <1>3, <1>7, <2>4
  <2>7. r \in Decision
    BY <2>3, <2>4, <2>5, <2>6 DEF Decision
  <2>8. r.found = TRUE /\ r.backend = Order[k] /\ r.model = c.model /\ r.ready = c.loaded
    BY <2>3, <2>6
  <2>9. /\ r.backend \in seen.reachable /\ r.model \in seen.installed[r.backend]
        /\ r.ready = (r.model \in seen.loaded[r.backend])
    BY <2>3, <2>8 DEF FoundAt
  <2> QED BY <2>7, <2>8, <2>9, Zenon DEF Decides, r, cfg
<1> QED BY <1>6, <1>7

-----------------------------------------------------------------------------
(* The stream *)

Asking == pc \in {"reachable", "installed", "loaded"}
Begun  == Asking \/ pc = "access"

\* Of a stream: what was written, how it ended, and where it is.
StreamInv ==
    /\ Streams
    /\ frames \in 0 .. MaxFrames /\ exit \in {0, 1, 3, 4}
    /\ pc \in {"load", "access", "reachable", "installed", "loaded", "write", "batch",
               "wait", "exit", "done"}
    /\ Begun \/ pc = "write" => frames < MaxFrames
    /\ pc = "wait" => frames > 0
    /\ pc = "batch" => frames > 1 /\ tail = "frame"
    /\ pc \notin {"exit", "done"} => tail # "error" /\ exit = 0
    /\ pc = "exit" => tail = "error" /\ exit # 0
    /\ pc = "done" => (tail = "error" <=> exit # 0) /\ (exit = 0 => frames > 0)

\* No step leaves the order of frames, batches and ends.
LEMMA StreamStep ==
    ASSUME StreamInv, [Next]_vars
    PROVE  StreamInv'
<1> USE DEF StreamInv, Streams, Begun, Asking
<1>0. MaxFrames \in Nat
  BY SurveyAssumption
<1>1. ASSUME NEW b \in Backend, Drift(b) PROVE StreamInv'
  BY <1>1 DEF Drift
<1>2. CASE Signal
  BY <1>2 DEF Signal
<1>3. CASE Load
  <2>1. UNCHANGED << kind, frames >> /\ pc = "load" /\ frames < MaxFrames
    BY <1>3 DEF Load
  <2>2. CASE LoadFails
    BY <2>1, <2>2 DEF LoadFails, Fail
  <2>3. CASE pc' = (IF kind \in {"backends", "listed", "models", "loaded"} THEN Entry ELSE "access")
              /\ UNCHANGED << tail, code, exit >>
    BY <2>1, <2>3
  <2> QED BY <1>3, <2>1, <2>2, <2>3 DEF Load
<1>4. CASE CheckAccess
  BY <1>4 DEF CheckAccess, Entry, Refused, Fail
<1>5. CASE ProbeReachable
  BY <1>5 DEF ProbeReachable, Refused, Fail
<1>6. CASE ProbeInstalled
  BY <1>6 DEF ProbeInstalled, Entry, Refused, Fail
<1>7. CASE ProbeLoaded
  BY <1>7 DEF ProbeLoaded, Entry, Refused, Fail
<1>8. CASE EndRound
  BY <1>8 DEF EndRound, Entry, Fail
<1>9. CASE WriteFrame
  BY <1>0, <1>9 DEF WriteFrame
<1>10. CASE WriteBatch
  BY <1>10 DEF WriteBatch
<1>11. CASE Ticks
  BY <1>11 DEF Ticks
<1>12. CASE Stops
  BY <1>12 DEF Stops, Stoppable
<1>13. CASE Exit
  BY <1>13 DEF Exit
<1>14. CASE UNCHANGED vars
  BY <1>14 DEF vars
<1> QED BY <1>1, <1>2, <1>3, <1>4, <1>5, <1>6, <1>7, <1>8, <1>9, <1>10, <1>11, <1>12, <1>13,
            <1>14 DEF Next, Step

\* Each step of a stream is one of the feed's, or shows nothing to its reader.
LEMMA FeedStep ==
    ASSUME StreamInv, StreamInv', [Next]_vars
    PROVE  [Feed!FeedNext]_(Feed!feedVars)
<1> USE DEF StreamInv, Feed!feedVars
<1>1. CASE UNCHANGED << pc, frames, tail, exit >>
  BY <1>1
<1>2. CASE /\ pc \notin {"exit", "done"} /\ pc' \notin {"exit", "done"}
           /\ UNCHANGED << frames, tail, exit >>
  BY <1>2
<1>3. CASE pc \notin {"exit", "done"} /\ pc' = "exit" /\ tail' = "error" /\ UNCHANGED frames
  BY <1>3 DEF Feed!FeedNext, Feed!SendError
<1>4. CASE Exit
  BY <1>4 DEF Exit, Feed!FeedNext, Feed!FeedFails
<1>5. CASE WriteFrame
  BY <1>5 DEF WriteFrame, Streams, Feed!FeedNext, Feed!SendFrame
<1>6. CASE WriteBatch
  BY <1>6 DEF WriteBatch, Feed!FeedNext, Feed!SendBatch
<1>7. CASE Stops
  BY <1>7 DEF Stops, Stoppable, Feed!FeedNext, Feed!FeedEnds
<1>8. CASE Load
  <2>1. UNCHANGED frames /\ pc = "load"
    BY <1>8 DEF Load
  <2>2. CASE LoadFails
    BY <1>3, <2>1, <2>2 DEF LoadFails, Fail, Streams
  <2>3. CASE pc' \in {"access", Entry} /\ UNCHANGED << tail, exit >>
    BY <1>2, <2>1, <2>3 DEF Entry, Streams
  <2> QED BY <1>8, <2>2, <2>3 DEF Load, Streams
<1>9. CASE CheckAccess
  BY <1>2, <1>3, <1>9 DEF CheckAccess, Entry, Refused, Fail
<1>10. CASE ProbeReachable \/ ProbeInstalled \/ ProbeLoaded
  BY <1>2, <1>3, <1>10 DEF ProbeReachable, ProbeInstalled, ProbeLoaded, Entry, Refused, Fail
<1>11. CASE EndRound
  BY <1>2, <1>3, <1>11 DEF EndRound, Entry, Fail
<1>12. CASE Ticks
  BY <1>2, <1>12 DEF Ticks
<1>13. ASSUME NEW b \in Backend, Drift(b) PROVE UNCHANGED << pc, frames, tail, exit >>
  BY <1>13 DEF Drift
<1>14. CASE Signal
  BY <1>1, <1>14 DEF Signal
<1>15. CASE UNCHANGED vars
  BY <1>1, <1>15 DEF vars
<1> QED BY <1>1, <1>4, <1>5, <1>6, <1>7, <1>8, <1>9, <1>10, <1>11, <1>12, <1>13, <1>14, <1>15
    DEF Next, Step

\* The stream of `status --watch` is one that StatusFeed describes: at most one batch
\* after a frame and none after the first, nothing after an error, and a clean end only
\* after a whole frame (runStatusWatch).
THEOREM FeedRefined == Spec /\ Streams => FeedSpec
<1>1. Init /\ Streams => StreamInv
  <2>1. MaxFrames \in Nat
    BY SurveyAssumption
  <2>2. Init => pc = "load" /\ frames = 0 /\ tail = "nothing" /\ exit = 0
    BY DEF Init
  <2> QED BY <2>1, <2>2 DEF StreamInv, Begun, Asking
<1>2. Init => Feed!FeedInit
  BY DEF Init, Feed!FeedInit
<1> QED BY <1>1, <1>2, StreamStep, FeedStep, PTL DEF Spec, FeedSpec, Feed!FeedSpec

-----------------------------------------------------------------------------
(* Reports *)

\* What a round of probes can have found.
Probe == [reachable : SUBSET Backend, installed : [Backend -> SUBSET Name],
          loaded : [Backend -> SUBSET Name], degraded : SUBSET (Backend \X {"installed", "loaded"})]

\* Whatever a report names can be sorted.
LEMMA NamesAre ==
    /\ Task \subseteq Subject /\ Backend \subseteq Subject /\ Name \subseteq Subject
    /\ {"status", "installed", "loaded", "E_CONFIG", "E_BACKEND_AUTH_FAILED",
        "E_CONFIG_VALIDATION_FAILED", "W_CONFIG_VALIDATION", "W_BACKEND_UNREACHABLE",
        "W_BACKEND_DEGRADED", "W_MODEL_NOT_INSTALLED", "W_MODEL_NOT_LOADED",
        "W_FALLBACK_USED"} \subseteq Subject
BY NamesAssumption DEF Subject

\* The tasks of a configuration.
Tasked(tasks) ==
    /\ tasks \in Seq({ tasks[t] : t \in DOMAIN tasks })
    /\ \A t \in DOMAIN tasks : tasks[t].task \in Task /\ IsConfig(tasks[t].route)

\* Doctor's placement of a task.
LEMMA DoctorRouteIs ==
    ASSUME NEW cfg, IsConfig(cfg), NEW seen
    PROVE  DoctorRoute(cfg, seen).position \in Nat /\ DoctorRoute(cfg, seen).model \in Name
<1> DEFINE S == { j \in 1 .. Len(cfg.fallback) + 1 : Placements(cfg, j, seen) # {} }
           i == FirstOf(S)
           l == Named(cfg, i) \in seen.loaded[Order[FirstOf(Placements(cfg, i, seen))]]
<1>1. cfg.model \in Name /\ cfg.fallback \in Seq(Name)
  BY DEF IsConfig
<1>2. Len(cfg.fallback) \in Nat /\ \A k \in 1 .. Len(cfg.fallback) : cfg.fallback[k] \in Name
  BY <1>1, LenProperties, ElementOfSeq
<1>3. S \in SUBSET (Nat \ {0}) /\ \A k \in S : k \in 1 .. Len(cfg.fallback) + 1
  BY <1>2
<1>4. DoctorRoute(cfg, seen)
        = IF i = 0 THEN [position |-> 0, model |-> cfg.model, ready |-> FALSE]
          ELSE [position |-> i, model |-> Named(cfg, i), ready |-> l]
  BY DEF DoctorRoute
<1> HIDE DEF S
<1>5. (i = 0 <=> S = {}) /\ (S # {} => i \in S)
  BY <1>3, FirstOfIs
<1> HIDE DEF i, l
<1>6. CASE i = 0
  BY <1>1, <1>4, <1>6
<1>7. CASE i # 0
  <2>1. i \in 1 .. Len(cfg.fallback) + 1
    BY <1>3, <1>5, <1>7
  <2>2. i # 1 => i - 1 \in 1 .. Len(cfg.fallback)
    BY <1>2, <2>1
  <2>3. Named(cfg, i) \in Name
    BY <1>1, <1>2, <2>2 DEF Named
  <2>4. i \in Nat
    BY <1>2, <2>1
  <2> QED BY <1>4, <1>7, <2>3, <2>4
<1> QED BY <1>6, <1>7

WarningCodes == {"W_BACKEND_UNREACHABLE", "W_BACKEND_DEGRADED", "W_MODEL_NOT_INSTALLED",
                 "W_MODEL_NOT_LOADED", "W_FALLBACK_USED"}

\* A warning has one of the codes, and one of a backend that does not answer names one
\* that was not seen to.
Warns(w, seen) ==
    /\ w.code \in WarningCodes
    /\ w.code = "W_BACKEND_UNREACHABLE" =>
          \E b \in Backend \ seen.reachable : w = Warn("W_BACKEND_UNREACHABLE", << b >>)

\* Such are doctor's warnings.
LEMMA DoctorWarningsAre ==
    ASSUME NEW tasks, NEW seen, NEW degraded
    PROVE  \A w \in DoctorWarnings(tasks, seen, degraded) : Warns(w, seen)
<1> SUFFICES ASSUME NEW w \in DoctorWarnings(tasks, seen, degraded)
             PROVE  Warns(w, seen)
  OBVIOUS
<1> USE DEF Warns, Warn, WarningCodes
<1>1. CASE w \in UnreachableWarnings(seen)
  BY <1>1 DEF UnreachableWarnings
<1>2. CASE w \in { Warn("W_BACKEND_DEGRADED", d) : d \in degraded }
  BY <1>2
<1>3. ASSUME NEW t \in DOMAIN tasks, w \in RouteWarnings(tasks[t].route, seen)
      PROVE  Warns(w, seen)
  BY <1>3 DEF RouteWarnings
<1> QED BY <1>1, <1>2, <1>3 DEF DoctorWarnings

\* And those of a route.
LEMMA RouteWarningsAre ==
    ASSUME NEW t, NEW r, NEW seen
    PROVE  \A w \in WarningsOf(t, r, seen) : Warns(w, seen)
BY DEF Warns, Warn, WarningCodes, WarningsOf, UnreachableWarnings

-----------------------------------------------------------------------------
(* Items *)

Verbs == {"backends", "config show", "config explain", "model", "route"}

OfItem == [severity : {"error", "warning"}, code : Subject, subject : Subject,
           message : Seq(Subject), backend : Backend \cup {NoBackend},
           command : Seq(Verbs \cup Subject)]

\* Every item the code makes is of one of the kinds of OfItem.
LEMMA ItemsTyped ==
    /\ LoadItem \in OfItem
    /\ \A b \in Backend :
         /\ RefusalItem(b) \in OfItem /\ UnreachableItem(b) \in OfItem
         /\ \A s \in {"error", "warning"} : FindingItem(s, b) \in OfItem
         /\ \A l \in {"installed", "loaded"} : DegradedItem(b, l) \in OfItem
<1> DEFINE C == Verbs \cup Subject
<1>1. \A v \in Verbs, x \in Subject : Command(v, x) \in Seq(C)
  BY DEF Command
<1>2. << >> \in Seq(Subject) /\ << >> \in Seq(C)
  OBVIOUS
<1>3. \A b \in Backend : << b >> \in Seq(Subject)
  BY NamesAre
<1>4. \A b \in Backend, l \in {"installed", "loaded"} : << b, l >> \in Seq(Subject)
  BY NamesAre
<1> HIDE DEF C
<1>5. LoadItem \in OfItem
  BY <1>2, NamesAre DEF LoadItem, Item, OfItem, NoCommand, C
<1>6. ASSUME NEW b \in Backend
      PROVE  /\ RefusalItem(b) \in OfItem /\ UnreachableItem(b) \in OfItem
             /\ \A s \in {"error", "warning"} : FindingItem(s, b) \in OfItem
             /\ \A l \in {"installed", "loaded"} : DegradedItem(b, l) \in OfItem
  <2>1. b \in Subject
    BY NamesAre
  <2>2. \A v \in Verbs : Command(v, b) \in Seq(C)
    BY <1>1, <2>1
  <2>3. \A v \in {"backends", "config show", "config explain"} : v \in Verbs
    BY DEF Verbs
  <2>4. RefusalItem(b) \in OfItem
    BY <1>3, <2>1, <2>2, <2>3, NamesAre DEF RefusalItem, Item, OfItem, C
  <2>5. UnreachableItem(b) \in OfItem
    BY <1>3, <2>1, <2>2, <2>3, NamesAre DEF UnreachableItem, Item, OfItem, C
  <2>6. \A s \in {"error", "warning"} : FindingItem(s, b) \in OfItem
    BY <1>3, <2>1, <2>2, <2>3, NamesAre DEF FindingItem, Item, OfItem, C
  <2>7. \A l \in {"installed", "loaded"} : DegradedItem(b, l) \in OfItem
    BY <1>4, <2>1, <2>2, <2>3, NamesAre DEF DegradedItem, Item, OfItem, C
  <2> QED BY <2>4, <2>5, <2>6, <2>7
<1> QED BY <1>5, <1>6

Has(items, x) == \E i \in DOMAIN items : items[i] = x

\* What doctor warns of: nothing of a refusal, and of a backend that does not answer
\* only if it was not seen to.
OfDoctor(seen) ==
    { x \in OfItem : /\ x.severity = "warning" /\ x.code # "E_BACKEND_AUTH_FAILED"
                     /\ x.code = "W_BACKEND_UNREACHABLE" => x.backend \in Backend \ seen.reachable }

\* A sequence with one more that may be in it.
LEMMA OneOf ==
    ASSUME NEW S, NEW x \in S
    PROVE  << x >> \in Seq(S) /\ << >> \in Seq(S) /\ Has(<< x >>, x)
BY DEF Has

\* What is in a sequence is in it when others come before or after.
LEMMA HasConcat ==
    ASSUME NEW S, NEW s \in Seq(S), NEW t \in Seq(S)
    PROVE  /\ s \o t \in Seq(S)
           /\ \A x : Has(s \o t, x) <=> Has(s, x) \/ Has(t, x)
<1>1. /\ s \o t \in Seq(S) /\ DOMAIN (s \o t) = 1 .. Len(s) + Len(t)
      /\ Len(s) \in Nat /\ Len(t) \in Nat /\ DOMAIN s = 1 .. Len(s) /\ DOMAIN t = 1 .. Len(t)
      /\ \A i \in 1 .. Len(s) + Len(t) :
            (s \o t)[i] = IF i <= Len(s) THEN s[i] ELSE t[i - Len(s)]
  BY ConcatProperties, LenProperties
<1>2. ASSUME NEW x, NEW i \in DOMAIN s, s[i] = x PROVE Has(s \o t, x)
  BY <1>1, <1>2 DEF Has
<1>3. ASSUME NEW x, NEW i \in DOMAIN t, t[i] = x PROVE Has(s \o t, x)
  <2>1. Len(s) + i \in 1 .. Len(s) + Len(t) /\ ~(Len(s) + i <= Len(s)) /\ (Len(s) + i) - Len(s) = i
    BY <1>1
  <2> QED BY <1>1, <1>3, <2>1 DEF Has
<1>4. ASSUME NEW x, NEW i \in DOMAIN (s \o t), (s \o t)[i] = x PROVE Has(s, x) \/ Has(t, x)
  <2>1. CASE i <= Len(s)
    BY <1>1, <1>4, <2>1 DEF Has
  <2>2. CASE ~(i <= Len(s))
    <3>1. i - Len(s) \in DOMAIN t
      BY <1>1, <2>2
    <3> QED BY <1>1, <1>4, <2>2, <3>1 DEF Has
  <2> QED BY <2>1, <2>2
<1> QED BY <1>1, <1>2, <1>3, <1>4 DEF Has

\* The warnings of one backend: that it does not answer, or that it does not list.
LEMMA BackendItemsAre ==
    ASSUME NEW seen, NEW b \in Backend
    PROVE  /\ BackendItems(b, seen, seen.degraded) \in Seq(OfDoctor(seen))
           /\ b \notin seen.reachable
                => Has(BackendItems(b, seen, seen.degraded), UnreachableItem(b))
           /\ b \in seen.reachable /\ << b, "installed" >> \in seen.degraded
                => Has(BackendItems(b, seen, seen.degraded), DegradedItem(b, "installed"))
<1> DEFINE D == OfDoctor(seen)
           one == IF << b, "installed" >> \in seen.degraded
                  THEN << DegradedItem(b, "installed") >> ELSE << >>
           two == IF << b, "loaded" >> \in seen.degraded
                  THEN << DegradedItem(b, "loaded") >> ELSE << >>
<1>1. DegradedItem(b, "installed") \in D /\ DegradedItem(b, "loaded") \in D
  BY ItemsTyped DEF OfDoctor, DegradedItem, Item
<1>2. b \notin seen.reachable => UnreachableItem(b) \in D
  BY ItemsTyped DEF OfDoctor, UnreachableItem, Item
<1>3. BackendItems(b, seen, seen.degraded)
        = IF b \notin seen.reachable THEN << UnreachableItem(b) >> ELSE one \o two
  BY DEF BackendItems
<1> HIDE DEF D
<1>4. one \in Seq(D) /\ two \in Seq(D)
  BY <1>1, OneOf
<1>5. << b, "installed" >> \in seen.degraded => Has(one, DegradedItem(b, "installed"))
  BY <1>1, OneOf
<1>6. b \notin seen.reachable
        => << UnreachableItem(b) >> \in Seq(D) /\ Has(<< UnreachableItem(b) >>, UnreachableItem(b))
  BY <1>2, OneOf
<1> HIDE DEF one, two
<1>7. one \o two \in Seq(D) /\ \A x : Has(one, x) => Has(one \o two, x)
  BY <1>4, HasConcat
<1>8. CASE b \in seen.reachable
  BY <1>3, <1>5, <1>7, <1>8 DEF D
<1>9. CASE b \notin seen.reachable
  BY <1>3, <1>6, <1>9 DEF D
<1> QED BY <1>8, <1>9

\* The warnings of one task.
LEMMA TaskItemsAre ==
    ASSUME NEW seen, NEW t, t.task \in Task, IsConfig(t.route)
    PROVE  TaskItems(t, seen) \in Seq(OfDoctor(seen))
<1> DEFINE D == OfDoctor(seen)
           route == DoctorRoute(t.route, seen)
           cfg == t.route
           C == Verbs \cup Subject
<1>1. route.model \in Name /\ cfg.model \in Name /\ cfg.backend \in Backend \cup {NoBackend}
  BY DoctorRouteIs DEF IsConfig
<1>2. route.model \in Subject /\ cfg.model \in Subject /\ t.task \in Subject
      /\ (cfg.backend # NoBackend => cfg.backend \in Subject)
  BY <1>1, NamesAre
<1>3. TaskItems(t, seen)
        = (IF route.position # 1 THEN << NotInstalledItem(t.task, cfg) >> ELSE << >>)
          \o (IF route.position > 1 THEN << FallbackItem(t.task, route.model, cfg.model) >> ELSE << >>)
  BY DEF TaskItems
<1> HIDE DEF route
<1>4. << cfg.model >> \in Seq(Subject) /\ << route.model, cfg.model >> \in Seq(Subject)
  BY <1>2
<1>5. Command("model", cfg.model) \in Seq(C) /\ Command("route", t.task) \in Seq(C)
  <2>1. \A v \in Verbs, x \in Subject : Command(v, x) \in Seq(C)
    BY DEF Command
  <2>2. "model" \in Verbs /\ "route" \in Verbs
    BY DEF Verbs
  <2> HIDE DEF C, cfg
  <2> QED BY <1>2, <2>1, <2>2
<1> HIDE DEF C, cfg
<1>6. NotInstalledItem(t.task, cfg) \in D
  BY <1>1, <1>2, <1>4, <1>5, NamesAre DEF NotInstalledItem, Item, OfItem, OfDoctor, C
<1>7. FallbackItem(t.task, route.model, cfg.model) \in D
  BY <1>1, <1>2, <1>4, <1>5, NamesAre DEF FallbackItem, Item, OfItem, OfDoctor, C
<1> HIDE DEF D
<1>8. /\ << NotInstalledItem(t.task, cfg) >> \in Seq(D) /\ << >> \in Seq(D)
      /\ << FallbackItem(t.task, route.model, cfg.model) >> \in Seq(D)
  BY <1>6, <1>7, OneOf
<1>9. TaskItems(t, seen) \in Seq(D)
  BY <1>3, <1>8, HasConcat
<1> QED BY <1>9 DEF D

\* Triage's items of a round: each backend that does not answer has one, and each that
\* answers and does not list what is installed.
Doctors(items, seen) ==
    /\ items \in Seq(OfDoctor(seen))
    /\ \A b \in Backend :
         /\ b \notin seen.reachable => Has(items, UnreachableItem(b))
         /\ b \in seen.reachable /\ << b, "installed" >> \in seen.degraded
              => Has(items, DegradedItem(b, "installed"))

\* doctorIssuesToTriage: each item comes from a finding of the round, and each backend that
\* is unreachable or whose listing failed has its item.
LEMMA DoctorItemsAre ==
    ASSUME NEW tasks, Tasked(tasks), NEW seen
    PROVE  Doctors(DoctorItems(tasks, seen, seen.degraded), seen)
<1> DEFINE D == OfDoctor(seen)
           A == [k \in DOMAIN Order |-> BackendItems(Order[k], seen, seen.degraded)]
           B == [t \in DOMAIN tasks |-> TaskItems(tasks[t], seen)]
<1>1. /\ Len(Order) \in Nat /\ DOMAIN Order = 1 .. Len(Order)
      /\ Len(tasks) \in Nat /\ DOMAIN tasks = 1 .. Len(tasks)
  BY OrderIs, LenProperties DEF Tasked
<1>2. \A k \in DOMAIN Order : A[k] \in Seq(D)
  BY OrderIs, BackendItemsAre
<1>3. \A t \in DOMAIN tasks : B[t] \in Seq(D)
  BY TaskItemsAre DEF Tasked
<1>4. DOMAIN A = 1 .. Len(Order) /\ DOMAIN B = 1 .. Len(tasks)
  BY <1>1
<1>5. A = [k \in 1 .. Len(Order) |-> A[k]] /\ B = [t \in 1 .. Len(tasks) |-> B[t]]
  BY <1>1
<1>6. \A b \in Backend : \E k \in DOMAIN A : A[k] = BackendItems(b, seen, seen.degraded)
  BY OrderIs
<1>7. DoctorItems(tasks, seen, seen.degraded) = FlattenSeq(A) \o FlattenSeq(B)
  BY DEF DoctorItems
<1> HIDE DEF A, B, D
<1>8. A \in Seq(Seq(D)) /\ B \in Seq(Seq(D))
  BY <1>1, <1>2, <1>3, <1>4, <1>5, IsASeq
<1> DEFINE a == FlattenSeq(A)
           b_ == FlattenSeq(B)
<1>9. /\ a \in Seq(D) /\ b_ \in Seq(D)
      /\ \A k \in DOMAIN A : \A x : Has(A[k], x) => Has(a, x)
  BY <1>8, FlattenHolds DEF Has
<1> HIDE DEF a, b_
<1>10. a \o b_ \in Seq(D) /\ \A x : Has(a, x) => Has(a \o b_, x)
  BY <1>9, HasConcat
<1>11. ASSUME NEW b \in Backend
       PROVE  /\ b \notin seen.reachable => Has(a \o b_, UnreachableItem(b))
              /\ b \in seen.reachable /\ << b, "installed" >> \in seen.degraded
                   => Has(a \o b_, DegradedItem(b, "installed"))
  BY <1>6, <1>9, <1>10, BackendItemsAre
<1> QED BY <1>7, <1>10, <1>11 DEF Doctors, D, a, b_

-----------------------------------------------------------------------------
(* Triage *)

\* Items can be sorted, and an error comes before a warning.
LEMMA KeyIs ==
    ASSUME NEW x \in OfItem
    PROVE  /\ Key(x) \in SortKey
           /\ Key(x)[1] = IF x.severity = "error" THEN 0 ELSE 1
<1>1. x.code \in Subject /\ x.subject \in Subject /\ x.message \in Seq(Subject)
      /\ x.severity \in {"error", "warning"}
  BY DEF OfItem
<1> DEFINE u == Urgency(x.severity)
           m == IF Len(x.message) = 0 THEN 0 ELSE Position[x.message[1]]
           n == IF Len(x.message) < 2 THEN 0 ELSE Position[x.message[2]]
<1>2. u \in Int /\ u = IF x.severity = "error" THEN 0 ELSE 1
  BY <1>1 DEF Urgency
<1>3. Position[x.code] \in Int /\ Position[x.subject] \in Int
  BY <1>1, PositionIs
<1>4. m \in Int /\ n \in Int
  <2>1. Len(x.message) \in Nat /\ \A i \in 1 .. Len(x.message) : x.message[i] \in Subject
    BY <1>1, LenProperties, ElementOfSeq
  <2>2. Len(x.message) # 0 => x.message[1] \in Subject
    BY <2>1
  <2>3. ~(Len(x.message) < 2) => x.message[2] \in Subject
    BY <2>1
  <2> QED BY <2>2, <2>3, PositionIs
<1>5. Key(x) = << u, Position[x.code], Position[x.subject], m, n >>
  BY DEF Key
<1> HIDE DEF u, m, n
<1> QED BY <1>2, <1>3, <1>4, <1>5 DEF SortKey

\* A sequence has the same items as another, and an error at its head if there is one.
Heads(out, items) ==
    /\ Len(out) = Len(items)
    /\ \A x : Has(out, x) <=> Has(items, x)
    /\ (\E i \in DOMAIN items : items[i].severity = "error") =>
          out # << >> /\ out[1].severity = "error"

\* rankTriageItems loses and adds nothing, and puts an error first if there is one.
LEMMA SortedItemsAre ==
    ASSUME NEW S, S \subseteq OfItem, NEW items \in Seq(S)
    PROVE  SortedItems(items) \in Seq(S) /\ Heads(SortedItems(items), items)
<1> DEFINE P == DOMAIN items
           n == Len(items)
           key == [i \in P |-> Key(items[i])]
           R == { p \in P \X P : \/ LexLess(key[p[1]], key[p[2]])
                                 \/ key[p[1]] = key[p[2]] /\ p[1] < p[2] }
           rank == [i \in P |-> Cardinality(Before(P, R, i)) + 1]
           out == SortedItems(items)
<1>1. /\ n \in Nat /\ P = 1 .. n
      /\ \A i \in P : items[i] \in S /\ items[i] \in OfItem /\ i \in Int
  BY LenProperties, ElementOfSeq
<1>2. IsFiniteSet(P) /\ Cardinality(P) = n
  <2> HIDE DEF P, n
  <2>1. IsFiniteSet(1 .. n) /\ Cardinality(1 .. n) = n
    BY <1>1, FS_Interval
  <2> QED BY <1>1, <2>1
<1>3. \A i \in P : /\ key[i] \in SortKey
                   /\ key[i][1] = IF items[i].severity = "error" THEN 0 ELSE 1
  BY <1>1, KeyIs
<1>4. \A i, j \in P : << j, i >> \in R
                        <=> LexLess(key[j], key[i]) \/ (key[j] = key[i] /\ j < i)
  OBVIOUS
<1>5. out = InOrder(items, P, rank, n)
  <2>1. \A i \in P : Before(P, R, i) = { j \in P : \/ LexLess(key[j], key[i])
                                                   \/ key[j] = key[i] /\ j < i }
    BY DEF Before
  <2>2. \A i \in P : rank[i] = Cardinality({ j \in P : \/ LexLess(key[j], key[i])
                                                       \/ key[j] = key[i] /\ j < i }) + 1
    <3> HIDE DEF key, R, P
    <3> QED BY <2>1
  <2>3. out = [k \in P |-> items[CHOOSE i \in P :
                              Cardinality({ j \in P : \/ LexLess(key[j], key[i])
                                                      \/ key[j] = key[i] /\ j < i }) + 1 = k]]
    BY DEF SortedItems
  <2> HIDE DEF rank, key, P
  <2>4. \A k \in P : (CHOOSE i \in P : rank[i] = k)
          = CHOOSE i \in P : Cardinality({ j \in P : \/ LexLess(key[j], key[i])
                                                     \/ key[j] = key[i] /\ j < i }) + 1 = k
    BY <2>2
  <2> QED BY <1>1, <2>3, <2>4 DEF InOrder
<1> HIDE DEF key, R, P, n
<1>6. StrictOrder(P, R)
  <2>1. \A x, y, z \in P :
           /\ ~LexLess(key[x], key[x])
           /\ LexLess(key[x], key[y]) /\ LexLess(key[y], key[z]) => LexLess(key[x], key[z])
           /\ key[x] = key[y] \/ LexLess(key[x], key[y]) \/ LexLess(key[y], key[x])
    BY <1>3, LexOrder
  <2>2. \A a \in P : << a, a >> \notin R
    BY <1>1, <1>4, <2>1
  <2>3. ASSUME NEW a \in P, NEW b \in P, NEW c \in P, << a, b >> \in R, << b, c >> \in R
        PROVE  << a, c >> \in R
    <3>1. a \in Int /\ b \in Int /\ c \in Int
      BY <1>1
    <3>2. /\ LexLess(key[a], key[b]) \/ (key[a] = key[b] /\ a < b)
          /\ LexLess(key[b], key[c]) \/ (key[b] = key[c] /\ b < c)
      BY <1>4, <2>3
    <3>3. LexLess(key[a], key[c]) \/ (key[a] = key[c] /\ a < c)
      <4>1. CASE LexLess(key[a], key[b]) /\ LexLess(key[b], key[c])
        BY <2>1, <4>1
      <4>2. CASE LexLess(key[a], key[b]) /\ key[b] = key[c]
        BY <4>2
      <4>3. CASE key[a] = key[b] /\ LexLess(key[b], key[c])
        BY <4>3
      <4>4. CASE key[a] = key[b] /\ a < b /\ key[b] = key[c] /\ b < c
        BY <3>1, <4>4
      <4> QED BY <3>2, <4>1, <4>2, <4>3, <4>4
    <3> QED BY <1>4, <3>3
  <2>4. ASSUME NEW a \in P, NEW b \in P PROVE a = b \/ << a, b >> \in R \/ << b, a >> \in R
    <3>1. a \in Int /\ b \in Int
      BY <1>1
    <3> QED BY <1>4, <2>1, <3>1
  <2> QED BY <2>2, <2>3, <2>4 DEF StrictOrder
<1>7. /\ rank \in Bijection(P, 1 .. n)
      /\ \A a, b \in P : << a, b >> \in R => rank[a] < rank[b]
  <2> HIDE DEF rank
  <2>1. rank = [i \in P |-> Cardinality(Before(P, R, i)) + 1]
    BY DEF rank
  <2> QED BY <1>2, <1>6, <2>1, Numbered
<1> HIDE DEF rank
<1>8. Ordered(InOrder(items, P, rank, n), S, items, P, rank, n)
  BY <1>1, <1>7, ByRank
<1> HIDE DEF out
<1>9. /\ out \in Seq(S) /\ Len(out) = n
      /\ \A i \in P : rank[i] \in 1 .. n /\ out[rank[i]] = items[i]
      /\ \A k \in 1 .. n : \E i \in P : out[k] = items[i]
  BY <1>5, <1>8 DEF Ordered
<1>10. DOMAIN out = 1 .. n
  BY <1>9, LenProperties
<1>11. \A x : Has(out, x) <=> Has(items, x)
  BY <1>9, <1>10 DEF Has, P
<1>12. ASSUME NEW j \in P, items[j].severity = "error"
       PROVE  out # << >> /\ out[1].severity = "error"
  <2>1. 1 \in 1 .. n
    BY <1>1, <1>12
  <2>2. PICK i \in P : rank[i] = 1
    BY <1>7, <2>1 DEF Bijection, Surjection
  <2>3. out[1] = items[i]
    BY <1>9, <2>2
  <2>4. rank[j] \in 1 .. n
    BY <1>9
  <2>5. ~(rank[j] < rank[i])
    BY <1>1, <2>2, <2>4
  <2>6. items[i].severity = "error"
    <3> SUFFICES ASSUME items[i].severity # "error" PROVE FALSE
      OBVIOUS
    <3>1. key[j][1] = 0 /\ key[i][1] = 1
      BY <1>3, <1>12
    <3>2. LexLess(key[j], key[i])
      BY <3>1, LexLessIs
    <3> QED BY <1>4, <1>7, <2>5, <3>2
  <2>7. out # << >>
    BY <1>1, <1>9, <2>1
  <2> QED BY <2>3, <2>6, <2>7
<1> QED BY <1>9, <1>11, <1>12 DEF Heads, P, n, out

Asked == [severity : {"", "error"}, backend : Backend \cup {NoBackend}, limit : {0, 1}]

\* An item that the options let through.
Passes(x, opts) ==
    opts.severity \in {"", x.severity} /\ opts.backend \in {NoBackend, x.backend}

\* Of the items a report holds some, within the limit; each that passes, unless the
\* limit is reached; and first an error, if one passes.
Reports(out, items, opts) ==
    /\ opts.limit # 0 => Len(out) <= opts.limit
    /\ \A x : Has(out, x) => Has(items, x)
    /\ \A x : Has(items, x) /\ Passes(x, opts) =>
          Has(out, x) \/ (opts.limit # 0 /\ Len(out) = opts.limit)
    /\ (\E x : Has(items, x) /\ Passes(x, opts) /\ x.severity = "error") =>
          out # << >> /\ out[1].severity = "error"

\* What triage reports are items it had, and only the filters and the limit leave one out.
LEMMA TriagedIs ==
    ASSUME NEW S, S \subseteq OfItem, NEW items \in Seq(S), NEW opts \in Asked
    PROVE  Triaged(items, opts) \in Seq(S) /\ Reports(Triaged(items, opts), items, opts)
<1> DEFINE P == { i \in DOMAIN items : Passes(items[i], opts) }
           kept == EntriesAt(items, P)
           sorted == SortedItems(kept)
           out == Triaged(items, opts)
<1>1. kept = Kept(items, opts)
  BY DEF Kept, Passes
<1>2. /\ kept \in Seq(S)
      /\ { kept[k] : k \in DOMAIN kept } = { items[i] : i \in P }
  <2> HIDE DEF kept
  <2>1. P \subseteq DOMAIN items
    OBVIOUS
  <2> HIDE DEF P
  <2> QED BY <2>1, EntriesAre DEF kept
<1>3. \A x : Has(kept, x) <=> Has(items, x) /\ Passes(x, opts)
  <2>1. \A x : x \in { kept[k] : k \in DOMAIN kept } <=> Has(kept, x)
    <3> HIDE DEF kept
    <3> QED BY DEF Has
  <2>2. \A x : x \in { items[i] : i \in P } <=> Has(items, x) /\ Passes(x, opts)
    BY DEF Has
  <2> HIDE DEF kept, P
  <2> QED BY <1>2, <2>1, <2>2
<1>4. out = Cut(sorted, opts.limit)
  BY <1>1 DEF Triaged
<1> HIDE DEF kept
<1>5. sorted \in Seq(S) /\ Heads(sorted, kept)
  BY <1>2, SortedItemsAre
<1> HIDE DEF sorted, out, P
<1>6. /\ \A x : Has(sorted, x) <=> Has(items, x) /\ Passes(x, opts)
      /\ (\E x : Has(items, x) /\ Passes(x, opts) /\ x.severity = "error") =>
            sorted # << >> /\ sorted[1].severity = "error"
  <2>1. \A x : Has(sorted, x) <=> Has(items, x) /\ Passes(x, opts)
    BY <1>3, <1>5 DEF Heads
  <2>2. ASSUME NEW x, Has(items, x), Passes(x, opts), x.severity = "error"
        PROVE  sorted # << >> /\ sorted[1].severity = "error"
    <3>1. \E i \in DOMAIN kept : kept[i].severity = "error"
      BY <1>3, <2>2 DEF Has
    <3> QED BY <1>5, <3>1 DEF Heads
  <2> QED BY <2>1, <2>2
<1>7. opts.limit \in {0, 1}
  BY DEF Asked
<1>8. Len(sorted) \in Nat /\ DOMAIN sorted = 1 .. Len(sorted)
      /\ \A i \in 1 .. Len(sorted) : sorted[i] \in S
  BY <1>5, LenProperties, ElementOfSeq
<1>9. CASE ~(opts.limit > 0 /\ Len(sorted) > opts.limit)
  <2>1. out = sorted
    BY <1>4, <1>9 DEF Cut
  <2>2. opts.limit # 0 => Len(out) <= opts.limit
    BY <1>7, <1>8, <1>9, <2>1
  <2> QED BY <1>5, <1>6, <2>1, <2>2 DEF Reports, out
<1>10. CASE opts.limit > 0 /\ Len(sorted) > opts.limit
  <2>1. opts.limit = 1 /\ 1 \in 1 .. Len(sorted)
    BY <1>7, <1>8, <1>10
  <2>2. out = SubSeq(sorted, 1, 1)
    BY <1>4, <1>10, <2>1 DEF Cut
  <2>3. /\ SubSeq(sorted, 1, 1) \in Seq(S) /\ Len(SubSeq(sorted, 1, 1)) = 1
        /\ SubSeq(sorted, 1, 1)[1] = sorted[1]
    BY <1>8, <2>1, SubSeqProperties
  <2>4. out \in Seq(S) /\ Len(out) = 1 /\ out[1] = sorted[1] /\ DOMAIN out = {1}
    BY <2>2, <2>3, LenProperties
  <2>5. \A x : Has(out, x) => Has(sorted, x)
    BY <1>8, <2>1, <2>4 DEF Has
  <2>6. out # << >>
    BY <2>4, EmptySeq
  <2> QED BY <1>6, <2>1, <2>4, <2>5, <2>6 DEF Reports, out
<1> QED BY <1>9, <1>10

-----------------------------------------------------------------------------
(* The types of the variables *)

WorldInv ==
    /\ world \in [Backend -> Condition]
    /\ history \subseteq [Backend -> Condition] /\ IsFiniteSet(history) /\ world \in history
    /\ drifts \in 0 .. MaxDrifts /\ signalled \in BOOLEAN /\ kind \in Kinds

\* The worlds of the frame stay finitely many, with the present one among them.
LEMMA WorldStep ==
    ASSUME WorldInv, [Next]_vars
    PROVE  WorldInv'
<1> USE DEF WorldInv
<1>0. MaxDrifts \in Nat
  BY SurveyAssumption
<1>1. ASSUME NEW b \in Backend, Drift(b) PROVE WorldInv'
  <2>1. world' \in [Backend -> Condition] /\ history' = history \cup {world'}
    BY <1>1 DEF Drift
  <2>2. IsFiniteSet(history')
    BY <2>1, FS_AddElement
  <2>3. drifts' \in 0 .. MaxDrifts
    BY <1>0, <1>1 DEF Drift
  <2>4. signalled' \in BOOLEAN /\ kind' \in Kinds
    BY <1>1 DEF Drift
  <2> QED BY <2>1, <2>2, <2>3, <2>4
<1>2. CASE Signal
  BY <1>2 DEF Signal
<1>3. CASE Load
  <2>1. UNCHANGED << world, drifts, signalled, kind >>
    BY <1>3 DEF Load
  <2>2. history' = history \/ history' = {world}
    BY <1>3 DEF Load, LoadFails, ReadPrior
  <2>3. IsFiniteSet({world})
    BY FS_Singleton
  <2> QED BY <2>1, <2>2, <2>3
<1>4. CASE UNCHANGED << world, history, drifts, signalled, kind >>
  BY <1>4
<1> QED BY <1>1, <1>2, <1>3, <1>4 DEF Next, Step, vars, CheckAccess, ProbeReachable,
           ProbeInstalled, ProbeLoaded, EndRound, WriteFrame, WriteBatch, Ticks, Stops, Exit

Rounds == {"doctor", "inventory", "state", "route", "exposed", "models", "loaded", "model"}

RoundsOf(k) ==
    CASE k \in {"doctor", "fast", "triage"} -> {"doctor"}
      [] k \in {"backends", "listed"} -> {"inventory"}
      [] k \in {"models", "loaded", "model"} -> {k}
      [] k = "snapshot" -> {"state", "route"}
      [] OTHER -> {"doctor", "route", "exposed"}

\* The rounds to come of a command k with the tasks c: what they are about, one that
\* surveys first, and for status one that lists the models last.
PlanIs(p, c, k) ==
    /\ p \in Seq([round : Rounds, task : Nat \cup Name])
    /\ \A i \in 1 .. Len(p) :
         /\ p[i].round \in RoundsOf(k)
         /\ p[i].round = "route" => p[i].task \in DOMAIN c
         /\ p[i].round = "model" => p[i].task \in Name
         /\ i > 1 => p[i].round \in {"route", "exposed"}
    /\ p # << >> /\ k \in {"status", "watch", "events"} => p[Len(p)].round = "exposed"

\* A configuration, or none, is a sequence of tasks.
LEMMA ConfigIs ==
    ASSUME NEW c \in Configuration \cup {<< >>}
    PROVE  Tasked(c)
<1>1. CASE c \in Configuration
  BY <1>1, SurveyAssumption DEF Tasked
<1>2. CASE c = << >>
  BY <1>2 DEF Tasked
<1> QED BY <1>1, <1>2

\* A plan has the rounds of its kind, in the order the command makes them.
LEMMA PlansAre ==
    ASSUME NEW c, Tasked(c), kind = "snapshot" => c # << >>, kind \in Kinds, kind # "prior",
           NEW p \in Plans(c)
    PROVE  PlanIs(p, c, kind) /\ p # << >>
<1> DEFINE R == [round : Rounds, task : Nat \cup Name]
<1>0. DOMAIN c = 1 .. Len(c) /\ Len(c) \in Nat
  BY LenProperties DEF Tasked
<1>1. ASSUME NEW r, NEW t, p = << [round |-> r, task |-> t] >>, r \in Rounds, t \in Nat \cup Name,
             r \in RoundsOf(kind), r \notin {"route"}, r = "model" => t \in Name,
             kind \notin {"status", "watch", "events"}
      PROVE  PlanIs(p, c, kind) /\ p # << >>
  <2> DEFINE x == [round |-> r, task |-> t]
  <2>1. x \in R
    BY <1>1
  <2>2. p \in Seq(R) /\ Len(p) = 1 /\ p[1] = x /\ p # << >>
    <3> HIDE DEF R, x
    <3> QED BY <1>1, <2>1 DEF x
  <2>3. x.round = r /\ x.task = t
    OBVIOUS
  <2> HIDE DEF x
  <2> QED BY <1>1, <2>2, <2>3 DEF PlanIs
<1>2. CASE kind \in {"doctor", "fast", "triage"}
  BY <1>1, <1>2 DEF Plans, Rounds, RoundsOf
<1>3. CASE kind \in {"backends", "listed"}
  BY <1>1, <1>3 DEF Plans, Rounds, RoundsOf
<1>4. CASE kind \in {"models", "loaded"}
  BY <1>1, <1>4 DEF Plans, Rounds, RoundsOf
<1>5. CASE kind = "model"
  BY <1>1, <1>5 DEF Plans, Rounds, RoundsOf
<1>6. CASE kind = "snapshot"
  <2> DEFINE x == [round |-> "state", task |-> 0]
             y == [round |-> "route", task |-> 1]
  <2>1. p = << x, y >>
    BY <1>6 DEF Plans
  <2>2. x \in R /\ y \in R
    BY DEF Rounds
  <2>3. x.round = "state" /\ y.round = "route" /\ y.task = 1
    OBVIOUS
  <2>4. 1 \in DOMAIN c
    BY <1>0, <1>6, EmptySeq DEF Tasked
  <2> HIDE DEF x, y, R
  <2>5. p \in Seq(R) /\ Len(p) = 2 /\ p[1] = x /\ p[2] = y /\ p # << >>
    BY <2>1, <2>2
  <2>6. \A i \in 1 .. Len(p) : i = 1 \/ i = 2
    BY <2>5
  <2>7. RoundsOf(kind) = {"state", "route"}
    BY <1>6 DEF RoundsOf
  <2>8. \A i \in 1 .. Len(p) :
           /\ p[i].round \in RoundsOf(kind)
           /\ p[i].round = "route" => p[i].task \in DOMAIN c
           /\ p[i].round = "model" => p[i].task \in Name
           /\ i > 1 => p[i].round \in {"route", "exposed"}
    BY <2>3, <2>4, <2>5, <2>6, <2>7
  <2> QED BY <1>6, <2>5, <2>8 DEF PlanIs, R
<1>7. CASE kind \in {"status", "watch", "events"}
  <2> DEFINE x == [round |-> "doctor", task |-> 0]
             m == [t \in DOMAIN c |-> [round |-> "route", task |-> t]]
             y == [round |-> "exposed", task |-> 0]
  <2>1. p = (<< x >> \o m) \o << y >>
    BY <1>7 DEF Plans
  <2>2. x \in R /\ y \in R /\ \A t \in DOMAIN c : m[t] \in R
    BY <1>0 DEF Rounds
  <2>3. x.round = "doctor" /\ y.round = "exposed"
        /\ \A t \in DOMAIN c : m[t].round = "route" /\ m[t].task = t
    OBVIOUS
  <2>4. m = [t \in 1 .. Len(c) |-> m[t]]
    BY <1>0
  <2> HIDE DEF x, y, R, m
  <2>5. m \in Seq(R) /\ Len(m) = Len(c)
    <3>1. m \in Seq(R)
      BY <1>0, <2>2, <2>4, IsASeq
    <3>2. DOMAIN m = 1 .. Len(c) /\ DOMAIN m = 1 .. Len(m) /\ Len(m) \in Nat
      BY <2>4, <3>1, LenProperties
    <3>3. Len(c) + 1 \notin 1 .. Len(c) /\ Len(m) + 1 \notin 1 .. Len(m)
      BY <1>0, <3>2
    <3>4. ~(Len(m) < Len(c)) /\ ~(Len(c) < Len(m))
      <4>1. Len(m) < Len(c) => Len(m) + 1 \in 1 .. Len(c)
        BY <1>0, <3>2
      <4>2. Len(c) < Len(m) => Len(c) + 1 \in 1 .. Len(m)
        BY <1>0, <3>2
      <4> QED BY <3>2, <3>3, <4>1, <4>2
    <3> QED BY <1>0, <3>1, <3>2, <3>4
  <2>6. << x >> \in Seq(R) /\ Len(<< x >>) = 1 /\ << x >>[1] = x
        /\ << y >> \in Seq(R) /\ Len(<< y >>) = 1 /\ << y >>[1] = y
    BY <2>2
  <2> DEFINE q == << x >> \o m
  <2>7. q \in Seq(R) /\ Len(q) = Len(c) + 1
        /\ \A i \in 1 .. Len(c) + 1 : q[i] = IF i <= 1 THEN x ELSE m[i - 1]
    BY <1>0, <2>5, <2>6, ConcatProperties
  <2> HIDE DEF q
  <2>8. p \in Seq(R) /\ Len(p) = Len(c) + 2
        /\ \A i \in 1 .. Len(c) + 2 : p[i] = IF i <= Len(c) + 1 THEN q[i] ELSE << y >>[i - (Len(c) + 1)]
    <3>1. p = q \o << y >>
      BY <2>1 DEF q
    <3> QED BY <1>0, <2>6, <2>7, <3>1, ConcatProperties
  <2>9. ASSUME NEW i \in 1 .. Len(p)
        PROVE  \/ i = 1 /\ p[i] = x
               \/ i > 1 /\ i - 1 \in DOMAIN c /\ p[i] = m[i - 1]
               \/ i > 1 /\ i = Len(p) /\ p[i] = y
    <3>1. CASE i = 1
      BY <1>0, <2>7, <2>8, <3>1
    <3>2. CASE i > 1 /\ i <= Len(c) + 1
      <4>1. i - 1 \in DOMAIN c /\ i \in 1 .. Len(c) + 1 /\ i \in 1 .. Len(c) + 2 /\ ~(i <= 1)
        BY <1>0, <2>8, <3>2
      <4> QED BY <2>7, <2>8, <3>2, <4>1
    <3>3. CASE i > Len(c) + 1
      <4>1. i = Len(c) + 2 /\ i > 1 /\ i - (Len(c) + 1) = 1 /\ ~(i <= Len(c) + 1)
        BY <1>0, <2>8, <3>3
      <4> QED BY <1>0, <2>6, <2>8, <4>1
    <3> QED BY <1>0, <2>8, <3>1, <3>2, <3>3
  <2>10. RoundsOf(kind) = {"doctor", "route", "exposed"}
    BY <1>7 DEF RoundsOf
  <2>11. \A i \in 1 .. Len(p) :
           /\ p[i].round \in RoundsOf(kind)
           /\ p[i].round = "route" => p[i].task \in DOMAIN c
           /\ p[i].round = "model" => p[i].task \in Name
           /\ i > 1 => p[i].round \in {"route", "exposed"}
    BY <2>3, <2>9, <2>10
  <2>12. p[Len(p)].round = "exposed" /\ p # << >>
    <3>1. Len(p) \in 1 .. Len(p) /\ Len(p) = Len(c) + 2 /\ Len(p) # 0
      BY <1>0, <2>8
    <3>2. Len(p) - 1 \notin DOMAIN c /\ Len(p) # 1
      BY <1>0, <3>1
    <3> QED BY <2>3, <2>9, <3>1, <3>2, EmptySeq
  <2> QED BY <2>8, <2>11, <2>12 DEF PlanIs, R
<1> QED BY <1>2, <1>3, <1>4, <1>5, <1>6, <1>7, KindsAssumption

\* So are they when one is done.
LEMMA TailPlan ==
    ASSUME NEW p, NEW c, NEW k, PlanIs(p, c, k), p # << >>
    PROVE  /\ PlanIs(Tail(p), c, k) /\ Head(p) = p[1] /\ 1 \in 1 .. Len(p)
           /\ \A i \in 1 .. Len(Tail(p)) : Tail(p)[i].round \in {"route", "exposed"}
           /\ Tail(p) = << >> => Len(p) = 1
<1> DEFINE R == [round : Rounds, task : Nat \cup Name]
<1>1. p \in Seq(R) /\ Len(p) \in Nat \ {0} /\ Head(p) = p[1]
  BY EmptySeq DEF PlanIs
<1>2. /\ Tail(p) \in Seq(R) /\ Len(Tail(p)) = Len(p) - 1
      /\ \A i \in 1 .. Len(Tail(p)) : Tail(p)[i] = p[i + 1]
  <2> HIDE DEF R
  <2> QED BY <1>1, HeadTailProperties
<1> DEFINE q == Tail(p)
<1> HIDE DEF R, q
<1>3. \A i \in 1 .. Len(q) : q[i] = p[i + 1] /\ i + 1 \in 1 .. Len(p) /\ i + 1 > 1
  BY <1>1, <1>2 DEF q
<1>4. q = << >> <=> Len(q) = 0
  BY <1>2, EmptySeq DEF q
<1>5. q # << >> => q[Len(q)] = p[Len(p)]
  <2> SUFFICES ASSUME q # << >> PROVE q[Len(q)] = p[Len(p)]
    OBVIOUS
  <2>1. Len(q) \in 1 .. Len(q) /\ Len(q) + 1 = Len(p)
    BY <1>1, <1>2, <1>4 DEF q
  <2> QED BY <1>3, <2>1
<1>6. PlanIs(q, c, k)
  <2>1. q \in Seq(R)
    BY <1>2 DEF q
  <2>2. \A i \in 1 .. Len(q) :
         /\ q[i].round \in RoundsOf(k)
         /\ q[i].round = "route" => q[i].task \in DOMAIN c
         /\ q[i].round = "model" => q[i].task \in Name
         /\ i > 1 => q[i].round \in {"route", "exposed"}
    BY <1>3 DEF PlanIs
  <2>3. q # << >> /\ k \in {"status", "watch", "events"} => q[Len(q)].round = "exposed"
    BY <1>5 DEF PlanIs, q
  <2> QED BY <2>1, <2>2, <2>3 DEF PlanIs, R
<1>7. \A i \in 1 .. Len(q) : q[i].round \in {"route", "exposed"}
  BY <1>3 DEF PlanIs
<1> QED BY <1>1, <1>2, <1>4, <1>6, <1>7 DEF q

\* Where the command is.
PlaceInv ==
    /\ kind \in Kinds /\ config \in Configuration \cup {<< >>} /\ PlanIs(plan, config, kind)
    /\ pc \in {"load", "access", "reachable", "installed", "loaded", "write", "batch",
               "wait", "exit", "done"}
    /\ at \in 1 .. Len(Order) + 1
    /\ frames \in 0 .. MaxFrames /\ tail \in {"nothing", "frame", "batch", "error"}
    /\ exit \in {0, 1, 3, 4}
    /\ Begun => plan # << >> /\ frames < MaxFrames /\ kind # "prior"
    /\ pc = "write" => frames < MaxFrames
    /\ pc \in {"load", "write", "batch", "wait"} => plan = << >>
    /\ pc = "reachable" => kind \notin {"models", "loaded", "model"}
    /\ pc = "installed" => kind \notin {"fast", "listed", "loaded"}
    /\ pc = "loaded" => kind \notin {"fast", "listed"}

\* The first question of a round, by kind of command.
LEMMA EntryIs ==
    /\ Entry \in {"reachable", "installed", "loaded"}
    /\ Entry = "reachable" => kind \notin {"models", "loaded", "model"}
    /\ Entry = "installed" <=> kind = "models"
    /\ Entry = "loaded" <=> kind \in {"loaded", "model"}
BY DEF Entry

\* No step leaves the plan, or the backends in their order.
LEMMA PlaceStep ==
    ASSUME PlaceInv, [Next]_vars
    PROVE  PlaceInv'
<1> USE DEF PlaceInv, Begun, Asking
<1>0. MaxFrames \in Nat /\ Len(Order) \in Nat
  BY SurveyAssumption, OrderIs
<1>1. ASSUME NEW b \in Backend, Drift(b) PROVE PlaceInv'
  BY <1>1 DEF Drift
<1>2. CASE Signal
  BY <1>2 DEF Signal
<1>3. CASE Load
  <2>1. UNCHANGED << kind, frames >> /\ pc = "load" /\ frames < MaxFrames
    BY <1>3 DEF Load
  <2>2. CASE LoadFails
    BY <2>1, <2>2 DEF LoadFails, Fail
  <2>3. CASE ReadPrior
    BY <2>1, <2>3 DEF ReadPrior
  <2>4. CASE /\ kind # "prior"
             /\ config' \in { c \in Configuration : kind = "snapshot" => c # << >> }
             /\ plan' \in Plans(config')
             /\ pc' = (IF kind \in {"backends", "listed", "models", "loaded"} THEN Entry ELSE "access")
             /\ at' = 1 /\ UNCHANGED << tail, code, exit >>
    <3>1. PICK c \in Configuration : config' = c /\ (kind = "snapshot" => c # << >>)
      BY <2>4
    <3>2. PICK p \in Plans(c) : plan' = p
      BY <2>4, <3>1
    <3>3. PlanIs(p, c, kind) /\ p # << >>
      BY <2>4, <3>1, ConfigIs, PlansAre
    <3>4. PlanIs(plan, config, kind)' /\ plan' # << >>
      BY <2>1, <3>1, <3>2, <3>3
    <3>5. /\ pc' \in {"access", "reachable", "installed", "loaded"}
          /\ pc' = "reachable" => kind \notin {"models", "loaded", "model"}
          /\ pc' = "installed" => kind \notin {"fast", "listed", "loaded"}
          /\ pc' = "loaded" => kind \notin {"fast", "listed"}
      BY <2>4, EntryIs
    <3> QED BY <1>0, <2>1, <2>4, <3>1, <3>4, <3>5
  <2> QED BY <1>3, <2>2, <2>3, <2>4 DEF Load
<1>4. CASE CheckAccess
  BY <1>0, <1>4, EntryIs DEF CheckAccess, Refused, Fail
<1>5. CASE ProbeReachable
  <2>1. /\ UNCHANGED << kind, config, plan, frames >> /\ pc = "reachable"
        /\ at \in 1 .. Len(Order)
    BY <1>0, <1>5 DEF ProbeReachable
  <2>2. CASE kind \notin {"fast", "listed"} /\ pc' = "installed" /\ UNCHANGED << at, tail, exit >>
    BY <2>1, <2>2
  <2>3. CASE UNCHANGED << pc, tail, exit >> /\ at' = at + 1
    BY <1>0, <2>1, <2>3
  <2>4. CASE Refused /\ UNCHANGED at
    BY <2>1, <2>4 DEF Refused, Fail
  <2>5. CASE Answers(Order[at])
    BY <1>5, <2>2, <2>3, <2>5 DEF ProbeReachable
  <2>6. CASE ~Answers(Order[at])
    <3>1. CASE kind \in {"backends", "listed"} /\ Refuses(Order[at])
      BY <1>5, <2>4, <2>6, <3>1 DEF ProbeReachable
    <3>2. CASE ~(kind \in {"backends", "listed"} /\ Refuses(Order[at]))
      <4>1. UNCHANGED << pc, probe, tail, code, exit >> /\ PassDown
        BY <1>5, <2>6, <3>2 DEF ProbeReachable
      <4> QED BY <2>3, <4>1 DEF PassDown
    <3> QED BY <3>1, <3>2
  <2> QED BY <2>5, <2>6
<1>6. CASE ProbeInstalled
  BY <1>0, <1>6, EntryIs DEF ProbeInstalled, Refused, Fail
<1>7. CASE ProbeLoaded
  BY <1>0, <1>7, EntryIs DEF ProbeLoaded, Refused, Fail
<1>8. CASE EndRound
  <2>1. UNCHANGED << kind, config, frames >> /\ Begun
    BY <1>8, EntryIs DEF EndRound
  <2>2. CASE pc' = "exit" /\ UNCHANGED << plan, at >> /\ tail' = "error" /\ exit' \in {1, 4}
    BY <2>1, <2>2
  <2>3. CASE /\ plan' = Tail(plan) /\ at' = 1 /\ UNCHANGED << tail, code, exit >>
             /\ pc' = IF Tail(plan) = << >> THEN "write" ELSE Entry
    <3>1. PlanIs(plan', config, kind)
      BY <2>1, <2>3, TailPlan
    <3>2. PlanIs(plan, config, kind)'
      BY <2>1, <3>1
    <3> HIDE DEF Entry
    <3> QED BY <1>0, <2>1, <2>3, <3>2, EntryIs
  <2> QED BY <1>8, <2>2, <2>3 DEF EndRound, Fail
<1>9. CASE WriteFrame
  BY <1>0, <1>9 DEF WriteFrame
<1>10. CASE WriteBatch
  BY <1>10 DEF WriteBatch
<1>11. CASE Ticks
  BY <1>11 DEF Ticks
<1>12. CASE Stops
  BY <1>12 DEF Stops, Stoppable
<1>13. CASE Exit
  BY <1>13 DEF Exit
<1>14. CASE UNCHANGED vars
  BY <1>14 DEF vars
<1> QED BY <1>1, <1>2, <1>3, <1>4, <1>5, <1>6, <1>7, <1>8, <1>9, <1>10, <1>11, <1>12, <1>13,
            <1>14 DEF Next, Step

\* The parts of a frame.
FrameTyped(f) ==
    /\ f = [survey |-> f.survey, routes |-> f.routes, exposed |-> f.exposed,
            warnings |-> f.warnings, action |-> f.action, items |-> f.items,
            commands |-> f.commands, asked |-> f.asked, probed |-> f.probed]
    /\ f.survey \in Probe
    /\ f.routes \in Seq(Decision)
    /\ f.exposed \subseteq Backend \X Name \X BOOLEAN
    /\ \A w \in f.warnings : w.code \in WarningCodes
    /\ f.items \in Seq(OfItem)
    /\ f.asked \in Asked /\ (f.asked.limit # 0 => Len(f.items) <= f.asked.limit)

FramesInv ==
    /\ probe \in Probe /\ FrameTyped(draft) /\ FrameTyped(previous)
    /\ Begun => draft.asked = Unlimited

\* What has not been probed, asked or drafted is typed.
LEMMA NothingIs ==
    /\ NothingProbed \in Probe /\ Unlimited \in Asked /\ Options \subseteq Asked
    /\ FrameTyped(NoFrame)
<1>1. NothingProbed \in Probe
  BY DEF NothingProbed, Probe
<1>2. Unlimited \in Asked
  BY DEF Unlimited, Asked
<1>3. Options \subseteq Asked
  BY <1>2 DEF Options, Asked
<1>4. << >> \in Seq(Decision) /\ << >> \in Seq(OfItem) /\ Unlimited.limit = 0
  BY DEF Unlimited
<1>5. FrameTyped(NoFrame)
  <2> HIDE DEF OfItem, Unlimited
  <2> QED BY <1>1, <1>2, <1>4 DEF FrameTyped, NoFrame
<1> QED BY <1>1, <1>2, <1>3, <1>5

\* A report is a frame, of items of those it is made of.
Made(f, items, opts) ==
    /\ FrameTyped(f) /\ f.routes = << >> /\ f.exposed = {} /\ f.warnings = {} /\ f.probed = FALSE
    /\ f.survey = NothingProbed /\ f.asked = opts /\ Reports(f.items, items, opts)

\* That is what Report makes.
LEMMA ReportIs ==
    ASSUME NEW items \in Seq(OfItem), NEW commands, NEW opts \in Asked
    PROVE  Made(Report(items, commands, opts), items, opts)
<1> DEFINE out == Triaged(items, opts)
<1>1. out \in Seq(OfItem) /\ Reports(out, items, opts)
  BY TriagedIs
<1>2. opts.limit # 0 => Len(out) <= opts.limit
  BY <1>1 DEF Reports
<1> HIDE DEF out
<1>3. Report(items, commands, opts)
        = [NoFrame EXCEPT !.items = out, !.commands = commands, !.asked = opts]
  BY DEF Report, out
<1> DEFINE f == Report(items, commands, opts)
<1>4. FrameTyped(f)
  BY <1>1, <1>2, <1>3, NothingIs DEF FrameTyped
<1>5. /\ f.routes = << >> /\ f.exposed = {} /\ f.warnings = {} /\ f.probed = FALSE
      /\ f.survey = NothingProbed /\ f.asked = opts /\ f.items = out
  BY <1>3 DEF NoFrame
<1> HIDE DEF f
<1>6. Made(f, items, opts)
  BY <1>1, <1>4, <1>5 DEF Made
<1> QED BY <1>6 DEF f

\* What becomes of a probe when a backend in this state is listed, and when it is not.
Listed(q, p, field, b, state) ==
    /\ q \in Probe /\ q.reachable = p.reachable /\ q.degraded = p.degraded
    /\ \A x \in Backend :
         /\ q.installed[x] = IF field = "installed" /\ x = b THEN state.installed ELSE p.installed[x]
         /\ q.loaded[x] = IF field = "loaded" /\ x = b THEN state.loaded ELSE p.loaded[x]

Unlisted(q, p, field, b) ==
    /\ q \in Probe /\ q.reachable = p.reachable
    /\ q.installed = p.installed /\ q.loaded = p.loaded
    /\ q.degraded = p.degraded \cup {<< b, field >>}

\* A listing, answered or not, changes one field of what was probed, for one backend.
LEMMA ListingIs ==
    ASSUME WorldInv, probe \in Probe, NEW b \in Backend, NEW field \in {"installed", "loaded"}
    PROVE  IF Answers(b) /\ world[b].lists THEN Listed(Listing(field, b), probe, field, b, world[b])
           ELSE Unlisted(Listing(field, b), probe, field, b)
<1>1. world[b].installed \in SUBSET Name /\ world[b].loaded \in SUBSET Name
  BY SurveyAssumption DEF WorldInv
<1>2. CASE Answers(b) /\ world[b].lists
  <2>1. Listing(field, b) = [probe EXCEPT ![field] = [@ EXCEPT ![b] = world[b][field]]]
    BY <1>2 DEF Listing
  <2>2. CASE field = "installed"
    BY <1>1, <1>2, <2>1, <2>2 DEF Listed, Probe
  <2>3. CASE field = "loaded"
    BY <1>1, <1>2, <2>1, <2>3 DEF Listed, Probe
  <2> QED BY <2>2, <2>3
<1>3. CASE ~(Answers(b) /\ world[b].lists)
  <2>1. Listing(field, b) = [probe EXCEPT !.degraded = @ \cup {<< b, field >>}]
    BY <1>3 DEF Listing
  <2>2. << b, field >> \in Backend \X {"installed", "loaded"}
    OBVIOUS
  <2>3. Unlisted(Listing(field, b), probe, field, b)
    BY <2>1, <2>2 DEF Unlisted, Probe
  <2> QED BY <1>3, <2>3
<1> QED BY <1>2, <1>3

\* The frame that a finished round makes is one.
LEMMA RecordedTyped ==
    ASSUME PlaceInv, FramesInv, Begun, ~Unroutable, NEW opts \in Options
    PROVE  FrameTyped(Recorded(opts))
<1>1. /\ probe \in Probe /\ FrameTyped(draft) /\ draft.asked = Unlimited /\ Unlimited.limit = 0
      /\ opts \in Asked
  BY NothingIs DEF FramesInv, Unlimited
<1>2. /\ Tasked(config) /\ PlanIs(plan, config, kind) /\ plan # << >>
      /\ Round = plan[1] /\ 1 \in 1 .. Len(plan)
  BY ConfigIs, TailPlan DEF PlaceInv, Round
<1>3. /\ Round.round \in Rounds
      /\ Round.round = "route" => Round.task \in DOMAIN config
      /\ Round.round = "model" => Round.task \in Name
      /\ kind = "triage" => Round.round = "doctor"
  <2>1. plan[1] \in [round : Rounds, task : Nat \cup Name]
    BY <1>2, ElementOfSeq DEF PlanIs
  <2>2. kind = "triage" => RoundsOf(kind) = {"doctor"}
    BY DEF RoundsOf
  <2> QED BY <1>2, <2>1, <2>2 DEF PlanIs
<1>4. CASE kind = "triage"
  <2> DEFINE items == draft.items \o DoctorItems(config, probe, probe.degraded)
             f == Report(items, DoctorCommands(config, probe), opts)
  <2>1. Recorded(opts) = [f EXCEPT !.survey = probe, !.probed = TRUE]
    BY <1>3, <1>4 DEF Recorded
  <2>2. DoctorItems(config, probe, probe.degraded) \in Seq(OfItem)
    <3>1. DoctorItems(config, probe, probe.degraded) \in Seq(OfDoctor(probe))
      BY <1>2, DoctorItemsAre DEF Doctors
    <3>2. OfDoctor(probe) \subseteq OfItem
      BY DEF OfDoctor
    <3> QED BY <3>1, <3>2, SeqMonotonic
  <2>3. items \in Seq(OfItem)
    BY <1>1, <2>2, HasConcat DEF FrameTyped
  <2> HIDE DEF items
  <2>4. FrameTyped(f)
    BY <1>1, <2>3, ReportIs DEF Made
  <2> HIDE DEF f
  <2> QED BY <1>1, <2>1, <2>4 DEF FrameTyped
<1>5. CASE kind # "triage" /\ Round.round = "doctor"
  <2> DEFINE W == DoctorWarnings(config, probe, probe.degraded)
  <2>1. Recorded(opts) = [draft EXCEPT !.survey = probe, !.warnings = W]
    BY <1>5 DEF Recorded
  <2>2. \A w \in W : w.code \in WarningCodes
    BY DoctorWarningsAre DEF Warns
  <2> HIDE DEF W
  <2> QED BY <1>1, <2>1, <2>2 DEF FrameTyped
<1>6. CASE kind # "triage" /\ Round.round = "inventory"
  <2>1. Recorded(opts) = [draft EXCEPT !.survey = probe]
    BY <1>6 DEF Recorded
  <2> QED BY <1>1, <2>1 DEF FrameTyped
<1>7. CASE kind # "triage" /\ Round.round = "state"
  <2> DEFINE W == DoctorWarnings(<< >>, probe, probe.degraded)
  <2>1. Recorded(opts) = [draft EXCEPT !.survey = probe, !.warnings = W]
    BY <1>7 DEF Recorded
  <2>2. \A w \in W : w.code \in WarningCodes
    BY DoctorWarningsAre DEF Warns
  <2> HIDE DEF W
  <2> QED BY <1>1, <2>1, <2>2 DEF FrameTyped
<1>8. CASE kind # "triage" /\ Round.round = "route"
  <2> DEFINE r == Route(Round.task, probe)
             W == WarningsOf(Round.task, r, probe)
  <2>1. Recorded(opts) = [draft EXCEPT !.routes = Append(@, r), !.warnings = @ \cup W]
    BY <1>8 DEF Recorded
  <2>2. r \in Decision
    <3>1. Decides(r, config[Round.task].route, probe)
      BY <1>2, <1>3, <1>8, RouteIs DEF Tasked
    <3>2. r.found
      BY <1>8 DEF Unroutable
    <3> QED BY <3>1, <3>2 DEF Decides
  <2>3. \A w \in W : w.code \in WarningCodes
    BY RouteWarningsAre DEF Warns
  <2> HIDE DEF W, r
  <2>4. Append(draft.routes, r) \in Seq(Decision)
    BY <1>1, <2>2, AppendProperties DEF FrameTyped
  <2> QED BY <1>1, <2>1, <2>3, <2>4 DEF FrameTyped
<1>9. CASE kind # "triage" /\ Round.round \in {"exposed", "models", "loaded", "model"}
  <2>1. \A N \in SUBSET Name : Rows(N) \subseteq Backend \X Name \X BOOLEAN
    <3> SUFFICES ASSUME NEW N \in SUBSET Name, NEW b \in Backend, NEW m \in N
                 PROVE  << b, m, m \in probe.loaded[b] >> \in Backend \X Name \X BOOLEAN
      BY DEF Rows
    <3>1. (m \in probe.loaded[b]) \in BOOLEAN
      OBVIOUS
    <3> QED BY <3>1
  <2>2. Exposed \subseteq Rows(Name) /\ Name \in SUBSET Name
    BY DEF Exposed
  <2>3. \E E : Recorded(opts) = [draft EXCEPT !.exposed = E] /\ E \subseteq Rows(Name)
    BY <1>9, <2>2 DEF Recorded
  <2> QED BY <1>1, <2>1, <2>2, <2>3 DEF FrameTyped
<1> QED BY <1>3, <1>4, <1>5, <1>6, <1>7, <1>8, <1>9 DEF Rounds

\* But for triage it leaves the items as they were.
LEMMA RecordedKeeps ==
    ASSUME PlaceInv, FramesInv, Begun, kind # "triage", NEW opts
    PROVE  /\ Recorded(opts).asked = draft.asked
           /\ Recorded(opts).items = draft.items /\ Recorded(opts).probed = draft.probed
<1>1. Round = plan[1] /\ 1 \in 1 .. Len(plan)
  BY TailPlan DEF PlaceInv, Round
<1>2. Round.round \in Rounds
  <2>1. plan[1] \in [round : Rounds, task : Nat \cup Name]
    BY <1>1, ElementOfSeq DEF PlaceInv, PlanIs
  <2> QED BY <1>1, <2>1
<1>3. FrameTyped(draft)
  BY DEF FramesInv
<1>4. CASE Round.round \in {"doctor", "inventory", "state"}
  BY <1>3, <1>4 DEF Recorded, FrameTyped
<1>5. CASE Round.round = "route"
  BY <1>3, <1>5 DEF Recorded, FrameTyped
<1>6. CASE Round.round \in {"exposed", "models", "loaded", "model"}
  BY <1>3, <1>6 DEF Recorded, FrameTyped
<1> QED BY <1>2, <1>4, <1>5, <1>6 DEF Rounds

\* Every step keeps the probe and the frames typed.
LEMMA FramesStep ==
    ASSUME WorldInv, PlaceInv, FramesInv, [Next]_vars
    PROVE  FramesInv'
<1> USE DEF FramesInv
<1>0. Len(Order) \in Nat /\ (at <= Len(Order) /\ PlaceInv => Order[at] \in Backend)
  BY OrderIs DEF PlaceInv
<1>1. CASE /\ UNCHANGED << probe, draft, previous >>
           /\ Begun' => Begun
  BY <1>1
<1>2. ASSUME NEW b \in Backend, Drift(b) PROVE FramesInv'
  BY <1>1, <1>2 DEF Drift, Begun, Asking
<1>3. CASE Signal
  BY <1>1, <1>3 DEF Signal, Begun, Asking
<1>4. CASE Load
  <2>1. UNCHANGED previous /\ Options \subseteq Asked
    BY <1>4, NothingIs DEF Load
  <2>2. CASE LoadFails
    <3>1. CASE kind = "triage"
      <4>1. PICK opts \in Options : draft' = Report(<< LoadItem >>, << >>, opts)
        BY <2>2, <3>1 DEF LoadFails
      <4>2. << LoadItem >> \in Seq(OfItem)
        BY ItemsTyped, OneOf
      <4>3. FrameTyped(draft')
        BY <2>1, <4>1, <4>2, ReportIs DEF Made
      <4>4. probe' = probe /\ ~Begun'
        BY <2>2, <3>1 DEF LoadFails, Begun, Asking
      <4> QED BY <2>1, <4>3, <4>4
    <3>2. CASE kind # "triage"
      <4>1. UNCHANGED << probe, draft >> /\ ~Begun'
        BY <2>2, <3>2 DEF LoadFails, Fail, Begun, Asking
      <4> QED BY <1>1, <2>1, <4>1
    <3> QED BY <3>1, <3>2
  <2>3. CASE ReadPrior
    <3>1. PICK opts \in Options, b \in Backend :
             \E items \in { << RefusalItem(b) >>, << UnreachableItem(b), FindingItem("error", b) >> } :
                draft' = Report(items, << Command("backends", b) >>, opts)
      BY <2>3 DEF ReadPrior
    <3>2. PICK items \in { << RefusalItem(b) >>, << UnreachableItem(b), FindingItem("error", b) >> } :
              draft' = Report(items, << Command("backends", b) >>, opts)
      BY <3>1
    <3>3. items \in Seq(OfItem)
      <4>1. RefusalItem(b) \in OfItem /\ UnreachableItem(b) \in OfItem
            /\ FindingItem("error", b) \in OfItem
        BY ItemsTyped
      <4>2. << RefusalItem(b) >> \in Seq(OfItem)
        BY <4>1
      <4>3. << UnreachableItem(b), FindingItem("error", b) >> \in Seq(OfItem)
        BY <4>1
      <4> QED BY <4>2, <4>3
    <3>4. FrameTyped(draft')
      BY <2>1, <3>2, <3>3, ReportIs DEF Made
    <3>5. probe' = probe /\ ~Begun'
      BY <2>3 DEF ReadPrior, Begun, Asking
    <3> QED BY <2>1, <3>4, <3>5
  <2>4. CASE /\ probe' = NothingProbed
             /\ \E findings \in {<< >>} \cup { f \in { << FindingItem("warning", b) >> : b \in Backend } :
                                                kind = "triage" } :
                   draft' = [NoFrame EXCEPT !.items = findings]
    <3>1. PICK findings \in {<< >>} \cup { << FindingItem("warning", b) >> : b \in Backend } :
                   draft' = [NoFrame EXCEPT !.items = findings]
      BY <2>4
    <3>2. findings \in Seq(OfItem)
      <4>1. \A b \in Backend : << FindingItem("warning", b) >> \in Seq(OfItem)
        BY ItemsTyped, OneOf
      <4>2. << >> \in Seq(OfItem)
        OBVIOUS
      <4>3. findings = << >> \/ \E b \in Backend : findings = << FindingItem("warning", b) >>
        BY <3>1
      <4> QED BY <4>1, <4>2, <4>3
    <3>3. FrameTyped(draft') /\ draft'.asked = Unlimited
      <4>1. NoFrame.asked = Unlimited /\ Unlimited.limit = 0
        BY DEF NoFrame, Unlimited
      <4> QED BY <3>1, <3>2, <4>1, NothingIs DEF FrameTyped
    <3> QED BY <2>1, <2>4, <3>3, NothingIs
  <2> QED BY <1>4, <2>2, <2>3, <2>4 DEF Load
<1>5. CASE CheckAccess
  <2>1. UNCHANGED << probe, previous >> /\ Begun
    BY <1>5 DEF CheckAccess, Begun
  <2>2. CASE UNCHANGED draft
    BY <2>1, <2>2
  <2>3. CASE /\ at <= Len(Order)
             /\ draft' = [draft EXCEPT !.items = IF Refuses(Order[at])
                                                 THEN Append(@, RefusalItem(Order[at])) ELSE @]
    <3>1. Append(draft.items, RefusalItem(Order[at])) \in Seq(OfItem)
      BY <1>0, <2>3, ItemsTyped, AppendProperties DEF FrameTyped
    <3>2. PICK items \in Seq(OfItem) : draft' = [draft EXCEPT !.items = items]
      BY <2>3, <3>1 DEF FrameTyped
    <3>3. draft.asked = Unlimited /\ Unlimited.limit = 0
      BY <2>1 DEF Unlimited
    <3>4. FrameTyped(draft') /\ draft'.asked = Unlimited
      BY <3>2, <3>3 DEF FrameTyped
    <3> QED BY <2>1, <3>4
  <2> QED BY <1>5, <2>2, <2>3 DEF CheckAccess
<1>6. CASE ProbeReachable
  <2>1. UNCHANGED << draft, previous >> /\ Begun
    BY <1>6 DEF ProbeReachable, Begun, Asking
  <2>2. probe' = probe \/ probe' = [probe EXCEPT !.reachable = @ \cup {Order[at]}]
    BY <1>6 DEF ProbeReachable
  <2>3. Order[at] \in Backend
    BY <1>0, <1>6 DEF ProbeReachable
  <2>4. probe' \in Probe
    BY <2>2, <2>3 DEF Probe
  <2> QED BY <2>1, <2>4
<1>7. CASE ProbeInstalled \/ ProbeLoaded
  <2>1. UNCHANGED << draft, previous >> /\ Begun /\ Order[at] \in Backend
    BY <1>0, <1>7 DEF ProbeInstalled, ProbeLoaded, Begun, Asking
  <2>2. \/ probe' = probe \/ probe' = Listing("installed", Order[at])
        \/ probe' = Listing("loaded", Order[at])
    BY <1>7 DEF ProbeInstalled, ProbeLoaded
  <2>3. \A f \in {"installed", "loaded"} : Listing(f, Order[at]) \in Probe
    BY <2>1, ListingIs DEF Listed, Unlisted
  <2> QED BY <2>1, <2>2, <2>3
<1>8. CASE EndRound
  <2>1. UNCHANGED previous /\ Begun /\ pc # "access"
    BY <1>8, EntryIs DEF EndRound, Begun, Asking
  <2>2. CASE UNCHANGED << probe, draft >>
    BY <2>1, <2>2
  <2>3. CASE /\ ~Unroutable /\ probe' = NothingProbed
             /\ \E opts \in Options : draft' = Recorded(opts)
             /\ pc' = IF Tail(plan) = << >> THEN "write" ELSE Entry
    <3>1. FrameTyped(draft')
      BY <2>1, <2>3, RecordedTyped
    <3>3. Begun' => draft'.asked = Unlimited
      <4> SUFFICES ASSUME Begun' PROVE draft'.asked = Unlimited
        OBVIOUS
      <4>1. Tail(plan) # << >>
        BY <2>3 DEF Begun, Asking
      <4>2. kind # "triage"
        <5>1. PlanIs(plan, config, kind) /\ plan # << >>
          BY <2>1 DEF PlaceInv
        <5>2. /\ PlanIs(Tail(plan), config, kind)
              /\ \A i \in 1 .. Len(Tail(plan)) : Tail(plan)[i].round \in {"route", "exposed"}
          BY <5>1, TailPlan
        <5>3. 1 \in 1 .. Len(Tail(plan))
          BY <4>1, <5>2, EmptySeq DEF PlanIs
        <5>4. Tail(plan)[1].round \in RoundsOf(kind) /\ Tail(plan)[1].round \in {"route", "exposed"}
          BY <5>2, <5>3 DEF PlanIs
        <5> QED BY <5>4 DEF RoundsOf
      <4>3. PICK opts \in Options : draft' = Recorded(opts)
        BY <2>3
      <4>4. Recorded(opts).asked = draft.asked
        BY <2>1, <4>2, RecordedKeeps
      <4>5. draft.asked = Unlimited
        BY <2>1
      <4> QED BY <4>3, <4>4, <4>5, Zenon
    <3> QED BY <2>1, <2>3, <3>1, <3>3, NothingIs
  <2> QED BY <1>8, <2>2, <2>3 DEF EndRound
<1>9. CASE WriteFrame
  <2>1. probe' = probe /\ draft' = Finished /\ previous' \in {previous, draft'} /\ ~Begun'
    BY <1>9 DEF WriteFrame, Begun, Asking
  <2>2. FrameTyped(Finished)
    <3>1. \E a : Finished = [draft EXCEPT !.action = a]
      BY DEF Finished
    <3> QED BY <3>1 DEF FrameTyped
  <2> QED BY <2>1, <2>2
<1>10. CASE WriteBatch
  BY <1>10 DEF WriteBatch, Begun, Asking
<1>11. CASE Ticks \/ Stops \/ Exit
  BY <1>1, <1>11 DEF Ticks, Stops, Exit, Begun, Asking
<1>12. CASE UNCHANGED vars
  BY <1>1, <1>12 DEF vars, Begun, Asking
<1> QED BY <1>2, <1>3, <1>4, <1>5, <1>6, <1>7, <1>8, <1>9, <1>10, <1>11, <1>12 DEF Next, Step

TypeInv == WorldInv /\ PlaceInv /\ FramesInv

\* The three parts of the type invariant hold together, each step needing the others.
LEMMA TypeInvHolds == Spec => []TypeInv
<1>1. Init => TypeInv
  <2> SUFFICES ASSUME Init PROVE TypeInv
    OBVIOUS
  <2>1. WorldInv
    <3>1. MaxDrifts \in Nat /\ IsFiniteSet({world})
      BY SurveyAssumption, FS_Singleton
    <3>2. world \in [Backend -> Condition] /\ history = {world}
      BY SurveyAssumption DEF Init
    <3>3. drifts = 0 /\ signalled = FALSE /\ kind \in Kinds
      BY DEF Init
    <3>4. /\ history \subseteq [Backend -> Condition] /\ IsFiniteSet(history) /\ world \in history
          /\ drifts \in 0 .. MaxDrifts
      BY <3>1, <3>2, <3>3
    <3>5. signalled \in BOOLEAN
      BY <3>3
    <3> QED BY <3>2, <3>3, <3>4, <3>5, Zenon DEF WorldInv
  <2>2. PlaceInv
    <3>1. MaxFrames \in Nat /\ Len(Order) \in Nat
      BY SurveyAssumption, OrderIs
    <3>2. PlanIs(<< >>, config, kind)
      BY DEF PlanIs
    <3>3. /\ kind \in Kinds /\ config = << >> /\ pc = "load" /\ plan = << >> /\ at = 1
          /\ frames = 0 /\ tail = "nothing" /\ exit = 0
      BY DEF Init
    <3> QED BY <3>1, <3>2, <3>3 DEF PlaceInv, Begun, Asking
  <2>3. FramesInv
    BY NothingIs DEF Init, FramesInv, Begun, Asking
  <2> QED BY <2>1, <2>2, <2>3 DEF TypeInv
<1>2. TypeInv /\ [Next]_vars => TypeInv'
  BY WorldStep, PlaceStep, FramesStep DEF TypeInv
<1> QED BY <1>1, <1>2, PTL DEF Spec

\* Every frame and probe is one, and a frame holds no more items than were asked for:
\* types and bounds of all variables, whatever the backends, names and configurations.
THEOREM TypeCorrect == Spec => []TypeOK
<1>1. TypeInv => TypeOK
  <2> SUFFICES ASSUME TypeInv PROVE TypeOK
    OBVIOUS
  <2>1. \A p \in Probe : IsProbe(p)
    BY DEF Probe, IsProbe
  <2>2. ASSUME NEW f, FrameTyped(f) PROVE IsFrame(f)
    <3>1. f.items \in Seq(OfItem) /\ \A i \in DOMAIN f.items : f.items[i] \in OfItem
      BY <2>2, ElementOfSeq, LenProperties DEF FrameTyped
    <3>2. \A i \in DOMAIN f.items : f.items[i].backend \in Backend \cup {NoBackend}
      BY <3>1 DEF OfItem
    <3> QED BY <2>1, <2>2, <3>2 DEF FrameTyped, IsFrame
  <2>3. IsProbe(probe) /\ IsFrame(draft) /\ IsFrame(previous)
    BY <2>1, <2>2 DEF TypeInv, FramesInv
  <2> QED BY <2>3 DEF TypeInv, WorldInv, PlaceInv, TypeOK
<1> QED BY <1>1, TypeInvHolds, PTL

-----------------------------------------------------------------------------
(* What the events teach *)

\* A frame as a whole is a captured state.
LEMMA GlobalIs ==
    ASSUME NEW f, FrameTyped(f)
    PROVE  IsState(GlobalSnapshot(f)) /\ GlobalSnapshot(f).task = "status"
<1>0. IsFiniteSet(Backend) /\ Backend \subseteq Subject
  BY OrderIs, NamesAre
<1> DEFINE st == [b \in Backend |-> IF b \in f.survey.reachable THEN "reachable"
                                    ELSE "unreachable:backend_unreachable"]
           W == Codes(f.warnings)
           n == Cardinality({ x \in Backend \X Name : x[2] \in f.survey.loaded[x[1]] })
           g == GlobalSnapshot(f)
<1>1. g = [task |-> "status", route |-> << >>, fallback |-> FALSE, ready |-> FALSE,
           status |-> st, warnings |-> W, errors |-> {}, action |-> f.action,
           loaded |-> n, installed |-> 0]
  BY DEF GlobalSnapshot
<1>2. DOMAIN st = Backend /\ st = [b \in DOMAIN st |-> st[b]]
      /\ \A b \in DOMAIN st : st[b] # ""
  OBVIOUS
<1>3. W \subseteq Subject /\ IsFiniteSet(W)
  <2>1. W \subseteq WarningCodes
    BY DEF Codes, FrameTyped
  <2>2. IsFiniteSet(WarningCodes)
    <3>1. ASSUME NEW a, NEW b PROVE IsFiniteSet({a, b})
      <4>1. {a, b} = {a} \cup {b} /\ IsFiniteSet({a})
        BY FS_Singleton
      <4> QED BY <4>1, FS_AddElement
    <3>2. IsFiniteSet({"W_FALLBACK_USED", "W_MODEL_NOT_LOADED"} \cup {"W_MODEL_NOT_INSTALLED"})
      BY <3>1, FS_AddElement
    <3>3. IsFiniteSet({"W_BACKEND_UNREACHABLE", "W_BACKEND_DEGRADED"})
      BY <3>1
    <3>4. WarningCodes = ({"W_FALLBACK_USED", "W_MODEL_NOT_LOADED"} \cup {"W_MODEL_NOT_INSTALLED"})
                           \cup {"W_BACKEND_UNREACHABLE", "W_BACKEND_DEGRADED"}
      BY DEF WarningCodes
    <3> QED BY <3>2, <3>3, <3>4, FS_Union
  <2>3. WarningCodes \subseteq Subject
    BY NamesAre DEF WarningCodes
  <2> QED BY <2>1, <2>2, <2>3, FS_Subset
<1>4. "status" \in Subject /\ IsFiniteSet({})
  BY NamesAre, FS_EmptySet
<1> HIDE DEF st, W, n, g
<1>5. IsState(g)
  <2>1. /\ g.task = "status" /\ g.route = << >> /\ g.fallback = FALSE /\ g.ready = FALSE
        /\ g.status = st /\ g.warnings = W /\ g.errors = {} /\ g.action = f.action
        /\ g.loaded = n /\ g.installed = 0
    BY <1>1
  <2>2. g = [task |-> g.task, route |-> g.route, fallback |-> g.fallback, ready |-> g.ready,
             status |-> g.status, warnings |-> g.warnings, errors |-> g.errors,
             action |-> g.action, loaded |-> g.loaded, installed |-> g.installed]
    BY <1>1
  <2>3. g.fallback \in BOOLEAN /\ g.ready \in BOOLEAN
    BY <2>1
  <2>4. g.status = [b \in DOMAIN g.status |-> g.status[b]]
        /\ \A b \in DOMAIN g.status : g.status[b] # ""
    BY <1>2, <2>1
  <2>5. IsFiniteSet(DOMAIN g.status) /\ IsFiniteSet(g.warnings) /\ IsFiniteSet(g.errors)
    BY <1>0, <1>2, <1>3, <1>4, <2>1
  <2>6. {g.task} \cup DOMAIN g.status \cup g.warnings \cup g.errors
          \cup (IF g.route = << >> THEN {} ELSE {g.route[2]}) \subseteq Subject
    BY <1>0, <1>2, <1>3, <1>4, <2>1
  <2> QED BY <2>2, <2>3, <2>4, <2>5, <2>6 DEF IsState, Subject
<1> QED BY <1>1, <1>5 DEF g

\* A task of a frame has a place, and what is told of it is a truth value.
LEMMA PlacementIs ==
    ASSUME NEW f, FrameTyped(f), NEW t \in Tasks(f)
    PROVE  RouteSnapshot(f, t).fallback \in BOOLEAN /\ RouteSnapshot(f, t).ready \in BOOLEAN
<1> DEFINE k == CHOOSE x \in DOMAIN f.routes : f.routes[x].task = t
           r == f.routes[k]
<1>1. f.routes \in Seq(Decision) /\ \E x \in DOMAIN f.routes : f.routes[x].task = t
  BY DEF Tasks, FrameTyped
<1>2. k \in DOMAIN f.routes
  BY <1>1
<1>3. r \in Decision
  BY <1>1, <1>2, LenProperties, ElementOfSeq
<1>4. RouteSnapshot(f, t).fallback = r.fallback /\ RouteSnapshot(f, t).ready = r.ready
  BY DEF RouteSnapshot
<1> QED BY <1>3, <1>4 DEF Decision

\* The changes of a task are of its route, its fallback and its readiness, the last
\* under the model's name.
LEMMA PlacementEvents ==
    ASSUME NEW f, NEW g, NEW t, NEW b, b = Placement(f, t), NEW a, a = Placement(g, t),
           NEW E, E = EventsOf(Changes(RouteSnapshot(f, t), RouteSnapshot(g, t)))
    PROVE  \A e : e \in E <=>
             \/ b.route # a.route /\ e = << "selected_route", t, b.route, a.route >>
             \/ b.fallback # a.fallback /\ e = << "fallback_status", t, b.fallback, a.fallback >>
             \/ b.ready # a.ready
                /\ e = << "selected_model_readiness", a.route[2], b.ready, a.ready >>
<1> DEFINE B == RouteSnapshot(f, t)
           A == RouteSnapshot(g, t)
           C == Changes(B, A)
           Asp(k) == [type |-> k, about |-> t]
           Ev(x) == << x.type, C[x].subject, C[x].before, C[x].after >>
<1>1. /\ B.task = t /\ B.status = << >> /\ A.status = << >>
      /\ B.warnings = {} /\ A.warnings = {} /\ B.errors = {} /\ A.errors = {}
      /\ B.action = << >> /\ A.action = << >> /\ B.loaded = 0 /\ A.loaded = 0
      /\ B.installed = 0 /\ A.installed = 0
  BY DEF RouteSnapshot
<1>2. /\ B.route = b.route /\ B.fallback = b.fallback /\ B.ready = b.ready
      /\ A.route = a.route /\ A.fallback = a.fallback /\ A.ready = a.ready
  BY DEF Placement
<1>3. A.route # << >>
  BY DEF RouteSnapshot
<1> HIDE DEF B, A
<1>4. /\ DOMAIN C = { x \in Aspects(B, A) : ValueOf(B, x) # ValueOf(A, x) }
      /\ \A x \in DOMAIN C :
           C[x] = [subject |-> IF x.type # "selected_model_readiness" THEN x.about
                               ELSE IF A.route = << >> THEN "" ELSE A.route[2],
                   before |-> ValueOf(B, x), after |-> ValueOf(A, x)]
  BY DEF Changes
<1>5. E = { Ev(x) : x \in DOMAIN C }
  BY DEF EventsOf, B, A
<1>6. /\ Asp("selected_route") \in Aspects(B, A) /\ Asp("fallback_status") \in Aspects(B, A)
      /\ Asp("selected_model_readiness") \in Aspects(B, A)
  BY <1>1 DEF Aspects, About
<1>7. \A s : /\ ValueOf(s, Asp("selected_route")) = s.route
             /\ ValueOf(s, Asp("fallback_status")) = s.fallback
             /\ ValueOf(s, Asp("selected_model_readiness")) = s.ready
  BY DEF ValueOf
<1>8. ASSUME NEW x \in DOMAIN C
      PROVE  x \in { Asp("selected_route"), Asp("fallback_status"), Asp("selected_model_readiness") }
  <2>1. x \in Aspects(B, A) /\ ValueOf(B, x) # ValueOf(A, x)
    BY <1>4
  <2>2. x \in About({"selected_route", "fallback_status", "selected_model_readiness",
                     "recommended_action"}, {t})
        \/ x \in About({"loaded_model_count", "installed_model_count"}, {"models"})
    BY <1>1, <2>1 DEF Aspects, About
  <2>3. ASSUME x \in About({"loaded_model_count", "installed_model_count"}, {"models"}) PROVE FALSE
    <3>1. x.type \in {"loaded_model_count", "installed_model_count"}
      BY <2>3 DEF About
    <3> QED BY <1>1, <2>1, <3>1 DEF ValueOf
  <2>4. x.type # "recommended_action"
    BY <1>1, <2>1 DEF ValueOf
  <2>5. PICK k \in {"selected_route", "fallback_status", "selected_model_readiness",
                    "recommended_action"} : x = [type |-> k, about |-> t]
    BY <2>2, <2>3 DEF About
  <2>6. x.type = k
    BY <2>5
  <2> QED BY <2>4, <2>5, <2>6
<1>9. /\ Asp("selected_route") \in DOMAIN C <=> b.route # a.route
      /\ Asp("fallback_status") \in DOMAIN C <=> b.fallback # a.fallback
      /\ Asp("selected_model_readiness") \in DOMAIN C <=> b.ready # a.ready
  <2>1. \A x \in Aspects(B, A) : x \in DOMAIN C <=> ValueOf(B, x) # ValueOf(A, x)
    BY <1>4
  <2> HIDE DEF C, Asp
  <2>2. Asp("selected_route") \in DOMAIN C <=> B.route # A.route
    BY <1>6, <1>7, <2>1
  <2>3. Asp("fallback_status") \in DOMAIN C <=> B.fallback # A.fallback
    BY <1>6, <1>7, <2>1
  <2>4. Asp("selected_model_readiness") \in DOMAIN C <=> B.ready # A.ready
    BY <1>6, <1>7, <2>1
  <2> QED BY <1>2, <2>2, <2>3, <2>4
<1>10. /\ b.route # a.route => Ev(Asp("selected_route")) = << "selected_route", t, b.route, a.route >>
       /\ b.fallback # a.fallback
            => Ev(Asp("fallback_status")) = << "fallback_status", t, b.fallback, a.fallback >>
       /\ b.ready # a.ready
            => Ev(Asp("selected_model_readiness"))
                 = << "selected_model_readiness", a.route[2], b.ready, a.ready >>
  <2>1. ASSUME b.route # a.route
        PROVE  C[Asp("selected_route")] = [subject |-> t, before |-> b.route, after |-> a.route]
    BY <1>2, <1>4, <1>7, <1>9, <2>1
  <2>2. ASSUME b.fallback # a.fallback
        PROVE  C[Asp("fallback_status")] = [subject |-> t, before |-> b.fallback, after |-> a.fallback]
    BY <1>2, <1>4, <1>7, <1>9, <2>2
  <2>3. ASSUME b.ready # a.ready
        PROVE  C[Asp("selected_model_readiness")]
                 = [subject |-> a.route[2], before |-> b.ready, after |-> a.ready]
    BY <1>2, <1>3, <1>4, <1>7, <1>9, <2>3
  <2> HIDE DEF C
  <2> QED BY <2>1, <2>2, <2>3
<1> HIDE DEF C, Ev, Asp
<1> QED BY <1>5, <1>8, <1>9, <1>10

\* The changes of the whole are of other kinds, and named for what they are about.
LEMMA GlobalEvents ==
    ASSUME NEW f, FrameTyped(f), NEW g, FrameTyped(g),
           NEW C, C = Changes(GlobalSnapshot(f), GlobalSnapshot(g)), NEW x \in DOMAIN C
    PROVE  /\ x = [type |-> x.type, about |-> x.about] /\ x.type \notin PlacementKinds
           /\ C[x].subject = x.about
           /\ C[x] = [subject |-> C[x].subject, before |-> C[x].before, after |-> C[x].after]
<1> DEFINE B == GlobalSnapshot(f)
           A == GlobalSnapshot(g)
<1>1. /\ B.route = << >> /\ A.route = << >> /\ B.fallback = FALSE /\ A.fallback = FALSE
      /\ B.ready = FALSE /\ A.ready = FALSE
  BY DEF GlobalSnapshot
<1>2. IsState(B) /\ IsState(A)
  BY GlobalIs
<1> HIDE DEF B, A
<1>3. C = Changes(B, A)
  BY DEF B, A
<1>4. DOMAIN C = { y \in Aspects(B, A) : ValueOf(B, y) # ValueOf(A, y) }
      /\ x = [type |-> x.type, about |-> x.about]
  BY <1>2, <1>3, ChangesTyped
<1>5. x.type \notin PlacementKinds
  BY <1>1, <1>4 DEF ValueOf, PlacementKinds
<1>6. C[x] = [subject |-> IF x.type # "selected_model_readiness" THEN x.about
                          ELSE IF A.route = << >> THEN "" ELSE A.route[2],
              before |-> ValueOf(B, x), after |-> ValueOf(A, x)]
  BY <1>3 DEF Changes
<1>7. C[x] = [subject |-> x.about, before |-> ValueOf(B, x), after |-> ValueOf(A, x)]
  BY <1>5, <1>6 DEF PlacementKinds
<1>8. C[x].subject = x.about /\ C[x].before = ValueOf(B, x) /\ C[x].after = ValueOf(A, x)
  BY <1>7
<1>9. C[x] = [subject |-> C[x].subject, before |-> C[x].before, after |-> C[x].after]
  BY <1>7, <1>8, Zenon
<1> QED BY <1>4, <1>5, <1>8, <1>9

\* So a reader finds the changes of the whole among the events.
LEMMA GlobalTold ==
    ASSUME NEW f, FrameTyped(f), NEW g, FrameTyped(g)
    PROVE  GlobalChanges(Events(f, g)) = Changes(GlobalSnapshot(f), GlobalSnapshot(g))
<1> DEFINE C == Changes(GlobalSnapshot(f), GlobalSnapshot(g))
           T == { e \in Events(f, g) : e[1] \notin PlacementKinds }
           Ev(x) == << x.type, C[x].subject, C[x].before, C[x].after >>
           At(x) == CHOOSE e \in T : e[1] = x.type /\ e[2] = x.about
           Asp(e) == [type |-> e[1], about |-> e[2]]
<1>1. C = [x \in DOMAIN C |-> C[x]]
  BY DEF Changes
<1>2. \A x \in DOMAIN C :
        /\ x = [type |-> x.type, about |-> x.about] /\ x.type \notin PlacementKinds
        /\ C[x].subject = x.about
        /\ C[x] = [subject |-> C[x].subject, before |-> C[x].before, after |-> C[x].after]
  BY GlobalEvents
<1>3. GlobalChanges(Events(f, g))
        = [x \in { Asp(e) : e \in T } |->
             [subject |-> At(x)[2], before |-> At(x)[3], after |-> At(x)[4]]]
  BY DEF GlobalChanges
<1>4. EventsOf(C) = { Ev(x) : x \in DOMAIN C }
  BY DEF EventsOf
<1>5. ASSUME NEW t \in CommonTasks(f, g),
             NEW e \in EventsOf(Changes(RouteSnapshot(f, t), RouteSnapshot(g, t)))
      PROVE  e[1] \in PlacementKinds
  BY PlacementEvents DEF PlacementKinds
<1>6. Events(f, g) = EventsOf(C)
        \cup UNION { EventsOf(Changes(RouteSnapshot(f, t), RouteSnapshot(g, t))) :
                       t \in CommonTasks(f, g) }
  BY DEF Events
<1> HIDE DEF C
<1>7. T = { Ev(x) : x \in DOMAIN C }
  <2>1. ASSUME NEW x \in DOMAIN C PROVE Ev(x) \in T
    <3>1. Ev(x)[1] = x.type /\ x.type \notin PlacementKinds
      BY <1>2
    <3>2. Ev(x) \in Events(f, g)
      BY <1>4, <1>6
    <3> HIDE DEF Ev
    <3> QED BY <3>1, <3>2
  <2>2. ASSUME NEW e \in T PROVE e \in { Ev(x) : x \in DOMAIN C }
    BY <1>4, <1>5, <1>6
  <2> QED BY <2>1, <2>2
<1> HIDE DEF T
<1>8. ASSUME NEW x \in DOMAIN C PROVE Ev(x)[1] = x.type /\ Ev(x)[2] = x.about /\ Asp(Ev(x)) = x
  BY <1>2
<1>9. { Asp(e) : e \in T } = DOMAIN C
  BY <1>7, <1>8
<1>10. ASSUME NEW x \in DOMAIN C
       PROVE  [subject |-> At(x)[2], before |-> At(x)[3], after |-> At(x)[4]] = C[x]
  <2>1. At(x) \in T /\ At(x)[1] = x.type /\ At(x)[2] = x.about
    <3>1. Ev(x) \in T /\ Ev(x)[1] = x.type /\ Ev(x)[2] = x.about
      BY <1>7, <1>8
    <3> HIDE DEF Ev
    <3> QED BY <3>1
  <2> HIDE DEF At
  <2>2. PICK y \in DOMAIN C : At(x) = Ev(y)
    BY <1>7, <2>1
  <2>3. y.type = x.type /\ y.about = x.about
    BY <1>8, <2>1, <2>2
  <2>4. y = x
    BY <1>2, <2>3
  <2>5. /\ At(x)[2] = C[x].subject /\ At(x)[3] = C[x].before /\ At(x)[4] = C[x].after
    BY <2>2, <2>4
  <2> QED BY <1>2, <2>5
<1> QED BY <1>1, <1>3, <1>9, <1>10 DEF C

\* And of a task that stays its new route and fallback.
LEMMA PlacementTold ==
    ASSUME NEW f, FrameTyped(f), NEW g, FrameTyped(g), NEW t \in CommonTasks(f, g),
           NEW E, E = Events(f, g)
    PROVE  /\ Told(E, "selected_route", t, Placement(f, t).route) = Placement(g, t).route
           /\ Told(E, "fallback_status", t, Placement(f, t).fallback) = Placement(g, t).fallback
<1> DEFINE G == EventsOf(Changes(GlobalSnapshot(f), GlobalSnapshot(g)))
           P(u) == EventsOf(Changes(RouteSnapshot(f, u), RouteSnapshot(g, u)))
<1>1. E = G \cup UNION { P(u) : u \in CommonTasks(f, g) }
  BY DEF Events
<1>2. \A u : \A e : e \in P(u) <=>
         \/ Placement(f, u).route # Placement(g, u).route
            /\ e = << "selected_route", u, Placement(f, u).route, Placement(g, u).route >>
         \/ Placement(f, u).fallback # Placement(g, u).fallback
            /\ e = << "fallback_status", u, Placement(f, u).fallback, Placement(g, u).fallback >>
         \/ Placement(f, u).ready # Placement(g, u).ready
            /\ e = << "selected_model_readiness", Placement(g, u).route[2],
                      Placement(f, u).ready, Placement(g, u).ready >>
  BY PlacementEvents
<1>3. \A e \in G : e[1] \notin PlacementKinds
  BY GlobalEvents DEF EventsOf
<1> HIDE DEF G, P
<1>4. ASSUME NEW e \in E, e[1] = "selected_route", e[2] = t
      PROVE  e[4] = Placement(g, t).route
  <2>1. PICK u \in CommonTasks(f, g) : e \in P(u)
    BY <1>1, <1>3, <1>4 DEF PlacementKinds
  <2>2. e = << "selected_route", u, Placement(f, u).route, Placement(g, u).route >>
    BY <1>2, <1>4, <2>1
  <2> QED BY <1>4, <2>2
<1>5. ASSUME NEW e \in E, e[1] = "fallback_status", e[2] = t
      PROVE  e[4] = Placement(g, t).fallback
  <2>1. PICK u \in CommonTasks(f, g) : e \in P(u)
    BY <1>1, <1>3, <1>5 DEF PlacementKinds
  <2>2. e = << "fallback_status", u, Placement(f, u).fallback, Placement(g, u).fallback >>
    BY <1>2, <1>5, <2>1
  <2> QED BY <1>5, <2>2
<1>6. ASSUME ~ \E e \in E : e[1] = "selected_route" /\ e[2] = t
      PROVE  Placement(f, t).route = Placement(g, t).route
  <2> SUFFICES ASSUME Placement(f, t).route # Placement(g, t).route PROVE FALSE
    OBVIOUS
  <2> DEFINE e == << "selected_route", t, Placement(f, t).route, Placement(g, t).route >>
  <2>1. e \in P(t) /\ e[1] = "selected_route" /\ e[2] = t
    BY <1>2
  <2>2. e \in E
    BY <1>1, <2>1
  <2> QED BY <1>6, <2>1, <2>2
<1>7. ASSUME ~ \E e \in E : e[1] = "fallback_status" /\ e[2] = t
      PROVE  Placement(f, t).fallback = Placement(g, t).fallback
  <2> SUFFICES ASSUME Placement(f, t).fallback # Placement(g, t).fallback PROVE FALSE
    OBVIOUS
  <2> DEFINE e == << "fallback_status", t, Placement(f, t).fallback, Placement(g, t).fallback >>
  <2>1. e \in P(t) /\ e[1] = "fallback_status" /\ e[2] = t
    BY <1>2
  <2>2. e \in E
    BY <1>1, <2>1
  <2> QED BY <1>7, <2>1, <2>2
<1> QED BY <1>4, <1>5, <1>6, <1>7 DEF Told

\* Whether its model is ready, if no other task selects the same model.
LEMMA ReadinessTold ==
    ASSUME NEW f, FrameTyped(f), NEW g, FrameTyped(g), NEW t \in CommonTasks(f, g),
           NEW E, E = Events(f, g), t \notin Ambiguous(f, g, E),
           NEW m, m = Placement(g, t).route[2],
           NEW old, old = Placement(f, t).ready, NEW new, new = Placement(g, t).ready
    PROVE  << "selected_model_readiness", m, old, ~old >> \in E <=> new # old
<1> DEFINE G == EventsOf(Changes(GlobalSnapshot(f), GlobalSnapshot(g)))
           P(u) == EventsOf(Changes(RouteSnapshot(f, u), RouteSnapshot(g, u)))
           e == << "selected_model_readiness", m, old, ~old >>
<1>1. E = G \cup UNION { P(u) : u \in CommonTasks(f, g) }
  BY DEF Events
<1>2. \A u : \A x : x \in P(u) <=>
         \/ Placement(f, u).route # Placement(g, u).route
            /\ x = << "selected_route", u, Placement(f, u).route, Placement(g, u).route >>
         \/ Placement(f, u).fallback # Placement(g, u).fallback
            /\ x = << "fallback_status", u, Placement(f, u).fallback, Placement(g, u).fallback >>
         \/ Placement(f, u).ready # Placement(g, u).ready
            /\ x = << "selected_model_readiness", Placement(g, u).route[2],
                      Placement(f, u).ready, Placement(g, u).ready >>
  BY PlacementEvents
<1>3. \A x \in G : x[1] \notin PlacementKinds
  BY GlobalEvents DEF EventsOf
<1>4. old \in BOOLEAN /\ new \in BOOLEAN
  <2>1. t \in Tasks(f) /\ t \in Tasks(g)
    BY DEF CommonTasks
  <2> QED BY <2>1, PlacementIs DEF Placement
<1>5. e[1] = "selected_model_readiness" /\ e[2] = m /\ e[3] = old /\ e[4] = ~old
  OBVIOUS
<1> HIDE DEF G, P
<1>6. ASSUME e \in E PROVE new # old
  <2>1. PICK u \in CommonTasks(f, g) : e \in P(u)
    BY <1>1, <1>3, <1>5, <1>6 DEF PlacementKinds
  <2>2. e = << "selected_model_readiness", Placement(g, u).route[2],
               Placement(f, u).ready, Placement(g, u).ready >>
    <3> HIDE DEF e
    <3> QED BY <1>2, <1>5, <2>1
  <2>3. Placement(g, u).route[2] = m /\ Placement(g, u).ready = ~old
    BY <2>2
  <2>4. u = t
    BY <1>5, <1>6, <2>1, <2>3 DEF Ambiguous
  <2> QED BY <1>4, <2>3, <2>4
<1>7. ASSUME new # old PROVE e \in E
  <2>1. new = ~old
    BY <1>4, <1>7
  <2>2. e = << "selected_model_readiness", Placement(g, t).route[2],
               Placement(f, t).ready, Placement(g, t).ready >>
    BY <2>1
  <2> HIDE DEF e
  <2>3. e \in P(t)
    BY <1>2, <1>7, <2>2
  <2> QED BY <1>1, <2>3
<1> QED BY <1>6, <1>7

\* What the reader's knowledge has to do with a frame.
Informed(k, f) ==
    /\ k.global = GlobalSnapshot(f)
    /\ DOMAIN k.placed \subseteq Tasks(f)
    /\ \A t \in DOMAIN k.placed :
         /\ k.placed[t].route = Placement(f, t).route
         /\ k.placed[t].fallback = Placement(f, t).fallback
         /\ k.placed[t].ready = Placement(f, t).ready \/ t \in k.unsure

\* A reader who knows a frame and is told the events to the next knows the next.
LEMMA EventsTeach ==
    ASSUME NEW f, FrameTyped(f), NEW g, FrameTyped(g), NEW E, E = Events(f, g),
           NEW k, Informed(k, f)
    PROVE  Informed(Taught(k, f, g, E), g)
<1> DEFINE D == DOMAIN k.placed \cap Tasks(g)
           n == Taught(k, f, g, E)
<1>1. /\ n.global = Apply(k.global, GlobalChanges(E))
      /\ n.placed = [t \in D |-> TaughtPlacement(t, k.placed[t], E)]
      /\ n.unsure = k.unsure \cup Ambiguous(f, g, E)
  BY DEF Taught
<1>2. n.global = GlobalSnapshot(g)
  BY <1>1, GlobalTold, GlobalIs, ApplyExplains DEF Informed
<1> HIDE DEF n
<1>3. ASSUME NEW t \in D
      PROVE  /\ n.placed[t].route = Placement(g, t).route
             /\ n.placed[t].fallback = Placement(g, t).fallback
             /\ n.placed[t].ready = Placement(g, t).ready \/ t \in n.unsure
  <2> DEFINE p == k.placed[t]
             r == Told(E, "selected_route", t, p.route)
  <2>1. t \in CommonTasks(f, g)
    BY DEF Informed, CommonTasks
  <2>2. /\ p.route = Placement(f, t).route /\ p.fallback = Placement(f, t).fallback
        /\ p.ready = Placement(f, t).ready \/ t \in k.unsure
    BY DEF Informed
  <2>3. /\ r = Placement(g, t).route
        /\ Told(E, "fallback_status", t, p.fallback) = Placement(g, t).fallback
    BY <2>1, <2>2, PlacementTold
  <2>4. n.placed[t] = TaughtPlacement(t, p, E)
    BY <1>1
  <2>5. /\ n.placed[t].route = r
        /\ n.placed[t].fallback = Told(E, "fallback_status", t, p.fallback)
        /\ n.placed[t].ready = IF << "selected_model_readiness", r[2], p.ready, ~p.ready >> \in E
                               THEN ~p.ready ELSE p.ready
    BY <2>4 DEF TaughtPlacement
  <2> HIDE DEF p, r
  <2>6. ASSUME t \notin n.unsure PROVE n.placed[t].ready = Placement(g, t).ready
    <3>1. t \notin k.unsure /\ t \notin Ambiguous(f, g, E)
      BY <1>1, <2>6
    <3>2. p.ready = Placement(f, t).ready
      BY <2>2, <3>1
    <3>3. << "selected_model_readiness", r[2], p.ready, ~p.ready >> \in E
            <=> Placement(g, t).ready # p.ready
      BY <2>1, <2>3, <3>1, <3>2, ReadinessTold
    <3>4. p.ready \in BOOLEAN /\ Placement(g, t).ready \in BOOLEAN
      <4>1. t \in Tasks(f) /\ t \in Tasks(g)
        BY <2>1 DEF CommonTasks
      <4> QED BY <3>2, <4>1, PlacementIs DEF Placement
    <3> QED BY <2>5, <3>3, <3>4
  <2> QED BY <2>3, <2>5, <2>6
<1> QED BY <1>1, <1>2, <1>3 DEF Informed, n

EventsInv == kind = "events" /\ frames > 0 => Informed(replay, previous)

\* After each batch, or frame without one, a reader of the events alone knows what the
\* last frame says of the whole and of the tasks that stayed, but for the readiness of a
\* model that several of them select (diffStatusSnapshots, runStatusWatch).
THEOREM EventsTaught == Spec => []EventsTeachFrames
<1>1. Init => EventsInv
  <2>1. Init => frames = 0
    BY DEF Init
  <2> QED BY <2>1 DEF EventsInv
<1>2. TypeInv /\ TypeInv' /\ EventsInv /\ [Next]_vars => EventsInv'
  <2> SUFFICES ASSUME TypeInv, TypeInv', EventsInv, [Next]_vars PROVE EventsInv'
    OBVIOUS
  <2>1. FrameTyped(previous) /\ FrameTyped(draft') /\ FrameTyped(draft) /\ frames \in Nat
    BY SurveyAssumption DEF TypeInv, FramesInv, PlaceInv
  <2>2. CASE UNCHANGED << kind, frames, replay, previous >>
    BY <2>2 DEF EventsInv
  <2>3. CASE WriteFrame
    <3>1. UNCHANGED kind /\ frames' = frames + 1
      BY <2>3 DEF WriteFrame
    <3>2. CASE kind # "events"
      BY <3>1, <3>2 DEF EventsInv
    <3>3. CASE kind = "events" /\ frames = 0
      <4>1. previous' = draft' /\ replay' = Known(draft')
        BY <2>3, <3>3 DEF WriteFrame, Streams
      <4>2. Informed(Known(draft'), draft')
        BY DEF Informed, Known
      <4> QED BY <4>1, <4>2 DEF EventsInv
    <3>4. CASE kind = "events" /\ frames # 0 /\ Events(previous, draft') # {}
      <4>1. UNCHANGED << previous, replay >>
        BY <2>3, <3>4 DEF WriteFrame, Streams
      <4> QED BY <2>1, <3>1, <3>4, <4>1 DEF EventsInv
    <3>5. CASE kind = "events" /\ frames # 0 /\ Events(previous, draft') = {}
      <4>1. previous' = draft' /\ replay' = Taught(replay, previous, draft', {})
        BY <2>3, <3>5 DEF WriteFrame, Streams
      <4>2. Informed(replay, previous)
        BY <2>1, <3>5 DEF EventsInv
      <4>3. Informed(replay', draft')
        BY <2>1, <3>5, <4>1, <4>2, EventsTeach
      <4> QED BY <4>1, <4>3 DEF EventsInv
    <3> QED BY <3>2, <3>3, <3>4, <3>5
  <2>4. CASE WriteBatch
    <3>1. UNCHANGED << kind, frames >> /\ previous' = draft
          /\ replay' = Taught(replay, previous, draft, Events(previous, draft))
      BY <2>4 DEF WriteBatch
    <3>2. kind = "events" /\ frames > 0 => Informed(replay', draft)
      BY <2>1, <3>1, EventsTeach DEF EventsInv
    <3> QED BY <3>1, <3>2 DEF EventsInv
  <2>5. ASSUME NEW b \in Backend, Drift(b) PROVE UNCHANGED << kind, frames, replay, previous >>
    BY <2>5 DEF Drift
  <2>6. CASE Signal \/ Load \/ CheckAccess \/ ProbeReachable \/ ProbeInstalled \/ ProbeLoaded
             \/ EndRound \/ Ticks \/ Stops \/ Exit \/ UNCHANGED vars
    BY <2>2, <2>6 DEF Signal, Load, CheckAccess, ProbeReachable, ProbeInstalled, ProbeLoaded,
         EndRound, Ticks, Stops, Exit, vars
  <2> QED BY <2>2, <2>3, <2>4, <2>5, <2>6 DEF Next, Step
<1>3. EventsInv => EventsTeachFrames
  BY DEF EventsInv, EventsTeachFrames, Informed
<1> QED BY <1>1, <1>2, <1>3, TypeInvHolds, PTL DEF Spec

-----------------------------------------------------------------------------
(* What a round learns *)

\* That something was so in one of the worlds H.
Holds(w, b, m) == Up(w, b) /\ w[b].lists /\ m \in w[b].loaded

SawUp(H, b)         == \E w \in H : Up(w, b)
SawDown(H, b)       == \E w \in H : ~Up(w, b)
SawListing(H, b)    == \E w \in H : Up(w, b) /\ w[b].lists
SawRefusing(H, b)   == \E w \in H : w[b].health = "refusing"
SawAccepting(H, b)  == \E w \in H : w[b].health # "refusing"
SawServing(H, b, m) == \E w \in H : Serves(w, b, m)
SawLacking(H, b, m) == \E w \in H : ~Serves(w, b, m)
SawHolding(H, b, m) == \E w \in H : Holds(w, b, m)
SawCold(H, b, m)    == \E w \in H : ~Holds(w, b, m)

\* What was so in one world was so in one of more.
LEMMA StillSeen ==
    ASSUME NEW H, NEW G, H \subseteq G, NEW b
    PROVE  /\ SawUp(H, b) => SawUp(G, b)
           /\ SawDown(H, b) => SawDown(G, b)
           /\ SawListing(H, b) => SawListing(G, b)
           /\ SawRefusing(H, b) => SawRefusing(G, b)
           /\ SawAccepting(H, b) => SawAccepting(G, b)
           /\ \A m : /\ SawServing(H, b, m) => SawServing(G, b, m)
                     /\ SawLacking(H, b, m) => SawLacking(G, b, m)
                     /\ SawHolding(H, b, m) => SawHolding(G, b, m)
                     /\ SawCold(H, b, m) => SawCold(G, b, m)
BY DEF SawUp, SawDown, SawListing, SawRefusing, SawAccepting, SawServing, SawLacking,
       SawHolding, SawCold

\* And what is so in one of them.
LEMMA SeenIn ==
    ASSUME NEW H, NEW w \in H, NEW b
    PROVE  /\ Up(w, b) => SawUp(H, b)
           /\ ~Up(w, b) => SawDown(H, b)
           /\ Up(w, b) /\ w[b].lists => SawListing(H, b)
           /\ ~(Up(w, b) /\ w[b].lists) => \A m : SawLacking(H, b, m) /\ SawCold(H, b, m)
           /\ Up(w, b) /\ w[b].lists =>
                 /\ \A m \in w[b].installed : SawServing(H, b, m)
                 /\ \A m : m \notin w[b].installed => SawLacking(H, b, m)
                 /\ \A m \in w[b].loaded : SawHolding(H, b, m)
                 /\ \A m : m \notin w[b].loaded => SawCold(H, b, m)
BY DEF SawUp, SawDown, SawListing, SawServing, SawLacking, SawHolding, SawCold, Serves, Holds

\* What a round has found was so at some moment; what it asked for and did not find
\* was not so at some moment.
Knows(H, p, b) ==
    /\ b \in p.reachable => SawUp(H, b)
    /\ \A m \in p.installed[b] : SawServing(H, b, m)
    /\ \A m \in p.loaded[b] : SawHolding(H, b, m)

KnowsDown(H, p, b)    == b \notin p.reachable => SawDown(H, b)
KnowsLacking(H, p, b) == \A m \in Name \ p.installed[b] : SawLacking(H, b, m)
KnowsCold(H, p, b)    == \A m \in Name \ p.loaded[b] : SawCold(H, b, m)
KnowsListing(H, p, b) == b \in p.reachable /\ << b, "installed" >> \notin p.degraded => SawListing(H, b)

\* Where a round of command k starts, and what it has asked the i-th backend when it is
\* about to ask the a-th backend c.
EntryOf(k) == CASE k = "models" -> "installed" [] k \in {"loaded", "model"} -> "loaded"
                [] OTHER -> "reachable"

AskedReachable(k, c, a, i) == i < a \/ (i = a /\ c # EntryOf(k))
AskedInstalled(k, c, a, i) == i < a \/ (i = a /\ c = "loaded" /\ k # "model")
AskedLoaded(k, c, a, i)    == i < a \/ (i = a /\ c = "installed" /\ k = "model")

LearnedAt(H, p, k, c, a, i) ==
    LET b == Order[i]
    IN  /\ AskedReachable(k, c, a, i) /\ EntryOf(k) = "reachable" => KnowsDown(H, p, b)
        /\ ~AskedReachable(k, c, a, i) => b \notin p.reachable
        /\ AskedInstalled(k, c, a, i) /\ k \notin {"fast", "listed", "loaded"} => KnowsLacking(H, p, b)
        /\ AskedLoaded(k, c, a, i) /\ k \notin {"fast", "listed"} => KnowsCold(H, p, b)
        /\ AskedInstalled(k, c, a, i) /\ k = "triage" => KnowsListing(H, p, b)

Learned(H, p, k, c, a) ==
    /\ \A b \in Backend : Knows(H, p, b)
    /\ \A i \in DOMAIN Order : LearnedAt(H, p, k, c, a, i)

\* Nothing is learned before anything is asked.
LEMMA LearnedNothing ==
    ASSUME NEW H, NEW k
    PROVE  Learned(H, NothingProbed, k, EntryOf(k), 1)
<1>1. \A b \in Backend : Knows(H, NothingProbed, b)
  BY DEF Knows, NothingProbed
<1>2. ASSUME NEW i \in DOMAIN Order PROVE LearnedAt(H, NothingProbed, k, EntryOf(k), 1, i)
  <2>1. i \in Nat \ {0}
    BY OrderIs
  <2>2. ~AskedReachable(k, EntryOf(k), 1, i) /\ Order[i] \notin NothingProbed.reachable
    BY <2>1 DEF AskedReachable, NothingProbed
  <2>3. AskedInstalled(k, EntryOf(k), 1, i) => k = "loaded"
    BY <2>1 DEF AskedInstalled, EntryOf
  <2>4. ~AskedLoaded(k, EntryOf(k), 1, i)
    BY <2>1 DEF AskedLoaded, EntryOf
  <2> QED BY <2>2, <2>3, <2>4 DEF LearnedAt
<1> QED BY <1>1, <1>2 DEF Learned

\* What was learned stays so as the backends change.
LEMMA LearnedStill ==
    ASSUME NEW H, NEW G, H \subseteq G, NEW p, NEW k, NEW c, NEW a, Learned(H, p, k, c, a)
    PROVE  Learned(G, p, k, c, a)
<1>1. ASSUME NEW b
      PROVE  /\ Knows(H, p, b) => Knows(G, p, b)
             /\ KnowsDown(H, p, b) => KnowsDown(G, p, b)
             /\ KnowsLacking(H, p, b) => KnowsLacking(G, p, b)
             /\ KnowsCold(H, p, b) => KnowsCold(G, p, b)
             /\ KnowsListing(H, p, b) => KnowsListing(G, p, b)
  BY StillSeen DEF Knows, KnowsDown, KnowsLacking, KnowsCold, KnowsListing
<1> QED BY <1>1 DEF Learned, LearnedAt

\* The a-th backend answers.
LEMMA LearnedUp ==
    ASSUME NEW H, NEW p \in Probe, NEW k, k \notin {"models", "loaded", "model"},
           NEW a \in DOMAIN Order, Learned(H, p, k, "reachable", a),
           NEW w \in H, Up(w, Order[a]),
           NEW q, q = [p EXCEPT !.reachable = @ \cup {Order[a]}]
    PROVE  /\ k \in {"fast", "listed"} => Learned(H, q, k, "reachable", a + 1)
           /\ k \notin {"fast", "listed"} => Learned(H, q, k, "installed", a)
<1>1. /\ q.reachable = p.reachable \cup {Order[a]} /\ q.installed = p.installed
      /\ q.loaded = p.loaded /\ q.degraded = p.degraded
  BY DEF Probe
<1>2. EntryOf(k) = "reachable"
  BY DEF EntryOf
<1>3. \A b \in Backend : Knows(H, q, b)
  <2>1. SawUp(H, Order[a])
    BY SeenIn
  <2> QED BY <1>1, <2>1 DEF Learned, Knows
<1>4. ASSUME NEW i \in DOMAIN Order, i < a
      PROVE  LearnedAt(H, p, k, "reachable", a, i) /\ Order[i] # Order[a] /\ i \in Nat /\ a \in Nat
  BY <1>4, OrderIs, OrderAssumption DEF Learned
<1>5. ASSUME NEW i \in DOMAIN Order, i < a
      PROVE  /\ KnowsDown(H, q, Order[i])
             /\ k \notin {"fast", "listed", "loaded"} => KnowsLacking(H, q, Order[i])
             /\ k \notin {"fast", "listed"} => KnowsCold(H, q, Order[i])
             /\ k = "triage" => KnowsListing(H, q, Order[i])
  BY <1>1, <1>2, <1>4, <1>5 DEF LearnedAt, AskedReachable, AskedInstalled, AskedLoaded,
       KnowsDown, KnowsLacking, KnowsCold, KnowsListing
<1>6. ASSUME NEW i \in DOMAIN Order, a < i PROVE Order[i] \notin q.reachable
  <2>1. i # a /\ ~(i < a) /\ Order[i] # Order[a]
    BY <1>6, OrderIs, OrderAssumption
  <2> QED BY <1>1, <2>1 DEF Learned, LearnedAt, AskedReachable
<1>7. KnowsDown(H, q, Order[a])
  BY <1>1 DEF KnowsDown
<1>8. ASSUME NEW i \in DOMAIN Order, k \in {"fast", "listed"}
      PROVE  LearnedAt(H, q, k, "reachable", a + 1, i)
  <2>1. i \in Nat /\ a \in Nat
    BY OrderIs
  <2>2. CASE i < a \/ i = a
    <3>1. AskedReachable(k, "reachable", a + 1, i)
      BY <2>1, <2>2 DEF AskedReachable
    <3>2. KnowsDown(H, q, Order[i])
      BY <1>5, <1>7, <2>2
    <3> QED BY <1>8, <3>1, <3>2 DEF LearnedAt
  <2>3. CASE a < i
    BY <1>2, <1>6, <1>8, <2>1, <2>3 DEF LearnedAt, AskedReachable
  <2> QED BY <2>1, <2>2, <2>3
<1>9. ASSUME NEW i \in DOMAIN Order
      PROVE  LearnedAt(H, q, k, "installed", a, i)
  <2>1. i \in Nat /\ a \in Nat
    BY OrderIs
  <2>2. CASE i < a
    BY <1>2, <1>5, <2>1, <2>2 DEF LearnedAt, AskedReachable
  <2>3. CASE i = a
    BY <1>2, <1>7, <2>1, <2>3 DEF LearnedAt, AskedReachable, AskedInstalled, AskedLoaded
  <2>4. CASE a < i
    BY <1>2, <1>6, <2>1, <2>4 DEF LearnedAt, AskedReachable, AskedInstalled, AskedLoaded
  <2> QED BY <2>1, <2>2, <2>3, <2>4
<1> QED BY <1>3, <1>8, <1>9 DEF Learned

\* The a-th backend does not answer.
LEMMA LearnedDown ==
    ASSUME NEW H, NEW p, NEW k, k \notin {"models", "loaded", "model"},
           NEW a \in DOMAIN Order, Learned(H, p, k, "reachable", a),
           NEW w \in H, ~Up(w, Order[a])
    PROVE  Learned(H, p, k, "reachable", a + 1)
<1>1. EntryOf(k) = "reachable"
  BY DEF EntryOf
<1>2. /\ KnowsDown(H, p, Order[a]) /\ KnowsLacking(H, p, Order[a]) /\ KnowsCold(H, p, Order[a])
  BY SeenIn DEF KnowsDown, KnowsLacking, KnowsCold
<1>3. KnowsListing(H, p, Order[a])
  <2>1. Order[a] \notin p.reachable
    BY <1>1, OrderIs DEF Learned, LearnedAt, AskedReachable
  <2> QED BY <2>1 DEF KnowsListing
<1>4. ASSUME NEW i \in DOMAIN Order PROVE LearnedAt(H, p, k, "reachable", a + 1, i)
  <2>1. i \in Nat /\ a \in Nat /\ LearnedAt(H, p, k, "reachable", a, i)
    BY OrderIs DEF Learned
  <2>2. CASE i < a
    BY <1>1, <2>1, <2>2 DEF LearnedAt, AskedReachable, AskedInstalled, AskedLoaded
  <2>3. CASE i = a
    BY <1>1, <1>2, <1>3, <2>1, <2>3 DEF LearnedAt, AskedReachable
  <2>4. CASE a < i
    BY <1>1, <2>1, <2>4 DEF LearnedAt, AskedReachable, AskedInstalled, AskedLoaded
  <2> QED BY <2>1, <2>2, <2>3, <2>4
<1> QED BY <1>4 DEF Learned

\* What a listing that is asked for teaches of the backend, and leaves as it was of others.
Taken(H, q, p, field, b) ==
    /\ Knows(H, q, b) /\ q.reachable = p.reachable
    /\ field = "installed" => KnowsLacking(H, q, b) /\ KnowsListing(H, q, b) /\ q.loaded = p.loaded
    /\ field = "loaded" => KnowsCold(H, q, b) /\ q.installed = p.installed
    /\ \A x \in Backend \ {b} : q.installed[x] = p.installed[x] /\ q.loaded[x] = p.loaded[x]
    /\ \A x \in Backend : << x, "installed" >> \in p.degraded => << x, "installed" >> \in q.degraded
    /\ field = "loaded" => (<< b, "installed" >> \in p.degraded <=> << b, "installed" >> \in q.degraded)

\* A listing keeps what is known of its backend and adds what the answer, or its lack, tells.
LEMMA ListingTaken ==
    ASSUME NEW H, NEW w \in H, NEW p \in Probe, NEW q, NEW field \in {"installed", "loaded"},
           NEW b \in Backend, Knows(H, p, b),
           \/ Up(w, b) /\ w[b].lists /\ Listed(q, p, field, b, w[b])
           \/ ~(Up(w, b) /\ w[b].lists) /\ Unlisted(q, p, field, b)
    PROVE  Taken(H, q, p, field, b)
<1>1. CASE Up(w, b) /\ w[b].lists /\ Listed(q, p, field, b, w[b])
  <2>1. /\ SawListing(H, b)
        /\ \A m \in w[b].installed : SawServing(H, b, m)
        /\ \A m : m \notin w[b].installed => SawLacking(H, b, m)
        /\ \A m \in w[b].loaded : SawHolding(H, b, m)
        /\ \A m : m \notin w[b].loaded => SawCold(H, b, m)
    BY <1>1, SeenIn
  <2>2. CASE field = "installed"
    <3>1. q.loaded = p.loaded
      BY <1>1, <2>2 DEF Listed, Probe
    <3>2. Knows(H, q, b)
      BY <1>1, <2>1, <2>2 DEF Listed, Knows
    <3>3. KnowsLacking(H, q, b) /\ KnowsListing(H, q, b)
      BY <1>1, <2>1, <2>2 DEF Listed, KnowsLacking, KnowsListing
    <3> QED BY <1>1, <2>2, <3>1, <3>2, <3>3 DEF Listed, Taken
  <2>3. CASE field = "loaded"
    <3>1. q.installed = p.installed
      BY <1>1, <2>3 DEF Listed, Probe
    <3>2. Knows(H, q, b)
      BY <1>1, <2>1, <2>3 DEF Listed, Knows
    <3>3. KnowsCold(H, q, b)
      BY <1>1, <2>1, <2>3 DEF Listed, KnowsCold
    <3> QED BY <1>1, <2>3, <3>1, <3>2, <3>3 DEF Listed, Taken
  <2> QED BY <2>2, <2>3
<1>2. CASE ~(Up(w, b) /\ w[b].lists) /\ Unlisted(q, p, field, b)
  <2>1. \A m : SawLacking(H, b, m) /\ SawCold(H, b, m)
    BY <1>2, SeenIn
  <2>2. Knows(H, q, b) /\ KnowsLacking(H, q, b) /\ KnowsCold(H, q, b)
    BY <1>2, <2>1 DEF Unlisted, Knows, KnowsLacking, KnowsCold
  <2>3. field = "installed" => KnowsListing(H, q, b)
    BY <1>2 DEF Unlisted, KnowsListing
  <2>4. field = "loaded" => << b, "installed" >> # << b, field >>
    OBVIOUS
  <2> QED BY <1>2, <2>2, <2>3, <2>4 DEF Unlisted, Taken
<1> QED BY <1>1, <1>2

\* The a-th backend is asked what is installed: what is loaded is asked next, or not.
LEMMA LearnedInstalled ==
    ASSUME NEW H, NEW p, NEW q, NEW k, k \notin {"fast", "listed", "loaded"},
           NEW a \in DOMAIN Order, Learned(H, p, k, "installed", a),
           Taken(H, q, p, "installed", Order[a])
    PROVE  /\ k # "model" => Learned(H, q, k, "loaded", a)
           /\ k = "model" \/ KnowsCold(H, q, Order[a]) => Learned(H, q, k, EntryOf(k), a + 1)
<1>1. \A b \in Backend : Knows(H, q, b)
  BY DEF Learned, Taken, Knows
<1>2. ASSUME NEW i \in DOMAIN Order, i # a
      PROVE  /\ Order[i] # Order[a] /\ Order[i] \in Backend
             /\ KnowsDown(H, p, Order[i]) => KnowsDown(H, q, Order[i])
             /\ KnowsLacking(H, p, Order[i]) => KnowsLacking(H, q, Order[i])
             /\ KnowsCold(H, p, Order[i]) => KnowsCold(H, q, Order[i])
             /\ KnowsListing(H, p, Order[i]) => KnowsListing(H, q, Order[i])
             /\ Order[i] \notin p.reachable => Order[i] \notin q.reachable
  <2>1. Order[i] # Order[a] /\ Order[i] \in Backend
    BY <1>2, OrderIs, OrderAssumption
  <2> QED BY <2>1 DEF Taken, KnowsDown, KnowsLacking, KnowsCold, KnowsListing
<1>3. /\ KnowsLacking(H, q, Order[a]) /\ KnowsListing(H, q, Order[a])
      /\ KnowsDown(H, p, Order[a]) => KnowsDown(H, q, Order[a])
      /\ KnowsCold(H, p, Order[a]) => KnowsCold(H, q, Order[a])
  BY DEF Taken, KnowsDown, KnowsCold
<1>4. ASSUME NEW i \in DOMAIN Order
      PROVE  i \in Nat /\ a \in Nat /\ LearnedAt(H, p, k, "installed", a, i)
  BY OrderIs DEF Learned
<1>5. ASSUME k # "model", NEW i \in DOMAIN Order PROVE LearnedAt(H, q, k, "loaded", a, i)
  <2>1. CASE i # a
    BY <1>2, <1>4, <2>1 DEF LearnedAt, AskedReachable, AskedInstalled, AskedLoaded
  <2>2. CASE i = a
    <3>1. EntryOf(k) # "loaded"
      BY <1>5 DEF EntryOf
    <3>2. EntryOf(k) = "reachable" => KnowsDown(H, q, Order[i])
      BY <1>3, <1>4, <2>2 DEF LearnedAt, AskedReachable
    <3>3. AskedReachable(k, "loaded", a, i) /\ ~AskedLoaded(k, "loaded", a, i)
      BY <1>4, <2>2, <3>1 DEF AskedReachable, AskedLoaded
    <3> QED BY <1>3, <2>2, <3>2, <3>3 DEF LearnedAt
  <2> QED BY <2>1, <2>2
<1>6. ASSUME k = "model" \/ KnowsCold(H, q, Order[a]), NEW i \in DOMAIN Order
      PROVE  LearnedAt(H, q, k, EntryOf(k), a + 1, i)
  <2>1. CASE i # a
    <3>1. /\ AskedReachable(k, EntryOf(k), a + 1, i) <=> AskedReachable(k, "installed", a, i)
          /\ AskedInstalled(k, EntryOf(k), a + 1, i) => AskedInstalled(k, "installed", a, i) \/ k = "loaded"
          /\ AskedLoaded(k, EntryOf(k), a + 1, i) => AskedLoaded(k, "installed", a, i)
      BY <1>4, <2>1 DEF AskedReachable, AskedInstalled, AskedLoaded, EntryOf
    <3> QED BY <1>2, <1>4, <2>1, <3>1 DEF LearnedAt
  <2>2. CASE i = a
    <3>1. AskedReachable(k, EntryOf(k), a + 1, i)
      BY <1>4, <2>2 DEF AskedReachable
    <3>2. EntryOf(k) = "reachable" => KnowsDown(H, q, Order[i])
      BY <1>3, <1>4, <2>2 DEF LearnedAt, AskedReachable
    <3>3. KnowsCold(H, q, Order[i])
      BY <1>3, <1>4, <1>6, <2>2 DEF LearnedAt, AskedLoaded
    <3> QED BY <1>3, <2>2, <3>1, <3>2, <3>3 DEF LearnedAt
  <2> QED BY <2>1, <2>2
<1> QED BY <1>1, <1>5, <1>6 DEF Learned

\* The a-th backend is asked what is loaded: what is installed is asked next, or not.
LEMMA LearnedLoaded ==
    ASSUME NEW H, NEW p, NEW q, NEW k, k \notin {"fast", "listed"},
           NEW a \in DOMAIN Order, Learned(H, p, k, "loaded", a),
           Taken(H, q, p, "loaded", Order[a])
    PROVE  /\ k = "model" => Learned(H, q, k, "installed", a)
           /\ k # "model" => Learned(H, q, k, EntryOf(k), a + 1)
<1>1. \A b \in Backend : Knows(H, q, b)
  BY DEF Learned, Taken, Knows
<1>2. ASSUME NEW i \in DOMAIN Order, i # a
      PROVE  /\ Order[i] # Order[a] /\ Order[i] \in Backend
             /\ KnowsDown(H, p, Order[i]) => KnowsDown(H, q, Order[i])
             /\ KnowsLacking(H, p, Order[i]) => KnowsLacking(H, q, Order[i])
             /\ KnowsCold(H, p, Order[i]) => KnowsCold(H, q, Order[i])
             /\ KnowsListing(H, p, Order[i]) => KnowsListing(H, q, Order[i])
             /\ Order[i] \notin p.reachable => Order[i] \notin q.reachable
  <2>1. Order[i] # Order[a] /\ Order[i] \in Backend
    BY <1>2, OrderIs, OrderAssumption
  <2> QED BY <2>1 DEF Taken, KnowsDown, KnowsLacking, KnowsCold, KnowsListing
<1>3. /\ KnowsCold(H, q, Order[a])
      /\ KnowsDown(H, p, Order[a]) => KnowsDown(H, q, Order[a])
      /\ KnowsLacking(H, p, Order[a]) => KnowsLacking(H, q, Order[a])
      /\ KnowsListing(H, p, Order[a]) => KnowsListing(H, q, Order[a])
  BY DEF Taken, KnowsDown, KnowsLacking, KnowsListing
<1>4. ASSUME NEW i \in DOMAIN Order
      PROVE  i \in Nat /\ a \in Nat /\ LearnedAt(H, p, k, "loaded", a, i)
  BY OrderIs DEF Learned
<1>5. ASSUME k = "model", NEW i \in DOMAIN Order PROVE LearnedAt(H, q, k, "installed", a, i)
  <2>1. CASE i # a
    BY <1>2, <1>4, <2>1 DEF LearnedAt, AskedReachable, AskedInstalled, AskedLoaded
  <2>2. CASE i = a
    <3>1. EntryOf(k) = "loaded"
      BY <1>5 DEF EntryOf
    <3>2. AskedReachable(k, "installed", a, i) /\ ~AskedInstalled(k, "installed", a, i)
      BY <1>4, <2>2, <3>1 DEF AskedReachable, AskedInstalled
    <3> QED BY <1>3, <2>2, <3>1, <3>2 DEF LearnedAt
  <2> QED BY <2>1, <2>2
<1>6. ASSUME k # "model", NEW i \in DOMAIN Order
      PROVE  LearnedAt(H, q, k, EntryOf(k), a + 1, i)
  <2>1. CASE i # a
    <3>1. /\ AskedReachable(k, EntryOf(k), a + 1, i) <=> AskedReachable(k, "loaded", a, i)
          /\ AskedInstalled(k, EntryOf(k), a + 1, i) => AskedInstalled(k, "loaded", a, i) \/ k = "loaded"
          /\ AskedLoaded(k, EntryOf(k), a + 1, i) => AskedLoaded(k, "loaded", a, i)
      BY <1>4, <1>6, <2>1 DEF AskedReachable, AskedInstalled, AskedLoaded, EntryOf
    <3> QED BY <1>2, <1>4, <2>1, <3>1 DEF LearnedAt
  <2>2. CASE i = a
    <3>1. AskedReachable(k, EntryOf(k), a + 1, i)
      BY <1>4, <2>2 DEF AskedReachable
    <3>2. EntryOf(k) = "reachable" => KnowsDown(H, q, Order[i])
      BY <1>3, <1>4, <2>2 DEF LearnedAt, AskedReachable
    <3>3. /\ k # "loaded" => KnowsLacking(H, q, Order[i])
          /\ k = "triage" => KnowsListing(H, q, Order[i])
      BY <1>3, <1>4, <1>6, <2>2 DEF LearnedAt, AskedInstalled
    <3> QED BY <1>3, <2>2, <3>1, <3>2, <3>3 DEF LearnedAt
  <2> QED BY <2>1, <2>2
<1> QED BY <1>1, <1>5, <1>6 DEF Learned

ProbeInv ==
    /\ pc = "access" => probe = NothingProbed
    /\ Asking /\ ~signalled => Learned(history, probe, kind, pc, at)

\* What the listing of the backend being asked gives.
LEMMA ListingTeaches ==
    ASSUME TypeInv, ~signalled, NEW field \in {"installed", "loaded"}, at \in DOMAIN Order,
           Learned(history, probe, kind, pc, at)
    PROVE  /\ Taken(history, Listing(field, Order[at]), probe, field, Order[at])
           /\ Listing(field, Order[at]).degraded # probe.degraded
                => KnowsCold(history, Listing(field, Order[at]), Order[at])
<1> DEFINE b == Order[at]
           q == Listing(field, b)
<1>1. b \in Backend /\ world \in history /\ WorldInv /\ probe \in Probe /\ Knows(history, probe, b)
  BY OrderIs DEF TypeInv, WorldInv, FramesInv, Learned
<1>2. Answers(b) <=> Up(world, b)
  BY DEF Answers, Up
<1> HIDE DEF b, q
<1>3. \/ Up(world, b) /\ world[b].lists /\ Listed(q, probe, field, b, world[b])
      \/ ~(Up(world, b) /\ world[b].lists) /\ Unlisted(q, probe, field, b)
  BY <1>1, <1>2, ListingIs DEF q
<1>4. Taken(history, q, probe, field, b)
  BY <1>1, <1>3, ListingTaken
<1>5. q.degraded # probe.degraded => KnowsCold(history, q, b)
  <2>1. q.degraded # probe.degraded => ~(Up(world, b) /\ world[b].lists)
    BY <1>3 DEF Listed
  <2>2. ~(Up(world, b) /\ world[b].lists) => \A m : SawCold(history, b, m)
    BY <1>1, SeenIn
  <2> QED BY <2>1, <2>2 DEF KnowsCold
<1> QED BY <1>4, <1>5 DEF b, q

\* Each request teaches about its backend what the world it met was; a change of the world
\* takes nothing back, since worlds are only added to the history.
LEMMA ProbeStep ==
    ASSUME TypeInv, TypeInv', ProbeInv, [Next]_vars
    PROVE  ProbeInv'
<1> USE DEF ProbeInv
<1>0. Entry = EntryOf(kind) /\ Len(Order) \in Nat /\ DOMAIN Order = 1 .. Len(Order)
      /\ at \in 1 .. Len(Order) + 1
  BY OrderIs DEF Entry, EntryOf, TypeInv, PlaceInv
<1>1. CASE ~Asking' /\ pc' # "access"
  BY <1>1
<1>2. CASE /\ UNCHANGED << pc, probe, kind, at >> /\ history \subseteq history'
           /\ signalled' = signalled
  <2>1. Asking /\ ~signalled => Learned(history', probe, kind, pc, at)
    BY <1>2, LearnedStill
  <2> QED BY <1>2, <2>1 DEF Asking
<1>3. ASSUME NEW b \in Backend, Drift(b) PROVE ProbeInv'
  BY <1>2, <1>3 DEF Drift
<1>4. CASE Signal
  BY <1>4 DEF Signal, Asking
<1>5. CASE probe' = NothingProbed /\ at' = 1 /\ UNCHANGED kind /\ (Asking' => pc' = Entry)
  <2>1. Learned(history', NothingProbed, kind, EntryOf(kind), 1)
    BY LearnedNothing
  <2> QED BY <1>0, <1>5, <2>1
<1>6. CASE Load
  <2>1. UNCHANGED kind /\ pc = "load"
    BY <1>6 DEF Load
  <2>2. CASE LoadFails \/ ReadPrior
    BY <1>1, <2>2 DEF LoadFails, ReadPrior, Fail, Asking
  <2>3. CASE /\ at' = 1 /\ probe' = NothingProbed
             /\ pc' = (IF kind \in {"backends", "listed", "models", "loaded"} THEN Entry ELSE "access")
    <3>1. Asking' => pc' = Entry
      BY <2>3 DEF Asking
    <3> QED BY <1>5, <2>1, <2>3, <3>1
  <2> QED BY <1>6, <2>2, <2>3 DEF Load
<1>7. CASE CheckAccess
  <2>1. pc = "access" /\ probe' = probe /\ probe = NothingProbed /\ UNCHANGED kind
    BY <1>7 DEF CheckAccess
  <2>2. CASE pc' = Entry /\ at' = 1
    BY <1>5, <2>1, <2>2
  <2>3. CASE Refused
    BY <1>1, <2>3 DEF Refused, Fail, Asking
  <2>4. CASE pc' = pc
    BY <2>1, <2>4 DEF Asking
  <2> QED BY <1>7, <2>2, <2>3, <2>4 DEF CheckAccess
<1>8. CASE ProbeReachable
  <2>1. /\ pc = "reachable" /\ at \in DOMAIN Order /\ Asking
        /\ UNCHANGED << history, signalled, kind >>
        /\ kind \notin {"models", "loaded", "model"}
        /\ world \in history /\ probe \in Probe
    BY <1>0, <1>8 DEF ProbeReachable, Asking, TypeInv, PlaceInv, WorldInv, FramesInv
  <2>2. CASE signalled
    <3>1. pc' # "access" /\ signalled'
      BY <1>8, <2>1, <2>2 DEF ProbeReachable, Refused, Fail
    <3> QED BY <3>1
  <2>3. CASE ~signalled /\ Answers(Order[at])
    <3>1. Up(world, Order[at]) /\ Learned(history, probe, kind, "reachable", at)
      BY <2>1, <2>3 DEF Answers, Up
    <3>2. probe' = [probe EXCEPT !.reachable = @ \cup {Order[at]}]
      BY <1>8, <2>3 DEF ProbeReachable
    <3>3. PICK q : q = [probe EXCEPT !.reachable = @ \cup {Order[at]}]
      OBVIOUS
    <3>4. /\ kind \in {"fast", "listed"} => Learned(history, q, kind, "reachable", at + 1)
          /\ kind \notin {"fast", "listed"} => Learned(history, q, kind, "installed", at)
      BY <2>1, <3>1, <3>3, LearnedUp
    <3>5. CASE kind \in {"fast", "listed"}
      <4>1. at' = at + 1 /\ pc' = "reachable"
        BY <1>8, <2>1, <2>3, <3>5 DEF ProbeReachable
      <4> QED BY <2>1, <3>2, <3>3, <3>4, <3>5, <4>1
    <3>6. CASE kind \notin {"fast", "listed"}
      <4>1. at' = at /\ pc' = "installed"
        BY <1>8, <2>1, <2>3, <3>6 DEF ProbeReachable
      <4> QED BY <2>1, <3>2, <3>3, <3>4, <3>6, <4>1
    <3> QED BY <3>5, <3>6
  <2>4. CASE ~signalled /\ ~Answers(Order[at])
    <3>1. ~Up(world, Order[at]) /\ Learned(history, probe, kind, "reachable", at)
      BY <2>1, <2>4 DEF Answers, Up
    <3>2. Learned(history, probe, kind, "reachable", at + 1)
      BY <2>1, <3>1, LearnedDown
    <3>3. CASE Refused
      BY <1>1, <3>3 DEF Refused, Fail, Asking
    <3>4. CASE PassDown /\ UNCHANGED << pc, probe, tail, code, exit >>
      BY <2>1, <3>2, <3>4 DEF PassDown
    <3>5. Refused \/ (PassDown /\ UNCHANGED << pc, probe, tail, code, exit >>)
      <4>1. CASE kind \in {"backends", "listed"} /\ Refuses(Order[at])
        BY <1>8, <2>4, <4>1 DEF ProbeReachable
      <4>2. CASE ~(kind \in {"backends", "listed"} /\ Refuses(Order[at]))
        BY <1>8, <2>4, <4>2 DEF ProbeReachable
      <4> QED BY <4>1, <4>2
    <3> QED BY <3>3, <3>4, <3>5
  <2> QED BY <2>2, <2>3, <2>4
<1>9. CASE ProbeInstalled
  <2>1. /\ pc = "installed" /\ at \in DOMAIN Order /\ Asking
        /\ UNCHANGED << history, signalled, kind >>
        /\ kind \notin {"fast", "listed", "loaded"} /\ pc' # "access"
    BY <1>0, <1>9, EntryIs DEF ProbeInstalled, Asking, TypeInv, PlaceInv, Refused, Fail
  <2>2. CASE signalled
    BY <2>1, <2>2
  <2>3. CASE Refused
    BY <1>1, <2>3 DEF Refused, Fail, Asking
  <2>4. CASE ~signalled /\ probe' = Listing("installed", Order[at])
    <3>1. Learned(history, probe, kind, "installed", at)
      BY <2>1, <2>4
    <3>2. PICK q : q = Listing("installed", Order[at])
      OBVIOUS
    <3>3. /\ Taken(history, q, probe, "installed", Order[at])
          /\ q.degraded # probe.degraded => KnowsCold(history, q, Order[at])
      BY <2>1, <2>4, <3>1, <3>2, ListingTeaches
    <3>4. /\ kind # "model" => Learned(history, q, kind, "loaded", at)
          /\ kind = "model" \/ KnowsCold(history, q, Order[at])
               => Learned(history, q, kind, EntryOf(kind), at + 1)
      BY <2>1, <3>1, <3>3, LearnedInstalled
    <3>5. CASE /\ kind = "model" \/ probe'.degraded # probe.degraded
               /\ pc' = Entry /\ at' = at + 1
      BY <1>0, <2>1, <2>4, <3>2, <3>3, <3>4, <3>5
    <3>6. CASE kind # "model" /\ pc' = "loaded" /\ at' = at
      BY <2>1, <2>4, <3>2, <3>4, <3>6
    <3>7. CASE Refused
      BY <2>3, <3>7
    <3> QED BY <1>9, <3>5, <3>6, <3>7 DEF ProbeInstalled
  <2> QED BY <1>9, <2>2, <2>3, <2>4 DEF ProbeInstalled
<1>10. CASE ProbeLoaded
  <2>1. /\ pc = "loaded" /\ at \in DOMAIN Order /\ Asking
        /\ UNCHANGED << history, signalled, kind >>
        /\ kind \notin {"fast", "listed"} /\ pc' # "access"
    BY <1>0, <1>10, EntryIs DEF ProbeLoaded, Asking, TypeInv, PlaceInv, Refused, Fail
  <2>2. CASE signalled
    BY <2>1, <2>2
  <2>3. CASE Refused
    BY <1>1, <2>3 DEF Refused, Fail, Asking
  <2>4. CASE ~signalled /\ probe' = Listing("loaded", Order[at])
    <3>1. Learned(history, probe, kind, "loaded", at)
      BY <2>1, <2>4
    <3>2. PICK q : q = Listing("loaded", Order[at])
      OBVIOUS
    <3>3. Taken(history, q, probe, "loaded", Order[at])
      BY <2>1, <2>4, <3>1, <3>2, ListingTeaches
    <3>4. /\ kind = "model" => Learned(history, q, kind, "installed", at)
          /\ kind # "model" => Learned(history, q, kind, EntryOf(kind), at + 1)
      BY <2>1, <3>1, <3>3, LearnedLoaded
    <3>5. CASE kind # "model" /\ pc' = Entry /\ at' = at + 1
      BY <1>0, <2>1, <2>4, <3>2, <3>4, <3>5
    <3>6. CASE kind = "model" /\ pc' = "installed" /\ at' = at
      BY <2>1, <2>4, <3>2, <3>4, <3>6
    <3>7. CASE Refused
      BY <2>3, <3>7
    <3> QED BY <1>10, <3>5, <3>6, <3>7 DEF ProbeLoaded
  <2> QED BY <1>10, <2>2, <2>3, <2>4 DEF ProbeLoaded
<1>11. CASE EndRound
  <2>1. UNCHANGED kind
    BY <1>11 DEF EndRound
  <2>2. CASE pc' = "exit"
    BY <1>1, <2>2 DEF Asking
  <2>3. CASE /\ probe' = NothingProbed /\ at' = 1
             /\ pc' = IF Tail(plan) = << >> THEN "write" ELSE Entry
    <3>1. Asking' => pc' = Entry
      BY <2>3 DEF Asking
    <3> QED BY <1>5, <2>1, <2>3, <3>1
  <2> QED BY <1>11, <2>2, <2>3 DEF EndRound, Fail
<1>12. CASE WriteFrame \/ WriteBatch \/ Ticks \/ Stops \/ Exit
  BY <1>1, <1>12 DEF WriteFrame, WriteBatch, Ticks, Stops, Exit, Asking
<1>13. CASE UNCHANGED vars
  BY <1>2, <1>13 DEF vars
<1> QED BY <1>3, <1>4, <1>6, <1>7, <1>8, <1>9, <1>10, <1>11, <1>12, <1>13 DEF Next, Step

\* What the probes say was so in some world of the frame.
LEMMA ProbeInvHolds == Spec => [](TypeInv /\ ProbeInv)
<1>1. Init => ProbeInv
  BY DEF Init, ProbeInv, Asking
<1> QED BY <1>1, ProbeStep, TypeInvHolds, PTL DEF Spec

\* What a whole round has learned of every backend.
Whole(H, p, k) ==
    \A b \in Backend :
        /\ Knows(H, p, b)
        /\ EntryOf(k) = "reachable" => KnowsDown(H, p, b)
        /\ k \notin {"fast", "listed", "loaded"} => KnowsLacking(H, p, b)
        /\ k \notin {"fast", "listed"} => KnowsCold(H, p, b)
        /\ k = "triage" => KnowsListing(H, p, b)

\* At the end of a round every backend was asked.
LEMMA RoundLearned ==
    ASSUME TypeInv, ProbeInv, ~signalled, pc = Entry, at > Len(Order)
    PROVE  Whole(history, probe, kind)
<1>1. Asking /\ Len(Order) \in Nat /\ at \in 1 .. Len(Order) + 1 /\ DOMAIN Order = 1 .. Len(Order)
  BY EntryIs, OrderIs DEF Asking, TypeInv, PlaceInv
<1>2. Learned(history, probe, kind, pc, at)
  BY <1>1 DEF ProbeInv
<1>3. ASSUME NEW b \in Backend
      PROVE  /\ Knows(history, probe, b)
             /\ EntryOf(kind) = "reachable" => KnowsDown(history, probe, b)
             /\ kind \notin {"fast", "listed", "loaded"} => KnowsLacking(history, probe, b)
             /\ kind \notin {"fast", "listed"} => KnowsCold(history, probe, b)
             /\ kind = "triage" => KnowsListing(history, probe, b)
  <2>1. PICK i \in DOMAIN Order : Order[i] = b
    BY OrderIs
  <2>2. i < at
    BY <1>1, <2>1
  <2>3. AskedReachable(kind, pc, at, i) /\ AskedInstalled(kind, pc, at, i) /\ AskedLoaded(kind, pc, at, i)
    BY <2>2 DEF AskedReachable, AskedInstalled, AskedLoaded
  <2>4. Knows(history, probe, b) /\ LearnedAt(history, probe, kind, pc, at, i)
    BY <1>2, <2>1 DEF Learned
  <2> QED BY <2>1, <2>3, <2>4 DEF LearnedAt
<1> QED BY <1>3 DEF Whole

\* A backend that was not found to serve a model did not, at some moment.
LEMMA NotFound ==
    ASSUME NEW H, NEW p, NEW k, Whole(H, p, k), k \notin {"fast", "listed", "loaded"},
           EntryOf(k) = "reachable", NEW i \in DOMAIN Order, NEW m \in Name, ~FoundAt(i, m, p)
    PROVE  SawLacking(H, Order[i], m)
<1>1. KnowsDown(H, p, Order[i]) /\ KnowsLacking(H, p, Order[i])
  BY OrderIs DEF Whole
<1> QED BY <1>1 DEF KnowsDown, KnowsLacking, FoundAt, SawDown, SawLacking, Serves

\* How a command ended is said at its end.
NoRouteInv == NoRouteWitnessed /\ (code # "" => pc \in {"exit", "done"})

\* A command ends without a route only from a complete round in which no candidate qualified.
LEMMA NoRouteStep ==
    ASSUME TypeInv, ProbeInv, NoRouteInv, [Next]_vars
    PROVE  NoRouteInv'
<1> USE DEF NoRouteInv
<1>0. Len(Order) \in Nat /\ at \in 1 .. Len(Order) + 1 /\ DOMAIN Order = 1 .. Len(Order)
      /\ world \in history /\ (Begun => code = "")
  BY OrderIs DEF TypeInv, PlaceInv, WorldInv, Begun, Asking
<1>a. at <= Len(Order) => at \in DOMAIN Order
  <2> HIDE DEF NoRouteInv
  <2> QED BY OrderIs DEF TypeInv, PlaceInv
<1>1. CASE code' \in {"", "ok", "E_CONFIG"} /\ (code' # "" => pc' \in {"exit", "done"})
  BY <1>1 DEF NoRouteWitnessed
<1>2. CASE signalled' /\ (code' # "" => pc' \in {"exit", "done"})
  BY <1>2 DEF NoRouteWitnessed
<1>3. CASE UNCHANGED << signalled, code, config, history, plan >> /\ (code # "" => pc' \in {"exit", "done"})
  BY <1>3 DEF NoRouteWitnessed, Round
<1>4. ASSUME Refused, at \in DOMAIN Order, Refuses(Order[at]), UNCHANGED history
      PROVE  NoRouteInv'
  <2>1. code' = "E_BACKEND_AUTH_FAILED" /\ pc' = "exit"
    BY <1>4 DEF Refused, Fail
  <2>2. Order[at] \in Backend /\ world \in history' /\ world[Order[at]].health = "refusing"
    BY <1>0, <1>4, OrderIs DEF Refuses
  <2> QED BY <2>1, <2>2 DEF NoRouteWitnessed
<1>5. ASSUME NEW b \in Backend, Drift(b) PROVE NoRouteInv'
  <2>1. code = "" /\ code' = code
    BY <1>5 DEF Drift
  <2> QED BY <1>1, <2>1
<1>6. CASE Signal
  <2>1. signalled' /\ code' = code /\ pc' = pc
    BY <1>6 DEF Signal
  <2> QED BY <1>2, <2>1
<1>7. CASE Load
  <2>1. pc = "load" /\ code = ""
    BY <1>7 DEF Load
  <2>2. CASE LoadFails
    <3>1. code' = "" \/ (code' = "E_CONFIG" /\ pc' = "exit")
      BY <2>1, <2>2 DEF LoadFails, Fail
    <3> QED BY <1>1, <3>1
  <2>3. CASE code' = code
    BY <1>1, <2>1, <2>3
  <2> QED BY <1>7, <2>2, <2>3 DEF Load, ReadPrior
<1>8. CASE CheckAccess
  <2>1. UNCHANGED << signalled, config, history, plan >> /\ code = ""
    BY <1>0, <1>8 DEF CheckAccess, Begun
  <2>2. CASE at <= Len(Order) /\ Refuses(Order[at]) /\ Refused
    <3>1. at \in DOMAIN Order /\ UNCHANGED history
      BY <1>a, <2>1, <2>2
    <3> QED BY <1>4, <2>2, <3>1, Zenon
  <2>3. CASE code' = code
    BY <1>1, <2>1, <2>3
  <2> QED BY <1>8, <2>2, <2>3 DEF CheckAccess
<1>9. CASE ProbeReachable
  <2>1. UNCHANGED << signalled, config, history, plan >> /\ code = "" /\ at <= Len(Order)
    BY <1>0, <1>9 DEF ProbeReachable, Begun, Asking
  <2>2. CASE Refuses(Order[at]) /\ Refused
    <3>1. at \in DOMAIN Order /\ UNCHANGED history
      BY <1>a, <2>1, <2>2
    <3> QED BY <1>4, <2>2, <3>1, Zenon
  <2>3. CASE code' = code
    BY <1>1, <2>1, <2>3
  <2>4. code' = code \/ (Refuses(Order[at]) /\ Refused)
    BY <1>9 DEF ProbeReachable
  <2> QED BY <2>2, <2>3, <2>4
<1>10. CASE ProbeInstalled \/ ProbeLoaded
  <2>1. UNCHANGED << signalled, config, history, plan >> /\ code = "" /\ at <= Len(Order)
    BY <1>0, <1>10 DEF ProbeInstalled, ProbeLoaded, Begun, Asking
  <2>2. CASE Refuses(Order[at]) /\ Refused
    <3>1. at \in DOMAIN Order /\ UNCHANGED history
      BY <1>a, <2>1, <2>2
    <3> QED BY <1>4, <2>2, <3>1, Zenon
  <2>3. CASE code' = code
    BY <1>1, <2>1, <2>3
  <2> QED BY <1>10, <2>2, <2>3 DEF ProbeInstalled, ProbeLoaded
<1>11. CASE EndRound
  <2>1. /\ UNCHANGED << signalled, config, history, world >> /\ code = "" /\ pc = Entry
        /\ at > Len(Order) /\ Begun
    BY <1>0, <1>11, EntryIs DEF EndRound, Begun, Asking
  <2>2. CASE code' = code
    BY <1>1, <2>1, <2>2
  <2>3. CASE signalled
    <3>1. code' # "" => pc' = "exit"
      BY <1>11, <2>1 DEF EndRound, Fail
    <3> QED BY <1>2, <2>1, <2>3, <3>1
  <2>4. /\ PlanIs(plan, config, kind) /\ Round = plan[1] /\ 1 \in 1 .. Len(plan) /\ Tasked(config)
    BY <2>1, TailPlan, ConfigIs DEF TypeInv, PlaceInv, Round
  <2>5. CASE ~signalled /\ Unroutable /\ Fail("E_NO_ROUTE_AVAILABLE", 4)
    <3> DEFINE t == Round.task
               cfg == config[t].route
    <3>1. Round.round = "route" /\ t \in DOMAIN config /\ kind \in {"snapshot", "status", "watch", "events"}
      <4>1. Round.round = "route"
        BY <2>5 DEF Unroutable
      <4>2. "route" \in RoundsOf(kind)
        BY <2>4, <4>1 DEF PlanIs
      <4>3. kind \in Kinds /\ kind # "prior"
        BY <2>1 DEF TypeInv, PlaceInv
      <4>4. kind \in {"snapshot", "status", "watch", "events"}
        BY <4>2, <4>3, KindsAssumption DEF RoundsOf
      <4> QED BY <2>4, <4>1, <4>4 DEF PlanIs
    <3>2. Whole(history, probe, kind) /\ EntryOf(kind) = "reachable" /\ kind \notin {"fast", "listed", "loaded"}
      BY <2>1, <2>5, <3>1, RoundLearned DEF EntryOf
    <3>3. IsConfig(cfg) /\ config[t].task \in Task
      BY <2>4, <3>1 DEF Tasked
    <3>4. Decides(Route(t, probe), cfg, probe) /\ ~Route(t, probe).found
      BY <2>5, <3>3, RouteIs DEF Unroutable
    <3>5. ASSUME NEW i \in DOMAIN Candidates(cfg), NEW k \in Places(Candidates(cfg)[i])
          PROVE  SawLacking(history, Order[k], Candidates(cfg)[i].model)
      <4>1. ~FoundAt(k, Candidates(cfg)[i].model, probe)
        BY <3>4 DEF Decides
      <4>2. k \in DOMAIN Order
        BY DEF Places
      <4>3. Candidates(cfg)[i].model \in Name
        BY <3>3, CandidatesAre DEF Candidate
      <4> QED BY <3>2, <4>1, <4>2, <4>3, NotFound
    <3>6. \E s \in DOMAIN config' :
             \A i \in DOMAIN Candidates(config'[s].route) :
                 LET c == Candidates(config'[s].route)[i]
                 IN  \A k \in Places(c) : \E w \in history' : ~Serves(w, Order[k], c.model)
      BY <2>1, <3>1, <3>5 DEF SawLacking
    <3>7. code' = "E_NO_ROUTE_AVAILABLE" /\ pc' = "exit"
      BY <2>5 DEF Fail
    <3> QED BY <3>6, <3>7 DEF NoRouteWitnessed
  <2>6. CASE ~signalled /\ Unknown /\ Fail("E_UNKNOWN_MODEL", 1) /\ UNCHANGED plan
    <3>1. Round.round = "model" /\ Round.task \in Name /\ kind = "model"
      <4>1. Round.round = "model"
        BY <2>6 DEF Unknown
      <4>2. Round.round \in RoundsOf(kind)
        BY <2>4 DEF PlanIs
      <4>3. kind \in Kinds
        BY DEF TypeInv, PlaceInv
      <4>4. kind = "model"
        BY <4>1, <4>2, <4>3, KindsAssumption DEF RoundsOf
      <4> QED BY <2>4, <4>1, <4>4 DEF PlanIs
    <3>2. Whole(history, probe, kind)
      BY <2>1, <2>6, RoundLearned
    <3>3. \A b \in Backend : SawLacking(history, b, Round.task)
      BY <2>6, <3>1, <3>2 DEF Unknown, Whole, KnowsLacking
    <3>4. Round' = Round
      BY <2>6 DEF Round
    <3>6. \A b \in Backend : \E w \in history' : ~Serves(w, b, Round'.task)
      BY <2>1, <3>3, <3>4 DEF SawLacking
    <3>7. code' = "E_UNKNOWN_MODEL" /\ pc' = "exit"
      BY <2>6 DEF Fail
    <3> QED BY <3>6, <3>7 DEF NoRouteWitnessed
  <2>7. \/ Unroutable /\ Fail("E_NO_ROUTE_AVAILABLE", 4)
        \/ Unknown /\ Fail("E_UNKNOWN_MODEL", 1) /\ UNCHANGED plan
        \/ code' = code
    BY <1>11 DEF EndRound
  <2> QED BY <2>2, <2>3, <2>5, <2>6, <2>7
<1>12. CASE WriteFrame \/ WriteBatch \/ Ticks \/ Stops
  <2>1. code = "" /\ (code' = "" \/ (code' = "ok" /\ pc' = "done"))
    BY <1>12 DEF WriteFrame, WriteBatch, Ticks, Stops, Stoppable
  <2> QED BY <1>1, <2>1
<1>13. CASE Exit \/ UNCHANGED vars
  BY <1>3, <1>13 DEF Exit, vars
<1> QED BY <1>5, <1>6, <1>7, <1>8, <1>9, <1>10, <1>11, <1>12, <1>13 DEF Next, Step

\* A command that ends for want of a route, a model or access had a reason: at some
\* moment of the frame none of a task's candidates was served where it may run, no
\* backend served the model, or one refused (buildRouteReport, inspectModel,
\* firstFatalBackendReadError).
THEOREM RefusalsJustified == Spec => []NoRouteWitnessed
<1>1. Init => NoRouteInv
  BY DEF Init, NoRouteInv, NoRouteWitnessed
<1> QED BY <1>1, NoRouteStep, ProbeInvHolds, PTL DEF Spec, NoRouteInv

-----------------------------------------------------------------------------
(* What a frame says was so *)

Unsurveyed == {"models", "loaded", "model", "triage"}
Exposing   == {"models", "status", "watch", "events"}

\* The parts of a frame, and that what each says was so in one of the worlds H.
SurveySeen(H, f) ==
    \A b \in Backend : /\ b \in f.survey.reachable => SawUp(H, b)
                       /\ b \notin f.survey.reachable => SawDown(H, b)

RouteSeen(H, r) ==
    /\ SawServing(H, r.backend, r.model)
    /\ r.ready => SawHolding(H, r.backend, r.model)
    /\ ~r.ready => SawCold(H, r.backend, r.model)

RoutesSeen(H, f) == \A i \in DOMAIN f.routes : RouteSeen(H, f.routes[i])

ExposedSeen(H, f, k) ==
    \A x \in f.exposed :
        /\ k # "loaded" => SawServing(H, x[1], x[2])
        /\ x[3] => SawHolding(H, x[1], x[2])
        /\ k \in Exposing /\ ~x[3] => SawCold(H, x[1], x[2])

HiddenSeen(H, f) ==
    \A b \in Backend, m \in Name :
        << b, m >> \notin { << y[1], y[2] >> : y \in f.exposed } => SawLacking(H, b, m)

WarningsSeen(H, f) ==
    \A b \in Backend : Warn("W_BACKEND_UNREACHABLE", << b >>) \in f.warnings => SawDown(H, b)

ItemSeen(H, x) ==
    /\ x.code = "W_BACKEND_UNREACHABLE" => SawDown(H, x.backend)
    /\ x.code = "E_BACKEND_AUTH_FAILED" => SawRefusing(H, x.backend)

ItemsSeen(H, f) == \A x : Has(f.items, x) => ItemSeen(H, x)

FrameSeen(H, f, k) ==
    RoutesSeen(H, f) /\ ExposedSeen(H, f, k) /\ WarningsSeen(H, f) /\ ItemsSeen(H, f)

\* What was so in one world was so in one of more.
LEMMA FrameStillSeen ==
    ASSUME NEW H, NEW G, H \subseteq G, NEW f, NEW k
    PROVE  /\ FrameSeen(H, f, k) => FrameSeen(G, f, k)
           /\ SurveySeen(H, f) => SurveySeen(G, f)
           /\ HiddenSeen(H, f) => HiddenSeen(G, f)
<1>1. \A r : RouteSeen(H, r) => RouteSeen(G, r)
  BY StillSeen DEF RouteSeen
<1>2. RoutesSeen(H, f) => RoutesSeen(G, f)
  BY <1>1 DEF RoutesSeen
<1>3. ExposedSeen(H, f, k) => ExposedSeen(G, f, k)
  BY StillSeen DEF ExposedSeen
<1>4. WarningsSeen(H, f) => WarningsSeen(G, f)
  BY StillSeen DEF WarningsSeen
<1>5. \A x : ItemSeen(H, x) => ItemSeen(G, x)
  BY StillSeen DEF ItemSeen
<1>6. ItemsSeen(H, f) => ItemsSeen(G, f)
  BY <1>5 DEF ItemsSeen
<1>7. SurveySeen(H, f) => SurveySeen(G, f)
  <2>1. \A b : (SawUp(H, b) => SawUp(G, b)) /\ (SawDown(H, b) => SawDown(G, b))
    BY StillSeen
  <2> QED BY <2>1, Zenon DEF SurveySeen
<1>8. HiddenSeen(H, f) => HiddenSeen(G, f)
  BY StillSeen DEF HiddenSeen
<1> QED BY <1>2, <1>3, <1>4, <1>6, <1>7, <1>8 DEF FrameSeen

\* A frame that says nothing but of its configuration's findings.
LEMMA NothingSeen ==
    ASSUME NEW H, NEW k, NEW f, f.routes = << >>, f.exposed = {}, f.warnings = {},
           \A x : Has(f.items, x) => x.code \in {"E_CONFIG", "W_CONFIG_VALIDATION"}
    PROVE  FrameSeen(H, f, k)
<1>1. RoutesSeen(H, f)
  BY DEF RoutesSeen
<1>2. ExposedSeen(H, f, k) /\ WarningsSeen(H, f)
  BY DEF ExposedSeen, WarningsSeen
<1>3. ItemsSeen(H, f)
  BY DEF ItemsSeen, ItemSeen
<1> QED BY <1>1, <1>2, <1>3 DEF FrameSeen

\* The first round of a plan surveys.
LEMMA PlanBegins ==
    ASSUME NEW c, Tasked(c), kind \in Kinds, kind # "prior", NEW p \in Plans(c)
    PROVE  Head(p).round \notin {"route", "exposed"}
<1> DEFINE x == [round |-> "doctor", task |-> 0]
           m == [t \in DOMAIN c |-> [round |-> "route", task |-> t]]
           y == [round |-> "exposed", task |-> 0]
<1>1. CASE kind \in {"status", "watch", "events"}
  <2>1. p = (<< x >> \o m) \o << y >>
    BY <1>1 DEF Plans
  <2> DEFINE R == {x, y} \cup { m[t] : t \in DOMAIN c }
  <2>2. x \in R /\ y \in R /\ \A t \in 1 .. Len(c) : m[t] \in R
    BY LenProperties DEF Tasked
  <2>3. m = [t \in 1 .. Len(c) |-> m[t]] /\ Len(c) \in Nat
    BY LenProperties DEF Tasked
  <2>4. x.round = "doctor"
    OBVIOUS
  <2> HIDE DEF x, y, R, m
  <2>5. m \in Seq(R)
    BY <2>2, <2>3, IsASeq
  <2>6. << x >> \in Seq(R) /\ Len(<< x >>) = 1 /\ << x >>[1] = x /\ << y >> \in Seq(R) /\ Len(<< y >>) = 1
    BY <2>2
  <2>7. << x >> \o m \in Seq(R) /\ Len(<< x >> \o m) >= 1 /\ (<< x >> \o m)[1] = x
    BY <2>5, <2>6, ConcatProperties, LenProperties
  <2>8. p \in Seq(R) /\ Len(p) >= 1 /\ p[1] = x
    <3> DEFINE q == << x >> \o m
    <3>1. p = q \o << y >>
      BY <2>1
    <3> HIDE DEF q
    <3>2. q \in Seq(R) /\ Len(q) >= 1 /\ q[1] = x /\ Len(q) \in Nat
      BY <2>7, LenProperties DEF q
    <3> QED BY <2>6, <3>1, <3>2, ConcatProperties
  <2>9. Head(p) = x
    BY <2>8
  <2> QED BY <2>4, <2>9
<1>2. CASE kind \notin {"status", "watch", "events"}
  BY <1>2, KindsAssumption DEF Plans
<1> QED BY <1>1, <1>2

FrameInv ==
    (Begun \/ pc = "write") /\ ~signalled /\ kind # "prior" =>
        /\ FrameSeen(history, draft, kind)
        /\ kind \notin Unsurveyed /\ (pc = "write" \/ Round.round \in {"route", "exposed"}) =>
              SurveySeen(history, draft)
        /\ kind \in Exposing /\ pc = "write" => HiddenSeen(history, draft)

\* A round's warnings and items are of backends that did not answer it.
LEMMA WarningsWitnessed ==
    ASSUME NEW H, NEW k, EntryOf(k) = "reachable", Whole(H, probe, k), NEW W,
           \A w \in W : Warns(w, probe), NEW b \in Backend, Warn("W_BACKEND_UNREACHABLE", << b >>) \in W
    PROVE  SawDown(H, b)
<1> DEFINE w == Warn("W_BACKEND_UNREACHABLE", << b >>)
<1>1. w.code = "W_BACKEND_UNREACHABLE" /\ w.names = << b >>
  BY DEF Warn
<1>2. PICK x \in Backend \ probe.reachable : w = Warn("W_BACKEND_UNREACHABLE", << x >>)
  BY <1>1 DEF Warns
<1>3. w.names = << x >>
  BY <1>2 DEF Warn
<1>4. x = b
  BY <1>1, <1>3
<1> QED BY <1>2, <1>4 DEF Whole, KnowsDown

\* What a listed model says is what the round learned.
LEMMA ExposedWitnessed ==
    ASSUME NEW H, NEW k, probe \in Probe, Whole(H, probe, k), NEW f,
           f.exposed \subseteq Exposed \/ (k = "loaded" /\ f.exposed = { x \in Rows(Name) : x[3] })
    PROVE  ExposedSeen(H, f, k)
<1> SUFFICES ASSUME NEW x \in f.exposed
             PROVE  /\ k # "loaded" => SawServing(H, x[1], x[2])
                    /\ x[3] => SawHolding(H, x[1], x[2])
                    /\ k \in Exposing /\ ~x[3] => SawCold(H, x[1], x[2])
  BY DEF ExposedSeen
<1>1. x \in Rows(Name)
  BY DEF Exposed
<1>2. PICK b \in Backend, m \in Name : x = << b, m, m \in probe.loaded[b] >>
  BY <1>1 DEF Rows
<1>3. x[1] = b /\ x[2] = m /\ x[3] = (m \in probe.loaded[b])
  BY <1>2
<1>4. /\ \A n \in probe.installed[b] : SawServing(H, b, n)
      /\ \A n \in probe.loaded[b] : SawHolding(H, b, n)
      /\ k \notin {"fast", "listed"} => \A n \in Name \ probe.loaded[b] : SawCold(H, b, n)
  BY DEF Whole, Knows, KnowsCold
<1>5. k # "loaded" => m \in probe.installed[b]
  BY <1>3 DEF Exposed
<1>6. k \in Exposing => k \notin {"fast", "listed"}
  BY DEF Exposing
<1>7. k # "loaded" => SawServing(H, x[1], x[2])
  BY <1>3, <1>4, <1>5
<1>8. x[3] => SawHolding(H, x[1], x[2])
  BY <1>3, <1>4
<1>9. k \in Exposing /\ ~x[3] => SawCold(H, x[1], x[2])
  BY <1>3, <1>4, <1>6
<1> QED BY <1>7, <1>8, <1>9

\* What is not listed was not served at some moment.
LEMMA HiddenWitnessed ==
    ASSUME NEW H, NEW k, k \in Exposing, probe \in Probe, Whole(H, probe, k), NEW f, f.exposed = Exposed
    PROVE  HiddenSeen(H, f)
<1> SUFFICES ASSUME NEW b \in Backend, NEW m \in Name,
                    << b, m >> \notin { << y[1], y[2] >> : y \in f.exposed }
             PROVE  SawLacking(H, b, m)
  BY DEF HiddenSeen
<1>1. m \notin probe.installed[b]
  <2> SUFFICES ASSUME m \in probe.installed[b] PROVE FALSE
    OBVIOUS
  <2> DEFINE x == << b, m, m \in probe.loaded[b] >>
  <2>1. x \in Rows(Name) /\ x[1] = b /\ x[2] = m
    BY DEF Rows
  <2>2. x \in f.exposed
    BY <2>1 DEF Exposed
  <2> QED BY <2>1, <2>2
<1>2. k \notin {"fast", "listed", "loaded"}
  BY DEF Exposing
<1> QED BY <1>1, <1>2 DEF Whole, KnowsLacking

\* A frame says what its rounds learned.
LEMMA RecordedSeen ==
    ASSUME TypeInv, Begun, ~Unroutable, NEW H, FrameSeen(H, draft, kind), Whole(H, probe, kind),
           NEW opts \in Options
    PROVE  /\ FrameSeen(H, Recorded(opts), kind)
           /\ Round.round \in {"exposed", "models"} => Recorded(opts).exposed = Exposed
           /\ kind \notin Unsurveyed =>
                 Recorded(opts).survey = (IF Round.round \in {"route", "exposed"} THEN draft.survey ELSE probe)
<1>1. /\ probe \in Probe /\ FrameTyped(draft) /\ opts \in Asked
      /\ RoutesSeen(H, draft) /\ ExposedSeen(H, draft, kind) /\ WarningsSeen(H, draft) /\ ItemsSeen(H, draft)
  BY NothingIs DEF TypeInv, FramesInv, FrameSeen
<1>2. /\ Tasked(config) /\ PlanIs(plan, config, kind) /\ plan # << >>
      /\ Round = plan[1] /\ 1 \in 1 .. Len(plan) /\ kind \in Kinds /\ kind # "prior"
  BY ConfigIs, TailPlan DEF TypeInv, PlaceInv, Round
<1>3. /\ Round.round \in RoundsOf(kind)
      /\ Round.round = "route" => Round.task \in DOMAIN config
      /\ Round.round = "model" => Round.task \in Name
  BY <1>2 DEF PlanIs
<1>4. kind = "triage" => Round.round = "doctor"
  BY <1>3 DEF RoundsOf
<1>5. Round.round \in {"doctor", "inventory", "state", "route", "exposed"} => EntryOf(kind) = "reachable"
  BY <1>2, <1>3, KindsAssumption DEF RoundsOf, EntryOf
<1>6. CASE kind = "triage"
  <2> DEFINE made == DoctorItems(config, probe, probe.degraded)
             items == draft.items \o made
             f == Report(items, DoctorCommands(config, probe), opts)
  <2>1. Recorded(opts) = [f EXCEPT !.survey = probe, !.probed = TRUE]
    BY <1>4, <1>6 DEF Recorded
  <2>2. made \in Seq(OfDoctor(probe)) /\ made \in Seq(OfItem)
    <3>1. made \in Seq(OfDoctor(probe))
      BY <1>2, DoctorItemsAre DEF Doctors
    <3>2. OfDoctor(probe) \subseteq OfItem
      BY DEF OfDoctor
    <3> QED BY <3>1, <3>2, SeqMonotonic
  <2> HIDE DEF made
  <2>3. items \in Seq(OfItem) /\ \A x : Has(items, x) <=> Has(draft.items, x) \/ Has(made, x)
    BY <1>1, <2>2, HasConcat DEF FrameTyped
  <2> HIDE DEF items
  <2>a. items \in Seq(OfItem) /\ opts \in Asked
    BY <1>1, <2>3
  <2>4. Made(f, items, opts)
    BY <2>a, ReportIs
  <2> HIDE DEF f
  <2>5. \A x : Has(f.items, x) => Has(items, x)
    BY <2>4 DEF Made, Reports
  <2>6. f.routes = << >> /\ f.exposed = {} /\ f.warnings = {}
    BY <2>4 DEF Made
  <2>7. f = [survey |-> f.survey, routes |-> f.routes, exposed |-> f.exposed,
             warnings |-> f.warnings, action |-> f.action, items |-> f.items,
             commands |-> f.commands, asked |-> f.asked, probed |-> f.probed]
    BY <2>4 DEF Made, FrameTyped
  <2> DEFINE g == Recorded(opts)
  <2>8. g.routes = << >> /\ g.exposed = {} /\ g.warnings = {} /\ g.items = f.items
    BY <2>1, <2>6, <2>7
  <2> HIDE DEF g
  <2>9. ASSUME NEW x, Has(made, x) PROVE ItemSeen(H, x)
    <3>1. x \in OfDoctor(probe)
      BY <2>2, <2>9, LenProperties, ElementOfSeq DEF Has
    <3>2. x.code # "E_BACKEND_AUTH_FAILED"
          /\ (x.code = "W_BACKEND_UNREACHABLE" => x.backend \in Backend \ probe.reachable)
      BY <3>1 DEF OfDoctor
    <3>3. x.code = "W_BACKEND_UNREACHABLE" => SawDown(H, x.backend)
      BY <1>4, <1>5, <1>6, <3>2 DEF Whole, KnowsDown
    <3> QED BY <3>2, <3>3 DEF ItemSeen
  <2>10. ItemsSeen(H, g)
    BY <1>1, <2>3, <2>5, <2>8, <2>9 DEF ItemsSeen
  <2>11. FrameSeen(H, g, kind)
    BY <2>8, <2>10 DEF FrameSeen, RoutesSeen, ExposedSeen, WarningsSeen
  <2> QED BY <1>4, <1>6, <2>11 DEF g, Unsurveyed
<1>7. ASSUME kind # "triage", NEW g, g.items = draft.items,
             g.routes = draft.routes \/ RoutesSeen(H, g),
             g.exposed = draft.exposed \/ ExposedSeen(H, g, kind),
             g.warnings = draft.warnings \/ WarningsSeen(H, g)
      PROVE  FrameSeen(H, g, kind)
  BY <1>1, <1>7 DEF FrameSeen, RoutesSeen, ExposedSeen, WarningsSeen, ItemsSeen
<1>8. CASE kind # "triage" /\ Round.round \in {"doctor", "state"}
  <2> DEFINE T == IF Round.round = "doctor" THEN config ELSE << >>
             W == DoctorWarnings(T, probe, probe.degraded)
             g == Recorded(opts)
  <2>1. g = [draft EXCEPT !.survey = probe, !.warnings = W]
    BY <1>8 DEF Recorded
  <2>2. \A w \in W : Warns(w, probe)
    BY DoctorWarningsAre
  <2> HIDE DEF W, g
  <2>3. /\ g.items = draft.items /\ g.routes = draft.routes /\ g.exposed = draft.exposed
        /\ g.warnings = W /\ g.survey = probe
    BY <1>1, <2>1 DEF FrameTyped
  <2>4. WarningsSeen(H, g)
    BY <1>5, <1>8, <2>2, <2>3, WarningsWitnessed DEF WarningsSeen
  <2>5. FrameSeen(H, g, kind)
    BY <1>7, <1>8, <2>3, <2>4
  <2> QED BY <1>8, <2>3, <2>5 DEF g
<1>9. CASE kind # "triage" /\ Round.round = "inventory"
  <2> DEFINE g == Recorded(opts)
  <2>1. g = [draft EXCEPT !.survey = probe]
    BY <1>9 DEF Recorded
  <2> HIDE DEF g
  <2>2. /\ g.items = draft.items /\ g.routes = draft.routes /\ g.exposed = draft.exposed
        /\ g.warnings = draft.warnings /\ g.survey = probe
    BY <1>1, <2>1 DEF FrameTyped
  <2>3. FrameSeen(H, g, kind)
    BY <1>7, <1>9, <2>2
  <2> QED BY <1>9, <2>2, <2>3 DEF g
<1>10. CASE kind # "triage" /\ Round.round = "route"
  <2> DEFINE r == Route(Round.task, probe)
             W == WarningsOf(Round.task, r, probe)
             g == Recorded(opts)
  <2>1. g = [draft EXCEPT !.routes = Append(@, r), !.warnings = @ \cup W]
    BY <1>10 DEF Recorded
  <2>2. r \in Decision /\ r.backend \in probe.reachable /\ r.model \in probe.installed[r.backend]
        /\ r.ready = (r.model \in probe.loaded[r.backend])
    <3>1. Decides(r, config[Round.task].route, probe)
      BY <1>2, <1>3, <1>10, RouteIs DEF Tasked
    <3>2. r.found
      BY <1>10 DEF Unroutable
    <3> QED BY <3>1, <3>2 DEF Decides
  <2>3. \A w \in W : Warns(w, probe)
    BY RouteWarningsAre
  <2> HIDE DEF W, r, g
  <2>4. RouteSeen(H, r)
    <3>1. r.backend \in Backend /\ r.model \in Name
      BY <2>2 DEF Decision
    <3>2. kind \notin {"fast", "listed"}
      BY <1>3, <1>10 DEF RoundsOf
    <3>3. Knows(H, probe, r.backend) /\ KnowsCold(H, probe, r.backend)
      BY <3>1, <3>2 DEF Whole
    <3> QED BY <2>2, <3>1, <3>3 DEF RouteSeen, Knows, KnowsCold
  <2>5. draft.routes \in Seq(Decision)
    BY <1>1 DEF FrameTyped
  <2>6. /\ g.items = draft.items /\ g.routes = Append(draft.routes, r) /\ g.exposed = draft.exposed
        /\ g.warnings = draft.warnings \cup W /\ g.survey = draft.survey
    BY <1>1, <2>1 DEF FrameTyped
  <2>7. RoutesSeen(H, g)
    <3>1. /\ Len(draft.routes) \in Nat /\ DOMAIN draft.routes = 1 .. Len(draft.routes)
          /\ DOMAIN g.routes = 1 .. Len(draft.routes) + 1
          /\ \A i \in 1 .. Len(draft.routes) : g.routes[i] = draft.routes[i]
          /\ g.routes[Len(draft.routes) + 1] = r
      BY <2>2, <2>5, <2>6, AppendProperties, LenProperties
    <3>2. \A i \in DOMAIN g.routes : i \in DOMAIN draft.routes \/ i = Len(draft.routes) + 1
      BY <3>1
    <3> QED BY <1>1, <2>4, <3>1, <3>2 DEF RoutesSeen
  <2>8. WarningsSeen(H, g)
    <3> SUFFICES ASSUME NEW b \in Backend, Warn("W_BACKEND_UNREACHABLE", << b >>) \in g.warnings
                 PROVE  SawDown(H, b)
      BY DEF WarningsSeen
    <3>1. CASE Warn("W_BACKEND_UNREACHABLE", << b >>) \in draft.warnings
      BY <1>1, <3>1 DEF WarningsSeen
    <3>2. CASE Warn("W_BACKEND_UNREACHABLE", << b >>) \in W
      BY <1>5, <1>10, <2>3, <3>2, WarningsWitnessed
    <3> QED BY <2>6, <3>1, <3>2
  <2>9. FrameSeen(H, g, kind)
    BY <1>7, <1>10, <2>6, <2>7, <2>8
  <2> QED BY <1>10, <2>6, <2>9 DEF g
<1>11. CASE kind # "triage" /\ Round.round \in {"exposed", "models", "loaded", "model"}
  <2> DEFINE g == Recorded(opts)
             E == CASE Round.round \in {"exposed", "models"} -> Exposed
                    [] Round.round = "loaded" -> { x \in Rows(Name) : x[3] }
                    [] Round.round = "model" -> Exposed \cap Rows({Round.task})
  <2>1. g = [draft EXCEPT !.exposed = E]
    BY <1>11 DEF Recorded
  <2>2. /\ Round.round \in {"exposed", "models"} => E = Exposed
        /\ E \subseteq Exposed \/ (Round.round = "loaded" /\ E = { x \in Rows(Name) : x[3] })
    BY <1>11
  <2>3. Round.round = "loaded" => kind = "loaded"
    BY <1>2, <1>3, KindsAssumption DEF RoundsOf
  <2>4. Round.round \in {"models", "loaded", "model"} => kind \in Unsurveyed
    BY <1>2, <1>3, KindsAssumption DEF RoundsOf, Unsurveyed
  <2> HIDE DEF g, E
  <2>5. /\ g.items = draft.items /\ g.routes = draft.routes /\ g.exposed = E
        /\ g.warnings = draft.warnings /\ g.survey = draft.survey
    BY <1>1, <2>1 DEF FrameTyped
  <2>6. ExposedSeen(H, g, kind)
    BY <1>1, <2>2, <2>3, <2>5, ExposedWitnessed
  <2>7. FrameSeen(H, g, kind)
    BY <1>7, <1>11, <2>5, <2>6
  <2> QED BY <1>11, <2>2, <2>4, <2>5, <2>7 DEF g
<1>12. Round.round \in Rounds
  <2>1. plan[1] \in [round : Rounds, task : Nat \cup Name]
    BY <1>2, ElementOfSeq DEF PlanIs
  <2> QED BY <1>2, <2>1
<1> QED BY <1>6, <1>8, <1>9, <1>10, <1>11, <1>12 DEF Rounds

\* Each part of a frame is made from a round that was complete when it was made.
LEMMA FrameStep ==
    ASSUME TypeInv, TypeInv', ProbeInv, FrameInv, [Next]_vars
    PROVE  FrameInv'
<1>0. Len(Order) \in Nat /\ at \in 1 .. Len(Order) + 1 /\ DOMAIN Order = 1 .. Len(Order)
      /\ world \in history /\ FrameTyped(draft)
  BY OrderIs DEF TypeInv, PlaceInv, WorldInv, FramesInv
<1>1. CASE ~Begun' /\ pc' # "write"
  BY <1>1 DEF FrameInv
<1>2. CASE signalled' \/ kind' = "prior"
  BY <1>2 DEF FrameInv
<1>3. CASE /\ UNCHANGED << draft, plan, kind >> /\ history \subseteq history'
           /\ signalled' = signalled
           /\ (Begun' => Begun) /\ (pc' = "write" => pc = "write")
  <2>1. PICK G : G = history'
    OBVIOUS
  <2>2. /\ FrameSeen(history, draft, kind) => FrameSeen(G, draft, kind)
        /\ SurveySeen(history, draft) => SurveySeen(G, draft)
        /\ HiddenSeen(history, draft) => HiddenSeen(G, draft)
    BY <1>3, <2>1, FrameStillSeen
  <2>3. Round' = Round
    BY <1>3 DEF Round
  <2>4. FrameSeen(G, draft, kind) => FrameSeen(history', draft', kind')
    BY <1>3, <2>1
  <2>5. SurveySeen(G, draft) => SurveySeen(history', draft')
    BY <1>3, <2>1
  <2>6. HiddenSeen(G, draft) => HiddenSeen(history', draft')
    BY <1>3, <2>1
  <2> QED BY <1>3, <2>2, <2>3, <2>4, <2>5, <2>6 DEF FrameInv
<1>4. ASSUME NEW b \in Backend, Drift(b) PROVE FrameInv'
  BY <1>3, <1>4 DEF Drift, Begun, Asking
<1>5. CASE Signal
  BY <1>2, <1>5 DEF Signal
<1>6. CASE Load
  <2>1. UNCHANGED kind /\ pc = "load"
    BY <1>6 DEF Load
  <2>2. CASE kind = "prior"
    BY <1>2, <2>1, <2>2
  <2>3. CASE kind # "prior" /\ LoadFails
    <3>1. CASE kind = "triage"
      <4>1. PICK opts \in Options : draft' = Report(<< LoadItem >>, << >>, opts)
        BY <2>3, <3>1 DEF LoadFails
      <4>2. << LoadItem >> \in Seq(OfItem) /\ opts \in Asked
        BY ItemsTyped, OneOf, NothingIs
      <4>3. PICK f : f = Report(<< LoadItem >>, << >>, opts)
        OBVIOUS
      <4>4. Made(f, << LoadItem >>, opts)
        BY <4>2, <4>3, ReportIs
      <4>5. \A x : Has(<< LoadItem >>, x) => x.code = "E_CONFIG"
        BY DEF Has, LoadItem, Item
      <4>6. \A x : Has(f.items, x) => x.code = "E_CONFIG"
        BY <4>4, <4>5 DEF Made, Reports
      <4>8. FrameSeen(history', f, kind)
        BY <4>4, <4>6, NothingSeen DEF Made
      <4>9. FrameSeen(history', draft', kind')
        BY <2>1, <4>1, <4>3, <4>8
      <4>10. kind' \in Unsurveyed /\ kind' \notin Exposing
        BY <2>1, <3>1 DEF Unsurveyed, Exposing
      <4> QED BY <4>9, <4>10 DEF FrameInv
    <3>2. CASE kind # "triage"
      <4>1. pc' = "exit"
        BY <2>3, <3>2 DEF LoadFails, Fail
      <4> QED BY <1>1, <4>1 DEF Begun, Asking
    <3> QED BY <3>1, <3>2
  <2>4. CASE /\ kind # "prior"
             /\ config' \in { c \in Configuration : kind = "snapshot" => c # << >> }
             /\ plan' \in Plans(config')
             /\ pc' = (IF kind \in {"backends", "listed", "models", "loaded"} THEN Entry ELSE "access")
             /\ \E findings \in {<< >>} \cup { f \in { << FindingItem("warning", b) >> : b \in Backend } :
                                                kind = "triage" } :
                   draft' = [NoFrame EXCEPT !.items = findings]
    <3>1. PICK findings \in {<< >>} \cup { << FindingItem("warning", b) >> : b \in Backend } :
                   draft' = [NoFrame EXCEPT !.items = findings]
      BY <2>4
    <3>2. \A x : Has(findings, x) => x.code = "W_CONFIG_VALIDATION"
      <4>1. CASE findings = << >>
        BY <4>1 DEF Has
      <4>2. ASSUME NEW b \in Backend, findings = << FindingItem("warning", b) >>
            PROVE  \A x : Has(findings, x) => x.code = "W_CONFIG_VALIDATION"
        <5>1. FindingItem("warning", b).code = "W_CONFIG_VALIDATION"
          BY DEF FindingItem, Item
        <5>2. \A x : Has(findings, x) => x = FindingItem("warning", b)
          BY <4>2 DEF Has
        <5> QED BY <5>1, <5>2
      <4> QED BY <3>1, <4>1, <4>2
    <3>3. draft'.routes = << >> /\ draft'.exposed = {} /\ draft'.warnings = {} /\ draft'.items = findings
      BY <3>1 DEF NoFrame
    <3>4. PICK f : f = draft'
      OBVIOUS
    <3>5. FrameSeen(history', f, kind)
      BY <3>2, <3>3, <3>4, NothingSeen
    <3>6. FrameSeen(history', draft', kind')
      BY <2>1, <3>4, <3>5
    <3>7. pc' # "write"
      BY <2>4, EntryIs
    <3>8. Round'.round \notin {"route", "exposed"}
      <4>1. PICK c \in Configuration : config' = c
        BY <2>4
      <4>2. PICK p \in Plans(c) : plan' = p
        BY <2>4, <4>1
      <4>3. Tasked(c) /\ kind \in Kinds
        BY ConfigIs DEF TypeInv, PlaceInv
      <4>4. Head(p).round \notin {"route", "exposed"}
        BY <2>4, <4>3, PlanBegins
      <4> QED BY <4>2, <4>4 DEF Round
    <3> QED BY <3>6, <3>7, <3>8 DEF FrameInv
  <2> QED BY <1>6, <2>2, <2>3, <2>4 DEF Load
<1>7. CASE CheckAccess
  <2>1. UNCHANGED << history, plan, kind, signalled >> /\ Begun /\ pc' # "write"
    BY <1>7, EntryIs DEF CheckAccess, Begun, Refused, Fail
  <2>2. CASE UNCHANGED draft
    BY <1>3, <2>1, <2>2
  <2>3. CASE signalled \/ kind = "prior"
    BY <1>2, <2>1, <2>3
  <2>4. CASE /\ at <= Len(Order) /\ ~signalled /\ kind # "prior"
             /\ draft' = [draft EXCEPT !.items = IF Refuses(Order[at])
                                                 THEN Append(@, RefusalItem(Order[at])) ELSE @]
    <3>1. FrameSeen(history, draft, kind)
          /\ (kind \notin Unsurveyed /\ Round.round \in {"route", "exposed"} => SurveySeen(history, draft))
      BY <2>1, <2>4 DEF FrameInv
    <3>2. draft'.routes = draft.routes /\ draft'.exposed = draft.exposed /\ draft'.survey = draft.survey
          /\ draft'.warnings = draft.warnings
          /\ draft'.items = IF Refuses(Order[at]) THEN Append(draft.items, RefusalItem(Order[at]))
                            ELSE draft.items
      BY <1>0, <2>4 DEF FrameTyped
    <3>3. \A x : Has(draft'.items, x) => Has(draft.items, x) \/ (Refuses(Order[at]) /\ x = RefusalItem(Order[at]))
      <4>1. CASE Refuses(Order[at])
        <5>1. draft.items \in Seq(OfItem) /\ RefusalItem(Order[at]) \in OfItem
          BY <1>0, <2>4, OrderIs, ItemsTyped DEF FrameTyped
        <5>2. << RefusalItem(Order[at]) >> \in Seq(OfItem)
              /\ Append(draft.items, RefusalItem(Order[at])) = draft.items \o << RefusalItem(Order[at]) >>
          BY <5>1, AppendIsConcat, OneOf
        <5>a. draft'.items = draft.items \o << RefusalItem(Order[at]) >>
          BY <3>2, <4>1, <5>2
        <5>b. \A x : Has(draft.items \o << RefusalItem(Order[at]) >>, x)
                       <=> Has(draft.items, x) \/ Has(<< RefusalItem(Order[at]) >>, x)
          BY <5>1, <5>2, HasConcat
        <5>3. \A x : Has(draft'.items, x) <=> Has(draft.items, x) \/ Has(<< RefusalItem(Order[at]) >>, x)
          BY <5>a, <5>b, Zenon
        <5>4. \A x : Has(<< RefusalItem(Order[at]) >>, x) => x = RefusalItem(Order[at])
          BY DEF Has
        <5> QED BY <4>1, <5>3, <5>4
      <4>2. CASE ~Refuses(Order[at])
        BY <3>2, <4>2
      <4> QED BY <4>1, <4>2
    <3>4. Refuses(Order[at]) => ItemSeen(history, RefusalItem(Order[at]))
      BY <1>0 DEF Refuses, ItemSeen, RefusalItem, Item, SawRefusing
    <3>5. PICK f : f = draft'
      OBVIOUS
    <3>6. FrameSeen(history, f, kind)
      <4>1. ItemsSeen(history, f)
        BY <3>1, <3>3, <3>4, <3>5 DEF FrameSeen, ItemsSeen
      <4> QED BY <3>1, <3>2, <3>5, <4>1 DEF FrameSeen, RoutesSeen, ExposedSeen, WarningsSeen
    <3>7. SurveySeen(history, draft) => SurveySeen(history, f)
      BY <3>2, <3>5 DEF SurveySeen
    <3>8. FrameSeen(history', draft', kind')
      BY <2>1, <3>5, <3>6
    <3>9. SurveySeen(history, f) => SurveySeen(history', draft')
      BY <2>1, <3>5
    <3>10. Round' = Round
      BY <2>1 DEF Round
    <3> QED BY <2>1, <3>1, <3>7, <3>8, <3>9, <3>10 DEF FrameInv
  <2>5. UNCHANGED draft \/ (at <= Len(Order)
             /\ draft' = [draft EXCEPT !.items = IF Refuses(Order[at])
                                                 THEN Append(@, RefusalItem(Order[at])) ELSE @])
    BY <1>7 DEF CheckAccess
  <2> QED BY <2>2, <2>3, <2>4, <2>5
<1>8. CASE ProbeReachable \/ ProbeInstalled \/ ProbeLoaded
  <2>1. UNCHANGED << history, plan, kind, signalled, draft >> /\ Begun /\ pc # "write" /\ pc' # "write"
    BY <1>8, EntryIs DEF ProbeReachable, ProbeInstalled, ProbeLoaded, Begun, Asking, Refused, Fail
  <2> QED BY <1>3, <2>1
<1>9. CASE EndRound
  <2>1. /\ UNCHANGED << history, kind, signalled >> /\ Begun /\ pc = Entry /\ at > Len(Order)
        /\ PlanIs(plan, config, kind) /\ plan # << >> /\ kind # "prior" /\ pc # "write"
    BY <1>9, EntryIs DEF EndRound, Begun, Asking, TypeInv, PlaceInv
  <2>2. CASE pc' = "exit"
    BY <1>1, <2>2 DEF Begun, Asking
  <2>3. CASE signalled
    BY <1>2, <2>1, <2>3
  <2>4. CASE /\ ~signalled /\ ~Unroutable
             /\ \E opts \in Options : draft' = Recorded(opts)
             /\ plan' = Tail(plan)
             /\ pc' = IF Tail(plan) = << >> THEN "write" ELSE Entry
    <3>1. PICK opts \in Options : draft' = Recorded(opts)
      BY <2>4
    <3>2. Whole(history, probe, kind)
      BY <2>1, <2>4, RoundLearned
    <3>3. FrameSeen(history, draft, kind)
          /\ (kind \notin Unsurveyed /\ Round.round \in {"route", "exposed"} => SurveySeen(history, draft))
      BY <2>1, <2>4 DEF FrameInv
    <3>4. /\ FrameSeen(history, Recorded(opts), kind)
          /\ Round.round \in {"exposed", "models"} => Recorded(opts).exposed = Exposed
          /\ kind \notin Unsurveyed =>
               Recorded(opts).survey = (IF Round.round \in {"route", "exposed"} THEN draft.survey ELSE probe)
      BY <2>1, <2>4, <3>2, <3>3, RecordedSeen
    <3>5. PICK f : f = Recorded(opts)
      OBVIOUS
    <3>6. FrameSeen(history', draft', kind')
      BY <2>1, <3>1, <3>4
    <3>7. /\ Round = plan[1] /\ 1 \in 1 .. Len(plan) /\ probe \in Probe /\ kind \in Kinds
          /\ (Tail(plan) = << >> => Len(plan) = 1)
      BY <2>1, TailPlan DEF TypeInv, PlaceInv, FramesInv, Round
    <3>8. kind \notin Unsurveyed => SurveySeen(history', draft')
      <4> SUFFICES ASSUME kind \notin Unsurveyed PROVE SurveySeen(history', draft')
        OBVIOUS
      <4>1. EntryOf(kind) = "reachable"
        BY DEF Unsurveyed, EntryOf
      <4>2. CASE Round.round \in {"route", "exposed"}
        <5>1. SurveySeen(history, f)
          BY <3>3, <3>4, <3>5, <4>2 DEF SurveySeen
        <5> QED BY <2>1, <3>1, <3>5, <5>1
      <4>3. CASE Round.round \notin {"route", "exposed"}
        <5>1. f.survey = probe
          BY <3>4, <3>5, <4>3
        <5>2. SurveySeen(history, f)
          BY <3>2, <4>1, <5>1 DEF SurveySeen, Whole, Knows, KnowsDown
        <5> QED BY <2>1, <3>1, <3>5, <5>2
      <4> QED BY <4>2, <4>3
    <3>9. kind \in Exposing /\ pc' = "write" => HiddenSeen(history', draft')
      <4> SUFFICES ASSUME kind \in Exposing, pc' = "write" PROVE HiddenSeen(history', draft')
        OBVIOUS
      <4>1. Tail(plan) = << >>
        BY <2>4, EntryIs
      <4>2. Len(plan) = 1
        BY <3>7, <4>1
      <4>3. Round.round \in {"exposed", "models"}
        <5>1. CASE kind = "models"
          <6>1. Round.round \in RoundsOf(kind)
            BY <2>1, <3>7 DEF PlanIs
          <6> QED BY <5>1, <6>1 DEF RoundsOf
        <5>2. CASE kind \in {"status", "watch", "events"}
          BY <2>1, <3>7, <4>2, <5>2 DEF PlanIs
        <5> QED BY <5>1, <5>2 DEF Exposing
      <4>4. f.exposed = Exposed
        BY <3>4, <3>5, <4>3
      <4>5. HiddenSeen(history, f)
        BY <3>2, <3>7, <4>4, HiddenWitnessed
      <4> QED BY <2>1, <3>1, <3>5, <4>5
    <3> QED BY <2>1, <3>6, <3>8, <3>9 DEF FrameInv
  <2>5. \/ pc' = "exit"
        \/ /\ ~Unroutable
           /\ \E opts \in Options : draft' = Recorded(opts)
           /\ plan' = Tail(plan)
           /\ pc' = IF Tail(plan) = << >> THEN "write" ELSE Entry
    BY <1>9 DEF EndRound, Fail
  <2> QED BY <2>2, <2>3, <2>4, <2>5
<1>10. CASE WriteFrame \/ WriteBatch \/ Ticks \/ Stops \/ Exit
  BY <1>1, <1>10 DEF WriteFrame, WriteBatch, Ticks, Stops, Exit, Begun, Asking
<1>11. CASE UNCHANGED vars
  BY <1>3, <1>11 DEF vars, Begun, Asking
<1> QED BY <1>4, <1>5, <1>6, <1>7, <1>8, <1>9, <1>10, <1>11 DEF Next, Step

\* What a frame says of each backend and model was so at some moment since the frame was
\* begun, however the backends change between its rounds (buildStatusSnapshot,
\* buildSnapshot, buildDoctorReport, triageFromLiveInputs, inspectModel).
THEOREM FrameTold == Spec => []FrameWitnessed
<1>1. Init => FrameInv
  <2>1. Init => pc = "load"
    BY DEF Init
  <2> QED BY <2>1 DEF FrameInv, Begun, Asking
<1>2. TypeInv /\ FrameInv => FrameWitnessed
  <2> SUFFICES ASSUME TypeInv, FrameInv, Built, ~signalled, kind # "prior"
               PROVE  FrameWitnessed
    BY DEF FrameWitnessed
  <2> USE DEF Built
  <2>1. FrameSeen(history, draft, kind) /\ FrameTyped(draft)
        /\ (kind \notin Unsurveyed => SurveySeen(history, draft))
        /\ (kind \in Exposing => HiddenSeen(history, draft))
    BY DEF FrameInv, TypeInv, FramesInv
  <2>2. kind \notin {"models", "loaded", "model", "triage"} =>
           \A b \in Backend : \E w \in history : (b \in draft.survey.reachable) = Up(w, b)
    <3> SUFFICES ASSUME kind \notin {"models", "loaded", "model", "triage"}, NEW b \in Backend
                 PROVE  \E w \in history : (b \in draft.survey.reachable) = Up(w, b)
      BY Zenon
    <3>1. SurveySeen(history, draft)
      BY <2>1 DEF Unsurveyed
    <3>2. CASE b \in draft.survey.reachable
      <4>1. PICK w \in history : Up(w, b)
        BY <3>1, <3>2 DEF SurveySeen, SawUp
      <4>2. Up(w, b) = TRUE
        BY <4>1 DEF Up
      <4> QED BY <3>2, <4>2
    <3>3. CASE b \notin draft.survey.reachable
      <4>1. PICK w \in history : ~Up(w, b)
        BY <3>1, <3>3 DEF SurveySeen, SawDown
      <4>2. Up(w, b) = FALSE /\ (b \in draft.survey.reachable) = FALSE
        BY <3>3, <4>1 DEF Up
      <4>3. (b \in draft.survey.reachable) = Up(w, b)
        BY <4>2
      <4> QED BY <4>1, <4>3, Zenon
    <3> QED BY <3>2, <3>3
  <2>3. \A r \in ToSet(draft.routes) :
             /\ \E w \in history : Serves(w, r.backend, r.model)
             /\ r.ready => \E w \in history : r.model \in w[r.backend].loaded
    BY <2>1 DEF FrameSeen, RoutesSeen, RouteSeen, ToSet, SawServing, SawHolding, Holds
  <2>4. \A x \in draft.exposed :
             /\ kind # "loaded" => \E w \in history : Serves(w, x[1], x[2])
             /\ x[3] => \E w \in history : Up(w, x[1]) /\ x[2] \in w[x[1]].loaded
    BY <2>1 DEF FrameSeen, ExposedSeen, SawServing, SawHolding, Holds
  <2>5. kind \in {"models", "status", "watch", "events"} =>
             \A x \in (Backend \X Name) \ { << y[1], y[2] >> : y \in draft.exposed } :
                 \E w \in history : ~Serves(w, x[1], x[2])
    <3> SUFFICES ASSUME kind \in Exposing, NEW b \in Backend, NEW m \in Name,
                        << b, m >> \notin { << y[1], y[2] >> : y \in draft.exposed }
                 PROVE  \E w \in history : ~Serves(w, b, m)
      BY DEF Exposing
    <3> QED BY <2>1 DEF HiddenSeen, SawLacking
  <2>6. ASSUME NEW b \in Backend
        PROVE  /\ Warn("W_BACKEND_UNREACHABLE", << b >>) \in draft.warnings
                  \/ UnreachableItem(b) \in ToSet(draft.items) => \E w \in history : ~Up(w, b)
               /\ RefusalItem(b) \in ToSet(draft.items) => \E w \in history : w[b].health = "refusing"
    <3>1. \A x \in ToSet(draft.items) : ItemSeen(history, x)
      BY <2>1 DEF FrameSeen, ItemsSeen, Has, ToSet
    <3>2. UnreachableItem(b).code = "W_BACKEND_UNREACHABLE" /\ UnreachableItem(b).backend = b
          /\ RefusalItem(b).code = "E_BACKEND_AUTH_FAILED" /\ RefusalItem(b).backend = b
      BY DEF UnreachableItem, RefusalItem, Item
    <3>3. Warn("W_BACKEND_UNREACHABLE", << b >>) \in draft.warnings => \E w \in history : ~Up(w, b)
      BY <2>1 DEF FrameSeen, WarningsSeen, SawDown
    <3>4. UnreachableItem(b) \in ToSet(draft.items) => \E w \in history : ~Up(w, b)
      BY <3>1, <3>2 DEF ItemSeen, SawDown
    <3>5. RefusalItem(b) \in ToSet(draft.items) => \E w \in history : w[b].health = "refusing"
      BY <3>1, <3>2 DEF ItemSeen, SawRefusing
    <3> QED BY <3>3, <3>4, <3>5
  <2> QED BY <2>2, <2>3, <2>4, <2>5, <2>6, Zenon DEF FrameWitnessed
<1> QED BY <1>1, <1>2, FrameStep, ProbeInvHolds, PTL DEF Spec

-----------------------------------------------------------------------------
(* Frames of backends that hold still *)

\* What the frames of some commands never say; of triage's, that it asked the backends
\* is said at the end.
BareInv ==
    /\ kind \notin {"snapshot", "status", "watch", "events"} => draft.routes = << >>
    /\ kind \in Unsurveyed \cup {"prior"} => draft.warnings = {}
    /\ draft.probed => kind = "triage" /\ ~Begun

\* A finished round keeps to that.
LEMMA RecordedBare ==
    ASSUME TypeInv, Begun, BareInv, NEW opts \in Options
    PROVE  /\ kind \notin {"snapshot", "status", "watch", "events"} => Recorded(opts).routes = << >>
           /\ kind \in Unsurveyed => Recorded(opts).warnings = {}
<1>1. FrameTyped(draft) /\ opts \in Asked
  BY NothingIs DEF TypeInv, FramesInv
<1>2. /\ Tasked(config) /\ PlanIs(plan, config, kind) /\ plan # << >>
      /\ Round = plan[1] /\ 1 \in 1 .. Len(plan) /\ kind \in Kinds /\ kind # "prior"
  BY ConfigIs, TailPlan DEF TypeInv, PlaceInv, Round
<1>3. Round.round \in RoundsOf(kind) /\ Round.round \in Rounds
  <2>1. plan[1] \in [round : Rounds, task : Nat \cup Name]
    BY <1>2, ElementOfSeq DEF PlanIs
  <2> QED BY <1>2, <2>1 DEF PlanIs
<1>4. CASE kind = "triage"
  <2> DEFINE made == DoctorItems(config, probe, probe.degraded)
             items == draft.items \o made
             f == Report(items, DoctorCommands(config, probe), opts)
  <2>1. Recorded(opts) = [f EXCEPT !.survey = probe, !.probed = TRUE]
    BY <1>3, <1>4 DEF Recorded, RoundsOf
  <2>2. made \in Seq(OfItem)
    <3>1. made \in Seq(OfDoctor(probe))
      BY <1>2, DoctorItemsAre DEF Doctors
    <3>2. OfDoctor(probe) \subseteq OfItem
      BY DEF OfDoctor
    <3> QED BY <3>1, <3>2, SeqMonotonic
  <2> HIDE DEF made
  <2>3. items \in Seq(OfItem)
    BY <1>1, <2>2, HasConcat DEF FrameTyped
  <2> HIDE DEF items
  <2>4. Made(f, items, opts)
    BY <1>1, <2>3, ReportIs
  <2> HIDE DEF f
  <2>5. Recorded(opts).routes = << >> /\ Recorded(opts).warnings = {}
    BY <2>1, <2>4 DEF Made, FrameTyped
  <2> QED BY <2>5
<1>5. CASE kind # "triage" /\ Round.round \in {"doctor", "state"}
  <2>1. kind \notin Unsurveyed
    BY <1>2, <1>3, <1>5, KindsAssumption DEF RoundsOf, Unsurveyed
  <2>2. Recorded(opts).routes = draft.routes
    BY <1>1, <1>5 DEF Recorded, FrameTyped
  <2> QED BY <2>1, <2>2 DEF BareInv
<1>6. CASE kind # "triage" /\ Round.round = "inventory"
  <2>1. Recorded(opts).routes = draft.routes /\ Recorded(opts).warnings = draft.warnings
    BY <1>1, <1>6 DEF Recorded, FrameTyped
  <2> QED BY <2>1 DEF BareInv
<1>7. CASE kind # "triage" /\ Round.round = "route"
  <2>1. kind \in {"snapshot", "status", "watch", "events"}
    BY <1>2, <1>3, <1>7, KindsAssumption DEF RoundsOf
  <2> QED BY <2>1 DEF Unsurveyed
<1>8. CASE kind # "triage" /\ Round.round \in {"exposed", "models", "loaded", "model"}
  <2>1. Recorded(opts).routes = draft.routes /\ Recorded(opts).warnings = draft.warnings
    BY <1>1, <1>8 DEF Recorded, FrameTyped
  <2> QED BY <2>1 DEF BareInv
<1> QED BY <1>3, <1>4, <1>5, <1>6, <1>7, <1>8 DEF Rounds

\* Of triage there is one round.
LEMMA OneRound ==
    ASSUME TypeInv, Begun, kind = "triage"
    PROVE  Tail(plan) = << >>
<1>1. PlanIs(plan, config, kind) /\ plan # << >>
  BY DEF TypeInv, PlaceInv
<1>2. /\ PlanIs(Tail(plan), config, kind)
      /\ \A i \in 1 .. Len(Tail(plan)) : Tail(plan)[i].round \in {"route", "exposed"}
  BY <1>1, TailPlan
<1> SUFFICES ASSUME Tail(plan) # << >> PROVE FALSE
  OBVIOUS
<1>3. 1 \in 1 .. Len(Tail(plan))
  BY <1>2, EmptySeq DEF PlanIs
<1>4. Tail(plan)[1].round \in RoundsOf(kind) /\ Tail(plan)[1].round \in {"route", "exposed"}
  BY <1>2, <1>3 DEF PlanIs
<1> QED BY <1>4 DEF RoundsOf

\* What a frame has no round for, it says nothing of.
LEMMA BareStep ==
    ASSUME TypeInv, BareInv, [Next]_vars
    PROVE  BareInv'
<1>0. FrameTyped(draft)
  BY DEF TypeInv, FramesInv
<1>1. CASE UNCHANGED << draft, kind >> /\ (Begun' => Begun)
  BY <1>1 DEF BareInv
<1>2. ASSUME NEW b \in Backend, Drift(b) PROVE BareInv'
  BY <1>1, <1>2 DEF Drift, Begun, Asking
<1>3. CASE Signal
  BY <1>1, <1>3 DEF Signal, Begun, Asking
<1>4. ASSUME UNCHANGED kind, draft'.routes = << >>, draft'.warnings = {}, draft'.probed = FALSE
      PROVE  BareInv'
  BY <1>4 DEF BareInv
<1>5. CASE Load
  <2>1. UNCHANGED kind /\ pc = "load"
    BY <1>5 DEF Load
  <2>2. ASSUME NEW items \in Seq(OfItem), NEW commands, NEW opts \in Options,
               draft' = Report(items, commands, opts)
        PROVE  BareInv'
    <3>1. PICK f : f = Report(items, commands, opts)
      OBVIOUS
    <3>2. Made(f, items, opts)
      BY <3>1, ReportIs, NothingIs
    <3> QED BY <1>4, <2>1, <2>2, <3>1, <3>2 DEF Made
  <2>3. CASE LoadFails
    <3>1. CASE kind = "triage"
      <4>1. << LoadItem >> \in Seq(OfItem)
        BY ItemsTyped, OneOf
      <4> QED BY <2>2, <2>3, <3>1, <4>1 DEF LoadFails
    <3>2. CASE kind # "triage"
      <4>1. UNCHANGED draft /\ ~Begun'
        BY <2>3, <3>2 DEF LoadFails, Fail, Begun, Asking
      <4> QED BY <1>1, <2>1, <4>1
    <3> QED BY <3>1, <3>2
  <2>4. CASE ReadPrior
    <3>1. PICK opts \in Options, b \in Backend :
             \E items \in { << RefusalItem(b) >>, << UnreachableItem(b), FindingItem("error", b) >> } :
                draft' = Report(items, << Command("backends", b) >>, opts)
      BY <2>4 DEF ReadPrior
    <3>2. RefusalItem(b) \in OfItem /\ UnreachableItem(b) \in OfItem
          /\ FindingItem("error", b) \in OfItem
      BY ItemsTyped
    <3>3. << RefusalItem(b) >> \in Seq(OfItem)
      BY <3>2
    <3>4. << UnreachableItem(b), FindingItem("error", b) >> \in Seq(OfItem)
      BY <3>2
    <3> QED BY <2>2, <3>1, <3>3, <3>4
  <2>5. CASE \E findings : draft' = [NoFrame EXCEPT !.items = findings]
    <3>1. draft'.routes = << >> /\ draft'.warnings = {} /\ draft'.probed = FALSE
      BY <2>5 DEF NoFrame
    <3> QED BY <1>4, <2>1, <3>1
  <2> QED BY <1>5, <2>3, <2>4, <2>5 DEF Load
<1>6. CASE CheckAccess
  <2>1. UNCHANGED kind /\ Begun
    BY <1>6 DEF CheckAccess, Begun
  <2>2. CASE UNCHANGED draft
    BY <1>1, <2>1, <2>2
  <2>3. ASSUME NEW items, draft' = [draft EXCEPT !.items = items] PROVE BareInv'
    <3>1. draft'.routes = draft.routes /\ draft'.warnings = draft.warnings /\ draft'.probed = draft.probed
      BY <1>0, <2>3 DEF FrameTyped
    <3> QED BY <2>1, <3>1 DEF BareInv
  <2>4. UNCHANGED draft \/ \E items : draft' = [draft EXCEPT !.items = items]
    BY <1>6 DEF CheckAccess
  <2> QED BY <2>2, <2>3, <2>4
<1>7. CASE ProbeReachable \/ ProbeInstalled \/ ProbeLoaded
  BY <1>1, <1>7 DEF ProbeReachable, ProbeInstalled, ProbeLoaded, Begun, Asking
<1>8. CASE EndRound
  <2>1. UNCHANGED kind /\ Begun
    BY <1>8, EntryIs DEF EndRound, Begun, Asking
  <2>2. CASE UNCHANGED draft
    BY <1>1, <2>1, <2>2
  <2>3. CASE /\ \E opts \in Options : draft' = Recorded(opts)
             /\ pc' = IF Tail(plan) = << >> THEN "write" ELSE Entry
    <3>1. PICK opts \in Options : draft' = Recorded(opts)
      BY <2>3
    <3>2. /\ kind \notin {"snapshot", "status", "watch", "events"} => draft'.routes = << >>
          /\ kind \in Unsurveyed => draft'.warnings = {}
      BY <2>1, <3>1, RecordedBare
    <3>3. kind # "prior"
      BY <2>1 DEF TypeInv, PlaceInv
    <3>4. CASE kind = "triage"
      <4>1. ~Begun'
        BY <2>1, <2>3, <3>4, OneRound DEF Begun, Asking
      <4> QED BY <2>1, <3>2, <3>3, <3>4, <4>1 DEF BareInv
    <3>5. CASE kind # "triage"
      <4>1. draft'.probed = draft.probed
        BY <2>1, <3>1, <3>5, RecordedKeeps DEF TypeInv
      <4>2. ~draft.probed
        BY <2>1 DEF BareInv
      <4> QED BY <2>1, <3>2, <3>3, <4>1, <4>2 DEF BareInv
    <3> QED BY <3>4, <3>5
  <2> QED BY <1>8, <2>2, <2>3 DEF EndRound
<1>9. CASE WriteFrame
  <2>1. UNCHANGED kind /\ ~Begun' /\ \E a : draft' = [draft EXCEPT !.action = a]
    BY <1>9 DEF WriteFrame, Finished, Begun, Asking
  <2>2. draft'.routes = draft.routes /\ draft'.warnings = draft.warnings /\ draft'.probed = draft.probed
    BY <1>0, <2>1 DEF FrameTyped
  <2> QED BY <2>1, <2>2 DEF BareInv
<1>10. CASE WriteBatch \/ Ticks \/ Stops \/ Exit
  BY <1>1, <1>10 DEF WriteBatch, Ticks, Stops, Exit, Begun, Asking
<1>11. CASE UNCHANGED vars
  BY <1>1, <1>11 DEF vars, Begun, Asking
<1> QED BY <1>2, <1>3, <1>5, <1>6, <1>7, <1>8, <1>9, <1>10, <1>11 DEF Next, Step

\* Triage has an item of each of the first backends that refused, unless it once did not.
RefusalsTold(H, items, n) ==
    \A i \in DOMAIN Order :
        i < n => Has(items, RefusalItem(Order[i])) \/ SawAccepting(H, Order[i])

RefusalsInv ==
    Begun /\ ~signalled /\ kind = "triage" =>
        RefusalsTold(history, draft.items, IF pc = "access" THEN at ELSE Len(Order) + 1)

\* While triage checks access, each backend it has passed and that refused has its item.
LEMMA RefusalsStep ==
    ASSUME TypeInv, RefusalsInv, [Next]_vars
    PROVE  RefusalsInv'
<1>0. Len(Order) \in Nat /\ at \in 1 .. Len(Order) + 1 /\ DOMAIN Order = 1 .. Len(Order)
      /\ world \in history /\ FrameTyped(draft)
  BY OrderIs DEF TypeInv, PlaceInv, WorldInv, FramesInv
<1>1. CASE ~Begun' \/ signalled' \/ kind' # "triage"
  BY <1>1 DEF RefusalsInv
<1>2. CASE /\ UNCHANGED << kind, at >> /\ draft' = draft /\ history \subseteq history'
           /\ signalled' = signalled /\ (Begun' => Begun)
           /\ (pc' = "access" => pc = "access") /\ (pc = "access" => pc' = "access")
  <2>1. PICK G : G = history'
    OBVIOUS
  <2>2. \A n : RefusalsTold(history, draft.items, n) => RefusalsTold(G, draft.items, n)
    BY <1>2, <2>1, StillSeen DEF RefusalsTold
  <2> QED BY <1>2, <2>1, <2>2 DEF RefusalsInv
<1>3. ASSUME NEW b \in Backend, Drift(b) PROVE RefusalsInv'
  BY <1>2, <1>3 DEF Drift, Begun, Asking
<1>4. CASE Signal
  BY <1>1, <1>4 DEF Signal
<1>5. CASE Load
  <2>1. CASE LoadFails \/ ReadPrior
    BY <1>1, <2>1 DEF LoadFails, ReadPrior, Fail, Begun, Asking
  <2>2. CASE /\ pc' = (IF kind \in {"backends", "listed", "models", "loaded"} THEN Entry ELSE "access")
             /\ at' = 1 /\ UNCHANGED kind
    <3>1. kind' = "triage" => pc' = "access" /\ at' = 1
      BY <2>2
    <3>2. \A H, items : RefusalsTold(H, items, 1)
      BY <1>0 DEF RefusalsTold
    <3> QED BY <3>1, <3>2 DEF RefusalsInv
  <2> QED BY <1>5, <2>1, <2>2 DEF Load
<1>6. CASE CheckAccess
  <2>1. UNCHANGED << history, kind, signalled >> /\ Begun /\ pc = "access"
    BY <1>6 DEF CheckAccess, Begun
  <2>2. CASE signalled \/ kind # "triage"
    BY <1>1, <2>1, <2>2
  <2>3. CASE ~signalled /\ kind = "triage" /\ at > Len(Order) /\ pc' = Entry /\ UNCHANGED draft
    <3>1. RefusalsTold(history, draft.items, at)
      BY <2>1, <2>3 DEF RefusalsInv
    <3>2. at = Len(Order) + 1
      BY <1>0, <2>3
    <3>3. pc' # "access"
      BY <2>3, EntryIs
    <3> QED BY <2>1, <2>3, <3>1, <3>2, <3>3 DEF RefusalsInv
  <2>4. CASE /\ ~signalled /\ kind = "triage" /\ at <= Len(Order)
             /\ draft' = [draft EXCEPT !.items = IF Refuses(Order[at])
                                                 THEN Append(@, RefusalItem(Order[at])) ELSE @]
             /\ at' = at + 1 /\ pc' = pc
    <3>1. RefusalsTold(history, draft.items, at)
      BY <2>1, <2>4 DEF RefusalsInv
    <3>2. PICK items : items = draft'.items
      OBVIOUS
    <3>3. at \in DOMAIN Order /\ Order[at] \in Backend
      BY <1>0, <2>4, OrderIs
    <3>4. (\A x : Has(draft.items, x) => Has(items, x))
          /\ (Has(items, RefusalItem(Order[at])) \/ SawAccepting(history, Order[at]))
      <4>1. CASE Refuses(Order[at])
        <5> DEFINE r == RefusalItem(Order[at])
        <5>1. draft.items \in Seq(OfItem) /\ r \in OfItem
          BY <1>0, <3>3, ItemsTyped DEF FrameTyped
        <5>2. items = Append(draft.items, r)
          BY <1>0, <2>4, <3>2, <4>1 DEF FrameTyped
        <5> HIDE DEF r
        <5>3. << r >> \in Seq(OfItem) /\ Append(draft.items, r) = draft.items \o << r >> /\ Has(<< r >>, r)
          BY <5>1, AppendIsConcat, OneOf
        <5>4. \A x : Has(draft.items \o << r >>, x) <=> Has(draft.items, x) \/ Has(<< r >>, x)
          BY <5>1, <5>3, HasConcat
        <5>5. items = draft.items \o << r >>
          BY <5>2, <5>3
        <5>6. (\A x : Has(draft.items, x) => Has(items, x)) /\ Has(items, r)
          BY <5>3, <5>4, <5>5, Zenon
        <5> QED BY <5>6 DEF r
      <4>2. CASE ~Refuses(Order[at])
        <5>1. items = draft.items
          BY <1>0, <2>4, <3>2, <4>2 DEF FrameTyped
        <5>2. SawAccepting(history, Order[at])
          BY <1>0, <2>4, <4>2 DEF Refuses, SawAccepting
        <5> QED BY <5>1, <5>2
      <4> QED BY <4>1, <4>2
    <3>5. RefusalsTold(history, items, at + 1)
      <4> SUFFICES ASSUME NEW i \in DOMAIN Order, i < at + 1
                   PROVE  Has(items, RefusalItem(Order[i])) \/ SawAccepting(history, Order[i])
        BY DEF RefusalsTold
      <4>1. i < at \/ i = at
        BY <1>0
      <4> QED BY <3>1, <3>4, <4>1 DEF RefusalsTold
    <3> QED BY <2>1, <2>4, <3>2, <3>5 DEF RefusalsInv
  <2> QED BY <1>6, <2>2, <2>3, <2>4 DEF CheckAccess
<1>7. CASE ProbeReachable \/ ProbeInstalled \/ ProbeLoaded
  <2>1. UNCHANGED << history, kind, signalled, draft >> /\ Begun /\ pc # "access" /\ pc' # "access"
    BY <1>7, EntryIs DEF ProbeReachable, ProbeInstalled, ProbeLoaded, Begun, Asking, Refused, Fail
  <2> QED BY <2>1 DEF RefusalsInv
<1>8. CASE EndRound
  <2>1. UNCHANGED kind /\ Begun
    BY <1>8, EntryIs DEF EndRound, Begun, Asking
  <2>2. CASE pc' = "exit"
    BY <1>1, <2>2 DEF Begun, Asking
  <2>3. CASE kind # "triage"
    BY <1>1, <2>1, <2>3
  <2>4. CASE kind = "triage" /\ pc' = IF Tail(plan) = << >> THEN "write" ELSE Entry
    <3>1. Tail(plan) = << >>
      BY <2>1, <2>4, OneRound
    <3>2. ~Begun'
      BY <2>4, <3>1 DEF Begun, Asking
    <3> QED BY <1>1, <3>2
  <2> QED BY <1>8, <2>2, <2>3, <2>4 DEF EndRound, Fail
<1>9. CASE WriteFrame \/ WriteBatch \/ Ticks \/ Stops \/ Exit
  BY <1>1, <1>9 DEF WriteFrame, WriteBatch, Ticks, Stops, Exit, Begun, Asking
<1>10. CASE UNCHANGED vars
  BY <1>2, <1>10 DEF vars, Begun, Asking
<1> QED BY <1>3, <1>4, <1>5, <1>6, <1>7, <1>8, <1>9, <1>10 DEF Next, Step

\* A triage tells of every backend that it was asked about and that fails in all of the
\* worlds H, within the limit, and first of an error if one refuses in all.
Tells(H, f, b) ==
    f.asked.backend \in {NoBackend, b} =>
        /\ f.asked.severity = "" =>
              \/ \E x : Has(f.items, x) /\ x.backend = b
              \/ f.asked.limit # 0 /\ Len(f.items) = f.asked.limit
              \/ SawListing(H, b)
        /\ (f.items # << >> /\ f.items[1].severity = "error") \/ SawAccepting(H, b)

ThoroughInv ==
    pc = "write" /\ ~signalled /\ draft.probed => \A b \in Backend : Tells(history, draft, b)

\* So does the report that a round of triage ends with.
LEMMA RecordedTells ==
    ASSUME TypeInv, Begun, kind = "triage", NEW opts \in Options, NEW H, Whole(H, probe, kind),
           RefusalsTold(H, draft.items, Len(Order) + 1), NEW b \in Backend
    PROVE  Tells(H, Recorded(opts), b)
<1> DEFINE made == DoctorItems(config, probe, probe.degraded)
           items == draft.items \o made
           f == Report(items, DoctorCommands(config, probe), opts)
           g == Recorded(opts)
<1>1. /\ FrameTyped(draft) /\ opts \in Asked /\ Tasked(config) /\ PlanIs(plan, config, kind)
      /\ plan # << >> /\ Round = plan[1] /\ 1 \in 1 .. Len(plan)
  BY NothingIs, ConfigIs, TailPlan DEF TypeInv, FramesInv, PlaceInv, Round
<1>2. Round.round = "doctor"
  BY <1>1 DEF PlanIs, RoundsOf
<1>3. g = [f EXCEPT !.survey = probe, !.probed = TRUE]
  BY <1>2 DEF Recorded
<1>4. Doctors(made, probe)
  BY <1>1, DoctorItemsAre
<1>5. made \in Seq(OfItem)
  <2>1. made \in Seq(OfDoctor(probe))
    BY <1>4 DEF Doctors
  <2>2. OfDoctor(probe) \subseteq OfItem
    BY DEF OfDoctor
  <2> HIDE DEF made
  <2> QED BY <2>1, <2>2, SeqMonotonic
<1> HIDE DEF made
<1>6. items \in Seq(OfItem) /\ \A x : Has(items, x) <=> Has(draft.items, x) \/ Has(made, x)
  BY <1>1, <1>5, HasConcat DEF FrameTyped
<1> HIDE DEF items
<1>7. items \in Seq(OfItem) /\ opts \in Asked
  BY <1>1, <1>6
<1>8. Made(f, items, opts)
  BY <1>7, ReportIs
<1> HIDE DEF f, g
<1>9. g.items = f.items /\ g.asked = opts
  BY <1>3, <1>8 DEF Made, FrameTyped
<1>10. Reports(f.items, items, opts)
  BY <1>8 DEF Made
<1>11. UnreachableItem(b).backend = b /\ DegradedItem(b, "installed").backend = b
       /\ RefusalItem(b).backend = b /\ RefusalItem(b).severity = "error"
  BY DEF UnreachableItem, DegradedItem, RefusalItem, Item
<1>12. ASSUME opts.backend \in {NoBackend, b}, opts.severity = "", NEW x, Has(made, x), x.backend = b
       PROVE  \/ \E y : Has(g.items, y) /\ y.backend = b
              \/ g.asked.limit # 0 /\ Len(g.items) = g.asked.limit
  <2>1. Passes(x, opts) /\ Has(items, x)
    BY <1>6, <1>12 DEF Passes
  <2>2. Has(f.items, x) \/ (opts.limit # 0 /\ Len(f.items) = opts.limit)
    BY <1>10, <2>1 DEF Reports
  <2> QED BY <1>9, <1>12, <2>2
<1>13. b \notin probe.reachable => Has(made, UnreachableItem(b))
  BY <1>4 DEF Doctors
<1>14. b \in probe.reachable /\ << b, "installed" >> \in probe.degraded
         => Has(made, DegradedItem(b, "installed"))
  BY <1>4 DEF Doctors
<1>15. b \in probe.reachable /\ << b, "installed" >> \notin probe.degraded => SawListing(H, b)
  BY DEF Whole, KnowsListing
<1>16. ASSUME opts.backend \in {NoBackend, b}, opts.severity = ""
       PROVE  \/ \E x : Has(g.items, x) /\ x.backend = b
              \/ g.asked.limit # 0 /\ Len(g.items) = g.asked.limit
              \/ SawListing(H, b)
  BY <1>11, <1>12, <1>13, <1>14, <1>15, <1>16
<1>17. ASSUME opts.backend \in {NoBackend, b}
       PROVE  (g.items # << >> /\ g.items[1].severity = "error") \/ SawAccepting(H, b)
  <2>1. PICK i \in DOMAIN Order : Order[i] = b
    BY OrderIs
  <2>2. i < Len(Order) + 1
    BY OrderIs
  <2>3. Has(draft.items, RefusalItem(b)) \/ SawAccepting(H, b)
    BY <2>1, <2>2 DEF RefusalsTold
  <2>4. CASE Has(draft.items, RefusalItem(b))
    <3>1. Has(items, RefusalItem(b))
      BY <1>6, <2>4
    <3>2. Passes(RefusalItem(b), opts)
      <4>1. opts.severity \in {"", "error"}
        BY <1>1 DEF Asked
      <4> QED BY <1>11, <1>17, <4>1 DEF Passes
    <3>3. f.items # << >> /\ f.items[1].severity = "error"
      BY <1>10, <1>11, <3>1, <3>2 DEF Reports
    <3> QED BY <1>9, <3>3
  <2> QED BY <2>3, <2>4
<1>18. Tells(H, g, b)
  BY <1>9, <1>16, <1>17 DEF Tells
<1> QED BY <1>18 DEF g

\* What triage is about to write tells every failing backend that the filters let through.
LEMMA ThoroughStep ==
    ASSUME TypeInv, ProbeInv, BareInv, RefusalsInv, ThoroughInv, [Next]_vars
    PROVE  ThoroughInv'
<1>1. CASE pc' # "write" \/ signalled' \/ ~draft'.probed
  BY <1>1 DEF ThoroughInv
<1>2. CASE /\ pc' = pc /\ draft' = draft /\ history \subseteq history' /\ signalled' = signalled
  <2>1. PICK G : G = history'
    OBVIOUS
  <2>2. \A b : Tells(history, draft, b) => Tells(G, draft, b)
    BY <1>2, <2>1, StillSeen DEF Tells
  <2>3. ASSUME NEW b, Tells(G, draft, b) PROVE Tells(history', draft', b)
    BY <1>2, <2>1, <2>3
  <2> QED BY <1>2, <2>2, <2>3 DEF ThoroughInv
<1>3. ASSUME NEW b \in Backend, Drift(b) PROVE ThoroughInv'
  BY <1>2, <1>3 DEF Drift
<1>4. CASE Signal
  BY <1>1, <1>4 DEF Signal
<1>5. CASE Load
  <2>1. ASSUME NEW items \in Seq(OfItem), NEW commands, NEW opts \in Options,
               draft' = Report(items, commands, opts)
        PROVE  ThoroughInv'
    <3>1. PICK f : f = Report(items, commands, opts)
      OBVIOUS
    <3>2. Made(f, items, opts)
      BY <3>1, ReportIs, NothingIs
    <3> QED BY <1>1, <2>1, <3>1, <3>2 DEF Made
  <2>2. CASE LoadFails
    <3>1. CASE kind = "triage"
      <4>1. << LoadItem >> \in Seq(OfItem)
        BY ItemsTyped, OneOf
      <4> QED BY <2>1, <2>2, <3>1, <4>1 DEF LoadFails
    <3>2. CASE kind # "triage"
      BY <1>1, <2>2, <3>2 DEF LoadFails, Fail
    <3> QED BY <3>1, <3>2
  <2>3. CASE ReadPrior
    <3>1. PICK opts \in Options, b \in Backend :
             \E items \in { << RefusalItem(b) >>, << UnreachableItem(b), FindingItem("error", b) >> } :
                draft' = Report(items, << Command("backends", b) >>, opts)
      BY <2>3 DEF ReadPrior
    <3>2. RefusalItem(b) \in OfItem /\ UnreachableItem(b) \in OfItem
          /\ FindingItem("error", b) \in OfItem
      BY ItemsTyped
    <3>3. << RefusalItem(b) >> \in Seq(OfItem)
      BY <3>2
    <3>4. << UnreachableItem(b), FindingItem("error", b) >> \in Seq(OfItem)
      BY <3>2
    <3> QED BY <2>1, <3>1, <3>3, <3>4
  <2>4. CASE pc' = (IF kind \in {"backends", "listed", "models", "loaded"} THEN Entry ELSE "access")
    <3>1. pc' # "write"
      BY <2>4, EntryIs
    <3> QED BY <1>1, <3>1
  <2> QED BY <1>5, <2>2, <2>3, <2>4 DEF Load
<1>6. CASE CheckAccess \/ ProbeReachable \/ ProbeInstalled \/ ProbeLoaded
  <2>1. pc' # "write"
    BY <1>6, EntryIs DEF CheckAccess, ProbeReachable, ProbeInstalled, ProbeLoaded, Refused, Fail
  <2> QED BY <1>1, <2>1
<1>7. CASE EndRound
  <2>1. /\ UNCHANGED << history, kind, signalled >> /\ Begun /\ pc = Entry /\ at > Len(Order)
        /\ pc # "access"
    BY <1>7, EntryIs DEF EndRound, Begun, Asking
  <2>2. CASE pc' = "exit" \/ signalled
    BY <1>1, <2>1, <2>2
  <2>3. CASE ~signalled /\ \E opts \in Options : draft' = Recorded(opts)
    <3>1. PICK opts \in Options : draft' = Recorded(opts)
      BY <2>3
    <3>2. CASE kind # "triage"
      <4>1. draft'.probed = draft.probed /\ ~draft.probed
        BY <2>1, <3>1, <3>2, RecordedKeeps DEF TypeInv, BareInv
      <4> QED BY <1>1, <4>1
    <3>3. CASE kind = "triage"
      <4>1. Whole(history, probe, kind)
        BY <2>1, <2>3, RoundLearned
      <4>2. RefusalsTold(history, draft.items, Len(Order) + 1)
        BY <2>1, <2>3, <3>3 DEF RefusalsInv
      <4>3. \A b \in Backend : Tells(history, Recorded(opts), b)
        BY <2>1, <3>3, <4>1, <4>2, RecordedTells
      <4>4. ASSUME NEW b \in Backend PROVE Tells(history', draft', b)
        BY <2>1, <3>1, <4>3
      <4> QED BY <4>4 DEF ThoroughInv
    <3> QED BY <3>2, <3>3
  <2> QED BY <1>7, <2>2, <2>3 DEF EndRound, Fail
<1>8. CASE WriteFrame \/ WriteBatch \/ Ticks \/ Stops \/ Exit
  BY <1>1, <1>8 DEF WriteFrame, WriteBatch, Ticks, Stops, Exit
<1>9. CASE UNCHANGED vars
  BY <1>2, <1>9 DEF vars
<1> QED BY <1>3, <1>4, <1>5, <1>6, <1>7, <1>8, <1>9 DEF Next, Step

\* Backends that hold still give a frame that agrees with itself and a triage that hides
\* nothing: from what was so at some moment follows what is so, if there was only one.
THEOREM StillFramesCohere == Spec => []StillFrameCoherent
<1>1. Init => FrameInv /\ BareInv /\ RefusalsInv /\ ThoroughInv
  <2>1. Init => pc = "load" /\ draft = NoFrame
    BY DEF Init
  <2>2. NoFrame.routes = << >> /\ NoFrame.warnings = {} /\ NoFrame.probed = FALSE
    BY DEF NoFrame
  <2> QED BY <2>1, <2>2 DEF FrameInv, BareInv, RefusalsInv, ThoroughInv, Begun, Asking
<1>2. TypeInv /\ FrameInv /\ BareInv /\ ThoroughInv => StillFrameCoherent
  <2> SUFFICES ASSUME TypeInv, FrameInv, BareInv, ThoroughInv, pc = "write", ~signalled,
                      Cardinality(history) = 1
               PROVE  Coherent(draft) /\ (draft.probed => Thorough(draft))
    BY DEF StillFrameCoherent, Built
  <2>1. history = {world}
    <3>1. IsFiniteSet(history) /\ world \in history
      BY DEF TypeInv, WorldInv
    <3>2. PICK w : history = {w}
      BY <3>1, FS_Singleton
    <3> QED BY <3>1, <3>2
  <2>2. FrameTyped(draft) /\ kind \in Kinds /\ NoBackend \notin Backend
    BY NoBackendAssumption DEF TypeInv, FramesInv, PlaceInv
  <2>3. CASE kind # "prior" /\ kind \notin Unsurveyed
    <3>1. FrameSeen(history, draft, kind) /\ SurveySeen(history, draft)
          /\ (kind \in Exposing => HiddenSeen(history, draft))
      BY <2>3 DEF FrameInv
    <3>2. \A b \in Backend : b \in draft.survey.reachable <=> Up(world, b)
      BY <2>1, <3>1 DEF SurveySeen, SawUp, SawDown
    <3>3. ASSUME NEW r \in ToSet(draft.routes)
          PROVE  r \in Decision /\ Serves(world, r.backend, r.model)
                 /\ (r.ready => Holds(world, r.backend, r.model))
                 /\ (~r.ready => ~Holds(world, r.backend, r.model))
      <4>1. PICK i \in DOMAIN draft.routes : r = draft.routes[i]
        BY DEF ToSet
      <4>2. r \in Decision
        BY <2>2, <4>1, LenProperties, ElementOfSeq DEF FrameTyped
      <4>3. RouteSeen(history, r)
        BY <3>1, <4>1 DEF FrameSeen, RoutesSeen
      <4>4. /\ SawServing(history, r.backend, r.model) => Serves(world, r.backend, r.model)
            /\ SawHolding(history, r.backend, r.model) => Holds(world, r.backend, r.model)
            /\ SawCold(history, r.backend, r.model) => ~Holds(world, r.backend, r.model)
        BY <2>1 DEF SawServing, SawHolding, SawCold
      <4> QED BY <4>2, <4>3, <4>4 DEF RouteSeen
    <3>4. ASSUME NEW r \in ToSet(draft.routes) PROVE r.backend \in draft.survey.reachable
      <4>1. r.backend \in Backend /\ Up(world, r.backend)
        BY <3>3 DEF Decision, Serves
      <4> QED BY <3>2, <4>1
    <3>5. ASSUME NEW r \in ToSet(draft.routes), kind # "snapshot"
          PROVE  << r.backend, r.model, r.ready >> \in draft.exposed
      <4>1. draft.routes # << >>
        BY DEF ToSet
      <4>2. kind \in Exposing /\ kind # "loaded"
        BY <3>5, <4>1 DEF BareInv, Exposing
      <4>3. r.backend \in Backend /\ r.model \in Name /\ r.ready \in BOOLEAN
        BY <3>3 DEF Decision
      <4>4. ~SawLacking(history, r.backend, r.model)
        BY <2>1, <3>3 DEF SawLacking
      <4>5. << r.backend, r.model >> \in { << y[1], y[2] >> : y \in draft.exposed }
        BY <3>1, <4>2, <4>3, <4>4 DEF HiddenSeen
      <4>6. PICK y \in draft.exposed : y[1] = r.backend /\ y[2] = r.model
        BY <4>5
      <4>7. y = << y[1], y[2], y[3] >> /\ y[3] \in BOOLEAN
        BY <2>2 DEF FrameTyped
      <4>8. /\ y[3] => Holds(world, r.backend, r.model)
            /\ ~y[3] => ~Holds(world, r.backend, r.model)
        <5>1. /\ y[3] => SawHolding(history, r.backend, r.model)
              /\ ~y[3] => SawCold(history, r.backend, r.model)
          BY <3>1, <4>2, <4>6 DEF FrameSeen, ExposedSeen
        <5>2. /\ SawHolding(history, r.backend, r.model) => Holds(world, r.backend, r.model)
              /\ SawCold(history, r.backend, r.model) => ~Holds(world, r.backend, r.model)
          BY <2>1 DEF SawHolding, SawCold
        <5> QED BY <5>1, <5>2
      <4>9. y[3] = r.ready
        BY <3>3, <4>3, <4>7, <4>8
      <4> QED BY <4>6, <4>7, <4>9
    <3>6. ASSUME NEW b \in draft.survey.reachable
          PROVE  Warn("W_BACKEND_UNREACHABLE", << b >>) \notin draft.warnings
      <4>1. b \in Backend
        BY <2>2 DEF FrameTyped, Probe
      <4>2. Up(world, b)
        BY <3>2, <4>1
      <4>3. ~SawDown(history, b)
        BY <2>1, <4>2 DEF SawDown
      <4> QED BY <3>1, <4>1, <4>3 DEF FrameSeen, WarningsSeen
    <3>7. ~draft.probed
      BY <2>3 DEF BareInv, Unsurveyed
    <3> QED BY <3>4, <3>5, <3>6, <3>7 DEF Coherent
  <2>4. CASE kind = "prior" \/ kind \in Unsurveyed
    <3>1. draft.routes = << >> /\ draft.warnings = {}
      BY <2>4 DEF BareInv, Unsurveyed
    <3>2. ToSet(draft.routes) = {}
      BY <3>1 DEF ToSet
    <3>3. Coherent(draft)
      BY <3>1, <3>2 DEF Coherent
    <3>4. ASSUME draft.probed PROVE Thorough(draft)
      <4> DEFINE f == draft
                 failing == { b \in Backend : /\ f.asked.backend \in {NoBackend, b}
                                              /\ ~Up(world, b) \/ ~world[b].lists }
      <4>1. \A b \in Backend : Tells(history, draft, b)
        BY <3>4 DEF ThoroughInv
      <4>2. \A b \in Backend : /\ SawListing(history, b) => Up(world, b) /\ world[b].lists
                               /\ SawAccepting(history, b) => world[b].health # "refusing"
        BY <2>1 DEF SawListing, SawAccepting
      <4>3. ASSUME f.asked.severity = "", NEW b \in failing
            PROVE  \/ \E i \in DOMAIN f.items : f.items[i].backend = b
                   \/ f.asked.limit # 0 /\ Len(f.items) = f.asked.limit
        <5>1. \/ \E x : Has(f.items, x) /\ x.backend = b
              \/ f.asked.limit # 0 /\ Len(f.items) = f.asked.limit
          BY <4>1, <4>2, <4>3 DEF Tells
        <5> QED BY <5>1 DEF Has
      <4>4. ASSUME NEW b \in failing, world[b].health = "refusing"
            PROVE  f.items # << >> /\ f.items[1].severity = "error"
        BY <4>1, <4>2, <4>4 DEF Tells
      <4> QED BY <4>3, <4>4 DEF Thorough
    <3> QED BY <3>3, <3>4
  <2> QED BY <2>3, <2>4
<1>3. (TypeInv /\ ProbeInv) /\ (TypeInv /\ ProbeInv)' /\ FrameInv /\ BareInv /\ RefusalsInv
      /\ ThoroughInv /\ [Next]_vars => (FrameInv /\ BareInv /\ RefusalsInv /\ ThoroughInv)'
  BY FrameStep, BareStep, RefusalsStep, ThoroughStep
<1> QED BY <1>1, <1>2, <1>3, ProbeInvHolds, PTL DEF Spec
=============================================================================
