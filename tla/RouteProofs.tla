----------------------------- MODULE RouteProofs -----------------------------
(***************************************************************************)
(* Proofs about RouteCommand for any backends, names, capabilities and     *)
(* configurations, and any number of changes of the world.                 *)
(*                                                                         *)
(* ProbeInv relates what has been seen to the worlds there have been:      *)
(* whatever is in seen was so at some moment of the command, and whatever  *)
(* an examined backend is not seen to serve it did not serve at some       *)
(* moment.  Selection is a function of what was seen, so what it selects   *)
(* and what it passes over are facts about those worlds.                   *)
(***************************************************************************)
EXTENDS RouteCommand, WellFoundedInduction, TLAPS

\* A non-empty set of naturals has a least element, which is what FirstOf gives.
LEMMA LeastNatural ==
    ASSUME NEW S \in SUBSET Nat, S # {}
    PROVE  \E i \in S : \A j \in S : i <= j
<1>1. IsWellFoundedOn(OpToRel(<, Nat), Nat)
  BY NatLessThanWellFounded
<1>2. \E i \in S : \A j \in S : ~(<< j, i >> \in OpToRel(<, Nat))
  BY <1>1, WFMin
<1>3. PICK i \in S : \A j \in S : ~(<< j, i >> \in OpToRel(<, Nat))
  BY <1>2
<1>4. ASSUME NEW j \in S PROVE i <= j
  <2>1. ~(j < i)
    BY <1>3 DEF OpToRel
  <2> QED BY <2>1
<1> QED BY <1>4

LEMMA FirstOfLeast ==
    ASSUME NEW S \in SUBSET (Nat \ {0})
    PROVE  /\ S = {} => FirstOf(S) = 0
           /\ S # {} => FirstOf(S) \in S /\ \A j \in S : FirstOf(S) <= j
           /\ FirstOf(S) = 0 <=> S = {}
<1>1. CASE S = {}
  BY <1>1 DEF FirstOf
<1>2. CASE S # {}
  <2>1. \E i \in S : \A j \in S : i <= j
    BY <1>2, LeastNatural
  <2>2. FirstOf(S) = CHOOSE i \in S : \A j \in S : i <= j
    BY <1>2 DEF FirstOf
  <2>3. FirstOf(S) \in S /\ \A j \in S : FirstOf(S) <= j
    BY <2>1, <2>2
  <2> QED BY <1>2, <2>3
<1> QED BY <1>1, <1>2

-----------------------------------------------------------------------------
(* Selection as a function *)

LEMMA PositionsType ==
    ASSUME NEW c PROVE Places(c) \subseteq DOMAIN Order /\ DOMAIN Order \subseteq Nat \ {0}
BY OrderAssumption DEF Places

\* A candidate before it is evaluated.
LEMMA CandidatesType ==
    ASSUME NEW cfg \in Config, NEW i \in DOMAIN Candidates(cfg)
    PROVE  /\ i \in Nat \ {0} /\ DOMAIN Candidates(cfg) = 1 .. Len(cfg.fallback) + 1
           /\ Candidates(cfg)[i] \in Candidate
           /\ ~Candidates(cfg)[i].available
<1>1. /\ \E A \in SUBSET Name : cfg.models \in [A -> ModelConfig]
      /\ cfg.model \in Name
      /\ cfg.backend \in Backend \cup {NoBackend}
      /\ cfg.fallback \in Seq(Name)
  BY ConfigAssumption DEF IsConfig
<1>2. ASSUME NEW name \in Name, NEW role \in {"primary", "fallback"}
      PROVE  /\ CandidateFor(cfg, name, role) \in Candidate
             /\ ~CandidateFor(cfg, name, role).available
  BY <1>1, <1>2 DEF CandidateFor, Candidate, ModelConfig, Reasons
<1>3. Primary(cfg) \in Candidate /\ ~Primary(cfg).available
  BY <1>1, <1>2 DEF Primary, Candidate
<1>4. Len(cfg.fallback) \in Nat
  BY <1>1
<1>5. DOMAIN Candidates(cfg) = 1 .. Len(cfg.fallback) + 1 /\ i \in Nat \ {0}
  BY <1>4 DEF Candidates
<1>6. CASE i = 1
  BY <1>3, <1>5, <1>6 DEF Candidates
<1>7. CASE i # 1
  <2>1. i - 1 \in 1 .. Len(cfg.fallback)
    BY <1>4, <1>5, <1>7
  <2>2. cfg.fallback[i - 1] \in Name
    BY <1>1, <2>1
  <2>3. Candidates(cfg)[i] = CandidateFor(cfg, cfg.fallback[i - 1], "fallback")
    BY <1>5, <1>7 DEF Candidates
  <2> QED BY <1>2, <1>5, <2>2, <2>3
<1> QED BY <1>6, <1>7

\* What evaluation says of a candidate, and what it leaves alone.
LEMMA EvaluateFacts ==
    ASSUME NEW c \in Candidate, ~c.available, NEW s \in Probed
    PROVE  LET e == Evaluate(c, s)
               k == FirstOf(Serving(c, s))
           IN  /\ e \in Candidate
               /\ e.model = c.model /\ e.role = c.role /\ e.supports = c.supports
               /\ e.available <=> Serving(c, s) # {}
               /\ Serving(c, s) = {} => e.backend = c.backend
               /\ Serving(c, s) # {} =>
                    /\ k \in Serving(c, s) /\ \A j \in Serving(c, s) : k <= j
                    /\ k \in DOMAIN Order /\ k \in Places(c)
                    /\ e.backend = Order[k] /\ Order[k] \in Backend
                    /\ e.loaded <=> c.model \in s.loaded[Order[k]]
<1> DEFINE S == Serving(c, s)
           k == FirstOf(S)
           e == Evaluate(c, s)
<1>1. S \in SUBSET (Nat \ {0}) /\ S \subseteq Places(c) /\ S \subseteq DOMAIN Order
  BY PositionsType DEF Serving
<1>2. CASE S = {}
  <2>1. e = [c EXCEPT !.reason = IF \E i \in Places(c) : Order[i] \in s.reachable
                                  THEN "not_installed" ELSE "backend_unreachable"]
    BY <1>2 DEF Evaluate
  <2>2. e \in Candidate /\ e.model = c.model /\ e.role = c.role
    BY <2>1 DEF Candidate, Reasons
  <2>3. e.supports = c.supports /\ ~e.available /\ e.backend = c.backend
    BY <2>1 DEF Candidate
  <2> QED BY <1>2, <2>2, <2>3
<1>3. CASE S # {}
  <2>1. k \in S /\ \A j \in S : k <= j
    BY <1>1, <1>3, FirstOfLeast
  <2>2. k \in DOMAIN Order /\ k \in Places(c) /\ Order[k] \in Backend
    BY <1>1, <2>1, OrderAssumption
  <2>3. e = [c EXCEPT !.backend = Order[k], !.available = TRUE,
                      !.loaded = c.model \in s.loaded[Order[k]]]
    BY <1>3 DEF Evaluate
  <2> DEFINE l == c.model \in s.loaded[Order[k]]
  <2>4. l \in BOOLEAN
    OBVIOUS
  <2>5. e = [c EXCEPT !.backend = Order[k], !.available = TRUE, !.loaded = l]
    BY <2>3
  <2> HIDE DEF S, k, e, l
  <2>6. e \in Candidate /\ e.model = c.model /\ e.role = c.role
    BY <2>2, <2>4, <2>5 DEF Candidate
  <2>7. e.supports = c.supports /\ e.available /\ e.backend = Order[k] /\ e.loaded = l
    BY <2>5 DEF Candidate
  <2> QED BY <1>3, <2>1, <2>2, <2>6, <2>7 DEF S, k, e, l
<1> QED BY <1>2, <1>3

LEMMA EvaluatedType ==
    ASSUME NEW cfg \in Config, NEW s \in Probed
    PROVE  /\ DOMAIN Evaluated(cfg, s) = DOMAIN Candidates(cfg)
           /\ DOMAIN Evaluated(cfg, s) \subseteq Nat \ {0}
           /\ Evaluated(cfg, s) \in Seq(Candidate)
           /\ Evaluated(cfg, s) # << >>
           /\ DOMAIN Evaluated(cfg, s) = 1 .. Len(Evaluated(cfg, s))
           /\ \A i \in DOMAIN Candidates(cfg) :
                Evaluated(cfg, s)[i] = Evaluate(Candidates(cfg)[i], s)
<1> DEFINE E == Evaluated(cfg, s)
<1>1. Len(cfg.fallback) \in Nat
  BY ConfigAssumption DEF IsConfig
<1>2. DOMAIN Candidates(cfg) = 1 .. Len(cfg.fallback) + 1
  BY DEF Candidates
<1>3. \A i \in DOMAIN Candidates(cfg) :
         E[i] = Evaluate(Candidates(cfg)[i], s) /\ E[i] \in Candidate
  BY CandidatesType, EvaluateFacts DEF Evaluated
<1>4. E \in [1 .. Len(cfg.fallback) + 1 -> Candidate]
  BY <1>2, <1>3 DEF Evaluated
<1>5. E \in Seq(Candidate) /\ Len(E) = Len(cfg.fallback) + 1
  BY <1>1, <1>4
<1> HIDE DEF E
<1>6. DOMAIN E = 1 .. Len(cfg.fallback) + 1 /\ E # << >>
  BY <1>1, <1>4, <1>5
<1> QED BY <1>1, <1>2, <1>3, <1>5, <1>6 DEF E

\* The selected candidate is the first that qualifies.
LEMMA SelectFirst ==
    ASSUME NEW cands \in Seq(Candidate), NEW req \in Requirements
    PROVE  /\ Select(cands, req) \in Nat
           /\ Select(cands, req) = 0 => \A i \in DOMAIN cands : ~Qualifies(cands[i], req)
           /\ Select(cands, req) # 0 =>
                /\ Select(cands, req) \in DOMAIN cands
                /\ Qualifies(cands[Select(cands, req)], req)
                /\ \A i \in DOMAIN cands :
                     Qualifies(cands[i], req) => Select(cands, req) <= i
<1> DEFINE Q == { i \in DOMAIN cands : Qualifies(cands[i], req) }
<1>1. Q \in SUBSET (Nat \ {0})
  OBVIOUS
<1>2. Select(cands, req) = FirstOf(Q)
  BY DEF Select
<1> QED BY <1>1, <1>2, FirstOfLeast

LEMMA AnyType == Anything \in Requirements
BY DEF Anything, Requirements

\* An earlier candidate with the selected model and backend would have been
\* found on that backend as well, so the selected one is the first of its kind.
LEMMA HandoffFound ==
    ASSUME NEW cfg \in Config, NEW s \in Probed,
           Select(Evaluated(cfg, s), Anything) # 0
    PROVE  HandoffSource(Evaluated(cfg, s), Select(Evaluated(cfg, s), Anything))
              = Select(Evaluated(cfg, s), Anything)
<1> DEFINE cands == Evaluated(cfg, s)
           n == Select(cands, Anything)
           same == { i \in DOMAIN cands : /\ cands[i].model = cands[n].model
                                          /\ cands[i].backend = cands[n].backend }
           h == FirstOf(same)
<1>1. cands \in Seq(Candidate) /\ DOMAIN cands = DOMAIN Candidates(cfg)
  BY EvaluatedType
<1>2. \A i \in DOMAIN cands :
         /\ cands[i] = Evaluate(Candidates(cfg)[i], s)
         /\ Candidates(cfg)[i] \in Candidate /\ ~Candidates(cfg)[i].available
  BY EvaluatedType, CandidatesType
<1>3. n # 0
  OBVIOUS
<1> HIDE DEF cands
<1>4. /\ n \in DOMAIN cands /\ Qualifies(cands[n], Anything)
      /\ \A i \in DOMAIN cands : Qualifies(cands[i], Anything) => n <= i
  BY <1>1, <1>3, AnyType, SelectFirst
<1> HIDE DEF n
<1>5. same \in SUBSET (Nat \ {0}) /\ n \in same
  BY <1>1, <1>4
<1>6. h \in same /\ h <= n
  BY <1>5, FirstOfLeast
<1>7. h \in DOMAIN cands /\ cands[h].model = cands[n].model /\ cands[h].backend = cands[n].backend
  BY <1>6
<1> HIDE DEF same, h
<1>8. cands[n].available
  BY <1>4 DEF Qualifies
<1>9. PICK k \in DOMAIN Order : /\ k \in Serving(Candidates(cfg)[n], s)
                                /\ cands[n].backend = Order[k] /\ Order[k] \in Backend
  BY <1>2, <1>4, <1>8, EvaluateFacts
<1>10. /\ cands[h].model = Candidates(cfg)[h].model
       /\ cands[n].model = Candidates(cfg)[n].model
       /\ cands[h].available <=> Serving(Candidates(cfg)[h], s) # {}
       /\ ~cands[h].available => cands[h].backend = Candidates(cfg)[h].backend
  BY <1>2, <1>4, <1>7, EvaluateFacts
<1>11. cands[h].available
  <2> SUFFICES ASSUME ~cands[h].available PROVE FALSE
    OBVIOUS
  <2>1. Candidates(cfg)[h].backend = Order[k]
    BY <1>7, <1>9, <1>10
  <2>2. k \in Serving(Candidates(cfg)[h], s)
    BY <1>7, <1>9, <1>10, <2>1 DEF Serving, Places
  <2> QED BY <1>10, <2>2
<1>12. n <= h
  <2>1. Qualifies(cands[h], Anything)
    BY <1>11 DEF Qualifies, Anything
  <2> QED BY <1>4, <1>7, <2>1
<1>13. n = h
  BY <1>1, <1>4, <1>6, <1>7, <1>12
<1> QED BY <1>13 DEF HandoffSource, cands, n, same, h

\* A selection the policy does not block is the policy's own selection.
LEMMA PolicySelection ==
    ASSUME NEW cands \in Seq(Candidate), NEW policy \in Requirements, policy.caps = {},
           Select(cands, Anything) # 0,
           ~PolicyBlocks(cands[Select(cands, Anything)], policy)
    PROVE  Select(cands, Anything) = Select(cands, policy)
<1> DEFINE n == Select(cands, Anything)
           l == Select(cands, policy)
<1>1. /\ n \in DOMAIN cands /\ Qualifies(cands[n], Anything)
      /\ \A i \in DOMAIN cands : Qualifies(cands[i], Anything) => n <= i
  BY AnyType, SelectFirst
<1>2. Qualifies(cands[n], policy)
  BY <1>1 DEF Qualifies, PolicyBlocks
<1>3. /\ l # 0 => l \in DOMAIN cands /\ Qualifies(cands[l], policy)
      /\ l # 0 => \A i \in DOMAIN cands : Qualifies(cands[i], policy) => l <= i
      /\ l = 0 => \A i \in DOMAIN cands : ~Qualifies(cands[i], policy)
  BY SelectFirst
<1> HIDE DEF n, l
<1>4. l # 0 /\ l \in DOMAIN cands /\ l <= n
  BY <1>1, <1>2, <1>3
<1>5. Qualifies(cands[l], Anything)
  BY <1>3, <1>4 DEF Qualifies, Anything
<1>6. n <= l
  BY <1>1, <1>4, <1>5
<1>7. n = l
  BY <1>1, <1>4, <1>6
<1> QED BY <1>7 DEF n, l

-----------------------------------------------------------------------------
(* Type correctness *)

Initial == pc # "done" => result = NoResult

\* What the jobs of the two commands look like.
Asked ==
    /\ job.policy.caps = {}
    /\ job.required.allowFallback /\ ~job.required.requireReady
    /\ job.kind # "route" => job.required = Anything

\* The lists are asked of a backend.
Placed ==
    pc \in {"installed", "loaded"} => at <= Len(Order) /\ Order[at] \in seen.reachable

AtFirst == pc = "idle" => at = 1

TypeInv == TypeOK /\ Initial /\ Asked /\ Placed /\ AtFirst

LEMMA NoResultType ==
    /\ NoResult \in Result /\ Len(NoResult.candidates) = 0
    /\ NoResult.chosen = 0 /\ NoResult.handoff = 0 /\ NoResult.candidates = << >>
BY DEF NoResult, Result, Codes

LEMMA EndType ==
    ASSUME TypeInv, pc # "done", NEW code \in Codes, NEW exit \in {0, 1, 3, 4, 5}, End(code, exit)
    PROVE  /\ pc' = "done" /\ result' \in Result
           /\ result'.candidates = << >> /\ result'.chosen = 0 /\ result'.handoff = 0
           /\ result'.code = code /\ Len(result'.candidates) = 0
<1>1. result' = [NoResult EXCEPT !.code = code, !.exit = exit]
  BY DEF TypeInv, Initial, End
<1>2. result' = [code |-> code, exit |-> exit, candidates |-> << >>, chosen |-> 0, handoff |-> 0]
  BY <1>1 DEF NoResult
<1>3. << >> \in Seq(Candidate) /\ Len(<< >>) = 0
  OBVIOUS
<1>4. result' \in Result
  BY <1>2, <1>3 DEF Result
<1>5. /\ result'.candidates = << >> /\ result'.chosen = 0 /\ result'.handoff = 0
      /\ result'.code = code
  BY <1>2
<1>6. pc' = "done"
  BY DEF End
<1> QED BY <1>3, <1>4, <1>5, <1>6

LEMMA TypeInit == Init => TypeInv
<1> SUFFICES ASSUME Init PROVE TypeInv
  OBVIOUS
<1>1. world \in [Backend -> Condition]
  BY StartAssumption DEF Init
<1>2. at \in 1 .. Len(Order) + 1 /\ drifts \in 0 .. MaxDrifts
  BY OrderAssumption, DriftAssumption DEF Init
<1>3. job \in Job /\ Asked
  <2>1. Anything.caps = {} /\ Anything.allowFallback /\ ~Anything.requireReady
    BY DEF Anything
  <2>2. job \in [kind : {"none"}, cfg : Config, required : {Anything}, policy : {Anything}]
    BY DEF Init
  <2>3. job.policy = Anything /\ job.required = Anything
    BY <2>2
  <2>4. job \in Job
    BY <2>2, AnyType DEF Job
  <2>5. Asked
    BY <2>1, <2>3 DEF Asked
  <2> QED BY <2>4, <2>5
<1>4. seen \in Probed
  BY DEF Init, NothingSeen, Probed
<1> QED BY <1>1, <1>2, <1>3, <1>4, NoResultType DEF Init, TypeInv, TypeOK, Initial, Placed, AtFirst

\* What SelectRoute decides has the type of a result.
LEMMA DecideType ==
    ASSUME TypeInv, SelectRoute
    PROVE  /\ result' \in Result
           /\ result'.chosen <= Len(result'.candidates)
           /\ result'.handoff <= Len(result'.candidates)
           /\ result'.candidates = Evaluated(job.cfg, seen)
           /\ result'.chosen = Select(Evaluated(job.cfg, seen), job.required)
           /\ result'.code = "ok" => result'.chosen # 0
           /\ result'.code \in {"ok", "E_NO_ROUTE_AVAILABLE",
                 "E_ROUTE_REQUIREMENTS_UNSATISFIED", "E_PREFLIGHT_POLICY_BLOCKED"}
           /\ result'.code = "ok" /\ job.kind = "preflight" =>
                /\ ~PolicyBlocks(result'.candidates[result'.chosen], job.policy)
                /\ result'.handoff = HandoffSource(result'.candidates, result'.chosen)
<1> DEFINE cands == Evaluated(job.cfg, seen)
           n == Select(cands, job.required)
<1>1. job \in Job /\ job.cfg \in Config /\ job.required \in Requirements /\ seen \in Probed
  BY DEF TypeInv, TypeOK, Job
<1>2. cands \in Seq(Candidate) /\ Len(cands) \in Nat /\ DOMAIN cands = 1 .. Len(cands)
  BY <1>1, EvaluatedType
<1>3. n \in Nat /\ (n # 0 => n \in DOMAIN cands)
  BY <1>1, <1>2, SelectFirst
<1>4. result' = Decide(cands, n)
  BY DEF SelectRoute
<1>5. ASSUME n # 0
      PROVE  HandoffSource(cands, n) \in Nat /\ HandoffSource(cands, n) <= Len(cands)
  <2> DEFINE same == { i \in DOMAIN cands : /\ cands[i].model = cands[n].model
                                            /\ cands[i].backend = cands[n].backend }
  <2>1. same \in SUBSET (Nat \ {0}) /\ same # {} /\ same \subseteq DOMAIN cands
    BY <1>2, <1>3, <1>5
  <2>2. FirstOf(same) \in same
    BY <2>1, FirstOfLeast
  <2>3. HandoffSource(cands, n) = FirstOf(same)
    BY DEF HandoffSource
  <2> DEFINE h == FirstOf(same)
  <2>4. h \in DOMAIN cands
    BY <2>1, <2>2
  <2> HIDE DEF h
  <2>5. h \in 1 .. Len(cands) /\ Len(cands) \in Nat
    BY <1>2, <2>4
  <2> HIDE DEF cands
  <2>6. h \in Nat /\ h <= Len(cands)
    BY <2>5
  <2> QED BY <2>3, <2>6 DEF h
<1> HIDE DEF cands, n
<1>6. CASE n = 0
  BY <1>2, <1>4, <1>6 DEF Decide, Result, Codes, cands, n
<1>7. CASE n # 0
  <2>1. n <= Len(cands) /\ n \in Nat
    BY <1>2, <1>3, <1>7
  <2>2. CASE job.kind = "preflight" /\ PolicyBlocks(cands[n], job.policy)
    <3>1. result' = [code |-> "E_PREFLIGHT_POLICY_BLOCKED", exit |-> 5,
                     candidates |-> cands, chosen |-> n, handoff |-> 0]
      BY <1>4, <1>7, <2>2 DEF Decide
    <3>2. result' \in Result
      BY <1>2, <2>1, <3>1 DEF Result, Codes
    <3>3. /\ result'.candidates = cands /\ result'.chosen = n /\ result'.handoff = 0
          /\ result'.code = "E_PREFLIGHT_POLICY_BLOCKED"
      BY <3>1
    <3> QED BY <1>2, <2>1, <3>2, <3>3 DEF cands, n
  <2>3. CASE ~(job.kind = "preflight" /\ PolicyBlocks(cands[n], job.policy))
    <3> DEFINE handoff == IF job.kind = "preflight" THEN HandoffSource(cands, n) ELSE 0
    <3>1. result' = [code |-> "ok", exit |-> 0, candidates |-> cands, chosen |-> n,
                     handoff |-> handoff]
      BY <1>4, <1>7, <2>3 DEF Decide
    <3>2. handoff \in Nat /\ handoff <= Len(cands)
      BY <1>2, <1>5, <1>7
    <3>3. /\ result'.candidates = cands /\ result'.chosen = n /\ result'.handoff = handoff
          /\ result'.code = "ok"
      BY <3>1
    <3>4. result' \in Result
      <4> HIDE DEF handoff
      <4> QED BY <1>2, <2>1, <3>1, <3>2 DEF Result, Codes
    <3>5. job.kind = "preflight" => /\ ~PolicyBlocks(cands[n], job.policy)
                                    /\ handoff = HandoffSource(cands, n)
      BY <2>3
    <3> HIDE DEF handoff
    <3> QED BY <1>7, <2>1, <3>2, <3>3, <3>4, <3>5 DEF cands, n
  <2> QED BY <2>2, <2>3
<1> QED BY <1>6, <1>7

LEMMA BeginType ==
    ASSUME TypeInv, NEW kind \in {"route", "preflight"},
           NEW required \in Requirements, NEW policy \in Requirements,
           policy.caps = {}, required.allowFallback, ~required.requireReady,
           kind = "preflight" => required = Anything,
           Begin(kind, required, policy)
    PROVE  /\ TypeInv' /\ pc = "idle" /\ pc' \in {"access", "done"}
           /\ pc' = "done" => result'.candidates = << >> /\ result'.chosen = 0
           /\ pc' = "done" => result'.code \in {"E_CONFIG", "E_CONFIG_VALIDATION_FAILED", "E_UNKNOWN_TASK"}
<1>1. pc = "idle" /\ UNCHANGED << world, history, drifts, at, seen >>
  BY DEF Begin
<1>2. job' \in Job /\ Asked'
  <2>1. job \in Job /\ job' = [job EXCEPT !.kind = kind, !.required = required, !.policy = policy]
    BY DEF TypeInv, TypeOK, Begin
  <2>2. job' \in Job /\ job'.kind = kind /\ job'.required = required /\ job'.policy = policy
    BY <2>1 DEF Job
  <2> QED BY <2>2 DEF Asked
<1>3. CASE pc' = "access" /\ UNCHANGED result
  BY <1>1, <1>2, <1>3 DEF TypeInv, TypeOK, Initial, Placed, AtFirst
<1>4. CASE Refuse(kind)
  <2>1. PICK code \in {"E_CONFIG", "E_CONFIG_VALIDATION_FAILED", "E_UNKNOWN_TASK"},
             exit \in {0, 1, 3, 4, 5} : End(code, exit)
    BY <1>4 DEF Refuse
  <2>2. code \in Codes /\ pc # "done"
    BY <1>1 DEF Codes
  <2>3. /\ pc' = "done" /\ result' \in Result
        /\ result'.candidates = << >> /\ result'.chosen = 0 /\ result'.handoff = 0
        /\ result'.code = code /\ Len(result'.candidates) = 0
    BY <2>1, <2>2, EndType
  <2> QED BY <1>1, <1>2, <2>3 DEF TypeInv, TypeOK, Initial, Placed, AtFirst
<1> QED BY <1>3, <1>4 DEF Begin

LEMMA RequestTypes ==
    /\ \A caps \in SUBSET Capability :
         /\ [Anything EXCEPT !.caps = caps] \in Requirements
         /\ [Anything EXCEPT !.caps = caps].allowFallback /\ ~[Anything EXCEPT !.caps = caps].requireReady
    /\ \A fallback, ready \in BOOLEAN :
         /\ [Anything EXCEPT !.allowFallback = fallback, !.requireReady = ready] \in Requirements
         /\ [Anything EXCEPT !.allowFallback = fallback, !.requireReady = ready].caps = {}
    /\ Anything \in Requirements /\ Anything.caps = {} /\ Anything.allowFallback /\ ~Anything.requireReady
BY DEF Anything, Requirements

\* Both commands begin alike.
BeginStep ==
    /\ pc = "idle" /\ pc' \in {"access", "done"}
    /\ pc' = "done" => result'.candidates = << >> /\ result'.chosen = 0
    /\ pc' = "done" => result'.code \in {"E_CONFIG", "E_CONFIG_VALIDATION_FAILED", "E_UNKNOWN_TASK"}
    /\ UNCHANGED << world, history, drifts, at, seen >>

LEMMA BeginBoth ==
    ASSUME TypeInv, BeginRoute \/ BeginPreflight
    PROVE  TypeInv' /\ BeginStep
<1>1. CASE BeginRoute
  <2>1. PICK caps \in SUBSET Capability : Begin("route", [Anything EXCEPT !.caps = caps], Anything)
    BY <1>1 DEF BeginRoute
  <2> DEFINE required == [Anything EXCEPT !.caps = caps]
  <2>2. required \in Requirements /\ required.allowFallback /\ ~required.requireReady
    BY RequestTypes
  <2>3. Begin("route", required, Anything)
    BY <2>1
  <2> HIDE DEF required
  <2>4. UNCHANGED << world, history, drifts, at, seen >>
    BY <2>3 DEF Begin
  <2> QED BY <2>2, <2>3, <2>4, RequestTypes, BeginType DEF BeginStep
<1>2. CASE BeginPreflight
  <2>1. PICK fallback, ready \in BOOLEAN :
          Begin("preflight", Anything, [Anything EXCEPT !.allowFallback = fallback, !.requireReady = ready])
    BY <1>2 DEF BeginPreflight
  <2> DEFINE policy == [Anything EXCEPT !.allowFallback = fallback, !.requireReady = ready]
  <2>2. policy \in Requirements /\ policy.caps = {}
    BY RequestTypes
  <2>3. Begin("preflight", Anything, policy)
    BY <2>1
  <2> HIDE DEF policy
  <2>4. UNCHANGED << world, history, drifts, at, seen >>
    BY <2>3 DEF Begin
  <2> QED BY <2>2, <2>3, <2>4, RequestTypes, BeginType DEF BeginStep
<1> QED BY <1>1, <1>2

\* A probe that has a backend to ask.
LEMMA Asking ==
    ASSUME TypeInv, at <= Len(Order)
    PROVE  at \in DOMAIN Order /\ Order[at] \in Backend /\ at + 1 \in 1 .. Len(Order) + 1
<1>1. Len(Order) \in Nat /\ DOMAIN Order = 1 .. Len(Order) /\ \A i \in DOMAIN Order : Order[i] \in Backend
  BY OrderAssumption
<1> QED BY <1>1 DEF TypeInv, TypeOK

LEMMA TypeStep == TypeInv /\ [Next]_vars => TypeInv'
<1> SUFFICES ASSUME TypeInv, [Next]_vars PROVE TypeInv'
  OBVIOUS
<1>1. ASSUME NEW b \in Backend, Drift(b) PROVE TypeInv'
  <2>1. PICK s \in Condition : world' = [world EXCEPT ![b] = s]
    BY <1>1 DEF Drift
  <2>2. world' \in [Backend -> Condition] /\ history' \in SUBSET [Backend -> Condition]
    BY <1>1, <2>1 DEF Drift, TypeInv, TypeOK
  <2>3. drifts' \in 0 .. MaxDrifts
    BY <1>1, DriftAssumption DEF Drift, TypeInv, TypeOK
  <2>4. UNCHANGED << pc, at, job, seen, result >>
    BY <1>1 DEF Drift
  <2> QED BY <2>2, <2>3, <2>4 DEF TypeInv, TypeOK, Initial, Asked, Placed, AtFirst
<1>2. CASE BeginRoute \/ BeginPreflight
  BY <1>2, BeginBoth
<1>3. CASE CheckAccess
  <2>1. UNCHANGED << world, history, drifts, job, seen >> /\ pc = "access"
    BY <1>3 DEF CheckAccess
  <2>2. CASE at > Len(Order) /\ pc' = "reachable" /\ at' = 1 /\ UNCHANGED result
    <3>1. at' \in 1 .. Len(Order) + 1
      BY <2>2, OrderAssumption
    <3> QED BY <2>1, <2>2, <3>1 DEF TypeInv, TypeOK, Initial, Asked, Placed, AtFirst
  <2>3. CASE End("E_BACKEND_AUTH_FAILED", 3) /\ UNCHANGED at
    <3>1. "E_BACKEND_AUTH_FAILED" \in Codes /\ 3 \in {0, 1, 3, 4, 5} /\ pc # "done"
      BY <2>1 DEF Codes
    <3>2. /\ pc' = "done" /\ result' \in Result
          /\ result'.chosen = 0 /\ result'.handoff = 0 /\ Len(result'.candidates) = 0
      BY <2>3, <3>1, EndType
    <3> QED BY <2>1, <2>3, <3>2 DEF TypeInv, TypeOK, Initial, Asked, Placed, AtFirst
  <2>4. CASE at <= Len(Order) /\ at' = at + 1 /\ UNCHANGED << pc, result >>
    <3>1. at' \in 1 .. Len(Order) + 1
      BY <2>4, Asking
    <3> QED BY <2>1, <2>4, <3>1 DEF TypeInv, TypeOK, Initial, Asked, Placed, AtFirst
  <2> QED BY <1>3, <2>2, <2>3, <2>4 DEF CheckAccess
<1>4. CASE ProbeReachable
  <2>1. UNCHANGED << world, history, drifts, job, result >> /\ pc = "reachable"
    BY <1>4 DEF ProbeReachable
  <2>2. CASE pc' = "select" /\ UNCHANGED << at, seen >>
    BY <2>1, <2>2 DEF TypeInv, TypeOK, Initial, Asked, Placed, AtFirst
  <2>3. CASE at <= Len(Order) /\ at' = at + 1 /\ UNCHANGED << pc, seen >>
    <3>1. at' \in 1 .. Len(Order) + 1
      BY <2>3, Asking
    <3> QED BY <2>1, <2>3, <3>1 DEF TypeInv, TypeOK, Initial, Asked, Placed, AtFirst
  <2>4. CASE /\ at <= Len(Order) /\ seen' = [seen EXCEPT !.reachable = @ \cup {Order[at]}]
             /\ pc' = "installed" /\ UNCHANGED at
    <3>1. seen' \in Probed
      BY <2>4, Asking DEF TypeInv, TypeOK, Probed
    <3> QED BY <2>1, <2>4, <3>1 DEF TypeInv, TypeOK, Initial, Asked, Placed, AtFirst
  <2> QED BY <1>4, <2>2, <2>3, <2>4 DEF ProbeReachable
<1> DEFINE I == IF Answers(Order[at]) THEN world[Order[at]].installed ELSE {}
           L == IF Answers(Order[at]) THEN world[Order[at]].loaded ELSE {}
<1>5. ASSUME at <= Len(Order) PROVE I \in SUBSET Name /\ L \in SUBSET Name
  <2>1. world[Order[at]] \in Condition
    BY <1>5, Asking DEF TypeInv, TypeOK
  <2>2. world[Order[at]].installed \in SUBSET Name /\ world[Order[at]].loaded \in SUBSET Name
    BY <2>1, ConditionAssumption
  <2> QED BY <2>2
<1>6. CASE ProbeInstalled
  <2>1. UNCHANGED << world, history, drifts, job, result, at >> /\ pc = "installed" /\ pc' = "loaded"
    BY <1>6 DEF ProbeInstalled
  <2>2. seen' = [seen EXCEPT !.installed[Order[at]] = I]
    BY <1>6 DEF ProbeInstalled
  <2>3. at <= Len(Order)
    BY <2>1 DEF TypeInv, Placed
  <2> HIDE DEF I, L
  <2>4. seen' \in Probed /\ seen'.reachable = seen.reachable
    BY <1>5, <2>2, <2>3, Asking DEF TypeInv, TypeOK, Probed
  <2> QED BY <2>1, <2>3, <2>4 DEF TypeInv, TypeOK, Initial, Asked, Placed, AtFirst
<1>7. CASE ProbeLoaded
  <2>1. UNCHANGED << world, history, drifts, job, result >> /\ pc = "loaded" /\ pc' = "reachable"
    BY <1>7 DEF ProbeLoaded
  <2>2. seen' = [seen EXCEPT !.loaded[Order[at]] = L] /\ at' = at + 1
    BY <1>7 DEF ProbeLoaded
  <2>3. at <= Len(Order)
    BY <2>1 DEF TypeInv, Placed
  <2> HIDE DEF I, L
  <2>4. seen' \in Probed
    BY <1>5, <2>2, <2>3, Asking DEF TypeInv, TypeOK, Probed
  <2>5. at' \in 1 .. Len(Order) + 1
    BY <2>2, <2>3, Asking
  <2> QED BY <2>1, <2>4, <2>5 DEF TypeInv, TypeOK, Initial, Asked, Placed, AtFirst
<1>8. CASE SelectRoute
  <2>1. UNCHANGED << world, history, drifts, at, job, seen >> /\ pc' = "done"
    BY <1>8 DEF SelectRoute
  <2> QED BY <1>8, <2>1, DecideType DEF TypeInv, TypeOK, Initial, Asked, Placed, AtFirst
<1>9. CASE UNCHANGED vars
  BY <1>9 DEF vars, TypeInv, TypeOK, Initial, Asked, Placed, AtFirst
<1> QED BY <1>1, <1>2, <1>3, <1>4, <1>6, <1>7, <1>8, <1>9 DEF Next

\* Every state of the commands has its type.
THEOREM TypeCorrect == Spec => []TypeOK
<1>1. TypeInv => TypeOK
  BY DEF TypeInv
<1> QED BY <1>1, TypeInit, TypeStep, PTL DEF Spec

-----------------------------------------------------------------------------
(* What the probes establish *)

Remembered == world \in history /\ (drifts = 0 => history = {world})

\* What is in seen was so.
SeenWasSo ==
    \A b \in Backend :
        /\ \A m \in seen.installed[b] : \E w \in history : Serves(w, b, m)
        /\ \A m \in seen.loaded[b] : \E w \in history : m \in w[b].loaded

Examined(k) ==
    \/ pc \in {"reachable", "installed"} /\ k < at
    \/ pc = "loaded" /\ k <= at
    \/ pc = "select"

Found(k, m) == Order[k] \in seen.reachable /\ m \in seen.installed[Order[k]]

\* What an examined backend was not found to serve, it did not serve.
UnseenWasNot ==
    \A k \in DOMAIN Order, m \in Name :
        Examined(k) /\ ~Found(k, m) => \E w \in history : ~Serves(w, Order[k], m)

\* The backends that have been let through did not refuse.
Admitted ==
    drifts = 0 =>
        \A k \in DOMAIN Order :
            pc \in {"reachable", "installed", "loaded", "select"} \/ (pc = "access" /\ k < at)
                => world[Order[k]].health # "refusing"

ProbeInv == Remembered /\ SeenWasSo /\ UnseenWasNot /\ Admitted

LEMMA ProbeInit == Init => ProbeInv
<1> SUFFICES ASSUME Init PROVE ProbeInv
  OBVIOUS
<1>1. Remembered
  BY DEF Init, Remembered
<1>2. SeenWasSo
  BY DEF Init, SeenWasSo, NothingSeen
<1>3. UnseenWasNot
  BY DEF Init, UnseenWasNot, Examined
<1>4. Admitted
  BY DEF Init, Admitted
<1> QED BY <1>1, <1>2, <1>3, <1>4 DEF ProbeInv

\* A step that changes neither the worlds nor what was seen, and examines nothing new.
LEMMA ProbeKept ==
    ASSUME ProbeInv, UNCHANGED << world, history, drifts, seen >>,
           \A k \in DOMAIN Order : Examined(k)' => Examined(k), Admitted'
    PROVE  ProbeInv'
<1>1. Remembered'
  BY DEF ProbeInv, Remembered
<1>2. SeenWasSo'
  BY DEF ProbeInv, SeenWasSo, Serves
<1>3. UnseenWasNot'
  BY DEF ProbeInv, UnseenWasNot, Found, Serves
<1> QED BY <1>1, <1>2, <1>3 DEF ProbeInv

LEMMA ProbeStep == TypeInv /\ ProbeInv /\ [Next]_vars => ProbeInv'
<1> SUFFICES ASSUME TypeInv, ProbeInv, [Next]_vars PROVE ProbeInv'
  OBVIOUS
<1>1. ASSUME NEW b \in Backend, Drift(b) PROVE ProbeInv'
  <2>1. /\ history' = history \cup {world'} /\ drifts' = drifts + 1
        /\ UNCHANGED << pc, at, seen >> /\ drifts \in Nat
    BY <1>1, DriftAssumption DEF Drift, TypeInv, TypeOK
  <2>2. Remembered' /\ Admitted'
    BY <2>1 DEF Remembered, Admitted
  <2>3. SeenWasSo'
    BY <2>1 DEF ProbeInv, SeenWasSo, Serves
  <2>4. UnseenWasNot'
    BY <2>1 DEF ProbeInv, UnseenWasNot, Examined, Found, Serves
  <2> QED BY <2>2, <2>3, <2>4 DEF ProbeInv
<1>2. CASE BeginRoute \/ BeginPreflight
  <2>1. BeginStep
    BY <1>2, BeginBoth
  <2>2. \A k \in DOMAIN Order : ~Examined(k)'
    BY <2>1 DEF BeginStep, Examined
  <2>3. Admitted'
    <3> SUFFICES ASSUME NEW k \in DOMAIN Order, pc' = "access", k < at' PROVE FALSE
      BY <2>1 DEF Admitted, BeginStep
    <3> QED BY <2>1, OrderAssumption DEF BeginStep, TypeInv, AtFirst
  <2> QED BY <2>1, <2>2, <2>3, ProbeKept DEF BeginStep
<1>3. CASE CheckAccess
  <2>1. UNCHANGED << world, history, drifts, seen >> /\ pc = "access"
    BY <1>3 DEF CheckAccess
  <2>2. /\ Len(Order) \in Nat /\ DOMAIN Order = 1 .. Len(Order) /\ at \in Nat
    BY OrderAssumption DEF TypeInv, TypeOK
  <2>3. CASE at > Len(Order) /\ pc' = "reachable" /\ at' = 1
    <3>1. \A k \in DOMAIN Order : ~Examined(k)'
      BY <2>2, <2>3 DEF Examined
    <3>2. Admitted'
      BY <2>1, <2>2, <2>3 DEF ProbeInv, Admitted
    <3> QED BY <2>1, <3>1, <3>2, ProbeKept
  <2>4. CASE pc' = "done"
    <3>1. \A k \in DOMAIN Order : ~Examined(k)'
      BY <2>4 DEF Examined
    <3>2. Admitted'
      BY <2>4 DEF Admitted
    <3> QED BY <2>1, <3>1, <3>2, ProbeKept
  <2>5. CASE /\ at <= Len(Order) /\ world[Order[at]].health # "refusing"
             /\ at' = at + 1 /\ UNCHANGED pc
    <3>1. \A k \in DOMAIN Order : ~Examined(k)'
      BY <2>1, <2>5 DEF Examined
    <3>2. Admitted'
      BY <2>1, <2>2, <2>5 DEF ProbeInv, Admitted
    <3> QED BY <2>1, <3>1, <3>2, ProbeKept
  <2> QED BY <1>3, <2>3, <2>4, <2>5 DEF CheckAccess, End
<1>4. CASE ProbeReachable
  <2>1. UNCHANGED << world, history, drifts >> /\ pc = "reachable"
    BY <1>4 DEF ProbeReachable
  <2>2. /\ Len(Order) \in Nat /\ DOMAIN Order = 1 .. Len(Order) /\ at \in Nat
    BY OrderAssumption DEF TypeInv, TypeOK
  <2>3. CASE at > Len(Order) /\ pc' = "select" /\ UNCHANGED << at, seen >>
    <3>1. \A k \in DOMAIN Order : Examined(k)
      BY <2>1, <2>2, <2>3 DEF Examined
    <3>2. Admitted'
      BY <2>1, <2>3 DEF ProbeInv, Admitted
    <3> QED BY <2>1, <2>3, <3>1, <3>2, ProbeKept
  <2>4. CASE /\ at <= Len(Order) /\ world[Order[at]].health # "up"
             /\ at' = at + 1 /\ UNCHANGED << pc, seen >>
    <3>1. Remembered' /\ SeenWasSo'
      BY <2>1, <2>4 DEF ProbeInv, Remembered, SeenWasSo, Serves
    <3>2. Admitted'
      BY <2>1, <2>4 DEF ProbeInv, Admitted
    <3>3. UnseenWasNot'
      <4> SUFFICES ASSUME NEW k \in DOMAIN Order, NEW m \in Name, Examined(k)', ~Found(k, m)'
                   PROVE  \E w \in history' : ~Serves(w, Order[k], m)
        BY DEF UnseenWasNot, Serves
      <4>1. CASE k = at
        BY <2>1, <2>4, <4>1 DEF ProbeInv, Remembered, Serves
      <4>2. CASE k # at
        <5>1. Examined(k) /\ ~Found(k, m)
          BY <2>1, <2>2, <2>4, <4>2 DEF Examined, Found
        <5> QED BY <2>1, <5>1 DEF ProbeInv, UnseenWasNot
      <4> QED BY <4>1, <4>2
    <3> QED BY <3>1, <3>2, <3>3 DEF ProbeInv
  <2>5. CASE /\ at <= Len(Order) /\ seen' = [seen EXCEPT !.reachable = @ \cup {Order[at]}]
             /\ pc' = "installed" /\ UNCHANGED at
    <3>1. /\ seen'.installed = seen.installed /\ seen'.loaded = seen.loaded
          /\ seen.reachable \subseteq seen'.reachable
      BY <2>5 DEF TypeInv, TypeOK, Probed
    <3>2. Remembered' /\ SeenWasSo'
      BY <2>1, <3>1 DEF ProbeInv, Remembered, SeenWasSo, Serves
    <3>3. Admitted'
      BY <2>1, <2>5 DEF ProbeInv, Admitted
    <3>4. UnseenWasNot'
      <4> SUFFICES ASSUME NEW k \in DOMAIN Order, NEW m \in Name, Examined(k)', ~Found(k, m)'
                   PROVE  \E w \in history' : ~Serves(w, Order[k], m)
        BY DEF UnseenWasNot, Serves
      <4>1. Examined(k) /\ ~Found(k, m)
        BY <2>1, <2>5, <3>1 DEF Examined, Found
      <4> QED BY <2>1, <4>1 DEF ProbeInv, UnseenWasNot
    <3> QED BY <3>2, <3>3, <3>4 DEF ProbeInv
  <2> QED BY <1>4, <2>3, <2>4, <2>5 DEF ProbeReachable
<1>5. CASE ProbeInstalled
  <2> DEFINE b == Order[at]
             I == IF Answers(b) THEN world[b].installed ELSE {}
  <2>1. UNCHANGED << world, history, drifts, at >> /\ pc = "installed" /\ pc' = "loaded"
    BY <1>5 DEF ProbeInstalled
  <2>2. seen' = [seen EXCEPT !.installed[b] = I]
    BY <1>5 DEF ProbeInstalled
  <2>3. at \in DOMAIN Order /\ b \in Backend
    BY <2>1, Asking DEF TypeInv, Placed
  <2>4. \A m \in Name : m \in I <=> Serves(world, b, m)
    BY DEF Answers, Serves
  <2>5. \A m \in I : Serves(world, b, m)
    BY DEF Answers, Serves
  <2> HIDE DEF b, I
  <2>6. /\ seen'.reachable = seen.reachable /\ seen'.loaded = seen.loaded
        /\ seen'.installed[b] = I
        /\ \A q \in Backend : q # b => seen'.installed[q] = seen.installed[q]
    BY <2>2, <2>3 DEF TypeInv, TypeOK, Probed
  <2>7. Remembered' /\ Admitted'
    BY <2>1 DEF ProbeInv, Remembered, Admitted
  <2>8. SeenWasSo'
    <3> SUFFICES ASSUME NEW q \in Backend
                 PROVE  /\ \A m \in seen'.installed[q] : \E w \in history : Serves(w, q, m)
                        /\ \A m \in seen'.loaded[q] : \E w \in history : m \in w[q].loaded
      BY <2>1 DEF SeenWasSo, Serves
    <3>1. \A m \in seen'.loaded[q] : \E w \in history : m \in w[q].loaded
      BY <2>6 DEF ProbeInv, SeenWasSo
    <3>2. CASE q = b
      BY <2>5, <2>6, <3>1, <3>2 DEF ProbeInv, Remembered
    <3>3. CASE q # b
      BY <2>6, <3>1, <3>3 DEF ProbeInv, SeenWasSo
    <3> QED BY <3>2, <3>3
  <2>9. UnseenWasNot'
    <3> SUFFICES ASSUME NEW k \in DOMAIN Order, NEW m \in Name, Examined(k)', ~Found(k, m)'
                 PROVE  \E w \in history : ~Serves(w, Order[k], m)
      BY <2>1 DEF UnseenWasNot, Serves
    <3>1. CASE k = at
      <4>1. CASE m \notin I
        BY <2>4, <3>1, <4>1 DEF ProbeInv, Remembered, b
      <4>2. CASE m \in I
        <5>1. Order[at] \notin seen.reachable
          BY <2>6, <3>1, <4>2 DEF Found, b
        <5> QED BY <2>1, <5>1 DEF TypeInv, Placed
      <4> QED BY <4>1, <4>2
    <3>2. CASE k # at
      <4>1. Order[k] \in Backend /\ Order[k] # b
        BY <2>3, <3>2, OrderAssumption DEF b
      <4>2. k \in Nat /\ at \in Nat
        BY <2>3, OrderAssumption
      <4>3. Examined(k) /\ ~Found(k, m)
        BY <2>1, <2>6, <3>2, <4>1, <4>2 DEF Examined, Found
      <4> QED BY <4>3 DEF ProbeInv, UnseenWasNot
    <3> QED BY <3>1, <3>2
  <2> QED BY <2>7, <2>8, <2>9 DEF ProbeInv
<1>6. CASE ProbeLoaded
  <2> DEFINE b == Order[at]
             L == IF Answers(b) THEN world[b].loaded ELSE {}
  <2>1. UNCHANGED << world, history, drifts >> /\ pc = "loaded" /\ pc' = "reachable" /\ at' = at + 1
    BY <1>6 DEF ProbeLoaded
  <2>2. seen' = [seen EXCEPT !.loaded[b] = L]
    BY <1>6 DEF ProbeLoaded
  <2>3. at \in DOMAIN Order /\ b \in Backend /\ DOMAIN Order \subseteq Nat
    BY <2>1, Asking, OrderAssumption DEF TypeInv, Placed
  <2>4. \A m \in L : m \in world[b].loaded
    OBVIOUS
  <2> HIDE DEF b, L
  <2>5. /\ seen'.reachable = seen.reachable /\ seen'.installed = seen.installed
        /\ seen'.loaded[b] = L
        /\ \A q \in Backend : q # b => seen'.loaded[q] = seen.loaded[q]
    BY <2>2, <2>3 DEF TypeInv, TypeOK, Probed
  <2>6. Remembered' /\ Admitted'
    BY <2>1 DEF ProbeInv, Remembered, Admitted
  <2>7. SeenWasSo'
    <3> SUFFICES ASSUME NEW q \in Backend
                 PROVE  /\ \A m \in seen'.installed[q] : \E w \in history : Serves(w, q, m)
                        /\ \A m \in seen'.loaded[q] : \E w \in history : m \in w[q].loaded
      BY <2>1 DEF SeenWasSo, Serves
    <3>1. \A m \in seen'.installed[q] : \E w \in history : Serves(w, q, m)
      BY <2>5 DEF ProbeInv, SeenWasSo
    <3>2. CASE q = b
      BY <2>4, <2>5, <3>1, <3>2 DEF ProbeInv, Remembered
    <3>3. CASE q # b
      BY <2>5, <3>1, <3>3 DEF ProbeInv, SeenWasSo
    <3> QED BY <3>2, <3>3
  <2>8. UnseenWasNot'
    <3> SUFFICES ASSUME NEW k \in DOMAIN Order, NEW m \in Name, Examined(k)', ~Found(k, m)'
                 PROVE  \E w \in history : ~Serves(w, Order[k], m)
      BY <2>1 DEF UnseenWasNot, Serves
    <3>1. Examined(k) /\ ~Found(k, m)
      BY <2>1, <2>3, <2>5 DEF Examined, Found
    <3> QED BY <3>1 DEF ProbeInv, UnseenWasNot
  <2> QED BY <2>6, <2>7, <2>8 DEF ProbeInv
<1>7. CASE SelectRoute
  <2>1. UNCHANGED << world, history, drifts, seen >> /\ pc' = "done"
    BY <1>7 DEF SelectRoute
  <2>2. \A k \in DOMAIN Order : ~Examined(k)'
    BY <2>1 DEF Examined
  <2>3. Admitted'
    BY <2>1 DEF Admitted
  <2> QED BY <2>1, <2>2, <2>3, ProbeKept
<1>8. CASE UNCHANGED vars
  <2>1. UNCHANGED << world, history, drifts, seen, pc, at >>
    BY <1>8 DEF vars
  <2>2. Admitted' /\ \A k \in DOMAIN Order : Examined(k)' => Examined(k)
    BY <2>1 DEF ProbeInv, Admitted, Examined
  <2> QED BY <2>1, <2>2, ProbeKept
<1> QED BY <1>1, <1>2, <1>3, <1>4, <1>5, <1>6, <1>7, <1>8 DEF Next

-----------------------------------------------------------------------------
(* What the commands decide *)

ConfigErrors == {"E_CONFIG", "E_CONFIG_VALIDATION_FAILED", "E_UNKNOWN_TASK"}

\* A command that ends has selected, was refused before it probed, or met a
\* backend that refused it.
LEMMA Endings ==
    ASSUME TypeInv, [Next]_vars
    PROVE  \/ pc' # "done"
           \/ pc = "done" /\ UNCHANGED vars
           \/ SelectRoute
           \/ /\ result'.candidates = << >> /\ result'.chosen = 0
              /\ result'.code \in ConfigErrors
           \/ /\ result'.candidates = << >> /\ result'.chosen = 0
              /\ result'.code = "E_BACKEND_AUTH_FAILED"
              /\ \E b \in Backend : world'[b].health = "refusing"
<1>1. CASE \E b \in Backend : Drift(b)
  BY <1>1 DEF Drift
<1>2. CASE BeginRoute \/ BeginPreflight
  BY <1>2, BeginBoth DEF BeginStep, ConfigErrors
<1>3. CASE CheckAccess
  <2>1. pc = "access" /\ world' = world
    BY <1>3 DEF CheckAccess
  <2>2. CASE /\ at <= Len(Order) /\ world[Order[at]].health = "refusing"
             /\ End("E_BACKEND_AUTH_FAILED", 3)
    <3>1. "E_BACKEND_AUTH_FAILED" \in Codes /\ 3 \in {0, 1, 3, 4, 5} /\ pc # "done"
      BY <2>1 DEF Codes
    <3>2. /\ result'.candidates = << >> /\ result'.chosen = 0
          /\ result'.code = "E_BACKEND_AUTH_FAILED"
      BY <2>2, <3>1, EndType
    <3> QED BY <2>1, <2>2, <3>2, Asking
  <2>3. CASE pc' = "reachable" \/ UNCHANGED pc
    BY <2>1, <2>3
  <2> QED BY <1>3, <2>2, <2>3 DEF CheckAccess
<1>4. CASE ProbeReachable \/ ProbeInstalled \/ ProbeLoaded
  BY <1>4 DEF ProbeReachable, ProbeInstalled, ProbeLoaded
<1>5. CASE UNCHANGED vars
  BY <1>5 DEF vars
<1> QED BY <1>1, <1>2, <1>3, <1>4, <1>5 DEF Next

\* Each candidate of a selection, against what was seen of the backends.
LEMMA Selection ==
    ASSUME TypeInv, SelectRoute
    PROVE  /\ UNCHANGED << world, history, drifts, at, job, seen >>
           /\ result'.candidates \in Seq(Candidate)
           /\ DOMAIN result'.candidates = DOMAIN Candidates(job.cfg)
           /\ \A i \in DOMAIN Candidates(job.cfg) :
                LET c == Candidates(job.cfg)[i]
                    e == result'.candidates[i]
                IN  /\ i \in Nat /\ i # 0 /\ c.model \in Name
                    /\ e.model = c.model /\ e.role = c.role /\ e.supports = c.supports
                    /\ e.available <=> Serving(c, seen) # {}
                    /\ e.available => \E k \in Serving(c, seen) :
                          /\ \A j \in Serving(c, seen) : k <= j
                          /\ k \in Places(c) /\ k \in DOMAIN Order
                          /\ e.backend = Order[k] /\ Order[k] \in Backend
                          /\ e.loaded <=> c.model \in seen.loaded[Order[k]]
           /\ \A i \in DOMAIN Candidates(job.cfg) :
                Qualifies(result'.candidates[i], job.required)
                    <=> /\ result'.candidates[i].available
                        /\ job.required.caps \subseteq result'.candidates[i].supports
           /\ result'.chosen = 0 =>
                \A i \in DOMAIN Candidates(job.cfg) : ~Qualifies(result'.candidates[i], job.required)
           /\ result'.chosen # 0 =>
                /\ result'.chosen \in DOMAIN Candidates(job.cfg)
                /\ Qualifies(result'.candidates[result'.chosen], job.required)
                /\ \A i \in DOMAIN Candidates(job.cfg) :
                     Qualifies(result'.candidates[i], job.required) => result'.chosen <= i
<1> DEFINE cands == Evaluated(job.cfg, seen)
<1>1. UNCHANGED << world, history, drifts, at, job, seen >>
  BY DEF SelectRoute
<1>2. job.cfg \in Config /\ job.required \in Requirements /\ seen \in Probed
  BY DEF TypeInv, TypeOK, Job
<1>3. result'.candidates = cands /\ result'.chosen = Select(cands, job.required)
  BY DecideType
<1>4. cands \in Seq(Candidate) /\ DOMAIN cands = DOMAIN Candidates(job.cfg)
  BY <1>2, EvaluatedType
<1>5. ASSUME NEW i \in DOMAIN Candidates(job.cfg)
      PROVE LET c == Candidates(job.cfg)[i]
                e == cands[i]
                IN  /\ i \in Nat /\ i # 0 /\ c.model \in Name
                    /\ e.model = c.model /\ e.role = c.role /\ e.supports = c.supports
                    /\ e.available <=> Serving(c, seen) # {}
                    /\ e.available => \E k \in Serving(c, seen) :
                          /\ \A j \in Serving(c, seen) : k <= j
                          /\ k \in Places(c) /\ k \in DOMAIN Order
                          /\ e.backend = Order[k] /\ Order[k] \in Backend
                          /\ e.loaded <=> c.model \in seen.loaded[Order[k]]
  <2> DEFINE c == Candidates(job.cfg)[i]
             e == cands[i]
  <2>1. c \in Candidate /\ ~c.available /\ i \in Nat \ {0}
    BY <1>2, <1>5, CandidatesType
  <2>2. e = Evaluate(c, seen)
    BY <1>2, <1>5, EvaluatedType
  <2>3. c.model \in Name
    BY <2>1 DEF Candidate
  <2> HIDE DEF c, e, cands
  <2>4. /\ e.model = c.model /\ e.role = c.role /\ e.supports = c.supports
        /\ e.available <=> Serving(c, seen) # {}
    BY <1>2, <2>1, <2>2, EvaluateFacts
  <2>5. ASSUME e.available
        PROVE  \E k \in Serving(c, seen) :
                          /\ \A j \in Serving(c, seen) : k <= j
                          /\ k \in Places(c) /\ k \in DOMAIN Order
                          /\ e.backend = Order[k] /\ Order[k] \in Backend
                          /\ e.loaded <=> c.model \in seen.loaded[Order[k]]
    BY <1>2, <2>1, <2>2, <2>4, <2>5, EvaluateFacts
  <2> QED BY <2>1, <2>3, <2>4, <2>5 DEF c, e
<1>6. \A i \in DOMAIN cands : Qualifies(cands[i], job.required)
         <=> cands[i].available /\ job.required.caps \subseteq cands[i].supports
  BY DEF Qualifies, TypeInv, Asked
<1>7. LET n == Select(cands, job.required)
      IN  /\ n = 0 => \A i \in DOMAIN cands : ~Qualifies(cands[i], job.required)
          /\ n # 0 => /\ n \in DOMAIN cands /\ Qualifies(cands[n], job.required)
                      /\ \A i \in DOMAIN cands : Qualifies(cands[i], job.required) => n <= i
  BY <1>2, <1>4, SelectFirst
<1> HIDE DEF cands
<1> QED BY <1>1, <1>3, <1>4, <1>5, <1>6, <1>7

\* A backend that was found to serve, or not to, the model of a candidate.
LEMMA FoundServes ==
    ASSUME TypeInv, ProbeInv, NEW k \in DOMAIN Order, NEW m \in Name
    PROVE  /\ Found(k, m) => \E w \in history : Serves(w, Order[k], m)
           /\ pc = "select" /\ ~Found(k, m) => \E w \in history : ~Serves(w, Order[k], m)
<1>1. Order[k] \in Backend
  BY OrderAssumption
<1> QED BY <1>1 DEF ProbeInv, SeenWasSo, UnseenWasNot, Examined, Found

LEMMA DecisionStep ==
    ASSUME TypeInv, ProbeInv, SelectRoute
    PROVE  DecisionWitnessed'
<1> SUFFICES ASSUME Decided'
             PROVE  /\ \E w \in history' : Serves(w, Chosen'.backend, Chosen'.model)
                    /\ Chosen'.loaded => \E w \in history' : Chosen'.model \in w[Chosen'.backend].loaded
  BY DEF DecisionWitnessed, Serves
<1> DEFINE n == result'.chosen
           c == Candidates(job.cfg)[n]
           e == result'.candidates[n]
<1>1. n # 0 /\ Chosen' = e /\ history' = history
  BY Selection DEF Decided, Chosen
<1>2. n \in DOMAIN Candidates(job.cfg) /\ e.available
  BY <1>1, Selection
<1>3. e.model = c.model /\ c.model \in Name
  BY <1>2, Selection
<1>4. PICK k \in Serving(c, seen) :
          /\ k \in DOMAIN Order /\ e.backend = Order[k] /\ Order[k] \in Backend
          /\ e.loaded <=> c.model \in seen.loaded[Order[k]]
  BY <1>2, Selection
<1> HIDE DEF n, c, e
<1>5. Found(k, c.model)
  BY <1>4 DEF Serving, Found
<1>6. \E w \in history : Serves(w, Order[k], c.model)
  BY <1>3, <1>4, <1>5, FoundServes
<1>7. e.loaded => \E w \in history : c.model \in w[Order[k]].loaded
  BY <1>4 DEF ProbeInv, SeenWasSo
<1> QED BY <1>1, <1>3, <1>4, <1>6, <1>7

LEMMA RefusalStep ==
    ASSUME TypeInv, ProbeInv, SelectRoute
    PROVE  RefusalWitnessed'
<1> DEFINE cands == result'.candidates
<1> SUFFICES ASSUME NEW i \in DOMAIN Candidates(job.cfg), result'.chosen = 0 \/ i < result'.chosen,
                    job.required.caps \subseteq cands[i].supports,
                    NEW k \in Places(Candidates(job.cfg)[i])
             PROVE  \E w \in history : ~Serves(w, Order[k], cands[i].model)
  <2>1. history' = history /\ job' = job /\ DOMAIN cands = DOMAIN Candidates(job.cfg)
    BY Selection
  <2> QED BY <2>1 DEF RefusalWitnessed, PassedOver, Serves
<1>1. ~Qualifies(cands[i], job.required)
  <2>1. CASE result'.chosen = 0
    BY <2>1, Selection
  <2>2. CASE result'.chosen # 0
    <3>1. result'.chosen \in DOMAIN Candidates(job.cfg)
      BY <2>2, Selection
    <3>2. result'.chosen \in Nat /\ i \in Nat /\ i < result'.chosen
      BY <2>2, <3>1, Selection
    <3> QED BY <2>2, <3>2, Selection
  <2> QED BY <2>1, <2>2
<1>2. ~cands[i].available
  BY <1>1, Selection
<1> DEFINE m == Candidates(job.cfg)[i].model
<1>3. cands[i].model = m /\ m \in Name
  BY Selection
<1>4. Serving(Candidates(job.cfg)[i], seen) = {}
  BY <1>2, Selection
<1>5. ~Found(k, m)
  BY <1>4 DEF Serving, Found
<1>6. k \in DOMAIN Order /\ pc = "select"
  BY DEF Places, SelectRoute
<1> HIDE DEF m
<1> QED BY <1>3, <1>5, <1>6, FoundServes

LEMMA HandoffStep ==
    ASSUME TypeInv, SelectRoute
    PROVE  HandoffIsSelected' /\ RunnableIsPolicySelection'
<1> SUFFICES ASSUME result'.code = "ok", job.kind = "preflight"
             PROVE  /\ result'.handoff = result'.chosen
                    /\ result'.chosen = Select(result'.candidates, job.policy)
  BY Selection DEF HandoffIsSelected, RunnableIsPolicySelection
<1> DEFINE cands == Evaluated(job.cfg, seen)
<1>1. job.required = Anything /\ job.policy.caps = {}
  BY DEF TypeInv, Asked
<1>2. job.cfg \in Config /\ seen \in Probed /\ job.policy \in Requirements
  BY DEF TypeInv, TypeOK, Job
<1>3. /\ result'.candidates = cands /\ result'.chosen = Select(cands, Anything)
      /\ result'.chosen # 0
      /\ ~PolicyBlocks(cands[Select(cands, Anything)], job.policy)
      /\ result'.handoff = HandoffSource(cands, Select(cands, Anything))
  BY <1>1, DecideType
<1>4. cands \in Seq(Candidate)
  BY <1>2, EvaluatedType
<1>5. HandoffSource(cands, Select(cands, Anything)) = Select(cands, Anything)
  BY <1>2, <1>3, HandoffFound
<1> HIDE DEF cands
<1>6. Select(cands, Anything) = Select(cands, job.policy)
  BY <1>1, <1>2, <1>3, <1>4, PolicySelection
<1> QED BY <1>3, <1>5, <1>6

\* With an unchanged world, what was found is what is.
LEMMA StableFound ==
    ASSUME TypeInv, ProbeInv, pc = "select", drifts = 0, NEW k \in DOMAIN Order, NEW m \in Name
    PROVE  Found(k, m) <=> Serves(world, Order[k], m)
<1>1. history = {world}
  BY DEF ProbeInv, Remembered
<1> QED BY <1>1, FoundServes

LEMMA StableStep ==
    ASSUME TypeInv, ProbeInv, SelectRoute
    PROVE  StableDecisionIsBest'
<1> SUFFICES ASSUME drifts = 0
             PROVE  StableDecisionIsBest'
  BY Selection DEF StableDecisionIsBest
<1> DEFINE cands == result'.candidates
           C == Candidates(job.cfg)
           n == result'.chosen
           caps == job.required.caps
<1>1. pc = "select" /\ world' = world /\ job' = job /\ DOMAIN Order \subseteq Nat
  BY Selection, OrderAssumption DEF SelectRoute
<1>2. ~\E b \in Backend : world'[b].health = "refusing"
  BY <1>1, OrderAssumption DEF ProbeInv, Admitted
<1>3. ASSUME NEW i \in DOMAIN C, NEW k \in DOMAIN Order
      PROVE  Runs(world, i, k) <=> k \in Serving(C[i], seen) /\ caps \subseteq cands[i].supports
  <2>1. cands[i].supports = C[i].supports /\ C[i].model \in Name
    BY Selection
  <2>2. Found(k, C[i].model) <=> Serves(world, Order[k], C[i].model)
    BY <1>1, <2>1, StableFound
  <2>3. Runs(world, i, k) <=> /\ k \in Places(C[i]) /\ Serves(world, Order[k], C[i].model)
                               /\ caps \subseteq C[i].supports
    BY <1>1 DEF Runs, Serves
  <2> QED BY <2>1, <2>2, <2>3 DEF Serving, Found
<1>4. ASSUME NEW i \in DOMAIN C, NEW k \in DOMAIN Order, Runs(world, i, k)
      PROVE  Qualifies(cands[i], job.required)
  <2>1. cands[i].available
    BY <1>3, <1>4, Selection
  <2> QED BY <1>3, <1>4, <2>1, Selection
<1>5. n = 0 => \A i \in DOMAIN C, k \in DOMAIN Order : ~Runs(world, i, k)
  BY <1>4, Selection
<1>6. ASSUME n # 0
      PROVE  \E k \in DOMAIN Order :
                /\ cands[n].backend = Order[k] /\ Runs(world, n, k)
                /\ \A i \in DOMAIN C, j \in DOMAIN Order :
                     Runs(world, i, j) => n < i \/ (n = i /\ k <= j)
  <2>1. n \in DOMAIN C /\ Qualifies(cands[n], job.required)
    BY <1>6, Selection
  <2>2. cands[n].available /\ caps \subseteq cands[n].supports
    BY <2>1, Selection
  <2>3. PICK k \in Serving(C[n], seen) :
            /\ \A j \in Serving(C[n], seen) : k <= j
            /\ k \in DOMAIN Order /\ cands[n].backend = Order[k]
    BY <2>1, <2>2, Selection
  <2>4. Runs(world, n, k)
    BY <1>3, <2>1, <2>2, <2>3
  <2>5. ASSUME NEW i \in DOMAIN C, NEW j \in DOMAIN Order, Runs(world, i, j)
        PROVE  n < i \/ (n = i /\ k <= j)
    <3>1. n <= i /\ n \in Nat /\ i \in Nat
      <4>1. Qualifies(cands[i], job.required)
        BY <1>4, <2>5
      <4> QED BY <1>6, <2>1, <4>1, Selection
    <3>2. n = i => k <= j
      BY <1>3, <2>3, <2>5
    <3> QED BY <3>1, <3>2
  <2> QED BY <2>3, <2>4, <2>5
<1>7. result'.code # "E_BACKEND_AUTH_FAILED"
  BY DecideType
<1>8. Chosen' = cands[n]
  BY DEF Chosen
<1>9. ASSUME NEW i \in DOMAIN C, NEW k \in DOMAIN Order
      PROVE  Runs(world, i, k)' <=> Runs(world, i, k)
  BY <1>1 DEF Runs, Serves
<1>10. n = 0 =>
         \A i \in DOMAIN C, k \in DOMAIN Order : ~Runs(world, i, k)'
  BY <1>5, <1>9
<1>11. ASSUME n # 0
       PROVE  \E k \in DOMAIN Order :
                /\ Chosen'.backend = Order[k] /\ Runs(world, result.chosen, k)'
                /\ \A i \in DOMAIN C, j \in DOMAIN Order :
                     Runs(world, i, j)' => n < i \/ (n = i /\ k <= j)
  <2>1. PICK k \in DOMAIN Order :
                /\ cands[n].backend = Order[k] /\ Runs(world, n, k)
                /\ \A i \in DOMAIN C, j \in DOMAIN Order :
                     Runs(world, i, j) => n < i \/ (n = i /\ k <= j)
    BY <1>6, <1>11
  <2>2. Runs(world, result.chosen, k)'
    BY <1>1, <2>1 DEF Runs, Serves
  <2> QED BY <1>8, <1>9, <2>1, <2>2
<1> QED BY <1>1, <1>2, <1>7, <1>10, <1>11 DEF StableDecisionIsBest

-----------------------------------------------------------------------------
(* The theorems *)

Decisions ==
    /\ DecisionWitnessed /\ RefusalWitnessed
    /\ HandoffIsSelected /\ RunnableIsPolicySelection
    /\ StableDecisionIsBest

RouteInv == TypeInv /\ ProbeInv /\ Decisions

LEMMA RouteInit == Init => RouteInv
<1> SUFFICES ASSUME Init PROVE Decisions
  BY TypeInit, ProbeInit DEF RouteInv
<1>1. pc # "done"
  BY DEF Init
<1> QED BY <1>1 DEF Decisions, DecisionWitnessed, Decided, RefusalWitnessed,
                    HandoffIsSelected, RunnableIsPolicySelection, StableDecisionIsBest

LEMMA RouteStep == RouteInv /\ [Next]_vars => RouteInv'
<1> SUFFICES ASSUME TypeInv, ProbeInv, Decisions, [Next]_vars PROVE Decisions'
  BY TypeStep, ProbeStep DEF RouteInv
<1>1. CASE pc' # "done"
  BY <1>1 DEF Decisions, DecisionWitnessed, Decided, RefusalWitnessed,
              HandoffIsSelected, RunnableIsPolicySelection, StableDecisionIsBest
<1>2. CASE UNCHANGED vars
  <2>1. UNCHANGED << world, history, drifts, pc, job, result >>
    BY <1>2 DEF vars
  <2>2. DecisionWitnessed' /\ RefusalWitnessed'
    BY <2>1 DEF Decisions, DecisionWitnessed, Decided, Chosen, RefusalWitnessed, PassedOver, Serves
  <2>3. HandoffIsSelected' /\ RunnableIsPolicySelection'
    BY <2>1 DEF Decisions, HandoffIsSelected, RunnableIsPolicySelection
  <2>4. StableDecisionIsBest'
    BY <2>1 DEF Decisions, StableDecisionIsBest, Chosen, Runs, Serves
  <2> QED BY <2>2, <2>3, <2>4 DEF Decisions
<1>3. CASE SelectRoute
  BY <1>3, DecisionStep, RefusalStep, HandoffStep, StableStep DEF Decisions
<1>4. ASSUME result'.candidates = << >>, result'.chosen = 0,
             \/ result'.code \in ConfigErrors
             \/ /\ result'.code = "E_BACKEND_AUTH_FAILED"
                /\ \E b \in Backend : world'[b].health = "refusing"
      PROVE  Decisions'
  <2>1. DecisionWitnessed' /\ RefusalWitnessed'
    BY <1>4 DEF DecisionWitnessed, Decided, RefusalWitnessed
  <2>2. HandoffIsSelected' /\ RunnableIsPolicySelection'
    BY <1>4 DEF HandoffIsSelected, RunnableIsPolicySelection, ConfigErrors
  <2>3. StableDecisionIsBest'
    BY <1>4 DEF StableDecisionIsBest, ConfigErrors
  <2> QED BY <2>1, <2>2, <2>3 DEF Decisions
<1> QED BY <1>1, <1>2, <1>3, <1>4, Endings

LEMMA RouteInvariant == Spec => []RouteInv
BY RouteInit, RouteStep, PTL DEF Spec

\* Whatever is selected was served while the command ran, and was loaded if it
\* is reported ready (probeRouteBackends, however the backends change).
THEOREM DecisionSound == Spec => []DecisionWitnessed
<1>1. RouteInv => DecisionWitnessed
  BY DEF RouteInv, Decisions
<1> QED BY <1>1, RouteInvariant, PTL

\* Whatever is passed over lacked evidence, or was not served at some moment of
\* the command by each backend it could have run on (SelectRouteCandidate).
THEOREM RefusalSound == Spec => []RefusalWitnessed
<1>1. RouteInv => RefusalWitnessed
  BY DEF RouteInv, Decisions
<1> QED BY <1>1, RouteInvariant, PTL

\* The handoff is that of the candidate selected (executionHandoff).
THEOREM HandoffSound == Spec => []HandoffIsSelected
<1>1. RouteInv => HandoffIsSelected
  BY DEF RouteInv, Decisions
<1> QED BY <1>1, RouteInvariant, PTL

\* Applying preflight's policy after the selection never reports runnable what
\* a selection under that policy would not have chosen (buildPreflightReport).
THEOREM PolicyAgrees == Spec => []RunnableIsPolicySelection
<1>1. RouteInv => RunnableIsPolicySelection
  BY DEF RouteInv, Decisions
<1> QED BY <1>1, RouteInvariant, PTL

\* In a world that stands still the decision is the preferred one
\* (buildRouteReportWithRequirements, firstFatalBackendReadError).
THEOREM StableBest == Spec => []StableDecisionIsBest
<1>1. RouteInv => StableDecisionIsBest
  BY DEF RouteInv, Decisions
<1> QED BY <1>1, RouteInvariant, PTL
=============================================================================
