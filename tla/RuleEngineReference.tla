------------------------- MODULE RuleEngineReference -------------------------
(***************************************************************************)
(* The rule engine against the cache-free reference PegSemantics.           *)
(*   1. The reference itself: depth only decides whether a result is known, *)
(*      and a match that consumes nothing is one Nullable foretells, so     *)
(*      that without nullable groups giving up at the end of the input is   *)
(*      not observable.                                                     *)
(*   2. The engine: every result the cache still has is what the rule means *)
(*      at the token (Meant), and every frame stands where the meanings of  *)
(*      its parts lead (Stands).  A result is decided when its rule         *)
(*      returns, by the answers the frame had from its subrules.            *)
(*   3. The tree: a production relabels a node that nobody else has         *)
(*      (Labelled), if the grammar reaches it through that production alone *)
(*      (UnsharedBodies), so the children keep the ids they were made with. *)
(***************************************************************************)
EXTENDS RuleEngineProofs, RuleEngineCorrect

-----------------------------------------------------------------------------
(* The reference *)

Table(g, in) ==
    /\ Len(g) \in Nat \ {0} /\ DOMAIN g = 1 .. Len(g)
    /\ \A r \in DOMAIN g : RuleAssumption(g, r)
    /\ Len(in) \in Nat

\* The rule gives up on the empty token.
GivesUp(reading, in, k, t) == reading = "code" /\ t = Len(in) + 1 /\ k = 0

Enough(rule, k, t) == IF k < rule.min THEN NoMatch ELSE t

\* Outcome, one clause for each type of rule.
LEMMA OutcomeIs ==
    ASSUME NEW reading, NEW g, NEW in, NEW m, NEW d \in Nat, NEW r \in DOMAIN g, NEW k, NEW t
    PROVE  LET rule == g[r]
               v == Outcome(reading, g, in, m, d, r, k, t)
               gaveUp == GivesUp(reading, in, k, t)
               Sub(q, u) == m[At(d, q, 0, u)]
               Rest(n, u) == m[At(d, r, n, u)]
           IN
           /\ rule.type = "literal" =>
                 v = IF t # Len(in) + 1 /\ in[t] \in rule.match THEN t + 1 ELSE NoMatch
           /\ rule.type = "sequence" =>
                 v = IF gaveUp THEN NoMatch ELSE IF k >= Len(rule.deps) THEN t
                     ELSE Then(Sub(rule.deps[k + 1], t), NoMatch, Rest(k + 1, Sub(rule.deps[k + 1], t)))
           /\ rule.type = "choice" =>
                 v = IF gaveUp \/ k >= Len(rule.deps) THEN NoMatch
                     ELSE Then(Sub(rule.deps[k + 1], t), Rest(k + 1, t), Sub(rule.deps[k + 1], t))
           /\ rule.type = "repeat" =>
                 v = IF gaveUp \/ (rule.max # 0 /\ k = rule.max) THEN Enough(rule, k, t)
                     ELSE Then(Sub(rule.rule, t), Enough(rule, k, t), Rest(k + 1, Sub(rule.rule, t)))
           /\ rule.type = "list" =>
                 v = IF gaveUp THEN NoMatch
                     ELSE IF k = 0
                          THEN Then(Sub(rule.rule, t), NoMatch, Rest(1, Sub(rule.rule, t)))
                          ELSE Then(Sub(rule.delim, t), t,
                                    Then(Sub(rule.rule, Sub(rule.delim, t)), t,
                                         Rest(1, Sub(rule.rule, Sub(rule.delim, t)))))
           /\ rule.type = "neg" => v = IF gaveUp THEN t ELSE Then(Sub(rule.rule, t), t, NoMatch)
           /\ rule.type = "pos" => v = Then(Sub(rule.rule, t), NoMatch, t)
           /\ rule.type = "production" =>
                 v = Then(Sub(rule.rule, t), NoMatch,
                          IF rule.action = "reject" THEN NoMatch ELSE Sub(rule.rule, t))
<1>2. CASE g[r].type = "literal"
  BY <1>2, Zenon DEF Outcome
<1>3. CASE g[r].type = "sequence"
  BY <1>3, Zenon DEF Outcome, GivesUp
<1>4. CASE g[r].type = "choice"
  BY <1>4, Zenon DEF Outcome, GivesUp
<1>5. CASE g[r].type = "repeat"
  BY <1>5, Zenon DEF Outcome, GivesUp, Enough
<1>6. CASE g[r].type = "list"
  BY <1>6, Zenon DEF Outcome, GivesUp
<1>7. CASE g[r].type = "neg"
  BY <1>7, Zenon DEF Outcome, GivesUp
<1>8. CASE g[r].type = "pos"
  BY <1>8, Zenon DEF Outcome
<1>9. CASE g[r].type = "production"
  BY <1>9, Zenon DEF Outcome
<1> QED BY <1>2, <1>3, <1>4, <1>5, <1>6, <1>7, <1>8, <1>9

\* The tokens a rule can be tried at, and what can come of it.
Places(in) == 1 .. Len(in) + 1
Results(in) == Unknown .. Len(in) + 1

\* At depth e, m2 knows what m1 knows at depth d.
Knows(g, in, m1, d, m2, e) ==
    \A r \in DOMAIN g, k \in Nat, t \in Places(in) :
        /\ m1[At(d, r, k, t)] \in Results(in)
        /\ m1[At(d, r, k, t)] # Unknown => m2[At(e, r, k, t)] = m1[At(d, r, k, t)]

\* What follows from known results is known.
LEMMA OutcomeExtends ==
    ASSUME NEW g, NEW in, Table(g, in), NEW m1, NEW d \in Nat, NEW m2, NEW e \in Nat,
           Knows(g, in, m1, d, m2, e), NEW r \in DOMAIN g, NEW k \in Nat, NEW t \in Places(in),
           NEW r1, NEW r2, GivesUp(r1, in, k, t) <=> GivesUp(r2, in, k, t)
    PROVE  LET v == Outcome(r1, g, in, m1, d, r, k, t) IN
           /\ v \in Results(in)
           /\ v # Unknown => Outcome(r2, g, in, m2, e, r, k, t) = v
<1> DEFINE rule == g[r]
           N == Len(in) + 1
<1>1. /\ RuleAssumption(g, r) /\ N \in Nat /\ t \in 1 .. N /\ t \in Results(in)
      /\ NoMatch \in Results(in) /\ Unknown \in Results(in) /\ Enough(rule, k, t) \in Results(in)
  BY DEF Table, Places, Results, NoMatch, Unknown, Enough
<1>2. ASSUME NEW q \in DOMAIN g, NEW n \in Nat, NEW u \in Places(in)
      PROVE  /\ m1[At(d, q, n, u)] \in Results(in)
             /\ m1[At(d, q, n, u)] # Unknown => m2[At(e, q, n, u)] = m1[At(d, q, n, u)]
             /\ m1[At(d, q, n, u)] \notin {Unknown, NoMatch} => m1[At(d, q, n, u)] \in Places(in)
  <2>1. /\ m1[At(d, q, n, u)] \in Results(in)
        /\ m1[At(d, q, n, u)] # Unknown => m2[At(e, q, n, u)] = m1[At(d, q, n, u)]
    BY DEF Knows
  <2> QED BY <1>1, <2>1 DEF Results, Places, NoMatch, Unknown
<1>3. k + 1 \in Nat /\ 0 \in Nat /\ 1 \in Nat
  OBVIOUS
<1> HIDE DEF N
<1>4. CASE rule.type = "literal"
  <2>1. Outcome(r1, g, in, m1, d, r, k, t) = Outcome(r2, g, in, m2, e, r, k, t)
    BY <1>4, OutcomeIs
  <2>2. t # Len(in) + 1 => t + 1 \in Results(in)
    BY <1>1 DEF Results, N, Unknown
  <2> QED BY <1>1, <1>4, <2>1, <2>2, OutcomeIs
<1>5. CASE rule.type = "sequence"
  <2> DEFINE q == rule.deps[k + 1]
             u1 == m1[At(d, q, 0, t)]
             u2 == m2[At(e, q, 0, t)]
             x1 == m1[At(d, r, k + 1, u1)]
             x2 == m2[At(e, r, k + 1, u2)]
  <2>1. Outcome(r1, g, in, m1, d, r, k, t) =
          IF GivesUp(r1, in, k, t) THEN NoMatch ELSE IF k >= Len(rule.deps) THEN t ELSE Then(u1, NoMatch, x1)
    BY <1>5, OutcomeIs
  <2>2. Outcome(r2, g, in, m2, e, r, k, t) =
          IF GivesUp(r2, in, k, t) THEN NoMatch ELSE IF k >= Len(rule.deps) THEN t ELSE Then(u2, NoMatch, x2)
    BY <1>5, OutcomeIs
  <2>3. GivesUp(r1, in, k, t) \/ k >= Len(rule.deps) \/ q \in DOMAIN g
    BY <1>1, <1>5 DEF RuleAssumption
  <2>4. ASSUME q \in DOMAIN g
        PROVE  Then(u1, NoMatch, x1) \in Results(in)
               /\ (Then(u1, NoMatch, x1) # Unknown => Then(u2, NoMatch, x2) = Then(u1, NoMatch, x1))
    <3>1. /\ u1 \in Results(in) /\ (u1 # Unknown => u2 = u1)
          /\ u1 \notin {Unknown, NoMatch} => u1 \in Places(in)
      BY <1>2, <1>3, <2>4
    <3>2. u1 \in Places(in) => x1 \in Results(in) /\ (x1 # Unknown => m2[At(e, r, k + 1, u1)] = x1)
      BY <1>2, <1>3
    <3> HIDE DEF u1, u2, q
    <3> QED BY <1>1, <3>1, <3>2 DEF Then
  <2> HIDE DEF u1, u2, x1, x2, q
  <2> QED BY <1>1, <2>1, <2>2, <2>3, <2>4
<1>6. CASE rule.type = "choice"
  <2> DEFINE q == rule.deps[k + 1]
             u1 == m1[At(d, q, 0, t)]
             u2 == m2[At(e, q, 0, t)]
             x1 == m1[At(d, r, k + 1, t)]
             x2 == m2[At(e, r, k + 1, t)]
  <2>1. Outcome(r1, g, in, m1, d, r, k, t) =
          IF GivesUp(r1, in, k, t) \/ k >= Len(rule.deps) THEN NoMatch ELSE Then(u1, x1, u1)
    BY <1>6, OutcomeIs
  <2>2. Outcome(r2, g, in, m2, e, r, k, t) =
          IF GivesUp(r2, in, k, t) \/ k >= Len(rule.deps) THEN NoMatch ELSE Then(u2, x2, u2)
    BY <1>6, OutcomeIs
  <2>3. k >= Len(rule.deps) \/ q \in DOMAIN g
    BY <1>1, <1>6 DEF RuleAssumption
  <2>4. ASSUME q \in DOMAIN g
        PROVE  /\ u1 \in Results(in) /\ (u1 # Unknown => u2 = u1)
               /\ x1 \in Results(in) /\ (x1 # Unknown => x2 = x1)
    BY <1>2, <1>3, <2>4
  <2> HIDE DEF u1, u2, x1, x2, q
  <2> QED BY <1>1, <2>1, <2>2, <2>3, <2>4 DEF Then
<1>7. CASE rule.type = "repeat"
  <2> DEFINE q == rule.rule
             u1 == m1[At(d, q, 0, t)]
             u2 == m2[At(e, q, 0, t)]
             x1 == m1[At(d, r, k + 1, u1)]
             x2 == m2[At(e, r, k + 1, u2)]
             enough == Enough(rule, k, t)
  <2>1. Outcome(r1, g, in, m1, d, r, k, t) =
          IF GivesUp(r1, in, k, t) \/ (rule.max # 0 /\ k = rule.max) THEN enough ELSE Then(u1, enough, x1)
    BY <1>7, OutcomeIs
  <2>2. Outcome(r2, g, in, m2, e, r, k, t) =
          IF GivesUp(r2, in, k, t) \/ (rule.max # 0 /\ k = rule.max) THEN enough ELSE Then(u2, enough, x2)
    BY <1>7, OutcomeIs
  <2>3. q \in DOMAIN g
    BY <1>1, <1>7 DEF RuleAssumption
  <2>4. /\ u1 \in Results(in) /\ (u1 # Unknown => u2 = u1)
        /\ u1 \notin {Unknown, NoMatch} => u1 \in Places(in)
    BY <1>2, <1>3, <2>3
  <2>5. u1 \in Places(in) => x1 \in Results(in) /\ (x1 # Unknown => m2[At(e, r, k + 1, u1)] = x1)
    BY <1>2, <1>3
  <2> HIDE DEF u1, u2, q, enough
  <2>6. Then(u1, enough, x1) \in Results(in)
        /\ (Then(u1, enough, x1) # Unknown => Then(u2, enough, x2) = Then(u1, enough, x1))
    BY <1>1, <2>4, <2>5 DEF Then, enough
  <2> HIDE DEF x1, x2
  <2> QED BY <1>1, <2>1, <2>2, <2>6 DEF enough
<1>8. CASE rule.type = "list"
  <2> DEFINE Elem1(v) == m1[At(d, rule.rule, 0, v)]
             Elem2(v) == m2[At(e, rule.rule, 0, v)]
             s1 == m1[At(d, rule.delim, 0, t)]
             s2 == m2[At(e, rule.delim, 0, t)]
             More1(v) == m1[At(d, r, 1, v)]
             More2(v) == m2[At(e, r, 1, v)]
  <2>1. Outcome(r1, g, in, m1, d, r, k, t) =
          IF GivesUp(r1, in, k, t) THEN NoMatch
          ELSE IF k = 0 THEN Then(Elem1(t), NoMatch, More1(Elem1(t)))
          ELSE Then(s1, t, Then(Elem1(s1), t, More1(Elem1(s1))))
    BY <1>8, OutcomeIs
  <2>2. Outcome(r2, g, in, m2, e, r, k, t) =
          IF GivesUp(r2, in, k, t) THEN NoMatch
          ELSE IF k = 0 THEN Then(Elem2(t), NoMatch, More2(Elem2(t)))
          ELSE Then(s2, t, Then(Elem2(s2), t, More2(Elem2(s2))))
    BY <1>8, OutcomeIs
  <2>3. rule.rule \in DOMAIN g /\ rule.delim \in DOMAIN g
    BY <1>1, <1>8 DEF RuleAssumption
  <2>4. \A v \in Places(in) : /\ Elem1(v) \in Results(in) /\ (Elem1(v) # Unknown => Elem2(v) = Elem1(v))
                              /\ Elem1(v) \notin {Unknown, NoMatch} => Elem1(v) \in Places(in)
                              /\ More1(v) \in Results(in) /\ (More1(v) # Unknown => More2(v) = More1(v))
    BY <1>2, <1>3, <2>3
  <2>5. /\ s1 \in Results(in) /\ (s1 # Unknown => s2 = s1)
        /\ s1 \notin {Unknown, NoMatch} => s1 \in Places(in)
    BY <1>2, <1>3, <2>3
  <2> HIDE DEF Elem1, Elem2, More1, More2, s1, s2
  <2>6. ASSUME NEW v \in Places(in), NEW f \in Results(in)
        PROVE  /\ Then(Elem1(v), f, More1(Elem1(v))) \in Results(in)
               /\ Then(Elem1(v), f, More1(Elem1(v))) # Unknown =>
                     Then(Elem2(v), f, More2(Elem2(v))) = Then(Elem1(v), f, More1(Elem1(v)))
    BY <1>1, <2>4 DEF Then
  <2>7. CASE k = 0
    BY <1>1, <2>1, <2>2, <2>6, <2>7
  <2>8. CASE k # 0
    <3> DEFINE y1 == Then(Elem1(s1), t, More1(Elem1(s1)))
               y2 == Then(Elem2(s2), t, More2(Elem2(s2)))
    <3>1. s1 \in Places(in) => y1 \in Results(in) /\ (y1 # Unknown => Then(Elem2(s1), t, More2(Elem2(s1))) = y1)
      BY <1>1, <2>6
    <3>2. s1 \in Places(in) => y1 \in Results(in) /\ (y1 # Unknown => y2 = y1)
      BY <1>1, <2>5, <3>1 DEF Places, Unknown
    <3> HIDE DEF y1, y2
    <3>3. Then(s1, t, y1) \in Results(in) /\ (Then(s1, t, y1) # Unknown => Then(s2, t, y2) = Then(s1, t, y1))
      BY <1>1, <2>5, <3>2 DEF Then
    <3>4. ~GivesUp(r1, in, k, t) /\ ~GivesUp(r2, in, k, t)
      BY <2>8 DEF GivesUp
    <3> QED BY <2>1, <2>2, <2>8, <3>3, <3>4 DEF y1, y2
  <2> QED BY <2>7, <2>8
<1>9. CASE rule.type \in {"neg", "pos", "production"}
  <2> DEFINE u1 == m1[At(d, rule.rule, 0, t)]
             u2 == m2[At(e, rule.rule, 0, t)]
  <2>1. rule.rule \in DOMAIN g
    BY <1>1, <1>9 DEF RuleAssumption
  <2>2. u1 \in Results(in) /\ (u1 # Unknown => u2 = u1)
    BY <1>2, <1>3, <2>1
  <2> HIDE DEF u1, u2
  <2>3. \A fails \in Results(in), goes \in Results(in) :
           /\ Then(u1, fails, goes) \in Results(in)
           /\ Then(u1, fails, goes) # Unknown => Then(u2, fails, goes) = Then(u1, fails, goes)
    BY <1>1, <2>2 DEF Then
  <2>4. CASE rule.type = "neg"
    <3>1. /\ Outcome(r1, g, in, m1, d, r, k, t) = IF GivesUp(r1, in, k, t) THEN t ELSE Then(u1, t, NoMatch)
          /\ Outcome(r2, g, in, m2, e, r, k, t) = IF GivesUp(r2, in, k, t) THEN t ELSE Then(u2, t, NoMatch)
      BY <2>4, OutcomeIs DEF u1, u2
    <3> QED BY <1>1, <2>3, <3>1
  <2>5. CASE rule.type = "pos"
    <3>1. /\ Outcome(r1, g, in, m1, d, r, k, t) = Then(u1, NoMatch, t)
          /\ Outcome(r2, g, in, m2, e, r, k, t) = Then(u2, NoMatch, t)
      BY <2>5, OutcomeIs DEF u1, u2
    <3> QED BY <1>1, <2>3, <3>1
  <2>6. CASE rule.type = "production"
    <3>1. /\ Outcome(r1, g, in, m1, d, r, k, t) =
                Then(u1, NoMatch, IF rule.action = "reject" THEN NoMatch ELSE u1)
          /\ Outcome(r2, g, in, m2, e, r, k, t) =
                Then(u2, NoMatch, IF rule.action = "reject" THEN NoMatch ELSE u2)
      BY <2>6, OutcomeIs DEF u1, u2
    <3> QED BY <1>1, <2>2, <3>1 DEF Then
  <2> QED BY <1>9, <2>4, <2>5, <2>6
<1> QED BY <1>1, <1>4, <1>5, <1>6, <1>7, <1>8, <1>9 DEF RuleAssumption

\* m1 and m2 are the same at depth d.
Agree(g, in, m1, m2, d) ==
    \A r \in DOMAIN g, k \in Nat, t \in Places(in) :
        m1[At(d, r, k, t)] \in Results(in) /\ m2[At(d, r, k, t)] = m1[At(d, r, k, t)]

\* The outcome at a depth depends on the results of the depth below only.
LEMMA OutcomeLocal ==
    ASSUME NEW g, NEW in, Table(g, in), NEW m1, NEW m2, NEW d \in Nat,
           Agree(g, in, m1, m2, d),
           NEW r \in DOMAIN g, NEW k \in Nat, NEW t \in Places(in), NEW reading
    PROVE  /\ Outcome(reading, g, in, m1, d, r, k, t) = Outcome(reading, g, in, m2, d, r, k, t)
           /\ Outcome(reading, g, in, m1, d, r, k, t) \in Results(in)
<1>1. Knows(g, in, m1, d, m2, d) /\ Knows(g, in, m2, d, m1, d)
  BY DEF Knows, Agree
<1> QED BY <1>1, OutcomeExtends

\* Semantics is the recursive function it is written as.
LEMMA SemanticsIs ==
    ASSUME NEW reading, NEW g, NEW in, Table(g, in), NEW r \in DOMAIN g, NEW k \in Nat, NEW t \in Places(in)
    PROVE  LET m == Semantics(reading, g, in) IN
           /\ m[At(0, r, k, t)] = Unknown
           /\ \A d \in Nat : /\ m[At(d + 1, r, k, t)] = Outcome(reading, g, in, m, d, r, k, t)
                             /\ m[At(d, r, k, t)] \in Results(in)
<1> DEFINE All == States(g, in)
           Body(m, s) == IF s.depth = 0 THEN Unknown
                         ELSE Outcome(reading, g, in, m, s.depth - 1, s.rule, s.done, s.tok)
           Upto(h, d) == \A s \in All : s.depth <= d => h[s] = Body(h, s) /\ h[s] \in Results(in)
<1>1. \A d \in Nat, q \in DOMAIN g, n \in Nat, u \in Places(in) :
         /\ At(d, q, n, u) \in All
         /\ At(d, q, n, u).depth = d /\ At(d, q, n, u).rule = q
         /\ At(d, q, n, u).done = n /\ At(d, q, n, u).tok = u
  BY DEF At, States, Places
<1>2. \A s \in All : /\ s.depth \in Nat /\ s.rule \in DOMAIN g /\ s.done \in Nat /\ s.tok \in Places(in)
                     /\ s = At(s.depth, s.rule, s.done, s.tok)
  BY DEF At, States, Places
<1>3. Unknown \in Results(in)
  BY DEF Unknown, Results, Table
<1> HIDE DEF All
<1>4. ASSUME NEW h1, NEW h2, NEW s \in All, s.depth # 0,
             \A x \in All : x.depth = s.depth - 1 => h1[x] \in Results(in) /\ h2[x] = h1[x]
      PROVE  Body(h1, s) = Body(h2, s) /\ Body(h1, s) \in Results(in)
  <2>1. s.depth - 1 \in Nat
    BY <1>2, <1>4
  <2>2. \A q \in DOMAIN g, n \in Nat, u \in Places(in) :
           h1[At(s.depth - 1, q, n, u)] \in Results(in)
           /\ h2[At(s.depth - 1, q, n, u)] = h1[At(s.depth - 1, q, n, u)]
    BY <1>1, <1>4, <2>1
  <2>3. s.rule \in DOMAIN g /\ s.done \in Nat /\ s.tok \in Places(in)
    BY <1>2
  <2>4. PICK d \in Nat : d = s.depth - 1
    BY <2>1
  <2>5. Agree(g, in, h1, h2, d)
    BY <2>2, <2>4 DEF Agree
  <2>6. /\ Outcome(reading, g, in, h1, d, s.rule, s.done, s.tok)
             = Outcome(reading, g, in, h2, d, s.rule, s.done, s.tok)
        /\ Outcome(reading, g, in, h1, d, s.rule, s.done, s.tok) \in Results(in)
    BY <2>3, <2>5, OutcomeLocal
  <2>7. s.depth # 0
    BY <1>4
  <2>8. Body(h1, s) = Outcome(reading, g, in, h1, d, s.rule, s.done, s.tok)
    BY <2>4, <2>7, Zenon
  <2>9. Body(h2, s) = Outcome(reading, g, in, h2, d, s.rule, s.done, s.tok)
    BY <2>4, <2>7, Zenon
  <2> HIDE DEF Body
  <2> QED BY <2>6, <2>8, <2>9
<1> DEFINE S == {d \in Nat : \E h : Upto(h, d)}
<1>5. 0 \in S
  <2> DEFINE h == [s \in All |-> Unknown]
  <2>1. Upto(h, 0)
    BY <1>2, <1>3
  <2> QED BY <2>1
<1>6. ASSUME NEW d \in Nat, d \in S PROVE d + 1 \in S
  <2>1. PICK h : Upto(h, d)
    BY <1>6
  <2> DEFINE h1 == [s \in All |-> IF s.depth <= d THEN h[s] ELSE Body(h, s)]
  <2>2. ASSUME NEW s \in All, s.depth <= d + 1 PROVE h1[s] = Body(h, s) /\ h1[s] \in Results(in)
    <3>1. CASE s.depth <= d
      <4> HIDE DEF Body
      <4> QED BY <2>1, <3>1
    <3>2. CASE s.depth = d + 1
      <4>1. s.depth # 0 /\ s.depth - 1 = d /\ h1[s] = Body(h, s)
        BY <1>2, <3>2
      <4>2. \A x \in All : x.depth = s.depth - 1 => h[x] \in Results(in)
        BY <1>2, <2>1, <4>1
      <4> HIDE DEF Body, h1
      <4> QED BY <1>4, <4>1, <4>2
    <3> QED BY <1>2, <2>2, <3>1, <3>2
  <2>3. ASSUME NEW s \in All, s.depth <= d + 1 PROVE Body(h1, s) = Body(h, s)
    <3>1. CASE s.depth = 0
      BY <3>1
    <3>2. CASE s.depth # 0
      <4>1. \A x \in All : x.depth = s.depth - 1 => x.depth <= d /\ h1[x] = h[x] /\ h[x] \in Results(in)
        <5>1. \A x \in All : x.depth = s.depth - 1 => x.depth <= d
          BY <1>2, <2>3
        <5> QED BY <2>1, <5>1
      <4> HIDE DEF Body, h1
      <4> QED BY <1>4, <3>2, <4>1
    <3> QED BY <3>1, <3>2
  <2> HIDE DEF h1, Body
  <2>4. Upto(h1, d + 1)
    BY <2>2, <2>3
  <2> QED BY <2>4
<1>7. \A d \in Nat : \E h : Upto(h, d)
  <2>1. \A d \in Nat : d \in S
    <3> HIDE DEF S
    <3> QED BY <1>5, <1>6, InductionOnSet
  <2> QED BY <2>1
<1> HIDE DEF S
<1> DEFINE H(d) == CHOOSE h : Upto(h, d)
<1>8. \A d \in Nat : Upto(H(d), d)
  <2> HIDE DEF Upto
  <2> QED BY <1>7
<1> HIDE DEF H
<1>9. \A e \in Nat : \A d \in Nat : \A s \in All : s.depth = e /\ e <= d => H(d)[s] = H(e)[s]
  <2> DEFINE T == {e \in Nat : \A d \in Nat : \A s \in All : s.depth = e /\ e <= d => H(d)[s] = H(e)[s]}
  <2>1. 0 \in T
    <3> SUFFICES ASSUME NEW d \in Nat, NEW s \in All, s.depth = 0 PROVE H(d)[s] = H(0)[s]
      BY <1>3
    <3>1. s.depth <= d /\ s.depth <= 0
      OBVIOUS
    <3>2. H(d)[s] = Body(H(d), s) /\ H(0)[s] = Body(H(0), s)
      BY <1>8, <3>1
    <3> QED BY <3>2
  <2>2. ASSUME NEW e \in Nat, e \in T PROVE e + 1 \in T
    <3> SUFFICES ASSUME NEW d \in Nat, NEW s \in All, s.depth = e + 1, e + 1 <= d
                 PROVE H(d)[s] = H(e + 1)[s]
      OBVIOUS
    <3>1. s.depth <= d /\ s.depth <= e + 1 /\ e + 1 \in Nat /\ s.depth # 0 /\ s.depth - 1 = e
      OBVIOUS
    <3>2. H(d)[s] = Body(H(d), s) /\ H(e + 1)[s] = Body(H(e + 1), s)
      BY <1>8, <3>1
    <3>3. \A x \in All : x.depth = e => /\ H(d)[x] = H(e)[x] /\ H(e + 1)[x] = H(e)[x]
                                        /\ H(d)[x] \in Results(in)
      <4>1. e <= d /\ e <= e + 1
        OBVIOUS
      <4> QED BY <1>8, <2>2, <3>1, <4>1
    <3>4. \A x \in All : x.depth = s.depth - 1 => H(d)[x] \in Results(in) /\ H(e + 1)[x] = H(d)[x]
      BY <3>1, <3>3
    <3> HIDE DEF Body
    <3>5. Body(H(d), s) = Body(H(e + 1), s)
      BY <1>4, <3>1, <3>4
    <3> QED BY <3>2, <3>5
  <2> HIDE DEF T
  <2>3. \A e \in Nat : e \in T
    BY <2>1, <2>2, InductionOnSet
  <2> QED BY <2>3 DEF T
<1> DEFINE f == [s \in All |-> H(s.depth)[s]]
<1>10. ASSUME NEW s \in All PROVE f[s] = Body(f, s) /\ f[s] \in Results(in)
  <2>1. s.depth \in Nat /\ s.depth <= s.depth
    BY <1>2
  <2>2. f[s] = Body(H(s.depth), s) /\ f[s] \in Results(in)
    BY <1>8, <2>1
  <2>3. CASE s.depth = 0
    BY <2>2, <2>3
  <2>4. CASE s.depth # 0
    <3>1. \A x \in All : x.depth = s.depth - 1 => /\ H(s.depth)[x] = f[x] /\ H(s.depth)[x] \in Results(in)
      <4>1. \A x \in All : x.depth = s.depth - 1 => x.depth \in Nat /\ x.depth <= s.depth
        BY <1>2, <2>1
      <4> QED BY <1>8, <1>9, <2>1, <4>1
    <3> HIDE DEF Body, f
    <3> QED BY <1>4, <2>2, <2>4, <3>1
  <2> QED BY <2>3, <2>4
<1>11. f = [s \in All |-> Body(f, s)]
  <2> HIDE DEF Body
  <2> QED BY <1>10
<1>12. Semantics(reading, g, in) = CHOOSE m : m = [s \in All |-> Body(m, s)]
  BY DEF Semantics, All
<1> DEFINE m == Semantics(reading, g, in)
<1> HIDE DEF Body, f
<1>13. m = [s \in All |-> Body(m, s)]
  BY <1>11, <1>12
<1> HIDE DEF m
<1>14. \A s \in All : m[s] = Body(m, s)
  BY <1>13
<1>15. \A d \in Nat : \A s \in All : s.depth = d => m[s] \in Results(in)
  <2> DEFINE T == {d \in Nat : \A s \in All : s.depth = d => m[s] \in Results(in)}
  <2>1. 0 \in T
    BY <1>3, <1>14 DEF Body
  <2>2. ASSUME NEW d \in Nat, d \in T PROVE d + 1 \in T
    <3> SUFFICES ASSUME NEW s \in All, s.depth = d + 1 PROVE m[s] \in Results(in)
      OBVIOUS
    <3>1. s.depth # 0 /\ s.depth - 1 = d
      OBVIOUS
    <3>2. \A x \in All : x.depth = s.depth - 1 => m[x] \in Results(in)
      BY <2>2, <3>1
    <3> QED BY <1>4, <1>14, <3>1, <3>2
  <2> HIDE DEF T
  <2>3. \A d \in Nat : d \in T
    BY <2>1, <2>2, InductionOnSet
  <2> QED BY <2>3 DEF T
<1>16. m[At(0, r, k, t)] = Unknown
  BY <1>1, <1>14 DEF Body
<1>17. ASSUME NEW d \in Nat
       PROVE  /\ m[At(d + 1, r, k, t)] = Outcome(reading, g, in, m, d, r, k, t)
              /\ m[At(d, r, k, t)] \in Results(in)
  <2>1. d + 1 \in Nat /\ d + 1 # 0 /\ (d + 1) - 1 = d
    OBVIOUS
  <2>2. m[At(d + 1, r, k, t)] = Body(m, At(d + 1, r, k, t))
    BY <1>1, <1>14, <2>1
  <2>3. /\ At(d + 1, r, k, t).depth = d + 1 /\ At(d + 1, r, k, t).rule = r
        /\ At(d + 1, r, k, t).done = k /\ At(d + 1, r, k, t).tok = t
    BY <1>1, <2>1
  <2>4. Body(m, At(d + 1, r, k, t)) = Outcome(reading, g, in, m, d, r, k, t)
    BY <2>1, <2>3, Zenon DEF Body
  <2>5. m[At(d, r, k, t)] \in Results(in)
    <3>1. At(d, r, k, t) \in All /\ At(d, r, k, t).depth = d
      BY <1>1
    <3> QED BY <1>15, <3>1
  <2> QED BY <2>2, <2>4, <2>5
<1> QED BY <1>16, <1>17 DEF m

\* What is known at a depth stays known at greater ones.
LEMMA KnownStays ==
    ASSUME NEW reading, NEW g, NEW in, Table(g, in), NEW r \in DOMAIN g, NEW k \in Nat, NEW t \in Places(in),
           NEW d \in Nat, NEW e \in Nat, d <= e, Semantics(reading, g, in)[At(d, r, k, t)] # Unknown
    PROVE  Semantics(reading, g, in)[At(e, r, k, t)] = Semantics(reading, g, in)[At(d, r, k, t)]
<1> DEFINE m == Semantics(reading, g, in)
<1>1. \A q \in DOMAIN g, n \in Nat, u \in Places(in) :
         /\ m[At(0, q, n, u)] = Unknown
         /\ \A c \in Nat : /\ m[At(c + 1, q, n, u)] = Outcome(reading, g, in, m, c, q, n, u)
                           /\ m[At(c, q, n, u)] \in Results(in)
  BY SemanticsIs
<1> HIDE DEF m
<1>2. \A c \in Nat : Knows(g, in, m, c, m, c + 1)
  <2> DEFINE S == {c \in Nat : Knows(g, in, m, c, m, c + 1)}
  <2>1. 0 \in S
    BY <1>1 DEF Knows
  <2>2. ASSUME NEW c \in Nat, c \in S PROVE c + 1 \in S
    <3>1. Knows(g, in, m, c, m, c + 1) /\ c + 1 \in Nat
      BY <2>2
    <3>2. ASSUME NEW q \in DOMAIN g, NEW n \in Nat, NEW u \in Places(in)
          PROVE  /\ m[At(c + 1, q, n, u)] \in Results(in)
                 /\ m[At(c + 1, q, n, u)] # Unknown =>
                       m[At((c + 1) + 1, q, n, u)] = m[At(c + 1, q, n, u)]
      <4>1. LET v == Outcome(reading, g, in, m, c, q, n, u) IN
            v # Unknown => Outcome(reading, g, in, m, c + 1, q, n, u) = v
        BY <3>1, OutcomeExtends
      <4> QED BY <1>1, <3>1, <4>1
    <3>3. Knows(g, in, m, c + 1, m, (c + 1) + 1)
      BY <3>2 DEF Knows
    <3> QED BY <3>1, <3>3
  <2> HIDE DEF S
  <2>3. \A c \in Nat : c \in S
    BY <2>1, <2>2, InductionOnSet
  <2> QED BY <2>3 DEF S
<1> DEFINE T == {c \in Nat : m[At(d + c, r, k, t)] = m[At(d, r, k, t)]}
<1>3. 0 \in T
  OBVIOUS
<1>4. ASSUME NEW c \in Nat, c \in T PROVE c + 1 \in T
  <2>1. d + c \in Nat /\ (d + c) + 1 = d + (c + 1) /\ m[At(d + c, r, k, t)] = m[At(d, r, k, t)]
    BY <1>4
  <2>2. m[At(d, r, k, t)] # Unknown
    BY DEF m
  <2>3. m[At((d + c) + 1, r, k, t)] = m[At(d + c, r, k, t)]
    BY <1>2, <2>1, <2>2 DEF Knows
  <2> QED BY <2>1, <2>3
<1>5. e - d \in T
  <2> HIDE DEF T
  <2>1. e - d \in Nat
    OBVIOUS
  <2> QED BY <1>3, <1>4, <2>1, InductionOnSet
<1>6. d + (e - d) = e
  OBVIOUS
<1> QED BY <1>5, <1>6 DEF m

\* A rule means one thing at a token: depth only decides whether it is known.
THEOREM MeaningIsUnique ==
    ASSUME NEW reading, NEW g, NEW in, Table(g, in), NEW r \in DOMAIN g, NEW k \in Nat, NEW t \in Places(in),
           NEW d \in Nat, NEW e \in Nat
    PROVE  LET m == Semantics(reading, g, in) IN
           \/ m[At(d, r, k, t)] = Unknown
           \/ m[At(e, r, k, t)] = Unknown
           \/ m[At(d, r, k, t)] = m[At(e, r, k, t)]
<1>1. CASE d <= e
  BY <1>1, KnownStays
<1>2. CASE e <= d
  BY <1>2, KnownStays
<1> QED BY <1>1, <1>2

\* f lists the iterates of F from base on.
Iteration(f, n, base, F) == f = [i \in 0 .. n |-> IF i = 0 THEN base ELSE F[f[i - 1]]]

\* A function on a set can be iterated.
LEMMA Iterates ==
    ASSUME NEW T, NEW base \in T, NEW F \in [T -> T], NEW n \in Nat
    PROVE  \E f \in [0 .. n -> T] : Iteration(f, n, base, F)
<1> DEFINE Chain(m, f) == f = [i \in 0 .. m |-> IF i = 0 THEN base ELSE F[f[i - 1]]]
           S == {m \in Nat : \E f \in [0 .. m -> T] : Chain(m, f)}
<1>1. 0 \in S
  <2> DEFINE f == [i \in 0 .. 0 |-> base]
  <2>1. f \in [0 .. 0 -> T] /\ Chain(0, f)
    OBVIOUS
  <2> QED BY <2>1
<1>2. ASSUME NEW m \in Nat, m \in S PROVE m + 1 \in S
  <2>1. PICK f \in [0 .. m -> T] : Chain(m, f)
    BY <1>2
  <2> DEFINE h == [i \in 0 .. m + 1 |-> IF i = m + 1 THEN F[f[m]] ELSE f[i]]
  <2>2. h \in [0 .. m + 1 -> T]
    <3>1. F[f[m]] \in T
      OBVIOUS
    <3> QED BY <3>1
  <2>3. ASSUME NEW i \in 0 .. m + 1 PROVE h[i] = IF i = 0 THEN base ELSE F[h[i - 1]]
    <3>1. CASE i = m + 1
      <4>1. h[i] = F[f[m]] /\ h[i - 1] = f[m] /\ i # 0
        BY <3>1
      <4> QED BY <4>1
    <3>2. CASE i # m + 1
      <4>1. i \in 0 .. m /\ h[i] = f[i]
        BY <3>2
      <4>2. i # 0 => h[i - 1] = f[i - 1]
        BY <4>1
      <4>3. f[i] = IF i = 0 THEN base ELSE F[f[i - 1]]
        BY <2>1, <4>1
      <4> QED BY <4>1, <4>2, <4>3
    <3> QED BY <3>1, <3>2
  <2>4. Chain(m + 1, h)
    <3>1. DOMAIN h = 0 .. m + 1
      OBVIOUS
    <3> HIDE DEF h
    <3> QED BY <2>2, <2>3
  <2> HIDE DEF h, Chain
  <2> QED BY <2>2, <2>4
<1>3. n \in S
  <2> HIDE DEF S
  <2> QED BY <1>1, <1>2, InductionOnSet
<1> QED BY <1>3 DEF Iteration

\* F is monotone and only adds to base.
Spreads(D, base, F) ==
    /\ base \subseteq F[base]
    /\ \A S, T \in SUBSET D : S \subseteq T => F[S] \subseteq F[T]

\* f lists n rounds of F.
Rounds(f, n, D, base, F) ==
    /\ f[0] = base
    /\ \A i \in 1 .. n : f[i - 1] \in SUBSET D => f[i] = F[f[i - 1]]

\* Z is the least set around base that is closed under F.
LeastClosed(Z, D, base, F) ==
    /\ Z \in SUBSET D
    /\ base \subseteq Z
    /\ F[Z] = Z
    /\ \A U \in SUBSET D : (base \subseteq U /\ F[U] \subseteq U) => Z \subseteq U

\* Iterating a monotone F from a set of rules that F only adds to: after as many rounds as
\* there are rules the set stands still, and it is the least closed set around the first.
LEMMA Settles ==
    ASSUME NEW D, NEW N \in Nat, IsFiniteSet(D), Cardinality(D) = N,
           NEW base \in SUBSET D, NEW F \in [SUBSET D -> SUBSET D], Spreads(D, base, F),
           NEW f, Rounds(f, N, D, base, F)
    PROVE  LeastClosed(f[N], D, base, F)
<1> USE DEF Spreads, Rounds, LeastClosed
<1> DEFINE P(i) == /\ f[i] \in SUBSET D /\ f[i] \subseteq F[f[i]] /\ base \subseteq f[i]
                   /\ Cardinality(f[i]) >= i \/ F[f[i]] = f[i]
           I == {i \in Nat : i <= N => P(i)}
<1>1. 0 \in I
  <2>1. Cardinality(f[0]) \in Nat
    BY FS_Subset, FS_CardinalityType
  <2>2. P(0)
    BY <2>1
  <2> QED BY <2>2
<1>2. ASSUME NEW i \in Nat, i \in I PROVE i + 1 \in I
  <2> SUFFICES ASSUME i + 1 <= N PROVE P(i + 1)
    OBVIOUS
  <2>1. i + 1 \in 1 .. N /\ (i + 1) - 1 = i /\ i <= N
    OBVIOUS
  <2>2. P(i)
    BY <1>2, <2>1
  <2>3. f[i + 1] = F[f[i]]
    BY <2>1, <2>2
  <2>4. /\ f[i + 1] \in SUBSET D /\ f[i] \subseteq f[i + 1] /\ f[i + 1] \subseteq F[f[i + 1]]
        /\ base \subseteq f[i + 1]
    <3>1. f[i] \in SUBSET D /\ f[i + 1] \in SUBSET D /\ f[i] \subseteq f[i + 1] /\ base \subseteq f[i]
      BY <2>2, <2>3
    <3>2. F[f[i]] \subseteq F[f[i + 1]]
      BY <3>1
    <3> QED BY <2>3, <3>1, <3>2
  <2>5. CASE F[f[i]] = f[i]
    BY <2>3, <2>4, <2>5
  <2>6. CASE F[f[i]] # f[i] /\ Cardinality(f[i]) >= i
    <3>1. IsFiniteSet(f[i + 1]) /\ f[i] \in SUBSET f[i + 1] /\ f[i + 1] # f[i]
      BY <2>3, <2>4, <2>6, FS_Subset
    <3>2. /\ Cardinality(f[i]) <= Cardinality(f[i + 1]) /\ Cardinality(f[i + 1]) # Cardinality(f[i])
          /\ Cardinality(f[i]) \in Nat /\ Cardinality(f[i + 1]) \in Nat
      BY <3>1, FS_Subset, FS_CardinalityType
    <3>3. Cardinality(f[i + 1]) >= i + 1
      BY <2>6, <3>2
    <3> QED BY <2>4, <3>3
  <2> QED BY <2>2, <2>5, <2>6
<1>3. P(N)
  <2>1. N \in I
    <3> HIDE DEF I
    <3> QED BY <1>1, <1>2, InductionOnSet
  <2> QED BY <2>1
<1>4. F[f[N]] = f[N]
  <2>1. CASE Cardinality(f[N]) >= N
    <3>1. f[N] \in SUBSET D /\ Cardinality(f[N]) <= Cardinality(D) /\ Cardinality(f[N]) \in Nat
      BY <1>3, FS_Subset, FS_CardinalityType
    <3>2. Cardinality(f[N]) = Cardinality(D)
      BY <2>1, <3>1
    <3>3. f[N] = D
      BY <3>1, <3>2, FS_Subset
    <3>4. F[f[N]] \in SUBSET D /\ f[N] \subseteq F[f[N]]
      BY <1>3
    <3> QED BY <3>3, <3>4
  <2> QED BY <1>3, <2>1
<1>5. ASSUME NEW U \in SUBSET D, base \subseteq U, F[U] \subseteq U PROVE f[N] \subseteq U
  <2> DEFINE J == {i \in Nat : i <= N => f[i] \in SUBSET D /\ f[i] \subseteq U}
  <2>1. 0 \in J
    BY <1>5
  <2>2. ASSUME NEW i \in Nat, i \in J PROVE i + 1 \in J
    <3> SUFFICES ASSUME i + 1 <= N PROVE f[i + 1] \in SUBSET D /\ f[i + 1] \subseteq U
      OBVIOUS
    <3>1. i + 1 \in 1 .. N /\ (i + 1) - 1 = i /\ i <= N
      OBVIOUS
    <3>2. f[i] \in SUBSET D /\ f[i] \subseteq U /\ f[i + 1] = F[f[i]]
      BY <2>2, <3>1
    <3>3. F[f[i]] \subseteq F[U]
      BY <3>2
    <3> QED BY <1>5, <3>2, <3>3
  <2>3. N \in J
    <3> HIDE DEF J
    <3> QED BY <2>1, <2>2, InductionOnSet
  <2> QED BY <2>3
<1> QED BY <1>3, <1>4, <1>5

\* There are finitely many rules.
LEMMA TableSize ==
    ASSUME NEW g, NEW in, Table(g, in)
    PROVE  /\ Len(g) \in Nat /\ DOMAIN g = 1 .. Len(g)
           /\ IsFiniteSet(DOMAIN g) /\ Cardinality(DOMAIN g) = Len(g)
<1>1. ASSUME NEW m \in Nat PROVE IsFiniteSet(1 .. m) /\ Cardinality(1 .. m) = m
  BY FS_Interval
<1>2. Len(g) \in Nat /\ DOMAIN g = 1 .. Len(g)
  BY DEF Table
<1> QED BY <1>1, <1>2

\* One more step finds no more rules that can match nothing.
LEMMA NullableClosed ==
    ASSUME NEW g, NEW in, Table(g, in)
    PROVE  NullableStep(g, Nullable(g)) \subseteq Nullable(g)
<1> DEFINE N == Len(g)
           D == DOMAIN g
           none == {}
           F == [S \in SUBSET D |-> NullableStep(g, S)]
           w == CHOOSE w : w = [i \in 0 .. N |-> IF i = 0 THEN none ELSE NullableStep(g, w[i - 1])]
<1>1. N \in Nat /\ IsFiniteSet(D) /\ Cardinality(D) = N /\ \A r \in D : RuleAssumption(g, r)
  BY TableSize DEF Table
<1>2. ASSUME NEW S, NEW T, S \subseteq T PROVE NullableStep(g, S) \subseteq NullableStep(g, T)
  <2> SUFFICES ASSUME NEW r \in NullableStep(g, S) PROVE r \in NullableStep(g, T)
    OBVIOUS
  <2>1. r \in D
    BY DEF NullableStep
  <2>2. CASE g[r].type \in {"literal", "neg", "pos"}
    BY <2>1, <2>2, Zenon DEF NullableStep
  <2>3. CASE g[r].type = "sequence"
    <3>1. SubRules(g[r]) \subseteq S
      BY <2>3, Zenon DEF NullableStep
    <3>2. SubRules(g[r]) \subseteq T
      BY <1>2, <3>1
    <3> QED BY <2>1, <2>3, <3>2, Zenon DEF NullableStep
  <2>4. CASE g[r].type = "choice"
    <3>1. SubRules(g[r]) \cap S # {}
      BY <2>4, Zenon DEF NullableStep
    <3>2. SubRules(g[r]) \cap T # {}
      BY <1>2, <3>1
    <3> QED BY <2>1, <2>4, <3>2, Zenon DEF NullableStep
  <2>5. CASE g[r].type = "repeat"
    <3>1. g[r].min = 0 \/ g[r].rule \in S
      BY <2>5, Zenon DEF NullableStep
    <3>2. g[r].min = 0 \/ g[r].rule \in T
      BY <1>2, <3>1
    <3> QED BY <2>1, <2>5, <3>2, Zenon DEF NullableStep
  <2>6. CASE g[r].type \in {"list", "production"}
    <3>1. g[r].rule \in S
      BY <2>6, Zenon DEF NullableStep
    <3>2. g[r].rule \in T
      BY <1>2, <3>1
    <3> QED BY <2>1, <2>6, <3>2, Zenon DEF NullableStep
  <2> QED BY <1>1, <2>1, <2>2, <2>3, <2>4, <2>5, <2>6 DEF RuleAssumption
<1>3. none \in SUBSET D /\ F \in [SUBSET D -> SUBSET D]
  BY DEF NullableStep
<1>4. PICK f \in [0 .. N -> SUBSET D] : Iteration(f, N, none, F)
  <2> DEFINE T == SUBSET D
  <2>1. N \in Nat /\ none \in T /\ F \in [T -> T]
    BY <1>1, <1>3
  <2> HIDE DEF N, D, none, F, w, T
  <2>2. \E f \in [0 .. N -> T] : Iteration(f, N, none, F)
    BY <2>1, Iterates
  <2> QED BY <2>2 DEF T
<1>5. f = [i \in 0 .. N |-> IF i = 0 THEN none ELSE NullableStep(g, f[i - 1])]
  <2>1. \A i \in 1 .. N : F[f[i - 1]] = NullableStep(g, f[i - 1])
    BY <1>1
  <2> HIDE DEF F, none
  <2> QED BY <1>4, <2>1 DEF Iteration
<1>6. w = [i \in 0 .. N |-> IF i = 0 THEN none ELSE NullableStep(g, w[i - 1])]
  BY <1>5
<1>7. Nullable(g) = w[N]
  BY DEF Nullable, Closure
<1>8. Spreads(D, none, F)
  BY <1>2 DEF Spreads
<1>9. \A S \in SUBSET D : F[S] = NullableStep(g, S)
  OBVIOUS
<1> HIDE DEF w, none, N, D, F
<1>10. w[0] = none /\ \A i \in 1 .. N : w[i] = NullableStep(g, w[i - 1])
  <2>1. 0 \in 0 .. N /\ \A i \in 1 .. N : i \in 0 .. N /\ i # 0
    BY <1>1
  <2> QED BY <1>6, <2>1
<1>11. Rounds(w, N, D, none, F)
  BY <1>9, <1>10 DEF Rounds
<1>12. LeastClosed(w[N], D, none, F)
  BY <1>1, <1>3, <1>8, <1>11, Settles
<1> QED BY <1>7, <1>9, <1>12 DEF LeastClosed

-----------------------------------------------------------------------------
\* What is left of rule r once k of its parts are done can match nothing.
MayBeEmpty(g, r, k) ==
    LET rule == g[r] IN
    /\ rule.type # "literal"
    /\ rule.type = "sequence" => \A j \in 1 .. Len(rule.deps) : j > k => rule.deps[j] \in Nullable(g)
    /\ rule.type = "choice" => \E j \in 1 .. Len(rule.deps) : j > k /\ rule.deps[j] \in Nullable(g)
    /\ rule.type = "repeat" => k >= rule.min \/ rule.rule \in Nullable(g)
    /\ rule.type = "list" /\ k = 0 => rule.rule \in Nullable(g)
    /\ rule.type = "production" => rule.rule \in Nullable(g)

\* A rule none of whose parts is done that can match nothing is one Nullable finds.
LEMMA EmptyIsNullable ==
    ASSUME NEW g, NEW in, Table(g, in), NEW r \in DOMAIN g, MayBeEmpty(g, r, 0)
    PROVE  r \in Nullable(g)
<1> DEFINE S == Nullable(g)
<1>1. NullableStep(g, S) \subseteq S /\ RuleAssumption(g, r)
  BY NullableClosed DEF Table
<1> HIDE DEF S
<1>2. SUFFICES r \in NullableStep(g, S)
  BY <1>1 DEF S
<1>3. CASE g[r].type = "literal"
  BY <1>3 DEF MayBeEmpty
<1>4. CASE g[r].type = "sequence"
  <2>1. \A j \in 1 .. Len(g[r].deps) : g[r].deps[j] \in S
    BY <1>4 DEF MayBeEmpty, S
  <2>2. DOMAIN g[r].deps = 1 .. Len(g[r].deps)
    BY <1>1, <1>4 DEF RuleAssumption
  <2>3. SubRules(g[r]) = {g[r].deps[i] : i \in DOMAIN g[r].deps}
    BY <1>4, Zenon DEF SubRules
  <2>4. SubRules(g[r]) \subseteq S
    BY <2>1, <2>2, <2>3
  <2> QED BY <1>4, <2>4, Zenon DEF NullableStep
<1>5. CASE g[r].type = "choice"
  <2>1. \E j \in 1 .. Len(g[r].deps) : g[r].deps[j] \in S
    BY <1>5 DEF MayBeEmpty, S
  <2>2. DOMAIN g[r].deps = 1 .. Len(g[r].deps)
    BY <1>1, <1>5 DEF RuleAssumption
  <2>3. SubRules(g[r]) = {g[r].deps[i] : i \in DOMAIN g[r].deps}
    BY <1>5, Zenon DEF SubRules
  <2>4. SubRules(g[r]) \cap S # {}
    BY <2>1, <2>2, <2>3
  <2> QED BY <1>5, <2>4, Zenon DEF NullableStep
<1>6. CASE g[r].type = "repeat"
  <2>1. 0 >= g[r].min \/ g[r].rule \in S
    BY <1>6 DEF MayBeEmpty, S
  <2>2. g[r].min \in Nat
    BY <1>1, <1>6, EngineAssumption DEF RuleAssumption
  <2>3. g[r].min = 0 \/ g[r].rule \in S
    BY <2>1, <2>2
  <2> QED BY <1>6, <2>3, Zenon DEF NullableStep
<1>7. CASE g[r].type \in {"neg", "pos"}
  BY <1>7, Zenon DEF NullableStep
<1>8. CASE g[r].type \in {"list", "production"}
  <2>1. g[r].rule \in S
    BY <1>8 DEF MayBeEmpty, S
  <2> QED BY <1>8, <2>1, Zenon DEF NullableStep
<1> QED BY <1>1, <1>3, <1>4, <1>5, <1>6, <1>7, <1>8 DEF RuleAssumption

\* What a match of the rest of a rule must look like: it ends no earlier than it begins,
\* consumes nothing only if that rest may be empty, and a repetition that has enough
\* cannot fail any more.
Moves(g, r, k, t, v) ==
    /\ v \notin {Unknown, NoMatch} => v >= t /\ (v = t => MayBeEmpty(g, r, k))
    /\ g[r].type = "repeat" /\ k >= g[r].min => v # NoMatch

\* The results at depth d are of that kind.
Moving(g, in, m, d) ==
    \A r \in DOMAIN g, k \in Nat, t \in Places(in) :
        m[At(d, r, k, t)] \in Results(in) /\ Moves(g, r, k, t, m[At(d, r, k, t)])

\* What is decided from results of that kind is of that kind.
LEMMA OutcomeMoves ==
    ASSUME NEW g, NEW in, Table(g, in), NEW m, NEW d \in Nat, Moving(g, in, m, d),
           NEW r \in DOMAIN g, NEW k \in Nat, NEW t \in Places(in), NEW reading
    PROVE  Moves(g, r, k, t, Outcome(reading, g, in, m, d, r, k, t))
<1> DEFINE rule == g[r]
           v == Outcome(reading, g, in, m, d, r, k, t)
           gaveUp == GivesUp(reading, in, k, t)
<1>1. /\ RuleAssumption(g, r) /\ t \in Nat /\ t # NoMatch /\ t # Unknown
      /\ k + 1 \in Nat /\ 0 \in Nat /\ 1 \in Nat /\ NoMatch # Unknown
  BY DEF Table, Places, NoMatch, Unknown
<1>2. ASSUME NEW q \in DOMAIN g, NEW n \in Nat, NEW u \in Places(in)
      PROVE  /\ Moves(g, q, n, u, m[At(d, q, n, u)])
             /\ m[At(d, q, n, u)] \notin {Unknown, NoMatch} =>
                   m[At(d, q, n, u)] \in Places(in) /\ m[At(d, q, n, u)] >= u
  <2>1. m[At(d, q, n, u)] \in Results(in) /\ Moves(g, q, n, u, m[At(d, q, n, u)]) /\ Len(in) \in Nat
    BY DEF Moving, Table
  <2> QED BY <2>1 DEF Moves, Results, Places, NoMatch, Unknown
<1>3. \A q \in DOMAIN g : MayBeEmpty(g, q, 0) => q \in Nullable(g)
  BY EmptyIsNullable
<1>4. ASSUME NEW q \in DOMAIN g, NEW u \in Places(in), m[At(d, q, 0, u)] \notin {Unknown, NoMatch}
      PROVE  /\ m[At(d, q, 0, u)] \in Places(in) /\ m[At(d, q, 0, u)] >= u
             /\ m[At(d, q, 0, u)] = u => q \in Nullable(g)
  BY <1>1, <1>2, <1>3, <1>4 DEF Moves
<1>5. CASE rule.type = "literal"
  <2>1. v = NoMatch \/ v = t + 1
    BY <1>5, OutcomeIs
  <2> QED BY <1>1, <1>5, <2>1 DEF Moves
<1>6. CASE rule.type = "sequence"
  <2> DEFINE N == Len(rule.deps)
             q == rule.deps[k + 1]
             u == m[At(d, q, 0, t)]
             x == m[At(d, r, k + 1, u)]
  <2>1. v = IF gaveUp THEN NoMatch ELSE IF k >= N THEN t ELSE Then(u, NoMatch, x)
    BY <1>6, OutcomeIs
  <2>2. N \in Nat /\ (~(k >= N) => q \in DOMAIN g)
    BY <1>1, <1>6 DEF RuleAssumption
  <2>3. ~(k >= N) /\ u \notin {Unknown, NoMatch} => u \in Places(in) /\ u >= t /\ (u = t => q \in Nullable(g))
    BY <1>4, <2>2
  <2>4. u \in Places(in) => Moves(g, r, k + 1, u, x)
    BY <1>1, <1>2
  <2>5. \A p \in Places(in) : p \in Nat
    BY DEF Places, Table
  <2>6. k >= N => MayBeEmpty(g, r, k)
    BY <1>6, <2>2 DEF MayBeEmpty
  <2>7. ~(k >= N) /\ q \in Nullable(g) /\ MayBeEmpty(g, r, k + 1) => MayBeEmpty(g, r, k)
    <3> SUFFICES ASSUME ~(k >= N), q \in Nullable(g), MayBeEmpty(g, r, k + 1), NEW j \in 1 .. N, j > k
                 PROVE  rule.deps[j] \in Nullable(g)
      BY <1>6 DEF MayBeEmpty
    <3>1. \A i \in 1 .. N : i > k + 1 => rule.deps[i] \in Nullable(g)
      BY <1>6 DEF MayBeEmpty
    <3>2. j = k + 1 \/ j > k + 1
      BY <2>2
    <3> HIDE DEF N
    <3> QED BY <3>1, <3>2
  <2> HIDE DEF u, x, q, v, N
  <2>8. v \notin {Unknown, NoMatch} =>
           \/ v = t /\ k >= N
           \/ ~(k >= N) /\ u \notin {Unknown, NoMatch} /\ v = x /\ x \notin {Unknown, NoMatch}
    BY <2>1 DEF Then
  <2>9. v \notin {Unknown, NoMatch} => v >= t /\ (v = t => MayBeEmpty(g, r, k))
    <3>1. CASE v = t /\ k >= N
      BY <1>1, <2>6, <3>1
    <3>2. CASE ~(k >= N) /\ u \notin {Unknown, NoMatch} /\ v = x /\ x \notin {Unknown, NoMatch}
      <4>1. u \in Nat /\ u >= t /\ x >= u /\ (x = u => MayBeEmpty(g, r, k + 1)) /\ (u = t => q \in Nullable(g))
        BY <2>3, <2>4, <2>5, <3>2 DEF Moves
      <4>2. v \in Int
        <5>1. v \in Places(in)
          BY <1>1, <1>2, <2>3, <3>2 DEF x
        <5> QED BY <2>5, <5>1
      <4>3. v >= t /\ (v = t => u = t /\ x = u)
        BY <1>1, <3>2, <4>1, <4>2
      <4> QED BY <2>7, <3>2, <4>1, <4>3
    <3> QED BY <2>8, <3>1, <3>2
  <2> QED BY <1>6, <2>9 DEF Moves, v
<1>7. CASE rule.type = "choice"
  <2> DEFINE N == Len(rule.deps)
             q == rule.deps[k + 1]
             u == m[At(d, q, 0, t)]
             x == m[At(d, r, k + 1, t)]
  <2>1. v = IF gaveUp \/ k >= N THEN NoMatch ELSE Then(u, x, u)
    BY <1>7, OutcomeIs
  <2>2. N \in Nat /\ (~(k >= N) => q \in DOMAIN g /\ k + 1 \in 1 .. N)
    BY <1>1, <1>7 DEF RuleAssumption
  <2>3. ~(k >= N) /\ u \notin {Unknown, NoMatch} => u >= t /\ (u = t => q \in Nullable(g))
    BY <1>4, <2>2
  <2>4. Moves(g, r, k + 1, t, x)
    BY <1>1, <1>2
  <2>5. ~(k >= N) /\ q \in Nullable(g) => MayBeEmpty(g, r, k)
    <3> SUFFICES ASSUME ~(k >= N), q \in Nullable(g)
                 PROVE  \E j \in 1 .. N : j > k /\ rule.deps[j] \in Nullable(g)
      BY <1>7 DEF MayBeEmpty
    <3>1. k + 1 \in 1 .. N /\ k + 1 > k
      BY <2>2
    <3> QED BY <3>1
  <2>6. MayBeEmpty(g, r, k + 1) => MayBeEmpty(g, r, k)
    <3> SUFFICES ASSUME MayBeEmpty(g, r, k + 1)
                 PROVE  \E j \in 1 .. N : j > k /\ rule.deps[j] \in Nullable(g)
      BY <1>7 DEF MayBeEmpty
    <3>1. PICK j \in 1 .. N : j > k + 1 /\ rule.deps[j] \in Nullable(g)
      BY <1>7 DEF MayBeEmpty
    <3>2. j > k
      BY <2>2, <3>1
    <3> QED BY <3>1, <3>2
  <2> HIDE DEF u, x, q, v, N
  <2>7. v \notin {Unknown, NoMatch} =>
           ~(k >= N) /\ (v = x \/ (u \notin {Unknown, NoMatch} /\ v = u))
    BY <2>1 DEF Then
  <2> QED BY <1>7, <2>3, <2>4, <2>5, <2>6, <2>7 DEF Moves, v
<1>8. CASE rule.type = "repeat"
  <2> DEFINE q == rule.rule
             u == m[At(d, q, 0, t)]
             x == m[At(d, r, k + 1, u)]
             enough == Enough(rule, k, t)
  <2>1. \/ v = enough
        \/ v = Then(u, enough, x)
    BY <1>8, OutcomeIs
  <2>2. q \in DOMAIN g /\ rule.min \in Nat
    BY <1>1, <1>8, EngineAssumption DEF RuleAssumption
  <2>3. u \notin {Unknown, NoMatch} => u \in Places(in) /\ u >= t /\ (u = t => q \in Nullable(g))
    BY <1>4, <2>2
  <2>4. u \in Places(in) => Moves(g, r, k + 1, u, x) /\ (x \notin {Unknown, NoMatch} => x \in Places(in))
    BY <1>1, <1>2
  <2>5. \A p \in Places(in) : p \in Nat
    BY DEF Places, Table
  <2>6. k >= rule.min \/ q \in Nullable(g) => MayBeEmpty(g, r, k)
    BY <1>8 DEF MayBeEmpty
  <2>7. k >= rule.min => k + 1 >= rule.min
    BY <2>2
  <2>8. IF k >= rule.min THEN enough = t ELSE enough = NoMatch
    BY <2>2 DEF Enough
  <2> HIDE DEF u, x, q, v, enough
  <2>9. \/ v = enough
        \/ u = Unknown /\ v = Unknown
        \/ u \notin {Unknown, NoMatch} /\ v = x
    BY <2>1 DEF Then
  <2>10. CASE v = enough
    BY <1>1, <1>8, <2>6, <2>8, <2>10 DEF Moves, v
  <2>11. CASE u = Unknown /\ v = Unknown
    BY <1>1, <2>11 DEF Moves, v
  <2>12. CASE u \notin {Unknown, NoMatch} /\ v = x
    <3>1. u \in Nat /\ u >= t /\ Moves(g, r, k + 1, u, x) /\ (x \notin {Unknown, NoMatch} => x \in Nat)
      BY <2>3, <2>4, <2>5, <2>12
    <3>2. v \notin {Unknown, NoMatch} => v \in Nat /\ v >= u
      BY <2>12, <3>1 DEF Moves
    <3>3. v \notin {Unknown, NoMatch} => v >= t /\ (v = t => u = t)
      BY <1>1, <3>1, <3>2
    <3>4. k >= rule.min => v # NoMatch
      BY <1>8, <2>7, <2>12, <3>1 DEF Moves
    <3>5. v = t /\ v \notin {Unknown, NoMatch} => MayBeEmpty(g, r, k)
      BY <2>3, <2>6, <2>12, <3>3
    <3> QED BY <3>3, <3>4, <3>5 DEF Moves, v
  <2> QED BY <2>9, <2>10, <2>11, <2>12
<1>9. CASE rule.type = "list"
  <2> DEFINE Elem(p) == m[At(d, rule.rule, 0, p)]
             s == m[At(d, rule.delim, 0, t)]
             More(p) == m[At(d, r, 1, p)]
  <2>1. v = IF gaveUp THEN NoMatch
            ELSE IF k = 0 THEN Then(Elem(t), NoMatch, More(Elem(t)))
            ELSE Then(s, t, Then(Elem(s), t, More(Elem(s))))
    BY <1>9, OutcomeIs
  <2>2. rule.rule \in DOMAIN g /\ rule.delim \in DOMAIN g
    BY <1>1, <1>9 DEF RuleAssumption
  <2>3. \A p \in Places(in) : /\ p \in Nat
                              /\ Elem(p) \notin {Unknown, NoMatch} =>
                                    Elem(p) \in Places(in) /\ Elem(p) >= p /\ (Elem(p) = p => rule.rule \in Nullable(g))
                              /\ More(p) \notin {Unknown, NoMatch} => More(p) \in Places(in) /\ More(p) >= p
    <3> TAKE p \in Places(in)
    <3>1. p \in Nat
      BY DEF Places, Table
    <3> QED BY <1>1, <1>2, <1>4, <2>2, <3>1
  <2>4. s \notin {Unknown, NoMatch} => s \in Places(in) /\ s >= t
    BY <1>4, <2>2
  <2>5. (k = 0 => rule.rule \in Nullable(g)) => MayBeEmpty(g, r, k)
    BY <1>9 DEF MayBeEmpty
  <2> HIDE DEF Elem, More, s, v
  <2>6. \A p \in Places(in) : LET y == More(Elem(p)) IN
           Elem(p) \notin {Unknown, NoMatch} /\ y \notin {Unknown, NoMatch} =>
              y \in Nat /\ y >= p /\ (y = p => rule.rule \in Nullable(g))
    <3> SUFFICES ASSUME NEW p \in Places(in), Elem(p) \notin {Unknown, NoMatch}, More(Elem(p)) \notin {Unknown, NoMatch}
                 PROVE  More(Elem(p)) \in Nat /\ More(Elem(p)) >= p /\ (More(Elem(p)) = p => rule.rule \in Nullable(g))
      OBVIOUS
    <3>1. PICK e \in Places(in) : e = Elem(p) /\ e \in Nat /\ e >= p /\ (e = p => rule.rule \in Nullable(g))
      BY <2>3
    <3>2. PICK y \in Nat : y = More(e) /\ y >= e
      BY <2>3, <3>1
    <3>3. p \in Nat
      BY <2>3
    <3> QED BY <3>1, <3>2, <3>3
  <2>7. v \notin {Unknown, NoMatch} => v >= t /\ (k = 0 /\ v = t => rule.rule \in Nullable(g))
    <3> SUFFICES ASSUME v \notin {Unknown, NoMatch} PROVE v >= t /\ (k = 0 /\ v = t => rule.rule \in Nullable(g))
      OBVIOUS
    <3>1. CASE k = 0
      <4>1. Elem(t) \notin {Unknown, NoMatch} /\ v = More(Elem(t))
        BY <2>1, <3>1 DEF Then
      <4> QED BY <2>6, <4>1
    <3>2. CASE k # 0
      <4>1. \/ v = t
            \/ /\ s \notin {Unknown, NoMatch} /\ Elem(s) \notin {Unknown, NoMatch}
               /\ v = More(Elem(s))
        BY <2>1, <3>2 DEF Then
      <4>2. CASE s \notin {Unknown, NoMatch} /\ Elem(s) \notin {Unknown, NoMatch} /\ v = More(Elem(s))
        <5>1. s \in Places(in) /\ s \in Nat /\ s >= t
          BY <2>3, <2>4, <4>2
        <5>2. v \in Nat /\ v >= s
          BY <2>6, <4>2, <5>1
        <5> QED BY <1>1, <3>2, <5>1, <5>2
      <4> QED BY <1>1, <3>2, <4>1, <4>2
    <3> QED BY <3>1, <3>2
  <2> QED BY <1>9, <2>5, <2>7 DEF Moves, v
<1>10. CASE rule.type \in {"neg", "pos"}
  <2>1. MayBeEmpty(g, r, k)
    BY <1>10 DEF MayBeEmpty
  <2>2. v \in {t, NoMatch, Unknown}
    <3>1. CASE rule.type = "neg"
      BY <3>1, OutcomeIs DEF Then
    <3>2. CASE rule.type = "pos"
      BY <3>2, OutcomeIs DEF Then
    <3> QED BY <1>10, <3>1, <3>2
  <2> HIDE DEF v
  <2> QED BY <1>1, <1>10, <2>1, <2>2 DEF Moves, v
<1>11. CASE rule.type = "production"
  <2> DEFINE u == m[At(d, rule.rule, 0, t)]
  <2>1. v = Then(u, NoMatch, IF rule.action = "reject" THEN NoMatch ELSE u)
    BY <1>11, OutcomeIs
  <2>2. rule.rule \in DOMAIN g
    BY <1>1, <1>11 DEF RuleAssumption
  <2>3. u \notin {Unknown, NoMatch} => u >= t /\ (u = t => rule.rule \in Nullable(g))
    BY <1>4, <2>2
  <2>4. rule.rule \in Nullable(g) => MayBeEmpty(g, r, k)
    BY <1>11 DEF MayBeEmpty
  <2> HIDE DEF u, v
  <2> QED BY <1>11, <2>1, <2>3, <2>4 DEF Moves, Then, v
<1> QED BY <1>1, <1>5, <1>6, <1>7, <1>8, <1>9, <1>10, <1>11 DEF RuleAssumption

\* So are those of the reference, in either reading, at every depth.
LEMMA SemanticsMoves ==
    ASSUME NEW reading, NEW g, NEW in, Table(g, in), NEW d \in Nat
    PROVE  Moving(g, in, Semantics(reading, g, in), d)
<1> DEFINE m == Semantics(reading, g, in)
           S == {c \in Nat : Moving(g, in, m, c)}
<1>1. \A r \in DOMAIN g, k \in Nat, t \in Places(in) :
         /\ m[At(0, r, k, t)] = Unknown
         /\ \A c \in Nat : /\ m[At(c + 1, r, k, t)] = Outcome(reading, g, in, m, c, r, k, t)
                           /\ m[At(c, r, k, t)] \in Results(in)
  BY SemanticsIs
<1> HIDE DEF m
<1>2. 0 \in S
  BY <1>1 DEF Moving, Moves, Unknown, NoMatch
<1>3. ASSUME NEW c \in Nat, c \in S PROVE c + 1 \in S
  <2>1. Moving(g, in, m, c) /\ c + 1 \in Nat
    BY <1>3
  <2>2. ASSUME NEW r \in DOMAIN g, NEW k \in Nat, NEW t \in Places(in)
        PROVE  m[At(c + 1, r, k, t)] \in Results(in) /\ Moves(g, r, k, t, m[At(c + 1, r, k, t)])
    <3>1. Moves(g, r, k, t, Outcome(reading, g, in, m, c, r, k, t))
      BY <2>1, OutcomeMoves
    <3> QED BY <1>1, <2>1, <3>1
  <2>3. Moving(g, in, m, c + 1)
    BY <2>2 DEF Moving
  <2> QED BY <2>1, <2>3
<1>4. \A c \in Nat : c \in S
  <2> HIDE DEF S
  <2> QED BY <1>2, <1>3, InductionOnSet
<1> QED BY <1>4 DEF m

\* A rule that gives up on the empty token comes to what its operator would come to,
\* where no group can match nothing.
LEMMA GivingUpUnseen ==
    ASSUME NEW g, NEW in, Table(g, in), NoNullableGroup(g), NEW m1, NEW d \in Nat, NEW m2,
           Moving(g, in, m1, d), Knows(g, in, m1, d, m2, d),
           NEW r \in DOMAIN g, NEW k \in Nat, NEW t \in Places(in), GivesUp("code", in, k, t),
           Outcome("readme", g, in, m1, d, r, k, t) # Unknown
    PROVE  Outcome("code", g, in, m2, d, r, k, t) = Outcome("readme", g, in, m1, d, r, k, t)
<1> DEFINE rule == g[r]
           v == Outcome("readme", g, in, m1, d, r, k, t)
           w == Outcome("code", g, in, m2, d, r, k, t)
<1>1. /\ RuleAssumption(g, r) /\ k = 0 /\ t = Len(in) + 1 /\ Len(in) \in Nat /\ 0 \in Nat
      /\ t # NoMatch /\ t # Unknown /\ NoMatch # Unknown
  BY DEF Table, GivesUp, NoMatch, Unknown
<1>2. ~GivesUp("readme", in, k, t)
  BY DEF GivesUp
<1>3. v \in Results(in) /\ Moves(g, r, k, t, v) /\ v # Unknown
  BY OutcomeMoves, OutcomeExtends
<1>4. \A x \in Results(in) : x \notin {Unknown, NoMatch} /\ x >= t => x = t
  BY <1>1 DEF Results, Unknown
<1>5. v = NoMatch \/ (v = t /\ MayBeEmpty(g, r, 0))
  <2> HIDE DEF v
  <2> QED BY <1>1, <1>3, <1>4 DEF Moves
<1>6. CASE rule.type \in {"literal", "pos", "production"}
  <2>1. Outcome("readme", g, in, m2, d, r, k, t) = v
    BY <1>3, OutcomeExtends
  <2>2. w = Outcome("readme", g, in, m2, d, r, k, t)
    <3>1. CASE rule.type = "literal"
      BY <3>1, OutcomeIs
    <3>2. CASE rule.type = "pos"
      BY <3>2, OutcomeIs
    <3>3. CASE rule.type = "production"
      BY <3>3, OutcomeIs
    <3> QED BY <1>6, <3>1, <3>2, <3>3
  <2> QED BY <2>1, <2>2
<1>7. CASE rule.type \in {"sequence", "choice", "list"}
  <2>1. r \notin Nullable(g)
    BY <1>7 DEF NoNullableGroup
  <2>2. v = NoMatch
    BY <1>5, <2>1, EmptyIsNullable
  <2>3. w = NoMatch
    BY <1>7, OutcomeIs
  <2> QED BY <2>2, <2>3
<1>8. CASE rule.type = "repeat"
  <2>1. w = Enough(rule, k, t) /\ rule.min \in Nat
    BY <1>1, <1>8, OutcomeIs, EngineAssumption DEF RuleAssumption
  <2> HIDE DEF v, w
  <2>2. CASE rule.min = 0
    <3>1. v # NoMatch
      BY <1>1, <1>3, <1>8, <2>2 DEF Moves
    <3> QED BY <1>1, <1>5, <2>1, <2>2, <3>1 DEF Enough, v, w
  <2>3. CASE rule.min > 0
    <3>1. ~MayBeEmpty(g, r, 0)
      BY <1>8, <2>1, <2>3 DEF MayBeEmpty, NoNullableGroup
    <3> QED BY <1>1, <1>5, <2>1, <2>3, <3>1 DEF Enough, v, w
  <2> QED BY <2>1, <2>2, <2>3
<1>9. CASE rule.type = "neg"
  <2> DEFINE u == m1[At(d, rule.rule, 0, t)]
  <2>1. v = Then(u, t, NoMatch) /\ w = t
    BY <1>2, <1>9, OutcomeIs
  <2>2. rule.rule \in DOMAIN g /\ rule.rule \notin Nullable(g)
    BY <1>1, <1>9 DEF RuleAssumption, NoNullableGroup
  <2>3. u \in Results(in) /\ Moves(g, rule.rule, 0, t, u)
    BY <1>1, <2>2 DEF Moving
  <2>4. u \in {Unknown, NoMatch}
    <3>1. ~MayBeEmpty(g, rule.rule, 0)
      BY <2>2, EmptyIsNullable
    <3> HIDE DEF u
    <3> QED BY <1>4, <2>3, <3>1 DEF Moves
  <2> HIDE DEF u, v, w
  <2> QED BY <1>3, <2>1, <2>4 DEF Then, v, w
<1> QED BY <1>1, <1>6, <1>7, <1>8, <1>9 DEF RuleAssumption

\* Where no group can match nothing the two readings of a grammar are one.
THEOREM ReadingsAgree ==
    ASSUME NEW g, NEW in, Table(g, in), NoNullableGroup(g),
           NEW r \in DOMAIN g, NEW k \in Nat, NEW t \in Places(in), NEW d \in Nat,
           Semantics("readme", g, in)[At(d, r, k, t)] # Unknown
    PROVE  Semantics("code", g, in)[At(d, r, k, t)] = Semantics("readme", g, in)[At(d, r, k, t)]
<1> DEFINE R == Semantics("readme", g, in)
           C == Semantics("code", g, in)
           S == {c \in Nat : Knows(g, in, R, c, C, c)}
<1>1. \A q \in DOMAIN g, n \in Nat, u \in Places(in) :
         /\ R[At(0, q, n, u)] = Unknown
         /\ \A c \in Nat : /\ R[At(c + 1, q, n, u)] = Outcome("readme", g, in, R, c, q, n, u)
                           /\ R[At(c, q, n, u)] \in Results(in)
                           /\ C[At(c + 1, q, n, u)] = Outcome("code", g, in, C, c, q, n, u)
  BY SemanticsIs
<1>2. \A c \in Nat : Moving(g, in, R, c)
  BY SemanticsMoves
<1> HIDE DEF R, C
<1>3. 0 \in S
  BY <1>1 DEF Knows
<1>4. ASSUME NEW c \in Nat, c \in S PROVE c + 1 \in S
  <2>1. Knows(g, in, R, c, C, c) /\ c + 1 \in Nat
    BY <1>4
  <2>2. ASSUME NEW q \in DOMAIN g, NEW n \in Nat, NEW u \in Places(in)
        PROVE  /\ R[At(c + 1, q, n, u)] \in Results(in)
               /\ R[At(c + 1, q, n, u)] # Unknown => C[At(c + 1, q, n, u)] = R[At(c + 1, q, n, u)]
    <3>1. LET v == Outcome("readme", g, in, R, c, q, n, u) IN
          v # Unknown => Outcome("code", g, in, C, c, q, n, u) = v
      <4>1. CASE GivesUp("code", in, n, u)
        BY <1>2, <2>1, <4>1, GivingUpUnseen
      <4>2. CASE ~GivesUp("code", in, n, u)
        <5>1. ~GivesUp("readme", in, n, u)
          BY DEF GivesUp
        <5> QED BY <2>1, <4>2, <5>1, OutcomeExtends
      <4> QED BY <4>1, <4>2
    <3> QED BY <1>1, <2>1, <3>1
  <2>3. Knows(g, in, R, c + 1, C, c + 1)
    BY <2>2 DEF Knows
  <2> QED BY <2>1, <2>3
<1>5. \A c \in Nat : c \in S
  <2> HIDE DEF S
  <2> QED BY <1>3, <1>4, InductionOnSet
<1>6. Knows(g, in, R, d, C, d)
  BY <1>5
<1> QED BY <1>6 DEF Knows, R, C

-----------------------------------------------------------------------------
(* The engine *)

\* What check_rule_ of rule r comes to at token t after k of its parts: the token after
\* the match or NoMatch.
Sem == Semantics("code", grammar, input)
Gives(r, k, t, v) == v # Unknown /\ \E d \in Nat : Sem[At(d, r, k, t)] = v

\* The engine's tables are ones the reference is defined for.
LEMMA TypedTable ==
    ASSUME Typed
    PROVE  Table(grammar, input) /\ Places(input) = Tokens
BY Tables DEF Table, Places, Rules, Tokens, token_tail

\* One step of the reference.
LEMMA GivesOutcome ==
    ASSUME Typed, NEW r \in Rules, NEW k \in Nat, NEW t \in Tokens, NEW d \in Nat, NEW v, v # Unknown,
           Outcome("code", grammar, input, Sem, d, r, k, t) = v
    PROVE  Gives(r, k, t, v)
<1>1. Table(grammar, input) /\ r \in DOMAIN grammar /\ t \in Places(input)
  BY TypedTable DEF Rules
<1>2. \A c \in Nat : Sem[At(c + 1, r, k, t)] = Outcome("code", grammar, input, Sem, c, r, k, t)
  BY <1>1, SemanticsIs DEF Sem
<1>3. Sem[At(d + 1, r, k, t)] = v /\ d + 1 \in Nat
  BY <1>2
<1> QED BY <1>3 DEF Gives

\* From depth d on the result is v.
From(d, r, k, t, v) == \A e \in Nat : e >= d => Sem[At(e, r, k, t)] = v

\* A known result is known from some depth on.
LEMMA KnownFrom ==
    ASSUME Typed, NEW r \in Rules, NEW k \in Nat, NEW t \in Tokens, NEW v, Gives(r, k, t, v)
    PROVE  \E d \in Nat : From(d, r, k, t, v)
<1>1. PICK d \in Nat : Sem[At(d, r, k, t)] = v
  BY DEF Gives
<1>2. v # Unknown
  BY DEF Gives
<1>3. \A e \in Nat : e >= d => Sem[At(e, r, k, t)] = v
  BY <1>1, <1>2, KnownStays, TypedTable DEF Sem, Rules
<1> QED BY <1>3 DEF From

\* Two known results are known at a common depth.
LEMMA KnownTogether ==
    ASSUME Typed, NEW r1 \in Rules, NEW k1 \in Nat, NEW t1 \in Tokens, NEW v1, Gives(r1, k1, t1, v1),
           NEW r2 \in Rules, NEW k2 \in Nat, NEW t2 \in Tokens, NEW v2, Gives(r2, k2, t2, v2)
    PROVE  \E d \in Nat : From(d, r1, k1, t1, v1) /\ From(d, r2, k2, t2, v2)
<1>1. PICK d1 \in Nat : From(d1, r1, k1, t1, v1)
  BY KnownFrom
<1>2. PICK d2 \in Nat : From(d2, r2, k2, t2, v2)
  BY KnownFrom
<1>3. d1 + d2 \in Nat /\ \A e \in Nat : e >= d1 + d2 => e >= d1 /\ e >= d2
  OBVIOUS
<1>4. From(d1 + d2, r1, k1, t1, v1) /\ From(d1 + d2, r2, k2, t2, v2)
  BY <1>1, <1>2, <1>3 DEF From
<1> QED BY <1>3, <1>4

\* The rule does not give up where k of its parts are done at token t.
Open(k, t) == k # 0 \/ t # token_tail

\* Literals.
LEMMA LiteralGives ==
    ASSUME Typed, NEW r \in Rules, Type(r) = "literal", NEW t \in Tokens
    PROVE  Gives(r, 0, t, IF t # token_tail /\ input[t] \in grammar[r].match THEN t + 1 ELSE NoMatch)
<1> DEFINE v == IF t # token_tail /\ input[t] \in grammar[r].match THEN t + 1 ELSE NoMatch
<1>1. v # Unknown
  BY Tables DEF NoMatch, Unknown
<1>2. Outcome("code", grammar, input, Sem, 0, r, 0, t) = v
  BY OutcomeIs DEF Type, Rules, token_tail
<1> HIDE DEF v
<1>3. Gives(r, 0, t, v)
  BY <1>1, <1>2, GivesOutcome
<1> QED BY <1>3 DEF v

\* Sequences.
LEMMA SequenceGives ==
    ASSUME Typed, NEW r \in Rules, Type(r) = "sequence", NEW k \in Nat, NEW t \in Tokens, Open(k, t)
    PROVE  /\ k = Len(grammar[r].deps) => Gives(r, k, t, t)
           /\ k < Len(grammar[r].deps) =>
                LET q == grammar[r].deps[k + 1] IN
                /\ q \in Rules
                /\ Gives(q, 0, t, NoMatch) => Gives(r, k, t, NoMatch)
                /\ \A u \in Tokens : \A v : Gives(q, 0, t, u) /\ Gives(r, k + 1, u, v) => Gives(r, k, t, v)
<1> DEFINE N == Len(grammar[r].deps)
           q == grammar[r].deps[k + 1]
           Sub(d) == Sem[At(d, q, 0, t)]
           Rest(d, u) == Sem[At(d, r, k + 1, u)]
           Out(d) == Outcome("code", grammar, input, Sem, d, r, k, t)
<1>1. \A d \in Nat : Out(d) = IF k >= N THEN t ELSE Then(Sub(d), NoMatch, Rest(d, Sub(d)))
  <2> TAKE d \in Nat
  <2>1. ~GivesUp("code", input, k, t)
    BY DEF Open, GivesUp, token_tail
  <2> QED BY <2>1, OutcomeIs DEF Type, Rules
<1>2. t # Unknown /\ NoMatch # Unknown /\ \A u \in Tokens : u \notin {Unknown, NoMatch}
  BY Tables DEF NoMatch, Unknown
<1>3. \A d \in Nat : \A v : Out(d) = v /\ v # Unknown => Gives(r, k, t, v)
  BY GivesOutcome
<1>4. N \in Nat /\ (k < N => q \in Rules)
  BY Tables DEF RuleAssumption, Type, Rules
<1> HIDE DEF N, q, Sub, Rest, Out
<1>5. CASE k = N
  BY <1>1, <1>2, <1>3, <1>4, <1>5 DEF N
<1>6. CASE k < N
  <2>1. ~(k >= N) /\ q \in Rules /\ k + 1 \in Nat
    BY <1>4, <1>6
  <2>2. \A d \in Nat : Out(d) = Then(Sub(d), NoMatch, Rest(d, Sub(d)))
    BY <1>1, <2>1
  <2>3. ASSUME Gives(q, 0, t, NoMatch) PROVE Gives(r, k, t, NoMatch)
    <3>1. PICK d \in Nat : Sub(d) = NoMatch
      BY <2>3 DEF Gives, Sub
    <3> QED BY <1>2, <1>3, <2>2, <3>1 DEF Then
  <2>4. ASSUME NEW u \in Tokens, NEW v, Gives(q, 0, t, u), Gives(r, k + 1, u, v) PROVE Gives(r, k, t, v)
    <3>1. PICK d \in Nat : From(d, q, 0, t, u) /\ From(d, r, k + 1, u, v)
      BY <2>1, <2>4, KnownTogether
    <3>2. Sub(d) = u /\ Rest(d, u) = v
      BY <3>1 DEF From, Sub, Rest
    <3>3. v # Unknown
      BY <2>4 DEF Gives
    <3> QED BY <1>2, <1>3, <2>2, <3>2, <3>3 DEF Then
  <2> QED BY <1>4, <1>6, <2>1, <2>3, <2>4 DEF N, q
<1> QED BY <1>4, <1>5, <1>6 DEF N

\* Ordered choices.
LEMMA ChoiceGives ==
    ASSUME Typed, NEW r \in Rules, Type(r) = "choice", NEW k \in Nat, NEW t \in Tokens, Open(k, t)
    PROVE  /\ k = Len(grammar[r].deps) => Gives(r, k, t, NoMatch)
           /\ k < Len(grammar[r].deps) =>
                LET q == grammar[r].deps[k + 1] IN
                /\ q \in Rules
                /\ \A v : Gives(q, 0, t, NoMatch) /\ Gives(r, k + 1, t, v) => Gives(r, k, t, v)
                /\ \A u \in Tokens : Gives(q, 0, t, u) => Gives(r, k, t, u)
<1> DEFINE N == Len(grammar[r].deps)
           q == grammar[r].deps[k + 1]
           Sub(d) == Sem[At(d, q, 0, t)]
           Rest(d) == Sem[At(d, r, k + 1, t)]
           Out(d) == Outcome("code", grammar, input, Sem, d, r, k, t)
<1>1. \A d \in Nat : Out(d) = IF k >= N THEN NoMatch ELSE Then(Sub(d), Rest(d), Sub(d))
  <2> TAKE d \in Nat
  <2>1. ~GivesUp("code", input, k, t)
    BY DEF Open, GivesUp, token_tail
  <2> QED BY <2>1, OutcomeIs DEF Type, Rules
<1>2. t # Unknown /\ NoMatch # Unknown /\ \A u \in Tokens : u \notin {Unknown, NoMatch}
  BY Tables DEF NoMatch, Unknown
<1>3. \A d \in Nat : \A v : Out(d) = v /\ v # Unknown => Gives(r, k, t, v)
  BY GivesOutcome
<1>4. N \in Nat /\ (k < N => q \in Rules)
  BY Tables DEF RuleAssumption, Type, Rules
<1> HIDE DEF N, q, Sub, Rest, Out
<1>5. CASE k = N
  BY <1>1, <1>2, <1>3, <1>4, <1>5 DEF N
<1>6. CASE k < N
  <2>1. ~(k >= N) /\ q \in Rules /\ k + 1 \in Nat
    BY <1>4, <1>6
  <2>2. \A d \in Nat : Out(d) = Then(Sub(d), Rest(d), Sub(d))
    BY <1>1, <2>1
  <2>3. ASSUME NEW u \in Tokens, Gives(q, 0, t, u) PROVE Gives(r, k, t, u)
    <3>1. PICK d \in Nat : Sub(d) = u
      BY <2>3 DEF Gives, Sub
    <3> QED BY <1>2, <1>3, <2>2, <3>1 DEF Then
  <2>4. ASSUME NEW v, Gives(q, 0, t, NoMatch), Gives(r, k + 1, t, v) PROVE Gives(r, k, t, v)
    <3>1. PICK d \in Nat : From(d, q, 0, t, NoMatch) /\ From(d, r, k + 1, t, v)
      BY <2>1, <2>4, KnownTogether
    <3>2. Sub(d) = NoMatch /\ Rest(d) = v
      BY <3>1 DEF From, Sub, Rest
    <3>3. v # Unknown
      BY <2>4 DEF Gives
    <3> QED BY <1>2, <1>3, <2>2, <3>2, <3>3 DEF Then
  <2> QED BY <1>4, <1>6, <2>1, <2>3, <2>4 DEF N, q
<1> QED BY <1>4, <1>5, <1>6 DEF N

\* Repetitions.
LEMMA RepeatGives ==
    ASSUME Typed, NEW r \in Rules, Type(r) = "repeat", NEW k \in Nat, NEW t \in Tokens, Open(k, t)
    PROVE  LET g == grammar[r] IN
           /\ g.rule \in Rules
           /\ (g.max # 0 /\ k = g.max) \/ Gives(g.rule, 0, t, NoMatch) => Gives(r, k, t, Enough(g, k, t))
           /\ ~(g.max # 0 /\ k = g.max) =>
                \A u \in Tokens : \A v : Gives(g.rule, 0, t, u) /\ Gives(r, k + 1, u, v) => Gives(r, k, t, v)
<1> DEFINE g == grammar[r]
           full == g.max # 0 /\ k = g.max
           enough == Enough(g, k, t)
           Sub(d) == Sem[At(d, g.rule, 0, t)]
           Rest(d, u) == Sem[At(d, r, k + 1, u)]
           Out(d) == Outcome("code", grammar, input, Sem, d, r, k, t)
<1>1. \A d \in Nat : Out(d) = IF full THEN enough ELSE Then(Sub(d), enough, Rest(d, Sub(d)))
  <2> TAKE d \in Nat
  <2>1. ~GivesUp("code", input, k, t)
    BY DEF Open, GivesUp, token_tail
  <2> QED BY <2>1, OutcomeIs DEF Type, Rules
<1>2. enough # Unknown /\ NoMatch # Unknown /\ \A u \in Tokens : u \notin {Unknown, NoMatch}
  BY Tables DEF NoMatch, Unknown, Enough
<1>3. \A d \in Nat : \A v : Out(d) = v /\ v # Unknown => Gives(r, k, t, v)
  BY GivesOutcome
<1>4. g.rule \in Rules /\ k + 1 \in Nat
  BY Tables DEF RuleAssumption, Type, Rules
<1> HIDE DEF g, full, enough, Sub, Rest, Out
<1>5. ASSUME full \/ Gives(g.rule, 0, t, NoMatch) PROVE Gives(r, k, t, enough)
  <2>1. CASE full
    <3>1. 0 \in Nat /\ Out(0) = enough
      BY <1>1, <2>1
    <3> QED BY <1>2, <1>3, <3>1
  <2>2. CASE ~full
    <3>1. PICK d \in Nat : Sub(d) = NoMatch
      BY <1>5, <2>2 DEF Gives, Sub
    <3> QED BY <1>1, <1>2, <1>3, <2>2, <3>1 DEF Then
  <2> QED BY <2>1, <2>2
<1>6. ASSUME ~full, NEW u \in Tokens, NEW v, Gives(g.rule, 0, t, u), Gives(r, k + 1, u, v)
      PROVE  Gives(r, k, t, v)
  <2>1. PICK d \in Nat : From(d, g.rule, 0, t, u) /\ From(d, r, k + 1, u, v)
    BY <1>4, <1>6, KnownTogether
  <2>2. Sub(d) = u /\ Rest(d, u) = v
    BY <2>1 DEF From, Sub, Rest
  <2>3. v # Unknown
    BY <1>6 DEF Gives
  <2> QED BY <1>1, <1>2, <1>3, <1>6, <2>2, <2>3 DEF Then
<1> QED BY <1>4, <1>5, <1>6 DEF g, full, enough

\* Lists: b, (a, b)*.
LEMMA ListGives ==
    ASSUME Typed, NEW r \in Rules, Type(r) = "list", NEW t \in Tokens
    PROVE  LET q == grammar[r].rule
               sep == grammar[r].delim
           IN
           /\ q \in Rules /\ sep \in Rules
           /\ t # token_tail =>
                /\ Gives(q, 0, t, NoMatch) => Gives(r, 0, t, NoMatch)
                /\ \A u \in Tokens : \A v : Gives(q, 0, t, u) /\ Gives(r, 1, u, v) => Gives(r, 0, t, v)
           /\ Gives(sep, 0, t, NoMatch) => Gives(r, 1, t, t)
           /\ \A w \in Tokens : Gives(sep, 0, t, w) =>
                /\ Gives(q, 0, w, NoMatch) => Gives(r, 1, t, t)
                /\ \A u \in Tokens : \A v : Gives(q, 0, w, u) /\ Gives(r, 1, u, v) => Gives(r, 1, t, v)
<1> DEFINE q == grammar[r].rule
           sep == grammar[r].delim
           Elem(d, w) == Sem[At(d, q, 0, w)]
           Sep(d) == Sem[At(d, sep, 0, t)]
           More(d, u) == Sem[At(d, r, 1, u)]
           First(d) == Outcome("code", grammar, input, Sem, d, r, 0, t)
           Later(d) == Outcome("code", grammar, input, Sem, d, r, 1, t)
<1>1. /\ t # token_tail => \A d \in Nat : First(d) = Then(Elem(d, t), NoMatch, More(d, Elem(d, t)))
      /\ \A d \in Nat : Later(d) = Then(Sep(d), t, Then(Elem(d, Sep(d)), t, More(d, Elem(d, Sep(d)))))
  <2>1. /\ t # token_tail => ~GivesUp("code", input, 0, t)
        /\ ~GivesUp("code", input, 1, t)
    BY DEF GivesUp, token_tail
  <2>2. ASSUME t # token_tail, NEW d \in Nat PROVE First(d) = Then(Elem(d, t), NoMatch, More(d, Elem(d, t)))
    BY <2>1, <2>2, OutcomeIs DEF Type, Rules
  <2>3. ASSUME NEW d \in Nat
        PROVE  Later(d) = Then(Sep(d), t, Then(Elem(d, Sep(d)), t, More(d, Elem(d, Sep(d)))))
    <3>1. 1 # 0
      OBVIOUS
    <3> QED BY <2>1, <3>1, OutcomeIs DEF Type, Rules
  <2> QED BY <2>2, <2>3
<1>2. t # Unknown /\ NoMatch # Unknown /\ \A u \in Tokens : u \notin {Unknown, NoMatch}
  BY Tables DEF NoMatch, Unknown
<1>3. \A d \in Nat : \A v : v # Unknown =>
         /\ First(d) = v => Gives(r, 0, t, v)
         /\ Later(d) = v => Gives(r, 1, t, v)
  BY GivesOutcome
<1>4. q \in Rules /\ sep \in Rules /\ 0 \in Nat /\ 1 \in Nat
  BY Tables DEF RuleAssumption, Type, Rules
<1> HIDE DEF q, sep, Elem, Sep, More, First, Later
<1>5. ASSUME t # token_tail, Gives(q, 0, t, NoMatch) PROVE Gives(r, 0, t, NoMatch)
  <2>1. PICK d \in Nat : Elem(d, t) = NoMatch
    BY <1>5 DEF Gives, Elem
  <2> QED BY <1>1, <1>2, <1>3, <1>5, <2>1 DEF Then
<1>6. ASSUME t # token_tail, NEW u \in Tokens, NEW v, Gives(q, 0, t, u), Gives(r, 1, u, v)
      PROVE  Gives(r, 0, t, v)
  <2>1. PICK d \in Nat : From(d, q, 0, t, u) /\ From(d, r, 1, u, v)
    BY <1>4, <1>6, KnownTogether
  <2>2. Elem(d, t) = u /\ More(d, u) = v /\ v # Unknown
    BY <1>6, <2>1 DEF From, Elem, More, Gives
  <2>3. First(d) = v
    BY <1>1, <1>2, <1>6, <2>2 DEF Then
  <2> QED BY <1>3, <2>2, <2>3
<1>7. ASSUME Gives(sep, 0, t, NoMatch) PROVE Gives(r, 1, t, t)
  <2>1. PICK d \in Nat : Sep(d) = NoMatch
    BY <1>7 DEF Gives, Sep
  <2>2. Later(d) = t
    BY <1>1, <1>2, <2>1 DEF Then
  <2> QED BY <1>2, <1>3, <2>2
<1>8. ASSUME NEW w \in Tokens, Gives(sep, 0, t, w), Gives(q, 0, w, NoMatch) PROVE Gives(r, 1, t, t)
  <2>1. PICK d \in Nat : From(d, sep, 0, t, w) /\ From(d, q, 0, w, NoMatch)
    BY <1>4, <1>8, KnownTogether
  <2>2. Sep(d) = w /\ Elem(d, w) = NoMatch
    BY <2>1 DEF From, Elem, Sep
  <2>3. Later(d) = t
    BY <1>1, <1>2, <2>2 DEF Then
  <2> QED BY <1>2, <1>3, <2>3
<1>9. ASSUME NEW w \in Tokens, Gives(sep, 0, t, w), NEW u \in Tokens, NEW v, Gives(q, 0, w, u), Gives(r, 1, u, v)
      PROVE  Gives(r, 1, t, v)
  <2>1. PICK d1 \in Nat : From(d1, sep, 0, t, w) /\ From(d1, q, 0, w, u)
    BY <1>4, <1>9, KnownTogether
  <2>2. PICK d2 \in Nat : From(d2, q, 0, w, u) /\ From(d2, r, 1, u, v)
    BY <1>4, <1>9, KnownTogether
  <2>3. PICK d \in Nat : d >= d1 /\ d >= d2
    <3>1. d1 + d2 \in Nat /\ d1 + d2 >= d1 /\ d1 + d2 >= d2
      OBVIOUS
    <3> QED BY <3>1
  <2>4. Sep(d) = w /\ Elem(d, w) = u /\ More(d, u) = v /\ v # Unknown
    BY <1>9, <2>1, <2>2, <2>3 DEF From, Elem, Sep, More, Gives
  <2>5. Later(d) = v
    BY <1>1, <1>2, <2>4 DEF Then
  <2> QED BY <1>3, <2>4, <2>5
<1> QED BY <1>4, <1>5, <1>6, <1>7, <1>8, <1>9 DEF q, sep

\* Lookaheads and productions.
LEMMA OneRuleGives ==
    ASSUME Typed, NEW r \in Rules, Type(r) \in {"neg", "pos", "production"}, NEW t \in Tokens,
           Type(r) = "neg" => t # token_tail
    PROVE  LET g == grammar[r] IN
           /\ g.rule \in Rules
           /\ Gives(g.rule, 0, t, NoMatch) => Gives(r, 0, t, IF Type(r) = "neg" THEN t ELSE NoMatch)
           /\ \A u \in Tokens : Gives(g.rule, 0, t, u) =>
                 Gives(r, 0, t, CASE Type(r) = "neg" -> NoMatch
                                  [] Type(r) = "pos" -> t
                                  [] OTHER -> IF g.action = "reject" THEN NoMatch ELSE u)
<1> DEFINE g == grammar[r]
           Sub(d) == Sem[At(d, g.rule, 0, t)]
           Out(d) == Outcome("code", grammar, input, Sem, d, r, 0, t)
           OnMatch(u) == CASE Type(r) = "neg" -> NoMatch
                       [] Type(r) = "pos" -> t
                       [] OTHER -> IF g.action = "reject" THEN NoMatch ELSE u
           fails == IF Type(r) = "neg" THEN t ELSE NoMatch
<1>1. \A d \in Nat : Out(d) = Then(Sub(d), fails, OnMatch(Sub(d)))
  <2> TAKE d \in Nat
  <2>1. Type(r) = "neg" => ~GivesUp("code", input, 0, t)
    BY DEF GivesUp, token_tail
  <2>2. CASE Type(r) = "neg"
    BY <2>1, <2>2, OutcomeIs DEF Type, Rules
  <2>3. CASE Type(r) = "pos"
    BY <2>3, OutcomeIs DEF Type, Rules
  <2>4. CASE Type(r) = "production"
    BY <2>4, OutcomeIs DEF Type, Rules
  <2> QED BY <2>2, <2>3, <2>4
<1>2. /\ t # Unknown /\ NoMatch # Unknown /\ fails # Unknown
      /\ \A u \in Tokens : u \notin {Unknown, NoMatch} /\ OnMatch(u) # Unknown
  BY Tables DEF NoMatch, Unknown
<1>3. \A d \in Nat : \A v : Out(d) = v /\ v # Unknown => Gives(r, 0, t, v)
  BY GivesOutcome
<1>4. g.rule \in Rules
  BY Tables DEF RuleAssumption, Type, Rules
<1> HIDE DEF g, Sub, Out, OnMatch, fails
<1>5. ASSUME Gives(g.rule, 0, t, NoMatch) PROVE Gives(r, 0, t, fails)
  <2>1. PICK d \in Nat : Sub(d) = NoMatch
    BY <1>5 DEF Gives, Sub
  <2> QED BY <1>1, <1>2, <1>3, <2>1 DEF Then
<1>6. ASSUME NEW u \in Tokens, Gives(g.rule, 0, t, u) PROVE Gives(r, 0, t, OnMatch(u))
  <2>1. PICK d \in Nat : Sub(d) = u
    BY <1>6 DEF Gives, Sub
  <2> QED BY <1>1, <1>2, <1>3, <2>1 DEF Then
<1> QED BY <1>4, <1>5, <1>6 DEF g, OnMatch, fails

\* Groups give up on the empty token.
LEMMA TailGives ==
    ASSUME Typed, NEW r \in Rules, Type(r) \in {"sequence", "choice", "repeat", "list", "neg"}
    PROVE  Gives(r, 0, token_tail, IF Type(r) = "neg" \/ (Type(r) = "repeat" /\ grammar[r].min = 0)
                                   THEN token_tail ELSE NoMatch)
<1> DEFINE t == token_tail
           v == IF Type(r) = "neg" \/ (Type(r) = "repeat" /\ grammar[r].min = 0) THEN t ELSE NoMatch
<1>1. t \in Tokens /\ v # Unknown
  BY Tables DEF NoMatch, Unknown, token_tail, Tokens
<1>2. GivesUp("code", input, 0, t)
  BY DEF GivesUp, token_tail
<1>3. Outcome("code", grammar, input, Sem, 0, r, 0, t) = v
  <2>1. CASE Type(r) \in {"sequence", "choice", "list", "neg"}
    BY <1>2, <2>1, OutcomeIs DEF Type, Rules
  <2>2. CASE Type(r) = "repeat"
    <3>1. grammar[r].min \in Nat
      BY <2>2, Tables DEF RuleAssumption, Type, Rules
    <3>2. Outcome("code", grammar, input, Sem, 0, r, 0, t) = Enough(grammar[r], 0, t)
      BY <1>2, <2>2, OutcomeIs DEF Type, Rules
    <3> QED BY <2>2, <3>1, <3>2 DEF Enough
  <2> QED BY <2>1, <2>2
<1> HIDE DEF v, t
<1>4. Gives(r, 0, t, v)
  BY <1>1, <1>3, GivesOutcome
<1> QED BY <1>4 DEF v, t

\* Where node n ends, as the reference says it.
End(n) == IF n = Fail THEN NoMatch ELSE nodes[n].end + 1

\* Every result in the cache is what the rule means at its token.
Meant == \A r \in Rules, t \in Tokens : memo[r][t] # NoNode => Gives(r, 0, t, End(memo[r][t]))

\* What a Rule_check that returns in this step says is what the rule means.
Decides ==
    mode' = "ret" =>
        /\ ret'.rule \in Rules /\ ret'.tok \in Tokens
        /\ Gives(ret'.rule, 0, ret'.tok, IF ret'.node = Fail THEN NoMatch ELSE cur')

\* Leave decides by the cursor.
LEMMA LeaveDecides ==
    ASSUME NEW r \in Rules, NEW t \in Tokens, NEW n, NEW pool, NEW next, NEW rest,
           Leave(r, t, n, pool, next, rest), Gives(r, 0, t, IF n = Fail THEN NoMatch ELSE next)
    PROVE  Decides
<1>1. ret'.rule = r /\ ret'.tok = t /\ ret'.node = n /\ (n # Fail => cur' = next)
  BY DEF Leave
<1> QED BY <1>1 DEF Decides

\* A new node is a success.
LEMMA LeaveNewDecides ==
    ASSUME Typed, NEW r \in Rules, NEW t \in Tokens, NEW start, NEW end, NEW n, NEW next, NEW rest,
           LeaveNew(r, t, start, end, n, next, rest), Gives(r, 0, t, next)
    PROVE  Decides
<1>1. CASE Rebuilds(r, start, n)
  <2>1. Leave(r, t, Len(nodes) + 1, Parser_add_node(r, start, end, n), next, rest)
    BY <1>1 DEF LeaveNew
  <2>2. Len(nodes) + 1 # Fail
    <3>1. Len(nodes) \in Nat
      BY LenProperties DEF Typed, PoolOK
    <3> QED BY <3>1 DEF Fail
  <2> QED BY <2>1, <2>2, LeaveDecides
<1>2. CASE ~Rebuilds(r, start, n)
  BY <1>2 DEF LeaveNew, Crash, Decides
<1> QED BY <1>1, <1>2

\* check_rule_ on a token: literals, and groups that give up on the empty token.
LEMMA EnterDecides ==
    ASSUME Typed,
           Literal \/ Sequence \/ Choice \/ Repeat \/ List \/ NegativeLookahead
              \/ PositiveLookahead \/ EnterProduction
    PROVE  Decides
<1> DEFINE r == callee
           t == cur
<1>1. ASSUME NEW type, Entering(type) PROVE r \in Rules /\ t \in Tokens /\ Type(r) = type
  BY <1>1, EnteringIsEntered DEF Entered
<1>2. ASSUME NEW frame, NEW below, NEW q, CallFrom(frame, below, q) PROVE Decides
  BY <1>2 DEF CallFrom, Decides
<1>3. CASE Literal
  <2>1. Entering("literal") /\ r \in Rules /\ t \in Tokens /\ Type(r) = "literal"
    BY <1>1, <1>3 DEF Literal
  <2>2. Gives(r, 0, t, IF t # token_tail /\ input[t] \in grammar[r].match THEN t + 1 ELSE NoMatch)
    BY <2>1, LiteralGives
  <2>3. CASE ~Empty(cur) /\ input[cur] \in grammar[callee].match
    <3>1. LeaveNew(r, t, t, t, 0, t + 1, stack) /\ Gives(r, 0, t, t + 1)
      BY <1>3, <2>2, <2>3 DEF Literal, Empty
    <3> QED BY <2>1, <3>1, LeaveNewDecides
  <2>4. CASE ~(~Empty(cur) /\ input[cur] \in grammar[callee].match)
    <3>1. Leave(r, t, Fail, nodes, t, stack) /\ Gives(r, 0, t, NoMatch)
      BY <1>3, <2>2, <2>4 DEF Literal, Empty
    <3> QED BY <2>1, <3>1, LeaveDecides
  <2> QED BY <2>3, <2>4
<1>4. ASSUME NEW type \in {"sequence", "choice"}, EnterChain(type) PROVE Decides
  <2>1. r \in Rules /\ t \in Tokens /\ Type(r) = type
    BY <1>1, <1>4 DEF EnterChain
  <2>2. CASE Empty(cur)
    <3>1. Leave(r, t, Fail, nodes, t, stack) /\ t = token_tail
      BY <1>4, <2>2 DEF EnterChain, Empty
    <3>2. Gives(r, 0, t, NoMatch)
      BY <2>1, <3>1, TailGives
    <3> QED BY <2>1, <3>1, <3>2, LeaveDecides
  <2>3. CASE ~Empty(cur)
    BY <1>2, <1>4, <2>3 DEF EnterChain
  <2> QED BY <2>2, <2>3
<1>5. CASE Repeat
  <2>1. r \in Rules /\ t \in Tokens /\ Type(r) = "repeat"
    BY <1>1, <1>5 DEF Repeat
  <2>2. CASE ~Empty(cur)
    BY <1>2, <1>5, <2>2 DEF Repeat
  <2>3. CASE Empty(cur) /\ grammar[r].min > 0
    <3>1. Leave(r, t, Fail, nodes, t, stack) /\ t = token_tail /\ grammar[r].min # 0
      BY <1>5, <2>3 DEF Repeat, Empty
    <3>2. Gives(r, 0, t, NoMatch)
      BY <2>1, <3>1, TailGives
    <3> QED BY <2>1, <3>1, <3>2, LeaveDecides
  <2>4. CASE Empty(cur) /\ ~(grammar[r].min > 0)
    <3>1. LeaveNew(r, t, t, t - 1, 0, t, stack) /\ t = token_tail
      BY <1>5, <2>4 DEF Repeat, Empty
    <3>2. grammar[r].min = 0
      BY <2>1, <2>4, Tables DEF RuleAssumption, Type, Rules
    <3>3. Gives(r, 0, t, t)
      BY <2>1, <3>1, <3>2, TailGives
    <3> QED BY <2>1, <3>1, <3>3, LeaveNewDecides
  <2> QED BY <2>2, <2>3, <2>4
<1>6. CASE List
  <2>1. r \in Rules /\ t \in Tokens /\ Type(r) = "list"
    BY <1>1, <1>6 DEF List
  <2>2. CASE Empty(cur)
    <3>1. Leave(r, t, Fail, nodes, t, stack) /\ t = token_tail
      BY <1>6, <2>2 DEF List, Empty
    <3>2. Gives(r, 0, t, NoMatch)
      BY <2>1, <3>1, TailGives
    <3> QED BY <2>1, <3>1, <3>2, LeaveDecides
  <2>3. CASE ~Empty(cur)
    BY <1>2, <1>6, <2>3 DEF List
  <2> QED BY <2>2, <2>3
<1>7. CASE NegativeLookahead
  <2>1. r \in Rules /\ t \in Tokens /\ Type(r) = "neg"
    BY <1>1, <1>7 DEF NegativeLookahead
  <2>2. CASE Empty(cur)
    <3>1. LeaveNew(r, t, t, t - 1, 0, t, stack) /\ t = token_tail
      BY <1>7, <2>2 DEF NegativeLookahead, Empty
    <3>2. Gives(r, 0, t, t)
      BY <2>1, <3>1, TailGives
    <3> QED BY <2>1, <3>1, <3>2, LeaveNewDecides
  <2>3. CASE ~Empty(cur)
    BY <1>2, <1>7, <2>3 DEF NegativeLookahead
  <2> QED BY <2>2, <2>3
<1>8. CASE PositiveLookahead
  BY <1>2, <1>8 DEF PositiveLookahead
<1>9. CASE EnterProduction
  BY <1>2, <1>9 DEF EnterProduction
<1> QED BY <1>3, <1>4, <1>5, <1>6, <1>7, <1>8, <1>9 DEF Sequence, Choice

-----------------------------------------------------------------------------
(* What the callers wait for *)

\* Two known results of a rule at a token are one.
LEMMA GivesOnce ==
    ASSUME Typed, NEW r \in Rules, NEW k \in Nat, NEW t \in Tokens,
           NEW v1, Gives(r, k, t, v1), NEW v2, Gives(r, k, t, v2)
    PROVE  v1 = v2
<1>1. PICK d \in Nat : From(d, r, k, t, v1) /\ From(d, r, k, t, v2)
  BY KnownTogether
<1> QED BY <1>1 DEF From

\* A result is a failure, or a token that is not before the one the rule began at.
LEMMA GivesForward ==
    ASSUME Typed, NEW r \in Rules, NEW k \in Nat, NEW t \in Tokens, NEW v, Gives(r, k, t, v)
    PROVE  v = NoMatch \/ (v \in Tokens /\ v >= t)
<1>1. PICK d \in Nat : Sem[At(d, r, k, t)] = v
  BY DEF Gives
<1>2. /\ Table(grammar, input) /\ r \in DOMAIN grammar /\ t \in Places(input)
      /\ Moving(grammar, input, Sem, d)
  BY TypedTable, SemanticsMoves DEF Rules, Sem
<1>3. v \in Results(input) /\ Moves(grammar, r, k, t, v)
  BY <1>1, <1>2 DEF Moving
<1>4. v # Unknown
  BY DEF Gives
<1> QED BY <1>3, <1>4, Tables DEF Results, Moves, Unknown, NoMatch

\* What check_rule_ of rule r comes to at token u after k of its parts is what it comes
\* to from token s on.
Leads(r, k, u, s) == \A v : Gives(r, k, u, v) => Gives(r, 0, s, v)

\* w are the tokens between the first n parts of rule r, from token s on.
Path(w, r, s, n) ==
    /\ w[0] = s
    /\ \A i \in 0 .. n : w[i] \in Tokens
    /\ \A i \in 0 .. n - 1 : Gives(Called(r, i), 0, w[i], w[i + 1])

\* The last element of frame f, a list, ended before token w[j]: lists count two children
\* per token, and hold the delimiter that began there.
AfterElement(f, w, j) ==
    /\ Leads(f.rule, 1, w[j], f.start)
    /\ j <= 2 * (w[j] - f.start) + 1
    /\ f.n % 2 = 0 => nodes[f.delim].start = w[j]

\* Frame f has gone along w to token u.
Along(f, u, w) ==
    LET r == f.rule
        s == f.start
        n == f.n
    IN  /\ Type(r) \in {"sequence", "repeat", "list"} => Path(w, r, s, n) /\ w[n] = u
        /\ Type(r) \in {"sequence", "choice", "repeat"} => Leads(r, n, u, s)
        /\ Type(r) = "repeat" => IF grammar[r].max = 0 THEN n <= u - s ELSE n < grammar[r].max
        /\ (Type(r) = "list" /\ n # 0) => AfterElement(f, w, IF n % 2 = 1 THEN n ELSE n - 1)
        /\ Type(r) \in {"choice", "neg", "pos", "production"} => u = s

\* A repetition that matches nothing at token u, over and over, never returns.
Stuck(r, u) ==
    /\ Type(r) = "repeat" \/ Type(r) = "list"
    /\ Type(r) = "repeat" => grammar[r].max = 0
    /\ Type(r) = "list" => Gives(grammar[r].delim, 0, u, u)
    /\ Gives(grammar[r].rule, 0, u, u)

\* Frame f waits at token u: it got there on its way, or it never will return.
Stands(f, u) == Stuck(f.rule, u) \/ \E w : Along(f, u, w)

\* Frame f waits for a rule it called at token u.
Waits(f, u) ==
    /\ f.start # token_tail \/ Type(f.rule) \in {"pos", "production"}
    /\ Stands(f, u)

\* What returns is what the rule means, and lies where it was called.
Answers ==
    /\ ret.tok \in Tokens
    /\ Gives(ret.rule, 0, ret.tok, Verdict)
    /\ ~Ok => cur = ret.tok
    /\ Ok => Placed(ret.rule, ret.tok, nodes[ret.node])

\* So does what the cache has.
CachePlaced == \A r \in Rules, t \in Tokens : Real(memo[r][t]) => Placed(r, t, nodes[memo[r][t]])

\* Results, nodes and callers as the reference has them, whatever the cache has lost.
Faithful ==
    /\ PoolTiled(nodes)
    /\ Meant
    /\ CachePlaced
    /\ mode \in {"call", "ret"} =>
          /\ cur \in Tokens
          /\ \A p \in 1 .. Len(stack) : Waits(stack[p], CalledAt(p))
    /\ mode = "ret" => Answers

\* The frame a Rule_check returns to, and what it got.
LEMMA Waited ==
    ASSUME Typed, Faithful, Rebuildable, mode = "ret", stack # << >>
    PROVE  /\ Top.rule \in Rules /\ Top.start \in Tokens /\ Top.n \in Nat /\ FrameOK(Top) /\ Top \in FrameRec
           /\ ret.rule = Called(Top.rule, Top.n) /\ ret.rule \in Rules
           /\ ret.tok \in Tokens /\ cur \in Tokens
           /\ Gives(Called(Top.rule, Top.n), 0, ret.tok, Verdict)
           /\ Top.start # token_tail \/ Type(Top.rule) \in {"pos", "production"}
           /\ Stands(Top, ret.tok)
           /\ Ok => /\ ret.node \in 1 .. Len(nodes)
                    /\ Placed(ret.rule, ret.tok, nodes[ret.node])
                    /\ cur = nodes[ret.node].end + 1
           /\ ~Ok => cur = ret.tok
<1>1. /\ Len(stack) \in Nat \ {0} /\ Top \in FrameRec /\ FrameOK(Top)
      /\ CalledBy(Len(stack)) = Called(Top.rule, Top.n)
  BY StackTop
<1>2. Top.rule \in Rules /\ Top.start \in Tokens /\ Top.n \in Nat
  BY <1>1 DEF FrameRec
<1>3. Waits(Top, ret.tok)
  <2>1. CalledAt(Len(stack)) = ret.tok /\ Len(stack) \in 1 .. Len(stack)
    BY <1>1 DEF CalledAt
  <2> QED BY <2>1 DEF Faithful, Top
<1>4. ret.rule = Called(Top.rule, Top.n) /\ ret.rule \in Rules
  BY <1>1 DEF CalledBy, Typed
<1>5. Answers /\ cur \in Tokens
  BY DEF Faithful
<1>6. Ok => ret.node \in 1 .. Len(nodes) /\ cur = nodes[ret.node].end + 1
  <2>1. KeepsEnds(nodes) /\ ret.node \in 0 .. Len(nodes)
    BY PoolKeepsEnds DEF Faithful, Typed
  <2>2. Len(nodes) \in Nat
    BY LenProperties DEF Typed, PoolOK
  <2> QED BY <2>1, <2>2 DEF Typed, Ok, Fail
<1> QED BY <1>1, <1>2, <1>3, <1>4, <1>5, <1>6 DEF Waits, Answers

\* A frame that does not go on is not stuck.
LEMMA Unstuck ==
    ASSUME Typed, Faithful, Rebuildable, mode = "ret", stack # << >>,
           Type(Top.rule) \in {"repeat", "list"} => ~Goes(Top.rule, Top.n, ret.node)
    PROVE  \E w : Along(Top, ret.tok, w)
<1> DEFINE r == Top.rule
           n == Top.n
           u == ret.tok
<1>1. /\ r \in Rules /\ n \in Nat /\ u \in Tokens /\ Called(r, n) \in Rules
      /\ Gives(Called(r, n), 0, u, Verdict) /\ Stands(Top, u)
  BY Waited
<1> HIDE DEF r, n, u
<1>2. ASSUME Stuck(r, u) PROVE FALSE
  <2>1. Called(r, n) \in {grammar[r].rule, grammar[r].delim} /\ (Type(r) = "repeat" => Called(r, n) = grammar[r].rule)
    BY <1>2 DEF Called, Stuck
  <2>2. Gives(Called(r, n), 0, u, u)
    BY <1>2, <2>1 DEF Stuck
  <2>3. Verdict = u
    BY <1>1, <2>2, GivesOnce
  <2>4. Ok
    <3>1. u # NoMatch
      BY <1>1, Tables DEF NoMatch
    <3> QED BY <2>3, <3>1 DEF Verdict
  <2>5. Type(r) = "repeat" \/ Type(r) = "list"
    BY <1>2 DEF Stuck
  <2>6. Goes(r, n, ret.node)
    BY <1>2, <2>4, <2>5 DEF Goes, Ok, Stuck
  <2> QED BY <2>5, <2>6 DEF r, n
<1> QED BY <1>1, <1>2 DEF Stands, r, u

\* A path that goes on.
LEMMA PathOn ==
    ASSUME NEW w, NEW r, NEW s, NEW n \in Nat, Path(w, r, s, n),
           NEW v \in Tokens, Gives(Called(r, n), 0, w[n], v)
    PROVE  \E x : /\ Path(x, r, s, n + 1) /\ x[n + 1] = v
                  /\ \A i \in 0 .. n : x[i] = w[i]
<1> DEFINE x == [i \in 0 .. n + 1 |-> IF i = n + 1 THEN v ELSE w[i]]
<1>1. x[n + 1] = v /\ \A i \in 0 .. n : x[i] = w[i]
  OBVIOUS
<1> HIDE DEF x
<1>2. \A i \in 0 .. n + 1 : i = n + 1 \/ i \in 0 .. n
  OBVIOUS
<1>3. \A i \in 0 .. n + 1 : x[i] \in Tokens
  BY <1>1, <1>2 DEF Path
<1>4. ASSUME NEW i \in 0 .. (n + 1) - 1 PROVE Gives(Called(r, i), 0, x[i], x[i + 1])
  <2>1. CASE i = n
    <3>1. i \in 0 .. n
      BY <2>1
    <3> QED BY <1>1, <2>1, <3>1
  <2>2. CASE i # n
    <3>1. i \in 0 .. n - 1 /\ i \in 0 .. n /\ i + 1 \in 0 .. n
      BY <2>2
    <3> QED BY <1>1, <3>1 DEF Path
  <2> QED BY <2>1, <2>2
<1>5. x[0] = s
  <2>1. 0 \in 0 .. n
    OBVIOUS
  <2> QED BY <1>1, <2>1 DEF Path
<1> QED BY <1>1, <1>3, <1>4, <1>5 DEF Path

\* A frame that goes on stands at the cursor.
LEMMA StepsOn ==
    ASSUME Typed, Faithful, Rebuildable, NEW f, ResumeCall(f)
    PROVE  Stands(f, cur)
<1> DEFINE r == Top.rule
           s == Top.start
           n == Top.n
           u == ret.tok
           q == Called(r, n)
<1>1. /\ mode = "ret" /\ stack # << >> /\ Goes(r, n, ret.node) /\ FrameOK(f) /\ f \in FrameRec
      /\ f.rule = r /\ f.start = s /\ f.n = After(r, n)
      /\ Type(r) = "list" /\ n % 2 = 1 => f.delim = ret.node
  BY DEF ResumeCall, Resumed
<1>2. /\ r \in Rules /\ s \in Tokens /\ n \in Nat /\ FrameOK(Top)
      /\ ret.rule = q /\ q \in Rules
      /\ u \in Tokens /\ cur \in Tokens
      /\ Gives(q, 0, u, Verdict)
      /\ s # token_tail \/ Type(r) \in {"pos", "production"}
      /\ Stands(Top, u)
      /\ Ok => Placed(ret.rule, u, nodes[ret.node])
      /\ ~Ok => cur = u
  BY <1>1, Waited
<1>3. Ok => Gives(q, 0, u, cur) /\ cur >= u
  BY <1>2, GivesForward, Tables DEF Verdict, NoMatch
<1>4. ~Ok => Gives(q, 0, u, NoMatch)
  BY <1>2 DEF Verdict
<1>5. /\ SizeMod \in Nat \ {0} /\ SizeMod % 2 = 0 /\ 2 * (Len(input) + 2) <= SizeMod /\ Len(input) \in Nat
      /\ Tokens = 1 .. Len(input) + 1
  BY Tables DEF Rebuildable, Roomy
<1>6. Ok <=> ret.node # Fail
  BY DEF Ok
<1>f. FrameOK(f) /\ f.n = After(r, n) /\ f.rule = r /\ f.start = s
  BY <1>1
<1> HIDE DEF r, s, n, u, q
<1>7. CASE Stuck(r, u)
  <2>1. q \in {grammar[r].rule, grammar[r].delim} /\ (Type(r) = "repeat" => q = grammar[r].rule)
    BY <1>7 DEF Called, Stuck, q
  <2>2. Gives(q, 0, u, u)
    BY <1>7, <2>1 DEF Stuck
  <2>3. Verdict = u
    BY <1>2, <2>2, GivesOnce
  <2>4. u # NoMatch
    BY <1>2, <1>5 DEF NoMatch
  <2>5. cur = u
    BY <1>2, <2>3, <2>4 DEF Verdict
  <2> QED BY <1>7, <1>f, <2>5 DEF Stands
<1>8. ASSUME NEW w, Along(Top, u, w) PROVE Stands(f, cur)
  <2>1. /\ Type(r) \in {"sequence", "repeat", "list"} => Path(w, r, s, n) /\ w[n] = u
        /\ Type(r) \in {"sequence", "choice", "repeat"} => Leads(r, n, u, s)
        /\ Type(r) = "repeat" => IF grammar[r].max = 0 THEN n <= u - s ELSE n < grammar[r].max
        /\ (Type(r) = "list" /\ n # 0) => AfterElement(Top, w, IF n % 2 = 1 THEN n ELSE n - 1)
        /\ Type(r) \in {"choice", "neg", "pos", "production"} => u = s
    BY <1>8 DEF Along, r, s, n
  <2>2. n + 1 \in Nat
    BY <1>2
  <2>3. ASSUME Type(r) \in {"sequence", "repeat", "list"}, Ok
        PROVE  \E x : Path(x, r, s, n + 1) /\ x[n + 1] = cur /\ \A i \in 0 .. n : x[i] = w[i]
    <3>1. Path(w, r, s, n) /\ w[n] = u /\ Gives(Called(r, n), 0, w[n], cur)
      BY <1>3, <2>1, <2>3 DEF q
    <3> QED BY <1>2, <3>1, PathOn
  <2>4. Type(r) \in {"sequence", "choice", "repeat"} => Open(n, u)
    <3>1. w[0] = s \/ Type(r) = "choice" \/ Type(r) \notin {"sequence", "choice", "repeat"}
      BY <2>1 DEF Path
    <3> QED BY <1>2, <2>1, <3>1 DEF Open
  <2>5. CASE Type(r) = "sequence"
    <3>1. Ok /\ f.n = n + 1 /\ n + 1 < Len(grammar[r].deps)
      BY <1>1, <1>6, <1>f, <2>5 DEF Goes, After, FrameOK, r, n
    <3>2. Len(grammar[r].deps) \in Nat
      BY <1>2, <2>5, Tables DEF RuleAssumption, Type, Rules
    <3>3. n < Len(grammar[r].deps) /\ q = grammar[r].deps[n + 1]
      BY <1>2, <2>5, <3>1, <3>2 DEF Called, q
    <3>4. PICK x : Path(x, r, s, n + 1) /\ x[n + 1] = cur
      BY <2>3, <2>5, <3>1
    <3>5. Leads(r, n + 1, cur, s)
      <4>1. ASSUME NEW v, Gives(r, n + 1, cur, v) PROVE Gives(r, 0, s, v)
        <5>1. Gives(r, n, u, v)
          BY <1>2, <1>3, <2>4, <2>5, <3>1, <3>3, <4>1, SequenceGives
        <5> QED BY <2>1, <2>5, <5>1 DEF Leads
      <4> QED BY <4>1 DEF Leads
    <3>6. Along(f, cur, x)
      BY <1>f, <2>5, <3>1, <3>4, <3>5 DEF Along
    <3> QED BY <3>6 DEF Stands
  <2>6. CASE Type(r) = "choice"
    <3>1. ~Ok /\ f.n = n + 1 /\ n + 1 < Len(grammar[r].deps)
      BY <1>1, <1>6, <1>f, <2>6 DEF Goes, After, FrameOK, r, n
    <3>2. Len(grammar[r].deps) \in Nat
      BY <1>2, <2>6, Tables DEF RuleAssumption, Type, Rules
    <3>3. n < Len(grammar[r].deps) /\ q = grammar[r].deps[n + 1]
      BY <1>2, <2>6, <3>1, <3>2 DEF Called, q
    <3>4. cur = u /\ u = s
      BY <1>2, <2>1, <2>6, <3>1
    <3>5. Leads(r, n + 1, cur, s)
      <4>1. ASSUME NEW v, Gives(r, n + 1, cur, v) PROVE Gives(r, 0, s, v)
        <5>1. Gives(r, n, u, v)
          BY <1>2, <1>4, <2>4, <2>6, <3>1, <3>3, <3>4, <4>1, ChoiceGives
        <5> QED BY <2>1, <2>6, <5>1 DEF Leads
      <4> QED BY <4>1 DEF Leads
    <3>6. Along(f, cur, w)
      BY <1>f, <2>6, <3>1, <3>4, <3>5 DEF Along
    <3> QED BY <3>6 DEF Stands
  <2>7. CASE Type(r) = "repeat"
    <3> DEFINE max == grammar[r].max
    <3>1. Ok /\ f.n = SizeT(n + 1) /\ ~(max # 0 /\ SizeT(n + 1) = max)
      BY <1>1, <1>6, <1>f, <2>7 DEF Goes, After, r, n
    <3>2. max \in 0 .. SizeMod - 1 /\ q = grammar[r].rule
      BY <1>2, <2>7, Tables DEF RuleAssumption, Type, Rules, Called, q
    <3>3. IF max = 0 THEN n <= u - s ELSE n < max
      BY <2>1, <2>7
    <3> HIDE DEF max
    <3>4. n + 1 < SizeMod
      BY <1>2, <1>5, <3>2, <3>3
    <3>5. f.n = n + 1
      BY <1>2, <1>5, <3>1, <3>4, NextCount
    <3>6. PICK x : Path(x, r, s, n + 1) /\ x[n + 1] = cur
      BY <2>3, <2>7, <3>1
    <3>7. Leads(r, n + 1, cur, s)
      <4>1. ASSUME NEW v, Gives(r, n + 1, cur, v) PROVE Gives(r, 0, s, v)
        <5>1. ~(max # 0 /\ n = max)
          BY <1>2, <3>2, <3>3
        <5>2. Gives(r, n, u, v)
          BY <1>2, <1>3, <2>4, <2>7, <3>1, <3>2, <4>1, <5>1, RepeatGives DEF max
        <5> QED BY <2>1, <2>7, <5>2 DEF Leads
      <4> QED BY <4>1 DEF Leads
    <3>8. CASE max = 0 /\ cur = u
      <4>1. Stuck(r, cur)
        BY <1>3, <2>7, <3>1, <3>2, <3>8 DEF Stuck, max
      <4> QED BY <1>f, <4>1 DEF Stands
    <3>9. CASE ~(max = 0 /\ cur = u)
      <4>1. IF max = 0 THEN n + 1 <= cur - s ELSE n + 1 < max
        <5>1. max # 0 => n + 1 # max
          BY <3>1, <3>5
        <5> QED BY <1>2, <1>3, <1>5, <3>1, <3>2, <3>3, <3>9, <5>1
      <4>2. Along(f, cur, x)
        BY <1>f, <2>7, <3>5, <3>6, <3>7, <4>1 DEF Along, max
      <4> QED BY <4>2 DEF Stands
    <3> QED BY <3>8, <3>9
  <2>8. CASE Type(r) = "list"
    <3>1. Ok /\ f.n = SizeT(n + 1)
      BY <1>1, <1>6, <1>f, <2>8 DEF Goes, After, r, n
    <3>2. Path(w, r, s, n) /\ w[n] = u /\ w[0] = s
      BY <2>1, <2>8 DEF Path
    <3>3. PICK x : Path(x, r, s, n + 1) /\ x[n + 1] = cur /\ \A i \in 0 .. n : x[i] = w[i]
      BY <2>3, <2>8, <3>1
    <3>4. s # token_tail
      BY <1>2, <2>8
    <3>p. ASSUME NEW i \in 0 .. n - 1
          PROVE  w[i] \in Tokens /\ w[i + 1] \in Tokens /\ Gives(Called(r, i), 0, w[i], w[i + 1])
      <4>1. i \in 0 .. n /\ i + 1 \in 0 .. n
        BY <1>2
      <4> QED BY <3>2, <4>1 DEF Path
    <3>5. CASE n % 2 = 1
      <4>1. AfterElement(Top, w, n)
        BY <2>1, <2>8, <3>5
      <4>2. Leads(r, 1, w[n], s) /\ n <= 2 * (w[n] - s) + 1
        BY <4>1 DEF AfterElement, r, s
      <4>3. n + 1 < SizeMod
        BY <1>2, <1>5, <3>2, <4>2
      <4>4. f.n = n + 1 /\ f.n # 0 /\ f.n % 2 = 0
        BY <1>2, <1>5, <3>1, <3>5, <4>3, NextCount
      <4>5. q = grammar[r].delim /\ f.delim = ret.node
        BY <1>1, <2>8, <3>5 DEF Called, q, r, n
      <4>6. ret.rule \notin Loose
        BY <1>2, <2>8, <4>5, LooseRules DEF LookaheadsIn, Type, Rules
      <4>7. nodes[f.delim].start = u
        BY <1>2, <3>1, <4>5, <4>6 DEF Placed
      <4>8. x[n] = w[n]
        BY <1>2, <3>3
      <4>9. AfterElement(f, x, n)
        BY <1>f, <3>2, <4>2, <4>7, <4>8 DEF AfterElement
      <4>10. (IF f.n % 2 = 1 THEN f.n ELSE f.n - 1) = n
        BY <1>2, <4>4
      <4>11. Along(f, cur, x)
        BY <1>f, <2>8, <3>3, <4>4, <4>9, <4>10 DEF Along
      <4> QED BY <4>11 DEF Stands
    <3>6. CASE n = 0
      <4>1. f.n = 1
        BY <1>5, <3>1, <3>6 DEF SizeT
      <4>2. q = grammar[r].rule /\ u = s
        BY <2>8, <3>2, <3>6 DEF Called, q
      <4>3. Leads(r, 1, cur, s)
        BY <1>2, <1>3, <2>8, <3>1, <3>4, <4>2, ListGives DEF Leads
      <4>4. 1 <= 2 * (cur - s) + 1
        BY <1>2, <1>3, <1>5, <3>1, <4>2
      <4>5. x[1] = cur /\ Path(x, r, s, 1)
        BY <3>3, <3>6
      <4>6. AfterElement(f, x, 1)
        BY <1>f, <4>1, <4>3, <4>4, <4>5 DEF AfterElement
      <4>7. Along(f, cur, x)
        BY <1>f, <2>8, <4>1, <4>5, <4>6 DEF Along
      <4> QED BY <4>7 DEF Stands
    <3>7. CASE n # 0 /\ n % 2 = 0
      <4> DEFINE j == n - 1
      <4>1. j \in 0 .. n - 1 /\ j \in Nat /\ j + 1 = n /\ j % 2 = 1
        BY <1>2, <3>7
      <4>2. AfterElement(Top, w, j)
        BY <2>1, <2>8, <3>7
      <4>3. Leads(r, 1, w[j], s) /\ j <= 2 * (w[j] - s) + 1
        BY <4>2 DEF AfterElement, r, s
      <4>4. w[j] \in Tokens /\ Gives(grammar[r].delim, 0, w[j], u)
        BY <2>8, <3>2, <3>p, <4>1 DEF Called
      <4>5. Gives(grammar[r].rule, 0, u, cur)
        BY <1>3, <2>8, <3>1, <3>7 DEF Called, q
      <4>6. grammar[r].delim \in Rules /\ grammar[r].rule \in Rules
        BY <1>2, <2>8, ListGives
      <4>7. w[j] <= u /\ u <= cur
        <5>1. u # NoMatch
          BY <1>2, <1>5 DEF NoMatch
        <5> QED BY <1>3, <3>1, <4>4, <4>6, <5>1, GivesForward
      <4>8. CASE cur = w[j]
        <5>1. cur = u
          BY <1>2, <1>5, <4>4, <4>7, <4>8
        <5>2. Stuck(r, cur)
          BY <2>8, <4>4, <4>5, <4>8, <5>1 DEF Stuck
        <5> QED BY <1>f, <5>2 DEF Stands
      <4>9. CASE cur # w[j]
        <5>1. n + 1 <= 2 * (cur - s) + 1
          BY <1>2, <1>5, <4>1, <4>3, <4>4, <4>7, <4>9
        <5>2. n + 1 < SizeMod
          BY <1>2, <1>5, <5>1
        <5>3. f.n = n + 1 /\ f.n # 0 /\ f.n % 2 = 1
          BY <1>2, <1>5, <3>1, <3>7, <5>2, NextCount
        <5>4. Leads(r, 1, cur, s)
          <6>1. ASSUME NEW v, Gives(r, 1, cur, v) PROVE Gives(r, 0, s, v)
            <7>1. Gives(r, 1, w[j], v)
              BY <1>2, <2>8, <4>4, <4>5, <6>1, ListGives
            <7> QED BY <4>3, <7>1 DEF Leads
          <6> QED BY <6>1 DEF Leads
        <5>5. AfterElement(f, x, n + 1)
          BY <1>f, <3>3, <5>1, <5>3, <5>4 DEF AfterElement
        <5>6. Along(f, cur, x)
          BY <1>f, <2>8, <3>3, <5>3, <5>5 DEF Along
        <5> QED BY <5>6 DEF Stands
      <4> QED BY <4>8, <4>9
    <3> QED BY <1>2, <3>5, <3>6, <3>7
  <2>9. CASE Type(r) \notin {"sequence", "choice", "repeat", "list"}
    BY <1>1, <2>9 DEF Goes, r
  <2> QED BY <2>5, <2>6, <2>7, <2>8, <2>9
<1> QED BY <1>2, <1>7, <1>8 DEF Stands, r, u

\* The children a frame leaves with lie along its way from its start to the token its
\* node ends before.
LEMMA SpanMeant ==
    ASSUME Typed, Faithful, Rebuildable, mode = "ret", stack # << >>,
           ~Goes(Top.rule, Top.n, ret.node), NEW k \in Nat, NEW next, Spans(k, next)
    PROVE  \E w : Path(w, Top.rule, Top.start, k) /\ w[k] = next
<1> DEFINE r == Top.rule
           s == Top.start
           n == Top.n
           u == ret.tok
<1>1. /\ r \in Rules /\ s \in Tokens /\ n \in Nat /\ FrameOK(Top)
      /\ Gives(Called(r, n), 0, u, Verdict) /\ cur \in Tokens
      /\ ~Ok => cur = u
  BY Waited
<1>2. PICK w : Along(Top, u, w)
  BY Unstuck
<1>3. Type(r) \in {"sequence", "repeat", "list"}
  BY DEF Spans
<1>4. Path(w, r, s, n) /\ w[n] = u
  BY <1>2, <1>3 DEF Along
<1>5. Type(r) = "repeat" => IF grammar[r].max = 0 THEN n <= u - s ELSE n < grammar[r].max
  BY <1>2 DEF Along
<1>6. (Type(r) = "list" /\ n # 0 /\ n % 2 = 0) => nodes[Top.delim].start = w[n - 1]
  BY <1>1, <1>2 DEF Along, AfterElement
<1>7. Ok => \E x : Path(x, r, s, n + 1) /\ x[n + 1] = cur
  <2>1. Ok => Gives(Called(r, n), 0, w[n], cur)
    BY <1>1, <1>4 DEF Verdict
  <2> QED BY <1>1, <1>4, <2>1, PathOn
<1>8. CASE Ok /\ k = n + 1 /\ next = cur
  BY <1>7, <1>8
<1>9. CASE ~Ok /\ k = n /\ next = cur
  BY <1>1, <1>4, <1>9
<1>10. CASE Type(r) = "repeat" /\ Ok /\ k = SizeT(n + 1) /\ k = grammar[r].max /\ k # 0 /\ next = cur
  <2>1. grammar[r].max \in 0 .. SizeMod - 1 /\ SizeMod \in Nat \ {0}
    BY <1>1, <1>10, Tables DEF RuleAssumption, Type, Rules
  <2>2. n + 1 < SizeMod
    BY <1>1, <1>5, <1>10, <2>1
  <2>3. k = n + 1
    BY <1>1, <1>10, <2>1, <2>2, NextCount
  <2> QED BY <1>7, <1>10, <2>3
<1>11. CASE /\ Type(r) = "list" /\ ~Ok /\ n # 0 /\ n % 2 = 0 /\ k = n - 1
            /\ next = nodes[Top.delim].start
  <2>1. w[k] = next
    BY <1>6, <1>11
  <2>2. 0 .. k \subseteq 0 .. n /\ 0 .. k - 1 \subseteq 0 .. n - 1
    BY <1>1, <1>11
  <2>3. Path(w, r, s, k)
    BY <1>4, <2>2 DEF Path
  <2> QED BY <2>1, <2>3
<1> QED BY <1>8, <1>9, <1>10, <1>11 DEF Spans

\* A node the cache has for a rule at a token ends where the rule's match ends.
LEMMA FoundIsMeant ==
    ASSUME Typed, Meant, NEW r \in Rules, NEW t \in Tokens, NEW v, Gives(r, 0, t, v),
           memo[r][t] \in 1 .. Len(nodes)
    PROVE  nodes[memo[r][t]].end + 1 = v
<1>1. memo[r][t] # NoNode /\ memo[r][t] # Fail
  <2>1. Len(nodes) \in Nat
    BY LenProperties DEF Typed, PoolOK
  <2> QED BY <2>1 DEF NoNode, Fail
<1>2. Gives(r, 0, t, nodes[memo[r][t]].end + 1)
  BY <1>1 DEF Meant, End
<1> QED BY <1>2, GivesOnce

\* The new node of a sequence, repeat or list: the walk that finds its children goes along
\* the frame's way, so they lie one behind the other.
LEMMA SpanLies ==
    ASSUME Typed, Faithful, Rebuildable, mode = "ret", stack # << >>,
           ~Goes(Top.rule, Top.n, ret.node), NEW k \in Nat, NEW next, Spans(k, next),
           Rebuilds(Top.rule, Top.start, k)
    PROVE  LET kid(i) == ChildWalk(Top.rule, Top.start, k)[i].kid IN
           /\ next \in Tokens /\ next >= Top.start
           /\ \A i \in 1 .. k : kid(i) \in 1 .. Len(nodes)
           /\ k # 0 => nodes[kid(k)].end = next - 1
           /\ \A i \in 1 .. k - 1 : nodes[kid(i)].end <= nodes[kid(i + 1)].end
           /\ Simplifies(grammar) /\ k = 1 => nodes[kid(1)].start = Top.start
<1> DEFINE r == Top.rule
           s == Top.start
           walk == ChildWalk(r, s, k)
<1>1. r \in Rules /\ s \in Tokens /\ Type(r) \in {"sequence", "repeat", "list"}
  BY Waited DEF Spans
<1>2. PICK w : Path(w, r, s, k) /\ w[k] = next
  BY SpanMeant
<1>s. Rebuilds(r, s, k) /\ (Type(r) = "sequence" => k = Len(grammar[r].deps))
  BY DEF Spans
<1>t. walk[0].next = s
  BY WalkDef
<1> HIDE DEF r, s
<1>3. ASSUME NEW i \in 1 .. k
      PROVE  /\ ChildRule(r, i) = Called(r, i - 1) /\ ChildRule(r, i) \in Rules
             /\ w[i - 1] \in Tokens /\ w[i] \in Tokens
             /\ Gives(ChildRule(r, i), 0, w[i - 1], w[i])
  <2>1. i - 1 \in 0 .. k - 1 /\ i - 1 \in 0 .. k /\ i \in 0 .. k /\ (i - 1) + 1 = i /\ i - 1 \in Nat
    OBVIOUS
  <2>2. ChildRule(r, i) = Called(r, i - 1)
    <3>1. (i - 1) % 2 = 0 <=> i % 2 = 1
      OBVIOUS
    <3> QED BY <1>1, <2>1, <3>1 DEF ChildRule, Called
  <2>3. Called(r, i - 1) \in Rules
    <3>1. Type(r) = "sequence" => i - 1 < Len(grammar[r].deps)
      BY <1>s
    <3> QED BY <1>1, <2>1, <3>1, CalledInTable
  <2> QED BY <1>2, <2>1, <2>2, <2>3 DEF Path
<1>4. /\ \A i \in 1 .. k : /\ walk[i - 1].next \in Tokens
                           /\ walk[i].kid = memo[ChildRule(r, i)][walk[i - 1].next]
                           /\ walk[i].kid \in 1 .. Len(nodes)
                           /\ walk[i].next = nodes[walk[i].kid].end + 1
  <2>1. s \in Positions /\ \A i \in 1 .. k : ChildRule(r, i) \in Rules
    BY <1>1, <1>3, Tables
  <2> QED BY <1>s, <2>1, RebuiltChildren
<1> HIDE DEF walk
<1>5. \A i \in Nat : i <= k => walk[i].next = w[i]
  <2> DEFINE S == {i \in Nat : i <= k => walk[i].next = w[i]}
  <2>1. 0 \in S
    BY <1>2, <1>t DEF Path
  <2>2. ASSUME NEW i \in Nat, i \in S PROVE i + 1 \in S
    <3> SUFFICES ASSUME i + 1 <= k PROVE walk[i + 1].next = w[i + 1]
      OBVIOUS
    <3>1. i + 1 \in 1 .. k /\ (i + 1) - 1 = i /\ walk[i].next = w[i]
      BY <2>2
    <3>2. /\ walk[i + 1].kid = memo[ChildRule(r, i + 1)][w[i]] /\ walk[i + 1].kid \in 1 .. Len(nodes)
          /\ walk[i + 1].next = nodes[walk[i + 1].kid].end + 1
      BY <1>4, <3>1
    <3>3. Gives(ChildRule(r, i + 1), 0, w[i], w[i + 1]) /\ w[i] \in Tokens /\ ChildRule(r, i + 1) \in Rules
      BY <1>3, <3>1
    <3> QED BY <3>2, <3>3, FoundIsMeant DEF Faithful
  <2>3. \A i \in Nat : i \in S
    <3> HIDE DEF S
    <3> QED BY <2>1, <2>2, InductionOnSet
  <2> QED BY <2>3
<1>6. ASSUME NEW i \in 1 .. k
      PROVE  /\ walk[i].kid \in 1 .. Len(nodes)
             /\ nodes[walk[i].kid].end = w[i] - 1
             /\ w[i] \in Tokens /\ w[i - 1] \in Tokens /\ w[i] >= w[i - 1]
             /\ ChildRule(r, i) \notin Loose => nodes[walk[i].kid].start = w[i - 1]
  <2>1. i - 1 \in Nat /\ i \in Nat /\ i - 1 <= k
    OBVIOUS
  <2>2. /\ walk[i].kid = memo[ChildRule(r, i)][w[i - 1]] /\ walk[i].kid \in 1 .. Len(nodes)
        /\ w[i] = nodes[walk[i].kid].end + 1
    BY <1>4, <1>5, <2>1
  <2>3. w[i] # NoMatch /\ w[i] \in Int
    BY <1>3, Tables DEF NoMatch
  <2>4. w[i] >= w[i - 1]
    BY <1>3, <2>3, GivesForward
  <2>5. Real(walk[i].kid)
    <3>1. Len(nodes) \in Nat
      BY LenProperties DEF Typed, PoolOK
    <3> QED BY <2>2, <3>1 DEF Real, Fail, NoNode
  <2>6. Placed(ChildRule(r, i), w[i - 1], nodes[walk[i].kid])
    BY <1>3, <2>2, <2>5 DEF Faithful, CachePlaced
  <2>7. nodes[walk[i].kid].end \in Int
    <3>1. nodes[walk[i].kid] \in NodeRec
      BY <2>2, ElementOfSeq DEF Typed, PoolOK
    <3>2. nodes[walk[i].kid].end \in Null .. Len(input)
      BY <3>1 DEF NodeRec
    <3>3. \A e \in Null .. Len(input) : e \in Int
      BY Tables DEF Null
    <3> QED BY <3>2, <3>3
  <2> QED BY <1>3, <2>2, <2>3, <2>4, <2>6, <2>7 DEF Placed
<1>7. \A i \in Nat : i <= k => w[i] \in Tokens /\ w[i] >= s
  <2> DEFINE S == {i \in Nat : i <= k => w[i] \in Tokens /\ w[i] >= s}
  <2>1. 0 \in S
    BY <1>1, <1>2, Tables DEF Path
  <2>2. ASSUME NEW i \in Nat, i \in S PROVE i + 1 \in S
    <3> SUFFICES ASSUME i + 1 <= k PROVE w[i + 1] \in Tokens /\ w[i + 1] >= s
      OBVIOUS
    <3>1. i + 1 \in 1 .. k /\ (i + 1) - 1 = i
      OBVIOUS
    <3>2. w[i + 1] \in Tokens /\ w[i] \in Tokens /\ w[i + 1] >= w[i] /\ w[i] >= s
      BY <1>6, <2>2, <3>1
    <3> QED BY <1>1, <3>2, Tables
  <2>3. \A i \in Nat : i \in S
    <3> HIDE DEF S
    <3> QED BY <2>1, <2>2, InductionOnSet
  <2> QED BY <2>3
<1>8. next \in Tokens /\ next >= s
  BY <1>2, <1>7
<1>9. ASSUME k # 0 PROVE nodes[walk[k].kid].end = next - 1
  <2>1. k \in 1 .. k
    BY <1>9
  <2> QED BY <1>2, <1>6, <2>1
<1>10. ASSUME NEW i \in 1 .. k - 1 PROVE nodes[walk[i].kid].end <= nodes[walk[i + 1].kid].end
  <2>1. i \in 1 .. k /\ i + 1 \in 1 .. k /\ (i + 1) - 1 = i
    OBVIOUS
  <2>2. /\ nodes[walk[i].kid].end = w[i] - 1 /\ nodes[walk[i + 1].kid].end = w[i + 1] - 1
        /\ w[i + 1] >= w[i] /\ w[i] \in Tokens /\ w[i + 1] \in Tokens
    BY <1>6, <2>1
  <2> QED BY <2>2, Tables
<1>11. ASSUME Simplifies(grammar), k = 1 PROVE nodes[walk[1].kid].start = s
  <2>1. ChildRule(r, 1) \in OnlyChild(grammar[r])
    <3>1. CASE Type(r) = "sequence"
      BY <1>11, <1>s, <3>1 DEF ChildRule, OnlyChild, Type
    <3>2. CASE Type(r) \in {"repeat", "list"}
      BY <3>2 DEF ChildRule, OnlyChild, Type
    <3> QED BY <1>1, <3>1, <3>2
  <2>2. ChildRule(r, 1) \notin Loose
    BY <1>1, <1>11, <2>1, LooseRules DEF LookaheadsIn, Rules
  <2>3. 1 \in 1 .. k /\ 1 - 1 = 0
    BY <1>11
  <2>4. nodes[walk[1].kid].start = w[1 - 1]
    BY <1>6, <2>2, <2>3
  <2> QED BY <1>2, <2>3, <2>4 DEF Path
<1>12. \A i \in 1 .. k : walk[i].kid \in 1 .. Len(nodes)
  BY <1>6
<1> QED BY <1>8, <1>9, <1>10, <1>11, <1>12 DEF walk, r, s

\* check_rule_ of a sequence, choice or repeat that has got an answer.
LEMMA ChainDecides ==
    ASSUME Typed, Faithful, Rebuildable, SequenceResume \/ ChoiceResume \/ RepeatResume
    PROVE  Decides
<1> DEFINE r == Top.rule
           s == Top.start
           g == grammar[r]
           t == ret.tok
           q == Called(r, Top.n)
<1>1. mode = "ret" /\ stack # << >> /\ Type(r) \in {"sequence", "choice", "repeat"}
  BY DEF SequenceResume, ChoiceResume, RepeatResume, Resuming, Top
<1>2. /\ r \in Rules /\ s \in Tokens /\ t \in Tokens /\ cur \in Tokens /\ Top.n \in Nat
      /\ (~Ok => cur = t)
      /\ FrameOK(Top)
  BY <1>1, Waited
<1>3. Gives(q, 0, t, Verdict) /\ s # token_tail
  BY <1>1, Waited
<1>m. PICK m \in Nat : m = Top.n
  BY <1>2
<1>4. ASSUME Type(r) = "repeat" => ~Goes(r, Top.n, ret.node)
      PROVE  \E w : Along(Top, t, w)
  BY <1>1, <1>4, Unstuck
<1>5. /\ Type(r) \in {"sequence", "choice"} => m < Len(grammar[r].deps)
      /\ Type(r) = "repeat" => grammar[r].max \in Nat
  <2>1. Type(r) = "repeat" => {grammar[r].min, grammar[r].max} \subseteq 0 .. SizeMod - 1
    BY <1>2, Tables DEF RuleAssumption, Type, Rules
  <2> QED BY <1>2, <1>m, <2>1 DEF FrameOK
<1> HIDE DEF r, s, t, q, g
<1>7. ASSUME Type(r) = "repeat" => ~Goes(r, Top.n, ret.node)
      PROVE  /\ Top.n = m
             /\ Type(r) \in {"sequence", "choice"} => m < Len(grammar[r].deps)
             /\ Type(r) = "repeat" /\ grammar[r].max # 0 => m < grammar[r].max
             /\ Open(m, t)
             /\ \A v : Gives(r, m, t, v) => Gives(r, 0, s, v)
  <2>1. PICK w : Along(Top, t, w)
    BY <1>4, <1>7
  <2>2. /\ Type(r) \in {"sequence", "repeat"} => Path(w, r, s, m) /\ w[m] = t
        /\ Leads(r, m, t, s)
        /\ Type(r) = "repeat" => IF grammar[r].max = 0 THEN m <= t - s ELSE m < grammar[r].max
        /\ Type(r) = "choice" => t = s
    BY <1>1, <1>m, <2>1 DEF Along, r, s
  <2>3. Open(m, t)
    BY <1>1, <1>3, <2>2 DEF Open, Path, r
  <2> QED BY <1>m, <1>5, <2>2, <2>3 DEF Leads
<1>8. ASSUME NEW frame, NEW p, CallFrom(frame, Below, p) PROVE Decides
  BY <1>8 DEF CallFrom, Decides
<1>9. ASSUME Gives(r, 0, s, NoMatch), LeaveFail PROVE Decides
  BY <1>2, <1>9, LeaveDecides DEF LeaveFail, r, s
<1>10. ASSUME NEW n, Gives(r, 0, s, cur), LeaveSpan(n) PROVE Decides
  BY <1>2, <1>10, LeaveNewDecides DEF LeaveSpan, r, s
<1>11. m + 1 \in Nat /\ Open(m + 1, cur)
  BY DEF Open
<1>12. Ok => Verdict = cur
  BY DEF Verdict
<1>13. ~Ok => Verdict = NoMatch /\ ret.node = Fail
  BY DEF Verdict, Ok
<1>14. CASE SequenceResume
  <2>1. Type(r) = "sequence"
    BY <1>14 DEF SequenceResume, Resuming, Top, r
  <2>2. /\ Top.n = m /\ m < Len(grammar[r].deps) /\ Open(m, t)
        /\ \A v : Gives(r, m, t, v) => Gives(r, 0, s, v)
    BY <1>7, <2>1
  <2>3. q = grammar[r].deps[m + 1]
    BY <2>1, <2>2 DEF q, Called
  <2>4. CASE ~Ok
    <3>1. LeaveFail
      BY <1>13, <1>14, <2>4 DEF SequenceResume, LeaveWith, LeaveFail
    <3>2. Gives(q, 0, t, NoMatch)
      BY <1>3, <1>13, <2>4
    <3>3. Gives(r, m, t, NoMatch)
      BY <1>2, <2>1, <2>2, <2>3, <3>2, SequenceGives
    <3> QED BY <1>9, <2>2, <3>1, <3>3
  <2>5. CASE Ok /\ LastDep
    <3>1. LeaveSpan(Top.n + 1) /\ m + 1 = Len(grammar[r].deps)
      BY <1>14, <2>2, <2>5 DEF SequenceResume, LastDep, r
    <3>2. Gives(q, 0, t, cur)
      BY <1>3, <1>12, <2>5
    <3>3. Gives(r, m + 1, cur, cur)
      BY <1>2, <1>11, <2>1, <3>1, SequenceGives
    <3>4. Gives(r, m, t, cur)
      BY <1>2, <2>1, <2>2, <2>3, <3>2, <3>3, SequenceGives
    <3> QED BY <1>10, <2>2, <3>1, <3>4
  <2>6. CASE Ok /\ ~LastDep
    BY <1>8, <1>14, <2>6 DEF SequenceResume, NextDep
  <2> QED BY <2>4, <2>5, <2>6
<1>15. CASE ChoiceResume
  <2>1. Type(r) = "choice"
    BY <1>15 DEF ChoiceResume, Resuming, Top, r
  <2>2. /\ Top.n = m /\ m < Len(grammar[r].deps) /\ Open(m, t)
        /\ \A v : Gives(r, m, t, v) => Gives(r, 0, s, v)
    BY <1>7, <2>1
  <2>3. q = grammar[r].deps[m + 1]
    BY <2>1, <2>2 DEF q, Called
  <2>4. CASE Ok
    <3>1. LeaveWith(ret.node)
      BY <1>15, <2>4 DEF ChoiceResume
    <3>2. Gives(q, 0, t, cur)
      BY <1>3, <1>12, <2>4
    <3>3. Gives(r, m, t, cur)
      BY <1>2, <2>1, <2>2, <2>3, <3>2, ChoiceGives
    <3>4. Gives(r, 0, s, cur)
      BY <2>2, <3>3
    <3>5. Leave(r, s, ret.node, nodes, cur, Below) /\ ret.node # Fail
      BY <2>4, <3>1 DEF LeaveWith, Ok, r, s
    <3> QED BY <1>2, <3>4, <3>5, LeaveDecides
  <2>5. CASE ~Ok /\ LastDep
    <3>1. LeaveFail /\ m + 1 = Len(grammar[r].deps)
      BY <1>15, <2>2, <2>5 DEF ChoiceResume, LastDep, r
    <3>2. Gives(q, 0, t, NoMatch) /\ cur = t
      BY <1>2, <1>3, <1>13, <2>5
    <3>3. Gives(r, m + 1, t, NoMatch)
      BY <1>2, <1>11, <2>1, <3>1, <3>2, ChoiceGives
    <3>4. Gives(r, m, t, NoMatch)
      BY <1>2, <2>1, <2>2, <2>3, <3>2, <3>3, ChoiceGives
    <3> QED BY <1>9, <2>2, <3>1, <3>4
  <2>6. CASE ~Ok /\ ~LastDep
    BY <1>8, <1>15, <2>6 DEF ChoiceResume, NextDep
  <2> QED BY <2>4, <2>5, <2>6
<1>16. CASE RepeatResume
  <2>1. Type(r) = "repeat" /\ q = grammar[r].rule
    <3>1. Type(r) = "repeat"
      BY <1>16 DEF RepeatResume, Resuming, Top, r
    <3> QED BY <3>1 DEF q, Called
  <2>2. grammar[r].min \in Nat /\ grammar[r].max \in Nat /\ grammar[r].max < SizeMod /\ SizeMod \in Nat \ {0}
    <3>1. /\ {grammar[r].min, grammar[r].max} \subseteq 0 .. SizeMod - 1
          /\ SizeMod \in Nat \ {0}
      BY <1>2, <2>1, Tables DEF RuleAssumption, Type, Rules
    <3> QED BY <3>1
  <2>3. ASSUME NEW n \in Nat, RepeatDone(n), grammar[r].max # 0 => n <= grammar[r].max,
               Gives(r, 0, s, Enough(grammar[r], n, cur))
        PROVE  Decides
    <3>1. CASE n < grammar[r].min
      <4>1. LeaveFail
        BY <2>3, <3>1 DEF RepeatDone, r
      <4>2. Gives(r, 0, s, NoMatch)
        BY <2>3, <3>1 DEF Enough
      <4> QED BY <1>9, <4>1, <4>2
    <3>2. CASE ~(n < grammar[r].min)
      <4>1. ~(grammar[r].max # 0 /\ n > grammar[r].max)
        BY <2>2, <2>3
      <4>2. LeaveSpan(n)
        BY <2>3, <3>2, <4>1 DEF RepeatDone, r
      <4>3. Gives(r, 0, s, cur)
        BY <2>3, <3>2 DEF Enough
      <4> QED BY <1>10, <4>2, <4>3
    <3> QED BY <3>1, <3>2
  <2>4. CASE ~Ok
    <3>1. RepeatDone(Top.n)
      BY <1>16, <2>4 DEF RepeatResume
    <3>2. /\ Top.n = m /\ (grammar[r].max # 0 => m < grammar[r].max) /\ Open(m, t)
          /\ \A v : Gives(r, m, t, v) => Gives(r, 0, s, v)
      BY <1>7, <2>1, <2>4 DEF Goes, Ok
    <3>3. Gives(grammar[r].rule, 0, t, NoMatch) /\ cur = t
      BY <1>2, <1>3, <1>13, <2>1, <2>4
    <3>4. Gives(r, m, t, Enough(grammar[r], m, t))
      BY <1>2, <2>1, <3>2, <3>3, RepeatGives
    <3>5. grammar[r].max # 0 => m <= grammar[r].max
      BY <2>2, <3>2
    <3> QED BY <2>3, <3>1, <3>2, <3>3, <3>4, <3>5
  <2>5. CASE Ok /\ grammar[r].max # 0 /\ SizeT(Top.n + 1) = grammar[r].max
    <3>1. RepeatDone(SizeT(Top.n + 1))
      BY <1>16, <2>5 DEF RepeatResume, r
    <3>2. /\ Top.n = m /\ m < grammar[r].max /\ Open(m, t)
          /\ \A v : Gives(r, m, t, v) => Gives(r, 0, s, v)
      BY <1>7, <2>1, <2>5 DEF Goes
    <3>3. SizeT(Top.n + 1) = m + 1
      <4>1. m < SizeMod /\ m + 1 # SizeMod
        BY <2>2, <3>2
      <4> QED BY <2>2, <3>2, <4>1, NextCount
    <3>4. Gives(grammar[r].rule, 0, t, cur)
      BY <1>3, <1>12, <2>1, <2>5
    <3>5. m + 1 = grammar[r].max
      BY <2>5, <3>3
    <3>6. Gives(r, m + 1, cur, Enough(grammar[r], m + 1, cur))
      BY <1>2, <1>11, <2>1, <2>5, <3>5, RepeatGives
    <3>7. ~(grammar[r].max # 0 /\ m = grammar[r].max)
      BY <2>2, <3>2
    <3>8. Gives(r, m, t, Enough(grammar[r], m + 1, cur))
      BY <1>2, <2>1, <3>2, <3>4, <3>6, <3>7, RepeatGives
    <3>9. m + 1 <= grammar[r].max
      BY <2>2, <3>5
    <3> QED BY <1>11, <2>3, <3>1, <3>2, <3>3, <3>8, <3>9
  <2>6. CASE Ok /\ ~(grammar[r].max # 0 /\ SizeT(Top.n + 1) = grammar[r].max)
    BY <1>8, <1>16, <2>6 DEF RepeatResume, r
  <2> QED BY <2>4, <2>5, <2>6
<1> QED BY <1>14, <1>15, <1>16

\* check_rule_ of a list that has got an answer.
LEMMA ListDecides ==
    ASSUME Typed, Faithful, Rebuildable, ListElement \/ ListDelimiter
    PROVE  Decides
<1> DEFINE r == Top.rule
           s == Top.start
           t == ret.tok
           q == Called(r, Top.n)
           elem == grammar[r].rule
           sep == grammar[r].delim
<1>1. mode = "ret" /\ stack # << >> /\ Type(r) = "list"
  BY DEF ListElement, ListDelimiter, Resuming, Top
<1>2. /\ r \in Rules /\ s \in Tokens /\ t \in Tokens /\ cur \in Tokens /\ Top.n \in Nat
      /\ (~Ok => cur = t)
  BY <1>1, Waited
<1>3. Gives(q, 0, t, Verdict) /\ s # token_tail
  BY <1>1, Waited
<1>m. PICK m \in Nat : m = Top.n
  BY <1>2
<1>4. ~Ok => \E w : Along(Top, t, w)
  BY <1>1, Unstuck DEF Goes, Ok
<1> HIDE DEF r, s, t
<1>6. ASSUME NEW frame, NEW p, CallFrom(frame, Below, p) PROVE Decides
  BY <1>6 DEF CallFrom, Decides
<1>7. CASE Ok
  BY <1>6, <1>7 DEF ListElement, ListDelimiter
<1>8. CASE ~Ok
  <2>1. Verdict = NoMatch /\ cur = t
    BY <1>2, <1>8 DEF Verdict
  <2>2. PICK w : Along(Top, t, w)
    BY <1>4, <1>8
  <2>3. /\ Path(w, r, s, m) /\ w[m] = t
        /\ m # 0 => AfterElement(Top, w, IF m % 2 = 1 THEN m ELSE m - 1)
    BY <1>1, <1>m, <2>2 DEF Along, r, s
  <2>4. CASE ListDelimiter
    <3>1. m % 2 = 1 /\ LeaveSpan(Top.n)
      BY <1>8, <1>m, <2>4 DEF ListDelimiter
    <3>2. q = sep
      BY <1>1, <1>m, <3>1 DEF Called, r
    <3>3. Gives(r, 1, t, t)
      BY <1>1, <1>2, <1>3, <2>1, <3>2, ListGives DEF r
    <3>4. Leads(r, 1, t, s)
      BY <2>3, <3>1 DEF AfterElement, r, s
    <3>5. Gives(r, 0, s, cur)
      BY <2>1, <3>3, <3>4 DEF Leads
    <3> QED BY <1>2, <3>1, <3>5, LeaveNewDecides DEF LeaveSpan, r, s
  <2>5. CASE ListElement
    <3>1. m % 2 = 0 /\ q = elem
      <4>1. m % 2 = 0
        BY <1>m, <2>5 DEF ListElement
      <4> QED BY <1>1, <1>m, <4>1 DEF Called, r
    <3>2. Gives(elem, 0, t, NoMatch)
      BY <1>3, <2>1, <3>1
    <3>3. CASE m = 0
      <4>1. LeaveFail
        BY <1>8, <1>m, <2>5, <3>3 DEF ListElement
      <4>2. t = s
        BY <2>3, <3>3 DEF Path
      <4>3. Gives(r, 0, s, NoMatch)
        BY <1>1, <1>2, <1>3, <3>2, <4>2, ListGives DEF r
      <4> QED BY <1>2, <4>1, <4>3, LeaveDecides DEF LeaveFail, r, s
    <3>4. CASE m # 0
      <4>1. PICK i \in Nat : i = m - 1
        BY <3>4
      <4>2. i \in 0 .. m - 1 /\ i \in 0 .. m /\ i + 1 = m /\ i % 2 = 1
        BY <3>1, <4>1
      <4>3. w[i] \in Tokens /\ Gives(Called(r, i), 0, w[i], t)
        BY <2>3, <4>2 DEF Path
      <4>c. Called(r, i) = sep
        BY <1>1, <4>2 DEF Called
      <4>4. Gives(sep, 0, w[i], t)
        BY <4>3, <4>c
      <4>5. AfterElement(Top, w, i)
        BY <2>3, <3>1, <3>4, <4>1
      <4>6. nodes[Top.delim].start = w[i] /\ Leads(r, 1, w[i], s)
        BY <1>m, <3>1, <4>5 DEF AfterElement, r, s
      <4>7. LeaveNew(Top.rule, Top.start, Top.start, w[i] - 1, Top.n - 1, w[i], Below)
        BY <1>8, <1>m, <2>5, <3>4, <4>6 DEF ListElement
      <4>8. Gives(r, 1, w[i], w[i])
        BY <1>1, <1>2, <3>2, <4>3, <4>4, ListGives DEF r
      <4>9. Gives(r, 0, s, w[i])
        BY <4>6, <4>8 DEF Leads
      <4> QED BY <1>2, <4>7, <4>9, LeaveNewDecides DEF r, s
    <3> QED BY <3>3, <3>4
  <2> QED BY <2>4, <2>5
<1> QED BY <1>7, <1>8

\* check_rule_ of a lookahead or a production that has got an answer.
LEMMA OneRuleDecides ==
    ASSUME Typed, Faithful, Rebuildable, NegativeResume \/ PositiveResume \/ ProductionResume
    PROVE  Decides
<1> DEFINE r == Top.rule
           s == Top.start
           q == grammar[r].rule
<1>1. mode = "ret" /\ stack # << >> /\ Type(r) \in {"neg", "pos", "production"}
  BY DEF NegativeResume, PositiveResume, ProductionResume, Resuming, Top
<1>2. r \in Rules /\ s \in Tokens /\ cur \in Tokens
  BY <1>1, Waited
<1>3. /\ Gives(Called(r, Top.n), 0, ret.tok, Verdict)
      /\ Type(r) = "neg" => s # token_tail
  BY <1>1, Waited
<1>4. Called(r, Top.n) = q
  BY <1>1 DEF Called
<1>5. PICK w : Along(Top, ret.tok, w)
  BY <1>1, Unstuck
<1>6. ret.tok = s
  BY <1>1, <1>5 DEF Along
<1>7. Gives(q, 0, s, Verdict)
  BY <1>3, <1>4, <1>6
<1> HIDE DEF r, s, q
<1>8. /\ ~Ok => /\ ret.node = Fail
                /\ Gives(r, 0, s, IF Type(r) = "neg" THEN s ELSE NoMatch)
      /\ Ok => Gives(r, 0, s, CASE Type(r) = "neg" -> NoMatch
                                [] Type(r) = "pos" -> s
                                [] OTHER -> IF grammar[r].action = "reject" THEN NoMatch ELSE cur)
  <2>1. /\ Gives(q, 0, s, NoMatch) => Gives(r, 0, s, IF Type(r) = "neg" THEN s ELSE NoMatch)
        /\ \A u \in Tokens : Gives(q, 0, s, u) =>
              Gives(r, 0, s, CASE Type(r) = "neg" -> NoMatch
                               [] Type(r) = "pos" -> s
                               [] OTHER -> IF grammar[r].action = "reject" THEN NoMatch ELSE u)
    BY <1>1, <1>2, <1>3, OneRuleGives DEF q
  <2>2. CASE Ok
    <3>1. Gives(q, 0, s, cur)
      BY <1>7, <2>2 DEF Verdict
    <3> QED BY <1>2, <2>1, <2>2, <3>1
  <2>3. CASE ~Ok
    <3>1. Gives(q, 0, s, NoMatch)
      BY <1>7, <2>3 DEF Verdict
    <3> QED BY <2>1, <2>3, <3>1 DEF Ok
  <2> QED BY <2>2, <2>3
<1>9. ASSUME Gives(r, 0, s, NoMatch), LeaveFail PROVE Decides
  BY <1>2, <1>9, LeaveDecides DEF LeaveFail, r, s
<1>10. CASE NegativeResume
  <2>1. Type(r) = "neg"
    BY <1>10 DEF NegativeResume, Resuming, Top, r
  <2>2. CASE Ok
    <3>1. LeaveFail /\ Gives(r, 0, s, NoMatch)
      BY <1>8, <1>10, <2>1, <2>2 DEF NegativeResume
    <3> QED BY <1>9, <3>1
  <2>3. CASE ~Ok
    <3>1. LeaveNew(r, s, s, s - 1, 0, s, Below) /\ Gives(r, 0, s, s)
      BY <1>8, <1>10, <2>1, <2>3 DEF NegativeResume, r, s
    <3> QED BY <1>2, <3>1, LeaveNewDecides
  <2> QED BY <2>2, <2>3
<1>11. CASE PositiveResume
  <2>1. Type(r) = "pos"
    BY <1>11 DEF PositiveResume, Resuming, Top, r
  <2>2. CASE Ok
    <3>1. LeaveNew(r, s, s - 1, s - 1, 0, s, Below) /\ Gives(r, 0, s, s)
      BY <1>8, <1>11, <2>1, <2>2 DEF PositiveResume, r, s
    <3> QED BY <1>2, <3>1, LeaveNewDecides
  <2>3. CASE ~Ok
    <3>1. LeaveFail /\ Gives(r, 0, s, NoMatch)
      BY <1>8, <1>11, <2>1, <2>3 DEF PositiveResume, LeaveWith, LeaveFail
    <3> QED BY <1>9, <3>1
  <2> QED BY <2>2, <2>3
<1>12. CASE ProductionResume
  <2> DEFINE action == grammar[r].action
  <2>1. Type(r) = "production"
    BY <1>12 DEF ProductionResume, Resuming, Top, r
  <2>2. CASE ~Ok
    <3>1. LeaveFail /\ Gives(r, 0, s, NoMatch)
      BY <1>8, <1>12, <2>1, <2>2 DEF ProductionResume, LeaveWith, LeaveFail
    <3> QED BY <1>9, <3>1
  <2>3. CASE Ok /\ action = "reject"
    <3>1. LeaveFail
      BY <1>12, <2>3 DEF ProductionResume, r
    <3>2. Gives(r, 0, s, NoMatch)
      BY <1>8, <2>1, <2>3
    <3> QED BY <1>9, <3>1, <3>2
  <2>4. CASE Ok /\ action # "reject"
    <3>1. Gives(r, 0, s, cur)
      BY <1>8, <2>1, <2>4
    <3>2. ASSUME NEW n \in Nat \ {0}, NEW pool, Leave(r, s, n, pool, cur, Below) PROVE Decides
      BY <1>2, <3>1, <3>2, LeaveDecides DEF Fail
    <3>3. ret.node \in 1 .. Len(nodes) /\ Len(nodes) \in Nat
      <4>1. ret.node \in 0 .. Len(nodes)
        BY <1>1 DEF Typed
      <4> QED BY <2>4, <4>1, LenProperties DEF Ok, Fail, Typed, PoolOK
    <3>4. ret.node \in Nat \ {0}
      BY <3>3
    <3>5. ASSUME NEW label, Relabel(ret.node, label) PROVE Decides
      BY <3>2, <3>4, <3>5 DEF Relabel, r, s
    <3>6. ASSUME LeaveWith(ret.node) PROVE Decides
      BY <3>2, <3>4, <3>6 DEF LeaveWith, r, s
    <3>7. ASSUME WrapNode(ret.node) PROVE Decides
      <4> DEFINE pool == Parser_add_node(r, nodes[ret.node].start, nodes[ret.node].end, 1)
      <4>1. CASE Rebuilds(r, nodes[ret.node].start, 1)
        <5>1. Leave(r, s, Len(pool), [pool EXCEPT ![Len(pool)].kids = <<ret.node>>], cur, Below)
          BY <3>7, <4>1 DEF WrapNode, r, s
        <5>2. Len(pool) = Len(nodes) + 1
          <6>1. nodes \in Seq(NodeRec)
            BY DEF Typed, PoolOK
          <6> QED BY <6>1 DEF Parser_add_node
        <5>3. Len(pool) \in Nat \ {0}
          BY <3>3, <5>2
        <5> HIDE DEF pool
        <5> QED BY <3>2, <5>1, <5>3
      <4>2. CASE ~Rebuilds(r, nodes[ret.node].start, 1)
        BY <3>7, <4>2 DEF WrapNode, Crash, Decides, r
      <4> QED BY <4>1, <4>2
    <3>8. nodes[ret.node].kids \in Seq(Nat) /\ \A k \in 1 .. Len(nodes[ret.node].kids) :
              nodes[ret.node].kids[k] \in Nat \ {0}
      <4>1. nodes[ret.node] \in NodeRec
        BY <3>3, ElementOfSeq DEF Typed, PoolOK
      <4>2. \A k \in 1 .. Len(nodes[ret.node].kids) : nodes[ret.node].kids[k] \in 1 .. ret.node
        BY <3>3 DEF Typed, PoolOK
      <4>3. 1 .. ret.node \subseteq Nat \ {0}
        BY <3>4
      <4> QED BY <4>1, <4>2, <4>3 DEF NodeRec
    <3>9. CASE action = "default" /\ BuildDefault(ret.node)
      BY <3>5, <3>6, <3>7, <3>9 DEF BuildDefault
    <3>10. CASE action = "skip" /\ Relabel(ret.node, NotRule)
      BY <3>5, <3>10
    <3>11. CASE action = "simplify" /\ Simplify(ret.node)
      <4>1. CASE Len(nodes[ret.node].kids) = 1
        <5>1. LeaveWith(nodes[ret.node].kids[1])
          BY <3>11, <4>1 DEF Simplify
        <5>2. nodes[ret.node].kids[1] \in Nat \ {0}
          BY <3>8, <4>1
        <5> QED BY <3>2, <5>1, <5>2 DEF LeaveWith, r, s
      <4>2. CASE Len(nodes[ret.node].kids) # 1
        BY <3>5, <3>11, <4>2 DEF Simplify
      <4> QED BY <4>1, <4>2
    <3>12. CASE action = "pass" /\ LeaveWith(ret.node)
      BY <3>6, <3>12
    <3>13. action # "inner"
      <4>1. ~ReturnsInner(grammar)
        BY DEF Rebuildable
      <4> QED BY <1>2, <2>1, <4>1 DEF ReturnsInner, Type, Rules
    <3>14. \/ action = "default" /\ BuildDefault(ret.node)
           \/ action = "skip" /\ Relabel(ret.node, NotRule)
           \/ action = "simplify" /\ Simplify(ret.node)
           \/ action = "pass" /\ LeaveWith(ret.node)
      <4>1. \/ action = "default" /\ BuildDefault(ret.node)
            \/ action = "skip" /\ Relabel(ret.node, NotRule)
            \/ action = "simplify" /\ Simplify(ret.node)
            \/ action = "pass" /\ LeaveWith(ret.node)
            \/ action = "inner"
            \/ action = "reject"
        BY <1>12, <2>4, Zenon DEF ProductionResume, r
      <4> QED BY <2>4, <3>13, <4>1
    <3> QED BY <3>9, <3>10, <3>11, <3>12, <3>14
  <2> QED BY <2>2, <2>3, <2>4
<1> QED BY <1>10, <1>11, <1>12

\* Whatever returns says what it means.
LEMMA StepDecides ==
    ASSUME Typed, Faithful, Rebuildable, Next
    PROVE  Decides
<1>1. CASE Answered
  <2>1. /\ mode = "call" /\ cur \in Tokens /\ callee \in Rules
        /\ CachedResult = memo[callee][cur] /\ cur # Null
    BY <1>1, Tables DEF Answered, Faithful, Typed, CachedResult, Parser_check_cache, token_head, Null
  <2>2. CachedResult # NoNode
    BY <1>1, <2>1 DEF Answered
  <2>3. Gives(callee, 0, cur, End(CachedResult))
    BY <2>1, <2>2 DEF Faithful, Meant
  <2>4. mode' = "ret" => /\ ret' = [rule |-> callee, tok |-> cur, node |-> CachedResult]
                         /\ cur' = IF CachedResult = Fail THEN cur ELSE nodes[CachedResult].end + 1
    BY <1>1, <2>1 DEF Answered
  <2> QED BY <2>1, <2>3, <2>4 DEF Decides, End
<1>2. CASE Finish
  BY <1>2 DEF Finish, Decides
<1> QED BY <1>1, <1>2, EnterDecides, ChainDecides, ListDecides, OneRuleDecides DEF Next

\* A choice and a production stand where they were called, so their answer is in place.
LEMMA FoundInPlace ==
    ASSUME Typed, Faithful, Rebuildable, mode = "ret", stack # << >>,
           Type(Top.rule) \in {"choice", "production"}
    PROVE  InPlace
<1> DEFINE r == Top.rule
<1>1. r \in Rules /\ Top.n \in Nat /\ FrameOK(Top) /\ ret.rule = Called(r, Top.n) /\ ret.rule \in Rules
  BY Waited
<1>2. PICK w : Along(Top, ret.tok, w)
  BY Unstuck
<1>3. ret.tok = Top.start
  BY <1>2 DEF Along
<1> HIDE DEF r
<1>4. CASE Type(r) = "choice"
  <2>1. ASSUME r \notin Loose PROVE ret.rule \notin Loose
    <3>1. ret.rule \in SubRules(grammar[r])
      <4>1. Top.n < Len(grammar[r].deps) /\ Len(grammar[r].deps) \in Nat
        BY <1>1, <1>4, Tables DEF FrameOK, RuleAssumption, Type, r
      <4>2. Top.n + 1 \in 1 .. Len(grammar[r].deps) /\ ret.rule = grammar[r].deps[Top.n + 1]
        BY <1>1, <1>4, <4>1 DEF Called
      <4>3. Top.n + 1 \in DOMAIN grammar[r].deps
        BY <4>2
      <4> QED BY <1>4, <4>2, <4>3 DEF SubRules, Type
    <3>2. SubRules(grammar[r]) \cap Loose = {}
      BY <1>1, <1>4, <2>1, LooseRules DEF LookaheadsIn, Type, Rules
    <3> QED BY <3>1, <3>2
  <2> QED BY <1>3, <1>4, <2>1 DEF InPlace, r
<1>5. CASE Type(r) = "production"
  <2>1. ret.rule = grammar[r].rule
    BY <1>1, <1>5 DEF Called
  <2>2. ret.rule \notin Loose
    BY <1>1, <1>5, <2>1, LooseRules DEF LookaheadsIn, Type, Rules
  <2> QED BY <1>3, <1>5, <2>1, <2>2 DEF InPlace, r
<1> QED BY <1>4, <1>5 DEF r

\* What was known of the way of a frame stays known.
LEMMA WaitsKept ==
    ASSUME Typed, SameGrammar, Extends(nodes'), NEW f \in FrameRec, FrameOK(f), NEW u, Waits(f, u)
    PROVE  Waits(f, u)'
<1>1. /\ Tokens' = Tokens /\ \A r : Type(r)' = Type(r)
      /\ \A r, n : Called(r, n)' = Called(r, n)
      /\ \A r, k, t, v : Gives(r, k, t, v)' <=> Gives(r, k, t, v)
      /\ token_tail' = token_tail
      /\ grammar' = grammar
  BY SameTables DEF SameGrammar, Gives, Sem, Type, token_tail
<1>2. \A r, k, t, s : Leads(r, k, t, s)' <=> Leads(r, k, t, s)
  BY <1>1 DEF Leads
<1>3. \A w, r, s, n : Path(w, r, s, n)' <=> Path(w, r, s, n)
  BY <1>1 DEF Path
<1>4. Stuck(f.rule, u)' <=> Stuck(f.rule, u)
  BY <1>1 DEF Stuck
<1>5. (Type(f.rule) = "list" /\ f.n # 0 /\ f.n % 2 = 0) => nodes'[f.delim].start = nodes[f.delim].start
  <2> SUFFICES ASSUME Type(f.rule) = "list", f.n # 0, f.n % 2 = 0
               PROVE  nodes'[f.delim].start = nodes[f.delim].start
    OBVIOUS
  <2>1. f.delim \in Nat /\ f.delim # Fail /\ f.delim <= Len(nodes)
    BY DEF FrameOK, FrameRec
  <2>2. f.delim \in 1 .. Len(nodes)
    <3>1. Len(nodes) \in Nat
      BY LenProperties DEF Typed, PoolOK
    <3> QED BY <2>1, <3>1 DEF Fail
  <2> QED BY <2>2 DEF Extends
<1>6. ASSUME NEW w, NEW j, Type(f.rule) = "list", f.n # 0, AfterElement(f, w, j)
      PROVE  AfterElement(f, w, j)'
  BY <1>2, <1>5, <1>6 DEF AfterElement
<1>7. ASSUME NEW w, Along(f, u, w) PROVE Along(f, u, w)'
  BY <1>1, <1>2, <1>3, <1>6, <1>7 DEF Along
<1>8. Stands(f, u)'
  BY <1>4, <1>7 DEF Stands, Waits
<1> QED BY <1>1, <1>8 DEF Waits

\* What a step that changes neither grammar nor input leaves as it was.
LEMMA SameMeaning ==
    ASSUME SameGrammar
    PROVE  /\ Rules' = Rules /\ Tokens' = Tokens /\ Loose' = Loose
           /\ Simplifies(grammar)' = Simplifies(grammar)
           /\ \A r, k, t, v : Gives(r, k, t, v)' <=> Gives(r, k, t, v)
           /\ \A r, t, node : Placed(r, t, node)' <=> Placed(r, t, node)
           /\ \A pool : PoolTiled(pool)' <=> PoolTiled(pool)
<1>1. /\ Rules' = Rules /\ Tokens' = Tokens /\ Loose' = Loose
      /\ Simplifies(grammar)' = Simplifies(grammar)
  BY SameTables DEF SameGrammar, Simplifies, Loose
<1>2. \A r, k, t, v : Gives(r, k, t, v)' <=> Gives(r, k, t, v)
  BY SameTables DEF SameGrammar, Gives, Sem
<1>3. \A r, t, node : Placed(r, t, node)' <=> Placed(r, t, node)
  BY <1>1 DEF Placed
<1>4. \A pool : PoolTiled(pool)' <=> PoolTiled(pool)
  BY <1>1 DEF PoolTiled, Tiles
<1> QED BY <1>1, <1>2, <1>3, <1>4

\* As long as nothing is cached nothing changes.
LEMMA IdleMeant ==
    ASSUME SameGrammar, Meant, UNCHANGED <<nodes, memo>>
    PROVE  Meant'
<1>1. /\ Rules' = Rules /\ Tokens' = Tokens
      /\ \A r, k, t, v : Gives(r, k, t, v)' <=> Gives(r, k, t, v)
  BY SameTables DEF SameGrammar, Gives, Sem
<1>2. \A n : End(n)' = End(n)
  BY DEF End
<1> QED BY <1>1, <1>2 DEF Meant

\* Where the cursor of a node that tiles ends up.
LEMMA EndInTokens ==
    ASSUME Typed, NEW pool, PoolOK(pool), PoolTiled(pool), NEW n \in 1 .. Len(pool)
    PROVE  pool[n].end + 1 \in Tokens
<1>1. pool[n] \in NodeRec /\ pool[n].end # Null
  BY ElementOfSeq DEF PoolOK, PoolTiled
<1>2. pool[n].end \in Null .. Len(input)
  BY <1>1 DEF NodeRec
<1>3. \A e \in Null .. Len(input) : e # Null => e + 1 \in Tokens
  BY Tables DEF Null
<1> QED BY <1>1, <1>2, <1>3

\* Rule_check leaves, whether its result is kept or not.
LEMMA LeaveFaithful ==
    ASSUME Typed, Faithful, Rebuildable, SameGrammar, Decides, mode \in {"call", "ret"},
           NEW r \in Rules, NEW t \in Tokens, NEW n, NEW pool, NEW next, NEW rest,
           Result(r, n, pool, next), LowerPart(rest), PoolTiled(pool),
           n # Fail => Placed(r, t, pool[n]),
           \A p \in 1 .. Len(rest) : CalledAt(p) = IF p < Len(rest) THEN rest[p + 1].start ELSE t,
           Leave(r, t, n, pool, next, rest)
    PROVE  Faithful'
<1>1. /\ nodes' = pool /\ stack' = rest /\ mode' = "ret" /\ ret' = [rule |-> r, tok |-> t, node |-> n]
      /\ cur' = IF n = Fail THEN t ELSE next
      /\ memo' = memo \/ memo' = [memo EXCEPT ![r][t] = n]
  BY DEF Leave, Parser_cache_check
<1>2. /\ Rules' = Rules /\ Tokens' = Tokens
      /\ \A q, k, u, v : Gives(q, k, u, v)' <=> Gives(q, k, u, v)
      /\ \A q, u, node : Placed(q, u, node)' <=> Placed(q, u, node)
      /\ \A p : PoolTiled(p)' <=> PoolTiled(p)
  BY SameMeaning
<1>3. /\ PoolOK(pool) /\ Extends(pool) /\ n \in 0 .. Len(pool)
      /\ n # Fail => next = pool[n].end + 1
  BY PoolKeepsEnds DEF Result
<1>4. \A q \in Rules, u \in Tokens : memo'[q][u] = memo[q][u] \/ (q = r /\ u = t /\ memo'[q][u] = n)
  <2>1. memo \in [Rules -> [Tokens -> NoNode .. Len(nodes)]]
    BY DEF Typed
  <2> QED BY <1>1, <2>1
<1>5. n # Fail => n \in 1 .. Len(pool) /\ next \in Tokens
  <2>1. Len(pool) \in Nat
    BY <1>3, LenProperties DEF PoolOK
  <2>2. n # Fail => n \in 1 .. Len(pool)
    BY <1>3, <2>1 DEF Fail
  <2> QED BY <1>3, <2>2, EndInTokens
<1>6. Gives(r, 0, t, IF n = Fail THEN NoMatch ELSE pool[n].end + 1)
  <2>1. Gives(r, 0, t, IF n = Fail THEN NoMatch ELSE cur')
    BY <1>1 DEF Decides
  <2> QED BY <1>1, <1>3, <2>1
<1>7. ASSUME NEW q \in Rules, NEW u \in Tokens, memo[q][u] # NoNode, memo[q][u] # Fail
      PROVE  /\ memo[q][u] \in 1 .. Len(nodes)
             /\ pool[memo[q][u]].start = nodes[memo[q][u]].start
             /\ pool[memo[q][u]].end = nodes[memo[q][u]].end
  <2>1. memo[q][u] \in NoNode .. Len(nodes) /\ Len(nodes) \in Nat
    BY LenProperties DEF Typed, PoolOK
  <2>2. memo[q][u] \in 1 .. Len(nodes)
    BY <1>7, <2>1 DEF NoNode, Fail
  <2> QED BY <1>3, <2>2 DEF Extends
<1>8. ASSUME NEW q \in Rules, NEW u \in Tokens, memo'[q][u] # NoNode
      PROVE  /\ Gives(q, 0, u, End(memo[q][u])')
             /\ memo'[q][u] # Fail => Placed(q, u, pool[memo'[q][u]])
  <2>1. CASE q = r /\ u = t /\ memo'[q][u] = n
    BY <1>1, <1>6, <2>1 DEF End
  <2>2. CASE memo'[q][u] = memo[q][u]
    <3>1. Gives(q, 0, u, End(memo[q][u]))
      BY <1>8, <2>2 DEF Faithful, Meant
    <3>2. memo[q][u] # Fail => Placed(q, u, nodes[memo[q][u]])
      BY <1>8, <2>2 DEF Faithful, CachePlaced, Real
    <3>3. memo[q][u] # Fail => Placed(q, u, pool[memo[q][u]])
      BY <1>7, <1>8, <2>2, <3>2 DEF Placed
    <3>4. End(memo[q][u])' = End(memo[q][u])
      BY <1>1, <1>7, <1>8, <2>2 DEF End
    <3> QED BY <2>2, <3>1, <3>3, <3>4
  <2> QED BY <1>4, <2>1, <2>2
<1>9. Meant'
  <2>1. \A q \in Rules', u \in Tokens' : (memo[q][u] # NoNode)' => Gives(q, 0, u, End(memo[q][u]))'
    BY <1>2, <1>8
  <2> QED BY <2>1 DEF Meant
<1>10. CachePlaced'
  <2>1. \A q \in Rules', u \in Tokens' : Real(memo[q][u])' => Placed(q, u, nodes[memo[q][u]])'
    BY <1>1, <1>2, <1>8 DEF Real
  <2> QED BY <2>1 DEF CachePlaced
<1>11. cur' \in Tokens
  BY <1>1, <1>5
<1>12. ASSUME NEW p \in 1 .. Len(rest) PROVE Waits(rest[p], CalledAt(p))'
  <2>1. /\ p \in 1 .. Len(stack) /\ rest[p] = stack[p] /\ rest[p] \in FrameRec /\ FrameOK(rest[p])
    <3>1. Len(stack) \in Nat /\ Len(rest) \in Nat
      BY LenProperties DEF Typed, LowerPart
    <3> QED BY <3>1, ElementOfSeq DEF Typed, LowerPart
  <2>2. CalledAt(p)' = CalledAt(p)
    BY <1>1 DEF CalledAt
  <2>3. PICK f, at : f = rest[p] /\ at = CalledAt(p)
    OBVIOUS
  <2>4. Waits(f, at) /\ f \in FrameRec /\ FrameOK(f)
    BY <2>1, <2>3 DEF Faithful
  <2>5. Waits(f, at)'
    BY <1>1, <1>3, <2>4, WaitsKept
  <2> QED BY <2>2, <2>3, <2>5
<1>13. Answers'
  <2>1. ret'.tok \in Tokens' /\ ret'.rule = r /\ ret'.tok = t /\ (Ok' <=> n # Fail)
    BY <1>1, <1>2 DEF Ok
  <2>2. Gives(ret.rule, 0, ret.tok, Verdict)'
    <3>1. Gives(r, 0, t, Verdict')
      BY <1>1, <1>3, <1>6, <2>1 DEF Verdict
    <3> QED BY <1>2, <2>1, <3>1
  <2>3. Ok' => Placed(ret.rule, ret.tok, nodes[ret.node])'
    BY <1>1, <1>2, <2>1
  <2> QED BY <1>1, <2>1, <2>2, <2>3 DEF Answers
<1> QED BY <1>1, <1>2, <1>9, <1>10, <1>11, <1>12, <1>13 DEF Faithful

\* check_rule_ calls another rule.
LEMMA CallFaithful ==
    ASSUME Typed, Faithful, SameGrammar, mode \in {"call", "ret"}, NEW f \in FrameRec, NEW below,
           LowerPart(below), FrameOK(f), Waits(f, cur), f.start \in Tokens,
           \A p \in 1 .. Len(below) : CalledAt(p) = IF p < Len(below) THEN below[p + 1].start ELSE f.start,
           NEW r, CallFrom(f, below, r)
    PROVE  Faithful'
<1>1. stack' = Append(below, f) /\ mode' = "call" /\ UNCHANGED <<cur, nodes, memo>>
  BY DEF CallFrom
<1>2. /\ Rules' = Rules /\ Tokens' = Tokens
      /\ \A q, k, u, v : Gives(q, k, u, v)' <=> Gives(q, k, u, v)
      /\ \A q, u, node : Placed(q, u, node)' <=> Placed(q, u, node)
      /\ \A p : PoolTiled(p)' <=> PoolTiled(p)
  BY SameMeaning
<1>3. /\ Len(stack) \in Nat /\ Len(below) \in Nat /\ Len(below) <= Len(stack)
      /\ \A p \in 1 .. Len(below) : p \in 1 .. Len(stack) /\ below[p] = stack[p]
  BY LenProperties DEF Typed, LowerPart
<1>4. /\ Len(stack') = Len(below) + 1
      /\ \A p \in 1 .. Len(below) : stack'[p] = below[p]
      /\ stack'[Len(below) + 1] = f
  BY <1>1, Push DEF LowerPart
<1>5. Extends(nodes')
  <2>1. Len(nodes) \in Nat
    BY LenProperties DEF Typed, PoolOK
  <2> QED BY <1>1, <2>1 DEF Extends
<1>6. ASSUME NEW p \in 1 .. Len(stack'), NEW at, at = CalledAt(p)'
      PROVE  Waits(stack'[p], at) /\ stack'[p] \in FrameRec /\ FrameOK(stack'[p])
  <2>1. CASE p = Len(below) + 1
    <3>1. at = cur
      BY <1>1, <1>3, <1>4, <1>6, <2>1 DEF CalledAt
    <3> QED BY <1>4, <2>1, <3>1
  <2>2. CASE p # Len(below) + 1
    <3>1. p \in 1 .. Len(below) /\ p < Len(stack') /\ p \in 1 .. Len(stack) /\ stack'[p] = stack[p]
      BY <1>3, <1>4, <2>2
    <3>2. at = CalledAt(p)
      <4>1. at = stack'[p + 1].start
        BY <1>6, <3>1 DEF CalledAt
      <4>2. CASE p < Len(below)
        <5>1. p + 1 \in 1 .. Len(below)
          BY <1>3, <4>2
        <5> QED BY <1>4, <3>1, <4>1, <4>2, <5>1
      <4>3. CASE p = Len(below)
        BY <1>4, <3>1, <4>1, <4>3
      <4> QED BY <1>3, <3>1, <4>2, <4>3
    <3> QED BY <3>1, <3>2, ElementOfSeq DEF Faithful, Typed
  <2> QED BY <2>1, <2>2
<1>7. ASSUME NEW p \in 1 .. Len(stack')
      PROVE  Waits(stack[p], CalledAt(p))'
  <2>1. PICK at, g : at = CalledAt(p)' /\ g = stack'[p]
    OBVIOUS
  <2>2. Waits(g, at) /\ g \in FrameRec /\ FrameOK(g)
    BY <1>6, <2>1
  <2>3. Waits(g, at)'
    BY <1>5, <2>2, WaitsKept
  <2> QED BY <2>1, <2>3
<1>8. Meant'
  BY <1>1, IdleMeant DEF Faithful
<1>9. CachePlaced'
  BY <1>1, <1>2 DEF Faithful, CachePlaced, Real
<1>10. PoolTiled(nodes)'
  BY <1>1, <1>2 DEF Faithful
<1> QED BY <1>1, <1>2, <1>7, <1>8, <1>9, <1>10 DEF Faithful

\* A frame that has just been pushed stands where it begins.
LEMMA Begins ==
    ASSUME Typed, NEW f \in FrameRec, f.n = 0
    PROVE  Stands(f, f.start)
<1> DEFINE w == [i \in 0 .. 0 |-> f.start]
<1>1. f.rule \in Rules /\ f.start \in Tokens /\ f.start \in Int
  BY Tables DEF FrameRec
<1>2. w[0] = f.start
  OBVIOUS
<1> HIDE DEF w
<1>3. Path(w, f.rule, f.start, 0)
  <2>1. \A i \in 0 .. 0 : i = 0
    OBVIOUS
  <2>2. \A i \in 0 .. 0 - 1 : FALSE
    OBVIOUS
  <2> QED BY <1>1, <1>2, <2>1, <2>2 DEF Path
<1>4. Leads(f.rule, 0, f.start, f.start)
  BY DEF Leads
<1>5. Type(f.rule) = "repeat" =>
        IF grammar[f.rule].max = 0 THEN 0 <= f.start - f.start ELSE 0 < grammar[f.rule].max
  <2>1. Type(f.rule) = "repeat" => {grammar[f.rule].min, grammar[f.rule].max} \subseteq 0 .. SizeMod - 1
    BY <1>1, Tables DEF RuleAssumption, Type, Rules
  <2> QED BY <1>1, <2>1
<1>6. Along(f, f.start, w)
  BY <1>2, <1>3, <1>4, <1>5 DEF Along
<1> QED BY <1>6 DEF Stands

\* Every action of the engine keeps Faithful.
LEMMA StepFaithful ==
    ASSUME Typed, Faithful, Rebuildable, Next
    PROVE  Faithful'
<1>0. /\ cur \in Positions /\ callee \in Rules
      /\ stack \in Seq(FrameRec) /\ Len(stack) \in Nat /\ (Len(stack) # 0 <=> stack # << >>)
      /\ Decides
  BY LenProperties, EmptySeq, StepDecides DEF Typed
<1>1. ASSUME SameGrammar, UNCHANGED <<nodes, memo>>, mode' \notin {"call", "ret"}
      PROVE  Faithful'
  <2>1. Meant' /\ PoolTiled(nodes)' /\ CachePlaced'
    BY <1>1, IdleMeant, SameMeaning DEF Faithful, CachePlaced, Real
  <2> QED BY <1>1, <2>1 DEF Faithful
<1>2. CASE Answered
  <2>1. /\ SameGrammar /\ mode = "call" /\ cur \in Tokens /\ cur # Null
        /\ CachedResult = memo[callee][cur]
        /\ UNCHANGED <<nodes, memo, stack, callee>>
    BY <1>0, <1>2, Tables DEF Answered, SameGrammar, Faithful, CachedResult, Parser_check_cache, token_head, Null
  <2>2. CachedResult # NoNode
    BY <1>2, <2>1 DEF Answered
  <2>3. CachedResult # Fail => /\ CachedResult \in 1 .. Len(nodes)
                               /\ Placed(callee, cur, nodes[CachedResult])
    <3>1. CachedResult \in NoNode .. Len(nodes) /\ Len(nodes) \in Nat
      BY <1>0, <2>1, LenProperties DEF Typed, PoolOK
    <3>2. CachedResult # Fail => CachedResult \in 1 .. Len(nodes)
      BY <2>2, <3>1 DEF NoNode, Fail
    <3> QED BY <1>0, <2>1, <2>2, <3>2 DEF Faithful, CachePlaced, Real
  <2>4. CachedResult # Fail => nodes[CachedResult].end # Null /\ nodes[CachedResult].end + 1 \in Tokens
    BY <2>3, EndInTokens DEF Faithful, Typed, PoolTiled
  <2>5. /\ mode' = "ret" /\ ret' = [rule |-> callee, tok |-> cur, node |-> CachedResult]
        /\ cur' = IF CachedResult = Fail THEN cur ELSE nodes[CachedResult].end + 1
    BY <1>2, <2>1, <2>2, <2>4 DEF Answered, Real
  <2>6. Meant' /\ PoolTiled(nodes)' /\ CachePlaced'
    BY <2>1, IdleMeant, SameMeaning DEF Faithful, CachePlaced, Real
  <2>7. cur' \in Tokens'
    BY <2>1, <2>4, <2>5, SameMeaning
  <2>8. ASSUME NEW p \in 1 .. Len(stack) PROVE Waits(stack[p], CalledAt(p))'
    <3>1. stack[p] \in FrameRec /\ FrameOK(stack[p]) /\ Waits(stack[p], CalledAt(p))
      BY <1>0, <2>1, ElementOfSeq DEF Faithful, Typed
    <3>2. CalledAt(p)' = CalledAt(p)
      BY <2>1, <2>5 DEF CalledAt
    <3>3. PICK f, at : f = stack[p] /\ at = CalledAt(p)
      OBVIOUS
    <3>4. Extends(nodes')
      BY <2>1, LenProperties DEF Extends, Typed, PoolOK
    <3>5. Waits(f, at)'
      BY <2>1, <3>1, <3>3, <3>4, WaitsKept
    <3>6. stack'[p] = f
      BY <2>1, <3>3
    <3> QED BY <3>2, <3>3, <3>5, <3>6
  <2>9. Answers'
    <3>1. /\ ret'.rule = callee /\ ret'.tok = cur /\ (Ok' <=> CachedResult # Fail)
      BY <2>5 DEF Ok
    <3>2. Gives(ret.rule, 0, ret.tok, Verdict)'
      <4>1. Gives(callee, 0, cur, IF CachedResult = Fail THEN NoMatch ELSE cur')
        BY <1>0, <2>5 DEF Decides
      <4>2. Verdict' = IF CachedResult = Fail THEN NoMatch ELSE cur'
        BY <3>1 DEF Verdict
      <4> QED BY <2>1, <3>1, <4>1, <4>2, SameMeaning
    <3>3. Ok' => Placed(ret.rule, ret.tok, nodes[ret.node])'
      BY <2>1, <2>3, <2>5, <3>1, SameMeaning
    <3> QED BY <2>1, <2>5, <3>1, <3>2, <3>3, SameMeaning DEF Answers
  <2> QED BY <2>1, <2>5, <2>6, <2>7, <2>8, <2>9 DEF Faithful
<1>3. CASE Finish
  BY <1>1, <1>3 DEF Finish, SameGrammar
<1>4. ASSUME NEW n, NEW pool, NEW next, EnterLeave(n, pool, next)
      PROVE  Faithful'
  <2>1. /\ SameGrammar /\ mode = "call" /\ cur \in Tokens
        /\ Result(callee, n, pool, next)
        /\ Leave(callee, cur, n, pool, next, stack)
    BY <1>4 DEF EnterLeave, Entered, SameGrammar
  <2>2. PoolTiled(pool) /\ (n # Fail => Placed(callee, cur, pool[n]))
    BY <1>4, EnterPlaced DEF Faithful
  <2>3. \A p \in 1 .. Len(stack) : CalledAt(p) = IF p < Len(stack) THEN stack[p + 1].start ELSE cur
    BY <2>1 DEF CalledAt
  <2>4. LowerPart(stack) /\ mode \in {"call", "ret"}
    BY <2>1, Lower
  <2> QED BY <1>0, <2>1, <2>2, <2>3, <2>4, LeaveFaithful
<1>5. CASE EnterCall
  <2> DEFINE f == Frame(callee, cur)
  <2>1. /\ SameGrammar /\ mode = "call" /\ cur \in Tokens
        /\ CallFrom(f, stack, Called(callee, 0))
        /\ Type(callee) \in {"pos", "production"} \/ cur # token_tail
        /\ Type(callee) # "literal"
        /\ Type(callee) \in {"sequence", "choice"} => Len(grammar[callee].deps) > 0
    BY <1>5 DEF EnterCall, Entered, SameGrammar
  <2>2. f \in FrameRec /\ f.rule = callee /\ f.start = cur /\ f.n = 0 /\ f.delim = Fail
    BY <1>0, <2>1 DEF Frame, FrameRec, Fail
  <2> HIDE DEF f
  <2>3. FrameOK(f)
    <3>1. 0 < SizeMod /\ Fail <= Len(nodes)
      BY Tables, LenProperties DEF Typed, PoolOK, Fail
    <3>2. Type(callee) \in {"sequence", "choice"} => 0 < Len(grammar[callee].deps)
      BY <1>0, <2>1, Tables DEF RuleAssumption, Type, Rules
    <3> QED BY <2>1, <2>2, <3>1, <3>2 DEF FrameOK
  <2>4. Waits(f, cur)
    BY <2>1, <2>2, Begins DEF Waits
  <2>5. \A p \in 1 .. Len(stack) : CalledAt(p) = IF p < Len(stack) THEN stack[p + 1].start ELSE f.start
    BY <2>1, <2>2 DEF CalledAt
  <2>6. LowerPart(stack) /\ mode \in {"call", "ret"}
    BY <2>1, Lower
  <2> QED BY <2>1, <2>2, <2>3, <2>4, <2>5, <2>6, CallFaithful
<1>6. ASSUME Resumed
      PROVE  /\ SameGrammar /\ mode = "ret" /\ LowerPart(Below) /\ stack # << >>
             /\ \A p \in 1 .. Len(Below) :
                   CalledAt(p) = IF p < Len(Below) THEN Below[p + 1].start ELSE Top.start
  <2>1. mode = "ret" /\ stack # << >> /\ SameGrammar
    BY <1>6 DEF Resumed, SameGrammar
  <2>2. /\ Len(stack) \in Nat \ {0} /\ Len(Below) = Len(stack) - 1
        /\ \A p \in 1 .. Len(stack) - 1 : Below[p] = stack[p]
        /\ Top = stack[Len(stack)]
    BY <2>1, StackTop DEF Top
  <2>3. ASSUME NEW p \in 1 .. Len(Below)
        PROVE  CalledAt(p) = IF p < Len(Below) THEN Below[p + 1].start ELSE Top.start
    <3>1. p < Len(stack) /\ CalledAt(p) = stack[p + 1].start
      BY <2>2 DEF CalledAt
    <3>2. CASE p < Len(Below)
      <4>1. p + 1 \in 1 .. Len(stack) - 1
        BY <2>2, <3>2
      <4> QED BY <2>2, <3>1, <3>2, <4>1
    <3>3. CASE ~(p < Len(Below))
      <4>1. p + 1 = Len(stack)
        BY <2>2, <3>3
      <4> QED BY <2>2, <3>1, <3>3, <4>1
    <3> QED BY <3>2, <3>3
  <2>4. LowerPart(Below)
    BY <2>1, Lower
  <2> QED BY <2>1, <2>3, <2>4
<1>7. ASSUME NEW n, NEW pool, NEW next, ResumeLeave(n, pool, next)
      PROVE  Faithful'
  <2>1. /\ Resumed /\ ~Goes(Top.rule, Top.n, ret.node) /\ Result(Top.rule, n, pool, next)
        /\ Leave(Top.rule, Top.start, n, pool, next, Below)
    BY <1>7 DEF ResumeLeave
  <2>2. /\ Top.rule \in Rules /\ Top.start \in Tokens /\ ret.tok \in Tokens
        /\ Ok => ret.node \in 1 .. Len(nodes) /\ Placed(ret.rule, ret.tok, nodes[ret.node])
    BY <1>6, <2>1, Waited
  <2>3. Type(Top.rule) \in {"choice", "production"} => InPlace
    BY <1>6, <2>1, FoundInPlace
  <2>4. \A k \in Nat : Spans(k, next) /\ Rebuilds(Top.rule, Top.start, k) => Lies(k, next)
    BY <1>6, <2>1, SpanLies DEF Lies
  <2>5. PoolTiled(pool) /\ (n # Fail => Placed(Top.rule, Top.start, pool[n]))
    BY <1>7, <2>2, <2>3, <2>4, ResumePlaced DEF Faithful
  <2> QED BY <1>0, <1>6, <2>1, <2>2, <2>5, LeaveFaithful
<1>8. ASSUME NEW f, ResumeCall(f)
      PROVE  Faithful'
  <2>1. /\ Resumed /\ f \in FrameRec /\ FrameOK(f) /\ f.rule = Top.rule /\ f.start = Top.start
        /\ CallFrom(f, Below, Called(f.rule, f.n))
    BY <1>8 DEF ResumeCall
  <2>2. Top.start # token_tail \/ Type(Top.rule) \in {"pos", "production"}
    BY <1>6, <2>1, Waited
  <2>3. Waits(f, cur)
    BY <1>8, <2>1, <2>2, StepsOn DEF Waits
  <2>4. \A p \in 1 .. Len(Below) : CalledAt(p) = IF p < Len(Below) THEN Below[p + 1].start ELSE f.start
    BY <1>6, <2>1
  <2>5. f.start \in Tokens
    BY <2>1 DEF FrameRec
  <2> QED BY <1>6, <2>1, <2>3, <2>4, <2>5, CallFaithful
<1>9. CASE ResumeCrash
  BY <1>1, <1>6, <1>9 DEF ResumeCrash, Crash
<1> QED BY <1>2, <1>3, <1>4, <1>5, <1>7, <1>8, <1>9, NextShape DEF Shape

\* It holds when a parse starts.
LEMMA InitFaithful == Init => Faithful
<1> SUFFICES ASSUME Init PROVE Faithful
  OBVIOUS
<1>1. Len(nodes) = 0 /\ mode = "call" /\ Len(stack) = 0
  BY EmptySeq DEF Init
<1>2. PoolTiled(nodes) /\ Meant
  BY <1>1 DEF Init, PoolTiled, Meant
<1>3. CachePlaced
  BY DEF Init, CachePlaced, Real
<1>4. cur \in Tokens
  BY InitTyped, Tables DEF Init
<1> QED BY <1>1, <1>2, <1>3, <1>4 DEF Faithful

\* The inductive invariant.
FaithfulInv == Typed /\ Faithful

\* Every step of an instance whose parses can be rebuilt preserves it, whatever the cache
\* loses.
LEMMA FaithfulInductive ==
    ASSUME AllRebuildable
    PROVE  FaithfulInv /\ [Next]_vars => FaithfulInv'
<1> SUFFICES ASSUME FaithfulInv, [Next]_vars PROVE Typed' /\ Faithful'
  BY DEF FaithfulInv
<1>1. Typed /\ Faithful /\ Typed' /\ Rebuildable
  BY TypedInductive DEF FaithfulInv, AllRebuildable, Rebuildable, Typed
<1>2. CASE Next
  BY <1>1, <1>2, StepFaithful
<1>3. CASE UNCHANGED vars
  <2>1. SameGrammar /\ UNCHANGED <<nodes, memo, mode, stack, ret, cur>>
    BY <1>3 DEF vars, SameGrammar
  <2>2. /\ Rules' = Rules /\ Tokens' = Tokens
        /\ \A q, k, u, v : Gives(q, k, u, v)' <=> Gives(q, k, u, v)
        /\ \A q, u, node : Placed(q, u, node)' <=> Placed(q, u, node)
        /\ \A p : PoolTiled(p)' <=> PoolTiled(p)
    BY <2>1, SameMeaning
  <2>3. Meant' /\ PoolTiled(nodes)' /\ CachePlaced'
    BY <1>1, <2>1, <2>2, IdleMeant DEF Faithful, CachePlaced, Real
  <2>4. ASSUME mode \in {"call", "ret"}, NEW p \in 1 .. Len(stack)
        PROVE  Waits(stack[p], CalledAt(p))'
    <3>1. stack[p] \in FrameRec /\ FrameOK(stack[p]) /\ Waits(stack[p], CalledAt(p))
      BY <1>1, <2>4, ElementOfSeq DEF Faithful, Typed
    <3>2. CalledAt(p)' = CalledAt(p) /\ Extends(nodes')
      BY <1>1, <2>1, LenProperties DEF CalledAt, Extends, Typed, PoolOK
    <3>3. PICK f, at : f = stack[p] /\ at = CalledAt(p)
      OBVIOUS
    <3>4. Waits(f, at)'
      BY <1>1, <2>1, <3>1, <3>2, <3>3, WaitsKept
    <3> QED BY <2>1, <3>2, <3>3, <3>4
  <2>5. ASSUME mode = "ret" PROVE Answers'
    <3>1. Answers /\ Verdict' = Verdict /\ (Ok' <=> Ok)
      BY <1>1, <2>1, <2>5 DEF Faithful, Verdict, Ok
    <3> QED BY <2>1, <2>2, <3>1 DEF Answers
  <2>6. mode \in {"call", "ret"} => cur' \in Tokens'
    BY <1>1, <2>1, <2>2 DEF Faithful
  <2> QED BY <1>1, <2>1, <2>3, <2>4, <2>5, <2>6 DEF Faithful
<1> QED BY <1>1, <1>2, <1>3

\* In every parse whose children can be found again, whatever the cache loses: every
\* result it still has is the meaning of the rule at the token, lies there, and every
\* caller waits where its way along the meanings of its subrules has led it.
THEOREM FaithfulHolds ==
    ASSUME AllRebuildable
    PROVE  Spec => []FaithfulInv
<1>1. Init => FaithfulInv
  BY InitTyped, InitFaithful DEF FaithfulInv
<1> QED BY <1>1, FaithfulInductive, PTL DEF Spec

\* The children of a node lie in input order and the last one ends where the node ends.
THEOREM ChildrenAreTiled ==
    ASSUME AllRebuildable
    PROVE  Spec => []ChildrenTile
<1>1. FaithfulInv => ChildrenTile
  <2> SUFFICES ASSUME FaithfulInv, NEW i \in DOMAIN nodes, nodes[i].kids # << >>
               PROVE  LET kids == nodes[i].kids IN
                      /\ nodes[kids[Len(kids)]].end = nodes[i].end
                      /\ \A k \in 1 .. Len(kids) - 1 : nodes[kids[k]].end <= nodes[kids[k + 1]].end
    BY DEF ChildrenTile
  <2>1. nodes \in Seq(NodeRec) /\ i \in 1 .. Len(nodes)
    BY LenProperties DEF FaithfulInv, Typed, PoolOK
  <2>2. nodes[i] \in NodeRec
    BY <2>1, ElementOfSeq
  <2>3. nodes[i].kids \in Seq(Nat) /\ Len(nodes[i].kids) # 0
    BY <2>2, EmptySeq DEF NodeRec
  <2>4. Tiles(nodes[i], nodes)
    BY <2>1 DEF FaithfulInv, Faithful, PoolTiled
  <2> QED BY <2>3, <2>4 DEF Tiles
<1> QED BY <1>1, FaithfulHolds, PTL

\* The rule that returns has what it means as its answer, and leaves the cursor where
\* the match ends, or where it began if there is none.
LEMMA ReturnMeant ==
    ASSUME FaithfulInv, mode = "ret"
    PROVE  /\ ret.rule \in Rules /\ ret.tok \in Tokens /\ Table(grammar, input) /\ Places(input) = Tokens
           /\ Gives(ret.rule, 0, ret.tok, Verdict)
           /\ ~Ok => cur = ret.tok
<1>1. Typed /\ Answers
  BY DEF FaithfulInv, Faithful
<1>2. ret.rule \in Rules
  BY <1>1 DEF Typed
<1> QED BY <1>1, <1>2, TypedTable DEF Answers

\* So it returns what the reference says, evaluated as deep as it takes.
LEMMA MeantReturned ==
    ASSUME \A d \in Nat : \E e \in Depths : d <= e
    PROVE  FaithfulInv => ReturnIsReference
<1> SUFFICES ASSUME FaithfulInv, mode = "ret"
             PROVE  /\ \E d \in Depths : Meaning("code", d) = Verdict
                    /\ ~Ok => cur = ret.tok
  BY DEF ReturnIsReference
<1>1. /\ Typed /\ ret.rule \in Rules /\ ret.tok \in Tokens
      /\ Gives(ret.rule, 0, ret.tok, Verdict)
      /\ ~Ok => cur = ret.tok
  BY ReturnMeant DEF FaithfulInv
<1>2. PICK d \in Nat : From(d, ret.rule, 0, ret.tok, Verdict)
  <2>1. 0 \in Nat
    OBVIOUS
  <2> QED BY <1>1, <2>1, KnownFrom
<1>3. PICK e \in Depths : d <= e
  OBVIOUS
<1>4. e \in Nat /\ e >= d
  BY <1>3, DepthsAssumption
<1>5. Meaning("code", e) = Verdict
  BY <1>2, <1>4 DEF From, Meaning, Sem
<1> QED BY <1>1, <1>3, <1>5

\* Whatever was tried, cached, lost, backed out or relabelled before, Rule_check returns
\* what the rule means at its token, with the cursor where the match ends, or where it
\* began if there is none; the reference evaluated as deep as it takes.
THEOREM ParseIsReference ==
    ASSUME AllRebuildable, \A d \in Nat : \E e \in Depths : d <= e
    PROVE  Spec => []ReturnIsReference
BY FaithfulHolds, MeantReturned, PTL

\* And where giving up is not observable, what the README says.
LEMMA MeantAsReadme == FaithfulInv => AgreesWithReadme
<1> SUFFICES ASSUME FaithfulInv, mode = "ret", NoNullableGroup(grammar), NEW d \in Depths,
                    Meaning("readme", d) # Unknown
             PROVE  Meaning("readme", d) = Verdict
  BY DEF AgreesWithReadme
<1>1. /\ ret.rule \in DOMAIN grammar /\ ret.tok \in Places(input) /\ Table(grammar, input)
      /\ Gives(ret.rule, 0, ret.tok, Verdict)
  BY ReturnMeant DEF Rules
<1>2. d \in Nat /\ 0 \in Nat
  BY DepthsAssumption
<1>3. Sem[At(d, ret.rule, 0, ret.tok)] = Meaning("readme", d)
  BY <1>1, <1>2, ReadingsAgree DEF Meaning, Sem
<1>4. PICK e \in Nat : Sem[At(e, ret.rule, 0, ret.tok)] = Verdict
  BY <1>1 DEF Gives
<1>5. Verdict # Unknown
  BY <1>1 DEF Gives
<1> QED BY <1>1, <1>2, <1>3, <1>4, <1>5, MeaningIsUnique DEF Sem

\* Where no group can match nothing, what Rule_check returns is what the README's
\* operators describe, at every depth at which they decide: giving up on the empty token
\* is not observable.
THEOREM ReadmeHolds ==
    ASSUME AllRebuildable
    PROVE  Spec => []AgreesWithReadme
BY FaithfulHolds, MeantAsReadme, PTL

-----------------------------------------------------------------------------
(* The tree: the rule ids of the nodes *)

\* The subrules of a rule are in its table.
LEMMA SubRulesInTable ==
    ASSUME NEW g, NEW in, Table(g, in), NEW r \in DOMAIN g
    PROVE  SubRules(g[r]) \subseteq DOMAIN g
<1>1. RuleAssumption(g, r)
  BY DEF Table
<1>2. CASE g[r].type = "literal"
  BY <1>2, Zenon DEF SubRules
<1>3. CASE g[r].type \in {"sequence", "choice"}
  <2>1. SubRules(g[r]) = {g[r].deps[i] : i \in DOMAIN g[r].deps}
    BY <1>3, Zenon DEF SubRules
  <2>2. DOMAIN g[r].deps = 1 .. Len(g[r].deps) /\ \A i \in 1 .. Len(g[r].deps) : g[r].deps[i] \in DOMAIN g
    BY <1>1, <1>3 DEF RuleAssumption
  <2> QED BY <2>1, <2>2
<1>4. CASE g[r].type = "list"
  <2>1. SubRules(g[r]) = {g[r].rule, g[r].delim}
    BY <1>4, Zenon DEF SubRules
  <2> QED BY <1>1, <1>4, <2>1 DEF RuleAssumption
<1>5. CASE g[r].type \in {"repeat", "neg", "pos", "production"}
  <2>1. SubRules(g[r]) = {g[r].rule}
    BY <1>5, Zenon DEF SubRules
  <2> QED BY <1>1, <1>5, <2>1 DEF RuleAssumption
<1> QED BY <1>1, <1>2, <1>3, <1>4, <1>5 DEF RuleAssumption

\* The rules below a rule are its subrules and what is below those, and no others.
LEMMA RulesBelowIs ==
    ASSUME NEW g, NEW in, Table(g, in), NEW r \in DOMAIN g
    PROVE  /\ RulesBelow(g, r) \subseteq DOMAIN g
           /\ SubRules(g[r]) \subseteq RulesBelow(g, r)
           /\ \A q \in RulesBelow(g, r) : SubRules(g[q]) \subseteq RulesBelow(g, r)
           /\ \A U \in SUBSET DOMAIN g :
                 (SubRules(g[r]) \subseteq U /\ \A q \in U : SubRules(g[q]) \subseteq U)
                    => RulesBelow(g, r) \subseteq U
<1> DEFINE N == Len(g)
           D == DOMAIN g
           base == SubRules(g[r])
           F == [S \in SUBSET D |-> BelowStep(g, S)]
           w == CHOOSE w : w = [i \in 0 .. N |-> IF i = 0 THEN base ELSE BelowStep(g, w[i - 1])]
<1>1. N \in Nat /\ D = 1 .. N /\ IsFiniteSet(D) /\ Cardinality(D) = N
  BY TableSize
<1>2. \A q \in D : SubRules(g[q]) \subseteq D
  BY SubRulesInTable
<1>3. base \in SUBSET D /\ F \in [SUBSET D -> SUBSET D]
  BY <1>2 DEF BelowStep
<1>4. PICK f \in [0 .. N -> SUBSET D] : Iteration(f, N, base, F)
  <2> DEFINE T == SUBSET D
  <2>1. N \in Nat /\ base \in T /\ F \in [T -> T]
    BY <1>1, <1>3
  <2> HIDE DEF N, D, base, F, w, T
  <2>2. \E f \in [0 .. N -> T] : Iteration(f, N, base, F)
    BY <2>1, Iterates
  <2> QED BY <2>2 DEF T
<1>5. f = [i \in 0 .. N |-> IF i = 0 THEN base ELSE BelowStep(g, f[i - 1])]
  <2>1. \A i \in 1 .. N : F[f[i - 1]] = BelowStep(g, f[i - 1])
    BY <1>1
  <2> HIDE DEF F, base
  <2> QED BY <1>4, <2>1 DEF Iteration
<1>6. w = [i \in 0 .. N |-> IF i = 0 THEN base ELSE BelowStep(g, w[i - 1])]
  BY <1>5
<1>7. RulesBelow(g, r) = w[N]
  BY DEF RulesBelow
<1>8. base \subseteq F[base] /\ \A S, T \in SUBSET D : S \subseteq T => F[S] \subseteq F[T]
  BY <1>3 DEF BelowStep
<1>9. \A S \in SUBSET D : F[S] = BelowStep(g, S)
  OBVIOUS
<1> HIDE DEF w, base, N, D, F
<1>10. w[0] = base /\ \A i \in 1 .. N : w[i] = BelowStep(g, w[i - 1])
  <2>1. 0 \in 0 .. N /\ \A i \in 1 .. N : i \in 0 .. N /\ i # 0
    BY <1>1
  <2> QED BY <1>6, <2>1
<1>11. /\ w[N] \in SUBSET D
       /\ base \subseteq w[N]
       /\ F[w[N]] = w[N]
       /\ \A U \in SUBSET D : (base \subseteq U /\ F[U] \subseteq U) => w[N] \subseteq U
  <2>1. Rounds(w, N, D, base, F)
    BY <1>9, <1>10 DEF Rounds
  <2>2. Spreads(D, base, F)
    BY <1>8 DEF Spreads
  <2>3. LeastClosed(w[N], D, base, F)
    BY <1>1, <1>3, <2>1, <2>2, Settles
  <2> QED BY <2>3 DEF LeastClosed
<1>12. \A q \in w[N] : SubRules(g[q]) \subseteq w[N]
  BY <1>9, <1>11 DEF BelowStep
<1>13. \A U \in SUBSET D : (\A q \in U : SubRules(g[q]) \subseteq U) => F[U] \subseteq U
  BY <1>9 DEF BelowStep
<1> QED BY <1>7, <1>11, <1>12, <1>13 DEF base, D

\* What is below a rule that is below r is below r.
LEMMA BelowBelow ==
    ASSUME NEW g, NEW in, Table(g, in), NEW r \in DOMAIN g, NEW q \in RulesBelow(g, r)
    PROVE  q \in DOMAIN g /\ RulesBelow(g, q) \subseteq RulesBelow(g, r)
BY RulesBelowIs

\* The rules whose node rule r may return are in the table.
LEMMA HandedOnInTable ==
    ASSUME NEW g, NEW in, Table(g, in), NEW r \in DOMAIN g
    PROVE  HandedOn(g, r) \subseteq DOMAIN g
<1>1. CASE g[r].type = "choice"
  BY <1>1, SubRulesInTable, Zenon DEF HandedOn
<1>2. CASE g[r].type = "production"
  BY <1>2, SubRulesInTable, RulesBelowIs, Zenon DEF HandedOn
<1>3. CASE g[r].type \notin {"choice", "production"}
  BY <1>3, Zenon DEF HandedOn
<1> QED BY <1>1, <1>2, <1>3

\* The rules whose node production p may have got: its subrule, what a rule among them may
\* hand on, and no others.
LEMMA FeedsIs ==
    ASSUME NEW g, NEW in, Table(g, in), NEW p \in DOMAIN g, g[p].type = "production"
    PROVE  /\ Feeds(g, p) \subseteq DOMAIN g
           /\ g[p].rule \in Feeds(g, p)
           /\ \A q \in Feeds(g, p) : HandedOn(g, q) \subseteq Feeds(g, p)
           /\ \A x \in Feeds(g, p) : x = g[p].rule \/ \E q \in Feeds(g, p) : x \in HandedOn(g, q)
<1> DEFINE N == Len(g)
           D == DOMAIN g
           base == {g[p].rule}
           F == [S \in SUBSET D |-> FeedStep(g, S)]
           w == CHOOSE w : w = [i \in 0 .. N |-> IF i = 0 THEN base ELSE FeedStep(g, w[i - 1])]
<1>1. N \in Nat /\ D = 1 .. N /\ IsFiniteSet(D) /\ Cardinality(D) = N
  BY TableSize
<1>2. \A q \in D : HandedOn(g, q) \subseteq D
  BY HandedOnInTable
<1>3. base \in SUBSET D /\ F \in [SUBSET D -> SUBSET D]
  <2>1. g[p].rule \in D
    BY DEF Table, RuleAssumption
  <2>2. \A S \in SUBSET D : FeedStep(g, S) \in SUBSET D
    BY <1>2 DEF FeedStep
  <2> QED BY <2>1, <2>2
<1>4. PICK f \in [0 .. N -> SUBSET D] : Iteration(f, N, base, F)
  <2> DEFINE T == SUBSET D
  <2>1. N \in Nat /\ base \in T /\ F \in [T -> T]
    BY <1>1, <1>3
  <2> HIDE DEF N, D, base, F, w, T
  <2>2. \E f \in [0 .. N -> T] : Iteration(f, N, base, F)
    BY <2>1, Iterates
  <2> QED BY <2>2 DEF T
<1>5. f = [i \in 0 .. N |-> IF i = 0 THEN base ELSE FeedStep(g, f[i - 1])]
  <2>1. \A i \in 1 .. N : F[f[i - 1]] = FeedStep(g, f[i - 1])
    BY <1>1
  <2> HIDE DEF F, base
  <2> QED BY <1>4, <2>1 DEF Iteration
<1>6. w = [i \in 0 .. N |-> IF i = 0 THEN base ELSE FeedStep(g, w[i - 1])]
  BY <1>5, ZenonT(60)
<1>7. Feeds(g, p) = w[N]
  BY DEF Feeds
<1>8. base \subseteq F[base] /\ \A S, T \in SUBSET D : S \subseteq T => F[S] \subseteq F[T]
  BY <1>3 DEF FeedStep
<1>9. \A S \in SUBSET D : F[S] = FeedStep(g, S)
  OBVIOUS
<1> HIDE DEF w, base, N, D, F
<1>10. w[0] = base /\ \A i \in 1 .. N : w[i] = FeedStep(g, w[i - 1])
  <2>1. 0 \in 0 .. N /\ \A i \in 1 .. N : i \in 0 .. N /\ i # 0
    BY <1>1
  <2> QED BY <1>6, <2>1
<1>11. /\ w[N] \in SUBSET D
       /\ base \subseteq w[N]
       /\ F[w[N]] = w[N]
       /\ \A U \in SUBSET D : (base \subseteq U /\ F[U] \subseteq U) => w[N] \subseteq U
  <2>1. Rounds(w, N, D, base, F)
    BY <1>9, <1>10 DEF Rounds
  <2>2. Spreads(D, base, F)
    BY <1>8 DEF Spreads
  <2>3. LeastClosed(w[N], D, base, F)
    BY <1>1, <1>3, <2>1, <2>2, Settles
  <2> QED BY <2>3 DEF LeastClosed
<1>12. \A q \in w[N] : HandedOn(g, q) \subseteq w[N]
  BY <1>9, <1>11 DEF FeedStep
<1>13. ASSUME NEW x \in w[N] PROVE x \in base \/ \E q \in w[N] : x \in HandedOn(g, q)
  <2> SUFFICES ASSUME x \notin base, \A q \in w[N] : x \notin HandedOn(g, q) PROVE FALSE
    OBVIOUS
  <2> DEFINE U == w[N] \ {x}
  <2>1. U \in SUBSET D /\ base \subseteq U
    BY <1>11
  <2>2. F[U] \subseteq U
    <3>1. FeedStep(g, U) \subseteq U
      BY <1>12 DEF FeedStep
    <3> QED BY <1>9, <2>1, <3>1
  <2>3. w[N] \subseteq U
    <3> HIDE DEF U
    <3> QED BY <1>11, <2>1, <2>2
  <2> QED BY <2>3
<1> QED BY <1>7, <1>11, <1>12, <1>13 DEF base, D

\* The rules that carry label l if those of S do.
Carriers(g, l, S) ==
    {r \in DOMAIN g :
        \/ OwnLabel(g[r]) /\ l = r
        \/ g[r].type = "production" /\ g[r].action = "skip" /\ l = -1
        \/ MayCarry(g[r], l) /\ \E q \in HandedOn(g, r) : q \in S}

\* The labels of a rule are its own and those of the nodes it may hand on.
LEMMA LabelsClosed ==
    ASSUME NEW g, NEW in, Table(g, in), NEW l \in {-1} \cup DOMAIN g
    PROVE  Carriers(g, l, {r \in DOMAIN g : l \in Labels(g, r)}) = {r \in DOMAIN g : l \in Labels(g, r)}
<1> DEFINE N == Len(g)
           D == DOMAIN g
           P == D \X ({-1} \cup D)
           none == {}
           E == [S \in SUBSET P |-> LabelStep(g, S)]
           F == [S \in SUBSET D |-> Carriers(g, l, S)]
           w == CHOOSE w : w = [i \in 0 .. N |-> IF i = 0 THEN none ELSE LabelStep(g, w[i - 1])]
           f == [i \in 0 .. N |-> {r \in D : <<r, l>> \in w[i]}]
<1>1. N \in Nat /\ IsFiniteSet(D) /\ Cardinality(D) = N
  BY TableSize
<1>2. none \in SUBSET P /\ E \in [SUBSET P -> SUBSET P]
  BY DEF LabelStep
<1>3. none \in SUBSET D /\ F \in [SUBSET D -> SUBSET D]
  BY DEF Carriers
<1>4. PICK h \in [0 .. N -> SUBSET P] : Iteration(h, N, none, E)
  <2> DEFINE T == SUBSET P
  <2>1. N \in Nat /\ none \in T /\ E \in [T -> T]
    BY <1>1, <1>2
  <2> HIDE DEF N, P, none, E, w, T
  <2>2. \E h \in [0 .. N -> T] : Iteration(h, N, none, E)
    BY <2>1, Iterates
  <2> QED BY <2>2 DEF T
<1>5. h = [i \in 0 .. N |-> IF i = 0 THEN none ELSE LabelStep(g, h[i - 1])]
  <2>1. \A i \in 1 .. N : E[h[i - 1]] = LabelStep(g, h[i - 1])
    BY <1>1
  <2> HIDE DEF E, none
  <2> QED BY <1>4, <2>1 DEF Iteration
<1>6. w = [i \in 0 .. N |-> IF i = 0 THEN none ELSE LabelStep(g, w[i - 1])]
  BY <1>5
<1>7. Closure(g, LabelStep) = w[N]
  BY DEF Closure
<1> HIDE DEF w, N, E
<1>8. w[0] = none /\ \A i \in 1 .. N : w[i] = LabelStep(g, w[i - 1])
  <2>1. 0 \in 0 .. N /\ \A i \in 1 .. N : i \in 0 .. N /\ i # 0
    BY <1>1
  <2> QED BY <1>6, <2>1
<1>9. w[N] \subseteq P
  <2>1. N = 0 \/ N \in 1 .. N
    BY <1>1
  <2>2. \A S : LabelStep(g, S) \subseteq P
    BY DEF LabelStep
  <2> QED BY <1>8, <2>1, <2>2
<1>10. \A r \in D : l \in Labels(g, r) <=> <<r, l>> \in w[N]
  <2>1. ASSUME NEW r \in D PROVE l \in Labels(g, r) <=> <<r, l>> \in w[N]
    <3> DEFINE Z == {x \in w[N] : x[1] = r}
    <3>1. Labels(g, r) = {p[2] : p \in Z}
      BY <1>7 DEF Labels
    <3>2. ASSUME l \in Labels(g, r) PROVE <<r, l>> \in w[N]
      <4>1. PICK p \in Z : p[2] = l
        BY <3>1, <3>2
      <4>2. p = <<r, l>>
        BY <1>9, <4>1
      <4> QED BY <4>1, <4>2
    <3>3. ASSUME <<r, l>> \in w[N] PROVE l \in Labels(g, r)
      <4>1. <<r, l>> \in Z /\ <<r, l>>[2] = l
        BY <3>3
      <4> QED BY <3>1, <4>1
    <3> QED BY <3>2, <3>3
  <2> QED BY <2>1
<1>11. \A i \in 1 .. N : f[i - 1] \in SUBSET D /\ f[i] = F[f[i - 1]]
  <2> SUFFICES ASSUME NEW i \in 1 .. N PROVE f[i - 1] \in SUBSET D /\ f[i] = F[f[i - 1]]
    OBVIOUS
  <2>1. /\ f[i] = {r \in D : <<r, l>> \in LabelStep(g, w[i - 1])}
        /\ f[i - 1] = {r \in D : <<r, l>> \in w[i - 1]}
    BY <1>1, <1>8
  <2>2. \A r \in D : <<r, l>> \in P /\ <<r, l>>[1] = r /\ <<r, l>>[2] = l
    OBVIOUS
  <2>3. \A r \in D : <<r, l>> \in LabelStep(g, w[i - 1]) <=>
                        \/ OwnLabel(g[r]) /\ l = r
                        \/ g[r].type = "production" /\ g[r].action = "skip" /\ l = -1
                        \/ MayCarry(g[r], l) /\ \E q \in HandedOn(g, r) : <<q, l>> \in w[i - 1]
    <3> HIDE DEF f, F
    <3> QED BY <2>2, Zenon DEF LabelStep
  <2>4. \A r \in D : HandedOn(g, r) \subseteq D
    BY HandedOnInTable
  <2>5. f[i] = Carriers(g, l, f[i - 1])
    <3> HIDE DEF f, F
    <3> QED BY <2>1, <2>3, <2>4 DEF Carriers
  <2>6. f[i - 1] \in SUBSET D
    BY <2>1
  <2> HIDE DEF f
  <2> QED BY <2>5, <2>6
<1>12. Spreads(D, none, F)
  BY DEF Spreads, Carriers
<1>13. f[0] = none /\ f[N] = {r \in D : <<r, l>> \in w[N]}
  BY <1>1, <1>8
<1> HIDE DEF f, F, none, D
<1>14. Rounds(f, N, D, none, F)
  BY <1>11, <1>13 DEF Rounds
<1>15. LeastClosed(f[N], D, none, F)
  BY <1>1, <1>3, <1>12, <1>14, Settles
<1>16. F[f[N]] = f[N] /\ f[N] \in SUBSET D
  BY <1>15 DEF LeastClosed
<1>17. Carriers(g, l, f[N]) = f[N]
  BY <1>16 DEF F
<1>18. f[N] = {r \in D : l \in Labels(g, r)}
  BY <1>10, <1>13
<1> QED BY <1>17, <1>18 DEF D

\* So these are labels of a rule.
LEMMA LabelsOf ==
    ASSUME NEW g, NEW in, Table(g, in), NEW r \in DOMAIN g
    PROVE  /\ OwnLabel(g[r]) => r \in Labels(g, r)
           /\ (g[r].type = "production" /\ g[r].action = "skip") => -1 \in Labels(g, r)
           /\ \A q \in HandedOn(g, r) : \A l \in {-1} \cup DOMAIN g :
                 (l \in Labels(g, q) /\ MayCarry(g[r], l)) => l \in Labels(g, r)
<1>1. HandedOn(g, r) \subseteq DOMAIN g
  BY HandedOnInTable
<1>2. ASSUME NEW l \in {-1} \cup DOMAIN g,
             \/ OwnLabel(g[r]) /\ l = r
             \/ g[r].type = "production" /\ g[r].action = "skip" /\ l = -1
             \/ MayCarry(g[r], l) /\ \E q \in HandedOn(g, r) : l \in Labels(g, q)
      PROVE  l \in Labels(g, r)
  <2> DEFINE S == {q \in DOMAIN g : l \in Labels(g, q)}
  <2>1. r \in Carriers(g, l, S)
    BY <1>1, <1>2 DEF Carriers
  <2>2. Carriers(g, l, S) = S
    BY LabelsClosed
  <2>3. r \in S
    BY <2>1, <2>2
  <2> QED BY <2>3
<1> QED BY <1>2

\* The rules whose node may be the one a production relabels.
Relabelled(g) == UNION {Feeds(g, p) : p \in {q \in DOMAIN g : Relabels(g[q])}}

\* What UnsharedBodies says of them: the one rule that refers to such a rule is the
\* production that relabels its node, or a choice or production that hands the node on to it.
LEMMA RelabelledIs ==
    ASSUME NEW g, NEW in, Table(g, in), UnsharedBodies(g)
    PROVE  /\ Relabelled(g) \subseteq DOMAIN g
           /\ \A p \in DOMAIN g : Relabels(g[p]) => g[p].rule \in Relabelled(g)
           /\ \A q \in Relabelled(g) : HandedOn(g, q) \subseteq Relabelled(g) /\ ~TakesChild(g[q])
           /\ \A x \in Relabelled(g), r \in DOMAIN g : x \in SubRules(g[r]) =>
                 /\ g[r].type \in {"choice", "production"}
                 /\ \A s \in DOMAIN g : x \in SubRules(g[s]) => s = r
<1> DEFINE P == {q \in DOMAIN g : Relabels(g[q])}
<1>1. \A p \in P : /\ p \in DOMAIN g /\ Relabels(g[p]) /\ g[p].type = "production"
                   /\ g[p].rule \in SubRules(g[p])
  <2>1. \A p \in P : p \in DOMAIN g /\ Relabels(g[p]) /\ g[p].type = "production"
    BY DEF Relabels
  <2>2. \A rule : rule.type = "production" => rule.rule \in SubRules(rule)
    BY DEF SubRules
  <2> QED BY <2>1, <2>2
<1>2. \A p \in P : Feeds(g, p) \subseteq Relabelled(g)
  BY DEF Relabelled
<1>3. \A x \in Relabelled(g) : \E p \in P : x \in Feeds(g, p)
  BY DEF Relabelled
<1>4. Relabelled(g) \subseteq DOMAIN g
  BY <1>1, <1>3, FeedsIs
<1>5. \A p \in P : g[p].rule \in Relabelled(g)
  BY <1>1, <1>2, FeedsIs
<1>6. ASSUME NEW q \in Relabelled(g) PROVE HandedOn(g, q) \subseteq Relabelled(g) /\ ~TakesChild(g[q])
  <2>1. PICK p \in P : q \in Feeds(g, p)
    BY <1>3
  <2>2. HandedOn(g, q) \subseteq Feeds(g, p)
    BY <1>1, <2>1, FeedsIs
  <2>3. ~TakesChild(g[q])
    BY <1>1, <2>1 DEF UnsharedBodies
  <2> QED BY <1>2, <2>2, <2>3
<1>7. ASSUME NEW x \in Relabelled(g), NEW r \in DOMAIN g, x \in SubRules(g[r])
      PROVE  /\ g[r].type \in {"choice", "production"}
             /\ \A s \in DOMAIN g : x \in SubRules(g[s]) => s = r
  <2>1. PICK p \in P : x \in Feeds(g, p)
    BY <1>3
  <2> DEFINE R == {s \in DOMAIN g : x \in SubRules(g[s])}
  <2>2. Cardinality(R) = 1 /\ \A q \in Feeds(g, p) : ~TakesChild(g[q])
    BY <1>1, <2>1 DEF UnsharedBodies
  <2>3. IsFiniteSet(R)
    BY TableSize, FS_Subset
  <2>4. PICK one : R = {one}
    BY <2>2, <2>3, FS_Singleton
  <2>5. \A s \in DOMAIN g : x \in SubRules(g[s]) => s = r
    BY <1>7, <2>4
  <2>6. CASE x = g[p].rule
    BY <1>1, <2>5, <2>6
  <2>7. ASSUME NEW q \in Feeds(g, p), x \in HandedOn(g, q) PROVE g[r].type \in {"choice", "production"}
    <3>1. q \in DOMAIN g /\ ~TakesChild(g[q])
      BY <1>1, <2>2, FeedsIs
    <3>2. g[q].type \in {"choice", "production"} /\ HandedOn(g, q) = SubRules(g[q])
      <4>1. CASE g[q].type = "choice"
        BY <4>1, Zenon DEF HandedOn
      <4>2. CASE g[q].type = "production"
        BY <3>1, <4>2, Zenon DEF HandedOn, TakesChild
      <4>3. CASE g[q].type \notin {"choice", "production"}
        <5>1. HandedOn(g, q) = {}
          BY <4>3, Zenon DEF HandedOn
        <5> QED BY <2>7, <5>1
      <4> QED BY <4>1, <4>2, <4>3
    <3>3. q = r
      BY <2>5, <2>7, <3>1, <3>2
    <3> QED BY <3>2, <3>3
  <2>8. x = g[p].rule \/ \E q \in Feeds(g, p) : x \in HandedOn(g, q)
    BY <1>1, <2>1, FeedsIs
  <2> QED BY <2>5, <2>6, <2>7, <2>8
<1> HIDE DEF P
<1>8. \A p \in DOMAIN g : Relabels(g[p]) => g[p].rule \in Relabelled(g)
  BY <1>5 DEF P
<1> QED BY <1>4, <1>6, <1>7, <1>8

-----------------------------------------------------------------------------
\* The rules whose node a rule may stand for: a build action may hand on a child.
Origin(r) == {r} \cup RulesBelow(grammar, r)

\* Node n of the pool fits where rule r is called for.
Fits(pool, n, r) == pool[n].rule \in Labels(grammar, r) /\ pool[n].builtFor \in Origin(r)

\* The k-th child of a node of rule r fits the subrule it was made for.
KidFits(pool, r, k, kid) ==
    ChildRule(r, k) \in SubRules(grammar[r]) /\ Fits(pool, kid, ChildRule(r, k))

\* Every child of every node of the pool does.
KidsFit(pool) ==
    \A i \in 1 .. Len(pool) : \A k \in 1 .. Len(pool[i].kids) :
        KidFits(pool, pool[i].builtFor, k, pool[i].kids[k])

\* The rules whose node may be relabelled, and those whose node stays what it is.
Fed   == Relabelled(grammar)
Plain == Rules \ Fed

\* Nobody but a rule whose node may be relabelled has this node.
Lonely(n) ==
    /\ \A i \in 1 .. Len(nodes) : \A k \in 1 .. Len(nodes[i].kids) : nodes[i].kids[k] # n
    /\ \A c \in Plain, t \in Tokens : memo[c][t] # n

\* The cached nodes of the rules whose node is not relabelled fit.
CacheFits == \A c \in Plain, t \in Tokens : Real(memo[c][t]) => Fits(nodes, memo[c][t], c)

\* The node on its way to the caller fits, and is the caller's to relabel.
ReturnFits ==
    (mode = "ret" /\ Ok) => /\ Fits(nodes, ret.node, ret.rule)
                            /\ ret.rule \in Fed => Lonely(ret.node)

\* A cached node that may be relabelled has been used up: the one rule that could ask for
\* it has its own result.
UsedUp ==
    mode \in {"call", "ret"} =>
        \A c \in Fed, t \in Tokens, r \in Rules :
            (c \in SubRules(grammar[r]) /\ Real(memo[c][t])) =>
                memo[r][t] # NoNode \/ (mode = "ret" /\ ret.rule = c /\ ret.tok = t)

\* The inductive invariant of the rule ids of the tree.
Labelled ==
    /\ KidsFit(nodes)
    /\ CacheFits
    /\ ReturnFits
    /\ UsedUp
    /\ (mode = "call" /\ stack = << >>) => \A r \in Rules, t \in Tokens : memo[r][t] = NoNode

\* What a frame has called is a subrule of its rule.
LEMMA CalledIsSubRule ==
    ASSUME Typed, NEW r \in Rules, NEW n \in Nat, Type(r) # "literal",
           Type(r) \in {"sequence", "choice"} => n < Len(grammar[r].deps)
    PROVE  Called(r, n) \in SubRules(grammar[r])
<1>1. RuleAssumption(grammar, r)
  BY Tables
<1>2. CASE Type(r) \in {"sequence", "choice"}
  <2>1. n + 1 \in 1 .. Len(grammar[r].deps) /\ DOMAIN grammar[r].deps = 1 .. Len(grammar[r].deps)
    BY <1>1, <1>2 DEF RuleAssumption, Type
  <2>2. SubRules(grammar[r]) = {grammar[r].deps[i] : i \in DOMAIN grammar[r].deps}
    BY <1>2, Zenon DEF SubRules, Type
  <2>3. Called(r, n) = grammar[r].deps[n + 1]
    BY <1>2, Zenon DEF Called
  <2> QED BY <2>1, <2>2, <2>3
<1>3. CASE Type(r) = "list"
  <2>1. SubRules(grammar[r]) = {grammar[r].rule, grammar[r].delim}
    BY <1>3, Zenon DEF SubRules, Type
  <2>2. Called(r, n) = IF n % 2 = 0 THEN grammar[r].rule ELSE grammar[r].delim
    BY <1>3, Zenon DEF Called
  <2> QED BY <2>1, <2>2
<1>4. CASE Type(r) \in {"repeat", "neg", "pos", "production"}
  <2>1. SubRules(grammar[r]) = {grammar[r].rule}
    BY <1>4, Zenon DEF SubRules, Type
  <2>2. Called(r, n) = grammar[r].rule
    BY <1>4, Zenon DEF Called
  <2> QED BY <2>1, <2>2
<1> QED BY <1>1, <1>2, <1>3, <1>4 DEF RuleAssumption, Type

\* The frame that waits, and what it has called.
LEMMA Waiting ==
    ASSUME Typed, Packrat, mode \in {"call", "ret"}, stack # << >>
    PROVE  LET r == Top.rule
               called == IF mode = "call" THEN callee ELSE ret.rule
               tok == IF mode = "call" THEN cur ELSE ret.tok
           IN  /\ r \in Rules /\ Top.start \in Tokens
               /\ called = Called(r, Top.n) /\ called \in SubRules(grammar[r])
               /\ memo[r][Top.start] = NoNode
               /\ Reaches(Top, tok)
<1>1. Running
  BY DEF Packrat
<1>2. /\ Len(stack) \in Nat \ {0} /\ Top \in FrameRec /\ FrameOK(Top)
      /\ CalledBy(Len(stack)) = Called(Top.rule, Top.n)
  BY StackTop
<1>3. Top.rule \in Rules /\ Top.start \in Tokens /\ Top.n \in Nat
  BY <1>2 DEF FrameRec
<1>4. Len(stack) \in 1 .. Len(stack) /\ ~(Len(stack) < Len(stack))
  BY <1>2
<1>5. Unanswered(Top) /\ Reaches(Top, IF mode = "call" THEN cur ELSE ret.tok)
  BY <1>1, <1>4 DEF Running, CalledAt, Top
<1>6. Called(Top.rule, Top.n) = IF mode = "call" THEN callee ELSE ret.rule
  BY <1>2, <1>4 DEF CalledBy
<1>7. Called(Top.rule, Top.n) \in SubRules(grammar[Top.rule])
  BY <1>2, <1>3, CalledIsSubRule DEF FrameOK
<1> QED BY <1>3, <1>5, <1>6, <1>7 DEF Unanswered

\* A choice and a production call their subrules where they were called themselves.
LEMMA ReachedInPlace ==
    ASSUME NEW f, NEW tok, Reaches(f, tok), Type(f.rule) \in {"choice", "production"}
    PROVE  tok = f.start
<1> DEFINE r == f.rule
           s == f.start
<1>m. PICK m \in Nat : \E w : Trace(w, m, r, s) /\ w[m] = [tok |-> tok, n |-> f.n]
  BY DEF Reaches
<1>2. PICK w : Trace(w, m, r, s) /\ w[m] = [tok |-> tok, n |-> f.n]
  BY <1>m
<1> HIDE DEF r, s
<1>3. w[m].tok = tok /\ w[0].tok = s
  BY <1>2 DEF Trace
<1> DEFINE S == {i \in Nat : i <= m => w[i].tok = s}
<1>4. 0 \in S
  BY <1>3
<1>5. ASSUME NEW i \in Nat, i \in S PROVE i + 1 \in S
  <2> SUFFICES ASSUME i + 1 <= m PROVE w[i + 1].tok = s
    OBVIOUS
  <2>1. i \in 0 .. m - 1 /\ w[i].tok = s
    BY <1>5
  <2>2. Steps(r, w[i], w[i + 1])
    BY <1>2, <2>1 DEF Trace
  <2>3. Type(r) = "choice"
    BY <2>2 DEF Steps, Goes, r
  <2> QED BY <2>1, <2>2, <2>3 DEF Steps, Moved
<1>6. \A i \in Nat : i \in S
  <2> HIDE DEF S
  <2> QED BY <1>4, <1>5, InductionOnSet
<1> QED BY <1>3, <1>6 DEF s

\* What is about the tables alone stays.
LEMMA SameLabelTables ==
    ASSUME SameGrammar
    PROVE  /\ Rules' = Rules /\ Tokens' = Tokens /\ Fed' = Fed /\ Plain' = Plain
           /\ \A pool, n, r : Fits(pool, n, r)' <=> Fits(pool, n, r)
           /\ \A pool, r, k, kid : KidFits(pool, r, k, kid)' <=> KidFits(pool, r, k, kid)
<1>1. Rules' = Rules /\ Tokens' = Tokens /\ Fed' = Fed
  BY SameTables DEF SameGrammar, Fed
<1>2. Plain' = Plain
  BY <1>1 DEF Plain
<1>3. \A r, k : ChildRule(r, k)' = ChildRule(r, k)
  BY DEF SameGrammar, ChildRule, Type
<1>4. \A pool, n, r : Fits(pool, n, r)' <=> Fits(pool, n, r)
  BY DEF SameGrammar, Fits, Origin
<1>5. \A pool, r, k, kid : KidFits(pool, r, k, kid)' <=> KidFits(pool, r, k, kid)
  BY <1>3, <1>4 DEF SameGrammar, KidFits
<1> QED BY <1>1, <1>2, <1>4, <1>5

\* The rules of the table whose node may be relabelled.
LEMMA FedIs ==
    ASSUME Typed, UnsharedBodies(grammar)
    PROVE  /\ Fed \subseteq Rules
           /\ \A p \in Rules : Relabels(grammar[p]) => grammar[p].rule \in Fed
           /\ \A q \in Fed : HandedOn(grammar, q) \subseteq Fed /\ ~TakesChild(grammar[q])
           /\ \A x \in Fed, r \in Rules : x \in SubRules(grammar[r]) =>
                 /\ Type(r) \in {"choice", "production"}
                 /\ \A s \in Rules : x \in SubRules(grammar[s]) => s = r
<1>1. Table(grammar, input)
  BY TypedTable
<1> QED BY <1>1, RelabelledIs DEF Fed, Rules, Type

\* The result of a rule is stored and handed on: only a node nobody has is relabelled, the
\* children of a new node fit, and so does the result, which is new or nobody's if it may
\* be relabelled in turn.
LEMMA LeaveLabelled ==
    ASSUME Typed, Packrat, UnsharedBodies(grammar), Labelled, SameGrammar, Kept', mode \in {"call", "ret"},
           NEW r \in Rules, NEW t \in Tokens, memo[r][t] = NoNode,
           NEW n, NEW pool, NEW next, NEW rest, Result(r, n, pool, next),
           Leave(r, t, n, pool, next, rest),
           n # Fail => Fits(pool, n, r),
           \A i \in 1 .. Len(nodes) : pool[i].rule = nodes[i].rule \/ Lonely(i),
           \A i \in 1 .. Len(pool) : i > Len(nodes) =>
              \A k \in 1 .. Len(pool[i].kids) : /\ pool[i].kids[k] \in 1 .. Len(nodes)
                                                /\ KidFits(pool, pool[i].builtFor, k, pool[i].kids[k]),
           (n # Fail /\ r \in Fed) => n > Len(nodes) \/ (Len(pool) = Len(nodes) /\ Lonely(n)),
           \A q \in Rules : (mode = "ret" /\ ret.rule \in Fed /\ Ok /\ ret.rule \in SubRules(grammar[q]))
                              => q = r /\ ret.tok = t
    PROVE  Labelled'
<1>1. /\ nodes' = pool /\ mode' = "ret" /\ ret' = [rule |-> r, tok |-> t, node |-> n]
      /\ Rules' = Rules /\ Tokens' = Tokens /\ Fed' = Fed /\ Plain' = Plain
  BY SameLabelTables DEF Leave
<1>2. /\ Grown /\ n # NoNode
      /\ \A q \in Rules, u \in Tokens : memo'[q][u] = IF q = r /\ u = t THEN n ELSE memo[q][u]
  BY StoreResult
<1>3. /\ Len(nodes) \in Nat /\ Len(pool) \in Nat /\ Len(nodes) <= Len(pool) /\ n \in 0 .. Len(pool)
      /\ \A i \in 1 .. Len(nodes) : /\ i \in 1 .. Len(pool)
                                    /\ pool[i].kids = nodes[i].kids
                                    /\ pool[i].builtFor = nodes[i].builtFor
                                    /\ Len(nodes[i].kids) \in Nat
                                    /\ \A k \in 1 .. Len(nodes[i].kids) : nodes[i].kids[k] \in 1 .. Len(nodes)
  <2>1. Len(nodes) \in Nat /\ Len(pool) \in Nat
    BY LenProperties DEF Typed, Result, PoolOK
  <2>2. Len(nodes) <= Len(pool) /\ n \in 0 .. Len(pool)
    BY DEF Result, Extends
  <2>3. ASSUME NEW i \in 1 .. Len(nodes)
        PROVE  /\ i \in 1 .. Len(pool)
               /\ pool[i].kids = nodes[i].kids
               /\ pool[i].builtFor = nodes[i].builtFor
               /\ Len(nodes[i].kids) \in Nat
               /\ \A k \in 1 .. Len(nodes[i].kids) : nodes[i].kids[k] \in 1 .. Len(nodes)
    <3>1. pool[i].kids = nodes[i].kids /\ pool[i].builtFor = nodes[i].builtFor
      BY DEF Result, Extends
    <3>2. nodes[i] \in NodeRec /\ \A k \in 1 .. Len(nodes[i].kids) : nodes[i].kids[k] \in 1 .. i
      BY ElementOfSeq DEF Typed, PoolOK
    <3>3. Len(nodes[i].kids) \in Nat
      BY <3>2, LenProperties DEF NodeRec
    <3>4. \A k \in 1 .. Len(nodes[i].kids) : nodes[i].kids[k] \in 1 .. Len(nodes)
      BY <2>1, <3>2
    <3>5. i \in 1 .. Len(pool)
      BY <2>1, <2>2
    <3> QED BY <3>1, <3>3, <3>4, <3>5
  <2> QED BY <2>1, <2>2, <2>3
<1>4. \A q \in Rules, u \in Tokens : Real(memo[q][u]) => memo[q][u] \in 1 .. Len(nodes)
  <2>1. \A q \in Rules, u \in Tokens : memo[q][u] \in NoNode .. Len(nodes)
    BY DEF Typed
  <2> QED BY <1>3, <2>1 DEF Real, NoNode, Fail
\* an old node that fitted and has an owner fits still
<1>5. \A i \in 1 .. Len(nodes) : \A q : (Fits(nodes, i, q) /\ ~Lonely(i)) => Fits(pool, i, q)
  BY <1>3 DEF Fits
<1>6. KidsFit(pool)
  <2> SUFFICES ASSUME NEW i \in 1 .. Len(pool), NEW k \in 1 .. Len(pool[i].kids)
               PROVE  KidFits(pool, pool[i].builtFor, k, pool[i].kids[k])
    BY DEF KidsFit
  <2>1. CASE i > Len(nodes)
    BY <2>1
  <2>2. CASE i \in 1 .. Len(nodes)
    <3> DEFINE kid == nodes[i].kids[k]
               b == nodes[i].builtFor
    <3>1. pool[i].kids[k] = kid /\ pool[i].builtFor = b /\ k \in 1 .. Len(nodes[i].kids) /\ kid \in 1 .. Len(nodes)
      BY <1>3, <2>2
    <3>2. KidFits(nodes, b, k, kid)
      BY <2>2, <3>1 DEF Labelled, KidsFit
    <3>3. ~Lonely(kid)
      BY <2>2, <3>1 DEF Lonely
    <3> HIDE DEF kid, b
    <3> QED BY <1>5, <3>1, <3>2, <3>3 DEF KidFits
  <2> QED BY <1>3, <2>1, <2>2
<1>7. ASSUME NEW c \in Plain, NEW u \in Tokens, Real(memo'[c][u])
      PROVE  Fits(pool, memo'[c][u], c)
  <2>0. c \in Rules
    BY DEF Plain
  <2>1. CASE c = r /\ u = t
    BY <1>2, <1>7, <2>0, <2>1 DEF Real
  <2>2. CASE ~(c = r /\ u = t)
    <3>1. memo'[c][u] = memo[c][u]
      BY <1>2, <2>0, <2>2
    <3> DEFINE v == memo[c][u]
    <3>2. v \in 1 .. Len(nodes) /\ Fits(nodes, v, c)
      BY <1>4, <1>7, <2>0, <3>1 DEF Labelled, CacheFits
    <3>3. ~Lonely(v)
      BY DEF Lonely
    <3> HIDE DEF v
    <3>4. Fits(pool, v, c)
      BY <1>5, <3>2, <3>3
    <3> QED BY <3>1, <3>4 DEF v
  <2> QED BY <2>1, <2>2
<1>8. ASSUME n # Fail, r \in Fed
      PROVE  /\ \A i \in 1 .. Len(pool) : \A k \in 1 .. Len(pool[i].kids) : pool[i].kids[k] # n
             /\ \A c \in Plain, u \in Tokens : memo'[c][u] # n
  <2>1. n > Len(nodes) \/ (Len(pool) = Len(nodes) /\ Lonely(n))
    BY <1>8
  <2>2. ASSUME NEW i \in 1 .. Len(pool), NEW k \in 1 .. Len(pool[i].kids) PROVE pool[i].kids[k] # n
    <3>1. CASE i > Len(nodes)
      <4>1. pool[i].kids[k] \in 1 .. Len(nodes)
        BY <3>1
      <4>2. n > Len(nodes)
        BY <1>3, <2>1, <3>1
      <4> QED BY <1>3, <4>1, <4>2
    <3>2. CASE i \in 1 .. Len(nodes)
      <4>1. pool[i].kids[k] = nodes[i].kids[k] /\ k \in 1 .. Len(nodes[i].kids) /\ nodes[i].kids[k] \in 1 .. Len(nodes)
        BY <1>3, <3>2
      <4>2. CASE n > Len(nodes)
        BY <1>3, <4>1, <4>2
      <4>3. CASE Lonely(n)
        BY <3>2, <4>1, <4>3 DEF Lonely
      <4> QED BY <2>1, <4>2, <4>3
    <3> QED BY <1>3, <3>1, <3>2
  <2>3. ASSUME NEW c \in Plain, NEW u \in Tokens PROVE memo'[c][u] # n
    <3>1. c \in Rules /\ c # r
      BY <1>8 DEF Plain
    <3>2. memo'[c][u] = memo[c][u] /\ memo[c][u] \in NoNode .. Len(nodes)
      BY <1>2, <3>1 DEF Typed
    <3>3. CASE n > Len(nodes)
      BY <1>3, <3>2, <3>3 DEF NoNode
    <3>4. CASE Lonely(n)
      BY <3>2, <3>4 DEF Lonely
    <3> QED BY <2>1, <3>3, <3>4
  <2> QED BY <2>2, <2>3
<1>9. ASSUME NEW c \in Fed, NEW u \in Tokens, NEW q \in Rules, c \in SubRules(grammar[q]), Real(memo'[c][u])
      PROVE  memo'[q][u] # NoNode \/ (r = c /\ t = u)
  <2> SUFFICES ASSUME ~(r = c /\ t = u) PROVE memo'[q][u] # NoNode
    OBVIOUS
  <2>0. c \in Rules
    BY FedIs
  <2>1. Real(memo[c][u])
    BY <1>2, <1>9, <2>0
  <2>2. memo[q][u] # NoNode \/ (mode = "ret" /\ ret.rule = c /\ ret.tok = u)
    BY <1>9, <2>1 DEF Labelled, UsedUp
  <2>3. CASE memo[q][u] # NoNode
    BY <1>2, <2>3
  <2>4. CASE mode = "ret" /\ ret.rule = c /\ ret.tok = u
    <3>1. ret.node = Parser_check_cache(c, u)
      BY <2>4 DEF Packrat, Running
    <3>2. u # token_head
      BY Tables DEF token_head
    <3>3. ret.node = memo[c][u]
      BY <3>1, <3>2 DEF Parser_check_cache
    <3>4. q = r /\ u = t
      BY <1>9, <2>1, <2>4, <3>3 DEF Ok, Real
    <3> QED BY <1>2, <3>4
  <2> QED BY <2>2, <2>3, <2>4
<1>10. KidsFit(nodes)'
  BY <1>1, <1>6, SameLabelTables DEF KidsFit
<1>11. CacheFits'
  BY <1>1, <1>7, SameLabelTables DEF CacheFits, Real
<1>12. ReturnFits'
  BY <1>1, <1>8, SameLabelTables DEF ReturnFits, Lonely, Ok
<1>13. UsedUp'
  BY <1>1, <1>9 DEF SameGrammar, UsedUp, Real
<1> QED BY <1>1, <1>10, <1>11, <1>12, <1>13 DEF Labelled

\* Labels of a rule, as the engine's table has them.
LEMMA EngineLabels ==
    ASSUME Typed, NEW r \in Rules
    PROVE  /\ OwnLabel(grammar[r]) => r \in Labels(grammar, r)
           /\ (Type(r) = "production" /\ grammar[r].action = "skip") => NotRule \in Labels(grammar, r)
           /\ \A q \in HandedOn(grammar, r) : \A l \in Rules \cup {NotRule} :
                 (l \in Labels(grammar, q) /\ MayCarry(grammar[r], l)) => l \in Labels(grammar, r)
           /\ HandedOn(grammar, r) \subseteq Rules
           /\ SubRules(grammar[r]) \subseteq RulesBelow(grammar, r)
           /\ RulesBelow(grammar, r) \subseteq Rules
           /\ \A q \in RulesBelow(grammar, r) : /\ Origin(q) \subseteq Origin(r)
                                                /\ SubRules(grammar[q]) \subseteq RulesBelow(grammar, r)
           /\ r \in Origin(r)
<1>1. Table(grammar, input)
  BY TypedTable
<1>2. r \in DOMAIN grammar /\ Rules = DOMAIN grammar
  BY DEF Rules
<1>3. /\ OwnLabel(grammar[r]) => r \in Labels(grammar, r)
      /\ (grammar[r].type = "production" /\ grammar[r].action = "skip") => -1 \in Labels(grammar, r)
      /\ \A q \in HandedOn(grammar, r) : \A l \in {-1} \cup DOMAIN grammar :
            (l \in Labels(grammar, q) /\ MayCarry(grammar[r], l)) => l \in Labels(grammar, r)
  BY <1>1, <1>2, LabelsOf
<1>4. HandedOn(grammar, r) \subseteq Rules
  BY <1>1, <1>2, HandedOnInTable
<1>5. /\ RulesBelow(grammar, r) \subseteq Rules
      /\ SubRules(grammar[r]) \subseteq RulesBelow(grammar, r)
      /\ \A q \in RulesBelow(grammar, r) : SubRules(grammar[q]) \subseteq RulesBelow(grammar, r)
  BY <1>1, <1>2, RulesBelowIs
<1>6. \A q \in RulesBelow(grammar, r) : RulesBelow(grammar, q) \subseteq RulesBelow(grammar, r)
  BY <1>1, <1>2, BelowBelow
<1>7. /\ \A q \in RulesBelow(grammar, r) : Origin(q) \subseteq Origin(r)
      /\ r \in Origin(r)
  BY <1>6 DEF Origin
<1> QED BY <1>2, <1>3, <1>4, <1>5, <1>7 DEF Type, NotRule

\* A node that fits a subrule fits the rule that hands it on, if it may carry its label.
LEMMA HandedOnFits ==
    ASSUME Typed, NEW r \in Rules, NEW q \in HandedOn(grammar, r), q \in RulesBelow(grammar, r),
           NEW n \in 1 .. Len(nodes), Fits(nodes, n, q), MayCarry(grammar[r], nodes[n].rule)
    PROVE  Fits(nodes, n, r)
<1>1. nodes[n].rule \in Rules \cup {NotRule}
  <2>1. nodes[n] \in NodeRec
    BY ElementOfSeq DEF Typed, PoolOK
  <2> QED BY <2>1 DEF NodeRec
<1>2. nodes[n].rule \in Labels(grammar, r)
  BY <1>1, EngineLabels DEF Fits
<1>3. nodes[n].builtFor \in Origin(r)
  BY EngineLabels DEF Fits
<1> QED BY <1>2, <1>3 DEF Fits

\* A rule that decides without calling a subrule makes a node without children.
LEMMA EnterLabelled ==
    ASSUME Typed, Packrat, UnsharedBodies(grammar), Labelled, Kept',
           NEW n, NEW pool, NEW next, EnterLeave(n, pool, next)
    PROVE  Labelled'
<1>1. /\ SameGrammar /\ mode = "call" /\ callee \in Rules /\ cur \in Tokens
      /\ memo[callee][cur] = NoNode
      /\ Result(callee, n, pool, next) /\ Leave(callee, cur, n, pool, next, stack)
  BY DEF EnterLeave, Entered, SameGrammar, Typed
<1>2. Len(nodes) \in Nat
  BY LenProperties DEF Typed, PoolOK
<1>3. CASE n = Fail /\ pool = nodes
  BY <1>1, <1>2, <1>3, LeaveLabelled
<1>4. CASE n = Len(pool) /\ Adds(callee, cur, next - 1, 0, pool) /\ Type(callee) # "choice"
  <2>1. /\ Len(pool) = Len(nodes) + 1
        /\ \A i \in 1 .. Len(nodes) : pool[i].rule = nodes[i].rule
        /\ pool[n].rule = callee /\ pool[n].builtFor = callee /\ Len(pool[n].kids) = 0
    BY <1>4 DEF Adds, SameLabels
  <2>2. OwnLabel(grammar[callee])
    <3>1. Type(callee) # "production"
      BY DEF EnterLeave
    <3> QED BY <1>4, <3>1 DEF OwnLabel, Type
  <2>3. Fits(pool, n, callee)
    BY <1>1, <2>1, <2>2, EngineLabels DEF Fits
  <2>4. \A i \in 1 .. Len(pool) : i > Len(nodes) => i = n
    BY <1>2, <1>4, <2>1
  <2>5. \A i \in 1 .. Len(pool) : i > Len(nodes) =>
           \A k \in 1 .. Len(pool[i].kids) : /\ pool[i].kids[k] \in 1 .. Len(nodes)
                                             /\ KidFits(pool, pool[i].builtFor, k, pool[i].kids[k])
    BY <2>1, <2>4
  <2>6. n > Len(nodes)
    BY <1>2, <1>4, <2>1
  <2> QED BY <1>1, <2>1, <2>3, <2>5, <2>6, LeaveLabelled
<1> QED BY <1>3, <1>4 DEF EnterLeave

\* Answered from the cache: a node that may be relabelled is not asked for again.
LEMMA AnsweredLabelled ==
    ASSUME Typed, Packrat, UnsharedBodies(grammar), Labelled, Answered
    PROVE  Labelled'
<1>1. SameGrammar /\ mode = "call" /\ callee \in Rules /\ UNCHANGED <<nodes, memo>>
  BY DEF Answered, SameGrammar, Typed
<1>2. /\ Rules' = Rules /\ Tokens' = Tokens /\ Fed' = Fed /\ Plain' = Plain
      /\ mode' \in {"ret", "crash"}
  BY <1>1, SameLabelTables DEF Answered
<1>3. mode' = "ret" => ret' = [rule |-> callee, tok |-> cur, node |-> CachedResult]
  <2>1. cur # Null
    BY Tables DEF Typed, Null
  <2> QED BY <2>1 DEF Answered
<1>4. ASSUME mode' = "ret", CachedResult # Fail
      PROVE  /\ callee \in Plain
             /\ Fits(nodes, CachedResult, callee)
  <2>1. CachedResult # NoNode
    BY Tables DEF Answered, Typed, Null
  <2>2. cur \in Tokens /\ CachedResult = memo[callee][cur] /\ Real(memo[callee][cur])
    BY <1>4, <2>1 DEF CachedResult, Parser_check_cache, Real
  <2>3. stack # << >>
    BY <1>1, <2>1, <2>2 DEF Labelled
  <2> DEFINE r == Top.rule
  <2>4. /\ r \in Rules /\ Top.start \in Tokens /\ callee \in SubRules(grammar[r])
        /\ memo[r][Top.start] = NoNode /\ Reaches(Top, cur)
    BY <1>1, <2>3, Waiting
  <2>5. callee \notin Fed
    <3> SUFFICES ASSUME callee \in Fed PROVE FALSE
      OBVIOUS
    <3>1. Type(r) \in {"choice", "production"}
      BY <2>4, FedIs
    <3>2. cur = Top.start
      BY <2>4, <3>1, ReachedInPlace
    <3>3. memo[r][cur] # NoNode
      BY <1>1, <2>2, <2>4 DEF Labelled, UsedUp
    <3> QED BY <2>4, <3>2, <3>3
  <2>6. callee \in Plain
    BY <1>1, <2>5 DEF Plain
  <2> QED BY <2>2, <2>6 DEF Labelled, CacheFits
<1>5. KidsFit(nodes)' /\ CacheFits'
  BY <1>1, <1>2, SameLabelTables DEF KidsFit, CacheFits, Labelled, Real
<1>6. ReturnFits'
  BY <1>1, <1>2, <1>3, <1>4, SameLabelTables DEF ReturnFits, Ok, Plain
<1>7. UsedUp'
  <2>1. \A c \in Fed, t \in Tokens, r \in Rules :
           (c \in SubRules(grammar[r]) /\ Real(memo[c][t])) => memo[r][t] # NoNode
    BY <1>1 DEF Labelled, UsedUp
  <2> QED BY <1>1, <1>2, <2>1 DEF UsedUp, SameGrammar, Real
<1> QED BY <1>2, <1>5, <1>6, <1>7 DEF Labelled

\* A step that neither makes nor finds a node.
LEMMA IdleLabelled ==
    ASSUME Typed, Labelled, SameGrammar, UNCHANGED <<nodes, memo>>, mode' # "ret",
           mode' = "call" => /\ stack' # << >> /\ mode \in {"call", "ret"}
                             /\ \A r \in Rules : ~(mode = "ret" /\ ret.rule \in Fed
                                                     /\ ret.rule \in SubRules(grammar[r])
                                                     /\ Real(memo[ret.rule][ret.tok]))
    PROVE  Labelled'
<1>1. Rules' = Rules /\ Tokens' = Tokens /\ Fed' = Fed /\ Plain' = Plain
  BY SameLabelTables
<1>2. KidsFit(nodes)' /\ CacheFits' /\ ReturnFits'
  BY <1>1, SameLabelTables DEF KidsFit, CacheFits, ReturnFits, Labelled, Real
<1>3. ASSUME mode' = "call" PROVE UsedUp'
  <2>1. \A c \in Fed, t \in Tokens, r \in Rules :
           (c \in SubRules(grammar[r]) /\ Real(memo[c][t])) => memo[r][t] # NoNode
    BY <1>3 DEF Labelled, UsedUp
  <2> QED BY <1>1, <2>1 DEF UsedUp, SameGrammar, Real
<1>4. ASSUME mode' # "call" PROVE UsedUp'
  BY <1>4 DEF UsedUp
<1> QED BY <1>2, <1>3, <1>4 DEF Labelled

\* The children a sequence, repeat or list found in the cache fit.
LEMMA SpanFits ==
    ASSUME Typed, UnsharedBodies(grammar), Labelled, mode = "ret", stack # << >>,
           NEW k \in Nat, NEW next, Spans(k, next),
           NEW pool, Adds(Top.rule, Top.start, next - 1, k, pool), NEW i \in 1 .. k
    PROVE  LET kid == pool[Len(pool)].kids[i] IN
           kid \in 1 .. Len(nodes) /\ KidFits(nodes, Top.rule, i, kid)
<1> DEFINE r == Top.rule
           s == Top.start
           walk == ChildWalk(r, s, k)
           kid == pool[Len(pool)].kids[i]
<1>1. r \in Rules /\ s \in Tokens /\ RuleAssumption(grammar, r)
  BY StackTop, Tables DEF FrameRec
<1>2. Type(r) \in {"sequence", "repeat", "list"} /\ (Type(r) = "sequence" => k = Len(grammar[r].deps))
  BY DEF Spans
<1>3. \A j \in 1 .. k : ChildRule(r, j) \in SubRules(grammar[r])
  <2>1. CASE Type(r) = "sequence"
    <3>1. SubRules(grammar[r]) = {grammar[r].deps[j] : j \in DOMAIN grammar[r].deps}
      BY <2>1, Zenon DEF SubRules, Type
    <3>2. \A j : ChildRule(r, j) = grammar[r].deps[j]
      BY <2>1, Zenon DEF ChildRule
    <3>3. DOMAIN grammar[r].deps = 1 .. k
      BY <1>1, <1>2, <2>1 DEF RuleAssumption, Type
    <3> QED BY <3>1, <3>2, <3>3
  <2>2. CASE Type(r) = "list"
    <3>1. SubRules(grammar[r]) = {grammar[r].rule, grammar[r].delim}
      BY <2>2, Zenon DEF SubRules, Type
    <3>2. \A j : ChildRule(r, j) = IF j % 2 = 1 THEN grammar[r].rule ELSE grammar[r].delim
      BY <2>2, Zenon DEF ChildRule
    <3> QED BY <3>1, <3>2
  <2>3. CASE Type(r) = "repeat"
    <3>1. SubRules(grammar[r]) = {grammar[r].rule}
      BY <2>3, Zenon DEF SubRules, Type
    <3>2. \A j : ChildRule(r, j) = grammar[r].rule
      BY <2>3, Zenon DEF ChildRule
    <3> QED BY <3>1, <3>2
  <2> QED BY <1>2, <2>1, <2>2, <2>3
<1>4. \A j \in 1 .. k : ChildRule(r, j) \in Rules
  <2>1. SubRules(grammar[r]) \subseteq Rules
    BY <1>1, EngineLabels
  <2> QED BY <1>3, <2>1
<1>5. Rebuilds(r, s, k) /\ kid = walk[i].kid
  BY DEF Adds
<1>6. s \in Positions
  BY <1>1, Tables
<1>7. /\ walk[i - 1].next \in Tokens
      /\ walk[i].kid = memo[ChildRule(r, i)][walk[i - 1].next]
      /\ walk[i].kid \in 1 .. Len(nodes)
  <2> HIDE DEF r, s
  <2> QED BY <1>4, <1>5, <1>6, RebuiltChildren
<1>8. ChildRule(r, i) \in Plain
  <2>1. Type(r) \notin {"choice", "production"}
    BY <1>2
  <2>2. ChildRule(r, i) \notin Fed
    BY <1>1, <1>3, <2>1, FedIs
  <2> QED BY <1>4, <2>2 DEF Plain
<1> HIDE DEF r, s, walk, kid
<1>9. \E t \in Tokens : kid = memo[ChildRule(r, i)][t]
  BY <1>5, <1>7
<1>10. Len(nodes) \in Nat
  BY LenProperties DEF Typed, PoolOK
<1>11. kid \in 1 .. Len(nodes) /\ Real(kid)
  BY <1>5, <1>7, <1>10 DEF Real, Fail, NoNode
<1>12. Fits(nodes, kid, ChildRule(r, i))
  BY <1>8, <1>9, <1>11 DEF Labelled, CacheFits
<1> QED BY <1>3, <1>11, <1>12 DEF KidFits, r, kid

\* The node a choice or a production got fits it as well.
LEMMA GotFits ==
    ASSUME Typed, Packrat, UnsharedBodies(grammar), Labelled, mode = "ret", stack # << >>, Ok,
           Type(Top.rule) \in {"choice", "production"}
    PROVE  /\ ret.node \in 1 .. Len(nodes)
           /\ Fits(nodes, ret.node, ret.rule)
           /\ ret.rule \in HandedOn(grammar, Top.rule)
           /\ ret.rule \in RulesBelow(grammar, Top.rule)
           /\ MayCarry(grammar[Top.rule], nodes[ret.node].rule) => Fits(nodes, ret.node, Top.rule)
           /\ nodes[ret.node].builtFor \in Origin(Top.rule)
           /\ (Top.rule \in Fed \/ Relabels(grammar[Top.rule])) => Lonely(ret.node)
<1> DEFINE r == Top.rule
<1>1. r \in Rules /\ ret.rule = Called(r, Top.n) /\ ret.rule \in SubRules(grammar[r])
  BY Waiting
<1>2. ret.node \in 1 .. Len(nodes)
  <2>1. ret.node \in 0 .. Len(nodes) /\ ret.node # 0
    BY DEF Typed, Ok, Fail
  <2>2. Len(nodes) \in Nat
    BY LenProperties DEF Typed, PoolOK
  <2> QED BY <2>1, <2>2
<1>3. Fits(nodes, ret.node, ret.rule) /\ (ret.rule \in Fed => Lonely(ret.node))
  BY DEF Labelled, ReturnFits
<1>4. ret.rule \in RulesBelow(grammar, r)
  BY <1>1, EngineLabels
<1>5. HandedOn(grammar, r) = SubRules(grammar[r]) \/ (TakesChild(grammar[r]) /\ HandedOn(grammar, r) = RulesBelow(grammar, r))
  <2>1. CASE Type(r) = "choice"
    BY <2>1, Zenon DEF HandedOn, Type
  <2>2. CASE Type(r) = "production"
    BY <2>2, Zenon DEF HandedOn, TakesChild, Type
  <2> QED BY <2>1, <2>2
<1>6. ret.rule \in HandedOn(grammar, r)
  BY <1>1, <1>4, <1>5
<1>7. MayCarry(grammar[r], nodes[ret.node].rule) => Fits(nodes, ret.node, r)
  BY <1>1, <1>2, <1>3, <1>4, <1>6, HandedOnFits
<1>8. nodes[ret.node].builtFor \in Origin(r)
  BY <1>1, <1>3, <1>4, EngineLabels DEF Fits
<1>9. (r \in Fed \/ Relabels(grammar[r])) => ret.rule \in Fed
  <2>1. r \in Fed => ret.rule \in Fed
    BY <1>6, FedIs
  <2>2. ASSUME Relabels(grammar[r]) PROVE ret.rule \in Fed
    <3>1. Type(r) = "production" /\ grammar[r].rule \in Fed
      BY <1>1, <2>2, FedIs DEF Relabels, Type
    <3>2. Called(r, Top.n) = grammar[r].rule
      BY <3>1, Zenon DEF Called
    <3> QED BY <1>1, <3>1, <3>2
  <2> QED BY <2>1, <2>2
<1> QED BY <1>2, <1>3, <1>4, <1>6, <1>7, <1>8, <1>9

\* The frame that leaves keeps the tree's rule ids, whatever it leaves with.
LEMMA ResumeLabelled ==
    ASSUME Typed, Packrat, UnsharedBodies(grammar), ~ReturnsInner(grammar), Labelled, Kept',
           NEW n, NEW pool, NEW next, ResumeLeave(n, pool, next)
    PROVE  Labelled'
<1> DEFINE r == Top.rule
           t == Top.start
           rule == grammar[r]
           NewKid(i, k) == /\ pool[i].kids[k] \in 1 .. Len(nodes)
                           /\ KidFits(pool, pool[i].builtFor, k, pool[i].kids[k])
           NewKids == \A i \in 1 .. Len(pool) : i > Len(nodes) =>
                         \A k \in 1 .. Len(pool[i].kids) : NewKid(i, k)
           Relabelling == \A i \in 1 .. Len(nodes) : pool[i].rule = nodes[i].rule \/ Lonely(i)
           Fitting == n # Fail => Fits(pool, n, r)
           Owned == (n # Fail /\ r \in Fed) => n > Len(nodes) \/ (Len(pool) = Len(nodes) /\ Lonely(n))
<1>1. /\ SameGrammar /\ mode = "ret" /\ stack # << >>
      /\ Result(r, n, pool, next) /\ Leave(r, t, n, pool, next, Below)
  BY DEF ResumeLeave, Resumed, SameGrammar
<1>2. /\ r \in Rules /\ t \in Tokens /\ memo[r][t] = NoNode
      /\ ret.rule \in SubRules(grammar[r]) /\ ret.rule = Called(r, Top.n) /\ Reaches(Top, ret.tok)
  BY <1>1, Waiting
<1>3. Len(nodes) \in Nat /\ Len(pool) \in Nat /\ n \in 0 .. Len(pool)
  BY <1>1, LenProperties DEF Typed, PoolOK, Result
<1>4. \A q \in Rules : (mode = "ret" /\ ret.rule \in Fed /\ Ok /\ ret.rule \in SubRules(grammar[q]))
                          => q = r /\ ret.tok = t
  <2> SUFFICES ASSUME NEW q \in Rules, ret.rule \in Fed, ret.rule \in SubRules(grammar[q])
               PROVE  q = r /\ ret.tok = t
    OBVIOUS
  <2>1. q = r /\ Type(r) \in {"choice", "production"}
    BY <1>2, FedIs
  <2> QED BY <1>2, <2>1, ReachedInPlace
<1>5. ASSUME Fitting, Relabelling, NewKids, Owned PROVE Labelled'
  BY <1>1, <1>2, <1>4, <1>5, LeaveLabelled
<1>6. ASSUME pool = nodes PROVE Relabelling /\ NewKids
  BY <1>3, <1>6
<1>7. CASE n = Fail /\ pool = nodes
  BY <1>5, <1>6, <1>7
<1>8. CASE /\ Type(r) \in {"choice", "production"} /\ Ok
           /\ n = ret.node /\ Len(pool) = Len(nodes) /\ HandsOn(pool)
  <2>1. /\ n \in 1 .. Len(nodes) /\ nodes[n].builtFor \in Origin(r)
        /\ MayCarry(rule, nodes[n].rule) => Fits(nodes, n, r)
        /\ (r \in Fed \/ Relabels(rule)) => Lonely(n)
    BY <1>1, <1>8, GotFits
  <2>2. pool[n].builtFor = nodes[n].builtFor
    BY <1>1, <2>1 DEF Result, Extends
  <2>3. NewKids /\ Owned
    BY <1>3, <1>8, <2>1
  <2>4. CASE /\ SameLabels(pool)
             /\ rule.type = "production" =>
                   rule.action = "pass" \/ (rule.action = "default" /\ nodes[n].rule = NotRule)
    <3>1. MayCarry(rule, nodes[n].rule)
      BY <1>8, <2>4 DEF MayCarry, NotRule, Type
    <3>2. pool[n].rule = nodes[n].rule
      BY <2>1, <2>4 DEF SameLabels
    <3>3. Fitting
      BY <2>1, <2>2, <3>1, <3>2 DEF Fits
    <3>4. Relabelling
      BY <2>4 DEF SameLabels
    <3> QED BY <1>5, <2>3, <3>3, <3>4
  <2>5. CASE /\ rule.type = "production" /\ Relabels(rule)
             /\ pool[n].rule = IF rule.action = "skip" THEN NotRule ELSE r
             /\ \A i \in 1 .. Len(nodes) : i # n => pool[i].rule = nodes[i].rule
    <3>1. pool[n].rule \in Labels(grammar, r)
      <4>1. CASE rule.action = "skip"
        BY <1>2, <2>5, <4>1, EngineLabels DEF Type
      <4>2. CASE rule.action # "skip"
        <5>1. OwnLabel(rule)
          BY <2>5, <4>2 DEF OwnLabel, Relabels
        <5> QED BY <1>2, <2>5, <4>2, <5>1, EngineLabels
      <4> QED BY <4>1, <4>2
    <3>2. Fitting
      BY <2>1, <2>2, <3>1 DEF Fits
    <3>3. Relabelling
      BY <2>1, <2>5
    <3> QED BY <1>5, <2>3, <3>2, <3>3
  <2> QED BY <1>8, <2>4, <2>5 DEF HandsOn
<1>9. CASE /\ Type(r) = "production" /\ Ok /\ rule.action = "simplify"
           /\ Len(nodes[ret.node].kids) = 1
           /\ n = nodes[ret.node].kids[1] /\ pool = nodes
  <2>1. ret.node \in 1 .. Len(nodes) /\ nodes[ret.node].builtFor \in Origin(r)
    BY <1>1, <1>9, GotFits
  <2> DEFINE b == nodes[ret.node].builtFor
             c == ChildRule(b, 1)
  <2>2. KidFits(nodes, b, 1, n)
    BY <1>9, <2>1 DEF Labelled, KidsFit
  <2>3. c \in SubRules(grammar[b]) /\ Fits(nodes, n, c)
    BY <2>2 DEF KidFits
  <2>4. c \in RulesBelow(grammar, r)
    <3>1. b = r \/ b \in RulesBelow(grammar, r)
      BY <2>1 DEF Origin
    <3> QED BY <1>2, <2>3, <3>1, EngineLabels
  <2>5. TakesChild(rule) /\ HandedOn(grammar, r) = RulesBelow(grammar, r)
    <3>1. TakesChild(rule)
      BY <1>9, Zenon DEF TakesChild, Type
    <3>2. HandedOn(grammar, r) = RulesBelow(grammar, r)
      BY <1>9, Zenon DEF HandedOn, Type
    <3> QED BY <3>1, <3>2
  <2>6. n \in 1 .. Len(nodes)
    <3>1. \A k \in 1 .. Len(nodes[ret.node].kids) : nodes[ret.node].kids[k] \in 1 .. ret.node
      BY <2>1 DEF Typed, PoolOK
    <3> QED BY <1>3, <1>9, <2>1, <3>1
  <2>7. MayCarry(rule, nodes[n].rule)
    BY <1>9 DEF MayCarry
  <2> HIDE DEF c, b
  <2>8. Fitting
    BY <1>2, <1>9, <2>3, <2>4, <2>5, <2>6, <2>7, HandedOnFits
  <2>9. r \notin Fed
    BY <2>5, FedIs
  <2> QED BY <1>5, <1>6, <1>9, <2>8, <2>9
<1>10. ~(Type(r) = "production" /\ rule.action = "inner")
  BY <1>2 DEF ReturnsInner, Type, Rules
<1>11. CASE Type(r) = "production" /\ Ok /\ n = Len(pool) /\ Wraps(pool)
  <2>1. /\ Len(pool) = Len(nodes) + 1 /\ rule.action = "default"
        /\ \A i \in 1 .. Len(nodes) : pool[i].rule = nodes[i].rule
        /\ pool[n].rule = r /\ pool[n].builtFor = r /\ pool[n].kids = <<ret.node>>
    BY <1>11 DEF Wraps, SameLabels
  <2>2. Relabelling
    BY <2>1
  <2>3. Owned
    BY <1>3, <1>11, <2>1
  <2>4. Fitting
    <3>1. OwnLabel(rule)
      BY <1>11, <2>1 DEF OwnLabel, Type
    <3> QED BY <1>2, <2>1, <3>1, EngineLabels DEF Fits
  <2>5. ret.node \in 1 .. Len(nodes) /\ Fits(nodes, ret.node, ret.rule)
    BY <1>1, <1>11, GotFits
  <2>6. KidFits(pool, r, 1, ret.node)
    <3>1. ChildRule(r, 1) = ret.rule
      <4>1. ChildRule(r, 1) = grammar[r].rule /\ Called(r, Top.n) = grammar[r].rule
        BY <1>11, Zenon DEF ChildRule, Called
      <4> QED BY <1>2, <4>1
    <3>2. pool[ret.node].rule = nodes[ret.node].rule /\ pool[ret.node].builtFor = nodes[ret.node].builtFor
      BY <1>1, <2>1, <2>5 DEF Result, Extends
    <3> QED BY <1>2, <2>5, <3>1, <3>2 DEF KidFits, Fits
  <2>7. ASSUME NEW i \in 1 .. Len(pool), i > Len(nodes), NEW k \in 1 .. Len(pool[i].kids)
        PROVE  NewKid(i, k)
    <3>1. i = n
      BY <1>3, <1>11, <2>1, <2>7
    <3>2. Len(<<ret.node>>) = 1 /\ <<ret.node>>[1] = ret.node
      OBVIOUS
    <3>3. k = 1
      <4>1. k \in 1 .. Len(<<ret.node>>)
        BY <2>1, <2>7, <3>1
      <4>2. k \in 1 .. 1
        BY <3>2, <4>1
      <4> QED BY <4>2
    <3>4. pool[i].kids[k] = ret.node /\ pool[i].builtFor = r
      BY <2>1, <3>1, <3>2, <3>3
    <3> QED BY <2>5, <2>6, <3>3, <3>4
  <2>8. NewKids
    BY <2>7
  <2> QED BY <1>5, <2>2, <2>3, <2>4, <2>8
<1>12. ASSUME NEW start, NEW end, NEW m \in Nat, n = Len(pool), Adds(r, start, end, m, pool),
              Type(r) \notin {"choice", "production"},
              \A i \in 1 .. m : LET kid == pool[Len(pool)].kids[i] IN
                                kid \in 1 .. Len(nodes) /\ KidFits(nodes, r, i, kid)
       PROVE  Labelled'
  <2>1. /\ Len(pool) = Len(nodes) + 1
        /\ \A i \in 1 .. Len(nodes) : pool[i].rule = nodes[i].rule
        /\ pool[n].rule = r /\ pool[n].builtFor = r /\ Len(pool[n].kids) = m
    BY <1>12 DEF Adds, SameLabels
  <2>2. Relabelling
    BY <2>1
  <2>3. Owned
    BY <1>3, <1>12, <2>1
  <2>4. Fitting
    <3>1. OwnLabel(rule)
      BY <1>12 DEF OwnLabel, Type
    <3> QED BY <1>2, <2>1, <3>1, EngineLabels DEF Fits
  <2>5. \A i \in 1 .. Len(nodes) : pool[i].builtFor = nodes[i].builtFor
    BY <1>1 DEF Result, Extends
  <2>6. ASSUME NEW i \in 1 .. Len(pool), i > Len(nodes), NEW k \in 1 .. Len(pool[i].kids)
        PROVE  NewKid(i, k)
    <3>1. i = n
      BY <1>3, <1>12, <2>1, <2>6
    <3> DEFINE kid == pool[n].kids[k]
    <3>2. k \in 1 .. m /\ kid \in 1 .. Len(nodes) /\ KidFits(nodes, r, k, kid)
      BY <1>12, <2>1, <3>1
    <3> HIDE DEF kid
    <3>3. KidFits(pool, r, k, kid)
      BY <2>1, <2>5, <3>2 DEF KidFits, Fits
    <3> QED BY <2>1, <3>1, <3>2, <3>3 DEF kid
  <2>7. NewKids
    BY <2>6
  <2> QED BY <1>5, <2>2, <2>3, <2>4, <2>7
<1>13. ASSUME Type(r) \in {"neg", "pos"}, NEW start, n = Len(pool), Adds(r, start, t - 1, 0, pool)
       PROVE  Labelled'
  BY <1>12, <1>13
<1>14. ASSUME NEW k \in Nat, Spans(k, next), n = Len(pool), Adds(r, t, next - 1, k, pool)
       PROVE  Labelled'
  <2>1. Type(r) \notin {"choice", "production"}
    BY <1>14 DEF Spans
  <2>2. \A i \in 1 .. k : LET kid == pool[Len(pool)].kids[i] IN
                          kid \in 1 .. Len(nodes) /\ KidFits(nodes, r, i, kid)
    BY <1>1, <1>14, SpanFits
  <2> QED BY <1>12, <1>14, <2>1, <2>2
<1>15. Made(n, pool, next)
  BY DEF ResumeLeave
<1> HIDE DEF NewKids, Relabelling, Fitting, Owned
<1> QED BY <1>7, <1>8, <1>9, <1>10, <1>11, <1>13, <1>14, <1>15 DEF Made

\* Every action of the engine keeps the tree's rule ids.
LEMMA StepLabelled ==
    ASSUME Typed, Packrat, UnsharedBodies(grammar), ~ReturnsInner(grammar), Labelled, Kept', Next
    PROVE  Labelled'
<1>1. CASE Answered
  BY <1>1, AnsweredLabelled
<1>2. CASE Finish
  BY <1>2, IdleLabelled DEF Finish, SameGrammar
<1>3. CASE EnterCall
  <2>1. /\ SameGrammar /\ UNCHANGED <<nodes, memo>> /\ mode = "call" /\ mode' = "call"
        /\ stack' = Append(stack, Frame(callee, cur))
    BY <1>3 DEF EnterCall, Entered, CallFrom, SameGrammar
  <2>2. stack' # << >>
    <3>1. stack \in Seq(FrameRec) /\ Frame(callee, cur) \in FrameRec
      BY <1>3 DEF Typed, EnterCall, Entered, Frame, FrameRec, Fail
    <3>2. Len(stack') = Len(stack) + 1 /\ Len(stack) \in Nat
      BY <2>1, <3>1, Push
    <3> QED BY <3>2, EmptySeq
  <2> QED BY <2>1, <2>2, IdleLabelled
<1>4. ASSUME NEW f, ResumeCall(f) PROVE Labelled'
  <2>1. /\ SameGrammar /\ UNCHANGED <<nodes, memo>> /\ mode = "ret" /\ mode' = "call" /\ stack # << >>
        /\ stack' = Append(Below, f) /\ f \in FrameRec /\ Goes(Top.rule, Top.n, ret.node)
    BY <1>4 DEF ResumeCall, Resumed, CallFrom, SameGrammar
  <2>2. stack' # << >>
    <3>1. Below \in Seq(FrameRec)
      BY <2>1, StackTop
    <3>2. Len(stack') = Len(Below) + 1 /\ Len(Below) \in Nat
      BY <2>1, <3>1, Push
    <3> QED BY <3>2, EmptySeq
  <2>3. ASSUME NEW r \in Rules, ret.rule \in Fed, ret.rule \in SubRules(grammar[r]),
               Real(memo[ret.rule][ret.tok])
        PROVE  FALSE
    <3>1. /\ Top.rule \in Rules /\ Top.start \in Tokens /\ ret.rule \in SubRules(grammar[Top.rule])
          /\ Reaches(Top, ret.tok)
      BY <2>1, Waiting
    <3>2. Type(Top.rule) \in {"choice", "production"}
      BY <2>3, <3>1, FedIs
    <3>3. ret.node = Fail
      BY <2>1, <3>2 DEF Goes
    <3>4. ret.tok = Top.start
      BY <3>1, <3>2, ReachedInPlace
    <3>5. ret.node = memo[ret.rule][ret.tok]
      <4>1. ret.node = Parser_check_cache(ret.rule, ret.tok)
        BY <2>1 DEF Packrat, Running
      <4>2. ret.tok \in Tokens /\ ret.tok # token_head
        BY <3>1, <3>4, Tables DEF token_head
      <4> QED BY <4>1, <4>2 DEF Parser_check_cache
    <3> QED BY <2>3, <3>3, <3>5 DEF Real
  <2> QED BY <2>1, <2>2, <2>3, IdleLabelled
<1>5. CASE ResumeCrash
  BY <1>5, IdleLabelled DEF ResumeCrash, Resumed, Crash, SameGrammar
<1> QED BY <1>1, <1>2, <1>3, <1>4, <1>5, EnterLabelled, ResumeLabelled, NextShape DEF Shape

\* Nothing has been made or found when a parse starts.
LEMMA InitLabelled ==
    ASSUME Init, UnsharedBodies(grammar)
    PROVE  Labelled
<1>1. Len(nodes) = 0 /\ mode = "call"
  BY EmptySeq DEF Init
<1>2. \A r \in Rules, t \in Tokens : memo[r][t] = NoNode
  BY DEF Init
<1>3. Fed \subseteq Rules
  BY InitTyped, FedIs
<1>4. KidsFit(nodes)
  BY <1>1 DEF KidsFit
<1>5. CacheFits /\ UsedUp
  BY <1>2, <1>3 DEF CacheFits, UsedUp, Plain, Real
<1>6. ReturnFits
  BY <1>1 DEF ReturnFits
<1> QED BY <1>2, <1>4, <1>5, <1>6 DEF Labelled

\* The invariants of the parse and of the rule ids of its tree.
LabelledInv == Inv /\ (UnsharedBodies(grammar) => Labelled)

\* They are inductive as long as every result is kept.
LEMMA LabelledInductive ==
    ASSUME Replayable
    PROVE  LabelledInv /\ [Next /\ Kept']_vars => LabelledInv'
<1> SUFFICES ASSUME LabelledInv, [Next /\ Kept']_vars PROVE LabelledInv'
  OBVIOUS
<1>1. Inv'
  BY InvInductive DEF LabelledInv
<1>2. SameGrammar
  BY NextShape DEF LabelledInv, Inv, vars, SameGrammar, Shape, Answered, Finish, EnterLeave, EnterCall,
                   Entered, ResumeLeave, ResumeCall, ResumeCrash, Resumed
<1>3. UnsharedBodies(grammar)' <=> UnsharedBodies(grammar)
  BY <1>2 DEF SameGrammar
<1>4. ASSUME UnsharedBodies(grammar), Next, Kept' PROVE Labelled'
  <2>1. Typed /\ Packrat /\ Labelled
    BY <1>4 DEF LabelledInv, Inv
  <2>2. ~ReturnsInner(grammar)
    BY <2>1 DEF Typed, Replayable
  <2> QED BY <1>4, <2>1, <2>2, StepLabelled
<1>5. ASSUME UnsharedBodies(grammar), UNCHANGED vars PROVE Labelled'
  <2>1. Labelled
    BY <1>5 DEF LabelledInv
  <2>2. SameGrammar /\ nodes' = nodes /\ memo' = memo /\ mode' = mode /\ ret' = ret /\ stack' = stack
    BY <1>5 DEF vars, SameGrammar
  <2>3. Rules' = Rules /\ Tokens' = Tokens /\ Fed' = Fed /\ Plain' = Plain
    BY <2>2, SameLabelTables
  <2>4. KidsFit(nodes)' /\ CacheFits' /\ ReturnFits'
    BY <2>1, <2>2, <2>3, SameLabelTables DEF KidsFit, CacheFits, ReturnFits, Labelled, Real, Ok, Lonely
  <2>5. UsedUp'
    BY <2>1, <2>2, <2>3 DEF Labelled, UsedUp, SameGrammar, Real
  <2> QED BY <2>1, <2>2, <2>3, <2>4, <2>5 DEF Labelled
<1> QED BY <1>1, <1>3, <1>4, <1>5 DEF LabelledInv

\* Children that fit carry the id of a rule that can stand there.
LEMMA LabelledFits == LabelledInv => ChildrenKeepTheirRule
<1> SUFFICES ASSUME LabelledInv, UnsharedBodies(grammar), NEW i \in DOMAIN nodes, NEW k \in DOMAIN nodes[i].kids
             PROVE  nodes[nodes[i].kids[k]].rule \in Labels(grammar, ChildRule(nodes[i].builtFor, k))
  BY DEF ChildrenKeepTheirRule, ChildrenFit
<1>1. Typed /\ Labelled
  BY DEF LabelledInv, Inv
<1>2. nodes \in Seq(NodeRec) /\ i \in 1 .. Len(nodes)
  BY <1>1, LenProperties DEF Typed, PoolOK
<1>3. nodes[i] \in NodeRec
  BY <1>2, ElementOfSeq
<1>4. k \in 1 .. Len(nodes[i].kids)
  BY <1>3, LenProperties DEF NodeRec
<1>5. KidFits(nodes, nodes[i].builtFor, k, nodes[i].kids[k])
  BY <1>1, <1>2, <1>4 DEF Labelled, KidsFit
<1> QED BY <1>5 DEF KidFits, Fits

\* In every parse whose grammar reaches the node a production relabels through that
\* production alone, a failed alternative leaves no trace in the tree: each child of a node
\* carries the id of a rule that can stand there (build_action_default).
THEOREM TreeKeepsItsRules ==
    ASSUME ~MayLose, Replayable
    PROVE  Spec => []ChildrenKeepTheirRule
<1>1. Init => LabelledInv
  BY InitTyped, InitPackrat, InitTiled, InitLabelled DEF LabelledInv, Inv
<1>2. LabelledInv /\ [Next]_vars => LabelledInv'
  BY NothingLost, LabelledInductive DEF LabelledInv, Inv
<1> QED BY <1>1, <1>2, LabelledFits, PTL DEF Spec
==============================================================================
