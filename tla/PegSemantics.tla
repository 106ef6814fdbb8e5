---------------------------- MODULE PegSemantics -----------------------------
(***************************************************************************)
(* What a rule means, without a cache, a cursor or a call stack: Semantics  *)
(* gives, for a rule at a token, whether it succeeds and the token after    *)
(* what it consumed.  Two readings of the grammar are given:                *)
(*   "code"    the check_rule_ methods of src/rule.c;                       *)
(*   "readme"  the operators as the README describes them.                  *)
(* They differ only where the code gives up on an empty token.              *)
(*                                                                          *)
(* A rule that refers to itself has no direct recursive definition: it is   *)
(* evaluated to a depth, with Unknown where the depth does not suffice.     *)
(***************************************************************************)
EXTENDS Integers, Sequences

NoMatch == 0     \* the result of a rule that fails
Unknown == -1    \* of a rule that is still running at the depth

\* What is left of a rule from a token once so many of its dependencies,
\* alternatives or repetitions are done; of a list, whether it has an element.
At(d, r, k, t) == [depth |-> d, rule |-> r, done |-> k, tok |-> t]

States(g, in) == [depth : Nat, rule : DOMAIN g, done : Nat, tok : 1 .. Len(in) + 1]

\* What follows the result u of a subrule.
Then(u, fails, goes) ==
    IF u = Unknown THEN Unknown ELSE IF u = NoMatch THEN fails ELSE goes

\* The result of what is left of rule r, given those m has for depth d.
Outcome(reading, g, in, m, d, r, k, t) ==
    LET rule == g[r]
        atEnd  == t = Len(in) + 1
        gaveUp == reading = "code" /\ atEnd /\ k = 0
        Sub(q, u) == m[At(d, q, 0, u)]
        Rest(n, u) == m[At(d, r, n, u)]
    IN
    CASE rule.type = "literal" ->
            IF ~atEnd /\ in[t] \in rule.match THEN t + 1 ELSE NoMatch
      [] rule.type = "sequence" ->
            IF gaveUp THEN NoMatch
            ELSE IF k >= Len(rule.deps) THEN t
            ELSE LET u == Sub(rule.deps[k + 1], t) IN Then(u, NoMatch, Rest(k + 1, u))
      [] rule.type = "choice" ->
            IF gaveUp \/ k >= Len(rule.deps) THEN NoMatch
            ELSE LET u == Sub(rule.deps[k + 1], t) IN Then(u, Rest(k + 1, t), u)
      [] rule.type = "repeat" ->
            LET enough == IF k < rule.min THEN NoMatch ELSE t IN
            IF gaveUp \/ (rule.max # 0 /\ k = rule.max) THEN enough
            ELSE LET u == Sub(rule.rule, t) IN Then(u, enough, Rest(k + 1, u))
      [] rule.type = "list" ->
            \* b, (a, b)*
            IF gaveUp THEN NoMatch
            ELSE IF k = 0 THEN LET u == Sub(rule.rule, t) IN Then(u, NoMatch, Rest(1, u))
            ELSE LET sep == Sub(rule.delim, t)
                     u == Sub(rule.rule, sep)
                 IN  Then(sep, t, Then(u, t, Rest(1, u)))
      [] rule.type = "neg" ->
            IF gaveUp THEN t ELSE Then(Sub(rule.rule, t), t, NoMatch)
      [] rule.type = "pos" ->
            Then(Sub(rule.rule, t), NoMatch, t)
      [] OTHER ->   \* a production
            LET u == Sub(rule.rule, t) IN
            Then(u, NoMatch, IF rule.action = "reject" THEN NoMatch ELSE u)

Semantics(reading, g, in) ==
    LET m[s \in States(g, in)] ==
            IF s.depth = 0 THEN Unknown
            ELSE Outcome(reading, g, in, m, s.depth - 1, s.rule, s.done, s.tok)
    IN  m
==============================================================================
