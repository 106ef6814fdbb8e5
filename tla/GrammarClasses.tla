--------------------------- MODULE GrammarClasses ----------------------------
(***************************************************************************)
(* The rule tables a parser runs on, one record per rule with its           *)
(* dependencies given by rule id (include/peg4c/rule.h), and the classes    *)
(* of tables the properties of the engine are about.                        *)
(***************************************************************************)
EXTENDS Integers, Sequences, FiniteSets

Lit(k)        == [type |-> "literal", match |-> {k}]
SeqOf(d)      == [type |-> "sequence", deps |-> d]
ChoiceOf(d)   == [type |-> "choice", deps |-> d]
Rep(r, m)     == [type |-> "repeat", rule |-> r, min |-> m[1], max |-> m[2]]
ListOf(d, r)  == [type |-> "list", rule |-> r, delim |-> d]
Neg(r)        == [type |-> "neg", rule |-> r]
Pos(r)        == [type |-> "pos", rule |-> r]
Prod(r, act)  == [type |-> "production", rule |-> r, action |-> act]

-----------------------------------------------------------------------------
(* Classes of grammars *)

SubRules(rule) ==
    CASE rule.type = "literal"              -> {}
      [] rule.type \in {"sequence", "choice"} -> {rule.deps[i] : i \in DOMAIN rule.deps}
      [] rule.type = "list"                 -> {rule.rule, rule.delim}
      [] OTHER                              -> {rule.rule}

\* The least set of rules closed under step, which only ever adds rules.
Closure(g, step(_, _)) ==
    LET grown[i \in 0 .. Len(g)] == IF i = 0 THEN {} ELSE step(g, grown[i - 1])
    IN  grown[Len(g)]

\* Rules that can succeed without consuming a token.
NullableStep(g, S) ==
    {r \in DOMAIN g :
        CASE g[r].type = "literal"    -> FALSE
          [] g[r].type = "sequence"   -> SubRules(g[r]) \subseteq S
          [] g[r].type = "choice"     -> SubRules(g[r]) \cap S # {}
          [] g[r].type = "repeat"     -> g[r].min = 0 \/ g[r].rule \in S
          [] g[r].type \in {"neg", "pos"} -> TRUE
          [] OTHER                    -> g[r].rule \in S}

Nullable(g) == Closure(g, NullableStep)

\* Rules that rule r may call at the token it was itself called at.
LeftCalls(g, r) ==
    CASE g[r].type = "sequence" ->
            {g[r].deps[i] : i \in {j \in DOMAIN g[r].deps :
                                     \A k \in 1 .. j - 1 : g[r].deps[k] \in Nullable(g)}}
      [] g[r].type = "list" ->
            {g[r].rule} \cup (IF g[r].rule \in Nullable(g) THEN {g[r].delim} ELSE {})
      [] OTHER -> SubRules(g[r])

LeftReach(g, r) ==
    LET reach[i \in 0 .. Len(g)] ==
          IF i = 0 THEN LeftCalls(g, r)
          ELSE reach[i - 1] \cup UNION {LeftCalls(g, q) : q \in reach[i - 1]}
    IN  reach[Len(g)]

\* The README excludes left recursion; an unbounded repetition of a rule that
\* consumes nothing never ends either.
Terminates(g) ==
    \A r \in DOMAIN g :
        /\ r \notin LeftReach(g, r)
        /\ g[r].type = "repeat" => g[r].max # 0 \/ g[r].rule \notin Nullable(g)
        /\ g[r].type = "list"   => ~({g[r].rule, g[r].delim} \subseteq Nullable(g))

\* A production of the table returns the child of its node in place of the node.
Simplifies(g) == \E r \in DOMAIN g : g[r].type = "production" /\ g[r].action = "simplify"
ReturnsInner(g) == \E r \in DOMAIN g : g[r].type = "production" /\ g[r].action = "inner"

\* The rules whose node can be the only child of a node of this rule.
OnlyChild(rule) ==
    CASE rule.type = "sequence" -> IF Len(rule.deps) = 1 THEN {rule.deps[1]} ELSE {}
      [] rule.type \in {"repeat", "list"} -> {rule.rule}
      [] OTHER -> {}

\* S has every rule whose node may be the one a positive lookahead made, whose
\* token_start is the token before the one it looked at; no delimiter and no
\* production sees such a node, and "simplify" does not hand one on.
LookaheadsIn(g, S) ==
    \A r \in DOMAIN g :
        /\ g[r].type = "pos" => r \in S
        /\ (g[r].type = "choice" /\ SubRules(g[r]) \cap S # {}) => r \in S
        /\ g[r].type = "list" => g[r].delim \notin S
        /\ g[r].type = "production" => g[r].rule \notin S
        /\ Simplifies(g) => OnlyChild(g[r]) \cap S = {}

AnchoredNodes(g) == \E S \in SUBSET DOMAIN g : LookaheadsIn(g, S)

\* The rules below rule r, itself excluded unless it is recursive.
BelowStep(g, S) == S \cup UNION {SubRules(g[q]) : q \in S}

RulesBelow(g, r) ==
    LET below[i \in 0 .. Len(g)] ==
          IF i = 0 THEN SubRules(g[r]) ELSE BelowStep(g, below[i - 1])
    IN  below[Len(g)]

\* The rules whose node rule r may return as its own.
HandedOn(g, r) ==
    CASE g[r].type = "choice" -> SubRules(g[r])
      [] g[r].type = "production" ->
            IF g[r].action \in {"simplify", "inner"} THEN RulesBelow(g, r) ELSE SubRules(g[r])
      [] OTHER -> {}

\* The rule ids a node returned for a rule may carry, as pairs <<rule, id>>: a
\* choice returns the node of a dependency, a production labels or passes on.
OwnLabel(rule) ==
    IF rule.type = "production" THEN rule.action \in {"default", "simplify"}
    ELSE rule.type # "choice"

MayCarry(rule, label) ==
    rule.type = "production" /\ rule.action \in {"default", "skip", "reject"} => label = -1

LabelStep(g, S) ==
    {p \in (DOMAIN g) \X ({-1} \cup DOMAIN g) :
        LET rule == g[p[1]] IN
        \/ OwnLabel(rule) /\ p[2] = p[1]
        \/ rule.type = "production" /\ rule.action = "skip" /\ p[2] = -1
        \/ MayCarry(rule, p[2]) /\ \E q \in HandedOn(g, p[1]) : <<q, p[2]>> \in S}

Labels(g, r) == {p[2] : p \in {x \in Closure(g, LabelStep) : x[1] = r}}

\* Production p changes the rule id of the node it got.
Relabels(rule) ==
    rule.type = "production" /\ rule.action \in {"default", "skip", "simplify"}

\* The rules whose node production p may have got.
FeedStep(g, S) == S \cup UNION {HandedOn(g, q) : q \in S}

Feeds(g, p) ==
    LET feeds[i \in 0 .. Len(g)] ==
          IF i = 0 THEN {g[p].rule} ELSE FeedStep(g, feeds[i - 1])
    IN  feeds[Len(g)]

\* The node of such a production is a child of another node.
TakesChild(rule) == rule.type = "production" /\ rule.action \in {"simplify", "inner"}

\* A node a production relabels is reached through that production alone.
UnsharedBodies(g) ==
    \A p \in DOMAIN g : Relabels(g[p]) =>
        \A x \in Feeds(g, p) :
            /\ Cardinality({r \in DOMAIN g : x \in SubRules(g[r])}) = 1
            /\ ~TakesChild(g[x])

\* No group whose verdict at the end of input could depend on its subrules.
NoNullableGroup(g) ==
    \A r \in DOMAIN g :
        /\ g[r].type \in {"sequence", "choice", "list"} => r \notin Nullable(g)
        /\ g[r].type = "repeat" /\ g[r].min > 0 => g[r].rule \notin Nullable(g)
        /\ g[r].type = "neg" => g[r].rule \notin Nullable(g)
==============================================================================
