----------------------------- MODULE MCGrammars ------------------------------
(* Grammars and inputs for the small instances: every grammar of two          *)
(* literals, one rule over them and a root over all three, two recursive      *)
(* grammars, and the grammar a counterexample run is about.                   *)
EXTENDS GrammarClasses

CONSTANTS a, b   \* token kinds

Ranges  == {<<0, 0>>, <<1, 0>>, <<0, 1>>, <<2, 2>>}
Actions == {"default", "skip", "simplify", "pass", "reject"}

RulesOver(S) ==
    {SeqOf(<<p, q>>) : p \in S, q \in S} \cup {ChoiceOf(<<p, q>>) : p \in S, q \in S}
    \cup {Rep(p, m) : p \in S, m \in Ranges} \cup {ListOf(p, q) : p \in S, q \in S}
    \cup {Neg(p) : p \in S} \cup {Pos(p) : p \in S}
    \cup {Prod(p, act) : p \in S, act \in Actions}

SmallGrammars ==
    {<<Lit(a), Lit(b), x, y>> : x \in RulesOver({1, 2}),
                                y \in {z \in RulesOver({1, 2, 3}) : 3 \in SubRules(z)}}

\* S: a S b | a b, and nested lists E: (b E)? with a delimiter.
RecursiveGrammars ==
    {<<Lit(a), Lit(b), SeqOf(<<1, 5, 2>>), SeqOf(<<1, 2>>), ChoiceOf(<<3, 4>>)>>,
     <<Lit(a), Lit(b), SeqOf(<<2, 6>>), ChoiceOf(<<3, 1>>), ListOf(2, 4), Prod(5, "default")>>}

SafeGrammars ==
    {g \in SmallGrammars \cup RecursiveGrammars : Terminates(g) /\ AnchoredNodes(g)}

SmallInputs == UNION {[1 .. n -> {a, b}] : n \in 1 .. 3} \cup {<<a, a, b, b>>, <<a, b, a, b>>}

-----------------------------------------------------------------------------
(* The grammar of a counterexample *)

\* e ; with e: '(' n ')' and a build action that returns n, as in calculator.grmr.
Parenthesised ==
    {<<Lit(a), Lit(b), SeqOf(<<1, 2, 1>>), Prod(3, "inner"), SeqOf(<<4, 2>>)>>}
ABAB == {<<a, b, a, b>>}
==============================================================================
