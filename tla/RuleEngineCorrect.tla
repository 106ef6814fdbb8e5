-------------------------- MODULE RuleEngineCorrect --------------------------
(***************************************************************************)
(* What the rule engine must do, stated against the cache-free reference    *)
(* PegSemantics, for the classes of grammars of GrammarClasses.             *)
(***************************************************************************)
EXTENDS RuleEngine, PegSemantics, GrammarClasses

CONSTANT Depths   \* how deep the reference is evaluated

ASSUME DepthsAssumption == Depths \subseteq Nat

-----------------------------------------------------------------------------
(* Properties *)

Meaning(reading, d) == Semantics(reading, grammar, input)[At(d, ret.rule, 0, ret.tok)]

\* The result of the Rule_check that returned.
Verdict == IF Ok THEN cur ELSE NoMatch

\* Whatever was tried, cached, backed out or relabelled before, Rule_check
\* returns what the rule means at its token, and leaves the cursor where the
\* match ends, or where it began if there is none (rule.c, Rule_check).
ReturnIsReference ==
    mode = "ret" => /\ \E d \in Depths : Meaning("code", d) = Verdict
                    /\ ~Ok => cur = ret.tok

\* Where no group can match nothing, giving up at the end of the input is not
\* observable: the engine accepts what the README's operators describe.
AgreesWithReadme ==
    (mode = "ret" /\ NoNullableGroup(grammar)) =>
        \A d \in Depths : Meaning("readme", d) \in {Verdict, Unknown}

\* Each child of a node carries the id of a rule that can stand there.
ChildrenFit ==
    \A i \in DOMAIN nodes :
        \A k \in DOMAIN nodes[i].kids :
            nodes[nodes[i].kids[k]].rule \in Labels(grammar, ChildRule(nodes[i].builtFor, k))

\* A production that owns its body relabels only nodes nobody else refers to,
\* so a failed alternative leaves no trace in the tree (build_action_default).
ChildrenKeepTheirRule == UnsharedBodies(grammar) => ChildrenFit

\* Parser_print_parse_status: the failed rule is reported if the failure is at
\* a token with a string, which the head alone has not.
Parser_parse_status == IF failed.tok # token_head THEN "P4C_PARSE_FAILURE" ELSE "P4C_SUCCESS"

-----------------------------------------------------------------------------
(* What the documentation says, without the conditions under which it holds *)

\* parser.c: Parser_parse_status returns "P4C_TOKENIZE_FAILURE,
\* P4C_PARSER_FAILURE on corresponding errors or 0/P4C_SUCCESS on success".
StatusReportsSuccess == (mode = "done" /\ Ok) => Parser_parse_status = "P4C_SUCCESS"
==============================================================================
