--------------------------- MODULE MCRuleLifecycle ----------------------------
(* Two static literals, a composite rule between them, and two rules made at    *)
(* run time of every class.                                                     *)
EXTENDS RuleLifecycle

MCGenerated == <<"LiteralRule", "ListRule", "LiteralRule">>
MCHeap == {11, 12}
MCClasses == DOMAIN Table
==============================================================================
