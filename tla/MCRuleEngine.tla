---------------------------- MODULE MCRuleEngine -----------------------------
(* The rule engine on the grammars and inputs of MCGrammars. *)
EXTENDS RuleEngineCorrect, MCGrammars
==============================================================================
