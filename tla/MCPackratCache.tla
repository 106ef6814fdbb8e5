--------------------------- MODULE MCPackratCache ----------------------------
(* Small instance: two rules, ids around the doublings of a row of one entry, *)
(* one id no caller may use, and the SIZE_MAX of a sentinel token.            *)
EXTENDS PackratCache

MCRuleIds  == 0 .. NRules
MCSizeMod  == 256
MCTokenIds == (0 .. 4) \cup {8, MCSizeMod - 1}

==============================================================================
