---------------------------- MODULE MCParserMemo -----------------------------
(* A capacity of two: the third token regrows a row, the fifth is at its      *)
(* doubled capacity.                                                          *)
EXTENDS ParserMemo, MCGrammars

\* Two literals under sequences, repetitions, choices and lists.
MemoGrammars ==
    {g \in SafeGrammars : g[Len(g)].type \in {"sequence", "choice", "repeat", "list"}}

MemoInputs == {<<a, a>>, <<a, b>>, <<a, b, a>>, <<a, a, b, b>>, <<b, a, a, b>>}
==============================================================================
