------------------------------- MODULE MCLexing -------------------------------
(* Blanks that are skipped, a mark that a line starts with or that is a token   *)
(* of its own, names, and a word that is one of the names.                      *)
EXTENDS Lexing

Blank == <<" ">>
Names == {<<"a">>, <<"b">>, <<"a", "b">>, <<"b", "a">>}
MCLiterals == [ws |-> {Blank, Blank \o Blank}, hash |-> {<<"#">>, <<"#", " ">>}, punc |-> {<<"#">>},
               name |-> Names, word |-> {<<"a">>}]
Prod(l, s, p) == [lit |-> l, skip |-> s, picky |-> p]
MCProductions == [line |-> Prod("hash", TRUE, TRUE), blank |-> Prod("ws", TRUE, FALSE),
                  punctuator |-> Prod("punc", FALSE, FALSE), identifier |-> Prod("name", FALSE, FALSE)]
MCTokenRule == <<"line", "blank", "punctuator", "identifier">>
MCRootUses == {"word", "identifier", "blank"}

MCTexts == {<<"a">>, <<"a", "b">>, <<"a", " ">>, <<"#", " ", "a">>, <<"a", " ", "a", "b">>, <<"b", "#", "a">>, <<"c">>}
==============================================================================
