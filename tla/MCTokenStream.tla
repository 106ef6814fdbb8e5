---------------------------- MODULE MCTokenStream ----------------------------
(* Every string of up to two characters and two of three, a second string on *)
(* the same parser.                                                           *)
EXTENDS TokenStream

TextsOf(n) == [1 .. n -> {"char", "newline"}]

MCTexts   == TextsOf(0) \cup TextsOf(1) \cup TextsOf(2)
             \cup {<<"char", "newline", "char">>, <<"newline", "char", "newline">>}
EmptyText == TextsOf(0)
OneChar   == TextsOf(1)
==============================================================================
