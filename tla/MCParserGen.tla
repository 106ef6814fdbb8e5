----------------------------- MODULE MCParserGen -----------------------------
(* Two productions over two literals, each naming either: every pair of        *)
(* definitions with shared, nested and grouped parts, after and before the     *)
(* literals are introduced; and the grammars a writer gets wrong.              *)
EXTENDS ParserGen

N(n) == <<"name", n>>
S(l) == <<"string", l>>
Pair(kind, d, e) == <<kind, <<d, e>>>>
Group(e) == <<"group", e>>

Atoms == {N("A"), N("B"), S("x")}
Flat  == {Pair(k, N("B"), S("x")) : k \in {"sequence", "choice", "list"}}
         \cup {<<k, N("B")>> : k \in {"plus", "star", "opt", "pos", "neg"}}
Deep  == {Pair("sequence", d, e) : d \in {N("A"), Pair("list", N("B"), S("x"))},
                                   e \in {<<"plus", Group(f)>> : f \in Flat} \cup {<<"opt", N("B")>>, S("x")}}
         \cup {Pair("choice", e, e) : e \in Flat}
         \cup {<<k, Group(f)>> : k \in {"pos", "neg"}, f \in Flat}
Exprs == Atoms \cup Flat \cup {Group(f) : f \in Flat} \cup Deep
\* What is not well formed: a group of one name, braces, a list of three.
Wrong == {<<"plus", Group(N("B"))>>, <<"list", <<N("B"), S("x"), N("A")>>>>}
         \cup {<<"braces", N("B"), m, c, n>> : m \in {<< >>, <<2>>}, c \in BOOLEAN, n \in {<< >>, <<3>>}}

Export == <<"export", "g">>
Tokens == <<"punctuator", "", <<S("x"), S("y")>>>>
KeyWords == <<"keyword", "", <<S("k")>>>>
Prod(n, e) == <<"production", n, e>>

ConfigTexts ==
    {<<Export, <<"import", "h">>, Prod("A", N("A"))>>, <<<<"import", "h">>, Export, Prod("A", N("A"))>>}

\* Names that meet: in upper case only, through the name of a punctuator, and with
\* what the code makes up.
NameTexts ==
    {<<Export, Tokens, Prod("A", d), Prod(n, Pair("choice", N("A"), S("x")))>> :
        n \in {"a", "plus", "PLUS", "A_re", "seq_2_4", "k_kw", "dest", "nrules"},
        d \in (Atoms \cup Flat) \ {N("B")}}
    \cup {<<Export, <<"punctuator", "", <<S("x"), S("+")>>>>, Prod(n, d), Prod("B", S("x"))>> :
            n \in {"plus", "PLUS", "A"}, d \in Flat}
    \cup {<<Export, <<"keyword", "", <<S("k"), S("K")>>>>, Prod("k_kw", S("k")), Prod("B", <<"regex", "r">>)>>,
          <<Export, <<"keyword", "", <<S("k"), S("K")>>>>, Prod("A", S("k")), Prod("B", <<"regex", "r">>)>>}

MCTexts ==
    {<<Export, Tokens, Prod("A", d), Prod("B", e)>> : d \in Exprs, e \in Exprs}
    \cup {<<Export, KeyWords, Prod("T", S("x")), Prod("A", d), Prod("B", e)>> : d \in Exprs, e \in Flat \cup Atoms}
    \cup {<<Export, Prod("A", d), Tokens, Prod("B", <<"regex", "r">>)>> : d \in Exprs \cup Wrong}
    \cup {<<Export, Tokens, Prod("A", d), Prod("A", d)>> : d \in Flat \cup Wrong}
    \cup {<<Prod("A", N("A"))>>, <<Tokens>>, << >>, <<Export, Prod("p", N("p"))>>}
    \cup ConfigTexts \cup NameTexts

MCPrefixes == {"p", "k", "punctuator", "keyword"}

MCWords(name) ==
    CASE name = "A_re"    -> <<"A", "re">>
      [] name = "seq_2_4" -> <<"seq", "2", "4">>
      [] name = "k_kw"    -> <<"k", "kw">>
      [] OTHER            -> <<name>>

UpperCased ==
    [a |-> "A", k |-> "K", p |-> "P", r |-> "R", x |-> "X", y |-> "Y", plus |-> "PLUS", re |-> "RE",
     kw |-> "KW", rep |-> "REP", seq |-> "SEQ", choice |-> "CHOICE", list |-> "LIST", pos |-> "POS",
     neg |-> "NEG", punc |-> "PUNC", dest |-> "DEST", nrules |-> "NRULES",
     punctuator |-> "PUNCTUATOR", keyword |-> "KEYWORD"]
MCUpper(word) == IF word \in DOMAIN UpperCased THEN UpperCased[word] ELSE word

MCPunctuatorNames(l) == IF l = "+" THEN {"plus"} ELSE {}
==============================================================================
