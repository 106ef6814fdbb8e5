---------------------------- MODULE MCPreprocessor ----------------------------
(* Every invocation of each kind of macro on single, compound, nested, missing  *)
(* and parenthesised arguments, before and after other tokens; and directives   *)
(* in files that include each other.                                            *)
EXTENDS PreprocessorCorrect

T(s) == <<s>>
Obj(rep) == [fn |-> FALSE, va |-> FALSE, params |-> << >>, rep |-> rep]
Fn(params, rep) == [fn |-> TRUE, va |-> FALSE, params |-> params, rep |-> rep]
Define(name, m) == <<"#", "define", name, m>>

x == T("x")   y == T("y")   a == T("a")   A == T("A")   B == T("B")
f == T("f")   HASH == T("#")   CAT == T("##")   semi == T(";")

Macros == [
    A |-> Obj(<<a>>), B |-> Obj(<<A, semi>>), G |-> Obj(<<f>>), N |-> Obj(<< >>), R |-> Obj(<<T("R"), a>>),
    J |-> Obj(<<semi, a, CAT, A>>), K |-> Obj(<<a, CAT, T("b")>>), P |-> Obj(<<a, COMMA, a>>),
    Z |-> Fn(<< >>, <<A, a>>), f |-> Fn(<<x>>, <<x, semi, x>>), g |-> Fn(<<x, y>>, <<y, A, LP, x, RP>>),
    c |-> Fn(<<x, y>>, <<semi, x, CAT, y>>), d |-> Fn(<<x>>, <<x, CAT, x, CAT, a>>), s |-> Fn(<<x>>, <<HASH, x>>),
    h |-> Fn(<<x>>, <<f, LP, x, RP>>), v |-> [Fn(<<x>>, <<x>>) EXCEPT !.va = TRUE]]

Names == <<"A", "B", "G", "N", "R", "J", "K", "P", "Z", "f", "g", "c", "d", "s", "h", "v">>
Definitions == <<Define(<<"a", "b">>, Obj(<<semi>>))>> \o [i \in DOMAIN Names |-> Define(T(Names[i]), Macros[Names[i]])]

Call(n, ts) == <<T(n), LP>> \o ts \o <<RP>>
Short == {<<a>>, <<A>>, <<T("b")>>, <<LP, A, RP>>, << >>, <<T("P")>>}
Long  == {<<B>>, <<a, A>>, Call("f", <<A>>), <<LP, a, COMMA, a, RP>>, Call("g", <<a, COMMA, A>>), <<f>>}

Calls == {Call(n, p) : n \in {"f", "h", "s", "d", "Z", "v", "G"}, p \in Short \cup Long}
         \cup {Call(n, p \o <<COMMA>> \o q) : n \in {"f", "g", "c", "v"}, p \in Short, q \in Short}
         \cup {<<T(n)>> : n \in Range(Names)}
         \cup {<<T("f"), LP, A>>, <<HASH, A>>, <<a, CAT, B>>, <<HASH>>, <<CAT, a>>}
Lines == {p \o k \o q : p \in {<< >>, <<A>>}, k \in Calls, q \in {<< >>, <<semi, A>>}}

MCFiles == [h1 |-> <<Define(A, Macros["A"]), <<"text", <<T("B")>>>>>>,
            h2 |-> <<<<"#", "include", "h2">>>>,
            h3 |-> <<Define(A, Macros["A"])>>]

Directive1 == {<<"#", "include", n>> : n \in {"h1", "h2", "h3", "none"}}
              \cup {<<"#", "undef", A>>, <<"#", "if", a>>, <<"#", "ifn", <<a>>>>, <<"#", "definex", A, Obj(<<a>>)>>}

MCTexts == {Definitions \o <<<<"text", l>>>> : l \in Lines}
           \cup {<<p, <<"text", <<A>>>>, q, <<"text", <<A, B>>>>>> :
                    p \in Directive1 \cup {Define(B, Macros["B"])}, q \in Directive1}
==============================================================================
