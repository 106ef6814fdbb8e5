----------------------------- MODULE MCCalculator -----------------------------
(* A line that leaves a result, and every statement of the kinds below after it. *)
EXTENDS CalculatorCorrect

Node(op, n, ops, f, args) == [op |-> op, n |-> n, ops |-> ops, f |-> f, args |-> args]
I(n) == Node("int", n, << >>, "", << >>)
F(n) == Node("float", n, << >>, "", << >>)
P == Node("prev", 0, << >>, "", << >>)
A(args) == Node("array", 0, << >>, "", args)
Neg(t) == Node("neg", 0, << >>, "", <<t>>)
Chain(op, ops, args) == Node(op, 0, ops, "", args)
Fn(f, args) == Node("call", 0, << >>, f, args)
Lone(t) == [statements |-> <<t>>, whole |-> TRUE]

First == {Lone(t) : t \in {I(2), A(<<I(1), F(2)>>), A(<<I(2)>>)}}

Operands == {I(2), F(3), P, A(<<I(2), I(5)>>), Neg(P)}
Binaries == {Chain("add_sub", <<"+">>, <<x, y>>) : x, y \in Operands}
            \cup {Chain("add_sub", <<"-", "+">>, <<x, y, z>>) : x, y, z \in Operands}
            \cup {Chain("mul_div_mod", <<o, "*">>, <<x, y, z>>) : o \in {"/", "%"}, x, y, z \in Operands \ {F(3), Neg(P)}}
            \cup {Chain("mul_div_mod", <<"*">>, <<x, y>>) : x, y \in Operands \cup {A(<<F(0), I(1), I(2)>>)}}
            \cup {Chain("pow", <<"^", "^">>, <<x, y, z>>) : x, y, z \in {I(2), P, A(<<I(2), I(1)>>)}}
            \cup {Chain("mul_div_mod", <<"/">>, <<x, I(0)>>) : x \in Operands}
Calls == {Fn(f, <<x>>) : f \in {"abs", "round", "max", "min", "nosuch"}, x \in Operands \cup {A(<<A(<<I(1)>>), I(-2)>>)}}
         \cup {Fn(f, <<x, y>>) : f \in {"mod", "pow", "max"}, x, y \in Operands}
         \cup {Fn("max", <<I(1), I(2), I(3)>>), A(<<P, P>>)}
Nested == {Chain("add_sub", <<"+">>, <<x, y>>) : x \in Calls, y \in {P, I(1), A(<<A(<<I(1), I(1)>>), I(1)>>)}}

Parts == {P, Neg(P), I(2), Chain("add_sub", <<"+">>, <<P, I(1)>>), Chain("add_sub", <<"-">>, <<A(<<I(2)>>), P>>),
          Fn("max", <<P>>), Fn("pow", <<P, I(2)>>), A(<<I(1), I(2), F(3)>>)}

Second == {Lone(t) : t \in Operands \cup Binaries \cup Calls \cup Nested}
          \cup {[statements |-> <<x, y>>, whole |-> w] : x, y \in Parts, w \in BOOLEAN}
MCSessions == {<<x, y, Lone(P)>> : x \in First, y \in Second}
==============================================================================
