-------------------------- MODULE CalculatorCorrect ---------------------------
(***************************************************************************)
(* The values of a calculator's statements, element by element and without   *)
(* memory: << type, n >>, or << "array", values >>.                           *)
(***************************************************************************)
EXTENDS Calculator

RECURSIVE Content(_, _)
Content(v, h) ==
    CASE ~IsArray(v) -> <<v.type, v.n>>
      [] Reads(h, v) -> <<"array", [i \in 1 .. v.len |-> Content(h[v.n][i], h)]>>
      [] OTHER       -> <<"wild", 0>>

Failed  == <<"failed", 0>>
Number(v) == v[1] \in {"int", "float"}
Numbers(v) == v[1] = "array" /\ \A i \in DOMAIN v[2] : Number(v[2][i])

\* An operation on two numbers, on the numbers of two arrays, or on a number and
\* those of an array.
Arithmetic(op, a, b) ==
    LET n == CASE op = "+" -> a[2] + b[2]
               [] op = "-" -> a[2] - b[2]
               [] op = "*" -> a[2] * b[2]
               [] op = "/" -> Quotient(a[2], b[2])
               [] op = "%" -> Remainder(a[2], b[2])
               [] op = "^" -> Power(a[2], b[2])
    IN  <<IF "float" \in {a[1], b[1]} THEN "float" ELSE "int", n>>

Broadcast(F(_, _), a, b) ==
    CASE Number(a) /\ Number(b)  -> F(a, b)
      [] Number(a) /\ Numbers(b) -> <<"array", [i \in DOMAIN b[2] |-> F(a, b[2][i])]>>
      [] Numbers(a) /\ Number(b) -> <<"array", [i \in DOMAIN a[2] |-> F(a[2][i], b)]>>
      [] Numbers(a) /\ Numbers(b) /\ Len(a[2]) = Len(b[2]) ->
            <<"array", [i \in DOMAIN a[2] |-> F(a[2][i], b[2][i])]>>
      [] OTHER -> Failed

ToFloat(v) == <<"float", v[2]>>
Library(f, args) ==
    CASE f \in {"mod", "pow"} ->
            Broadcast(LAMBDA a, b : ToFloat(Arithmetic(IF f = "mod" THEN "%" ELSE "^", a, b)), args[1], args[2])
      [] f = "abs"   -> Broadcast(LAMBDA a, b : <<a[1], IF a[2] < 0 THEN -a[2] ELSE a[2]>>, args[1], <<"int", 0>>)
      [] f = "round" -> Broadcast(LAMBDA a, b : ToFloat(a), args[1], <<"int", 0>>)
      [] f \in {"max", "min"} ->
            LET all == IF Len(args) = 2 THEN args ELSE IF Number(args[1]) THEN args ELSE args[1][2]
            IN  CHOOSE v \in Range(all) : \A w \in Range(all) : IF f = "max" THEN v[2] >= w[2] ELSE v[2] <= w[2]

RECURSIVE Value(_, _)
Value(tree, prev) ==
    LET args == [i \in DOMAIN tree.args |-> Value(tree.args[i], prev)]
        last == Len(args)
        left(a, i)  == Broadcast(LAMBDA x, y : Arithmetic(tree.ops[i - 1], x, y), a, args[i])
        right(a, i) == Broadcast(LAMBDA x, y : Arithmetic("^", x, y), args[i], a)
    IN  CASE tree.op \in {"int", "float"} -> <<tree.op, tree.n>>
          [] tree.op = "prev"  -> prev
          [] tree.op = "array" -> IF Failed \in Range(args) THEN Failed ELSE <<"array", args>>
          [] tree.op = "neg"   -> Broadcast(LAMBDA x, y : Arithmetic("*", x, y), args[1], <<"int", -1>>)
          [] tree.op \in {"add_sub", "mul_div_mod"} ->
                FoldLeft(left, args[1], [i \in 1 .. last - 1 |-> i + 1])
          [] tree.op = "pow"   -> FoldLeft(right, args[last], [i \in 1 .. last - 1 |-> last - i])
          [] tree.op = "call"  -> IF Failed \in Range(args) THEN Failed ELSE Library(tree.f, args)

-----------------------------------------------------------------------------
(* Where the code computes them *)

RECURSIVE Uses(_)
Uses(tree) == (IF tree.op = "prev" THEN 1 ELSE 0) + FoldLeft(LAMBDA n, t : n + Uses(t), 0, tree.args)
PrevUses == FoldLeft(LAMBDA n, t : n + Uses(t), 0, line.statements)

Before == Content(was.v, was.heap)
Values == [i \in DOMAIN line.statements |-> Value(line.statements[i], Before)]

\* No array of length 1 meets mod, pow or atan2; no array is in an array; no
\* division by zero or negative exponent; known functions of the right number of
\* arguments; PREV is there.
RECURSIVE Sound(_)
Sound(tree) ==
    LET args == [i \in DOMAIN tree.args |-> Value(tree.args[i], Before)]
        all(v) == IF v[1] = "array" THEN v[2] ELSE <<v>>
        binary == tree.f \in {"mod", "pow"}
    IN  /\ \A i \in DOMAIN tree.args : Sound(tree.args[i])
        /\ tree.op = "prev" => Number(Before) \/ Numbers(Before)
        /\ tree.op = "array" => \A i \in DOMAIN args : Number(args[i])
        /\ \A i \in DOMAIN tree.ops : tree.ops[i] \in {"/", "%"} => \A v \in Range(all(args[i + 1])) : v[2] # 0
        /\ tree.op = "pow" => \A i \in DOMAIN args : \A v \in Range(all(args[i])) : v[2] >= 0
        /\ tree.op = "call" =>
              /\ tree.f \in {"mod", "pow", "abs", "round", "max", "min"}
              /\ tree.f \in {"abs", "round"} => Len(args) = 1
              /\ Len(args) <= MAX_NARGIN
              /\ tree.f \in {"max", "min"} /\ Len(args) = 2 =>
                    Number(args[1]) /\ Number(args[2]) /\ args[1][2] # args[2][2]
              /\ binary => /\ Len(args) = 2
                           /\ \A i \in DOMAIN args : Len(all(args[i])) > 1 \/ Number(args[i])
                           /\ Broadcast(LAMBDA x, y : x, args[1], args[2]) # Failed
                           /\ \A v \in Range(all(args[2])) : IF tree.f = "mod" THEN v[2] # 0 ELSE v[2] >= 0

AllSound == \A i \in DOMAIN line.statements : Sound(line.statements[i])
Printed == [i \in DOMAIN printed |-> Content(printed[i].v, printed[i].heap)]

LineDone == pc \in {"read", "wild", "crash"} /\ line.statements # << >>
\* The statements before the first that has no value or is not ended.
Expected ==
    LET good(i) == i < Len(Values) \/ line.whole
        n == CHOOSE k \in 0 .. Len(Values) :
                /\ \A i \in 1 .. k : Values[i] # Failed /\ good(i)
                /\ k < Len(Values) => Values[k + 1] = Failed \/ ~good(k + 1)
    IN  SubSeq(Values, 1, n)

LineRight ==
    /\ pc = "read"
    /\ Printed = Expected
    /\ Expected # << >> => Content(result, heap) = Last(Expected)

\* The line has at most one statement before the first that is not right.  A line
\* with two does not reach its end (WalkStatements).
OneStatement == Len(Expected) <= 1

\* A line of one statement, with or without another after it that fails or is not
\* ended, prints the statement's value, which becomes the result, and a line whose first
\* statement is not right prints nothing.  The actions compute in the arrays of their
\* operands, which works as long as no other node has the same array, the line's uses
\* of PREV included (calculatorparser.c).
LinePrintsValues == LineDone /\ AllSound /\ OneStatement /\ PrevUses <= 1 => LineRight

\* "copy in the previous result into the current calculation"
\* (calculatorparser.c:519): however often a line names PREV, each stands for
\* the previous result.
PrevIsCopied == LineDone /\ AllSound /\ OneStatement => LineRight
==============================================================================
