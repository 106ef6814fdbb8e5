------------------------------ MODULE Calculator ------------------------------
(***************************************************************************)
(* The calculator example (examples/calc): the build actions of its grammar  *)
(* and the functions of its library, on values that share their arrays.      *)
(*                                                                           *)
(* The parser runs the build actions of a line in postfix order, each once.   *)
(* A node's value is a C union: [type, n, len], n a number, or the address of *)
(* an array of the heap.  Numbers of type float are whole here, so that all    *)
(* the arithmetic is exact.                                                   *)
(***************************************************************************)
EXTENDS Integers, Sequences, SequencesExt

CONSTANT Sessions    \* sequences of lines: [statements, whole], whole if the last statement ends as it should

MAX_NARGIN == 2

Whole(n)   == [type |-> "int", n |-> n, len |-> 0]
Real(n) == [type |-> "float", n |-> n, len |-> 0]
Array(at, len) == [type |-> "array", n |-> at, len |-> len]
err_value == [type |-> "notset", n |-> 0, len |-> 0]
Wild     == [type |-> "wild", n |-> 0, len |-> 0]      \* what undefined behaviour yields

IsArray(v) == v.type = "array"
Reads(heap, v) == IsArray(v) /\ v.n \in DOMAIN heap /\ v.len = Len(heap[v.n])

-----------------------------------------------------------------------------
(* Scalars: calc_add_ss and the like.  Whatever is not a float is an integer to  *)
(* them, an array's address included.                                            *)

Sign(n) == IF n < 0 THEN -1 ELSE 1
Quotient(a, b) == Sign(a) * Sign(b) * ((Sign(a) * a) \div (Sign(b) * b))
Remainder(a, b) == a - b * Quotient(a, b)

Power(base, exp) ==
    LET p[e \in 0 .. exp] == IF e = 0 THEN 1 ELSE base * p[e - 1] IN p[exp]

Op(op, d, s) ==
    LET float == "float" \in {d.type, s.type}
        type  == IF float THEN "float" ELSE d.type
    IN  CASE "wild" \in {d.type, s.type} -> Wild
          [] op = "+" -> [d EXCEPT !.type = type, !.n = @ + s.n]
          [] op = "-" -> [d EXCEPT !.type = type, !.n = @ - s.n]
          [] op = "*" -> [d EXCEPT !.type = type, !.n = @ * s.n]
          [] op = "/" -> IF s.n = 0 THEN Wild ELSE [d EXCEPT !.type = type, !.n = Quotient(@, s.n)]
          [] op = "%" -> IF s.n = 0 THEN Wild ELSE [d EXCEPT !.type = type, !.n = Remainder(@, s.n)]
          [] op = "^" -> IF d.n < 0 THEN Wild    \* no whole number
                         ELSE [d EXCEPT !.type = type, !.n = Power(s.n, @)]

-----------------------------------------------------------------------------
(* Library functions.  They yield [v, heap].                                     *)

\* The values, in an array of their own.
NewArray(heap, values) == [v |-> Array(Len(heap) + 1, Len(values)), heap |-> Append(heap, values)]

\* F on every position of an array of n.
Each(heap, n, F(_, _)) ==
    LET one(acc, i) == LET r == F(acc.heap, i)
                       IN  [values |-> Append(acc.values, r.v), heap |-> r.heap]
        all == FoldLeft(one, [values |-> << >>, heap |-> heap], [i \in 1 .. n |-> i])
    IN  NewArray(all.heap, all.values)

\* abs, and the functions that make a float of a number, element by element.
RECURSIVE Unary(_, _, _)
Unary(f, v, heap) ==
    CASE v.type = "int"   -> [v |-> IF f = "abs" THEN Whole(Sign(v.n) * v.n) ELSE Real(v.n), heap |-> heap]
      [] v.type = "float" -> [v |-> IF f = "abs" THEN Real(Sign(v.n) * v.n) ELSE v, heap |-> heap]
      [] IsArray(v) -> IF Reads(heap, v) THEN Each(heap, v.len, LAMBDA h, i : Unary(f, heap[v.n][i], h))
                       ELSE [v |-> Wild, heap |-> heap]
      [] OTHER -> [v |-> err_value, heap |-> heap]

\* mod, pow and atan2 of two arguments: an argument of length 1 goes with every
\* element of the other, which is then taken to be an array.
RECURSIVE Binary(_, _, _, _)
Binary(f, a, b, heap) ==
    LET size(v) == IF IsArray(v) THEN v.len ELSE 1
        n == IF size(a) > size(b) THEN size(a) ELSE size(b)
        scalar == IF f = "mod" THEN Op("%", a, b) ELSE Op("^", b, a)
    IN  IF ~IsArray(a) /\ ~IsArray(b)
        THEN [v |-> IF scalar.type = "wild" THEN Wild ELSE Real(scalar.n), heap |-> heap]
        ELSE IF size(a) > 1 /\ size(b) > 1 /\ size(a) # size(b) THEN [v |-> err_value, heap |-> heap]
        ELSE IF size(a) = 1
        THEN IF Reads(heap, b) THEN Each(heap, n, LAMBDA h, i : Binary(f, a, heap[b.n][i], h))
             ELSE [v |-> Wild, heap |-> heap]
        ELSE IF size(b) = 1
        THEN IF Reads(heap, a) THEN Each(heap, n, LAMBDA h, i : Binary(f, heap[a.n][i], b, h))
             ELSE [v |-> Wild, heap |-> heap]
        ELSE IF Reads(heap, a) /\ Reads(heap, b)
        THEN Each(heap, n, LAMBDA h, i : Binary(f, heap[a.n][i], heap[b.n][i], h))
        ELSE [v |-> Wild, heap |-> heap]

max_value(a, b) == IF a.n > b.n THEN a ELSE b
min_value(a, b) == IF a.n > b.n THEN b ELSE a

\* max and min of an array, whose elements are told apart by n; a number is its own.
Extreme(f, v, heap) ==
    IF ~IsArray(v) THEN v
    ELSE IF ~Reads(heap, v) THEN Wild
    ELSE FoldLeft(LAMBDA a, b : IF f = "max" THEN max_value(a, b) ELSE min_value(a, b),
                  Head(heap[v.n]), Tail(heap[v.n]))

\* math_repl_get_func(f) called with the arguments.
Call(f, args, heap) ==
    LET binary == f \in {"mod", "pow", "atan2"}
        packed == IF Len(args) > 1 THEN NewArray(heap, args) ELSE [v |-> args[1], heap |-> heap]
        v == packed.v
    IN  CASE binary -> IF ~IsArray(v) \/ v.len # 2 THEN [v |-> err_value, heap |-> heap]
                       ELSE Binary(f, packed.heap[v.n][1], packed.heap[v.n][2], packed.heap)
          [] f \in {"max", "min"} -> [v |-> Extreme(f, v, packed.heap), heap |-> heap]
          [] f \in {"abs", "round"} -> Unary(f, v, packed.heap)
          [] OTHER -> [v |-> err_value, heap |-> heap]

-----------------------------------------------------------------------------
(* The build actions.  A statement is a tree [op, n, ops, f, args]: op names the   *)
(* action that builds it, n its number, ops its operators, f its function.  Rules  *)
(* with a single operand pass it on and are left out.                             *)

RECURSIVE Postfix(_)
Postfix(tree) == FlattenSeq([i \in DOMAIN tree.args |-> Postfix(tree.args[i])]) \o <<tree>>

VARIABLES
    session,  \* the lines to come
    line,     \* the line being parsed
    code,     \* the build actions still to come, statement by statement
    nodes,    \* the values of the nodes without a parent yet, oldest first
    heap,     \* the arrays that malloc returned
    result,   \* CalcParser.result, which PREV names
    was,      \* history: result and the arrays when the line was read
    printed,  \* what the line printed: [v, heap]
    pc        \* "read", "build", "built", "wild" or "crash"

vars == <<session, line, code, nodes, heap, result, was, printed, pc>>

Init ==
    /\ session \in Sessions
    /\ line = [statements |-> << >>, whole |-> FALSE]
    /\ code = << >>
    /\ nodes = << >>
    /\ heap = << >>
    /\ result = err_value
    /\ was = [v |-> err_value, heap |-> << >>]
    /\ printed = << >>
    /\ pc = "read"

\* main reads a line; Parser_init and Parser_dest leave result alone.
ReadLine ==
    /\ pc = "read"
    /\ session # << >>
    /\ session' = Tail(session)
    /\ line' = Head(session)
    /\ code' = [i \in DOMAIN Head(session).statements |-> Postfix(Head(session).statements[i])]
    /\ was' = [v |-> result, heap |-> heap]
    /\ printed' = << >>
    /\ nodes' = << >>
    /\ pc' = "build"
    /\ UNCHANGED <<heap, result>>

Tree == code[1][1]
Arity == Len(Tree.args)
Building(op) == pc = "build" /\ code[1] # << >> /\ Tree.op = op
Children == SubSeq(nodes, Len(nodes) - Arity + 1, Len(nodes))

\* The node takes the place of its children; undefined behaviour is the end of it.
Yield(v, h) ==
    /\ code' = [code EXCEPT ![1] = Tail(@)]
    /\ nodes' = Append(SubSeq(nodes, 1, Len(nodes) - Arity), v)
    /\ heap' = h
    /\ pc' = IF v.type = "wild" \/ \E i \in DOMAIN h : Wild \in Range(h[i]) THEN "wild" ELSE pc
    /\ UNCHANGED <<session, line, result, was, printed>>

build_int   == Building("int") /\ Yield(Whole(Tree.n), heap)
build_float == Building("float") /\ Yield(Real(Tree.n), heap)

\* PREV: an array is shared with the previous result.
build_constants == Building("prev") /\ Yield(result, heap)

build_array == Building("array") /\ LET a == NewArray(heap, Children) IN Yield(a.v, a.heap)

\* Defect: an array is left as it is.
NegateNumbers(v, h) == [v |-> IF v.type \in {"int", "float"} THEN [v EXCEPT !.n = -@] ELSE v, heap |-> h]

\* An odd number of minus signs negates the operand in place.
Negate(v, h) ==
    IF IsArray(v) /\ ~Reads(h, v) THEN [v |-> Wild, heap |-> h]
    ELSE IF IsArray(v)
    THEN [v |-> v, heap |-> [h EXCEPT ![v.n] = [i \in DOMAIN @ |-> Op("*", @[i], Whole(-1))]]]
    ELSE [v |-> IF v.type \in {"int", "float"} THEN [v EXCEPT !.n = -@] ELSE v, heap |-> h]

calc_unary ==
    /\ Building("neg")
    /\ LET r == Negate(Last(nodes), heap) IN Yield(r.v, r.heap)

\* The operands from the first on, each with the operator before it.  The first
\* array becomes the result, its memory included; a number before it is copied
\* into a new array.  "fail" when the lengths differ.
Accumulate(operands, ops, h) ==
    LET one(acc, i) ==
            LET r == operands[i + 1]
                size == IF IsArray(acc.v) THEN acc.v.len ELSE 0
                made == IF IsArray(r) /\ size = 0
                        THEN NewArray(acc.heap, [j \in 1 .. r.len |-> acc.v]) ELSE [v |-> acc.v, heap |-> acc.heap]
                onto(right(_)) ==
                    [v |-> made.v,
                     heap |-> [made.heap EXCEPT ![made.v.n] = [j \in DOMAIN @ |-> Op(ops[i], @[j], right(j))]]]
            IN  CASE acc.v.type \in {"fail", "wild"} -> acc
                  [] IsArray(r) /\ size \notin {0, r.len} -> [acc EXCEPT !.v.type = "fail"]
                  [] IsArray(r) /\ size \in {0, r.len} ->
                        IF Reads(acc.heap, r) /\ Reads(made.heap, made.v)
                        THEN onto(LAMBDA j : made.heap[r.n][j]) ELSE [acc EXCEPT !.v = Wild]
                  [] ~IsArray(r) /\ size # 0 ->
                        IF Reads(acc.heap, acc.v) THEN onto(LAMBDA j : r) ELSE [acc EXCEPT !.v = Wild]
                  [] OTHER -> [acc EXCEPT !.v = Op(ops[i], acc.v, r)]
    IN  FoldLeft(one, [v |-> operands[1], heap |-> h], [i \in 1 .. Len(ops) |-> i])

\* The statements of the line before the one being built.
Complete == SubSeq(nodes, 1, Len(line.statements) - Len(code))

\* A statement that fails is the end of the repetition of statements.
EndOfStatements ==
    /\ nodes' = Complete
    /\ pc' = "built"
    /\ UNCHANGED <<session, line, code, result, was, printed>>

Combine(operands, ops) ==
    LET r == Accumulate(operands, ops, heap)
    IN  IF r.v.type # "fail" THEN Yield(r.v, r.heap) ELSE heap' = r.heap /\ EndOfStatements

calc_add_sub     == Building("add_sub") /\ Combine(Children, Tree.ops)
calc_mul_div_mod == Building("mul_div_mod") /\ Combine(Children, Tree.ops)

\* From right to left, the result so far being the exponent.
calc_pow == Building("pow") /\ Combine(Reverse(Children), Tree.ops)

func_eval ==
    /\ Building("call")
    /\ LET r == IF Arity > MAX_NARGIN THEN [v |-> Wild, heap |-> heap] ELSE Call(Tree.f, Children, heap)
       IN  Yield(r.v, r.heap)

\* calc_pass0: the statement is its expression, if what ends it follows.  The node
\* is the expression's own, whose last token is before what ends the statement.
calc_pass0 ==
    /\ pc = "build"
    /\ code[1] = << >>
    /\ IF Len(code) = 1 /\ ~line.whole
       THEN EndOfStatements
       ELSE /\ code' = Tail(code)
            /\ pc' = IF Len(code) = 1 THEN "built" ELSE pc
            /\ UNCHANGED <<session, line, nodes, result, was, printed>>
    /\ UNCHANGED heap

\* The node of the repetition of two statements or more (Parser_add_node): the walk
\* looks for the second where the node of the first ends, which is at the end of
\* the statement and not after it, finds nothing there and goes through NULL.
WalkStatements ==
    /\ pc = "built"
    /\ Len(nodes) > 1
    /\ pc' = "crash"
    /\ UNCHANGED <<session, line, code, nodes, heap, result, was, printed>>

\* The loop over the node's children has the one it can have: it is printed and kept.
handle_calculator ==
    /\ pc = "built"
    /\ Len(nodes) = 1
    /\ result' = nodes[1]
    /\ printed' = <<[v |-> nodes[1], heap |-> heap]>>
    /\ pc' = "read"
    /\ UNCHANGED <<session, line, code, nodes, heap, was>>

\* A line without a statement at its start does not parse.
Reject ==
    /\ pc = "built"
    /\ nodes = << >>
    /\ pc' = "read"
    /\ UNCHANGED <<session, line, code, nodes, heap, result, was, printed>>

Next == ReadLine \/ build_int \/ build_float \/ build_constants \/ build_array \/ calc_unary
        \/ calc_add_sub \/ calc_mul_div_mod \/ calc_pow \/ func_eval \/ calc_pass0 \/ WalkStatements
        \/ handle_calculator \/ Reject

Spec == Init /\ [][Next]_vars
==============================================================================
