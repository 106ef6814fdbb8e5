----------------------------- MODULE RuleEngine ------------------------------
(***************************************************************************)
(* The recursive-descent evaluator of a parser: Rule_check, the check_rule_ *)
(* method of every rule type, Parser_add_node and the furthest-failure      *)
(* record (src/rule.c, src/parser.c), run over a tokenised input.           *)
(*                                                                          *)
(* The C call stack is explicit: a frame is the activation of one           *)
(* check_rule_, `mode` says whether a Rule_check is being entered or is     *)
(* returning.  Tokens are list positions: 0 is token_head, 1..N the tokens, *)
(* N+1 token_tail; the links do not change during this phase, so next and   *)
(* prev are +1 and -1.  A literal either matches a whole token or does not: *)
(* the regular expression engine is abstracted to the set of token kinds.   *)
(* The cache is the lossy memo that the packrat table implements.           *)
(***************************************************************************)
EXTENDS Integers, Sequences, FiniteSets

CONSTANTS
    Grammars,   \* the rule tables a parser may be created with
    Inputs,     \* the tokenised inputs, sequences of token kinds
    SizeMod,    \* 2^w: child counters are size_t
    MayLose     \* may the cache drop a result it reported or failed to store

\* What create_ functions and generated tables guarantee of rule r of table g:
\* its subrules are in the table, a group is not empty, bounds are size_t.
\* "inner" stands for actions written for one sequence, whose child they return.
RuleAssumption(g, r) ==
    LET rule == g[r] IN
    /\ rule.type \in {"literal", "sequence", "choice", "repeat", "list", "neg", "pos", "production"}
    /\ rule.type \in {"sequence", "choice"} =>
            Len(rule.deps) \in Nat \ {0} /\ \A i \in 1 .. Len(rule.deps) : rule.deps[i] \in DOMAIN g
    /\ rule.type \in {"repeat", "list", "neg", "pos", "production"} => rule.rule \in DOMAIN g
    /\ rule.type = "list" => rule.delim \in DOMAIN g
    /\ rule.type = "repeat" => {rule.min, rule.max} \subseteq 0 .. SizeMod - 1
    /\ (rule.type = "production" /\ rule.action = "inner") =>
            g[rule.rule].type = "sequence" /\ Len(g[rule.rule].deps) >= 2

ASSUME EngineAssumption ==
    /\ \A g \in Grammars :
          /\ Len(g) \in Nat \ {0}
          /\ DOMAIN g = 1 .. Len(g)
          /\ \A r \in DOMAIN g : RuleAssumption(g, r)
    /\ \A w \in Inputs : Len(w) \in Nat
    /\ SizeMod \in Nat \ {0} /\ SizeMod % 2 = 0
    /\ MayLose \in BOOLEAN

Fail    == 0      \* the parser's fail_node
NoNode  == -1     \* NULL ASTNode *
Null    == -1     \* NULL Token *
NotRule == -1     \* the rule id of a node marked "skip"
token_head    == 0

VARIABLES
    grammar,  \* parser->rules, by rule id; the last rule is root_rule
    input,    \* the kinds of the tokens between head and tail
    cur,      \* parser->token_cur
    nodes,    \* the node pool: nodes[i] is the node i points to
    memo,     \* memo[r][t]: the node cached for rule r at token t
    failed,   \* rule and token_start of the fail node: the furthest failure
    stack,    \* activations of check_rule_, innermost last
    mode,     \* "call", "ret", "done" or "crash"
    callee,   \* mode "call": the rule passed to Rule_check
    ret,      \* mode "ret": which rule returned, from which token, what node
    evals     \* history: how many check_rule_ calls were made

machine == <<cur, nodes, memo, failed, stack, mode, callee, ret, evals>>
vars == <<grammar, input, cur, nodes, memo, failed, stack, mode, callee, ret, evals>>

Rules == DOMAIN grammar
Root  == Len(grammar)
token_tail  == Len(input) + 1
Tokens == 1 .. token_tail

\* Token.length is zero only at the tail.
Empty(t) == t = token_tail

\* Token.id: head and the first token are both 0, the tail is one past the last.
Id(t) == IF t = token_head THEN 0 ELSE t - 1

Type(r) == grammar[r].type
Real(n) == n \notin {Fail, NoNode}
SizeT(n) == n % SizeMod

Init ==
    /\ grammar \in Grammars
    /\ input \in Inputs
    /\ cur = 1
    /\ nodes = << >>
    /\ memo = [r \in Rules |-> [t \in Tokens |-> NoNode]]
    /\ failed = [rule |-> NotRule, tok |-> token_head]
    /\ stack = << >>
    /\ mode = "call"
    /\ callee = Root
    /\ ret = [rule |-> NotRule, tok |-> Null, node |-> NoNode]
    /\ evals = 0

-----------------------------------------------------------------------------
(* The cache and the node pool *)

\* The head is never cached.
Parser_check_cache(r, t) ==
    CASE t = token_head      -> Fail
      [] t \in Tokens  -> memo[r][t]
      [] OTHER         -> NoNode

Parser_cache_check(r, t, n) ==
    \/ /\ t \in Tokens
       /\ memo' = [memo EXCEPT ![r][t] = n]
    \/ /\ t \notin Tokens \/ MayLose
       /\ UNCHANGED memo

\* Defect: the children of a list are looked up delimiter first.
ChildRuleSwapped(r, i) ==
    CASE Type(r) = "list"     -> IF i % 2 = 0 THEN grammar[r].rule ELSE grammar[r].delim
      [] Type(r) = "sequence" -> grammar[r].deps[i]
      [] OTHER                -> grammar[r].rule

\* The rule whose result is the i-th child of a node of rule r.
ChildRule(r, i) ==
    CASE Type(r) = "list"     -> IF i % 2 = 1 THEN grammar[r].rule ELSE grammar[r].delim
      [] Type(r) = "sequence" -> grammar[r].deps[i]
      [] OTHER                -> grammar[r].rule

\* The walk that rebuilds the children of a node from the cache: the i-th
\* child and the token after it, Null once a pointer cannot be followed.
ChildWalk(r, start, n) ==
    LET walk[i \in 0 .. n] ==
          IF i = 0 THEN [kid |-> NoNode, next |-> start]
          ELSE LET t == walk[i - 1].next
                   k == Parser_check_cache(ChildRule(r, i), t)
               IN  [kid  |-> k,
                    next |-> IF Real(k) /\ nodes[k].end # Null THEN nodes[k].end + 1
                             ELSE Null]
    IN  walk

\* Every child was found and had an end: nothing was dereferenced through NULL.
Rebuilds(r, start, n) == n = 0 \/ ChildWalk(r, start, n)[n].next # Null

\* Parser_add_node: the pool with the new node at its end.  builtFor keeps the
\* rule a node was made for when a build action relabels it.
Parser_add_node(r, start, end, n) ==
    LET walk == ChildWalk(r, start, n)
    IN  Append(nodes, [rule |-> r, builtFor |-> r, start |-> start, end |-> end,
                       kids |-> [i \in 1 .. n |-> walk[i].kid]])

-----------------------------------------------------------------------------
(* Entering and leaving Rule_check *)

LatestFailure(r, t) == [rule |-> r, tok |-> t]   \* Defect: later, not further

\* The fail node moves only forward; of two failures at a token, the later.
Parser_fail(r, t) ==
    IF Id(t) >= Id(failed.tok) THEN [rule |-> r, tok |-> t] ELSE failed

\* Defect: a failed rule leaves the cursor where its last subrule left it.
LeaveInPlace(r, t, n, pool, next, rest) ==
    /\ cur' = next
    /\ failed' = IF n = Fail THEN Parser_fail(r, t) ELSE failed
    /\ Parser_cache_check(r, t, n)
    /\ nodes' = pool
    /\ stack' = rest
    /\ mode' = "ret"
    /\ ret' = [rule |-> r, tok |-> t, node |-> n]
    /\ UNCHANGED callee

\* The part of Rule_check after check_rule_ gave n for rule r from token t:
\* rewind and record a failure, cache the result.
Leave(r, t, n, pool, next, rest) ==
    /\ cur' = IF n = Fail THEN t ELSE next
    /\ failed' = IF n = Fail THEN Parser_fail(r, t) ELSE failed
    /\ Parser_cache_check(r, t, n)
    /\ nodes' = pool
    /\ stack' = rest
    /\ mode' = "ret"
    /\ ret' = [rule |-> r, tok |-> t, node |-> n]
    /\ UNCHANGED callee

\* A pointer that points to nothing is dereferenced.
Crash ==
    /\ mode' = "crash"
    /\ UNCHANGED <<cur, nodes, memo, failed, stack, callee, ret>>

\* A rule succeeds with a new node of n children.
LeaveNew(r, t, start, end, n, next, rest) ==
    IF Rebuilds(r, start, n)
    THEN Leave(r, t, Len(nodes) + 1, Parser_add_node(r, start, end, n), next, rest)
    ELSE Crash

\* check_rule_ of the frame's rule calls Rule_check of rule r.
CallFrom(frame, below, r) ==
    /\ stack' = Append(below, frame)
    /\ mode' = "call"
    /\ callee' = r
    /\ UNCHANGED <<cur, nodes, memo, failed, ret>>

Frame(r, t) == [rule |-> r, start |-> t, n |-> 0, delim |-> Fail]

AlwaysEvaluate == IF cur = token_head THEN Fail ELSE NoNode   \* Defect: no look-up

\* Rule_check before check_rule_: no token, or the result is already cached.
CachedResult == Parser_check_cache(callee, cur)

Answered ==
    /\ mode = "call"
    /\ CachedResult # NoNode \/ cur = Null
    /\ UNCHANGED <<grammar, input, memo, nodes, failed, stack, callee, evals>>
    /\ LET n == IF cur = Null THEN Fail ELSE CachedResult IN
        IF Real(n) /\ nodes[n].end = Null
        THEN mode' = "crash" /\ UNCHANGED <<cur, ret>>
        ELSE /\ cur' = IF n = Fail THEN cur ELSE nodes[n].end + 1
             /\ mode' = "ret"
             /\ ret' = [rule |-> callee, tok |-> cur, node |-> n]

\* Rule_check calls check_rule_ of rule r.
Entering(type) ==
    /\ mode = "call"
    /\ cur # Null
    /\ CachedResult = NoNode
    /\ Type(callee) = type
    /\ evals' = evals + 1
    /\ UNCHANGED <<grammar, input>>

\* A Rule_check made by the innermost frame has returned.
Resuming(type) ==
    /\ mode = "ret"
    /\ stack # << >>
    /\ Type(stack[Len(stack)].rule) = type
    /\ UNCHANGED <<grammar, input, evals>>

Top   == stack[Len(stack)]
Below == SubSeq(stack, 1, Len(stack) - 1)
Ok    == ret.node # Fail

\* The frame returns a failure, the node it got, or a new node up to the
\* current token.
LeaveFail      == Leave(Top.rule, Top.start, Fail, nodes, cur, Below)
LeaveWith(n)   == Leave(Top.rule, Top.start, n, nodes, cur, Below)
SpanToCurrent(n) ==   \* Defect: the node ends at the current token, not before it
    LeaveNew(Top.rule, Top.start, Top.start, cur, n, cur, Below)
LeaveSpan(n)   == LeaveNew(Top.rule, Top.start, Top.start, cur - 1, n, cur, Below)

-----------------------------------------------------------------------------
(* LiteralRule *)

Literal ==
    /\ Entering("literal")
    /\ IF ~Empty(cur) /\ input[cur] \in grammar[callee].match
       THEN LeaveNew(callee, cur, cur, cur, 0, cur + 1, stack)
       ELSE Leave(callee, cur, Fail, nodes, cur, stack)

-----------------------------------------------------------------------------
(* SequenceRule and ChoiceRule: both fail outright on an empty token *)

EnterChain(type) ==
    /\ Entering(type)
    /\ IF Empty(cur)
       THEN Leave(callee, cur, Fail, nodes, cur, stack)
       ELSE CallFrom(Frame(callee, cur), stack, grammar[callee].deps[1])

Sequence == EnterChain("sequence")
Choice   == EnterChain("choice")

NextDep == CallFrom([Top EXCEPT !.n = @ + 1], Below, grammar[Top.rule].deps[Top.n + 2])
LastDep == Top.n + 1 = Len(grammar[Top.rule].deps)

SequenceResume ==
    /\ Resuming("sequence")
    /\ IF ~Ok THEN LeaveWith(ret.node)
       ELSE IF LastDep THEN LeaveSpan(Top.n + 1)
       ELSE NextDep

ChoiceResume ==
    /\ Resuming("choice")
    /\ IF Ok THEN LeaveWith(ret.node)
       ELSE IF LastDep THEN LeaveFail
       ELSE NextDep

-----------------------------------------------------------------------------
(* RepeatRule *)

Repeat ==
    /\ Entering("repeat")
    /\ LET g == grammar[callee] IN
        IF ~Empty(cur) THEN CallFrom(Frame(callee, cur), stack, g.rule)
        ELSE IF g.min > 0 THEN Leave(callee, cur, Fail, nodes, cur, stack)
        ELSE LeaveNew(callee, cur, cur, cur - 1, 0, cur, stack)

RepeatAnyNumber(n) == LeaveSpan(n)   \* Defect: min and max are not looked at

RepeatDone(n) ==
    LET g == grammar[Top.rule] IN
    IF n < g.min \/ (g.max # 0 /\ n > g.max) THEN LeaveFail ELSE LeaveSpan(n)

\* Defect: the loop does not stop at max.
RepeatPastMax ==
    /\ Resuming("repeat")
    /\ LET n == SizeT(Top.n + 1) IN
        IF ~Ok THEN RepeatDone(Top.n)
        ELSE CallFrom([Top EXCEPT !.n = n], Below, grammar[Top.rule].rule)

RepeatResume ==
    /\ Resuming("repeat")
    /\ LET g == grammar[Top.rule]
           n == SizeT(Top.n + 1)
       IN  IF ~Ok THEN RepeatDone(Top.n)
           ELSE IF g.max # 0 /\ n = g.max THEN RepeatDone(n)
           ELSE CallFrom([Top EXCEPT !.n = n], Below, g.rule)

-----------------------------------------------------------------------------
(* ListRule: an element, then delimiter and element in turn.  n is odd after *)
(* an element and even after a delimiter.                                    *)

List ==
    /\ Entering("list")
    /\ IF Empty(cur)
       THEN Leave(callee, cur, Fail, nodes, cur, stack)
       ELSE CallFrom(Frame(callee, cur), stack, grammar[callee].rule)

\* Defect: the dangling delimiter is backed out but still counted as a child.
ListKeepsDelimiter ==
    /\ Resuming("list")
    /\ Top.n % 2 = 0
    /\ IF Ok THEN CallFrom([Top EXCEPT !.n = SizeT(@ + 1)], Below, grammar[Top.rule].delim)
       ELSE IF Top.n = 0 THEN LeaveFail
       ELSE LET t == nodes[Top.delim].start
            IN  LeaveNew(Top.rule, Top.start, Top.start, t - 1, Top.n, t, Below)

ListElement ==
    /\ Resuming("list")
    /\ Top.n % 2 = 0
    /\ IF Ok THEN CallFrom([Top EXCEPT !.n = SizeT(@ + 1)], Below, grammar[Top.rule].delim)
       ELSE IF Top.n = 0 THEN LeaveFail
       ELSE \* the delimiter was consumed and no element follows: back it out
            LET t == nodes[Top.delim].start
            IN  LeaveNew(Top.rule, Top.start, Top.start, t - 1, Top.n - 1, t, Below)

ListDelimiter ==
    /\ Resuming("list")
    /\ Top.n % 2 = 1
    /\ IF Ok THEN CallFrom([Top EXCEPT !.n = SizeT(@ + 1), !.delim = ret.node],
                           Below, grammar[Top.rule].rule)
       ELSE LeaveSpan(Top.n)

-----------------------------------------------------------------------------
(* NegativeLookahead and PositiveLookahead consume nothing *)

NegativeLookahead ==
    /\ Entering("neg")
    /\ IF Empty(cur) THEN LeaveNew(callee, cur, cur, cur - 1, 0, cur, stack)
       ELSE CallFrom(Frame(callee, cur), stack, grammar[callee].rule)

NegativeResume ==
    /\ Resuming("neg")
    /\ IF Ok THEN LeaveFail
       ELSE LeaveNew(Top.rule, Top.start, Top.start, Top.start - 1, 0, Top.start, Below)

PositiveLookahead ==
    /\ Entering("pos")
    /\ CallFrom(Frame(callee, cur), stack, grammar[callee].rule)

PositiveResume ==
    /\ Resuming("pos")
    /\ IF Ok THEN LeaveNew(Top.rule, Top.start, Top.start - 1, Top.start - 1, 0,
                           Top.start, Below)
       ELSE LeaveWith(ret.node)

-----------------------------------------------------------------------------
(* Production: the build action sees only successes *)

EnterProduction ==
    /\ Entering("production")
    /\ CallFrom(Frame(callee, cur), stack, grammar[callee].rule)

\* node->rule = r, in the node the cache already shares.
Relabel(n, r) ==
    Leave(Top.rule, Top.start, n, [nodes EXCEPT ![n].rule = r], cur, Below)

\* A new node over node n, which becomes its child whatever the cache had.
WrapNode(n) ==
    LET node == nodes[n]
        pool == Parser_add_node(Top.rule, node.start, node.end, 1)
    IN  IF Rebuilds(Top.rule, node.start, 1)
        THEN Leave(Top.rule, Top.start, Len(pool),
                   [pool EXCEPT ![Len(pool)].kids = <<n>>], cur, Below)
        ELSE Crash

\* Defect: the node of a literal is passed on as it is.
BuildKeepsLiterals(n) ==
    LET node == nodes[n] IN
    IF node.rule = NotRule \/ Type(node.rule) = "literal" THEN LeaveWith(n)
    ELSE IF Type(node.rule) = "production"
         THEN WrapNode(n)
         ELSE Relabel(n, Top.rule)

\* build_action_default: productions and literals are wrapped in a new node,
\* any other node is relabelled in place.
BuildDefault(n) ==
    LET node == nodes[n] IN
    IF node.rule = NotRule THEN LeaveWith(n)
    ELSE IF Type(node.rule) \in {"production", "literal"}
         THEN WrapNode(n)
         ELSE Relabel(n, Top.rule)

\* simplify_rule of the grammar compiler: a node of one child is replaced by it.
Simplify(n) ==
    IF Len(nodes[n].kids) = 1 THEN LeaveWith(nodes[n].kids[1]) ELSE Relabel(n, Top.rule)

\* "pass", "inner" and "reject" stand for user build actions: the node is
\* accepted as it is, its second child is returned in its place (calc_eval of
\* the calculator drops the parentheses), or it is turned into a failure.
ProductionResume ==
    /\ Resuming("production")
    /\ LET action == grammar[Top.rule].action IN
        IF ~Ok THEN LeaveWith(ret.node)
        ELSE \/ action = "default"  /\ BuildDefault(ret.node)
             \/ action = "skip"     /\ Relabel(ret.node, NotRule)
             \/ action = "simplify" /\ Simplify(ret.node)
             \/ action = "pass"     /\ LeaveWith(ret.node)
             \/ action = "inner"    /\ LeaveWith(nodes[ret.node].kids[2])
             \/ action = "reject"   /\ LeaveFail

-----------------------------------------------------------------------------
\* Parser_parse: the root rule has returned; ret.node is the AST.
Finish ==
    /\ mode = "ret"
    /\ stack = << >>
    /\ mode' = "done"
    /\ UNCHANGED <<grammar, input, cur, nodes, memo, failed, stack, callee, ret, evals>>

Next ==
    \/ Answered
    \/ Literal
    \/ Sequence \/ SequenceResume
    \/ Choice \/ ChoiceResume
    \/ Repeat \/ RepeatResume
    \/ List \/ ListElement \/ ListDelimiter
    \/ NegativeLookahead \/ NegativeResume
    \/ PositiveLookahead \/ PositiveResume
    \/ EnterProduction \/ ProductionResume
    \/ Finish

Spec == Init /\ [][Next]_vars

-----------------------------------------------------------------------------
(* Properties of every parse; RuleEngineCorrect adds those that compare it   *)
(* with the reference semantics.                                             *)

\* The range of every variable: positions lie on the list, a child is older than
\* its parent, no cached result is newer than the pool.
TypeOK ==
    /\ cur \in Null .. token_tail
    /\ \A i \in DOMAIN nodes :
          /\ nodes[i].rule \in Rules \cup {NotRule}
          /\ nodes[i].start \in token_head .. token_tail
          /\ nodes[i].end \in Null .. Len(input)
          /\ \A k \in DOMAIN nodes[i].kids : nodes[i].kids[k] \in 1 .. i
    /\ \A r \in Rules, t \in Tokens : memo[r][t] \in NoNode .. Len(nodes)
    /\ failed.tok \in token_head .. token_tail
    /\ mode \in {"call", "ret", "done", "crash"}
    /\ evals \in Nat

\* A node ends where its last child ends and its children lie in input order:
\* the walk that rebuilt them from the cache met the very nodes of the parse.
ChildrenTile ==
    \A i \in DOMAIN nodes :
        LET kids == nodes[i].kids IN
        kids # << >> =>
            /\ nodes[kids[Len(kids)]].end = nodes[i].end
            /\ \A k \in 1 .. Len(kids) - 1 : nodes[kids[k]].end <= nodes[kids[k + 1]].end

\* Parser_add_node never meets a child the cache does not have.
NoCrash == mode # "crash"

\* Packrat parsing: each evaluation of a rule at a token is still running or
\* has left its result in the cache, so no rule is evaluated twice at a token
\* and the work is bounded by the size of the table (rule.c, Rule_check).
LinearWork ==
    evals <= Len(stack) + Cardinality({x \in Rules \X Tokens : memo[x[1]][x[2]] # NoNode})

\* The reported failure is at the furthest token any rule failed at, and names
\* a rule that did fail there (parser.h, Parser_fail).
FurthestFailure ==
    /\ \A r \in Rules, t \in Tokens : memo[r][t] = Fail => t <= failed.tok
    /\ failed.rule # NotRule => memo[failed.rule][failed.tok] = Fail
==============================================================================
