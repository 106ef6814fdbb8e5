--------------------------- MODULE RuleEngineProofs ---------------------------
(***************************************************************************)
(* What holds of every parse.                                               *)
(*   1. Type correctness.  Every action is one of seven kinds of steps      *)
(*      (Shape): all the proofs go by those instead of by the eighteen      *)
(*      actions.                                                            *)
(*   2. Packrat parsing: the work is linear, the reported failure is the    *)
(*      furthest.  No rule runs twice at a token: two activations of one    *)
(*      rule at one token would be two replays of the same answers from the *)
(*      cache (Trace), which agree as far as both go.                       *)
(*   3. The tree: every child is found in the cache again and the children  *)
(*      of a node tile it.  The walk of Parser_add_node over the cache      *)
(*      follows the trace of the frame that makes the node (Linked), as     *)
(*      long as counters do not wrap: a group that is answered by a failure *)
(*      has two children per token at most (NeverStuck).                    *)
(***************************************************************************)
EXTENDS RuleEngine, GrammarClasses, SequenceTheorems, FiniteSetTheorems, SetInduction

-----------------------------------------------------------------------------
(* Types and kinds of steps *)

\* The rule that a frame of rule r whose counter is n has called (the i-th dependency,
\* element or delimiter in turn, or the one subrule).
Called(r, n) ==
    CASE Type(r) \in {"sequence", "choice"} -> grammar[r].deps[n + 1]
      [] Type(r) = "list" -> IF n % 2 = 0 THEN grammar[r].rule ELSE grammar[r].delim
      [] OTHER -> grammar[r].rule

\* A frame of rule r with counter n that got node v from its subrule calls another one.
Goes(r, n, v) ==
    CASE Type(r) = "sequence" -> v # Fail /\ n + 1 # Len(grammar[r].deps)
      [] Type(r) = "choice"   -> v = Fail /\ n + 1 # Len(grammar[r].deps)
      [] Type(r) = "repeat"   -> v # Fail /\ ~(grammar[r].max # 0 /\ SizeT(n + 1) = grammar[r].max)
      [] Type(r) = "list"     -> v # Fail
      [] OTHER                -> FALSE

\* The counter of the frame when it does.
After(r, n) == IF Type(r) \in {"repeat", "list"} THEN SizeT(n + 1) ELSE n + 1

\* The token the frame goes on at after node v was found from token t.
Moved(r, t, v) == IF Type(r) = "choice" THEN t ELSE nodes[v].end + 1

\* The only child of a node ends where the node ends.
OneChild(pool) ==
    \A i \in 1 .. Len(pool) : Len(pool[i].kids) = 1 => pool[pool[i].kids[1]].end = pool[i].end

\* No build action returns a node that ends elsewhere than the one it got.
KeepsEnds(pool) == ~ReturnsInner(grammar) /\ (~Simplifies(grammar) \/ OneChild(pool))

\* The tokens of the list, the head included.
Positions == 0 .. token_tail

\* The nodes the pool may hold.
NodeRec == [rule : Rules \cup {NotRule}, builtFor : Rules, start : Positions,
            end : Null .. Len(input), kids : Seq(Nat)]

\* Every child of a node is older than the node, or the node itself.
PoolOK(pool) ==
    /\ pool \in Seq(NodeRec)
    /\ \A i \in 1 .. Len(pool) : \A k \in 1 .. Len(pool[i].kids) : pool[i].kids[k] \in 1 .. i

\* A pool that has every node of this one, relabelled at most.
Extends(pool) ==
    /\ Len(nodes) <= Len(pool)
    /\ \A i \in 1 .. Len(nodes) : /\ pool[i].start = nodes[i].start
                                  /\ pool[i].end = nodes[i].end
                                  /\ pool[i].kids = nodes[i].kids
                                  /\ pool[i].builtFor = nodes[i].builtFor

\* The activations of check_rule_ the stack may hold.
FrameRec == [rule : Rules, start : Tokens, n : Nat, delim : Nat]

\* What a frame may look like between two steps: it is not a literal's, its counter
\* is in range, and a list that waits for an element has a delimiter to back out.
FrameOK(f) ==
    /\ Type(f.rule) # "literal"
    /\ f.delim <= Len(nodes)
    /\ Type(f.rule) \in {"sequence", "choice"} => f.n < Len(grammar[f.rule].deps)
    /\ Type(f.rule) = "list" => f.n < SizeMod /\ (f.n % 2 = 0 /\ f.n # 0 => f.delim # Fail)
    /\ Type(f.rule) = "repeat" => f.n < SizeMod

\* The rule that frame p of the stack has called.
CalledBy(p) ==
    IF p < Len(stack) THEN stack[p + 1].rule ELSE IF mode = "call" THEN callee ELSE ret.rule

\* the node n stands for rule r
Full(r, n, pool) == (Type(r) = "sequence" /\ Real(n)) => Len(pool[n].kids) = Len(grammar[r].deps)

\* The inductive invariant of type correctness.  Beyond TypeOK: a sequence's node has
\* a child per dependency (calc_eval takes the second), each frame waits for the rule
\* its counter names, and a returned node ends where the cursor stands.
Typed ==
    /\ grammar \in Grammars /\ input \in Inputs
    /\ PoolOK(nodes)
    /\ memo \in [Rules -> [Tokens -> NoNode .. Len(nodes)]]
    /\ \A r \in Rules, t \in Tokens : Full(r, memo[r][t], nodes)
    /\ stack \in Seq(FrameRec)
    /\ \A p \in 1 .. Len(stack) : FrameOK(stack[p])
    /\ cur \in Positions
    /\ mode \in {"call", "ret", "done", "crash"}
    /\ callee \in Rules
    /\ mode = "ret" => /\ ret \in [rule : Rules, tok : Positions, node : 0 .. Len(nodes)]
                       /\ Full(ret.rule, ret.node, nodes)
                       /\ KeepsEnds(nodes) /\ Ok => cur = nodes[ret.node].end + 1
    /\ mode \in {"call", "ret"} =>
          \A p \in 1 .. Len(stack) : CalledBy(p) = Called(stack[p].rule, stack[p].n)
    /\ failed \in [rule : Rules \cup {NotRule}, tok : Positions]
    /\ evals \in Nat

\* Rule_check is about to call check_rule_ of the callee.
Entered ==
    /\ mode = "call"
    /\ cur \in Tokens
    /\ memo[callee][cur] = NoNode
    /\ evals' = evals + 1
    /\ UNCHANGED <<grammar, input>>

\* A Rule_check has returned to the innermost frame.
Resumed ==
    /\ mode = "ret"
    /\ stack # << >>
    /\ UNCHANGED <<grammar, input, evals>>

\* What a rule r may leave with: node n of the new pool, the cursor on next.
Result(r, n, pool, next) ==
    /\ PoolOK(pool)
    /\ Extends(pool)
    /\ n \in 0 .. Len(pool)
    /\ next \in Positions
    /\ Full(r, n, pool)
    /\ (KeepsEnds(pool) /\ n # Fail) => next = pool[n].end + 1

\* No node of the pool is relabelled.
SameLabels(pool) == \A i \in 1 .. Len(nodes) : pool[i].rule = nodes[i].rule

\* The pool has one more node, of rule r, with the n children the walk found.
Adds(r, start, end, n, pool) ==
    LET new == pool[Len(pool)] IN
    /\ Len(pool) = Len(nodes) + 1
    /\ SameLabels(pool)
    /\ new.rule = r /\ new.builtFor = r
    /\ new.start = start
    /\ new.end = end
    /\ Len(new.kids) = n
    /\ Rebuilds(r, start, n)
    /\ \A i \in 1 .. n : new.kids[i] = ChildWalk(r, start, n)[i].kid

\* check_rule_ decides without calling a subrule.
EnterLeave(n, pool, next) ==
    /\ Entered
    /\ \/ n = Fail /\ pool = nodes
       \/ /\ n = Len(pool) /\ next \in {cur, cur + 1} /\ Adds(callee, cur, next - 1, 0, pool)
          /\ Type(callee) # "choice"
    /\ Type(callee) = "literal" \/ (cur = token_tail /\ Type(callee) \notin {"pos", "production"})
    /\ Result(callee, n, pool, next)
    /\ Leave(callee, cur, n, pool, next, stack)

\* check_rule_ calls its first subrule.
EnterCall ==
    /\ Entered
    /\ Type(callee) \in {"pos", "production"} \/ cur # token_tail
    /\ Type(callee) # "literal"
    /\ Type(callee) \in {"sequence", "choice"} => Len(grammar[callee].deps) > 0
    /\ CallFrom(Frame(callee, cur), stack, Called(callee, 0))

\* The frame leaves with a node of k children, the cursor on next.
Spans(k, next) ==
    \/ /\ Type(Top.rule) = "sequence"
       /\ Ok
       /\ k = Top.n + 1 /\ k = Len(grammar[Top.rule].deps)
       /\ next = cur
    \/ /\ Type(Top.rule) = "repeat"
       /\ Ok
       /\ k = SizeT(Top.n + 1) /\ k = grammar[Top.rule].max
       /\ k # 0
       /\ next = cur
    \/ /\ Type(Top.rule) \in {"repeat", "list"}
       /\ ~Ok
       /\ k = Top.n
       /\ next = cur
    \/ /\ Type(Top.rule) = "list"
       /\ ~Ok
       /\ Top.n # 0 /\ Top.n % 2 = 0
       /\ k = Top.n - 1
       /\ next = nodes[Top.delim].start

\* A choice or a production hands on the node it got, as it is or relabelled.
HandsOn(pool) ==
    LET rule == grammar[Top.rule]
        got  == ret.node
    IN
    \/ /\ SameLabels(pool)
       /\ rule.type = "production" =>
             rule.action = "pass" \/ (rule.action = "default" /\ nodes[got].rule = NotRule)
    \/ /\ rule.type = "production" /\ Relabels(rule)
       /\ pool[got].rule = IF rule.action = "skip" THEN NotRule ELSE Top.rule
       /\ \A i \in 1 .. Len(nodes) : i # got => pool[i].rule = nodes[i].rule

\* A production puts a new node over the node it got.
Wraps(pool) ==
    LET new == pool[Len(pool)] IN
    /\ grammar[Top.rule].action = "default"
    /\ Len(pool) = Len(nodes) + 1
    /\ SameLabels(pool)
    /\ new.rule = Top.rule /\ new.builtFor = Top.rule
    /\ new.start = nodes[ret.node].start
    /\ new.end = nodes[ret.node].end
    /\ new.kids = <<ret.node>>

\* What the running frame leaves with.
Made(n, pool, next) ==
    \/ n = Fail /\ pool = nodes
    \/ /\ Type(Top.rule) \in {"choice", "production"}
       /\ Ok
       /\ n = ret.node /\ Len(pool) = Len(nodes) /\ next = cur
       /\ HandsOn(pool)
    \/ /\ Type(Top.rule) = "production"
       /\ Ok
       /\ grammar[Top.rule].action = "simplify"
       /\ Len(nodes[ret.node].kids) = 1
       /\ n = nodes[ret.node].kids[1] /\ pool = nodes
    \/ /\ Type(Top.rule) = "production"
       /\ grammar[Top.rule].action = "inner"
    \/ /\ Type(Top.rule) = "production"
       /\ Ok
       /\ n = Len(pool) /\ Wraps(pool)
    \/ /\ Type(Top.rule) \in {"neg", "pos"}
       /\ next = Top.start
       /\ \E start : /\ Type(Top.rule) = "neg" => start = Top.start
                     /\ n = Len(pool) /\ Adds(Top.rule, start, Top.start - 1, 0, pool)
    \/ \E k \in Nat : Spans(k, next) /\ n = Len(pool) /\ Adds(Top.rule, Top.start, next - 1, k, pool)

\* The walk that rebuilds the children of the frame's node fails.
Breaks ==
    \/ \E k \in Nat \ {0} : \E next : Spans(k, next) /\ ~Rebuilds(Top.rule, Top.start, k)
    \/ /\ Type(Top.rule) = "production"
       /\ Ok
       /\ ~Rebuilds(Top.rule, nodes[ret.node].start, 1)

\* The innermost frame leaves with node n.
ResumeLeave(n, pool, next) ==
    /\ Resumed
    /\ Made(n, pool, next)
    /\ ~Goes(Top.rule, Top.n, ret.node)
    /\ Result(Top.rule, n, pool, next)
    /\ Leave(Top.rule, Top.start, n, pool, next, Below)

\* The innermost frame calls another subrule.
ResumeCall(f) ==
    /\ Resumed
    /\ Goes(Top.rule, Top.n, ret.node)
    /\ FrameOK(f)
    /\ f \in FrameRec
    /\ f.rule = Top.rule /\ f.start = Top.start /\ f.n = After(Top.rule, Top.n)
    /\ Type(Top.rule) = "list" /\ Top.n % 2 = 1 => f.delim = ret.node
    /\ CallFrom(f, Below, Called(f.rule, f.n))

\* The children of the node the innermost frame makes are not found.
ResumeCrash ==
    /\ Resumed
    /\ ~Goes(Top.rule, Top.n, ret.node)
    /\ Breaks
    /\ Crash

-----------------------------------------------------------------------------
\* What the constants say of the grammar and the input of a run.
LEMMA Tables ==
    ASSUME Typed
    PROVE  /\ Rules = 1 .. Len(grammar) /\ Len(grammar) \in Nat \ {0}
           /\ \A r \in Rules : RuleAssumption(grammar, r)
           /\ Len(input) \in Nat /\ token_tail \in Nat \ {0}
           /\ Tokens = 1 .. Len(input) + 1 /\ Positions = 0 .. Len(input) + 1
           /\ SizeMod \in Nat \ {0} /\ SizeMod % 2 = 0
BY EngineAssumption DEF Typed, Rules, token_tail, Tokens, Positions

\* ChildWalk is the recursive function it is written as.
LEMMA WalkDef ==
    ASSUME NEW r, NEW start, NEW n \in Nat
    PROVE  ChildWalk(r, start, n) =
             [i \in 0 .. n |->
                IF i = 0 THEN [kid |-> NoNode, next |-> start]
                ELSE LET t == ChildWalk(r, start, n)[i - 1].next
                         k == Parser_check_cache(ChildRule(r, i), t)
                     IN  [kid  |-> k,
                          next |-> IF Real(k) /\ nodes[k].end # Null THEN nodes[k].end + 1
                                   ELSE Null]]
<1> DEFINE Step(i, x) ==
             LET k == Parser_check_cache(ChildRule(r, i), x.next)
             IN  [kid  |-> k,
                  next |-> IF Real(k) /\ nodes[k].end # Null THEN nodes[k].end + 1 ELSE Null]
           First == [kid |-> NoNode, next |-> start]
           S == {m \in Nat : \E g : g = [i \in 0 .. m |-> IF i = 0 THEN First ELSE Step(i, g[i - 1])]}
<1>1. 0 \in S
  <2> DEFINE g == [i \in 0 .. 0 |-> First]
  <2>1. g = [i \in 0 .. 0 |-> IF i = 0 THEN First ELSE Step(i, g[i - 1])]
    OBVIOUS
  <2> QED BY <2>1
<1>2. ASSUME NEW m \in Nat, m \in S PROVE m + 1 \in S
  <2>1. PICK g : g = [i \in 0 .. m |-> IF i = 0 THEN First ELSE Step(i, g[i - 1])]
    BY <1>2
  <2> DEFINE h == [i \in 0 .. m + 1 |-> IF i = m + 1 THEN Step(i, g[m]) ELSE g[i]]
  <2>2. h = [i \in 0 .. m + 1 |-> IF i = 0 THEN First ELSE Step(i, h[i - 1])]
    <3> HIDE DEF Step, First
    <3> QED BY <2>1
  <2> HIDE DEF h, Step, First
  <2> QED BY <2>2
<1>3. n \in S
  <2> HIDE DEF S
  <2> QED BY <1>1, <1>2, InductionOnSet
<1>4. PICK g : g = [i \in 0 .. n |-> IF i = 0 THEN First ELSE Step(i, g[i - 1])]
  BY <1>3
<1>5. ChildWalk(r, start, n) = CHOOSE w : w = [i \in 0 .. n |-> IF i = 0 THEN First ELSE Step(i, w[i - 1])]
  BY DEF ChildWalk
<1> HIDE DEF Step, First
<1>6. ChildWalk(r, start, n) = [i \in 0 .. n |-> IF i = 0 THEN First ELSE Step(i, ChildWalk(r, start, n)[i - 1])]
  BY <1>4, <1>5
<1> QED BY <1>6 DEF Step, First

\* If the walk got to its end it found every child.
LEMMA RebuiltChildren ==
    ASSUME Typed, NEW r, NEW start \in Positions, NEW n \in Nat, Rebuilds(r, start, n),
           \A i \in 1 .. n : ChildRule(r, i) \in Rules
    PROVE  \A i \in 1 .. n :
             LET walk == ChildWalk(r, start, n) IN
             /\ walk[i - 1].next \in Tokens
             /\ walk[i].kid = memo[ChildRule(r, i)][walk[i - 1].next]
             /\ walk[i].kid \in 1 .. Len(nodes)
             /\ nodes[walk[i].kid].end # Null
             /\ walk[i].next = nodes[walk[i].kid].end + 1
<1> DEFINE walk == ChildWalk(r, start, n)
           Cached(i) == Parser_check_cache(ChildRule(r, i), walk[i - 1].next)
<1>1. /\ walk[0].next = start
      /\ \A i \in 1 .. n : /\ walk[i].kid = Cached(i)
                           /\ walk[i].next = IF Real(Cached(i)) /\ nodes[Cached(i)].end # Null
                                             THEN nodes[Cached(i)].end + 1 ELSE Null
  BY WalkDef
<1> HIDE DEF walk
<1>2. ASSUME n # 0 PROVE walk[n].next # Null
  BY <1>2 DEF Rebuilds, walk
<1>3. \A i \in 1 .. n : walk[i - 1].next = Null => walk[i].next = Null
  BY <1>1, Tables DEF Parser_check_cache, Null, NoNode, token_head, Real
<1>4. \A i \in 0 .. n : walk[i].next # Null
  <2>1. CASE n = 0
    BY <1>1, <2>1, Tables DEF Null
  <2>2. CASE n # 0
    <3> DEFINE S == {j \in Nat : j <= n => walk[n - j].next # Null}
    <3>1. 0 \in S
      BY <1>2, <2>2
    <3>2. \A j \in Nat : j \in S => j + 1 \in S
      <4> SUFFICES ASSUME NEW j \in Nat, j \in S, j + 1 <= n
                   PROVE  walk[n - (j + 1)].next # Null
        OBVIOUS
      <4>1. n - j \in 1 .. n /\ n - (j + 1) = (n - j) - 1
        OBVIOUS
      <4> QED BY <1>3, <4>1
    <3>3. \A j \in Nat : j \in S
      <4> HIDE DEF S
      <4> QED BY <3>1, <3>2, InductionOnSet
    <3>4. ASSUME NEW i \in 0 .. n PROVE walk[i].next # Null
      <4>1. n - i \in S
        BY <3>3
      <4> QED BY <4>1
    <3> QED BY <3>4
  <2> QED BY <2>1, <2>2
<1>5. ASSUME NEW i \in 1 .. n
      PROVE  /\ walk[i - 1].next \in Tokens
             /\ walk[i].kid = memo[ChildRule(r, i)][walk[i - 1].next]
             /\ walk[i].kid \in 1 .. Len(nodes)
             /\ nodes[walk[i].kid].end # Null
             /\ walk[i].next = nodes[walk[i].kid].end + 1
  <2>1. walk[i].next # Null
    BY <1>4
  <2>2. Real(Cached(i)) /\ nodes[Cached(i)].end # Null
    BY <1>1, <2>1
  <2>3. walk[i - 1].next \in Tokens
    BY <2>2 DEF Parser_check_cache, Real
  <2>4. Cached(i) = memo[ChildRule(r, i)][walk[i - 1].next]
    BY <2>3, Tables DEF Parser_check_cache, token_head
  <2>5. Cached(i) \in NoNode .. Len(nodes) /\ Len(nodes) \in Nat
    BY <2>3, <2>4, LenProperties DEF Typed, PoolOK
  <2>6. Cached(i) \in 1 .. Len(nodes)
    BY <2>2, <2>5 DEF Real, NoNode, Fail
  <2> QED BY <1>1, <2>2, <2>3, <2>4, <2>6
<1> QED BY <1>5 DEF walk

\* Parser_add_node: old nodes stay, the new one has the children of the walk.
LEMMA AddNode ==
    ASSUME Typed, NEW r \in Rules, NEW start \in Positions, NEW end \in Null .. Len(input),
           NEW n \in Nat, Rebuilds(r, start, n), \A i \in 1 .. n : ChildRule(r, i) \in Rules
    PROVE  LET pool == Parser_add_node(r, start, end, n)
               node == pool[Len(nodes) + 1]
           IN  /\ PoolOK(pool)
               /\ Extends(pool)
               /\ Len(pool) = Len(nodes) + 1
               /\ SameLabels(pool)
               /\ node.rule = r /\ node.builtFor = r
               /\ node.start = start /\ node.end = end
               /\ Len(node.kids) = n
               /\ \A i \in 1 .. n : node.kids[i] = ChildWalk(r, start, n)[i].kid
<1> DEFINE kids == [i \in 1 .. n |-> ChildWalk(r, start, n)[i].kid]
           new  == [rule |-> r, builtFor |-> r, start |-> start, end |-> end, kids |-> kids]
           pool == Append(nodes, new)
<1>1. Parser_add_node(r, start, end, n) = pool
  BY DEF Parser_add_node
<1>2. \A i \in 1 .. n : kids[i] \in 1 .. Len(nodes)
  BY RebuiltChildren
<1>3. nodes \in Seq(NodeRec) /\ Len(nodes) \in Nat
  BY LenProperties DEF Typed, PoolOK
<1> HIDE DEF kids
<1>4. kids \in Seq(Nat) /\ Len(kids) = n
  <2>1. kids \in [1 .. n -> Nat]
    BY <1>2, <1>3 DEF kids
  <2>2. kids \in Seq(Nat)
    BY <2>1, SeqDef
  <2> QED BY <2>1, <2>2, LenProperties
<1>5. new \in NodeRec
  BY <1>4 DEF NodeRec
<1>6. /\ pool \in Seq(NodeRec) /\ Len(pool) = Len(nodes) + 1
      /\ \A i \in 1 .. Len(nodes) : pool[i] = nodes[i]
      /\ pool[Len(nodes) + 1] = new
  <2> HIDE DEF new
  <2> QED BY <1>3, <1>5, AppendProperties
<1>7. PoolOK(pool)
  <2>1. ASSUME NEW i \in 1 .. Len(pool), NEW k \in 1 .. Len(pool[i].kids)
        PROVE  pool[i].kids[k] \in 1 .. i
    <3>1. CASE i \in 1 .. Len(nodes)
      BY <1>6, <2>1, <3>1 DEF Typed, PoolOK
    <3>2. CASE i = Len(nodes) + 1
      BY <1>2, <1>3, <1>4, <1>6, <2>1, <3>2
    <3> QED BY <1>3, <1>6, <3>1, <3>2
  <2> QED BY <1>6, <2>1 DEF PoolOK
<1>8. Extends(pool) /\ SameLabels(pool)
  BY <1>3, <1>6 DEF Extends, SameLabels
<1> QED BY <1>1, <1>4, <1>6, <1>7, <1>8 DEF kids

\* node->rule = q in a node the pool already has.
LEMMA RelabelNode ==
    ASSUME Typed, NEW pool, PoolOK(pool), Extends(pool), NEW n \in 1 .. Len(pool),
           NEW q \in Rules \cup {NotRule}
    PROVE  LET new == [pool EXCEPT ![n].rule = q]
           IN  /\ PoolOK(new)
               /\ Extends(new)
               /\ Len(new) = Len(pool)
               /\ new[n].end = pool[n].end /\ new[n].kids = pool[n].kids /\ new[n].rule = q
               /\ \A i \in 1 .. Len(pool) : i # n => new[i].rule = pool[i].rule
<1> DEFINE node == [pool[n] EXCEPT !.rule = q]
           new  == [pool EXCEPT ![n] = node]
<1>1. pool \in Seq(NodeRec) /\ Len(pool) \in Nat /\ pool[n] \in NodeRec
  BY LenProperties DEF PoolOK
<1>2. node \in NodeRec /\ node.end = pool[n].end /\ node.kids = pool[n].kids /\ node.rule = q
      /\ node.start = pool[n].start /\ node.builtFor = pool[n].builtFor
  BY <1>1 DEF NodeRec
<1>3. [pool EXCEPT ![n].rule = q] = new
  OBVIOUS
<1> HIDE DEF node
<1>4. /\ new \in Seq(NodeRec) /\ Len(new) = Len(pool)
      /\ \A i \in 1 .. Len(pool) : new[i] = IF i = n THEN node ELSE pool[i]
  BY <1>1, <1>2, ExceptSeq
<1> HIDE DEF new
<1>5. \A i \in 1 .. Len(pool) : new[i].kids = pool[i].kids
  BY <1>2, <1>4
<1>6. PoolOK(new)
  BY <1>4, <1>5 DEF PoolOK
<1>7. Extends(new)
  <2>1. 1 .. Len(nodes) \subseteq 1 .. Len(pool)
    BY <1>1, LenProperties DEF Extends, Typed, PoolOK
  <2> QED BY <1>2, <1>4, <2>1 DEF Extends
<1> QED BY <1>2, <1>3, <1>4, <1>6, <1>7

\* The node a production wraps becomes the child of the new node.
LEMMA WrapInNode ==
    ASSUME Typed, NEW r \in Rules, Type(r) = "production", NEW n \in 1 .. Len(nodes),
           Rebuilds(r, nodes[n].start, 1)
    PROVE  LET grown == Parser_add_node(r, nodes[n].start, nodes[n].end, 1)
               pool  == [grown EXCEPT ![Len(grown)].kids = <<n>>]
           IN  /\ PoolOK(pool)
               /\ Extends(pool)
               /\ Len(grown) = Len(nodes) + 1
               /\ Len(pool) = Len(nodes) + 1
               /\ pool[Len(pool)].start = nodes[n].start
               /\ pool[Len(pool)].end = nodes[n].end
               /\ pool[Len(pool)].kids = <<n>>
               /\ pool[Len(pool)].rule = r /\ pool[Len(pool)].builtFor = r
               /\ SameLabels(pool)
<1> DEFINE grown == Parser_add_node(r, nodes[n].start, nodes[n].end, 1)
           last  == Len(nodes) + 1
           node  == [grown[last] EXCEPT !.kids = <<n>>]
           pool  == [grown EXCEPT ![last] = node]
<1>0. nodes \in Seq(NodeRec) /\ Len(nodes) \in Nat /\ nodes[n] \in NodeRec
  BY LenProperties DEF Typed, PoolOK
<1>1. /\ PoolOK(grown) /\ Extends(grown) /\ Len(grown) = last
      /\ grown[last].end = nodes[n].end /\ grown[last].start = nodes[n].start
      /\ grown[last].rule = r /\ grown[last].builtFor = r /\ SameLabels(grown)
  <2>1. nodes[n].start \in Positions /\ nodes[n].end \in Null .. Len(input)
    BY <1>0 DEF NodeRec
  <2>2. \A i \in 1 .. 1 : ChildRule(r, i) \in Rules
    BY Tables DEF ChildRule, Type, RuleAssumption, Rules
  <2> DEFINE start == nodes[n].start
             end   == nodes[n].end
             one   == 1
  <2>3. one \in Nat /\ Rebuilds(r, start, one) /\ start \in Positions /\ end \in Null .. Len(input)
        /\ \A i \in 1 .. one : ChildRule(r, i) \in Rules
    BY <2>1, <2>2
  <2> HIDE DEF start, end, one
  <2>4. /\ PoolOK(Parser_add_node(r, start, end, one))
        /\ Extends(Parser_add_node(r, start, end, one))
        /\ Len(Parser_add_node(r, start, end, one)) = Len(nodes) + 1
        /\ Parser_add_node(r, start, end, one)[Len(nodes) + 1].end = end
        /\ Parser_add_node(r, start, end, one)[Len(nodes) + 1].start = start
        /\ Parser_add_node(r, start, end, one)[Len(nodes) + 1].rule = r
        /\ Parser_add_node(r, start, end, one)[Len(nodes) + 1].builtFor = r
        /\ SameLabels(Parser_add_node(r, start, end, one))
    BY <2>3, AddNode
  <2> QED BY <2>4 DEF start, end, one
<1> HIDE DEF grown
<1>2. grown \in Seq(NodeRec) /\ grown[last] \in NodeRec
  BY <1>0, <1>1 DEF PoolOK
<1>3. <<n>> \in Seq(Nat)
  BY <1>0
<1>4. /\ node \in NodeRec /\ node.kids = <<n>> /\ node.end = grown[last].end
      /\ node.start = grown[last].start
      /\ node.rule = grown[last].rule /\ node.builtFor = grown[last].builtFor
  BY <1>2, <1>3 DEF NodeRec
<1>5. [grown EXCEPT ![Len(grown)].kids = <<n>>] = pool
  BY <1>1
<1> HIDE DEF node
<1>6. /\ pool \in Seq(NodeRec) /\ Len(pool) = last
      /\ \A i \in 1 .. last : pool[i] = IF i = last THEN node ELSE grown[i]
  BY <1>0, <1>1, <1>2, <1>4, ExceptSeq
<1> HIDE DEF pool
<1>7. PoolOK(pool)
  <2>1. ASSUME NEW i \in 1 .. Len(pool), NEW k \in 1 .. Len(pool[i].kids)
        PROVE  pool[i].kids[k] \in 1 .. i
    <3>1. CASE i = last
      BY <1>0, <1>4, <1>6, <2>1, <3>1
    <3>2. CASE i # last
      BY <1>0, <1>1, <1>6, <2>1, <3>2 DEF PoolOK
    <3> QED BY <3>1, <3>2
  <2> QED BY <1>6, <2>1 DEF PoolOK
<1>8. Extends(pool) /\ SameLabels(pool)
  BY <1>0, <1>1, <1>6 DEF Extends, SameLabels
<1>9. /\ pool[Len(pool)].start = nodes[n].start
      /\ pool[Len(pool)].end = nodes[n].end
      /\ pool[Len(pool)].kids = <<n>>
      /\ pool[Len(pool)].rule = r /\ pool[Len(pool)].builtFor = r
  <2>1. pool[last] = node
    BY <1>0, <1>6
  <2> QED BY <1>1, <1>4, <1>6, <2>1
<1>10. Len(grown) = Len(nodes) + 1 /\ Len(pool) = Len(nodes) + 1
  BY <1>1, <1>6
<1> QED BY <1>5, <1>7, <1>8, <1>9, <1>10 DEF grown

-----------------------------------------------------------------------------
\* The frame that runs, and the frames below it.
LEMMA StackTop ==
    ASSUME Typed, stack # << >>
    PROVE  /\ Len(stack) \in Nat \ {0}
           /\ Top \in FrameRec /\ FrameOK(Top)
           /\ Below \in Seq(FrameRec)
           /\ Len(Below) = Len(stack) - 1
           /\ \A p \in 1 .. Len(stack) - 1 : Below[p] = stack[p]
           /\ mode \in {"call", "ret"} => CalledBy(Len(stack)) = Called(Top.rule, Top.n)
<1>1. stack \in Seq(FrameRec) /\ Len(stack) \in Nat \ {0}
  BY EmptySeq, LenProperties DEF Typed
<1>2. \A p \in 1 .. Len(stack) : stack[p] \in FrameRec
  BY <1>1, ElementOfSeq
<1>3. /\ Below \in Seq(FrameRec)
      /\ Len(Below) = Len(stack) - 1
      /\ \A p \in 1 .. Len(stack) - 1 : Below[p] = stack[p]
  <2> DEFINE last == Len(stack) - 1
  <2>1. last \in Int /\ 0 <= last /\ \A p \in 1 .. last : stack[p] \in FrameRec
    BY <1>1, <1>2
  <2>2. Below = SubSeq(stack, 1, last)
    BY DEF Below
  <2> HIDE DEF last
  <2>3. /\ SubSeq(stack, 1, last) \in Seq(FrameRec)
        /\ Len(SubSeq(stack, 1, last)) = IF 1 <= last THEN last - 1 + 1 ELSE 0
        /\ \A p \in 1 .. last - 1 + 1 : SubSeq(stack, 1, last)[p] = stack[1 + p - 1]
    BY <2>1, SubSeqProperties
  <2>4. Below \in Seq(FrameRec) /\ Len(Below) = last
    BY <2>1, <2>2, <2>3
  <2>5. \A p \in 1 .. last : Below[p] = stack[p]
    BY <2>1, <2>2, <2>3
  <2> QED BY <2>4, <2>5 DEF last
<1>4. Len(stack) \in 1 .. Len(stack) /\ Top = stack[Len(stack)]
  BY <1>1 DEF Top
<1>5. FrameOK(Top)
  BY <1>4 DEF Typed
<1>6. mode \in {"call", "ret"} => CalledBy(Len(stack)) = Called(Top.rule, Top.n)
  BY <1>4 DEF Typed
<1> QED BY <1>1, <1>2, <1>3, <1>4, <1>5, <1>6

\* A stack with one more frame.
LEMMA Push ==
    ASSUME Typed, NEW s \in Seq(FrameRec), NEW f \in FrameRec
    PROVE  /\ Append(s, f) \in Seq(FrameRec)
           /\ Len(s) \in Nat
           /\ Len(Append(s, f)) = Len(s) + 1
           /\ \A p \in 1 .. Len(s) : Append(s, f)[p] = s[p]
           /\ Append(s, f)[Len(s) + 1] = f
BY AppendProperties, LenProperties

-----------------------------------------------------------------------------
(* Every step of the engine is one of seven kinds *)

\* The kinds of steps there are.
Shape ==
    \/ Answered
    \/ Finish
    \/ \E n, pool, next : EnterLeave(n, pool, next)
    \/ EnterCall
    \/ \E n, pool, next : ResumeLeave(n, pool, next)
    \/ \E f : ResumeCall(f)
    \/ ResumeCrash

\* Entering(type) as the proofs use it.
LEMMA EnteringIsEntered ==
    ASSUME Typed, NEW type, Entering(type)
    PROVE  Entered /\ callee \in Rules /\ Type(callee) = type /\ cur \in 1 .. Len(input) + 1
           /\ Len(input) \in Nat
<1>1. cur \in Positions /\ cur # Null /\ CachedResult = NoNode
  BY DEF Entering, Typed
<1>2. cur \in Tokens /\ memo[callee][cur] = NoNode
  BY <1>1, Tables DEF CachedResult, Parser_check_cache, token_head, Null, NoNode, Fail
<1> QED BY <1>2, Tables DEF Entering, Entered, Typed

\* Resuming(type), with what Typed says of the frame and of what it got.
LEMMA ResumingIsResumed ==
    ASSUME Typed, NEW type, Resuming(type)
    PROVE  /\ Resumed
           /\ Top \in FrameRec /\ FrameOK(Top) /\ Top.rule \in Rules /\ Type(Top.rule) = type
           /\ Top.start \in 1 .. Len(input) + 1 /\ Top.n \in Nat /\ Top.delim \in 0 .. Len(nodes)
           /\ Len(input) \in Nat
           /\ ret.rule = Called(Top.rule, Top.n)
           /\ ret.node \in 0 .. Len(nodes) /\ Len(nodes) \in Nat
           /\ cur \in 0 .. Len(input) + 1
           /\ Full(ret.rule, ret.node, nodes)
           /\ KeepsEnds(nodes) /\ Ok => cur = nodes[ret.node].end + 1
<1>1. Resumed /\ stack # << >> /\ mode = "ret" /\ Type(Top.rule) = type
  BY DEF Resuming, Resumed, Top
<1>2. Top \in FrameRec /\ FrameOK(Top) /\ ret.rule = Called(Top.rule, Top.n)
  BY <1>1, StackTop DEF CalledBy
<1>3. Len(nodes) \in Nat
  BY LenProperties DEF Typed, PoolOK
<1>4. ret \in [rule : Rules, tok : Positions, node : 0 .. Len(nodes)]
  BY <1>1 DEF Typed
<1>5. /\ Top.rule \in Rules /\ Top.start \in Tokens /\ Top.n \in Nat /\ Top.delim \in Nat
      /\ Top.delim <= Len(nodes)
  BY <1>2 DEF FrameRec, FrameOK
<1>6. ret.node \in 0 .. Len(nodes) /\ cur \in Positions
  BY <1>4 DEF Typed
<1>7. Full(ret.rule, ret.node, nodes) /\ (KeepsEnds(nodes) /\ Ok => cur = nodes[ret.node].end + 1)
  BY <1>1 DEF Typed
<1> QED BY <1>1, <1>2, <1>3, <1>5, <1>6, <1>7, Tables

\* What LeaveNew does, whoever calls it.
LEMMA LeaveNewShape ==
    ASSUME Typed, NEW r \in Rules, NEW t, NEW start \in Positions, NEW end \in Null .. Len(input),
           NEW n \in Nat, NEW next, next = end + 1, NEW rest,
           n # 0 => \A i \in 1 .. n : ChildRule(r, i) \in Rules,
           Type(r) = "sequence" => n = Len(grammar[r].deps),
           LeaveNew(r, t, start, end, n, next, rest)
    PROVE  \/ \E pool : /\ Result(r, Len(pool), pool, next)
                        /\ Adds(r, start, end, n, pool)
                        /\ Leave(r, t, Len(pool), pool, next, rest)
           \/ n # 0 /\ ~Rebuilds(r, start, n) /\ Crash
<1>1. CASE Rebuilds(r, start, n)
  <2> DEFINE pool == Parser_add_node(r, start, end, n)
             last == Len(nodes) + 1
  <2>1. /\ PoolOK(pool) /\ Extends(pool) /\ Len(pool) = last
        /\ pool[last].start = start /\ pool[last].end = end /\ Len(pool[last].kids) = n
        /\ pool[last].rule = r /\ pool[last].builtFor = r /\ SameLabels(pool)
        /\ \A i \in 1 .. n : pool[last].kids[i] = ChildWalk(r, start, n)[i].kid
    BY <1>1, AddNode
  <2>0. Len(nodes) \in Nat
    BY LenProperties DEF Typed, PoolOK
  <2>2. last \in 0 .. Len(pool) /\ next \in Positions
    BY <2>0, <2>1, Tables DEF Null
  <2>3. Leave(r, t, last, pool, next, rest)
    BY <1>1 DEF LeaveNew
  <2> HIDE DEF pool
  <2>4. Adds(r, start, end, n, pool)
    BY <1>1, <2>1 DEF Adds
  <2> HIDE DEF last
  <2>5. Result(r, last, pool, next)
    BY <2>1, <2>2 DEF Result, Full
  <2> QED BY <2>1, <2>3, <2>4, <2>5
<1>2. CASE ~Rebuilds(r, start, n)
  BY <1>2 DEF LeaveNew, Rebuilds
<1> QED BY <1>1, <1>2

\* A failure, or the node of the called rule, is returned as it is.
LEMMA OldNodeResult ==
    ASSUME Typed, NEW r \in Rules, NEW n \in 0 .. Len(nodes), n # Fail => Type(r) # "sequence",
           KeepsEnds(nodes) /\ n # Fail => cur = nodes[n].end + 1
    PROVE  Result(r, n, nodes, cur)
<1>1. Extends(nodes) /\ PoolOK(nodes)
  BY LenProperties DEF Typed, PoolOK, Extends
<1> QED BY <1>1 DEF Result, Typed, Full, Real, Fail

\* Counting in size_t.
LEMMA NextCount ==
    ASSUME NEW n \in Nat, SizeMod \in Nat \ {0}, n < SizeMod
    PROVE  SizeT(n + 1) = IF n + 1 = SizeMod THEN 0 ELSE n + 1
BY DEF SizeT

\* Entering any rule either decides at once or calls its first subrule.
LEMMA EnterShape ==
    ASSUME Typed, Literal \/ Sequence \/ Choice \/ Repeat \/ List \/ NegativeLookahead
                  \/ PositiveLookahead \/ EnterProduction
    PROVE  (\E n, pool, next : EnterLeave(n, pool, next)) \/ EnterCall
<1> DEFINE Goal == (\E n, pool, next : EnterLeave(n, pool, next)) \/ EnterCall
<1>1. ASSUME NEW type, Entering(type), type = "literal" \/ (Empty(cur) /\ type \notin {"pos", "production"}),
             Leave(callee, cur, Fail, nodes, cur, stack)
      PROVE  Goal
  <2>1. Entered /\ callee \in Rules /\ Type(callee) = type
    BY <1>1, EnteringIsEntered
  <2>4. Fail \in 0 .. Len(nodes)
    BY LenProperties DEF Typed, PoolOK, Fail
  <2>2. Result(callee, Fail, nodes, cur)
    BY <2>1, <2>4, OldNodeResult
  <2>3. EnterLeave(Fail, nodes, cur)
    BY <1>1, <2>1, <2>2 DEF EnterLeave, Empty
  <2> QED BY <2>3
<1>2. ASSUME NEW type, Entering(type), type \notin {"sequence", "choice"},
             type = "literal" \/ (Empty(cur) /\ type \notin {"pos", "production"}),
             NEW e \in {cur, cur - 1}, ~Empty(cur) \/ e = cur - 1,
             LeaveNew(callee, cur, cur, e, 0, e + 1, stack)
      PROVE  Goal
  <2>1. Entered /\ callee \in Rules /\ Type(callee) = type /\ cur \in 1 .. Len(input) + 1 /\ Len(input) \in Nat
    BY <1>2, EnteringIsEntered
  <2>2. cur \in Positions /\ e \in Null .. Len(input)
    BY <1>2, <2>1, Tables DEF Empty, Null, token_tail
  <2> DEFINE next == e + 1
  <2>3. next \in {cur, cur + 1} /\ e = next - 1
    BY <1>2, <2>1
  <2>4. PICK pool : /\ Result(callee, Len(pool), pool, next)
                    /\ Adds(callee, cur, e, 0, pool)
                    /\ Leave(callee, cur, Len(pool), pool, next, stack)
    BY <1>2, <2>1, <2>2, LeaveNewShape
  <2> HIDE DEF next
  <2>5. EnterLeave(Len(pool), pool, next)
    BY <1>2, <2>1, <2>3, <2>4 DEF EnterLeave, Empty
  <2> QED BY <2>5
<1>3. ASSUME NEW type, Entering(type), type # "literal", type \in {"pos", "production"} \/ ~Empty(cur),
             CallFrom(Frame(callee, cur), stack, Called(callee, 0))
      PROVE  Goal
  <2>1. Entered /\ callee \in Rules /\ Type(callee) = type
    BY <1>3, EnteringIsEntered
  <2>2. Type(callee) \in {"sequence", "choice"} => Len(grammar[callee].deps) > 0
    BY <2>1, Tables DEF RuleAssumption, Type
  <2> QED BY <1>3, <2>1, <2>2 DEF EnterCall, Empty
<1>4. CASE Literal
  <2>1. Entering("literal") /\ cur \in 1 .. Len(input) + 1
    BY <1>4, EnteringIsEntered DEF Literal
  <2>2. CASE ~Empty(cur) /\ input[cur] \in grammar[callee].match
    BY <1>2, <1>4, <2>1, <2>2 DEF Literal
  <2>3. CASE ~(~Empty(cur) /\ input[cur] \in grammar[callee].match)
    BY <1>1, <1>4, <2>1, <2>3 DEF Literal
  <2> QED BY <2>2, <2>3
<1>5. ASSUME NEW type \in {"sequence", "choice"}, EnterChain(type)
      PROVE  Goal
  <2>1. Entering(type) /\ Type(callee) = type
    BY <1>5 DEF EnterChain, Entering
  <2>2. Called(callee, 0) = grammar[callee].deps[1]
    BY <2>1 DEF Called
  <2>3. CASE Empty(cur)
    BY <1>1, <1>5, <2>1, <2>3 DEF EnterChain
  <2>4. CASE ~Empty(cur)
    BY <1>3, <1>5, <2>1, <2>2, <2>4 DEF EnterChain
  <2> QED BY <2>3, <2>4
<1>6. CASE Repeat
  <2>1. Entering("repeat") /\ Type(callee) = "repeat" /\ cur \in Int
    BY <1>6, EnteringIsEntered DEF Repeat, Entering
  <2>2. Called(callee, 0) = grammar[callee].rule
    BY <2>1 DEF Called
  <2>3. CASE ~Empty(cur)
    BY <1>3, <1>6, <2>1, <2>2, <2>3 DEF Repeat
  <2>4. CASE Empty(cur) /\ grammar[callee].min > 0
    BY <1>1, <1>6, <2>1, <2>4 DEF Repeat
  <2>5. CASE Empty(cur) /\ ~(grammar[callee].min > 0)
    <3>1. LeaveNew(callee, cur, cur, cur - 1, 0, (cur - 1) + 1, stack)
      BY <1>6, <2>1, <2>5 DEF Repeat
    <3> QED BY <1>2, <2>1, <2>5, <3>1
  <2> QED BY <2>3, <2>4, <2>5
<1>7. CASE List
  <2>1. Entering("list") /\ Type(callee) = "list"
    BY <1>7 DEF List, Entering
  <2>2. Called(callee, 0) = grammar[callee].rule
    BY <2>1 DEF Called
  <2>3. CASE Empty(cur)
    BY <1>1, <1>7, <2>1, <2>3 DEF List
  <2>4. CASE ~Empty(cur)
    BY <1>3, <1>7, <2>1, <2>2, <2>4 DEF List
  <2> QED BY <2>3, <2>4
<1>8. CASE NegativeLookahead
  <2>1. Entering("neg") /\ Type(callee) = "neg" /\ cur \in Int
    BY <1>8, EnteringIsEntered DEF NegativeLookahead, Entering
  <2>2. Called(callee, 0) = grammar[callee].rule
    BY <2>1 DEF Called
  <2>3. CASE Empty(cur)
    <3>1. LeaveNew(callee, cur, cur, cur - 1, 0, (cur - 1) + 1, stack)
      BY <1>8, <2>1, <2>3 DEF NegativeLookahead
    <3> QED BY <1>2, <2>1, <2>3, <3>1
  <2>4. CASE ~Empty(cur)
    BY <1>3, <1>8, <2>1, <2>2, <2>4 DEF NegativeLookahead
  <2> QED BY <2>3, <2>4
<1>9. CASE PositiveLookahead
  <2>1. Entering("pos") /\ Called(callee, 0) = grammar[callee].rule
    BY <1>9 DEF PositiveLookahead, Entering, Called
  <2> QED BY <1>3, <1>9, <2>1 DEF PositiveLookahead
<1>10. CASE EnterProduction
  <2>1. Entering("production") /\ Called(callee, 0) = grammar[callee].rule
    BY <1>10 DEF EnterProduction, Entering, Called
  <2> QED BY <1>3, <1>10, <2>1 DEF EnterProduction
<1> QED BY <1>4, <1>5, <1>6, <1>7, <1>8, <1>9, <1>10 DEF Sequence, Choice

\* Resuming any rule but a production leaves, goes on, or crashes.
LEMMA ResumeShape ==
    ASSUME Typed, SequenceResume \/ ChoiceResume \/ RepeatResume \/ ListElement \/ ListDelimiter
                  \/ NegativeResume \/ PositiveResume
    PROVE  (\E n, pool, next : ResumeLeave(n, pool, next)) \/ (\E f : ResumeCall(f)) \/ ResumeCrash
<1> DEFINE Goal == (\E n, pool, next : ResumeLeave(n, pool, next)) \/ (\E f : ResumeCall(f)) \/ ResumeCrash
           Stops == ~Goes(Top.rule, Top.n, ret.node)
<1>1. ASSUME NEW type, Resuming(type), Stops, LeaveFail
      PROVE  Goal
  <2>1. Resumed /\ Top.rule \in Rules
    BY <1>1, ResumingIsResumed
  <2>4. Fail \in 0 .. Len(nodes)
    BY LenProperties DEF Typed, PoolOK, Fail
  <2>2. Result(Top.rule, Fail, nodes, cur)
    BY <2>1, <2>4, OldNodeResult
  <2>3. ResumeLeave(Fail, nodes, cur)
    BY <1>1, <2>1, <2>2 DEF ResumeLeave, LeaveFail, Made
  <2> QED BY <2>3
<1>2. ASSUME NEW type, Resuming(type), Stops, type = "choice" \/ ~Ok, LeaveWith(ret.node)
      PROVE  Goal
  <2>1. /\ Resumed /\ Top.rule \in Rules /\ Type(Top.rule) = type /\ ret.node \in 0 .. Len(nodes)
        /\ KeepsEnds(nodes) /\ Ok => cur = nodes[ret.node].end + 1
    BY <1>2, ResumingIsResumed
  <2>2. Result(Top.rule, ret.node, nodes, cur)
    BY <1>2, <2>1, OldNodeResult DEF Ok
  <2>3. type = "choice" => HandsOn(nodes)
    BY <2>1 DEF HandsOn, SameLabels, Type
  <2>4. Made(ret.node, nodes, cur)
    BY <1>2, <2>1, <2>3 DEF Made, Ok
  <2>5. ResumeLeave(ret.node, nodes, cur)
    BY <1>2, <2>1, <2>2, <2>4 DEF ResumeLeave, LeaveWith
  <2> QED BY <2>5
<1>3. ASSUME NEW type, Resuming(type), Stops, NEW n \in Nat,
             n # 0 => \A i \in 1 .. n : ChildRule(Top.rule, i) \in Rules,
             type = "sequence" => n = Len(grammar[Top.rule].deps),
             NEW start \in Positions, NEW end \in Null .. Len(input), NEW next, next = end + 1, end = next - 1,
             \/ Spans(n, next) /\ start = Top.start
             \/ n = 0 /\ type \in {"neg", "pos"} /\ next = Top.start /\ (type = "neg" => start = Top.start),
             LeaveNew(Top.rule, Top.start, start, end, n, next, Below)
      PROVE  Goal
  <2>1. Resumed /\ Top.rule \in Rules /\ Type(Top.rule) = type
    BY <1>3, ResumingIsResumed
  <2>2. \/ \E pool : /\ Result(Top.rule, Len(pool), pool, next)
                     /\ Adds(Top.rule, start, end, n, pool)
                     /\ Leave(Top.rule, Top.start, Len(pool), pool, next, Below)
        \/ n # 0 /\ ~Rebuilds(Top.rule, start, n) /\ Crash
    BY <1>3, <2>1, LeaveNewShape
  <2>3. ASSUME NEW pool, Result(Top.rule, Len(pool), pool, next), Adds(Top.rule, start, end, n, pool),
               Leave(Top.rule, Top.start, Len(pool), pool, next, Below)
        PROVE  Goal
    <3>1. Made(Len(pool), pool, next)
      BY <1>3, <2>1, <2>3 DEF Made
    <3>2. ResumeLeave(Len(pool), pool, next)
      BY <1>3, <2>1, <2>3, <3>1 DEF ResumeLeave
    <3> QED BY <3>2
  <2>4. ASSUME n # 0, ~Rebuilds(Top.rule, start, n), Crash
        PROVE  Goal
    <3>1. Breaks
      BY <1>3, <2>4 DEF Breaks
    <3> QED BY <1>3, <2>1, <2>4, <3>1 DEF ResumeCrash
  <2> QED BY <2>2, <2>3, <2>4
<1>4. ASSUME NEW type, Resuming(type), Stops, NEW n \in Nat,
             n # 0 => \A i \in 1 .. n : ChildRule(Top.rule, i) \in Rules,
             type = "sequence" => n = Len(grammar[Top.rule].deps), Spans(n, cur), LeaveSpan(n)
      PROVE  Goal
  <2> DEFINE end == cur - 1
             start == Top.start
  <2>1. cur \in 0 .. Len(input) + 1 /\ Top.start \in 1 .. Len(input) + 1 /\ Len(input) \in Nat
    BY <1>4, ResumingIsResumed
  <2>2. start \in Positions /\ end \in Null .. Len(input) /\ cur = end + 1
    BY <2>1, Tables DEF Null
  <2>3. LeaveNew(Top.rule, Top.start, start, end, n, cur, Below)
    BY <1>4 DEF LeaveSpan
  <2>4. end = cur - 1 /\ start = Top.start
    OBVIOUS
  <2> HIDE DEF end, start
  <2> QED BY <1>3, <1>4, <2>2, <2>3, <2>4
<1>5. ASSUME NEW type, Resuming(type), ~Stops, NEW f \in FrameRec, FrameOK(f), f.rule = Top.rule,
             f.start = Top.start, f.n = After(Top.rule, Top.n),
             Type(Top.rule) = "list" /\ Top.n % 2 = 1 => f.delim = ret.node,
             CallFrom(f, Below, Called(f.rule, f.n))
      PROVE  Goal
  <2>1. Resumed
    BY <1>5, ResumingIsResumed
  <2>2. ResumeCall(f)
    BY <1>5, <2>1 DEF ResumeCall
  <2> QED BY <2>2
<1>6. ASSUME NEW type \in {"sequence", "choice"}, Resuming(type), ~Stops, NextDep
      PROVE  Goal
  <2> DEFINE k == Top.n + 1
             f == [Top EXCEPT !.n = @ + 1]
             deps == grammar[Top.rule].deps
  <2>1. /\ Type(Top.rule) = type /\ Top \in FrameRec /\ FrameOK(Top) /\ Top.rule \in Rules
        /\ Top.n \in Nat /\ Top.delim \in Nat
    BY <1>6, ResumingIsResumed DEF FrameRec
  <2>2. Len(deps) \in Nat /\ Top.n < Len(deps) /\ Top.n + 1 # Len(deps)
    BY <1>6, <2>1, Tables DEF FrameOK, RuleAssumption, Type, Goes
  <2>3. k = After(Top.rule, Top.n) /\ Called(Top.rule, k) = deps[Top.n + 2]
    BY <2>1 DEF After, Called
  <2>4. f \in FrameRec /\ f.rule = Top.rule /\ f.start = Top.start /\ f.n = k /\ f.delim = Top.delim
    BY <2>1 DEF FrameRec
  <2>5. CallFrom(f, Below, Called(f.rule, f.n))
    BY <1>6, <2>3, <2>4 DEF NextDep
  <2> HIDE DEF f
  <2>6. FrameOK(f)
    BY <2>1, <2>2, <2>4 DEF FrameOK
  <2>7. Type(Top.rule) # "list"
    BY <2>1
  <2> QED BY <1>5, <1>6, <2>3, <2>4, <2>5, <2>6, <2>7
<1>7. CASE SequenceResume
  <2>1. /\ Resuming("sequence") /\ Type(Top.rule) = "sequence" /\ Top.n \in Nat /\ Top.rule \in Rules
        /\ FrameOK(Top) /\ ret.node \in 0 .. Len(nodes)
    BY <1>7, ResumingIsResumed DEF SequenceResume
  <2>2. Goes(Top.rule, Top.n, ret.node) <=> Ok /\ ~LastDep
    BY <2>1 DEF Goes, Ok, LastDep
  <2>3. CASE ~Ok
    BY <1>2, <1>7, <2>1, <2>2, <2>3 DEF SequenceResume
  <2>4. CASE Ok /\ LastDep
    <3>1. Top.n + 1 = Len(grammar[Top.rule].deps) /\ LeaveSpan(Top.n + 1)
      BY <1>7, <2>4 DEF SequenceResume, LastDep
    <3>2. \A i \in 1 .. Top.n + 1 : ChildRule(Top.rule, i) \in Rules
      BY <2>1, <3>1, Tables DEF ChildRule, RuleAssumption, Type, Rules
    <3>3. Spans(Top.n + 1, cur)
      BY <2>1, <2>4, <3>1 DEF Spans
    <3> DEFINE k == Top.n + 1
    <3>4. /\ k \in Nat /\ k = Len(grammar[Top.rule].deps) /\ LeaveSpan(k) /\ Spans(k, cur)
          /\ \A i \in 1 .. k : ChildRule(Top.rule, i) \in Rules
      BY <2>1, <3>1, <3>2, <3>3
    <3> HIDE DEF k
    <3> QED BY <1>4, <2>1, <2>2, <2>4, <3>4
  <2>5. CASE Ok /\ ~LastDep
    BY <1>6, <1>7, <2>1, <2>2, <2>5 DEF SequenceResume
  <2> QED BY <2>3, <2>4, <2>5
<1>8. CASE ChoiceResume
  <2>1. /\ Resuming("choice") /\ Type(Top.rule) = "choice" /\ Top.n \in Nat /\ Top.rule \in Rules
        /\ FrameOK(Top)
    BY <1>8, ResumingIsResumed DEF ChoiceResume
  <2>2. Goes(Top.rule, Top.n, ret.node) <=> ~Ok /\ ~LastDep
    BY <2>1 DEF Goes, Ok, LastDep
  <2>3. CASE Ok
    BY <1>2, <1>8, <2>1, <2>2, <2>3 DEF ChoiceResume
  <2>4. CASE ~Ok /\ LastDep
    BY <1>1, <1>8, <2>1, <2>2, <2>4 DEF ChoiceResume
  <2>5. CASE ~Ok /\ ~LastDep
    BY <1>6, <1>8, <2>1, <2>2, <2>5 DEF ChoiceResume
  <2> QED BY <2>3, <2>4, <2>5
<1>9. CASE RepeatResume
  <2> DEFINE g == grammar[Top.rule]
             n == SizeT(Top.n + 1)
  <2>1. /\ Resuming("repeat") /\ Type(Top.rule) = "repeat" /\ Top.n \in Nat /\ Top.rule \in Rules
        /\ FrameOK(Top) /\ Top \in FrameRec /\ Top.delim \in 0 .. Len(nodes) /\ Len(nodes) \in Nat
        /\ Top.n < SizeMod
    <3>1. Resuming("repeat")
      BY <1>9 DEF RepeatResume
    <3>2. /\ Type(Top.rule) = "repeat" /\ Top.n \in Nat /\ Top.rule \in Rules
          /\ FrameOK(Top) /\ Top \in FrameRec /\ Top.delim \in 0 .. Len(nodes) /\ Len(nodes) \in Nat
      BY <3>1, ResumingIsResumed
    <3> QED BY <3>1, <3>2 DEF FrameOK
  <2>2. n \in Nat /\ n < SizeMod
    <3>1. SizeMod \in Nat \ {0} /\ Top.n \in Nat /\ Top.n < SizeMod
      BY <2>1, Tables
    <3>2. SizeT(Top.n + 1) = IF Top.n + 1 = SizeMod THEN 0 ELSE Top.n + 1
      BY <3>1, NextCount
    <3> QED BY <3>1, <3>2
  <2>3. Goes(Top.rule, Top.n, ret.node) <=> Ok /\ ~(g.max # 0 /\ n = g.max)
    BY <2>1 DEF Goes, Ok
  <2>4. \A i \in Nat : ChildRule(Top.rule, i) \in Rules
    BY <2>1, Tables DEF ChildRule, RuleAssumption, Type, Rules
  <2>5. ASSUME NEW m \in Nat, RepeatDone(m), ~Goes(Top.rule, Top.n, ret.node), Spans(m, cur)
        PROVE  Goal
    <3>1. LeaveFail \/ LeaveSpan(m)
      BY <2>5 DEF RepeatDone
    <3> QED BY <1>1, <1>4, <2>1, <2>4, <2>5, <3>1
  <2>6. CASE ~Ok
    <3>1. Spans(Top.n, cur)
      BY <2>1, <2>6 DEF Spans
    <3> QED BY <1>9, <2>1, <2>3, <2>5, <2>6, <3>1 DEF RepeatResume
  <2>7. CASE Ok /\ g.max # 0 /\ n = g.max
    <3>1. Spans(n, cur)
      BY <2>1, <2>7 DEF Spans
    <3> QED BY <1>9, <2>2, <2>3, <2>5, <2>7, <3>1 DEF RepeatResume
  <2>8. CASE Ok /\ ~(g.max # 0 /\ n = g.max)
    <3> DEFINE f == [Top EXCEPT !.n = n]
    <3>1. f \in FrameRec /\ f.rule = Top.rule /\ f.start = Top.start /\ f.n = n /\ f.delim = Top.delim
      BY <2>1, <2>2 DEF FrameRec
    <3>2. n = After(Top.rule, Top.n) /\ Called(Top.rule, n) = g.rule
      BY <2>1 DEF After, Called
    <3>3. CallFrom(f, Below, Called(f.rule, f.n))
      BY <1>9, <2>8, <3>1, <3>2 DEF RepeatResume
    <3> HIDE DEF f, n, g
    <3>4. FrameOK(f)
      BY <2>1, <2>2, <3>1 DEF FrameOK
    <3> QED BY <1>5, <2>1, <2>3, <2>8, <3>1, <3>2, <3>3, <3>4
  <2> QED BY <2>6, <2>7, <2>8
<1>10. CASE ListElement
  <2> DEFINE n == SizeT(Top.n + 1)
             t == nodes[Top.delim].start
  <2>1. /\ Resuming("list") /\ Type(Top.rule) = "list" /\ Top.n \in Nat /\ Top.rule \in Rules
        /\ FrameOK(Top) /\ Top \in FrameRec /\ Top.delim \in 0 .. Len(nodes) /\ Len(nodes) \in Nat
        /\ Top.n < SizeMod /\ Top.n % 2 = 0 /\ Top.start \in Positions
        /\ Len(input) \in Nat /\ Positions = 0 .. Len(input) + 1
    <3>1. Resuming("list") /\ Top.n % 2 = 0
      BY <1>10 DEF ListElement
    <3>2. /\ Type(Top.rule) = "list" /\ Top.n \in Nat /\ Top.rule \in Rules
          /\ FrameOK(Top) /\ Top \in FrameRec /\ Top.delim \in 0 .. Len(nodes) /\ Len(nodes) \in Nat
          /\ Top.start \in 1 .. Len(input) + 1
      BY <3>1, ResumingIsResumed
    <3>3. Top.n < SizeMod
      BY <3>2 DEF FrameOK
    <3>4. Len(input) \in Nat /\ Positions = 0 .. Len(input) + 1
      BY Tables
    <3> QED BY <3>1, <3>2, <3>3, <3>4
  <2>2. Goes(Top.rule, Top.n, ret.node) <=> Ok
    BY <2>1 DEF Goes, Ok
  <2>3. CASE Ok
    <3> DEFINE f == [Top EXCEPT !.n = SizeT(@ + 1)]
    <3>0. Top.n + 1 # SizeMod /\ SizeMod \in Nat \ {0}
      <4>1. SizeMod \in Nat \ {0} /\ SizeMod % 2 = 0
        BY Tables
      <4>2. (Top.n + 1) % 2 = 1
        BY <2>1
      <4> QED BY <4>1, <4>2
    <3>1. Top.n + 1 < SizeMod /\ n = Top.n + 1
      <4>1. \A a, b \in Nat : a < b /\ a + 1 # b => a + 1 < b
        OBVIOUS
      <4>2. Top.n + 1 < SizeMod
        BY <2>1, <3>0, <4>1
      <4> QED BY <2>1, <3>0, <4>2, NextCount
    <3>2. f \in FrameRec /\ f.rule = Top.rule /\ f.start = Top.start /\ f.n = n /\ f.delim = Top.delim
      BY <2>1, <3>1 DEF FrameRec
    <3>3. n = After(Top.rule, Top.n)
      BY <2>1 DEF After
    <3>4. n % 2 = 1
      BY <2>1, <3>1
    <3>5. Called(Top.rule, n) = grammar[Top.rule].delim
      BY <2>1, <3>4 DEF Called
    <3>6. CallFrom(f, Below, Called(f.rule, f.n))
      BY <1>10, <2>3, <3>2, <3>5 DEF ListElement
    <3> HIDE DEF f, n
    <3>7. FrameOK(f)
      <4>1. Type(f.rule) = "list" /\ f.n < SizeMod /\ f.n % 2 = 1 /\ f.delim <= Len(nodes)
        BY <2>1, <3>1, <3>2, <3>4
      <4>2. ~(f.n % 2 = 0)
        BY <4>1
      <4> QED BY <4>1, <4>2 DEF FrameOK
    <3> QED BY <1>5, <2>1, <2>2, <2>3, <3>2, <3>3, <3>6, <3>7
  <2>4. CASE ~Ok /\ Top.n = 0
    BY <1>1, <1>10, <2>1, <2>2, <2>4 DEF ListElement
  <2>5. CASE ~Ok /\ Top.n # 0
    <3>1. Top.delim \in 1 .. Len(nodes)
      BY <2>1, <2>5 DEF FrameOK, Fail
    <3>2. t \in Positions
      <4>1. nodes[Top.delim] \in NodeRec
        BY <3>1, ElementOfSeq DEF Typed, PoolOK
      <4> QED BY <4>1 DEF NodeRec
    <3>4. LeaveNew(Top.rule, Top.start, Top.start, t - 1, Top.n - 1, t, Below)
      BY <1>10, <2>5 DEF ListElement
    <3>5. \A i \in Nat : ChildRule(Top.rule, i) \in Rules
      BY <2>1, Tables DEF ChildRule, RuleAssumption, Type, Rules
    <3> DEFINE k == Top.n - 1
               end == t - 1
    <3> HIDE DEF t
    <3>3. end \in Null .. Len(input) /\ t = end + 1
      BY <2>1, <3>2 DEF Null
    <3>6. k \in Nat
      BY <2>1, <2>5
    <3>7. LeaveNew(Top.rule, Top.start, Top.start, end, k, t, Below)
      BY <3>4
    <3>8. k # 0 => \A i \in 1 .. k : ChildRule(Top.rule, i) \in Rules
      BY <3>5, <3>6
    <3> HIDE DEF k, end
    <3>9. Stops
      BY <2>2, <2>5
    <3>10. Spans(k, t)
      BY <2>1, <2>5 DEF Spans, k, t
    <3>11. end = t - 1
      BY DEF end
    <3> QED BY <1>3, <2>1, <3>3, <3>6, <3>7, <3>8, <3>9, <3>10, <3>11
  <2> QED BY <2>3, <2>4, <2>5
<1>11. CASE ListDelimiter
  <2> DEFINE n == SizeT(Top.n + 1)
  <2>1. /\ Resuming("list") /\ Type(Top.rule) = "list" /\ Top.n \in Nat /\ Top.rule \in Rules
        /\ FrameOK(Top) /\ Top \in FrameRec /\ ret.node \in 0 .. Len(nodes) /\ Len(nodes) \in Nat
        /\ Top.n < SizeMod /\ Top.n % 2 = 1
    BY <1>11, ResumingIsResumed DEF ListDelimiter, FrameOK
  <2>2. Goes(Top.rule, Top.n, ret.node) <=> Ok
    BY <2>1 DEF Goes, Ok
  <2>3. CASE Ok
    <3> DEFINE f == [Top EXCEPT !.n = SizeT(@ + 1), !.delim = ret.node]
    <3>8. SizeMod \in Nat \ {0} /\ SizeMod % 2 = 0 /\ Top.n \in Nat /\ Top.n < SizeMod /\ Top.n % 2 = 1
      BY <2>1, Tables
    <3>1. n = (IF Top.n + 1 = SizeMod THEN 0 ELSE Top.n + 1)
      BY <3>8, NextCount
    <3>0. n \in Nat
      BY <2>1, <3>1
    <3>2. f \in FrameRec /\ f.rule = Top.rule /\ f.start = Top.start /\ f.n = n /\ f.delim = ret.node
      <4>1. f = [Top EXCEPT !.n = n, !.delim = ret.node]
        OBVIOUS
      <4>2. ret.node \in Nat
        BY <2>1
      <4> HIDE DEF n, f
      <4>3. f = [rule |-> Top.rule, start |-> Top.start, n |-> n, delim |-> ret.node]
        BY <2>1, <4>1 DEF FrameRec
      <4>4. Top.rule \in Rules /\ Top.start \in Tokens
        BY <2>1 DEF FrameRec
      <4> QED BY <3>0, <4>2, <4>3, <4>4 DEF FrameRec
    <3>3. n = After(Top.rule, Top.n)
      BY <2>1 DEF After
    <3>4. n % 2 = 0 /\ n < SizeMod
      <4> HIDE DEF n
      <4>1. CASE Top.n + 1 = SizeMod
        BY <3>8, <3>1, <4>1
      <4>2. CASE Top.n + 1 # SizeMod
        <5>1. n = Top.n + 1
          BY <3>1, <4>2
        <5>2. n % 2 = 0
          BY <3>8, <5>1
        <5>3. n < SizeMod
          BY <3>8, <4>2, <5>1
        <5> QED BY <5>2, <5>3
      <4> QED BY <4>1, <4>2
    <3>5. Called(Top.rule, n) = grammar[Top.rule].rule
      BY <2>1, <3>4 DEF Called
    <3>6. CallFrom(f, Below, Called(f.rule, f.n))
      BY <1>11, <2>3, <3>2, <3>5 DEF ListDelimiter
    <3> HIDE DEF f, n
    <3>7. FrameOK(f)
      BY <2>1, <2>3, <3>2, <3>4 DEF FrameOK, Ok
    <3> QED BY <1>5, <2>1, <2>2, <2>3, <3>2, <3>3, <3>6, <3>7
  <2>4. CASE ~Ok
    <3>1. \A i \in Nat : ChildRule(Top.rule, i) \in Rules
      BY <2>1, Tables DEF ChildRule, RuleAssumption, Type, Rules
    <3>2. LeaveSpan(Top.n) /\ Spans(Top.n, cur)
      BY <1>11, <2>1, <2>4 DEF ListDelimiter, Spans
    <3> QED BY <1>4, <2>1, <2>2, <2>4, <3>1, <3>2
  <2> QED BY <2>3, <2>4
<1>12. ASSUME Type(Top.rule) \in {"neg", "pos", "production"} PROVE Stops
  BY <1>12 DEF Goes
<1>13. CASE NegativeResume
  <2>1. /\ Resuming("neg") /\ Type(Top.rule) = "neg" /\ Top.start \in 1 .. Len(input) + 1
        /\ Len(input) \in Nat
    BY <1>13, ResumingIsResumed DEF NegativeResume
  <2>2. Stops
    BY <1>12, <2>1
  <2>3. CASE Ok
    BY <1>1, <1>13, <2>1, <2>2, <2>3 DEF NegativeResume
  <2>4. CASE ~Ok
    <3>1. LeaveNew(Top.rule, Top.start, Top.start, Top.start - 1, 0, Top.start, Below)
      BY <1>13, <2>4 DEF NegativeResume
    <3> DEFINE start == Top.start
               end == Top.start - 1
               k == 0
    <3>2. /\ start \in Positions /\ end \in Null .. Len(input) /\ start = end + 1 /\ end = start - 1
          /\ k \in Nat /\ k = 0 /\ start = Top.start
      BY <2>1, Tables DEF Null
    <3>3. LeaveNew(Top.rule, Top.start, start, end, k, start, Below)
      BY <3>1
    <3> HIDE DEF start, end, k
    <3> QED BY <1>3, <2>1, <2>2, <3>2, <3>3
  <2> QED BY <2>3, <2>4
<1>14. CASE PositiveResume
  <2>1. /\ Resuming("pos") /\ Type(Top.rule) = "pos" /\ Top.start \in 1 .. Len(input) + 1
        /\ Len(input) \in Nat
    BY <1>14, ResumingIsResumed DEF PositiveResume
  <2>2. Stops
    BY <1>12, <2>1
  <2>3. CASE ~Ok
    BY <1>2, <1>14, <2>1, <2>2, <2>3 DEF PositiveResume
  <2>4. CASE Ok
    <3>1. LeaveNew(Top.rule, Top.start, Top.start - 1, Top.start - 1, 0, Top.start, Below)
      BY <1>14, <2>4 DEF PositiveResume
    <3> DEFINE start == Top.start
               end == Top.start - 1
               k == 0
    <3>2. /\ end \in Positions /\ end \in Null .. Len(input) /\ start = end + 1 /\ end = start - 1
          /\ k \in Nat /\ k = 0 /\ start = Top.start
      BY <2>1, Tables DEF Null
    <3>3. LeaveNew(Top.rule, Top.start, end, end, k, start, Below)
      BY <3>1
    <3> HIDE DEF start, end, k
    <3> QED BY <1>3, <2>1, <2>2, <3>2, <3>3
  <2> QED BY <2>3, <2>4
<1> QED BY <1>7, <1>8, <1>9, <1>10, <1>11, <1>13, <1>14

\* In a pool that has grown the old nodes still end where they ended.
LEMMA OldEnds ==
    ASSUME Typed, NEW pool, PoolOK(pool), Extends(pool), KeepsEnds(pool)
    PROVE  KeepsEnds(nodes)
<1>1. ASSUME OneChild(pool) PROVE OneChild(nodes)
  <2>1. Len(nodes) \in Nat /\ Len(pool) \in Nat /\ Len(nodes) <= Len(pool)
    BY LenProperties DEF Typed, PoolOK, Extends
  <2>2. ASSUME NEW i \in 1 .. Len(nodes), Len(nodes[i].kids) = 1
        PROVE  nodes[nodes[i].kids[1]].end = nodes[i].end
    <3>1. i \in 1 .. Len(pool) /\ pool[i].kids = nodes[i].kids /\ pool[i].end = nodes[i].end
      BY <2>1 DEF Extends
    <3>2. nodes[i].kids[1] \in 1 .. i
      BY <2>2 DEF Typed, PoolOK
    <3>3. nodes[i].kids[1] \in 1 .. Len(nodes)
      BY <2>1, <3>2
    <3>4. pool[nodes[i].kids[1]].end = nodes[nodes[i].kids[1]].end
      BY <3>3 DEF Extends
    <3> QED BY <1>1, <2>2, <3>1, <3>4 DEF OneChild
  <2> QED BY <2>2 DEF OneChild
<1> QED BY <1>1 DEF KeepsEnds

\* The build actions of a production.
LEMMA BuildShape ==
    ASSUME Typed, ProductionResume
    PROVE  (\E n, pool, next : ResumeLeave(n, pool, next)) \/ ResumeCrash
<1> DEFINE Goal == (\E n, pool, next : ResumeLeave(n, pool, next)) \/ ResumeCrash
           got == ret.node
           action == grammar[Top.rule].action
<1>1. /\ Resumed /\ Top.rule \in Rules /\ Type(Top.rule) = "production"
      /\ got \in 0 .. Len(nodes) /\ Len(nodes) \in Nat
      /\ KeepsEnds(nodes) /\ Ok => cur = nodes[got].end + 1
      /\ ret.rule = Called(Top.rule, Top.n) /\ Full(ret.rule, got, nodes)
      /\ cur \in 0 .. Len(input) + 1
  BY ResumingIsResumed DEF ProductionResume
<1>2. ~Goes(Top.rule, Top.n, got) /\ ret.rule = grammar[Top.rule].rule
  BY <1>1 DEF Goes, Called
<1>3. PoolOK(nodes) /\ Extends(nodes) /\ cur \in Positions
  BY <1>1 DEF Typed, Extends
<1>4. KeepsEnds(nodes) => action # "inner" /\ (action = "simplify" => OneChild(nodes))
  BY <1>1 DEF KeepsEnds, ReturnsInner, Simplifies, Rules, Type
<1> HIDE DEF got, action
<1>5. ASSUME NEW n, NEW pool, Result(Top.rule, n, pool, cur), Made(n, pool, cur),
             Leave(Top.rule, Top.start, n, pool, cur, Below)
      PROVE  Goal
  <2>1. ResumeLeave(n, pool, cur)
    BY <1>1, <1>2, <1>5 DEF ResumeLeave, got
  <2> QED BY <2>1
<1>6. ASSUME NEW n \in 0 .. Len(nodes), LeaveWith(n), Made(n, nodes, cur),
             KeepsEnds(nodes) /\ n # Fail => cur = nodes[n].end + 1
      PROVE  Goal
  <2>1. Result(Top.rule, n, nodes, cur)
    BY <1>1, <1>6, OldNodeResult
  <2> QED BY <1>5, <1>6, <2>1 DEF LeaveWith
<1>7. ASSUME LeaveFail PROVE Goal
  <2>1. Fail \in 0 .. Len(nodes) /\ LeaveWith(Fail)
    BY <1>1, <1>7 DEF LeaveFail, LeaveWith, Fail
  <2>2. Made(Fail, nodes, cur)
    BY DEF Made
  <2> QED BY <1>6, <2>1, <2>2
<1>8. CASE ~Ok
  <2>1. LeaveFail
    BY <1>8 DEF ProductionResume, LeaveWith, LeaveFail, Ok
  <2> QED BY <1>7, <2>1
<1>9. CASE Ok
  <2>1. got \in 1 .. Len(nodes) /\ got # Fail
    BY <1>1, <1>9 DEF Ok, Fail, got
  <2>2. nodes[got] \in NodeRec /\ \A k \in 1 .. Len(nodes[got].kids) : nodes[got].kids[k] \in 1 .. got
    BY <1>3, <2>1, ElementOfSeq DEF PoolOK
  <2>12. ASSUME NEW pool, PoolOK(pool), Extends(pool), KeepsEnds(pool)
         PROVE  cur = nodes[got].end + 1
    BY <1>1, <1>9, <2>12, OldEnds
  <2>3. ASSUME NEW q \in Rules \cup {NotRule}, Relabel(got, q), action \in {"default", "skip", "simplify"},
               q = IF action = "skip" THEN NotRule ELSE Top.rule
        PROVE  Goal
    <3> DEFINE pool == [nodes EXCEPT ![got].rule = q]
    <3>1. /\ PoolOK(pool) /\ Extends(pool) /\ Len(pool) = Len(nodes) /\ pool[got].end = nodes[got].end
          /\ pool[got].rule = q /\ \A i \in 1 .. Len(nodes) : i # got => pool[i].rule = nodes[i].rule
      BY <1>3, <2>1, <2>3, RelabelNode
    <3>2. Leave(Top.rule, Top.start, got, pool, cur, Below)
      BY <2>3 DEF Relabel
    <3> HIDE DEF pool
    <3>3. KeepsEnds(pool) => cur = pool[got].end + 1
      BY <2>12, <3>1
    <3>4. Result(Top.rule, got, pool, cur)
      BY <1>1, <1>3, <3>1, <3>3 DEF Result, Full
    <3>6. HandsOn(pool)
      BY <1>1, <2>3, <3>1, Zenon DEF HandsOn, Relabels, Type, got, action
    <3>5. Made(got, pool, cur)
      BY <1>1, <1>9, <3>1, <3>6 DEF Made, got
    <3> QED BY <1>5, <3>2, <3>4, <3>5
  <2>4. ASSUME LeaveWith(got), action = "pass" \/ (action = "default" /\ nodes[got].rule = NotRule)
        PROVE  Goal
    <3>2. HandsOn(nodes)
      BY <1>1, <2>4 DEF HandsOn, SameLabels, got, action
    <3>1. Made(got, nodes, cur)
      BY <1>1, <1>9, <3>2 DEF Made, got
    <3> QED BY <1>1, <1>6, <1>9, <2>4, <3>1 DEF got
  <2>5. ASSUME WrapNode(got), action = "default" PROVE Goal
    <3> DEFINE grown == Parser_add_node(Top.rule, nodes[got].start, nodes[got].end, 1)
               pool  == [grown EXCEPT ![Len(grown)].kids = <<got>>]
    <3>1. CASE Rebuilds(Top.rule, nodes[got].start, 1)
      <4>1. /\ PoolOK(pool) /\ Extends(pool) /\ Len(grown) = Len(nodes) + 1
            /\ Len(pool) = Len(nodes) + 1 /\ pool[Len(pool)].end = nodes[got].end
            /\ pool[Len(pool)].start = nodes[got].start /\ pool[Len(pool)].kids = <<got>>
            /\ pool[Len(pool)].rule = Top.rule /\ pool[Len(pool)].builtFor = Top.rule
            /\ SameLabels(pool)
        BY <1>1, <2>1, <3>1, WrapInNode
      <4>2. Leave(Top.rule, Top.start, Len(grown), pool, cur, Below)
        BY <2>5, <3>1 DEF WrapNode
      <4> HIDE DEF pool, grown
      <4>3. KeepsEnds(pool) => cur = pool[Len(pool)].end + 1
        BY <2>12, <4>1
      <4>4. Result(Top.rule, Len(pool), pool, cur)
        BY <1>1, <1>3, <4>1, <4>3 DEF Result, Full
      <4>5. Made(Len(pool), pool, cur)
        BY <1>1, <1>9, <2>5, <4>1 DEF Made, Wraps, got, action
      <4> QED BY <1>5, <4>1, <4>2, <4>4, <4>5
    <3>2. CASE ~Rebuilds(Top.rule, nodes[got].start, 1)
      BY <1>1, <1>2, <1>9, <2>5, <3>2 DEF WrapNode, ResumeCrash, Breaks, got
    <3> QED BY <3>1, <3>2
  <2>6. CASE action = "default" /\ BuildDefault(got)
    <3>1. \/ LeaveWith(got) /\ nodes[got].rule = NotRule
          \/ WrapNode(got)
          \/ Relabel(got, Top.rule)
      BY <2>6 DEF BuildDefault
    <3> QED BY <1>1, <2>3, <2>4, <2>5, <2>6, <3>1
  <2>7. CASE action = "skip" /\ Relabel(got, NotRule)
    BY <2>3, <2>7
  <2>8. CASE action = "simplify" /\ Simplify(got)
    <3>1. CASE Len(nodes[got].kids) = 1
      <4> DEFINE kid == nodes[got].kids[1]
      <4>1. LeaveWith(kid)
        BY <2>8, <3>1 DEF Simplify
      <4>2. kid \in 0 .. Len(nodes)
        BY <1>1, <2>1, <2>2, <3>1
      <4>3. KeepsEnds(nodes) => cur = nodes[kid].end + 1
        BY <1>1, <1>4, <1>9, <2>1, <2>8, <3>1 DEF OneChild
      <4>4. Made(kid, nodes, cur)
        BY <1>1, <1>9, <2>8, <3>1 DEF Made, got, action
      <4> HIDE DEF kid
      <4> QED BY <1>6, <4>1, <4>2, <4>3, <4>4
    <3>2. CASE Len(nodes[got].kids) # 1
      <4>1. Relabel(got, Top.rule)
        BY <2>8, <3>2 DEF Simplify
      <4> QED BY <1>1, <2>3, <2>8, <4>1
    <3> QED BY <3>1, <3>2
  <2>9. CASE action = "pass" /\ LeaveWith(got)
    BY <2>4, <2>9
  <2>10. CASE action = "inner" /\ LeaveWith(nodes[got].kids[2])
    <3>1. Type(ret.rule) = "sequence" /\ Len(grammar[ret.rule].deps) \in Nat /\ Len(grammar[ret.rule].deps) >= 2
      <4>1. RuleAssumption(grammar, Top.rule) /\ Top.rule \in Rules
        BY <1>1, Tables
      <4>2. grammar[Top.rule].action = "inner" /\ grammar[Top.rule].type = "production"
        BY <1>1, <2>10 DEF action, Type
      <4>3. ret.rule \in Rules /\ Type(ret.rule) = "sequence" /\ Len(grammar[ret.rule].deps) >= 2
        BY <1>2, <4>1, <4>2 DEF RuleAssumption, Type, Rules
      <4>4. RuleAssumption(grammar, ret.rule)
        BY <4>3, Tables
      <4>5. Len(grammar[ret.rule].deps) \in Nat
        BY <4>3, <4>4 DEF RuleAssumption, Type
      <4> QED BY <4>3, <4>5
    <3>2. Len(nodes[got].kids) >= 2
      BY <1>1, <2>1, <3>1 DEF Full, Real, NoNode, got
    <3>3. Len(nodes[got].kids) \in Nat
      BY <2>2, LenProperties DEF NodeRec
    <3>4. nodes[got].kids[2] \in 0 .. Len(nodes)
      BY <1>1, <2>1, <2>2, <3>2, <3>3
    <3>5. Made(nodes[got].kids[2], nodes, cur)
      BY <1>1, <2>10 DEF Made, action
    <3> QED BY <1>4, <1>6, <2>10, <3>4, <3>5
  <2>11. CASE action = "reject" /\ LeaveFail
    BY <1>7, <2>11
  <2> QED BY <1>9, <2>6, <2>7, <2>8, <2>9, <2>10, <2>11 DEF ProductionResume, got, action
<1> QED BY <1>8, <1>9

\* Whatever the rule, a step is of one of these kinds.
LEMMA NextShape ==
    ASSUME Typed, Next
    PROVE  Shape
BY EnterShape, ResumeShape, BuildShape DEF Next, Shape

-----------------------------------------------------------------------------
(* Typed is an invariant *)

\* The step leaves grammar and input alone.
SameGrammar == grammar' = grammar /\ input' = input

\* Then everything that is about them alone stays.
LEMMA SameTables ==
    ASSUME SameGrammar
    PROVE  /\ Rules' = Rules /\ Tokens' = Tokens /\ Positions' = Positions
           /\ NodeRec' = NodeRec /\ FrameRec' = FrameRec
           /\ \A r, n : Called(r, n)' = Called(r, n)
           /\ \A pool : PoolOK(pool)' <=> PoolOK(pool)
           /\ \A r, n, pool : Full(r, n, pool)' <=> Full(r, n, pool)
           /\ \A pool : KeepsEnds(pool)' <=> KeepsEnds(pool)
<1>1. Rules' = Rules /\ Tokens' = Tokens /\ Positions' = Positions /\ input' = input
  BY DEF SameGrammar, Rules, Tokens, Positions, token_tail
<1>2. NodeRec' = NodeRec
  BY <1>1 DEF NodeRec
<1>3. FrameRec' = FrameRec
  BY <1>1 DEF FrameRec
<1>4. \A r, n : Called(r, n)' = Called(r, n)
  BY DEF SameGrammar, Called, Type
<1>5. \A pool : PoolOK(pool)' <=> PoolOK(pool)
  BY <1>2 DEF PoolOK
<1>6. \A r, n, pool : Full(r, n, pool)' <=> Full(r, n, pool)
  BY DEF SameGrammar, Full, Type
<1>7. \A pool : KeepsEnds(pool)' <=> KeepsEnds(pool)
  BY DEF SameGrammar, KeepsEnds, OneChild
<1> QED BY <1>1, <1>2, <1>3, <1>4, <1>5, <1>6, <1>7

\* A frame stays well formed in a pool that has grown.
LEMMA SameFrame ==
    ASSUME SameGrammar, Len(nodes) \in Nat, Len(nodes') \in Nat, Len(nodes) <= Len(nodes'),
           NEW f \in FrameRec, FrameOK(f)
    PROVE  FrameOK(f)'
<1>1. f.delim \in Nat
  BY DEF FrameRec
<1>2. f.delim <= Len(nodes')
  BY <1>1 DEF FrameOK
<1> QED BY <1>2 DEF SameGrammar, FrameOK, Type

\* The stack `s` is the lower part of the stack.
LowerPart(s) ==
    /\ s \in Seq(FrameRec)
    /\ Len(s) <= Len(stack)
    /\ \A p \in 1 .. Len(s) : s[p] = stack[p]

\* The stack and the stack below the running frame are such lower parts.
LEMMA Lower ==
    ASSUME Typed
    PROVE  /\ LowerPart(stack)
           /\ stack # << >> => LowerPart(Below)
<1>1. stack \in Seq(FrameRec) /\ Len(stack) \in Nat
  BY LenProperties DEF Typed
<1> QED BY <1>1, StackTop DEF LowerPart

\* Rule_check returns from check_rule_: the result is stored and handed on.
LEMMA LeaveTyped ==
    ASSUME Typed, SameGrammar, mode \in {"call", "ret"}, NEW r \in Rules, NEW t \in Tokens,
           NEW n, NEW pool, NEW next, NEW rest,
           Result(r, n, pool, next), LowerPart(rest),
           Len(rest) # 0 => r = Called(rest[Len(rest)].rule, rest[Len(rest)].n),
           Leave(r, t, n, pool, next, rest), evals' \in Nat
    PROVE  Typed'
<1>1. /\ PoolOK(pool) /\ n \in 0 .. Len(pool) /\ next \in Positions /\ Full(r, n, pool)
      /\ Len(nodes) <= Len(pool) /\ Len(nodes) \in Nat /\ Len(pool) \in Nat
      /\ \A i \in 1 .. Len(nodes) : pool[i].kids = nodes[i].kids
  BY LenProperties DEF Result, Extends, PoolOK, Typed
<1>2. nodes' = pool /\ stack' = rest /\ mode' = "ret" /\ ret' = [rule |-> r, tok |-> t, node |-> n]
      /\ callee' = callee /\ cur' = (IF n = Fail THEN t ELSE next)
  BY DEF Leave
<1>3. Rules' = Rules /\ Tokens' = Tokens /\ Positions' = Positions /\ FrameRec' = FrameRec
      /\ Tokens \subseteq Positions
  BY SameTables, Tables
<1>4. grammar' \in Grammars /\ input' \in Inputs
  BY DEF SameGrammar, Typed
<1>5. PoolOK(nodes)'
  BY <1>1, <1>2, SameTables
<1>6. /\ memo' \in [Rules -> [Tokens -> NoNode .. Len(pool)]]
      /\ \A q \in Rules, u \in Tokens : memo'[q][u] # memo[q][u] => q = r /\ memo'[q][u] = n
  <2>1. memo \in [Rules -> [Tokens -> NoNode .. Len(pool)]] /\ n \in NoNode .. Len(pool)
    BY <1>1 DEF Typed, NoNode
  <2>2. memo' = memo \/ memo' = [memo EXCEPT ![r][t] = n]
    BY DEF Leave, Parser_cache_check
  <2>3. CASE memo' = memo
    BY <2>1, <2>3
  <2>4. CASE memo' = [memo EXCEPT ![r][t] = n]
    <3> DEFINE row == [memo[r] EXCEPT ![t] = n]
               S == NoNode .. Len(pool)
    <3>1. row \in [Tokens -> S] /\ \A u \in Tokens : row[u] = IF u = t THEN n ELSE memo[r][u]
      BY <2>1
    <3>2. memo' = [memo EXCEPT ![r] = row]
      BY <2>4
    <3> HIDE DEF row, S
    <3>3. memo' \in [Rules -> [Tokens -> S]]
      BY <2>1, <3>1, <3>2 DEF S
    <3>4. \A q \in Rules : memo'[q] = IF q = r THEN row ELSE memo[q]
      BY <2>1, <3>2
    <3> QED BY <3>1, <3>3, <3>4 DEF S
  <2> QED BY <2>2, <2>3, <2>4
<1>7. \A q \in Rules, u \in Tokens : Full(q, memo'[q][u], pool)
  <2>1. ASSUME NEW q \in Rules, NEW u \in Tokens, memo'[q][u] = memo[q][u]
        PROVE  Full(q, memo'[q][u], pool)
    <3>1. memo[q][u] \in NoNode .. Len(nodes) /\ Full(q, memo[q][u], nodes)
      BY DEF Typed
    <3>2. Real(memo[q][u]) => memo[q][u] \in 1 .. Len(nodes)
      BY <1>1, <3>1 DEF Real, Fail, NoNode
    <3> QED BY <1>1, <2>1, <3>1, <3>2 DEF Full
  <2> QED BY <1>1, <1>6, <2>1
<1>8. \A p \in 1 .. Len(rest) : rest[p] \in FrameRec /\ FrameOK(rest[p])'
  <2>1. ASSUME NEW p \in 1 .. Len(rest) PROVE rest[p] \in FrameRec /\ FrameOK(rest[p])
    <3>1. Len(stack) \in Nat /\ Len(rest) \in Nat /\ Len(rest) <= Len(stack) /\ rest[p] = stack[p]
      BY LenProperties DEF Typed, LowerPart
    <3>2. p \in 1 .. Len(stack)
      BY <3>1
    <3> QED BY <3>1, <3>2, ElementOfSeq DEF Typed
  <2>2. Len(nodes') \in Nat /\ Len(nodes) <= Len(nodes')
    BY <1>1, <1>2
  <2> QED BY <1>1, <2>1, <2>2, SameFrame
<1>9. cur' \in Positions
  BY <1>1, <1>2, <1>3
<1>10. /\ ret' \in [rule : Rules, tok : Positions, node : 0 .. Len(pool)]
       /\ Full(ret'.rule, ret'.node, pool)
       /\ KeepsEnds(pool) /\ ret'.node # Fail => cur' = pool[ret'.node].end + 1
  BY <1>1, <1>2, <1>3 DEF Result
<1>11. failed' \in [rule : Rules \cup {NotRule}, tok : Positions]
  BY <1>3 DEF Leave, Parser_fail, Typed
<1>12. ASSUME NEW p \in 1 .. Len(rest)
       PROVE  (IF p < Len(rest) THEN rest[p + 1].rule ELSE r) = Called(rest[p].rule, rest[p].n)
  <2>1. Len(stack) \in Nat /\ Len(rest) \in Nat /\ Len(rest) <= Len(stack)
    BY LenProperties DEF Typed, LowerPart
  <2>2. CASE p < Len(rest)
    <3>1. p < Len(stack) /\ p \in 1 .. Len(stack) /\ p + 1 \in 1 .. Len(rest)
      BY <2>1, <2>2
    <3>2. stack[p + 1].rule = Called(stack[p].rule, stack[p].n)
      BY <3>1 DEF Typed, CalledBy
    <3> QED BY <2>2, <3>1, <3>2 DEF LowerPart
  <2>3. CASE p = Len(rest)
    BY <2>1, <2>3
  <2> QED BY <2>1, <2>2, <2>3
<1>13. \A p \in 1 .. Len(rest) : CalledBy(p)' = Called(rest[p].rule, rest[p].n)'
  BY <1>2, <1>12, SameTables DEF CalledBy
<1>14. rest \in Seq(FrameRec)
  BY DEF LowerPart
<1>15. callee' \in Rules
  BY <1>2 DEF Typed
<1>16. mode' = "ret" => /\ ret' \in [rule : Rules, tok : Positions, node : 0 .. Len(nodes')]
                        /\ Full(ret.rule, ret.node, nodes)'
                        /\ (KeepsEnds(nodes) /\ Ok => cur = nodes[ret.node].end + 1)'
  BY <1>2, <1>10, SameTables DEF Ok, SameGrammar
<1>17. \A q \in Rules, u \in Tokens : Full(q, memo[q][u], nodes)'
  BY <1>2, <1>7, SameTables
<1>18. \A p \in 1 .. Len(stack') : FrameOK(stack[p])'
  BY <1>2, <1>8
<1>19. \A p \in 1 .. Len(stack') : CalledBy(p)' = Called(stack[p].rule, stack[p].n)'
  BY <1>2, <1>13
<1>20. mode' \in {"call", "ret", "done", "crash"}
  BY <1>2
<1> QED BY <1>2, <1>3, <1>4, <1>5, <1>6, <1>9, <1>11, <1>14, <1>15, <1>16, <1>17, <1>18, <1>19, <1>20
        DEF Typed

\* A frame is pushed and its subrule called.
LEMMA CallTyped ==
    ASSUME Typed, SameGrammar, mode \in {"call", "ret"}, NEW f \in FrameRec, FrameOK(f), NEW below,
           LowerPart(below),
           Len(below) # 0 => f.rule = Called(below[Len(below)].rule, below[Len(below)].n),
           cur \in Positions, CallFrom(f, below, Called(f.rule, f.n)), evals' \in Nat,
           Called(f.rule, f.n) \in Rules
    PROVE  Typed'
<1>1. stack' = Append(below, f) /\ mode' = "call" /\ callee' = Called(f.rule, f.n)
      /\ UNCHANGED <<cur, nodes, memo, failed, ret>>
  BY DEF CallFrom
<1>2. /\ stack' \in Seq(FrameRec) /\ Len(below) \in Nat /\ Len(stack') = Len(below) + 1
      /\ \A p \in 1 .. Len(below) : stack'[p] = stack[p]
      /\ stack'[Len(below) + 1] = f
      /\ Len(stack) \in Nat /\ Len(below) <= Len(stack)
  BY <1>1, Push, LenProperties DEF LowerPart, Typed
<1>3. \A p \in 1 .. Len(stack') : stack'[p] \in FrameRec /\ FrameOK(stack'[p])
  <2>1. ASSUME NEW p \in 1 .. Len(below) PROVE stack'[p] \in FrameRec /\ FrameOK(stack'[p])
    <3>1. p \in 1 .. Len(stack)
      BY <1>2
    <3> QED BY <1>2, <3>1, ElementOfSeq DEF Typed
  <2> QED BY <1>2, <2>1
<1>4. \A p \in 1 .. Len(stack') : FrameOK(stack[p])'
  <2>1. Len(nodes) \in Nat /\ Len(nodes') \in Nat /\ Len(nodes) <= Len(nodes')
    BY <1>1, LenProperties DEF Typed, PoolOK
  <2> QED BY <1>3, <2>1, SameFrame
<1>5. ASSUME NEW p \in 1 .. Len(stack')
      PROVE  (IF p < Len(stack') THEN stack'[p + 1].rule ELSE callee') = Called(stack'[p].rule, stack'[p].n)
  <2>1. CASE p < Len(below)
    <3>1. p < Len(stack) /\ p \in 1 .. Len(stack) /\ p + 1 \in 1 .. Len(below) /\ p \in 1 .. Len(below)
          /\ p < Len(stack')
      BY <1>2, <2>1
    <3>2. stack[p + 1].rule = Called(stack[p].rule, stack[p].n)
      BY <3>1 DEF Typed, CalledBy
    <3> QED BY <1>2, <3>1, <3>2
  <2>2. CASE p = Len(below)
    <3>1. p \in 1 .. Len(below) /\ p < Len(stack') /\ stack'[p + 1] = f /\ Len(below) # 0
      BY <1>2, <2>2
    <3>2. stack'[p] = below[p]
      BY <1>2, <3>1 DEF LowerPart
    <3> QED BY <2>2, <3>1, <3>2
  <2>3. CASE p = Len(stack')
    BY <1>1, <1>2, <2>3
  <2> QED BY <1>2, <2>1, <2>2, <2>3
<1>6. \A p \in 1 .. Len(stack') : CalledBy(p)' = Called(stack[p].rule, stack[p].n)'
  BY <1>1, <1>5, SameTables DEF CalledBy
<1>7. Rules' = Rules /\ Tokens' = Tokens /\ Positions' = Positions /\ FrameRec' = FrameRec
  BY SameTables
<1>8. PoolOK(nodes)' /\ (\A q \in Rules, u \in Tokens : Full(q, memo[q][u], nodes)')
  BY <1>1, SameTables DEF Typed
<1>9. grammar' \in Grammars /\ input' \in Inputs /\ memo' \in [Rules -> [Tokens -> NoNode .. Len(nodes')]]
      /\ cur' \in Positions /\ failed' \in [rule : Rules \cup {NotRule}, tok : Positions]
  BY <1>1 DEF SameGrammar, Typed
<1>10. mode' \in {"call", "ret", "done", "crash"} /\ mode' # "ret" /\ callee' \in Rules
  BY <1>1
<1> QED BY <1>2, <1>4, <1>6, <1>7, <1>8, <1>9, <1>10 DEF Typed

\* Nothing is added: a cached result is returned, or the parse stops.
LEMMA IdleTyped ==
    ASSUME Typed, SameGrammar, UNCHANGED <<nodes, memo, failed, stack, callee, evals>>,
           cur' \in Positions, mode' \in {"ret", "done", "crash"},
           mode' = "ret" =>
             /\ mode = "call"
             /\ ret' \in [rule : {callee}, tok : Positions, node : 0 .. Len(nodes)]
             /\ Full(callee, ret'.node, nodes)
             /\ KeepsEnds(nodes) /\ ret'.node # Fail => cur' = nodes[ret'.node].end + 1
    PROVE  Typed'
<1>1. Rules' = Rules /\ Tokens' = Tokens /\ Positions' = Positions /\ FrameRec' = FrameRec
  BY SameTables
<1>2. /\ grammar' \in Grammars /\ input' \in Inputs /\ stack' \in Seq(FrameRec) /\ evals' \in Nat
      /\ memo' \in [Rules -> [Tokens -> NoNode .. Len(nodes')]] /\ callee' \in Rules
      /\ failed' \in [rule : Rules \cup {NotRule}, tok : Positions]
      /\ mode' \in {"call", "ret", "done", "crash"}
  BY DEF SameGrammar, Typed
<1>3. PoolOK(nodes)' /\ \A q \in Rules, u \in Tokens : Full(q, memo[q][u], nodes)'
  BY SameTables DEF Typed
<1>4. \A p \in 1 .. Len(stack') : FrameOK(stack[p])'
  <2>1. Len(nodes) \in Nat /\ Len(nodes') \in Nat /\ Len(nodes) <= Len(nodes')
    BY LenProperties DEF Typed, PoolOK
  <2>2. \A p \in 1 .. Len(stack) : stack[p] \in FrameRec /\ FrameOK(stack[p])
    BY ElementOfSeq DEF Typed
  <2> QED BY <2>1, <2>2, SameFrame
<1>5. mode' = "ret" => /\ ret' \in [rule : Rules, tok : Positions, node : 0 .. Len(nodes')]
                       /\ Full(ret.rule, ret.node, nodes)'
                       /\ (KeepsEnds(nodes) /\ Ok => cur = nodes[ret.node].end + 1)'
  <2>1. callee \in Rules
    BY DEF Typed
  <2> QED BY <2>1, SameTables DEF Ok, SameGrammar
<1>6. ASSUME mode' \in {"call", "ret"}, NEW p \in 1 .. Len(stack')
      PROVE  CalledBy(p)' = Called(stack[p].rule, stack[p].n)'
  <2>1. mode = "call" /\ mode' = "ret" /\ ret'.rule = callee
    BY <1>6
  <2>2. CalledBy(p) = Called(stack[p].rule, stack[p].n) /\ CalledBy(p)' = CalledBy(p)
    BY <1>6, <2>1 DEF Typed, CalledBy
  <2> QED BY <2>2, SameTables
<1> QED BY <1>1, <1>2, <1>3, <1>4, <1>5, <1>6 DEF Typed

\* Rule_check answers from the cache.
LEMMA AnsweredTyped ==
    ASSUME Typed, Answered
    PROVE  Typed'
<1> DEFINE n == IF cur = Null THEN Fail ELSE CachedResult
<1>0. SameGrammar /\ mode = "call" /\ (CachedResult # NoNode \/ cur = Null)
      /\ UNCHANGED <<nodes, memo, failed, stack, callee, evals>>
  BY DEF Answered, SameGrammar
<1>1. cur \in Positions /\ cur # Null /\ callee \in Rules /\ Len(nodes) \in Nat
      /\ \A m \in 1 .. Len(nodes) : nodes[m].end \in Null .. Len(input)
  <2>1. \A m \in 1 .. Len(nodes) : nodes[m] \in NodeRec
    BY ElementOfSeq DEF Typed, PoolOK
  <2>2. cur \in Positions /\ callee \in Rules /\ Len(nodes) \in Nat
    BY LenProperties DEF Typed, PoolOK
  <2> QED BY <2>1, <2>2, Tables DEF NodeRec, Null
<1>2. n \in 0 .. Len(nodes) /\ Full(callee, n, nodes)
  <2>1. CASE cur \in Tokens
    <3>1. CachedResult = memo[callee][cur]
      BY <2>1, Tables DEF CachedResult, Parser_check_cache, token_head
    <3>2. memo[callee][cur] \in NoNode .. Len(nodes) /\ Full(callee, memo[callee][cur], nodes)
      BY <1>1, <2>1 DEF Typed
    <3> QED BY <1>0, <1>1, <3>1, <3>2 DEF NoNode, Fail
  <2>2. CASE cur \notin Tokens
    <3>1. cur = token_head
      BY <1>1, <2>2, Tables DEF token_head
    <3>2. Parser_check_cache(callee, cur) = Fail
      BY <2>2, <3>1 DEF Parser_check_cache
    <3>3. n = Fail
      BY <1>1, <3>2 DEF CachedResult
    <3> QED BY <1>1, <3>3 DEF Fail, Full, Real
  <2> QED BY <2>1, <2>2
<1> HIDE DEF n
<1>3. CASE mode' = "crash" /\ UNCHANGED <<cur, ret>>
  BY <1>0, <1>1, <1>3, IdleTyped
<1>4. CASE /\ cur' = IF n = Fail THEN cur ELSE nodes[n].end + 1
           /\ mode' = "ret"
           /\ ret' = [rule |-> callee, tok |-> cur, node |-> n]
           /\ ~(Real(n) /\ nodes[n].end = Null)
  <2>1. cur' \in Positions
    <3>1. CASE n = Fail
      BY <1>1, <1>4, <3>1
    <3>2. CASE n # Fail
      <4>1. n \in 1 .. Len(nodes)
        BY <1>1, <1>2, <3>2 DEF Fail
      <4>2. nodes[n].end # Null /\ nodes[n].end \in Null .. Len(input)
        BY <1>1, <1>4, <4>1 DEF Real, Fail, NoNode
      <4>3. nodes[n].end + 1 \in 1 .. Len(input) + 1
        <5> DEFINE e == nodes[n].end
        <5>1. e # Null /\ e \in Null .. Len(input) /\ Len(input) \in Nat
          BY <4>2, Tables
        <5> HIDE DEF e
        <5> QED BY <5>1 DEF Null, e
      <4> QED BY <1>4, <3>2, <4>3, Tables
    <3> QED BY <3>1, <3>2
  <2> QED BY <1>0, <1>1, <1>2, <1>4, <2>1, IdleTyped
<1> QED BY <1>3, <1>4 DEF Answered, n

\* Calling a rule of the table: the callee is in the table.
LEMMA CalledInTable ==
    ASSUME Typed, NEW r \in Rules, NEW n \in Nat, Type(r) # "literal",
           Type(r) \in {"sequence", "choice"} => n < Len(grammar[r].deps)
    PROVE  Called(r, n) \in Rules
<1>1. RuleAssumption(grammar, r)
  BY Tables
<1>2. CASE Type(r) \in {"sequence", "choice"}
  <2>1. n + 1 \in 1 .. Len(grammar[r].deps)
    BY <1>1, <1>2 DEF RuleAssumption, Type
  <2> QED BY <1>1, <1>2, <2>1 DEF RuleAssumption, Type, Called, Rules
<1>3. CASE Type(r) \notin {"sequence", "choice"}
  BY <1>1, <1>3 DEF RuleAssumption, Type, Called, Rules
<1> QED BY <1>2, <1>3

\* Every action of the engine keeps Typed.
LEMMA StepTyped ==
    ASSUME Typed, Next
    PROVE  Typed'
<1>1. /\ cur \in Positions /\ callee \in Rules /\ evals \in Nat /\ evals + 1 \in Nat
      /\ stack \in Seq(FrameRec) /\ Len(stack) \in Nat /\ (Len(stack) # 0 => stack # << >>)
  BY LenProperties, EmptySeq DEF Typed
<1>2. CASE Answered
  BY <1>2, AnsweredTyped
<1>3. CASE Finish
  BY <1>1, <1>3, IdleTyped DEF Finish, SameGrammar
<1>4. ASSUME NEW n, NEW pool, NEW next, EnterLeave(n, pool, next)
      PROVE  Typed'
  <2>1. /\ SameGrammar /\ mode = "call" /\ cur \in Tokens /\ evals' \in Nat
        /\ Result(callee, n, pool, next) /\ Leave(callee, cur, n, pool, next, stack)
    BY <1>1, <1>4 DEF EnterLeave, Entered, SameGrammar
  <2>2. Len(stack) # 0 => callee = Called(stack[Len(stack)].rule, stack[Len(stack)].n)
    BY <1>1, <2>1, StackTop DEF CalledBy, Top
  <2> QED BY <1>1, <2>1, <2>2, Lower, LeaveTyped
<1>5. CASE EnterCall
  <2> DEFINE f == Frame(callee, cur)
  <2>1. /\ SameGrammar /\ mode = "call" /\ cur \in Tokens /\ evals' \in Nat
        /\ Type(callee) # "literal" /\ CallFrom(f, stack, Called(callee, 0))
        /\ Type(callee) \in {"sequence", "choice"} => Len(grammar[callee].deps) > 0
    BY <1>1, <1>5 DEF EnterCall, Entered, SameGrammar
  <2>2. f \in FrameRec /\ f.rule = callee /\ f.n = 0 /\ f.delim = 0
    BY <1>1, <2>1 DEF Frame, FrameRec, Fail
  <2> HIDE DEF f
  <2>3. FrameOK(f)
    <3>1. nodes \in Seq(NodeRec)
      BY <1>1 DEF Typed, PoolOK
    <3>2. Len(nodes) \in Nat /\ SizeMod \in Nat \ {0}
      BY <1>1, <3>1, Tables, LenProperties
    <3> QED BY <2>1, <2>2, <3>2 DEF FrameOK
  <2>4. Called(f.rule, f.n) \in Rules
    BY <1>1, <2>1, <2>2, CalledInTable
  <2>5. Len(stack) # 0 => callee = Called(stack[Len(stack)].rule, stack[Len(stack)].n)
    BY <1>1, <2>1, StackTop DEF CalledBy, Top
  <2> QED BY <1>1, <2>1, <2>2, <2>3, <2>4, <2>5, Lower, CallTyped
<1>6. ASSUME Resumed
      PROVE  /\ SameGrammar /\ mode = "ret" /\ evals' \in Nat /\ LowerPart(Below)
             /\ Top \in FrameRec /\ FrameOK(Top) /\ Top.rule \in Rules /\ Top.start \in Tokens
             /\ Len(Below) # 0 => Top.rule = Called(Below[Len(Below)].rule, Below[Len(Below)].n)
  <2>1. mode = "ret" /\ stack # << >> /\ SameGrammar /\ evals' \in Nat
    BY <1>1, <1>6 DEF Resumed, SameGrammar
  <2>2. /\ Len(stack) \in Nat \ {0} /\ Top \in FrameRec /\ FrameOK(Top)
        /\ Len(Below) = Len(stack) - 1
        /\ \A p \in 1 .. Len(stack) - 1 : Below[p] = stack[p]
    BY <2>1, StackTop
  <2>3. ASSUME Len(Below) # 0 PROVE Top.rule = Called(Below[Len(Below)].rule, Below[Len(Below)].n)
    <3> DEFINE p == Len(stack) - 1
    <3>1. p \in 1 .. Len(stack) /\ p < Len(stack) /\ p \in 1 .. Len(stack) - 1 /\ p + 1 = Len(stack)
      BY <2>2, <2>3
    <3>2. CalledBy(p) = Called(stack[p].rule, stack[p].n) /\ CalledBy(p) = stack[p + 1].rule
      BY <2>1, <3>1 DEF Typed, CalledBy
    <3> QED BY <2>2, <3>1, <3>2 DEF Top
  <2> QED BY <2>1, <2>2, <2>3, Lower DEF FrameRec
<1>7. ASSUME NEW n, NEW pool, NEW next, ResumeLeave(n, pool, next)
      PROVE  Typed'
  BY <1>6, <1>7, LeaveTyped DEF ResumeLeave
<1>8. ASSUME NEW f, ResumeCall(f)
      PROVE  Typed'
  <2>1. Resumed /\ FrameOK(f) /\ f \in FrameRec /\ f.rule = Top.rule
        /\ CallFrom(f, Below, Called(f.rule, f.n))
    BY <1>8 DEF ResumeCall
  <2>2. Called(f.rule, f.n) \in Rules
    BY <2>1, CalledInTable DEF FrameOK, FrameRec
  <2> QED BY <1>1, <1>6, <2>1, <2>2, CallTyped
<1>9. CASE ResumeCrash
  BY <1>1, <1>6, <1>9, IdleTyped DEF ResumeCrash, Resumed, Crash
<1> QED BY <1>2, <1>3, <1>4, <1>5, <1>7, <1>8, <1>9, NextShape DEF Shape

\* Typed holds when a parse starts.
LEMMA InitTyped == Init => Typed
<1> SUFFICES ASSUME Init PROVE Typed
  OBVIOUS
<1>1. /\ Rules = 1 .. Len(grammar) /\ Len(grammar) \in Nat \ {0} /\ Len(input) \in Nat
  BY EngineAssumption DEF Init, Rules
<1>2. Tokens = 1 .. Len(input) + 1 /\ Positions = 0 .. Len(input) + 1
  BY DEF Tokens, Positions, token_tail
<1>3. nodes = << >> /\ Len(nodes) = 0 /\ PoolOK(nodes)
  BY EmptySeq DEF Init, PoolOK
<1>4. memo \in [Rules -> [Tokens -> NoNode .. Len(nodes)]]
  BY <1>3 DEF Init, NoNode
<1>5. \A r \in Rules, t \in Tokens : Full(r, memo[r][t], nodes)
  BY DEF Init, Full, Real
<1>6. stack = << >> /\ Len(stack) = 0 /\ stack \in Seq(FrameRec)
  BY EmptySeq DEF Init
<1>7. failed \in [rule : Rules \cup {NotRule}, tok : Positions]
  BY <1>1, <1>2 DEF Init, token_head
<1>8. cur \in Positions /\ callee \in Rules /\ mode = "call" /\ evals \in Nat
  BY <1>1, <1>2 DEF Init, Root
<1> QED BY <1>3, <1>4, <1>5, <1>6, <1>7, <1>8 DEF Typed, Init

\* Typed is inductive.
LEMMA TypedInductive == Typed /\ [Next]_vars => Typed'
<1> SUFFICES ASSUME Typed, [Next]_vars PROVE Typed'
  OBVIOUS
<1>1. CASE Next
  BY <1>1, StepTyped
<1>2. CASE UNCHANGED vars
  <2>1. SameGrammar
    BY <1>2 DEF vars, SameGrammar
  <2>2. \A p : CalledBy(p)' = CalledBy(p)
    BY <1>2 DEF vars, CalledBy
  <2>3. \A p : FrameOK(stack[p])' <=> FrameOK(stack[p])
    BY <1>2 DEF vars, FrameOK, Type
  <2> QED BY <1>2, <2>1, <2>2, <2>3, SameTables DEF vars, Typed, Ok
<1> QED BY <1>1, <1>2

\* Typed is stronger than the type invariant the runs check.
LEMMA TypedImpliesTypeOK == Typed => TypeOK
<1> SUFFICES ASSUME Typed PROVE TypeOK
  OBVIOUS
<1>1. nodes \in Seq(NodeRec) /\ DOMAIN nodes = 1 .. Len(nodes)
  BY LenProperties DEF Typed, PoolOK
<1>2. ASSUME NEW i \in DOMAIN nodes
      PROVE  /\ nodes[i].rule \in Rules \cup {NotRule}
             /\ nodes[i].start \in token_head .. token_tail
             /\ nodes[i].end \in Null .. Len(input)
             /\ \A k \in DOMAIN nodes[i].kids : nodes[i].kids[k] \in 1 .. i
  <2>1. nodes[i] \in NodeRec /\ i \in 1 .. Len(nodes)
    BY <1>1, ElementOfSeq
  <2>2. DOMAIN nodes[i].kids = 1 .. Len(nodes[i].kids)
    BY <2>1, LenProperties DEF NodeRec
  <2> QED BY <2>1, <2>2 DEF NodeRec, Typed, PoolOK, Positions, token_head
<1>3. \A r \in Rules, t \in Tokens : memo[r][t] \in NoNode .. Len(nodes)
  BY DEF Typed
<1>4. cur \in Null .. token_tail /\ failed.tok \in token_head .. token_tail
  BY Tables DEF Typed, Positions, Null, token_head
<1> QED BY <1>2, <1>3, <1>4 DEF Typed, TypeOK

\* Every variable keeps its range, for every grammar create_ functions can build and
\* every input, whatever the cache loses.
THEOREM TypeCorrect == Spec => []TypeOK
<1>1. Spec => []Typed
  BY InitTyped, TypedInductive, PTL DEF Spec
<1> QED BY <1>1, TypedImpliesTypeOK, PTL

-----------------------------------------------------------------------------
(* Packrat parsing: what the cache says of the frames on the stack *)

\* The counters of repeats and lists have room for two children per token.
Roomy(w) == 2 * (Len(w) + 2) <= SizeMod

\* Replaying a cached result leaves the cursor where the evaluation left it: no build
\* action returns an inner child, and a node that simplify_rule hands on ends and starts
\* like the node it replaces.
Replayable ==
    \A g \in Grammars :
       /\ ~ReturnsInner(g)
       /\ ~Simplifies(g) \/ (AnchoredNodes(g) /\ \A w \in Inputs : Roomy(w))

\* What a rule returns is in the cache.
Kept == mode = "ret" => ret.node = Parser_check_cache(ret.rule, ret.tok)

\* What the cache answers to the next call of a frame of rule r in state x.
Answer(r, x) == Parser_check_cache(Called(r, x.n), x.tok)

\* One step of check_rule_'s loop, replayed from the cache.
Steps(r, x, y) ==
    /\ Called(r, x.n) \in Rules
    /\ Answer(r, x) # NoNode
    /\ Goes(r, x.n, Answer(r, x))
    /\ y = [tok |-> Moved(r, x.tok, Answer(r, x)), n |-> After(r, x.n)]

\* The first m steps of check_rule_ of rule r from token s, as the cache has them.
Trace(w, m, r, s) ==
    /\ w[0] = [tok |-> s, n |-> 0]
    /\ \A i \in 0 .. m - 1 : Steps(r, w[i], w[i + 1])

\* Replaying what the cache has leads frame f to where it calls at tok; a list that
\* waits for an element holds the delimiter it was last answered with.
Reaches(f, tok) ==
    \E m \in Nat : \E w :
        /\ Trace(w, m, f.rule, f.start)
        /\ w[m] = [tok |-> tok, n |-> f.n]
        /\ (Type(f.rule) = "list" /\ m # 0 /\ f.n % 2 = 0) => f.delim = Answer(f.rule, w[m - 1])

\* The token that frame p of the stack has called its subrule at.
CalledAt(p) ==
    IF p < Len(stack) THEN stack[p + 1].start ELSE IF mode = "call" THEN cur ELSE ret.tok

\* The result of frame f is not known yet.
Unanswered(f) ==
    /\ memo[f.rule][f.start] = NoNode
    /\ Type(f.rule) \in {"pos", "production"} \/ f.start # token_tail

\* Every frame is unanswered and is where the replay of the cache leads it.
Running ==
    /\ \A p \in 1 .. Len(stack) : /\ Unanswered(stack[p])
                                  /\ Reaches(stack[p], CalledAt(p))
    /\ mode = "ret" => /\ ret.node = Parser_check_cache(ret.rule, ret.tok)
                       /\ ret.node = Fail => cur = ret.tok

\* The inductive invariant of the two properties of a parse that evaluates no rule
\* twice at a token.
Packrat ==
    /\ mode \in {"call", "ret"} => Running
    /\ LinearWork
    /\ FurthestFailure
    /\ failed.rule # NotRule => failed.tok \in Tokens

\* The parse has grown: no node it had has moved, no answer it had has changed.
Grown ==
    /\ Extends(nodes')
    /\ \A r \in Rules, t \in Tokens : memo[r][t] # NoNode => memo'[r][t] = memo[r][t]

\* What was replayed once is replayed for ever.
LEMMA StepsKept ==
    ASSUME Typed, SameGrammar, Grown, NEW r, NEW x, NEW y, Steps(r, x, y)
    PROVE  Steps(r, x, y)' /\ Answer(r, x)' = Answer(r, x)
<1>1. PICK v : v = Answer(r, x)
  OBVIOUS
<1>2. PICK q : q = Called(r, x.n)
  OBVIOUS
<1>3. /\ q \in Rules /\ v # NoNode /\ Goes(r, x.n, v)
      /\ y = [tok |-> Moved(r, x.tok, v), n |-> After(r, x.n)]
      /\ v = Parser_check_cache(q, x.tok)
  BY <1>1, <1>2 DEF Steps, Answer
<1>4. /\ Called(r, x.n)' = q /\ Rules' = Rules /\ Tokens' = Tokens /\ After(r, x.n)' = After(r, x.n)
      /\ Goes(r, x.n, v)' /\ (Type(r) = "choice" <=> Type(r)' = "choice")
  BY <1>2, <1>3, SameTables DEF SameGrammar, After, Goes, Type
<1>5. token_head \notin Tokens
  BY Tables DEF token_head
<1>6. Parser_check_cache(q, x.tok)' = v
  <2>1. CASE x.tok = token_head
    BY <1>3, <1>4, <1>5, <2>1 DEF Parser_check_cache
  <2>2. CASE x.tok # token_head
    <3>1. x.tok \in Tokens /\ v = memo[q][x.tok]
      BY <1>3, <2>2 DEF Parser_check_cache
    <3>2. memo'[q][x.tok] = v
      BY <1>3, <3>1 DEF Grown
    <3> QED BY <1>4, <2>2, <3>1, <3>2 DEF Parser_check_cache
  <2> QED BY <2>1, <2>2
<1>7. Moved(r, x.tok, v)' = Moved(r, x.tok, v)
  <2>1. CASE Type(r) = "choice"
    BY <1>4, <2>1 DEF Moved
  <2>2. CASE Type(r) # "choice"
    <3>1. v # Fail
      BY <1>3, <2>2 DEF Goes
    <3>2. x.tok \in Tokens /\ v = memo[q][x.tok]
      BY <1>3, <3>1 DEF Parser_check_cache
    <3>3. v \in NoNode .. Len(nodes) /\ Len(nodes) \in Nat
      BY <1>3, <3>2, LenProperties DEF Typed, PoolOK
    <3>4. v \in 1 .. Len(nodes)
      BY <1>3, <3>1, <3>3 DEF NoNode, Fail
    <3>5. nodes'[v].end = nodes[v].end
      BY <3>4 DEF Grown, Extends
    <3> QED BY <1>4, <2>2, <3>5 DEF Moved
  <2> QED BY <2>1, <2>2
<1>8. Answer(r, x)' = v
  BY <1>4, <1>6 DEF Answer
<1> QED BY <1>1, <1>3, <1>4, <1>7, <1>8 DEF Steps

\* So a frame stays reachable while the parse grows.
LEMMA ReachesKept ==
    ASSUME Typed, SameGrammar, Grown, NEW f, NEW tok, Reaches(f, tok)
    PROVE  Reaches(f, tok)'
<1>m. PICK m \in Nat : \E w : /\ Trace(w, m, f.rule, f.start)
                              /\ w[m] = [tok |-> tok, n |-> f.n]
                              /\ (Type(f.rule) = "list" /\ m # 0 /\ f.n % 2 = 0)
                                    => f.delim = Answer(f.rule, w[m - 1])
  BY DEF Reaches
<1>1. PICK w : /\ Trace(w, m, f.rule, f.start)
               /\ w[m] = [tok |-> tok, n |-> f.n]
               /\ (Type(f.rule) = "list" /\ m # 0 /\ f.n % 2 = 0)
                     => f.delim = Answer(f.rule, w[m - 1])
  BY <1>m
<1>2. Trace(w, m, f.rule, f.start)'
  BY <1>1, StepsKept DEF Trace
<1>3. ASSUME m # 0 PROVE Answer(f.rule, w[m - 1])' = Answer(f.rule, w[m - 1])
  <2>1. Steps(f.rule, w[m - 1], w[(m - 1) + 1])
    BY <1>1, <1>3 DEF Trace
  <2> QED BY <2>1, StepsKept
<1>4. Type(f.rule)' = Type(f.rule)
  BY DEF SameGrammar, Type
<1> QED BY <1>1, <1>2, <1>3, <1>4 DEF Reaches

\* A frame that has just been entered is reached.
LEMMA ReachesStart == \A f : f.n = 0 => Reaches(f, f.start)
<1> SUFFICES ASSUME NEW f, f.n = 0 PROVE Reaches(f, f.start)
  OBVIOUS
<1> DEFINE w == [i \in {0} |-> [tok |-> f.start, n |-> f.n]]
<1>1. Trace(w, 0, f.rule, f.start) /\ w[0] = [tok |-> f.start, n |-> f.n]
  BY DEF Trace
<1> HIDE DEF w
<1> QED BY <1>1 DEF Reaches

\* A frame that goes on is reached one step further.
LEMMA ReachesOn ==
    ASSUME NEW f, NEW g, NEW x, NEW y, Reaches(f, x.tok), x = [tok |-> x.tok, n |-> f.n],
           Steps(f.rule, x, y), g.rule = f.rule, g.start = f.start, g.n = y.n,
           (Type(g.rule) = "list" /\ g.n % 2 = 0) => g.delim = Answer(f.rule, x)
    PROVE  Reaches(g, y.tok)
<1>m. PICK m \in Nat : \E w : Trace(w, m, f.rule, f.start) /\ w[m] = x
  BY DEF Reaches
<1>1. PICK w : Trace(w, m, f.rule, f.start) /\ w[m] = x
  BY <1>m
<1> DEFINE v == [i \in 0 .. m + 1 |-> IF i = m + 1 THEN y ELSE w[i]]
<1>2. v[0] = w[0] /\ v[m + 1] = y /\ m + 1 \in Nat /\ v[m] = w[m] /\ (m + 1) - 1 = m
  OBVIOUS
<1>3. ASSUME NEW i \in 0 .. (m + 1) - 1 PROVE Steps(f.rule, v[i], v[i + 1])
  <2>1. CASE i = m
    BY <1>1, <1>2, <2>1
  <2>2. CASE i # m
    <3>1. i \in 0 .. m - 1 /\ v[i] = w[i] /\ v[i + 1] = w[i + 1]
      BY <1>3, <2>2
    <3> QED BY <1>1, <3>1 DEF Trace
  <2> QED BY <2>1, <2>2
<1> HIDE DEF v
<1>4. Trace(v, m + 1, g.rule, g.start)
  BY <1>1, <1>2, <1>3 DEF Trace
<1>5. y = [tok |-> y.tok, n |-> y.n]
  BY DEF Steps
<1>6. v[m + 1] = [tok |-> y.tok, n |-> g.n] /\ v[(m + 1) - 1] = x
  BY <1>1, <1>2, <1>5
<1> QED BY <1>2, <1>4, <1>6 DEF Reaches

\* Two traces of a rule from a token agree as far as both go.
LEMMA TracesAgree ==
    ASSUME NEW r, NEW s, NEW w1, NEW m1 \in Nat, NEW w2, NEW m2 \in Nat,
           Trace(w1, m1, r, s), Trace(w2, m2, r, s)
    PROVE  \A i \in Nat : i <= m1 /\ i <= m2 => w1[i] = w2[i]
<1> DEFINE S == {i \in Nat : i <= m1 /\ i <= m2 => w1[i] = w2[i]}
<1>1. 0 \in S
  BY DEF Trace
<1>2. ASSUME NEW i \in Nat, i \in S PROVE i + 1 \in S
  <2> SUFFICES ASSUME i + 1 <= m1, i + 1 <= m2 PROVE w1[i + 1] = w2[i + 1]
    OBVIOUS
  <2>1. i \in 0 .. m1 - 1 /\ i \in 0 .. m2 - 1 /\ w1[i] = w2[i]
    BY <1>2
  <2>2. Steps(r, w1[i], w1[i + 1]) /\ Steps(r, w2[i], w2[i + 1])
    BY <2>1 DEF Trace
  <2> QED BY <2>1, <2>2 DEF Steps
<1>3. \A i \in Nat : i \in S
  <2> HIDE DEF S
  <2> QED BY <1>1, <1>2, InductionOnSet
<1> QED BY <1>3

\* The frame that leaves is the only one for its rule and token: a second one
\* would have been answered, or would have gone on, as the first.
LEMMA OnlyOne ==
    ASSUME Typed, Running, mode = "ret", stack # << >>, ~Goes(Top.rule, Top.n, ret.node),
           NEW p \in 1 .. Len(stack) - 1
    PROVE  ~(stack[p].rule = Top.rule /\ stack[p].start = Top.start)
<1> SUFFICES ASSUME stack[p].rule = Top.rule, stack[p].start = Top.start PROVE FALSE
  OBVIOUS
<1> DEFINE r == Top.rule
           s == Top.start
           high == [tok |-> ret.tok, n |-> Top.n]
           low  == [tok |-> stack[p + 1].start, n |-> stack[p].n]
<1>1. /\ Len(stack) \in Nat \ {0} /\ p \in 1 .. Len(stack) /\ p < Len(stack) /\ p + 1 \in 1 .. Len(stack)
      /\ Len(stack) \in 1 .. Len(stack)
  BY StackTop
<1>2. Called(r, Top.n) = ret.rule /\ Called(r, stack[p].n) = stack[p + 1].rule
  <2>1. CalledBy(p) = Called(stack[p].rule, stack[p].n) /\ CalledBy(p) = stack[p + 1].rule
    BY <1>1 DEF Typed, CalledBy
  <2> QED BY <1>1, <2>1, StackTop DEF CalledBy
<1>3. Answer(r, high) = ret.node /\ ret.node # NoNode
  <2>1. ret.node \in 0 .. Len(nodes)
    BY DEF Typed
  <2> QED BY <1>2, <2>1 DEF Answer, Running, NoNode
<1>4. Answer(r, low) = NoNode
  <2>1. stack[p + 1] \in FrameRec
    BY <1>1, ElementOfSeq DEF Typed
  <2>2. stack[p + 1].start \in Tokens /\ stack[p + 1].start # token_head
    BY <2>1, Tables DEF FrameRec, token_head
  <2>3. memo[stack[p + 1].rule][stack[p + 1].start] = NoNode
    BY <1>1 DEF Running, Unanswered
  <2> QED BY <1>2, <2>2, <2>3 DEF Answer, Parser_check_cache
<1>m1. PICK m1 \in Nat : \E w1 : Trace(w1, m1, r, s) /\ w1[m1] = high
  <2>1. Reaches(Top, CalledAt(Len(stack))) /\ CalledAt(Len(stack)) = ret.tok
    BY <1>1 DEF Running, Top, CalledAt
  <2> QED BY <2>1 DEF Reaches
<1>5. PICK w1 : Trace(w1, m1, r, s) /\ w1[m1] = high
  BY <1>m1
<1>m2. PICK m2 \in Nat : \E w2 : Trace(w2, m2, r, s) /\ w2[m2] = low
  <2>1. Reaches(stack[p], CalledAt(p)) /\ CalledAt(p) = stack[p + 1].start
    BY <1>1 DEF Running, CalledAt
  <2> QED BY <2>1 DEF Reaches
<1>6. PICK w2 : Trace(w2, m2, r, s) /\ w2[m2] = low
  BY <1>m2
<1> HIDE DEF r, s, high, low
<1>7. \A i \in Nat : i <= m1 /\ i <= m2 => w1[i] = w2[i]
  BY <1>5, <1>6, TracesAgree
<1>8. CASE m1 = m2
  BY <1>3, <1>4, <1>5, <1>6, <1>7, <1>8
<1>9. CASE m2 < m1
  <2>1. Steps(r, w1[m2], w1[m2 + 1]) /\ w1[m2] = low
    BY <1>5, <1>6, <1>7, <1>9 DEF Trace
  <2> QED BY <1>4, <2>1 DEF Steps
<1>10. CASE m1 < m2
  <2>1. Steps(r, w2[m1], w2[m1 + 1]) /\ w2[m1] = high
    BY <1>5, <1>6, <1>7, <1>10 DEF Trace
  <2>2. high.n = Top.n
    BY DEF high
  <2> QED BY <1>3, <2>1, <2>2 DEF Steps, r
<1> QED BY <1>8, <1>9, <1>10

\* The entries of the cache.
Cached == {x \in Rules \X Tokens : memo[x[1]][x[2]] # NoNode}

\* There are finitely many.
LEMMA CachedFinite ==
    ASSUME Typed
    PROVE  IsFiniteSet(Cached) /\ Cardinality(Cached) \in Nat
<1>1. IsFiniteSet(Rules) /\ IsFiniteSet(Tokens)
  BY Tables, FS_Interval
<1>2. IsFiniteSet(Rules \X Tokens)
  BY <1>1, FS_Product
<1>3. IsFiniteSet(Cached)
  BY <1>2, FS_Subset DEF Cached
<1> QED BY <1>3, FS_CardinalityType

\* Rule_check leaves its result in the cache, if it is kept.
LEMMA LeaveStores ==
    ASSUME Typed, SameGrammar, Kept', NEW r \in Rules, NEW t \in Tokens,
           NEW n, NEW pool, NEW next, NEW rest, Leave(r, t, n, pool, next, rest)
    PROVE  memo' = [memo EXCEPT ![r][t] = n]
<1>1. /\ mode' = "ret" /\ ret' = [rule |-> r, tok |-> t, node |-> n]
      /\ memo' = memo \/ memo' = [memo EXCEPT ![r][t] = n]
  BY DEF Leave, Parser_cache_check
<1>2. memo \in [Rules -> [Tokens -> NoNode .. Len(nodes)]]
  BY DEF Typed
<1>3. n = memo'[r][t]
  <2>1. t \in Tokens' /\ t # token_head
    BY SameTables, Tables DEF token_head
  <2>2. ret'.node = Parser_check_cache(ret.rule, ret.tok)'
    BY <1>1 DEF Kept
  <2> QED BY <1>1, <2>1, <2>2, Zenon DEF Parser_check_cache
<1>4. CASE memo' = memo
  <2>1. memo = [memo EXCEPT ![r][t] = memo[r][t]]
    BY <1>2
  <2> QED BY <1>3, <1>4, <2>1
<1> QED BY <1>1, <1>4

\* A result is stored where there was none, and nothing else changes.
LEMMA StoreResult ==
    ASSUME Typed, SameGrammar, Kept', NEW r \in Rules, NEW t \in Tokens, memo[r][t] = NoNode,
           NEW n, NEW pool, NEW next, NEW rest, Result(r, n, pool, next),
           Leave(r, t, n, pool, next, rest)
    PROVE  /\ Grown
           /\ \A q \in Rules, u \in Tokens :
                 memo'[q][u] = IF q = r /\ u = t THEN n ELSE memo[q][u]
           /\ n # NoNode
           /\ Cardinality(Cached)' = Cardinality(Cached) + 1
<1>1. memo' = [memo EXCEPT ![r][t] = n]
  BY LeaveStores
<1>2. \A q \in Rules, u \in Tokens : memo'[q][u] = IF q = r /\ u = t THEN n ELSE memo[q][u]
  <2>1. memo \in [Rules -> [Tokens -> NoNode .. Len(nodes)]]
    BY DEF Typed
  <2> QED BY <1>1, <2>1
<1>3. n # NoNode
  <2>1. n \in 0 .. Len(pool) /\ Len(pool) \in Nat
    BY LenProperties DEF Result, PoolOK
  <2> QED BY <2>1 DEF NoNode
<1>4. Grown
  BY <1>2 DEF Grown, Result, Leave
<1>5. Cached' = Cached \cup {<<r, t>>} /\ <<r, t>> \notin Cached
  <2>1. Rules' = Rules /\ Tokens' = Tokens
    BY SameTables
  <2>2. Cached' = {x \in Rules \X Tokens : memo'[x[1]][x[2]] # NoNode}
    BY <2>1 DEF Cached
  <2> QED BY <1>2, <1>3, <2>2 DEF Cached
<1>6. Cardinality(Cached') = Cardinality(Cached) + 1
  BY <1>5, CachedFinite, FS_AddElement
<1> QED BY <1>2, <1>3, <1>4, <1>6

\* Rule_check leaves a rule of which it is the only activation.
LEMMA LeavePackrat ==
    ASSUME Typed, Packrat, SameGrammar, Kept', mode \in {"call", "ret"},
           NEW r \in Rules, NEW t \in Tokens, memo[r][t] = NoNode,
           NEW n, NEW pool, NEW next, NEW rest, Result(r, n, pool, next), LowerPart(rest),
           \A p \in 1 .. Len(rest) : ~(rest[p].rule = r /\ rest[p].start = t),
           \A p \in 1 .. Len(rest) : CalledAt(p) = IF p < Len(rest) THEN rest[p + 1].start ELSE t,
           evals' + Len(stack) = evals + Len(rest) + 1, evals' \in Nat,
           Leave(r, t, n, pool, next, rest)
    PROVE  Packrat'
<1>1. /\ Grown /\ n # NoNode
      /\ \A q \in Rules, u \in Tokens :
            memo'[q][u] = IF q = r /\ u = t THEN n ELSE memo[q][u]
      /\ Cardinality(Cached)' = Cardinality(Cached) + 1
  BY StoreResult
<1>2. /\ nodes' = pool /\ stack' = rest /\ mode' = "ret" /\ ret' = [rule |-> r, tok |-> t, node |-> n]
      /\ cur' = IF n = Fail THEN t ELSE next
      /\ failed' = IF n = Fail THEN Parser_fail(r, t) ELSE failed
  BY DEF Leave
<1>3. Rules' = Rules /\ Tokens' = Tokens /\ token_tail' = token_tail /\ grammar' = grammar
  BY SameTables DEF SameGrammar, token_tail
<1>4. /\ Len(stack) \in Nat /\ Len(rest) \in Nat /\ Len(rest) <= Len(stack)
      /\ \A p \in 1 .. Len(rest) : p \in 1 .. Len(stack) /\ rest[p] = stack[p] /\ rest[p] \in FrameRec
  BY LenProperties, ElementOfSeq DEF Typed, LowerPart
<1>5. Running
  BY DEF Packrat
<1>6. ASSUME NEW p \in 1 .. Len(rest)
      PROVE  Unanswered(rest[p])'
  <2>1. Unanswered(rest[p]) /\ rest[p].rule \in Rules /\ rest[p].start \in Tokens
    BY <1>4, <1>5 DEF Running, FrameRec
  <2> QED BY <1>1, <1>3, <2>1 DEF Unanswered, Type
<1>7. ASSUME NEW p \in 1 .. Len(rest)
      PROVE  Reaches(rest[p], CalledAt(p))'
  <2>1. Reaches(rest[p], CalledAt(p))
    BY <1>4, <1>5 DEF Running
  <2>2. CalledAt(p)' = CalledAt(p)
    BY <1>2 DEF CalledAt
  <2>3. PICK at : at = CalledAt(p)
    OBVIOUS
  <2>4. Reaches(rest[p], at)'
    BY <1>1, <2>1, <2>3, ReachesKept
  <2> QED BY <2>2, <2>3, <2>4
<1>8. ret'.node = Parser_check_cache(ret.rule, ret.tok)' /\ (ret'.node = Fail => cur' = ret'.tok)
  <2>1. token_head \notin Tokens
    BY Tables DEF token_head
  <2> QED BY <1>1, <1>2, <1>3, <2>1 DEF Parser_check_cache
<1>9. Running'
  BY <1>2, <1>6, <1>7, <1>8 DEF Running
<1>10. LinearWork'
  <2>1. evals <= Len(stack) + Cardinality(Cached) /\ evals \in Nat
    BY DEF Packrat, LinearWork, Cached, Typed
  <2>2. evals' <= Len(rest) + (Cardinality(Cached) + 1)
    BY <1>4, <2>1, CachedFinite
  <2> QED BY <1>1, <1>2, <2>2 DEF LinearWork, Cached
<1>11. FurthestFailure' /\ (failed'.rule # NotRule => failed'.tok \in Tokens')
  <2>1. /\ Tokens = 1 .. Len(input) + 1 /\ Len(input) \in Nat
        /\ failed.tok \in 0 .. Len(input) + 1
        /\ failed.rule \in Rules \cup {NotRule}
    BY Tables DEF Typed
  <2>2. /\ \A q \in Rules, u \in Tokens : memo[q][u] = Fail => u <= failed.tok
        /\ failed.rule # NotRule => memo[failed.rule][failed.tok] = Fail /\ failed.tok \in Tokens
    BY DEF Packrat, FurthestFailure
  <2>3. failed.rule # NotRule => memo'[failed.rule][failed.tok] = Fail
    <3>1. Fail # NoNode
      BY DEF Fail, NoNode
    <3> QED BY <1>1, <2>1, <2>2, <3>1
  <2>4. CASE failed' = failed /\ (n = Fail => t <= failed.tok)
    <3>1. \A q \in Rules, u \in Tokens : memo'[q][u] = Fail => u <= failed.tok
      BY <1>1, <2>2, <2>4
    <3> QED BY <1>3, <2>2, <2>3, <2>4, <3>1 DEF FurthestFailure
  <2>5. CASE n = Fail /\ failed' = [rule |-> r, tok |-> t] /\ failed.tok <= t
    <3>1. \A q \in Rules, u \in Tokens : memo'[q][u] = Fail => u <= t
      BY <1>1, <2>1, <2>2, <2>5
    <3>2. memo'[r][t] = Fail
      BY <1>1, <2>5
    <3> QED BY <1>3, <2>5, <3>1, <3>2 DEF FurthestFailure
  <2>6. n = Fail => \/ failed' = failed /\ t <= failed.tok
                    \/ failed' = [rule |-> r, tok |-> t] /\ failed.tok <= t
    BY <1>2, <2>1 DEF Parser_fail, Id, token_head
  <2> QED BY <1>2, <2>4, <2>5, <2>6
<1> QED BY <1>9, <1>10, <1>11 DEF Packrat

\* A rule goes on to call another.
LEMMA CallPackrat ==
    ASSUME Typed, Packrat, SameGrammar, mode \in {"call", "ret"}, NEW f \in FrameRec, NEW below,
           LowerPart(below), Unanswered(f), cur \in Positions,
           Reaches(f, cur),
           \A p \in 1 .. Len(below) : CalledAt(p) = IF p < Len(below) THEN below[p + 1].start ELSE f.start,
           evals' + Len(stack) = evals + Len(below) + 1, evals' \in Nat, NEW r, CallFrom(f, below, r)
    PROVE  Packrat'
<1>1. stack' = Append(below, f) /\ mode' = "call"
      /\ UNCHANGED <<cur, nodes, memo, failed, ret>>
  BY DEF CallFrom
<1>2. Rules' = Rules /\ Tokens' = Tokens /\ token_tail' = token_tail /\ grammar' = grammar
  BY SameTables DEF SameGrammar, token_tail
<1>3. /\ Len(stack) \in Nat /\ Len(below) \in Nat /\ Len(below) <= Len(stack)
      /\ \A p \in 1 .. Len(below) : p \in 1 .. Len(stack) /\ below[p] = stack[p]
  BY LenProperties DEF Typed, LowerPart
<1>4. /\ Len(stack') = Len(below) + 1
      /\ \A p \in 1 .. Len(below) : stack'[p] = below[p]
      /\ stack'[Len(below) + 1] = f
  BY <1>1, Push DEF LowerPart
<1>5. Grown
  <2>1. Len(nodes) \in Nat
    BY LenProperties DEF Typed, PoolOK
  <2> QED BY <1>1, <2>1 DEF Grown, Extends
<1>6. Running
  BY DEF Packrat
<1>7. \A p \in 1 .. Len(stack') : Unanswered(stack[p])'
  <2>1. ASSUME NEW p \in 1 .. Len(stack') PROVE Unanswered(stack'[p])
    <3>1. CASE p = Len(below) + 1
      BY <1>4, <3>1
    <3>2. CASE p # Len(below) + 1
      <4>1. p \in 1 .. Len(below)
        BY <1>3, <1>4, <3>2
      <4> QED BY <1>3, <1>4, <1>6, <4>1 DEF Running
    <3> QED BY <3>1, <3>2
  <2> QED BY <1>1, <1>2, <2>1 DEF Unanswered, Type
<1>8. \A p \in 1 .. Len(stack') : Reaches(stack[p], CalledAt(p))'
  <2>1. ASSUME NEW p \in 1 .. Len(stack'), NEW at, at = CalledAt(p)'
        PROVE  Reaches(stack'[p], at)
    <3>1. CASE p = Len(below) + 1
      <4>1. at = cur
        BY <1>1, <1>3, <1>4, <2>1, <3>1 DEF CalledAt
      <4> QED BY <1>4, <3>1, <4>1
    <3>2. CASE p # Len(below) + 1
      <4>1. p \in 1 .. Len(below) /\ p < Len(stack') /\ p \in 1 .. Len(stack) /\ stack'[p] = stack[p]
        BY <1>3, <1>4, <3>2
      <4>2. at = CalledAt(p)
        <5>1. at = stack'[p + 1].start
          BY <2>1, <4>1 DEF CalledAt
        <5>2. CASE p < Len(below)
          <6>1. p + 1 \in 1 .. Len(below)
            BY <1>3, <5>2
          <6> QED BY <1>4, <4>1, <5>1, <5>2, <6>1
        <5>3. CASE p = Len(below)
          BY <1>4, <4>1, <5>1, <5>3
        <5> QED BY <1>3, <4>1, <5>2, <5>3
      <4> QED BY <1>6, <4>1, <4>2 DEF Running
    <3> QED BY <3>1, <3>2
  <2>2. ASSUME NEW p \in 1 .. Len(stack')
        PROVE  Reaches(stack[p], CalledAt(p))'
    <3>1. PICK at, g : at = CalledAt(p)' /\ g = stack'[p]
      OBVIOUS
    <3>2. Reaches(g, at)
      BY <2>1, <3>1
    <3>3. Reaches(g, at)'
      BY <1>5, <3>2, ReachesKept
    <3> QED BY <3>1, <3>3
  <2> QED BY <2>2
<1>9. Running'
  BY <1>1, <1>7, <1>8 DEF Running
<1>10. LinearWork'
  <2>1. evals <= Len(stack) + Cardinality(Cached) /\ evals \in Nat
    BY DEF Packrat, LinearWork, Cached, Typed
  <2>2. Cached' = Cached
    BY <1>1, <1>2 DEF Cached
  <2>3. evals' <= (Len(below) + 1) + Cardinality(Cached)
    BY <1>3, <2>1, CachedFinite
  <2> QED BY <1>4, <2>2, <2>3 DEF LinearWork, Cached
<1>11. FurthestFailure' /\ (failed'.rule # NotRule => failed'.tok \in Tokens')
  BY <1>1, <1>2 DEF Packrat, FurthestFailure
<1> QED BY <1>9, <1>10, <1>11 DEF Packrat

\* Every action of the engine keeps Packrat.
LEMMA StepPackrat ==
    ASSUME Typed, Packrat, Kept', KeepsEnds(nodes), Next
    PROVE  Packrat'
<1>0. /\ cur \in Positions /\ callee \in Rules /\ evals \in Nat /\ evals + 1 \in Nat
      /\ stack \in Seq(FrameRec) /\ Len(stack) \in Nat /\ (Len(stack) # 0 <=> stack # << >>)
      /\ KeepsEnds(nodes)
  BY LenProperties, EmptySeq DEF Typed
<1>1. CASE Answered
  <2>1. /\ SameGrammar /\ mode = "call" /\ Running
        /\ UNCHANGED <<nodes, memo, failed, stack, callee, evals>>
    BY <1>1 DEF Answered, SameGrammar, Packrat
  <2>2. Grown
    BY <2>1, LenProperties DEF Grown, Extends, Typed, PoolOK
  <2>3. LinearWork' /\ FurthestFailure' /\ (failed'.rule # NotRule => failed'.tok \in Tokens')
    <3>1. Rules' = Rules /\ Tokens' = Tokens
      BY <2>1, SameTables
    <3> QED BY <2>1, <3>1 DEF Packrat, LinearWork, FurthestFailure
  <2>4. CASE mode' = "ret"
    <3>1. /\ cur # Null /\ ret'.tok = cur /\ ret'.node = CachedResult /\ ret'.rule = callee
          /\ (ret'.node = Fail => cur' = cur)
      BY <1>0, <1>1, <2>4, Tables DEF Answered, Null
    <3>2. ASSUME NEW p \in 1 .. Len(stack)
          PROVE  /\ Unanswered(stack[p])'
                 /\ Reaches(stack[p], CalledAt(p))'
      <4>1. Unanswered(stack[p]) /\ Reaches(stack[p], CalledAt(p))
        BY <2>1 DEF Running
      <4>2. CalledAt(p)' = CalledAt(p)
        BY <2>1, <2>4, <3>1 DEF CalledAt
      <4>3. PICK at, g : at = CalledAt(p) /\ g = stack[p]
        OBVIOUS
      <4>4. Reaches(g, at)'
        BY <2>1, <2>2, <4>1, <4>3, ReachesKept
      <4>5. stack'[p] = g
        BY <2>1, <4>3
      <4> QED BY <2>1, <4>1, <4>2, <4>3, <4>4, <4>5, SameTables DEF Unanswered, SameGrammar, Type, token_tail
    <3>3. ret'.node = Parser_check_cache(ret.rule, ret.tok)'
      BY <2>1, <3>1, SameTables DEF CachedResult, Parser_check_cache
    <3> QED BY <2>1, <2>3, <3>1, <3>2, <3>3 DEF Packrat, Running
  <2>5. CASE mode' # "ret"
    <3>1. mode' = "crash"
      BY <1>1, <2>5 DEF Answered
    <3> QED BY <2>3, <3>1 DEF Packrat
  <2> QED BY <2>4, <2>5
<1>2. ASSUME UNCHANGED <<grammar, input, nodes, memo, failed, stack, evals>>, mode' \notin {"call", "ret"}
      PROVE  Packrat'
  BY <1>2 DEF Packrat, LinearWork, FurthestFailure, Rules, Tokens, token_tail
<1>3. CASE Finish
  BY <1>2, <1>3 DEF Finish
<1>4. ASSUME NEW n, NEW pool, NEW next, EnterLeave(n, pool, next)
      PROVE  Packrat'
  <2>1. /\ SameGrammar /\ mode = "call" /\ cur \in Tokens /\ evals' = evals + 1 /\ Running
        /\ memo[callee][cur] = NoNode /\ Result(callee, n, pool, next)
        /\ Leave(callee, cur, n, pool, next, stack)
        /\ Type(callee) = "literal" \/ (cur = token_tail /\ Type(callee) \notin {"pos", "production"})
    BY <1>4 DEF EnterLeave, Entered, SameGrammar, Packrat
  <2>2. ASSUME NEW p \in 1 .. Len(stack), stack[p].rule = callee, stack[p].start = cur PROVE FALSE
    <3>1. Unanswered(stack[p]) /\ FrameOK(stack[p])
      BY <2>1 DEF Running, Typed
    <3> QED BY <2>1, <2>2, <3>1 DEF Unanswered, FrameOK
  <2>3. \A p \in 1 .. Len(stack) : CalledAt(p) = IF p < Len(stack) THEN stack[p + 1].start ELSE cur
    BY <2>1 DEF CalledAt
  <2>4. evals' + Len(stack) = evals + Len(stack) + 1 /\ evals' \in Nat /\ mode \in {"call", "ret"}
    BY <1>0, <2>1
  <2>5. LowerPart(stack)
    BY Lower
  <2>6. \A p \in 1 .. Len(stack) : ~(stack[p].rule = callee /\ stack[p].start = cur)
    BY <2>2
  <2> QED BY <1>0, <2>1, <2>3, <2>4, <2>5, <2>6, LeavePackrat
<1>5. CASE EnterCall
  <2> DEFINE f == Frame(callee, cur)
  <2>1. /\ SameGrammar /\ mode = "call" /\ cur \in Tokens /\ evals' = evals + 1
        /\ memo[callee][cur] = NoNode /\ CallFrom(f, stack, Called(callee, 0))
        /\ Type(callee) \in {"pos", "production"} \/ cur # token_tail
    BY <1>5 DEF EnterCall, Entered, SameGrammar
  <2>2. f \in FrameRec /\ f.rule = callee /\ f.start = cur /\ f.n = 0
    BY <1>0, <2>1 DEF Frame, FrameRec, Fail
  <2> HIDE DEF f
  <2>3. Unanswered(f)
    BY <2>1, <2>2 DEF Unanswered
  <2>4. Reaches(f, cur)
    BY <2>2, ReachesStart
  <2>5. \A p \in 1 .. Len(stack) : CalledAt(p) = IF p < Len(stack) THEN stack[p + 1].start ELSE f.start
    BY <2>1, <2>2 DEF CalledAt
  <2>6. evals' + Len(stack) = evals + Len(stack) + 1 /\ evals' \in Nat /\ mode \in {"call", "ret"}
    BY <1>0, <2>1
  <2>7. LowerPart(stack)
    BY Lower
  <2> QED BY <1>0, <2>1, <2>2, <2>3, <2>4, <2>5, <2>6, <2>7, CallPackrat
<1>6. ASSUME Resumed
      PROVE  /\ SameGrammar /\ mode = "ret" /\ evals' = evals /\ LowerPart(Below) /\ Running
             /\ Len(Below) = Len(stack) - 1 /\ Len(stack) \in Nat \ {0} /\ stack # << >>
             /\ \A p \in 1 .. Len(Below) : p \in 1 .. Len(stack) - 1 /\ Below[p] = stack[p]
             /\ Top \in FrameRec /\ Top = stack[Len(stack)] /\ Len(stack) \in 1 .. Len(stack)
             /\ Unanswered(Top) /\ Reaches(Top, ret.tok)
             /\ ret.rule = Called(Top.rule, Top.n) /\ ret.rule \in Rules
             /\ \A p \in 1 .. Len(Below) :
                   CalledAt(p) = IF p < Len(Below) THEN Below[p + 1].start ELSE Top.start
             /\ evals' + Len(stack) = evals + Len(Below) + 1 /\ evals' \in Nat
  <2>1. mode = "ret" /\ stack # << >> /\ SameGrammar /\ evals' = evals /\ Running
    BY <1>6 DEF Resumed, SameGrammar, Packrat
  <2>2. /\ Len(stack) \in Nat \ {0} /\ Top \in FrameRec
        /\ Len(Below) = Len(stack) - 1
        /\ \A p \in 1 .. Len(stack) - 1 : Below[p] = stack[p]
        /\ CalledBy(Len(stack)) = Called(Top.rule, Top.n)
    BY <2>1, StackTop
  <2>3. Len(stack) \in 1 .. Len(stack) /\ Top = stack[Len(stack)]
    BY <2>2 DEF Top
  <2>4. Unanswered(Top) /\ Reaches(Top, ret.tok)
    <3>1. CalledAt(Len(stack)) = ret.tok
      BY <2>1, <2>2 DEF CalledAt
    <3> QED BY <2>1, <2>3, <3>1 DEF Running
  <2>5. ret.rule = Called(Top.rule, Top.n) /\ ret.rule \in Rules
    BY <2>1, <2>2 DEF CalledBy, Typed
  <2>6. ASSUME NEW p \in 1 .. Len(Below)
        PROVE  CalledAt(p) = IF p < Len(Below) THEN Below[p + 1].start ELSE Top.start
    <3>1. p < Len(stack) /\ CalledAt(p) = stack[p + 1].start
      BY <2>2 DEF CalledAt
    <3>2. CASE p < Len(Below)
      <4>1. p + 1 \in 1 .. Len(stack) - 1
        BY <2>2, <3>2
      <4> QED BY <2>2, <3>1, <3>2, <4>1
    <3>3. CASE ~(p < Len(Below))
      <4>1. p + 1 = Len(stack)
        BY <2>2, <3>3
      <4> QED BY <2>3, <3>1, <3>3, <4>1
    <3> QED BY <3>2, <3>3
  <2>7. LowerPart(Below)
    BY <2>1, Lower
  <2>8. evals' + Len(stack) = evals + Len(Below) + 1 /\ evals' \in Nat
    BY <1>0, <2>1, <2>2
  <2> QED BY <2>1, <2>2, <2>3, <2>4, <2>5, <2>6, <2>7, <2>8
<1>7. ASSUME NEW n, NEW pool, NEW next, ResumeLeave(n, pool, next)
      PROVE  Packrat'
  <2>1. /\ Resumed /\ ~Goes(Top.rule, Top.n, ret.node) /\ Result(Top.rule, n, pool, next)
        /\ Leave(Top.rule, Top.start, n, pool, next, Below)
    BY <1>7 DEF ResumeLeave
  <2>2. Top.rule \in Rules /\ Top.start \in Tokens /\ memo[Top.rule][Top.start] = NoNode
    BY <1>6, <2>1 DEF FrameRec, Unanswered
  <2>3. \A p \in 1 .. Len(Below) : ~(Below[p].rule = Top.rule /\ Below[p].start = Top.start)
    BY <1>6, <2>1, OnlyOne
  <2> QED BY <1>6, <2>1, <2>2, <2>3, LeavePackrat
<1>8. ASSUME NEW f, ResumeCall(f)
      PROVE  Packrat'
  <2>1. /\ Resumed /\ Goes(Top.rule, Top.n, ret.node) /\ f \in FrameRec /\ f.rule = Top.rule
        /\ Type(Top.rule) = "list" /\ Top.n % 2 = 1 => f.delim = ret.node
        /\ f.start = Top.start /\ f.n = After(Top.rule, Top.n)
        /\ CallFrom(f, Below, Called(f.rule, f.n))
    BY <1>8 DEF ResumeCall
  <2>2. Unanswered(f)
    BY <1>6, <2>1 DEF Unanswered
  <2> DEFINE x == [tok |-> ret.tok, n |-> Top.n]
             y == [tok |-> cur, n |-> f.n]
  <2>3. Answer(Top.rule, x) = ret.node /\ ret.node \in 0 .. Len(nodes)
    BY <1>6, <2>1 DEF Answer, Running, Typed
  <2>4. Moved(Top.rule, ret.tok, ret.node) = cur
    <3>1. CASE Type(Top.rule) = "choice"
      BY <1>6, <2>1, <3>1 DEF Moved, Goes, Running
    <3>2. CASE Type(Top.rule) # "choice"
      <4>1. ret.node # Fail
        BY <2>1, <3>2 DEF Goes
      <4> QED BY <1>0, <1>6, <2>1, <3>2, <4>1 DEF Moved, Typed, Ok
    <3> QED BY <3>1, <3>2
  <2>5. Steps(Top.rule, x, y)
    BY <1>6, <2>1, <2>3, <2>4 DEF Steps, NoNode
  <2>6. Type(f.rule) = "list" /\ f.n % 2 = 0 => f.delim = Answer(Top.rule, x)
    <3> SUFFICES ASSUME Type(Top.rule) = "list", f.n % 2 = 0 PROVE Top.n % 2 = 1
      BY <2>1, <2>3
    <3>1. f.n = SizeT(Top.n + 1) /\ Top.n \in Nat /\ Top.n < SizeMod
      BY <1>6, <2>1, StackTop DEF After, FrameRec, FrameOK
    <3>2. SizeMod \in Nat \ {0} /\ SizeMod % 2 = 0
      BY Tables
    <3>3. f.n = IF Top.n + 1 = SizeMod THEN 0 ELSE Top.n + 1
      BY <3>1, <3>2, NextCount
    <3> QED BY <3>1, <3>2, <3>3
  <2>7. Reaches(f, cur)
    <3>1. /\ Reaches(Top, x.tok) /\ x = [tok |-> x.tok, n |-> Top.n] /\ f.n = y.n /\ y.tok = cur
          /\ f.rule = Top.rule /\ f.start = Top.start
      BY <1>6, <2>1
    <3> HIDE DEF x, y
    <3>2. Reaches(f, y.tok)
      BY <2>5, <2>6, <3>1, ReachesOn
    <3> QED BY <3>1, <3>2
  <2>8. \A p \in 1 .. Len(Below) : CalledAt(p) = IF p < Len(Below) THEN Below[p + 1].start ELSE f.start
    BY <1>6, <2>1
  <2> HIDE DEF x, y
  <2> QED BY <1>0, <1>6, <2>1, <2>2, <2>7, <2>8, CallPackrat
<1>9. CASE ResumeCrash
  BY <1>2, <1>9 DEF ResumeCrash, Resumed, Crash
<1> QED BY <1>1, <1>3, <1>4, <1>5, <1>7, <1>8, <1>9, NextShape DEF Shape

\* Packrat holds when a parse starts.
LEMMA InitPackrat == Init => Packrat
<1> SUFFICES ASSUME Init PROVE Packrat
  OBVIOUS
<1>1. stack = << >> /\ Len(stack) = 0 /\ mode = "call"
  BY EmptySeq DEF Init
<1>2. Running
  BY <1>1 DEF Running
<1>3. \A r \in Rules, t \in Tokens : memo[r][t] = NoNode
  BY DEF Init
<1>4. LinearWork
  <2>1. Cached = {} /\ evals = 0
    BY <1>3 DEF Cached, Init
  <2> QED BY <1>1, <2>1, FS_EmptySet DEF LinearWork, Cached
<1>5. FurthestFailure /\ failed.rule = NotRule
  BY <1>3 DEF Init, FurthestFailure, Fail, NoNode
<1> QED BY <1>2, <1>4, <1>5 DEF Packrat

\* Packrat is inductive, given that no node was replaced by one that ends elsewhere.
LEMMA PackratInductive ==
    Typed /\ Packrat /\ KeepsEnds(nodes) /\ [Next /\ Kept']_vars => Packrat'
<1> SUFFICES ASSUME Typed, Packrat, KeepsEnds(nodes), [Next /\ Kept']_vars PROVE Packrat'
  OBVIOUS
<1>1. CASE Next /\ Kept'
  BY <1>1, StepPackrat
<1>2. CASE UNCHANGED vars
  <2>1. \A p : CalledAt(p)' = CalledAt(p)
    BY <1>2 DEF vars, CalledAt
  <2>2. \A r, x, y : Steps(r, x, y)' <=> Steps(r, x, y)
    BY <1>2 DEF vars, Steps, Answer, Called, Goes, Moved, After, Type, Parser_check_cache, Rules,
                Tokens, token_tail
  <2>3. \A f, tok : Reaches(f, tok)' <=> Reaches(f, tok)
    <3>1. \A r, x : Answer(r, x)' = Answer(r, x) /\ Type(r)' = Type(r)
      BY <1>2 DEF vars, Answer, Called, Type, Parser_check_cache, Tokens, token_tail
    <3> QED BY <2>2, <3>1 DEF Reaches, Trace
  <2>4. Running' <=> Running
    BY <1>2, <2>1, <2>3 DEF vars, Running, Unanswered, Type, Parser_check_cache, Tokens, token_tail
  <2> QED BY <1>2, <2>4 DEF vars, Packrat, LinearWork, FurthestFailure, Rules, Tokens, token_tail
<1> QED BY <1>1, <1>2

-----------------------------------------------------------------------------
(* The tree: the children of a node are found again and tile it *)

\* The parses in which Parser_add_node finds every child again: lookahead nodes, which
\* start a token early, are not handed to a production or a delimiter, no action returns
\* an inner child, and size_t counts two children per token.
Rebuildable == AnchoredNodes(grammar) /\ ~ReturnsInner(grammar) /\ Roomy(input)

\* The rules whose node may start a token early.
Loose == CHOOSE S \in SUBSET Rules : LookaheadsIn(grammar, S)

\* The children of a node end in input order, the last one where the node
\* ends; an only child starts with it, if a build action may return it.
Tiles(node, pool) ==
    LET kids == node.kids
        last == Len(kids)
    IN  /\ last # 0 => /\ pool[kids[last]].end = node.end
                       /\ \A k \in 1 .. last - 1 : pool[kids[k]].end <= pool[kids[k + 1]].end
        /\ (Simplifies(grammar) /\ last = 1) => pool[kids[1]].start = node.start

\* Every node has an end and tiles.
PoolTiled(pool) == \A i \in 1 .. Len(pool) : pool[i].end # Null /\ Tiles(pool[i], pool)

\* A node found for rule r at token t.
Placed(r, t, node) == node.end >= t - 1 /\ (r \notin Loose => node.start = t)

\* The inductive invariant of the two properties of the tree: every node tiles, every
\* cached node lies at the token it is cached for, the cursor is on the list.
Tiled ==
    /\ PoolTiled(nodes)
    /\ \A r \in Rules, t \in Tokens : Real(memo[r][t]) => Placed(r, t, nodes[memo[r][t]])
    /\ mode \in {"call", "ret"} => cur \in Tokens
    /\ mode = "ret" => ret.tok \in Tokens
    /\ mode # "crash"

\* Loose is one of the sets AnchoredNodes says there are.
LEMMA LooseRules ==
    ASSUME Rebuildable
    PROVE  LookaheadsIn(grammar, Loose)
BY DEF Rebuildable, AnchoredNodes, Loose, Rules

\* A node that tiles ends where its only child ends.
LEMMA PoolKeepsEnds ==
    ASSUME Rebuildable, NEW pool, PoolTiled(pool)
    PROVE  KeepsEnds(pool)
BY DEF Rebuildable, KeepsEnds, OneChild, PoolTiled, Tiles

\* The node the cache has for a rule at a token.
LEMMA FoundNode ==
    ASSUME Typed, Tiled, NEW r \in Rules, NEW t \in Tokens, Real(memo[r][t])
    PROVE  LET n == memo[r][t] IN
           /\ n \in 1 .. Len(nodes) /\ Len(nodes) \in Nat
           /\ nodes[n].end \in 0 .. Len(input)
           /\ nodes[n].end + 1 \in Tokens
           /\ nodes[n].end + 1 >= t
           /\ r \notin Loose => nodes[n].start = t
<1> DEFINE n == memo[r][t]
<1>1. n \in NoNode .. Len(nodes) /\ Len(nodes) \in Nat
  BY LenProperties DEF Typed, PoolOK
<1>2. n \in 1 .. Len(nodes)
  BY <1>1 DEF Real, Fail, NoNode
<1>3. nodes[n] \in NodeRec /\ nodes[n].end # Null
  BY <1>2, ElementOfSeq DEF Typed, PoolOK, Tiled, PoolTiled
<1>4. nodes[n].end \in 0 .. Len(input)
  <2>1. nodes[n].end \in Null .. Len(input) /\ nodes[n].end # Null
    BY <1>3 DEF NodeRec
  <2> HIDE DEF n
  <2> QED BY <2>1, Tables DEF Null
<1>5. nodes[n].end >= t - 1 /\ (r \notin Loose => nodes[n].start = t)
  BY DEF Tiled, Placed
<1>6. nodes[n].end + 1 \in Tokens /\ nodes[n].end + 1 >= t /\ t \in Int
  <2> DEFINE e == nodes[n].end
  <2>1. /\ Tokens = 1 .. Len(input) + 1 /\ Len(input) \in Nat
        /\ t \in Tokens /\ e \in 0 .. Len(input) /\ e >= t - 1
    BY <1>4, <1>5, Tables
  <2> HIDE DEF e
  <2>2. e + 1 \in Tokens /\ e + 1 >= t /\ t \in Int
    BY <2>1
  <2> QED BY <2>2 DEF e
<1> QED BY <1>1, <1>2, <1>4, <1>5, <1>6

\* u is where the walk over the children of a node of rule r stands after each.
Linked(r, u, k) ==
    \A i \in 1 .. k :
        /\ ChildRule(r, i) \in Rules
        /\ u[i - 1] \in Tokens
        /\ Real(memo[ChildRule(r, i)][u[i - 1]])
        /\ u[i] = nodes[memo[ChildRule(r, i)][u[i - 1]]].end + 1

\* The walk of Parser_add_node goes where the children are linked.
LEMMA WalkFollows ==
    ASSUME Typed, Tiled, NEW r, NEW k \in Nat, NEW u, Linked(r, u, k)
    PROVE  LET walk == ChildWalk(r, u[0], k) IN
           /\ \A i \in 0 .. k : walk[i].next = u[i]
           /\ \A i \in 1 .. k : walk[i].kid = memo[ChildRule(r, i)][u[i - 1]]
           /\ Rebuilds(r, u[0], k)
<1> DEFINE walk == ChildWalk(r, u[0], k)
           Found(i) == Parser_check_cache(ChildRule(r, i), walk[i - 1].next)
<1>1. /\ walk[0].next = u[0]
      /\ \A i \in 1 .. k : /\ walk[i].kid = Found(i)
                           /\ walk[i].next = IF Real(Found(i)) /\ nodes[Found(i)].end # Null
                                             THEN nodes[Found(i)].end + 1 ELSE Null
  BY WalkDef
<1> HIDE DEF walk
<1>2. ASSUME NEW i \in 1 .. k, walk[i - 1].next = u[i - 1]
      PROVE  /\ walk[i].next = u[i] /\ walk[i].kid = memo[ChildRule(r, i)][u[i - 1]]
             /\ walk[i].next # Null
  <2>1. /\ ChildRule(r, i) \in Rules /\ u[i - 1] \in Tokens /\ Real(memo[ChildRule(r, i)][u[i - 1]])
        /\ u[i] = nodes[memo[ChildRule(r, i)][u[i - 1]]].end + 1
    BY DEF Linked
  <2>2. Found(i) = memo[ChildRule(r, i)][u[i - 1]]
    BY <1>2, <2>1, Tables DEF Parser_check_cache, token_head
  <2>3. nodes[Found(i)].end \in 0 .. Len(input)
    BY <2>1, <2>2, FoundNode
  <2> QED BY <1>1, <2>1, <2>2, <2>3 DEF Null
<1>3. \A i \in Nat : i <= k => walk[i].next = u[i]
  <2> DEFINE S == {i \in Nat : i <= k => walk[i].next = u[i]}
  <2>1. 0 \in S
    BY <1>1
  <2>2. ASSUME NEW i \in Nat, i \in S PROVE i + 1 \in S
    <3> SUFFICES ASSUME i + 1 <= k PROVE walk[i + 1].next = u[i + 1]
      OBVIOUS
    <3>1. i + 1 \in 1 .. k /\ (i + 1) - 1 = i /\ walk[i].next = u[i]
      BY <2>2
    <3> QED BY <1>2, <3>1
  <2>3. \A i \in Nat : i \in S
    <3> HIDE DEF S
    <3> QED BY <2>1, <2>2, InductionOnSet
  <2> QED BY <2>3
<1>4. \A i \in 0 .. k : walk[i].next = u[i]
  BY <1>3
<1>5. \A i \in 1 .. k : walk[i].kid = memo[ChildRule(r, i)][u[i - 1]] /\ walk[i].next # Null
  <2> TAKE i \in 1 .. k
  <2>1. i - 1 \in 0 .. k
    OBVIOUS
  <2> QED BY <1>2, <1>4, <2>1
<1>6. Rebuilds(r, u[0], k)
  <2>1. k = 0 \/ k \in 1 .. k
    OBVIOUS
  <2> QED BY <1>5, <2>1 DEF Rebuilds, walk
<1> QED BY <1>4, <1>5, <1>6 DEF walk

\* One step of a trace: the answer, where it was found and where it ends.
LEMMA StepFinds ==
    ASSUME Typed, Tiled, NEW r \in Rules, Type(r) \in {"sequence", "repeat", "list"}, NEW x, NEW y,
           Steps(r, x, y), x.tok \in Tokens
    PROVE  LET n == memo[Called(r, x.n)][x.tok] IN
           /\ Called(r, x.n) \in Rules
           /\ n = Answer(r, x)
           /\ Real(n)
           /\ y.tok = nodes[n].end + 1 /\ y.tok \in Tokens /\ y.tok >= x.tok
           /\ y.n = After(r, x.n)
<1>1. Called(r, x.n) \in Rules /\ Answer(r, x) # NoNode /\ Answer(r, x) # Fail
  BY DEF Steps, Goes
<1>2. Answer(r, x) = memo[Called(r, x.n)][x.tok] /\ Real(Answer(r, x))
  BY <1>1, Tables DEF Answer, Parser_check_cache, token_head, Real
<1>3. y.tok = nodes[Answer(r, x)].end + 1 /\ y.n = After(r, x.n)
  BY DEF Steps, Moved
<1> QED BY <1>1, <1>2, <1>3, FoundNode

\* A trace only ever moves forward on the list.
LEMMA TraceForward ==
    ASSUME Typed, Tiled, NEW r \in Rules, Type(r) \in {"sequence", "repeat", "list"},
           NEW s \in Tokens, NEW m \in Nat, NEW w, Trace(w, m, r, s)
    PROVE  \A i \in 0 .. m : w[i].tok \in Tokens
<1> DEFINE S == {i \in Nat : i <= m => w[i].tok \in Tokens}
<1>1. 0 \in S
  BY DEF Trace
<1>2. ASSUME NEW i \in Nat, i \in S PROVE i + 1 \in S
  <2> SUFFICES ASSUME i + 1 <= m PROVE w[i + 1].tok \in Tokens
    OBVIOUS
  <2>1. i \in 0 .. m - 1 /\ w[i].tok \in Tokens
    BY <1>2
  <2>2. Steps(r, w[i], w[i + 1])
    BY <2>1 DEF Trace
  <2> QED BY <2>1, <2>2, StepFinds
<1>3. \A i \in Nat : i \in S
  <2> HIDE DEF S
  <2> QED BY <1>1, <1>2, InductionOnSet
<1> QED BY <1>3

\* A trace counts the children: exactly in a sequence and in a repeat that has
\* a maximum, which it stays below, otherwise modulo 2^w.
LEMMA TraceCounts ==
    ASSUME Typed, NEW r \in Rules, Type(r) \in {"sequence", "repeat", "list"},
           NEW s \in Tokens, NEW m \in Nat, NEW w, Trace(w, m, r, s)
    PROVE  /\ \A i \in 0 .. m :
                /\ w[i].n \in Nat
                /\ Type(r) = "list" => w[i].n % 2 = i % 2
                /\ i < SizeMod => w[i].n = i
           /\ Type(r) = "sequence" \/ (Type(r) = "repeat" /\ grammar[r].max # 0) =>
                \A i \in 0 .. m : w[i].n = i
           /\ Type(r) = "repeat" /\ grammar[r].max # 0 => \A i \in 0 .. m : i < grammar[r].max
<1>0. SizeMod \in Nat \ {0} /\ SizeMod % 2 = 0
  BY Tables
<1>1. ASSUME NEW i \in Nat, i + 1 <= m
      PROVE  w[i + 1].n = After(r, w[i].n) /\ Goes(r, w[i].n, Answer(r, w[i])) /\ i \in 0 .. m
  <2>1. i \in 0 .. m - 1
    BY <1>1
  <2>2. Steps(r, w[i], w[i + 1])
    BY <2>1 DEF Trace
  <2> QED BY <1>1, <2>2 DEF Steps
<1>2. w[0].n = 0
  BY DEF Trace
<1>3. ASSUME Type(r) = "sequence" PROVE \A i \in Nat : i <= m => w[i].n = i
  <2> DEFINE S == {i \in Nat : i <= m => w[i].n = i}
  <2>1. 0 \in S
    BY <1>2
  <2>2. ASSUME NEW i \in Nat, i \in S PROVE i + 1 \in S
    BY <1>1, <1>3, <2>2 DEF After
  <2>3. \A i \in Nat : i \in S
    <3> HIDE DEF S
    <3> QED BY <2>1, <2>2, InductionOnSet
  <2> QED BY <2>3
<1>4. ASSUME Type(r) \in {"repeat", "list"}
      PROVE  \A i \in Nat : i <= m => /\ w[i].n \in Nat /\ w[i].n < SizeMod
                                      /\ w[i].n % 2 = i % 2
                                      /\ i < SizeMod => w[i].n = i
  <2> DEFINE S == {i \in Nat : i <= m => /\ w[i].n \in Nat /\ w[i].n < SizeMod
                                         /\ w[i].n % 2 = i % 2
                                         /\ i < SizeMod => w[i].n = i}
  <2>1. 0 \in S
    BY <1>0, <1>2
  <2>2. ASSUME NEW i \in Nat, i \in S PROVE i + 1 \in S
    <3> SUFFICES ASSUME i + 1 <= m
                 PROVE  /\ w[i + 1].n \in Nat /\ w[i + 1].n < SizeMod
                        /\ w[i + 1].n % 2 = (i + 1) % 2
                        /\ i + 1 < SizeMod => w[i + 1].n = i + 1
      OBVIOUS
    <3>1. w[i].n \in Nat /\ w[i].n < SizeMod /\ w[i].n % 2 = i % 2 /\ (i < SizeMod => w[i].n = i)
      BY <2>2
    <3>2. w[i + 1].n = SizeT(w[i].n + 1)
      BY <1>1, <1>4 DEF After
    <3>3. PICK c \in Nat : c = w[i].n
      BY <3>1
    <3>4. w[i + 1].n = IF c + 1 = SizeMod THEN 0 ELSE c + 1
      BY <1>0, <3>1, <3>2, <3>3, NextCount
    <3>5. c < SizeMod /\ c % 2 = i % 2 /\ (i < SizeMod => c = i)
      BY <3>1, <3>3
    <3>6. PICK d : d = w[i + 1].n
      OBVIOUS
    <3>7. d = IF c + 1 = SizeMod THEN 0 ELSE c + 1
      BY <3>4, <3>6
    <3>8. d \in Nat /\ d < SizeMod /\ d % 2 = (i + 1) % 2 /\ (i + 1 < SizeMod => d = i + 1)
      <4>1. (c + 1) % 2 = (i + 1) % 2
        BY <3>5
      <4>2. (0 % 2) = 0
        OBVIOUS
      <4> QED BY <1>0, <3>5, <3>7, <4>1, <4>2
    <3> QED BY <3>6, <3>8
  <2>3. \A i \in Nat : i \in S
    <3> HIDE DEF S
    <3> QED BY <2>1, <2>2, InductionOnSet
  <2> QED BY <2>3
<1>5. ASSUME Type(r) = "repeat", grammar[r].max # 0
      PROVE  \A i \in Nat : i <= m => w[i].n = i /\ i < grammar[r].max
  <2> DEFINE max == grammar[r].max
             S == {i \in Nat : i <= m => w[i].n = i /\ i < max}
  <2>1. max \in Nat \ {0} /\ max < SizeMod
    BY <1>0, <1>5, Tables DEF RuleAssumption, Type
  <2> HIDE DEF max
  <2>2. 0 \in S
    BY <1>2, <2>1
  <2>3. ASSUME NEW i \in Nat, i \in S PROVE i + 1 \in S
    <3> SUFFICES ASSUME i + 1 <= m PROVE w[i + 1].n = i + 1 /\ i + 1 < max
      OBVIOUS
    <3>1. w[i].n = i /\ i < max
      BY <2>3
    <3>2. w[i + 1].n = SizeT(i + 1) /\ SizeT(i + 1) # max
      BY <1>1, <1>5, <3>1 DEF After, Goes, max
    <3>3. SizeT(i + 1) = i + 1
      BY <1>0, <2>1, <3>1, NextCount
    <3> QED BY <2>1, <3>1, <3>2, <3>3
  <2>4. \A i \in Nat : i \in S
    <3> HIDE DEF S
    <3> QED BY <2>2, <2>3, InductionOnSet
  <2> QED BY <2>4 DEF max
<1> QED BY <1>3, <1>4, <1>5

\* A repeat or a list two of whose children consumed nothing would find the
\* same nodes for ever: one that was answered by a failure has moved on.
LEMMA NeverStuck ==
    ASSUME Typed, Tiled, NEW r \in Rules, Type(r) \in {"repeat", "list"},
           NEW s \in Tokens, NEW m \in Nat, NEW w, Trace(w, m, r, s), Answer(r, w[m]) = Fail,
           NEW i \in Nat, i + 2 <= m
    PROVE  w[i + 2].tok > w[i].tok
<1> SUFFICES ASSUME ~(w[i + 2].tok > w[i].tok) PROVE FALSE
  OBVIOUS
<1> DEFINE t == w[i].tok
           Key(j) == Parser_check_cache(IF Type(r) = "list" /\ j % 2 # 0 THEN grammar[r].delim
                                        ELSE grammar[r].rule, t)
<1>1. \A j \in 0 .. m : w[j].tok \in Tokens
  BY TraceForward, SMTT(30)
<1>2. \A j \in 0 .. m : Type(r) = "list" => w[j].n % 2 = j % 2
  BY TraceCounts, SMTT(30)
<1>3. ASSUME NEW j \in Nat, j + 1 <= m
      PROVE  /\ w[j + 1].tok = nodes[Answer(r, w[j])].end + 1 /\ w[j + 1].tok >= w[j].tok
             /\ Answer(r, w[j]) # Fail
  <2>1. j \in 0 .. m - 1 /\ j \in 0 .. m
    BY <1>3
  <2>2. Steps(r, w[j], w[j + 1]) /\ w[j].tok \in Tokens
    BY <1>1, <2>1 DEF Trace
  <2> QED BY <2>2, StepFinds, SMTT(30) DEF Real
<1>4. ASSUME NEW j \in 0 .. m, w[j].tok = t PROVE Answer(r, w[j]) = Key(j)
  <2>1. CASE Type(r) = "list"
    <3>1. Called(r, w[j].n) = IF j % 2 # 0 THEN grammar[r].delim ELSE grammar[r].rule
      BY <1>2, <2>1 DEF Called
    <3> QED BY <1>4, <2>1, <3>1 DEF Answer
  <2>2. CASE Type(r) = "repeat"
    <3>1. Called(r, w[j].n) = grammar[r].rule
      BY <2>2 DEF Called
    <3> QED BY <1>4, <2>2, <3>1 DEF Answer
  <2> QED BY <2>1, <2>2
<1>5. \A j \in Nat : j <= m => w[j].tok \in Int
  BY <1>1, Tables
<1>6. w[i + 1].tok = t /\ w[i + 2].tok = t
  <2>1. i + 1 <= m /\ (i + 1) + 1 <= m /\ i + 1 \in Nat /\ (i + 1) + 1 = i + 2 /\ i <= m /\ i + 2 \in Nat
    OBVIOUS
  <2>2. w[i + 1].tok >= w[i].tok /\ w[i + 2].tok >= w[i + 1].tok
    BY <1>3, <2>1
  <2>3. w[i].tok \in Int /\ w[i + 1].tok \in Int /\ w[i + 2].tok \in Int
    BY <1>5, <2>1
  <2> QED BY <2>2, <2>3
<1>7. Key(i) # Fail /\ Key(i + 1) # Fail /\ nodes[Key(i)].end + 1 = t /\ nodes[Key(i + 1)].end + 1 = t
  <2>1. i + 1 <= m /\ (i + 1) + 1 <= m /\ i \in 0 .. m /\ i + 1 \in 0 .. m /\ i + 1 \in Nat
        /\ (i + 1) + 1 = i + 2
    OBVIOUS
  <2>2. Answer(r, w[i]) = Key(i) /\ Answer(r, w[i + 1]) = Key(i + 1)
    BY <1>4, <1>6, <2>1
  <2> QED BY <1>3, <1>6, <2>1, <2>2
<1>8. ASSUME NEW j \in Nat, j >= i PROVE Key(j) \in {Key(i), Key(i + 1)}
  <2>1. j % 2 = i % 2 \/ j % 2 = (i + 1) % 2
    OBVIOUS
  <2> QED BY <2>1
<1>9. ASSUME NEW j \in Nat, j >= i PROVE Key(j) # Fail /\ nodes[Key(j)].end + 1 = t
  BY <1>7, <1>8, <1>9
<1> HIDE DEF Key
<1>10. \A j \in Nat : i + j <= m => w[i + j].tok = t
  <2> DEFINE S == {j \in Nat : i + j <= m => w[i + j].tok = t}
  <2>1. 0 \in S
    OBVIOUS
  <2>2. ASSUME NEW j \in Nat, j \in S PROVE j + 1 \in S
    <3> SUFFICES ASSUME i + (j + 1) <= m PROVE w[i + (j + 1)].tok = t
      OBVIOUS
    <3>1. i + j \in 0 .. m /\ i + j \in Nat /\ (i + j) + 1 <= m /\ (i + j) + 1 = i + (j + 1) /\ i + j >= i
      OBVIOUS
    <3>2. w[i + j].tok = t
      BY <2>2, <3>1
    <3>3. Answer(r, w[i + j]) = Key(i + j) /\ nodes[Key(i + j)].end + 1 = t
      BY <1>4, <1>9, <3>1, <3>2
    <3> QED BY <1>3, <3>1, <3>3
  <2>3. \A j \in Nat : j \in S
    <3> HIDE DEF S
    <3> QED BY <2>1, <2>2, InductionOnSet
  <2> QED BY <2>3
<1>11. w[m].tok = t
  <2>1. m - i \in Nat /\ i + (m - i) = m
    OBVIOUS
  <2> QED BY <1>10, <2>1
<1>12. m \in 0 .. m /\ m >= i
  OBVIOUS
<1> QED BY <1>4, <1>9, <1>11, <1>12

\* Two children per token at most: the counter of a group that ends on a
\* failure has not wrapped.
LEMMA NoWrap ==
    ASSUME Typed, Tiled, Roomy(input), NEW r \in Rules, Type(r) \in {"repeat", "list"},
           NEW s \in Tokens, NEW m \in Nat, NEW w, Trace(w, m, r, s), Answer(r, w[m]) = Fail
    PROVE  m < SizeMod
<1>1. \A j \in Nat : j <= m => w[j].tok \in 1 .. Len(input) + 1
  BY TraceForward, Tables
<1>2. Len(input) \in Nat /\ SizeMod \in Nat
  BY Tables
<1> DEFINE P(j) == j <= m => 2 * w[j].tok >= j + 1
           S == {j \in Nat : P(j) /\ P(j + 1)}
<1>3. 0 \in S
  <2>1. 0 <= m => w[0].tok \in Nat /\ w[0].tok >= 1
    BY <1>1, <1>2
  <2>2. 1 <= m => w[1].tok \in Nat /\ w[1].tok >= 1
    BY <1>1, <1>2
  <2>3. P(0)
    BY <2>1
  <2>4. P(0 + 1)
    BY <2>2
  <2> QED BY <2>3, <2>4
<1>4. ASSUME NEW j \in Nat, j \in S PROVE j + 1 \in S
  <2>1. P(j + 1)
    BY <1>4
  <2>2. P((j + 1) + 1)
    <3> SUFFICES ASSUME j + 2 <= m PROVE 2 * w[j + 2].tok >= (j + 2) + 1
      OBVIOUS
    <3>1. w[j + 2].tok > w[j].tok
      BY NeverStuck
    <3>2. w[j].tok \in Int /\ w[j + 2].tok \in Int
      BY <1>1, <1>2
    <3>3. 2 * w[j].tok >= j + 1
      BY <1>4
    <3> QED BY <3>1, <3>2, <3>3
  <2> QED BY <2>1, <2>2
<1>5. \A j \in Nat : j \in S
  <2> HIDE DEF S
  <2> QED BY <1>3, <1>4, InductionOnSet
<1>6. 2 * w[m].tok >= m + 1
  BY <1>5
<1>7. w[m].tok \in 1 .. Len(input) + 1
  BY <1>1
<1>8. 2 * (Len(input) + 2) <= SizeMod
  BY DEF Roomy
<1> QED BY <1>2, <1>6, <1>7, <1>8

\* The frame that a Rule_check returns to, and what it got.
LEMMA Returned ==
    ASSUME Typed, Packrat, Tiled, Rebuildable, mode = "ret", stack # << >>
    PROVE  /\ Top.rule \in Rules /\ Top.start \in Tokens /\ Top.n \in Nat
           /\ Reaches(Top, ret.tok)
           /\ ret.rule = Called(Top.rule, Top.n) /\ ret.rule \in Rules
           /\ ret.tok \in Tokens /\ cur \in Tokens
           /\ ret.node = memo[ret.rule][ret.tok]
           /\ Answer(Top.rule, [tok |-> ret.tok, n |-> Top.n]) = ret.node
           /\ Ok => /\ Real(ret.node) /\ cur = nodes[ret.node].end + 1
           /\ ~Ok => cur = ret.tok
<1>1. Running
  BY DEF Packrat
<1>2. /\ Len(stack) \in Nat \ {0} /\ Top \in FrameRec /\ CalledBy(Len(stack)) = Called(Top.rule, Top.n)
  BY StackTop
<1>3. Top.rule \in Rules /\ Top.start \in Tokens /\ Top.n \in Nat
  BY <1>2 DEF FrameRec
<1>4. Reaches(Top, ret.tok)
  <2>1. CalledAt(Len(stack)) = ret.tok /\ Len(stack) \in 1 .. Len(stack)
    BY <1>2 DEF CalledAt
  <2> QED BY <1>1, <2>1 DEF Running, Top
<1>5. ret.rule = Called(Top.rule, Top.n) /\ ret.rule \in Rules
  BY <1>2 DEF CalledBy, Typed
<1>6. ret.tok \in Tokens /\ cur \in Tokens
  BY DEF Tiled
<1>7. ret.node = Parser_check_cache(ret.rule, ret.tok) /\ (~Ok => cur = ret.tok)
  BY <1>1 DEF Running, Ok
<1>8. ret.node = memo[ret.rule][ret.tok]
  BY <1>6, <1>7, Tables DEF Parser_check_cache, token_head
<1>9. Answer(Top.rule, [tok |-> ret.tok, n |-> Top.n]) = ret.node
  BY <1>5, <1>7 DEF Answer
<1>10. KeepsEnds(nodes) /\ ret.node \in 0 .. Len(nodes)
  BY PoolKeepsEnds DEF Tiled, Typed
<1>11. Ok => Real(ret.node) /\ cur = nodes[ret.node].end + 1
  BY <1>10 DEF Typed, Ok, Real, NoNode
<1> QED BY <1>3, <1>4, <1>5, <1>6, <1>7, <1>8, <1>9, <1>11

\* What one step of a trace found is what the walk finds for the next child.
LEMMA LinkOfStep ==
    ASSUME Typed, Tiled, NEW r \in Rules, Type(r) \in {"sequence", "repeat", "list"},
           NEW x, NEW y, Steps(r, x, y), x.tok \in Tokens, NEW i \in Nat \ {0}, x.n = i - 1
    PROVE  /\ ChildRule(r, i) = Called(r, x.n) /\ ChildRule(r, i) \in Rules
           /\ Real(memo[ChildRule(r, i)][x.tok])
           /\ y.tok = nodes[memo[ChildRule(r, i)][x.tok]].end + 1
<1>1. /\ Called(r, x.n) \in Rules /\ Real(memo[Called(r, x.n)][x.tok])
      /\ y.tok = nodes[memo[Called(r, x.n)][x.tok]].end + 1
  BY StepFinds
<1>2. ChildRule(r, i) = Called(r, x.n)
  <2>1. (i - 1) % 2 = 0 <=> i % 2 = 1
    OBVIOUS
  <2>2. (i - 1) + 1 = i
    OBVIOUS
  <2> QED BY <2>1, <2>2 DEF ChildRule, Called
<1> QED BY <1>1, <1>2

\* The children a frame leaves with are linked from its start to the token
\* its node ends before.
LEMMA SpanIsLinked ==
    ASSUME Typed, Packrat, Tiled, Rebuildable, mode = "ret", stack # << >>, NEW k \in Nat, NEW next,
           Spans(k, next)
    PROVE  \E u : u[0] = Top.start /\ u[k] = next /\ Linked(Top.rule, u, k)
<1> DEFINE r == Top.rule
           s == Top.start
<1>1. /\ r \in Rules /\ s \in Tokens /\ Top.n \in Nat /\ Reaches(Top, ret.tok)
      /\ ret.rule = Called(r, Top.n) /\ ret.rule \in Rules
      /\ ret.tok \in Tokens /\ cur \in Tokens /\ ret.node = memo[ret.rule][ret.tok]
      /\ Answer(r, [tok |-> ret.tok, n |-> Top.n]) = ret.node
      /\ Ok => Real(ret.node) /\ cur = nodes[ret.node].end + 1
      /\ ~Ok => cur = ret.tok
  BY Returned
<1>2. Type(r) \in {"sequence", "repeat", "list"}
  BY DEF Spans
<1>m. PICK m \in Nat : \E w : /\ Trace(w, m, r, s)
                              /\ w[m] = [tok |-> ret.tok, n |-> Top.n]
                              /\ (Type(r) = "list" /\ m # 0 /\ Top.n % 2 = 0)
                                    => Top.delim = Answer(r, w[m - 1])
  BY <1>1 DEF Reaches
<1>3. PICK w : /\ Trace(w, m, r, s)
               /\ w[m] = [tok |-> ret.tok, n |-> Top.n]
               /\ (Type(r) = "list" /\ m # 0 /\ Top.n % 2 = 0)
                     => Top.delim = Answer(r, w[m - 1])
  BY <1>m
<1>4. w[m].tok = ret.tok /\ w[m].n = Top.n /\ w[0].tok = s /\ m \in 0 .. m
  BY <1>3 DEF Trace
<1> HIDE DEF r, s
<1>5. \A i \in 0 .. m : w[i].tok \in Tokens
  BY <1>1, <1>2, <1>3, TraceForward
<1>6. \A i \in 0 .. m : w[i].n = i
  <2>1. CASE Type(r) = "sequence" \/ (Type(r) = "repeat" /\ grammar[r].max # 0)
    BY <1>1, <1>2, <1>3, <2>1, TraceCounts
  <2>2. CASE ~(Type(r) = "sequence" \/ (Type(r) = "repeat" /\ grammar[r].max # 0))
    <3>1. Type(r) \in {"repeat", "list"} /\ ~Ok
      BY <1>2, <2>2 DEF Spans, r
    <3>2. Answer(r, w[m]) = Fail
      BY <1>1, <1>3, <3>1 DEF Ok
    <3>3. m < SizeMod /\ SizeMod \in Nat
      BY <1>1, <1>3, <3>1, <3>2, NoWrap, Tables DEF Rebuildable
    <3>4. \A i \in 0 .. m : i < SizeMod
      BY <3>3
    <3> QED BY <1>1, <1>2, <1>3, <3>4, TraceCounts
  <2> QED BY <2>1, <2>2
<1>7. Top.n = m
  BY <1>4, <1>6
<1>8. ASSUME NEW i \in 1 .. m
      PROVE  /\ ChildRule(r, i) = Called(r, i - 1) /\ ChildRule(r, i) \in Rules
             /\ w[i - 1].tok \in Tokens /\ Real(memo[ChildRule(r, i)][w[i - 1].tok])
             /\ w[i].tok = nodes[memo[ChildRule(r, i)][w[i - 1].tok]].end + 1
  <2>1. i - 1 \in 0 .. m - 1 /\ i - 1 \in 0 .. m /\ (i - 1) + 1 = i /\ i \in Nat \ {0}
    OBVIOUS
  <2>2. Steps(r, w[i - 1], w[i]) /\ w[i - 1].tok \in Tokens /\ w[i - 1].n = i - 1
    BY <1>3, <1>5, <1>6, <2>1 DEF Trace
  <2> QED BY <1>1, <1>2, <2>1, <2>2, LinkOfStep
<1>9. CASE Ok
  <2> DEFINE u == [i \in 0 .. m + 1 |-> IF i = m + 1 THEN cur ELSE w[i].tok]
  <2>1. k = m + 1 /\ next = cur
    <3>1. CASE Type(r) = "sequence"
      BY <1>7, <1>9, <3>1 DEF Spans, r
    <3>2. CASE Type(r) # "sequence"
      <4>1. Type(r) = "repeat" /\ k = SizeT(Top.n + 1) /\ k # 0 /\ next = cur
        BY <1>9, <3>2 DEF Spans, r
      <4>2. Top \in FrameRec /\ FrameOK(Top)
        BY StackTop
      <4>3. Top.n < SizeMod
        BY <4>1, <4>2 DEF FrameOK, r
      <4>4. k = Top.n + 1
        BY <1>1, <4>1, <4>3, NextCount, Tables
      <4> QED BY <1>7, <4>1, <4>4
    <3> QED BY <3>1, <3>2
  <2>2. u[0] = s /\ u[k] = next
    BY <1>4, <2>1
  <2>3. ASSUME NEW i \in 1 .. k
        PROVE  /\ ChildRule(r, i) \in Rules /\ u[i - 1] \in Tokens
               /\ Real(memo[ChildRule(r, i)][u[i - 1]])
               /\ u[i] = nodes[memo[ChildRule(r, i)][u[i - 1]]].end + 1
    <3>1. CASE i \in 1 .. m
      <4>1. u[i] = w[i].tok /\ u[i - 1] = w[i - 1].tok
        BY <3>1
      <4> QED BY <1>8, <3>1, <4>1
    <3>2. CASE i = m + 1
      <4>1. u[i] = cur /\ u[i - 1] = ret.tok
        BY <1>4, <3>2
      <4>2. ChildRule(r, i) = Called(r, Top.n)
        <5>1. \A j \in Nat : /\ (j + 1) - 1 = j /\ j + 1 \in Nat \ {0}
                            /\ j % 2 = 0 <=> (j + 1) % 2 = 1
          OBVIOUS
        <5>2. Top.n = i - 1 /\ i \in Nat \ {0} /\ ((i - 1) % 2 = 0 <=> i % 2 = 1) /\ (i - 1) + 1 = i
          BY <1>7, <3>2, <5>1
        <5> QED BY <1>2, <5>2 DEF ChildRule, Called
      <4> QED BY <1>1, <1>9, <4>1, <4>2
    <3>3. i \in 1 .. m \/ i = m + 1
      BY <2>1
    <3> HIDE DEF u
    <3> QED BY <3>1, <3>2, <3>3
  <2> HIDE DEF u
  <2>4. Linked(r, u, k)
    BY <2>3 DEF Linked
  <2> QED BY <2>2, <2>4 DEF r, s
<1>10. CASE ~Ok
  <2> DEFINE u == [i \in 0 .. m |-> w[i].tok]
  <2>1. k \in 0 .. m /\ next = w[k].tok
    <3>1. CASE k = Top.n /\ next = cur
      BY <1>1, <1>4, <1>7, <1>10, <3>1
    <3>2. CASE ~(k = Top.n /\ next = cur)
      <4>1. /\ Type(r) = "list" /\ Top.n # 0 /\ Top.n % 2 = 0
            /\ k = Top.n - 1 /\ next = nodes[Top.delim].start
        BY <1>10, <3>2 DEF Spans, r
      <4>2. m \in 1 .. m /\ k = m - 1 /\ k \in 0 .. m /\ m # 0 /\ k % 2 = 1
        BY <1>7, <4>1
      <4>3. /\ ChildRule(r, m) = Called(r, m - 1) /\ ChildRule(r, m) \in Rules
            /\ w[k].tok \in Tokens /\ Real(memo[ChildRule(r, m)][w[k].tok])
        BY <1>8, <4>2
      <4>4. Top.delim = Answer(r, w[k]) /\ w[k].n = k
        BY <1>3, <1>6, <4>1, <4>2
      <4>5. Top.delim = memo[ChildRule(r, m)][w[k].tok]
        BY <4>2, <4>3, <4>4, Tables DEF Answer, Parser_check_cache, token_head
      <4>6. ChildRule(r, m) = grammar[r].delim
        BY <4>1, <4>2, <4>3 DEF Called
      <4>7. ChildRule(r, m) \notin Loose
        BY <1>1, <4>1, <4>6, LooseRules DEF LookaheadsIn, Type, Rules
      <4> QED BY <4>1, <4>2, <4>3, <4>5, <4>7, FoundNode
    <3> QED BY <3>1, <3>2
  <2>2. u[0] = s /\ u[k] = next
    BY <1>4, <2>1
  <2>3. ASSUME NEW i \in 1 .. k
        PROVE  /\ ChildRule(r, i) \in Rules /\ u[i - 1] \in Tokens
               /\ Real(memo[ChildRule(r, i)][u[i - 1]])
               /\ u[i] = nodes[memo[ChildRule(r, i)][u[i - 1]]].end + 1
    <3>1. i \in 1 .. m /\ u[i] = w[i].tok /\ u[i - 1] = w[i - 1].tok
      BY <2>1
    <3> QED BY <1>8, <3>1
  <2> HIDE DEF u
  <2>4. Linked(r, u, k)
    BY <2>3 DEF Linked
  <2> QED BY <2>2, <2>4 DEF r, s
<1> QED BY <1>9, <1>10

\* The new node of a sequence, repeat or list: every child is found, and they
\* lie one behind the other.
LEMMA SpanTiles ==
    ASSUME Typed, Packrat, Tiled, Rebuildable, mode = "ret", stack # << >>, NEW k \in Nat, NEW next,
           Spans(k, next)
    PROVE  LET kid(i) == ChildWalk(Top.rule, Top.start, k)[i].kid IN
           /\ Rebuilds(Top.rule, Top.start, k)
           /\ next \in Tokens /\ next >= Top.start
           /\ \A i \in 1 .. k : kid(i) \in 1 .. Len(nodes)
           /\ k # 0 => nodes[kid(k)].end = next - 1
           /\ \A i \in 1 .. k - 1 : nodes[kid(i)].end <= nodes[kid(i + 1)].end
           /\ Simplifies(grammar) /\ k = 1 => nodes[kid(1)].start = Top.start
<1> DEFINE r == Top.rule
           s == Top.start
           kid(i) == ChildWalk(r, s, k)[i].kid
<1>1. r \in Rules /\ s \in Tokens
  BY Returned
<1>2. PICK u : u[0] = s /\ u[k] = next /\ Linked(r, u, k)
  BY SpanIsLinked
<1> HIDE DEF r, s
<1>3. Rebuilds(r, s, k) /\ \A i \in 1 .. k : kid(i) = memo[ChildRule(r, i)][u[i - 1]]
  <2>1. /\ Rebuilds(r, u[0], k)
        /\ \A i \in 1 .. k : ChildWalk(r, u[0], k)[i].kid = memo[ChildRule(r, i)][u[i - 1]]
    <3>1. Linked(r, u, k)
      BY <1>2
    <3> HIDE DEF kid
    <3>2. Rebuilds(r, u[0], k)
      BY <3>1, WalkFollows
    <3>3. \A i \in 1 .. k : ChildWalk(r, u[0], k)[i].kid = memo[ChildRule(r, i)][u[i - 1]]
      BY <3>1, WalkFollows
    <3> QED BY <3>2, <3>3
  <2> QED BY <1>2, <2>1
<1>4. ASSUME NEW i \in 1 .. k
      PROVE  /\ kid(i) \in 1 .. Len(nodes) /\ nodes[kid(i)].end \in 0 .. Len(input)
             /\ u[i] = nodes[kid(i)].end + 1 /\ nodes[kid(i)].end \in Int
             /\ u[i] \in Tokens /\ u[i - 1] \in Tokens /\ u[i] >= u[i - 1]
             /\ ChildRule(r, i) \notin Loose => nodes[kid(i)].start = u[i - 1]
  <2>1. /\ ChildRule(r, i) \in Rules /\ u[i - 1] \in Tokens
        /\ Real(memo[ChildRule(r, i)][u[i - 1]])
        /\ u[i] = nodes[memo[ChildRule(r, i)][u[i - 1]]].end + 1
    BY <1>2 DEF Linked
  <2>2. \A e \in 0 .. Len(input) : e \in Int
    BY Tables
  <2> QED BY <1>3, <2>1, <2>2, FoundNode
<1> HIDE DEF kid
<1>5. \A i \in Nat : i <= k => u[i] \in Tokens /\ u[i] >= s
  <2> DEFINE S == {i \in Nat : i <= k => u[i] \in Tokens /\ u[i] >= s}
  <2>1. 0 \in S
    BY <1>1, <1>2, Tables
  <2>2. ASSUME NEW i \in Nat, i \in S PROVE i + 1 \in S
    <3> SUFFICES ASSUME i + 1 <= k PROVE u[i + 1] \in Tokens /\ u[i + 1] >= s
      OBVIOUS
    <3>1. i + 1 \in 1 .. k /\ (i + 1) - 1 = i
      OBVIOUS
    <3>2. u[i + 1] \in Tokens /\ u[i] \in Tokens /\ u[i + 1] >= u[i] /\ u[i] >= s
      BY <1>4, <2>2, <3>1
    <3> QED BY <1>1, <3>2, Tables
  <2>3. \A i \in Nat : i \in S
    <3> HIDE DEF S
    <3> QED BY <2>1, <2>2, InductionOnSet
  <2> QED BY <2>3
<1>6. next \in Tokens /\ next >= s
  BY <1>2, <1>5
<1>7. ASSUME k # 0 PROVE nodes[kid(k)].end = next - 1
  <2>1. k \in 1 .. k
    BY <1>2, <1>7
  <2>2. u[k] = nodes[kid(k)].end + 1 /\ nodes[kid(k)].end \in Int
    BY <1>4, <2>1
  <2>3. u[k] = next
    BY <1>2
  <2> QED BY <2>2, <2>3
<1>8. ASSUME NEW i \in 1 .. k - 1 PROVE nodes[kid(i)].end <= nodes[kid(i + 1)].end
  <2>1. i \in 1 .. k /\ i + 1 \in 1 .. k /\ (i + 1) - 1 = i
    OBVIOUS
  <2>2. nodes[kid(i)].end \in Int /\ nodes[kid(i + 1)].end \in Int
    BY <1>4, <2>1
  <2>3. nodes[kid(i + 1)].end + 1 >= nodes[kid(i)].end + 1
    BY <1>4, <2>1
  <2> QED BY <2>2, <2>3
<1>9. ASSUME Simplifies(grammar), k = 1 PROVE nodes[kid(1)].start = s
  <2>1. ChildRule(r, 1) \in OnlyChild(grammar[r])
    <3>1. CASE Type(r) = "sequence"
      <4>1. Len(grammar[r].deps) = 1
        BY <1>9, <3>1 DEF Spans, r
      <4> QED BY <3>1, <4>1 DEF ChildRule, OnlyChild, Type
    <3>2. CASE Type(r) \in {"repeat", "list"}
      BY <3>2 DEF ChildRule, OnlyChild, Type
    <3> QED BY <3>1, <3>2 DEF Spans, r
  <2>2. ChildRule(r, 1) \notin Loose
    BY <1>1, <1>9, <2>1, LooseRules DEF LookaheadsIn, Rules
  <2>3. 1 \in 1 .. k /\ 1 - 1 = 0
    BY <1>9
  <2>4. nodes[kid(1)].start = u[1 - 1]
    BY <1>4, <2>2, <2>3
  <2> QED BY <1>2, <2>3, <2>4
<1> QED BY <1>3, <1>4, <1>6, <1>7, <1>8, <1>9 DEF kid, r, s

\* No leaving rule spoils the nodes: old ones are kept, the new one tiles.
LEMMA PoolStaysTiled ==
    ASSUME Typed, PoolTiled(nodes), NEW pool, PoolOK(pool), Extends(pool),
           \/ Len(pool) = Len(nodes)
           \/ LET new == pool[Len(pool)] IN
              /\ Len(pool) = Len(nodes) + 1
              /\ new.end # Null
              /\ \A k \in 1 .. Len(new.kids) : new.kids[k] \in 1 .. Len(nodes)
              /\ Tiles(new, nodes)
    PROVE  PoolTiled(pool)
<1>1. /\ nodes \in Seq(NodeRec) /\ Len(nodes) \in Nat /\ pool \in Seq(NodeRec) /\ Len(pool) \in Nat
      /\ \A i \in 1 .. Len(nodes) : \A k \in 1 .. Len(nodes[i].kids) : nodes[i].kids[k] \in 1 .. i
  BY LenProperties DEF Typed, PoolOK
<1>2. \A i \in 1 .. Len(nodes) : /\ pool[i].start = nodes[i].start /\ pool[i].end = nodes[i].end
                                 /\ pool[i].kids = nodes[i].kids
  BY DEF Extends
<1>3. ASSUME NEW node, Len(node.kids) \in Nat, Tiles(node, nodes),
             \A k \in 1 .. Len(node.kids) : node.kids[k] \in 1 .. Len(nodes)
      PROVE  Tiles(node, pool)
  <2> DEFINE kids == node.kids
             last == Len(kids)
  <2>1. \A k \in 1 .. last : pool[kids[k]].start = nodes[kids[k]].start
                             /\ pool[kids[k]].end = nodes[kids[k]].end
    BY <1>2, <1>3
  <2>2. last \in Nat
    BY <1>3
  <2>3. /\ last # 0 => /\ nodes[kids[last]].end = node.end
                       /\ \A k \in 1 .. last - 1 : nodes[kids[k]].end <= nodes[kids[k + 1]].end
        /\ (Simplifies(grammar) /\ last = 1) => nodes[kids[1]].start = node.start
    BY <1>3 DEF Tiles
  <2> HIDE DEF last, kids
  <2>4. last # 0 => pool[kids[last]].end = node.end
    BY <2>1, <2>2, <2>3
  <2>5. ASSUME NEW k \in 1 .. last - 1 PROVE pool[kids[k]].end <= pool[kids[k + 1]].end
    <3>1. k \in 1 .. last /\ k + 1 \in 1 .. last /\ last # 0
      BY <2>2
    <3> QED BY <2>1, <2>3, <3>1
  <2>6. Simplifies(grammar) /\ last = 1 => pool[kids[1]].start = node.start
    BY <2>1, <2>3
  <2> QED BY <2>4, <2>5, <2>6 DEF Tiles, last, kids
<1>4. ASSUME NEW i \in 1 .. Len(nodes) PROVE pool[i].end # Null /\ Tiles(pool[i], pool)
  <2>1. nodes[i].end # Null /\ Tiles(nodes[i], nodes)
    BY DEF PoolTiled
  <2>2. nodes[i] \in NodeRec
    BY <1>1, ElementOfSeq
  <2>3. Len(nodes[i].kids) \in Nat
    BY <2>2, LenProperties DEF NodeRec
  <2>4. \A k \in 1 .. Len(nodes[i].kids) : nodes[i].kids[k] \in 1 .. Len(nodes)
    <3>1. 1 .. i \subseteq 1 .. Len(nodes)
      BY <1>1
    <3> QED BY <1>1, <3>1
  <2>5. Tiles(nodes[i], pool)
    BY <1>3, <2>1, <2>3, <2>4
  <2> QED BY <1>2, <2>1, <2>5 DEF Tiles
<1>5. CASE Len(pool) = Len(nodes)
  BY <1>4, <1>5 DEF PoolTiled
<1>6. CASE Len(pool) # Len(nodes)
  <2> DEFINE new == pool[Len(pool)]
  <2>1. /\ Len(pool) = Len(nodes) + 1 /\ new.end # Null /\ Tiles(new, nodes)
        /\ \A k \in 1 .. Len(new.kids) : new.kids[k] \in 1 .. Len(nodes)
    BY <1>6
  <2>2. new \in NodeRec
    <3>1. Len(pool) \in 1 .. Len(pool)
      BY <1>1, <2>1
    <3> QED BY <1>1, <3>1, ElementOfSeq
  <2>3. Len(new.kids) \in Nat
    BY <2>2, LenProperties DEF NodeRec
  <2>4. Tiles(new, pool)
    BY <1>3, <2>1, <2>3
  <2>5. ASSUME NEW i \in 1 .. Len(pool), i \notin 1 .. Len(nodes) PROVE i = Len(pool)
    BY <1>1, <2>1, <2>5
  <2> HIDE DEF new
  <2> QED BY <1>4, <2>1, <2>4, <2>5 DEF PoolTiled, new
<1> QED BY <1>5, <1>6

\* A choice and a production got their answer where they were called.
InPlace ==
    /\ ret.tok = Top.start
    /\ (Type(Top.rule) = "choice" /\ Top.rule \notin Loose) => ret.rule \notin Loose
    /\ Type(Top.rule) = "production" => ret.rule \notin Loose /\ ret.rule = grammar[Top.rule].rule

\* The k children the walk finds lie one behind the other up to next.
Lies(k, next) ==
    LET kid(i) == ChildWalk(Top.rule, Top.start, k)[i].kid IN
    /\ next \in Tokens /\ next >= Top.start
    /\ \A i \in 1 .. k : kid(i) \in 1 .. Len(nodes)
    /\ k # 0 => nodes[kid(k)].end = next - 1
    /\ \A i \in 1 .. k - 1 : nodes[kid(i)].end <= nodes[kid(i + 1)].end
    /\ Simplifies(grammar) /\ k = 1 => nodes[kid(1)].start = Top.start

\* A node made on entering tiles, and is where the rule was called.
LEMMA EnterPlaced ==
    ASSUME Typed, PoolTiled(nodes), NEW n, NEW pool, NEW next, EnterLeave(n, pool, next)
    PROVE  PoolTiled(pool) /\ (n # Fail => Placed(callee, cur, pool[n]))
<1>1. /\ callee \in Rules /\ cur \in Tokens /\ Result(callee, n, pool, next)
  BY DEF EnterLeave, Entered, Typed
<1>2. PoolOK(pool) /\ Extends(pool)
  BY <1>1 DEF Result
<1>3. CASE n = Fail /\ pool = nodes
  BY <1>3
<1>4. CASE n = Len(pool) /\ next \in {cur, cur + 1} /\ Adds(callee, cur, next - 1, 0, pool)
  <2> DEFINE new == pool[Len(pool)]
  <2>1. /\ Len(pool) = Len(nodes) + 1 /\ new.start = cur /\ new.end = next - 1 /\ Len(new.kids) = 0
    BY <1>4 DEF Adds
  <2>2. next - 1 # Null /\ next - 1 >= cur - 1
    <3>1. cur \in 1 .. Len(input) + 1 /\ Len(input) \in Nat
      BY <1>1, Tables
    <3> QED BY <1>4, <3>1 DEF Null
  <2>3. Tiles(new, nodes)
    BY <2>1 DEF Tiles
  <2>4. \A k \in 1 .. Len(new.kids) : new.kids[k] \in 1 .. Len(nodes)
    BY <2>1
  <2> HIDE DEF new
  <2>5. PoolTiled(pool)
    BY <1>2, <2>1, <2>2, <2>3, <2>4, PoolStaysTiled DEF new
  <2>6. Placed(callee, cur, pool[n])
    BY <1>4, <2>1, <2>2 DEF Placed, new
  <2> QED BY <2>5, <2>6
<1> QED BY <1>3, <1>4 DEF EnterLeave

\* So does whatever a frame leaves with.
LEMMA ResumePlaced ==
    ASSUME Typed, PoolTiled(nodes), Rebuildable, NEW n, NEW pool, NEW next, ResumeLeave(n, pool, next),
           Top.rule \in Rules, Top.start \in Tokens, ret.tok \in Tokens,
           Ok => ret.node \in 1 .. Len(nodes) /\ Placed(ret.rule, ret.tok, nodes[ret.node]),
           Type(Top.rule) \in {"choice", "production"} => InPlace,
           \A k \in Nat : Spans(k, next) /\ Rebuilds(Top.rule, Top.start, k) => Lies(k, next)
    PROVE  PoolTiled(pool) /\ (n # Fail => Placed(Top.rule, Top.start, pool[n]))
<1>1. mode = "ret" /\ stack # << >> /\ Made(n, pool, next) /\ Result(Top.rule, n, pool, next)
  BY DEF ResumeLeave, Resumed
<1>2. PoolOK(pool) /\ Extends(pool) /\ Len(nodes) \in Nat
  BY <1>1, LenProperties DEF Result, Typed, PoolOK
<1>3. Top.start \in Int
  BY Tables
<1>4. Ok => /\ ret.node \in 1 .. Len(nodes)
            /\ nodes[ret.node].end \in 0 .. Len(input) /\ nodes[ret.node].end >= ret.tok - 1
            /\ ret.rule \notin Loose => nodes[ret.node].start = ret.tok
  <2>1. ASSUME Ok PROVE nodes[ret.node].end \in 0 .. Len(input)
    <3>1. ret.node \in 1 .. Len(nodes)
      BY <2>1
    <3>2. nodes[ret.node] \in NodeRec /\ nodes[ret.node].end # Null
      BY <3>1, ElementOfSeq DEF Typed, PoolOK, PoolTiled
    <3>3. nodes[ret.node].end \in Null .. Len(input)
      BY <3>2 DEF NodeRec
    <3>4. \A e \in Null .. Len(input) : e # Null => e \in 0 .. Len(input)
      BY Tables DEF Null
    <3> QED BY <3>2, <3>3, <3>4
  <2> QED BY <2>1 DEF Placed
<1>6. CASE n = Fail /\ pool = nodes
  BY <1>6
<1>7. CASE /\ Type(Top.rule) \in {"choice", "production"}
           /\ Ok
           /\ n = ret.node /\ Len(pool) = Len(nodes) /\ next = cur
  <2>1. PoolTiled(pool)
    BY <1>2, <1>7, PoolStaysTiled
  <2>2. pool[n].start = nodes[n].start /\ pool[n].end = nodes[n].end
    BY <1>2, <1>4, <1>7 DEF Extends
  <2>3. /\ ret.tok = Top.start
        /\ Top.rule \notin Loose => ret.rule \notin Loose
    BY <1>7 DEF InPlace
  <2>4. Placed(Top.rule, Top.start, pool[n])
    BY <1>4, <1>7, <2>2, <2>3 DEF Placed
  <2> QED BY <2>1, <2>4
<1>8. CASE /\ Type(Top.rule) = "production"
           /\ Ok
           /\ grammar[Top.rule].action = "simplify"
           /\ Len(nodes[ret.node].kids) = 1
           /\ n = nodes[ret.node].kids[1] /\ pool = nodes
  <2>1. Simplifies(grammar)
    BY <1>8 DEF Simplifies, Type, Rules
  <2>2. ret.tok = Top.start /\ ret.rule \notin Loose
    BY <1>8 DEF InPlace
  <2>3. Tiles(nodes[ret.node], nodes)
    BY <1>4, <1>8 DEF PoolTiled
  <2>4. nodes[n].end = nodes[ret.node].end /\ nodes[n].start = nodes[ret.node].start
    BY <1>8, <2>1, <2>3 DEF Tiles
  <2>5. Placed(Top.rule, Top.start, pool[n])
    BY <1>4, <1>8, <2>2, <2>4 DEF Placed
  <2> QED BY <1>8, <2>5
<1>9. CASE Type(Top.rule) = "production" /\ grammar[Top.rule].action = "inner"
  <2>1. ReturnsInner(grammar)
    BY <1>9 DEF ReturnsInner, Type, Rules
  <2> QED BY <2>1 DEF Rebuildable
<1>10. CASE Type(Top.rule) = "production" /\ Ok /\ n = Len(pool) /\ Wraps(pool)
  <2> DEFINE new == pool[Len(pool)]
  <2>1. /\ Len(pool) = Len(nodes) + 1 /\ new.start = nodes[ret.node].start
        /\ new.end = nodes[ret.node].end /\ new.kids = <<ret.node>>
    BY <1>10 DEF Wraps
  <2>2. Len(new.kids) = 1 /\ new.kids[1] = ret.node
    BY <2>1
  <2>3. Tiles(new, nodes)
    BY <2>1, <2>2 DEF Tiles
  <2>4. \A k \in 1 .. Len(new.kids) : new.kids[k] \in 1 .. Len(nodes)
    BY <1>4, <1>10, <2>2
  <2>5. new.end # Null
    BY <1>4, <1>10, <2>1, Tables DEF Null
  <2> HIDE DEF new
  <2>6. PoolTiled(pool)
    BY <1>2, <2>1, <2>3, <2>4, <2>5, PoolStaysTiled DEF new
  <2>7. ret.tok = Top.start /\ ret.rule \notin Loose
    BY <1>10 DEF InPlace
  <2>8. Placed(Top.rule, Top.start, pool[n])
    BY <1>4, <1>10, <2>1, <2>7 DEF Placed, new
  <2> QED BY <2>6, <2>8
<1>11. ASSUME Type(Top.rule) \in {"neg", "pos"}, NEW start, Type(Top.rule) = "neg" => start = Top.start,
              n = Len(pool), Adds(Top.rule, start, Top.start - 1, 0, pool)
       PROVE  PoolTiled(pool) /\ Placed(Top.rule, Top.start, pool[n])
  <2> DEFINE new == pool[Len(pool)]
  <2>1. /\ Len(pool) = Len(nodes) + 1 /\ new.start = start /\ new.end = Top.start - 1 /\ Len(new.kids) = 0
    BY <1>11 DEF Adds
  <2>2. Top.start - 1 # Null
    BY <1>3, Tables DEF Null
  <2>3. Tiles(new, nodes)
    BY <2>1 DEF Tiles
  <2>4. \A k \in 1 .. Len(new.kids) : new.kids[k] \in 1 .. Len(nodes)
    BY <2>1
  <2> HIDE DEF new
  <2>5. PoolTiled(pool)
    BY <1>2, <2>1, <2>2, <2>3, <2>4, PoolStaysTiled DEF new
  <2>6. Type(Top.rule) = "pos" => Top.rule \in Loose
    BY <1>3, LooseRules DEF LookaheadsIn, Type, Rules
  <2>7. Placed(Top.rule, Top.start, pool[n])
    BY <1>3, <1>11, <2>1, <2>6 DEF Placed, new
  <2> QED BY <2>5, <2>7
<1>12. ASSUME NEW k \in Nat, Spans(k, next), n = Len(pool), Adds(Top.rule, Top.start, next - 1, k, pool)
       PROVE  PoolTiled(pool) /\ Placed(Top.rule, Top.start, pool[n])
  <2> DEFINE new == pool[Len(pool)]
             kid(i) == ChildWalk(Top.rule, Top.start, k)[i].kid
  <2>1. /\ Len(pool) = Len(nodes) + 1 /\ new.start = Top.start /\ new.end = next - 1 /\ Len(new.kids) = k
        /\ \A i \in 1 .. k : new.kids[i] = kid(i)
    BY <1>12 DEF Adds
  <2>2. Lies(k, next)
    BY <1>12 DEF Adds
  <2>3. /\ next \in Tokens /\ next >= Top.start
        /\ \A i \in 1 .. k : kid(i) \in 1 .. Len(nodes)
        /\ k # 0 => nodes[kid(k)].end = next - 1
        /\ \A i \in 1 .. k - 1 : nodes[kid(i)].end <= nodes[kid(i + 1)].end
        /\ Simplifies(grammar) /\ k = 1 => nodes[kid(1)].start = Top.start
    BY <2>2 DEF Lies
  <2> HIDE DEF new, kid
  <2>4. Tiles(new, nodes)
    <3>1. k # 0 => nodes[new.kids[k]].end = new.end
      BY <2>1, <2>3
    <3>2. ASSUME NEW i \in 1 .. k - 1 PROVE nodes[new.kids[i]].end <= nodes[new.kids[i + 1]].end
      <4>1. i \in 1 .. k /\ i + 1 \in 1 .. k
        OBVIOUS
      <4> QED BY <2>1, <2>3, <4>1
    <3>3. Simplifies(grammar) /\ k = 1 => nodes[new.kids[1]].start = new.start
      BY <2>1, <2>3
    <3> QED BY <2>1, <3>1, <3>2, <3>3 DEF Tiles
  <2>5. next - 1 # Null /\ next - 1 >= Top.start - 1
    BY <1>3, <2>3, Tables DEF Null
  <2>6. PoolTiled(pool)
    BY <1>2, <2>1, <2>3, <2>4, <2>5, PoolStaysTiled DEF new
  <2>7. Placed(Top.rule, Top.start, pool[n])
    BY <1>12, <2>1, <2>5 DEF Placed, new
  <2> QED BY <2>6, <2>7
<1> QED BY <1>1, <1>6, <1>7, <1>8, <1>9, <1>10, <1>11, <1>12 DEF Made

\* Rule_check leaves with a node that is where the rule was called.
LEMMA LeaveTiled ==
    ASSUME Typed, Tiled, SameGrammar, Kept', Rebuildable, NEW r \in Rules, NEW t \in Tokens,
           NEW n, NEW pool, NEW next, NEW rest, Result(r, n, pool, next), PoolTiled(pool),
           n # Fail => Placed(r, t, pool[n]),
           Leave(r, t, n, pool, next, rest)
    PROVE  Tiled'
<1>1. /\ nodes' = pool /\ mode' = "ret" /\ ret' = [rule |-> r, tok |-> t, node |-> n]
      /\ cur' = IF n = Fail THEN t ELSE next
      /\ memo' = [memo EXCEPT ![r][t] = n]
  BY LeaveStores DEF Leave
<1>2. /\ Rules' = Rules /\ Tokens' = Tokens /\ Simplifies(grammar)' = Simplifies(grammar)
      /\ Loose' = Loose
  BY SameTables DEF SameGrammar, Simplifies, Loose
<1>3. \A q \in Rules, u \in Tokens : memo'[q][u] = IF q = r /\ u = t THEN n ELSE memo[q][u]
  <2>1. memo \in [Rules -> [Tokens -> NoNode .. Len(nodes)]]
    BY DEF Typed
  <2> QED BY <1>1, <2>1
<1>4. PoolTiled(nodes)'
  BY <1>1, <1>2 DEF PoolTiled, Tiles
<1>5. ASSUME NEW q \in Rules, NEW u \in Tokens, Real(memo'[q][u])
      PROVE  Placed(q, u, nodes'[memo'[q][u]])
  <2>1. CASE q = r /\ u = t
    BY <1>1, <1>3, <1>5, <2>1 DEF Real
  <2>2. CASE ~(q = r /\ u = t)
    <3>1. memo'[q][u] = memo[q][u] /\ Real(memo[q][u])
      BY <1>3, <1>5, <2>2
    <3>2. memo[q][u] \in 1 .. Len(nodes) /\ Placed(q, u, nodes[memo[q][u]])
      BY <3>1, FoundNode DEF Tiled
    <3>3. pool[memo[q][u]].start = nodes[memo[q][u]].start /\ pool[memo[q][u]].end = nodes[memo[q][u]].end
      BY <3>2 DEF Result, Extends
    <3> QED BY <1>1, <3>1, <3>2, <3>3 DEF Placed
  <2> QED BY <2>1, <2>2
<1>6. \A q \in Rules', u \in Tokens' : Real(memo[q][u])' => Placed(q, u, nodes[memo[q][u]])'
  BY <1>2, <1>5 DEF Placed, Real
<1>7. cur' \in Tokens
  <2>1. CASE n = Fail
    BY <1>1, <2>1
  <2>2. CASE n # Fail
    <3>1. KeepsEnds(pool)
      BY PoolKeepsEnds
    <3>2. next = pool[n].end + 1 /\ n \in 0 .. Len(pool) /\ PoolOK(pool)
      BY <2>2, <3>1 DEF Result
    <3>3. n \in 1 .. Len(pool)
      BY <2>2, <3>2, LenProperties DEF PoolOK, Fail
    <3>4. pool[n] \in NodeRec /\ pool[n].end # Null
      BY <3>2, <3>3, ElementOfSeq DEF PoolOK, PoolTiled
    <3>5. pool[n].end \in Null .. Len(input)
      BY <3>4 DEF NodeRec
    <3>6. next \in Tokens
      <4>1. \A e \in Null .. Len(input) : e # Null => e + 1 \in Tokens
        BY Tables DEF Null
      <4> QED BY <3>2, <3>4, <3>5, <4>1
    <3> QED BY <1>1, <2>2, <3>6
  <2> QED BY <2>1, <2>2
<1> QED BY <1>1, <1>2, <1>4, <1>6, <1>7 DEF Tiled

\* So it keeps Tiled.
LEMMA EnterTiled ==
    ASSUME Typed, Tiled, Kept', Rebuildable, NEW n, NEW pool, NEW next, EnterLeave(n, pool, next)
    PROVE  Tiled'
<1>1. /\ SameGrammar /\ callee \in Rules /\ cur \in Tokens /\ Result(callee, n, pool, next)
      /\ Leave(callee, cur, n, pool, next, stack)
  BY DEF EnterLeave, Entered, SameGrammar, Typed
<1>2. PoolTiled(pool) /\ (n # Fail => Placed(callee, cur, pool[n]))
  BY EnterPlaced DEF Tiled
<1> QED BY <1>1, <1>2, LeaveTiled

\* The replay of a choice or a production never moves.
LEMMA SamePlace ==
    ASSUME Typed, Packrat, Tiled, Rebuildable, mode = "ret", stack # << >>,
           Type(Top.rule) \in {"choice", "production"}
    PROVE  InPlace
<1> DEFINE r == Top.rule
           s == Top.start
<1>1. /\ r \in Rules /\ s \in Tokens /\ Top.n \in Nat /\ Reaches(Top, ret.tok)
      /\ ret.rule = Called(r, Top.n) /\ ret.rule \in Rules
  BY Returned
<1>m. PICK m \in Nat : \E w : Trace(w, m, r, s) /\ w[m] = [tok |-> ret.tok, n |-> Top.n]
  BY <1>1 DEF Reaches
<1>2. PICK w : Trace(w, m, r, s) /\ w[m] = [tok |-> ret.tok, n |-> Top.n]
  BY <1>m
<1> HIDE DEF r, s
<1>3. w[m].tok = ret.tok /\ w[0].tok = s
  BY <1>2 DEF Trace
<1>4. CASE Type(r) = "choice"
  <2> DEFINE S == {i \in Nat : i <= m => w[i].tok = s}
  <2>1. 0 \in S
    BY <1>3
  <2>2. ASSUME NEW i \in Nat, i \in S PROVE i + 1 \in S
    <3> SUFFICES ASSUME i + 1 <= m PROVE w[i + 1].tok = s
      OBVIOUS
    <3>1. i \in 0 .. m - 1 /\ w[i].tok = s
      BY <2>2
    <3>2. Steps(r, w[i], w[i + 1])
      BY <1>2, <3>1 DEF Trace
    <3> QED BY <1>4, <3>1, <3>2 DEF Steps, Moved
  <2>3. \A i \in Nat : i \in S
    <3> HIDE DEF S
    <3> QED BY <2>1, <2>2, InductionOnSet
  <2>4. ret.tok = s
    BY <1>3, <2>3
  <2>5. ASSUME r \notin Loose PROVE ret.rule \notin Loose
    <3>1. ret.rule \in SubRules(grammar[r])
      <4>1. FrameOK(Top)
        BY StackTop
      <4>2. Top.n < Len(grammar[r].deps) /\ Len(grammar[r].deps) \in Nat
        BY <1>1, <1>4, <4>1, Tables DEF FrameOK, RuleAssumption, Type, r
      <4>3. Top.n + 1 \in 1 .. Len(grammar[r].deps) /\ ret.rule = grammar[r].deps[Top.n + 1]
        BY <1>1, <1>4, <4>2 DEF Called
      <4>4. Top.n + 1 \in DOMAIN grammar[r].deps
        BY <4>3
      <4> QED BY <1>4, <4>3, <4>4 DEF SubRules, Type
    <3>2. SubRules(grammar[r]) \cap Loose = {}
      BY <1>1, <1>4, <2>5, LooseRules DEF LookaheadsIn, Type, Rules
    <3> QED BY <3>1, <3>2
  <2> QED BY <1>4, <2>4, <2>5 DEF InPlace, r, s
<1>5. CASE Type(r) = "production"
  <2>1. m = 0
    <3> SUFFICES ASSUME m # 0 PROVE FALSE
      OBVIOUS
    <3>1. 0 \in 0 .. m - 1
      BY <1>2
    <3>2. Steps(r, w[0], w[0 + 1])
      BY <1>2, <3>1 DEF Trace
    <3> QED BY <1>5, <3>2 DEF Steps, Goes
  <2>2. ret.rule = grammar[r].rule
    BY <1>1, <1>5 DEF Called
  <2>3. ret.rule \notin Loose
    BY <1>1, <1>5, <2>2, LooseRules DEF LookaheadsIn, Type, Rules
  <2> QED BY <1>3, <1>5, <2>1, <2>2, <2>3 DEF InPlace, r, s
<1> QED BY <1>4, <1>5 DEF r

\* The frame that leaves keeps Tiled, whatever it leaves with.
LEMMA ResumeTiled ==
    ASSUME Typed, Packrat, Tiled, Kept', Rebuildable, NEW n, NEW pool, NEW next, ResumeLeave(n, pool, next)
    PROVE  Tiled'
<1>1. /\ SameGrammar /\ mode = "ret" /\ stack # << >> /\ Result(Top.rule, n, pool, next)
      /\ Leave(Top.rule, Top.start, n, pool, next, Below)
  BY DEF ResumeLeave, Resumed, SameGrammar
<1>2. /\ Top.rule \in Rules /\ Top.start \in Tokens
      /\ ret.rule \in Rules /\ ret.tok \in Tokens /\ ret.node = memo[ret.rule][ret.tok]
      /\ Ok => Real(ret.node)
  BY <1>1, Returned
<1>3. Ok => ret.node \in 1 .. Len(nodes) /\ Placed(ret.rule, ret.tok, nodes[ret.node])
  BY <1>2, FoundNode DEF Tiled
<1>4. Type(Top.rule) \in {"choice", "production"} => InPlace
  BY <1>1, SamePlace
<1>5. \A k \in Nat : Spans(k, next) /\ Rebuilds(Top.rule, Top.start, k) => Lies(k, next)
  BY <1>1, SpanTiles DEF Lies
<1>6. PoolTiled(pool) /\ (n # Fail => Placed(Top.rule, Top.start, pool[n]))
  BY <1>2, <1>3, <1>4, <1>5, ResumePlaced DEF Tiled
<1> QED BY <1>1, <1>2, <1>6, LeaveTiled

\* The children of a node are always found again.
LEMMA NothingBreaks ==
    ASSUME Typed, Packrat, Tiled, Rebuildable, mode = "ret", stack # << >>
    PROVE  ~Breaks
<1>1. ASSUME NEW k \in Nat, NEW next, Spans(k, next) PROVE Rebuilds(Top.rule, Top.start, k)
  BY <1>1, SpanTiles
<1>2. ASSUME Type(Top.rule) = "production", Ok
      PROVE  Rebuilds(Top.rule, nodes[ret.node].start, 1)
  <2>1. /\ ret.rule \in Rules /\ ret.tok \in Tokens /\ ret.node = memo[ret.rule][ret.tok]
        /\ Real(ret.node)
    BY <1>2, Returned
  <2>2. ret.rule \notin Loose /\ ret.rule = grammar[Top.rule].rule
    BY <1>2, SamePlace DEF InPlace
  <2>3. nodes[ret.node].start = ret.tok
    BY <2>1, <2>2, FoundNode
  <2> DEFINE one == 1
             u == [i \in 0 .. 1 |-> IF i = 0 THEN ret.tok ELSE nodes[ret.node].end + 1]
  <2>4. ChildRule(Top.rule, 1) = ret.rule
    BY <1>2, <2>2 DEF ChildRule
  <2>5. u[0] = ret.tok /\ u[1] = nodes[ret.node].end + 1
    OBVIOUS
  <2> HIDE DEF u
  <2>6. Linked(Top.rule, u, one)
    <3>1. \A i \in 1 .. one : i = 1 /\ i - 1 = 0
      OBVIOUS
    <3> QED BY <2>1, <2>4, <2>5, <3>1 DEF Linked
  <2>7. one \in Nat
    OBVIOUS
  <2> HIDE DEF one
  <2>8. Rebuilds(Top.rule, u[0], one)
    BY <2>6, <2>7, WalkFollows
  <2> QED BY <2>3, <2>5, <2>8 DEF one
<1> QED BY <1>1, <1>2 DEF Breaks

\* Every action of the engine keeps Tiled.
LEMMA StepTiled ==
    ASSUME Typed, Packrat, Tiled, Kept', Rebuildable, Next
    PROVE  Tiled'
<1>1. ASSUME SameGrammar, UNCHANGED <<nodes, memo>>, mode' # "crash",
             mode' \in {"call", "ret"} => cur' \in Tokens, mode' = "ret" => ret'.tok \in Tokens
      PROVE  Tiled'
  <2>1. /\ Rules' = Rules /\ Tokens' = Tokens /\ Simplifies(grammar)' = Simplifies(grammar)
        /\ Loose' = Loose
    BY <1>1, SameTables DEF SameGrammar, Simplifies, Loose
  <2>2. PoolTiled(nodes)'
    BY <1>1, <2>1 DEF Tiled, PoolTiled, Tiles
  <2>3. \A q \in Rules', u \in Tokens' : Real(memo[q][u])' => Placed(q, u, nodes[memo[q][u]])'
    BY <1>1, <2>1 DEF Tiled, Placed, Real
  <2> QED BY <1>1, <2>1, <2>2, <2>3 DEF Tiled
<1>2. CASE Answered
  <2>1. /\ SameGrammar /\ UNCHANGED <<nodes, memo>> /\ mode = "call" /\ cur \in Tokens /\ callee \in Rules
        /\ CachedResult = memo[callee][cur] /\ cur # Null
    BY <1>2, Tables DEF Answered, SameGrammar, Tiled, Typed, CachedResult, Parser_check_cache, token_head, Null
  <2>2. CachedResult # NoNode
    BY <1>2, <2>1 DEF Answered
  <2>3. Real(CachedResult) => nodes[CachedResult].end # Null /\ nodes[CachedResult].end + 1 \in Tokens
    <3>1. ASSUME Real(CachedResult)
          PROVE  nodes[CachedResult].end \in 0 .. Len(input) /\ nodes[CachedResult].end + 1 \in Tokens
      BY <2>1, <3>1, FoundNode
    <3>2. \A e \in 0 .. Len(input) : e # Null
      BY Tables DEF Null
    <3> QED BY <3>1, <3>2
  <2>4. /\ mode' = "ret" /\ ret'.tok = cur
        /\ cur' = IF CachedResult = Fail THEN cur ELSE nodes[CachedResult].end + 1
    BY <1>2, <2>1, <2>2, <2>3 DEF Answered
  <2>5. cur' \in Tokens
    BY <2>1, <2>2, <2>3, <2>4 DEF Real
  <2> QED BY <1>1, <2>1, <2>4, <2>5
<1>3. CASE Finish
  BY <1>1, <1>3 DEF Finish, SameGrammar
<1>4. CASE EnterCall
  BY <1>1, <1>4 DEF EnterCall, Entered, CallFrom, SameGrammar
<1>5. ASSUME NEW f, ResumeCall(f) PROVE Tiled'
  <2>1. SameGrammar /\ mode = "ret" /\ UNCHANGED <<nodes, memo, cur>> /\ mode' = "call"
    BY <1>5 DEF ResumeCall, Resumed, CallFrom, SameGrammar
  <2> QED BY <1>1, <2>1 DEF Tiled
<1>6. CASE ResumeCrash
  BY <1>6, NothingBreaks DEF ResumeCrash, Resumed
<1> QED BY <1>2, <1>3, <1>4, <1>5, <1>6, EnterTiled, ResumeTiled, NextShape DEF Shape

\* Tiled holds when a parse starts.
LEMMA InitTiled == Init => Tiled
<1> SUFFICES ASSUME Init PROVE Tiled
  OBVIOUS
<1>1. nodes = << >> /\ Len(nodes) = 0 /\ mode = "call"
  BY EmptySeq DEF Init
<1>2. PoolTiled(nodes)
  BY <1>1 DEF PoolTiled
<1>3. \A r \in Rules, t \in Tokens : ~Real(memo[r][t])
  BY DEF Init, Real
<1>4. cur \in Tokens
  BY InitTyped, Tables DEF Init
<1> QED BY <1>1, <1>2, <1>3, <1>4 DEF Tiled

\* The three invariants together: Packrat needs Tiled where nodes are replaced, Tiled
\* needs Packrat.
Inv == Typed /\ Packrat /\ (Rebuildable => Tiled)

\* No build action replaces a node by one that ends elsewhere.
LEMMA InvKeepsEnds ==
    ASSUME Replayable, Inv
    PROVE  KeepsEnds(nodes)
<1>1. grammar \in Grammars /\ input \in Inputs
  BY DEF Inv, Typed
<1>2. CASE Simplifies(grammar)
  <2>1. Rebuildable
    BY <1>1, <1>2 DEF Replayable, Rebuildable
  <2> QED BY <2>1, PoolKeepsEnds DEF Inv, Tiled
<1>3. CASE ~Simplifies(grammar)
  BY <1>1, <1>3 DEF Replayable, KeepsEnds
<1> QED BY <1>2, <1>3

\* The three are inductive together.
LEMMA InvInductive ==
    ASSUME Replayable
    PROVE  Inv /\ [Next /\ Kept']_vars => Inv'
<1> SUFFICES ASSUME Inv, [Next /\ Kept']_vars PROVE Inv'
  OBVIOUS
<1>1. Typed' /\ Packrat'
  BY InvKeepsEnds, TypedInductive, PackratInductive DEF Inv
<1>2. Rebuildable' = Rebuildable
  <2>1. SameGrammar
    BY NextShape DEF Inv, vars, SameGrammar, Shape, Answered, Finish, EnterLeave, EnterCall, Entered,
                     ResumeLeave, ResumeCall, ResumeCrash, Resumed
  <2> QED BY <2>1 DEF Rebuildable, SameGrammar
<1>3. ASSUME Rebuildable, Next, Kept' PROVE Tiled'
  BY <1>3, StepTiled DEF Inv
<1>4. ASSUME Rebuildable, UNCHANGED vars PROVE Tiled'
  BY <1>4 DEF vars, Inv, Tiled, PoolTiled, Tiles, Placed, Loose, Rules, Tokens, token_tail
<1> QED BY <1>1, <1>2, <1>3, <1>4 DEF Inv

\* A cache that loses nothing keeps every result.
LEMMA NothingLost ==
    ASSUME Typed, ~MayLose, Next
    PROVE  Kept'
<1>1. CASE Answered
  <2>1. SameGrammar /\ memo' = memo /\ (mode' = "ret" => ret' = [rule |-> callee, tok |-> cur, node |-> CachedResult])
    <3>1. cur # Null
      BY Tables DEF Typed, Null
    <3> QED BY <1>1, <3>1 DEF Answered, SameGrammar
  <2> QED BY <2>1, SameTables DEF Kept, CachedResult, Parser_check_cache
<1>2. CASE Finish
  BY <1>2 DEF Finish, Kept
<1>3. CASE EnterCall
  BY <1>3 DEF EnterCall, CallFrom, Kept
<1>4. ASSUME SameGrammar, NEW r \in Rules, NEW t \in Tokens, NEW n, NEW pool, NEW next, NEW rest,
             Leave(r, t, n, pool, next, rest)
      PROVE  Kept'
  <2>1. /\ ret' = [rule |-> r, tok |-> t, node |-> n]
        /\ memo' = [memo EXCEPT ![r][t] = n]
    BY <1>4 DEF Leave, Parser_cache_check
  <2>2. memo \in [Rules -> [Tokens -> NoNode .. Len(nodes)]]
    BY DEF Typed
  <2>3. memo'[r][t] = n
    BY <2>1, <2>2
  <2>4. t \in Tokens' /\ t # token_head
    BY <1>4, SameTables, Tables DEF token_head
  <2>5. Parser_check_cache(r, t)' = n
    BY <2>3, <2>4, Zenon DEF Parser_check_cache
  <2> QED BY <2>1, <2>5 DEF Kept
<1>5. ASSUME NEW n, NEW pool, NEW next, EnterLeave(n, pool, next) PROVE Kept'
  <2>1. /\ SameGrammar /\ callee \in Rules /\ cur \in Tokens
        /\ Leave(callee, cur, n, pool, next, stack)
    BY <1>5 DEF EnterLeave, Entered, SameGrammar, Typed
  <2> QED BY <1>4, <2>1
<1>6. ASSUME NEW n, NEW pool, NEW next, ResumeLeave(n, pool, next) PROVE Kept'
  <2>1. /\ SameGrammar /\ mode = "ret" /\ stack # << >>
        /\ Leave(Top.rule, Top.start, n, pool, next, Below)
    BY <1>6 DEF ResumeLeave, Resumed, SameGrammar
  <2>2. Top.rule \in Rules /\ Top.start \in Tokens
    BY <2>1, StackTop DEF FrameRec
  <2> QED BY <1>4, <2>1, <2>2
<1>7. ASSUME NEW f, ResumeCall(f) PROVE Kept'
  BY <1>7 DEF ResumeCall, CallFrom, Kept
<1>8. CASE ResumeCrash
  BY <1>8 DEF ResumeCrash, Crash, Kept
<1> QED BY <1>1, <1>2, <1>3, <1>5, <1>6, <1>7, <1>8, NextShape DEF Shape

\* And hold in every reachable state.
THEOREM InvHolds ==
    ASSUME ~MayLose, Replayable
    PROVE  Spec => []Inv
<1>1. Init => Inv
  BY InitTyped, InitPackrat, InitTiled DEF Inv
<1>2. Inv /\ [Next]_vars => Inv'
  BY NothingLost, InvInductive DEF Inv
<1> QED BY <1>1, <1>2, PTL DEF Spec

\* Each evaluation of a rule at a token is still running or has left its result in the
\* cache: no rule is evaluated twice at a token (Rule_check).
THEOREM WorkIsLinear ==
    ASSUME ~MayLose, Replayable
    PROVE  Spec => []LinearWork
<1>1. Inv => LinearWork
  BY DEF Inv, Packrat
<1> QED BY <1>1, InvHolds, PTL

\* The fail node is at the furthest token any rule failed at and names a rule that did
\* (Parser_fail).
THEOREM FailureIsFurthest ==
    ASSUME ~MayLose, Replayable
    PROVE  Spec => []FurthestFailure
<1>1. Inv => FurthestFailure
  BY DEF Inv, Packrat
<1> QED BY <1>1, InvHolds, PTL

\* Every parse of the instance is one in which the children are found again.
AllRebuildable ==
    /\ \A g \in Grammars : ~ReturnsInner(g) /\ AnchoredNodes(g)
    /\ \A w \in Inputs : Roomy(w)

\* Which includes that replaying is exact.
LEMMA RebuildableReplays ==
    ASSUME AllRebuildable
    PROVE  Replayable /\ (Inv => Tiled)
BY DEF AllRebuildable, Replayable, Inv, Rebuildable, Typed

\* Parser_add_node finds every child of every node in the cache: nothing is
\* dereferenced through NULL.
THEOREM ParseNeverCrashes ==
    ASSUME ~MayLose, AllRebuildable
    PROVE  Spec => []NoCrash
<1>1. Replayable /\ (Inv => NoCrash)
  BY RebuildableReplays DEF Tiled, NoCrash
<1> QED BY <1>1, InvHolds, PTL
==============================================================================
