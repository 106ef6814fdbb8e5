------------------------ MODULE RuleLifecycleProofs -------------------------
(***************************************************************************)
(* Proofs about RuleLifecycle, for every generated parser, every set of      *)
(* rules made at run time and every choice of their classes.                 *)
(*                                                                           *)
(* The invariant says more than CompiledIsHeld: only a literal can be         *)
(* compiled, or a rule of another class constructed in its place would keep    *)
(* the flag; and at the level Rule a literal has its own table, or dest, which  *)
(* is called through that level, would not free the pattern.                   *)
(***************************************************************************)
EXTENDS RuleLifecycle, SequenceTheorems, TLAPS

\* What the proofs need of the types.
Typed ==
    /\ DOMAIN built = Objects
    /\ DOMAIN level = Objects
    /\ compiled \in [Objects -> BOOLEAN]
    /\ regex \in [Objects -> {"empty", "held"}]

\* Only a literal has its flag set.
OnlyLiterals == \A o \in Objects : compiled[o] => IsLiteral(o)

\* A literal has its own table at the level Rule.
LiteralsFree == \A o \in Objects : IsLiteral(o) => level[o]["Rule"] = "LiteralRule"

\* The inductive invariant.
IInv == Typed /\ CompiledIsHeld /\ OnlyLiterals /\ LiteralsFree

-----------------------------------------------------------------------------
(* The tables *)

\* The names of classes and levels.
Names == {"Rule", "ChainRule", "DerivedRule", "SequenceRule", "ChoiceRule", "LiteralRule", "ListRule",
          "RepeatRule", "NegativeLookahead", "PositiveLookahead", "Production"}

\* What constructors write: a level and the table for it.
Stores == Names \X Names

\* The last table that s writes into the level Rule is that of class.
EndsWith(s, class) ==
    /\ s \in Seq(Stores)
    /\ \E i \in 1 .. Len(s) : /\ s[i] = <<"Rule", class>>
                             /\ \A j \in 1 .. Len(s) : s[j][1] = "Rule" => j <= i

\* Two more stores at the end.
LEMMA TwoMore ==
    ASSUME NEW s \in Seq(Stores), NEW x \in Stores, NEW y \in Stores
    PROVE  LET t == s \o <<x, y>> IN
           /\ t \in Seq(Stores) /\ Len(t) = Len(s) + 2
           /\ t[Len(s) + 1] = x /\ t[Len(s) + 2] = y
<1> DEFINE e == <<x, y>>
<1>1. e \in Seq(Stores) /\ Len(e) = 2 /\ e[1] = x /\ e[2] = y
  OBVIOUS
<1> HIDE DEF e
<1>2. /\ s \o e \in Seq(Stores)
      /\ Len(s \o e) = Len(s) + 2
      /\ \A i \in 1 .. Len(s) + 2 : (s \o e)[i] = IF i <= Len(s) THEN s[i] ELSE e[i - Len(s)]
  <2>1. /\ s \o e \in Seq(Stores)
        /\ Len(s \o e) = Len(s) + Len(e)
        /\ \A i \in 1 .. Len(s) + Len(e) : (s \o e)[i] = IF i <= Len(s) THEN s[i] ELSE e[i - Len(s)]
    BY <1>1, ConcatProperties
  <2> QED BY <1>1, <2>1
<1>3. Len(s) \in Nat
  OBVIOUS
<1>4. (s \o e)[Len(s) + 1] = x /\ (s \o e)[Len(s) + 2] = y
  BY <1>1, <1>2, <1>3
<1> QED BY <1>2, <1>4 DEF e

\* Whatever the base constructor wrote, the one that runs after it has the last word.
LEMMA DeriveEnds ==
    ASSUME NEW s \in Seq(Stores), NEW class \in Names, NEW l \in Names, l # "Rule"
    PROVE  EndsWith(s \o << <<"Rule", class>>, <<l, l>> >>, class)
<1> DEFINE x == <<"Rule", class>>
           y == <<l, l>>
           t == s \o <<x, y>>
<1>1. x \in Stores /\ y \in Stores /\ x[1] = "Rule" /\ y[1] = l
  BY DEF Stores, Names
<1> HIDE DEF x, y
<1>2. t \in Seq(Stores) /\ Len(t) = Len(s) + 2 /\ t[Len(s) + 1] = x /\ t[Len(s) + 2] = y
  BY <1>1, TwoMore
<1>3. Len(s) \in Nat
  OBVIOUS
<1> HIDE DEF t
<1>4. \A j \in 1 .. Len(t) : t[j][1] = "Rule" => j <= Len(s) + 1
  BY <1>1, <1>2, <1>3
<1>5. Len(s) + 1 \in 1 .. Len(t) /\ t[Len(s) + 1] = <<"Rule", class>>
  BY <1>2, <1>3 DEF x
<1>6. EndsWith(t, class)
  BY <1>2, <1>4, <1>5 DEF EndsWith
<1> QED BY <1>6 DEF t, x, y

\* A store into another level does not change that.
LEMMA AppendEnds ==
    ASSUME NEW s, NEW class \in Names, EndsWith(s, class), NEW l \in Names, l # "Rule"
    PROVE  EndsWith(Append(s, <<l, class>>), class)
<1> DEFINE y == <<l, class>>
           t == Append(s, y)
<1>1. y \in Stores /\ y[1] = l /\ s \in Seq(Stores)
  BY DEF Stores, EndsWith
<1> HIDE DEF y
<1>2. /\ t \in Seq(Stores) /\ Len(t) = Len(s) + 1 /\ t[Len(s) + 1] = y
      /\ \A i \in 1 .. Len(s) : t[i] = s[i]
      /\ Len(s) \in Nat
  BY <1>1
<1> HIDE DEF t
<1>3. PICK i \in 1 .. Len(s) : /\ s[i] = <<"Rule", class>>
                              /\ \A j \in 1 .. Len(s) : s[j][1] = "Rule" => j <= i
  BY DEF EndsWith
<1>4. i \in 1 .. Len(t) /\ t[i] = <<"Rule", class>>
  BY <1>2, <1>3
<1>5. \A j \in 1 .. Len(t) : t[j][1] = "Rule" => j <= i
  BY <1>1, <1>2, <1>3
<1>6. EndsWith(t, class)
  BY <1>2, <1>4, <1>5 DEF EndsWith
<1> QED BY <1>6 DEF t, y

\* The table found at the level Rule of a rule of class.
RuleLevel(class) == IF class = "DerivedRule" THEN "ListRule" ELSE class

\* What Derive and DeriveAll make of a base whose stores are a sequence.
LEMMA Derived ==
    ASSUME NEW base, base.stores \in Seq(Stores), NEW class \in Names, class # "Rule",
           NEW type, NEW check
    PROVE  /\ EndsWith(Derive(base, class, type, check).stores, class)
           /\ base.stores[Len(base.stores)][1] = "DerivedRule"
                 => EndsWith(DeriveAll(base, class, type, check).stores, class)
<1> DEFINE d == Derive(base, class, type, check)
<1>1. d.stores = base.stores \o << <<"Rule", class>>, <<class, class>> >>
  BY DEF Derive, Class
<1>2. EndsWith(d.stores, class)
  BY <1>1, DeriveEnds DEF Names
<1>3. DeriveAll(base, class, type, check).stores
        = Append(d.stores, <<base.stores[Len(base.stores)][1], class>>)
  BY DEF DeriveAll, Derive, Class
<1> HIDE DEF d
<1>4. "DerivedRule" \in Names /\ "DerivedRule" # "Rule"
  BY DEF Names
<1> QED BY <1>2, <1>3, <1>4, AppendEnds DEF d

\* The stores of every class, and of the two abstract ones that others derive from.
LEMMA StoresEnd == \A class \in DOMAIN Table : EndsWith(Table[class].stores, RuleLevel(class))
<1>1. Rule_class.stores = << <<"Rule", "Rule">> >> /\ Rule_class.stores \in Seq(Stores)
  BY DEF Rule_class, Class, Stores, Names
<1>2. EndsWith(Rule_class.stores, "Rule")
  BY <1>1 DEF EndsWith
<1>3. EndsWith(ChainRule_class.stores, "ChainRule") /\ ChainRule_class.stores \in Seq(Stores)
  BY <1>1, Derived DEF ChainRule_class, EndsWith, Names
<1>4. /\ EndsWith(SequenceRule_class.stores, "SequenceRule")
      /\ EndsWith(ChoiceRule_class.stores, "ChoiceRule")
  BY <1>3, Derived DEF Names, SequenceRule_class, ChoiceRule_class
<1>5. EndsWith(LiteralRule_class.stores, "LiteralRule")
  <2>1. LiteralRule_class.stores = Derive(Rule_class, "LiteralRule", "PEG_LITERAL", "LiteralRule").stores
    BY DEF LiteralRule_class, Derive, Class
  <2> QED BY <1>1, <2>1, Derived DEF Names
<1>6. /\ EndsWith(DerivedRule_class.stores, "ListRule")
      /\ DerivedRule_class.stores \in Seq(Stores)
      /\ DerivedRule_class.stores[Len(DerivedRule_class.stores)][1] = "DerivedRule"
  <2> DEFINE x == <<"Rule", "ListRule">>
             y == <<"DerivedRule", "DerivedRule">>
  <2>1. DerivedRule_class.stores = Rule_class.stores \o <<x, y>>
    BY DEF DerivedRule_class, Class
  <2>2. x \in Stores /\ y \in Stores /\ y[1] = "DerivedRule"
    BY DEF Stores, Names
  <2>3. EndsWith(Rule_class.stores \o <<x, y>>, "ListRule")
    BY <1>1, DeriveEnds DEF Names
  <2> HIDE DEF x, y
  <2>4. DerivedRule_class.stores[Len(DerivedRule_class.stores)] = y
    BY <1>1, <2>1, <2>2, TwoMore
  <2> QED BY <2>1, <2>2, <2>3, <2>4 DEF EndsWith
<1>7. /\ EndsWith(ListRule_class.stores, "ListRule")
      /\ EndsWith(RepeatRule_class.stores, "RepeatRule")
      /\ EndsWith(NegativeLookahead_class.stores, "NegativeLookahead")
      /\ EndsWith(PositiveLookahead_class.stores, "PositiveLookahead")
      /\ EndsWith(Production_class.stores, "Production")
  BY <1>6, Derived DEF Names, ListRule_class, RepeatRule_class, NegativeLookahead_class,
                       PositiveLookahead_class, Production_class
<1> QED BY <1>2, <1>3, <1>4, <1>5, <1>6, <1>7 DEF Table, RuleLevel

\* Every constructor leaves the right table at the level Rule.
LEMMA RuleDispatch ==
    ASSUME NEW class \in DOMAIN Table
    PROVE  "Rule" \in Levels(class) /\ Constructed(class)["Rule"] = RuleLevel(class)
<1> DEFINE s == Table[class].stores
           LastRule(i) == s[i][1] = "Rule" /\ \A j \in DOMAIN s : s[j][1] = "Rule" => j <= i
<1>1. s \in Seq(Stores) /\ DOMAIN s = 1 .. Len(s) /\ EndsWith(s, RuleLevel(class))
  <2>1. EndsWith(s, RuleLevel(class))
    BY StoresEnd
  <2> HIDE DEF s
  <2> QED BY <2>1 DEF EndsWith
<1> HIDE DEF s
<1>2. PICK i \in 1 .. Len(s) : /\ s[i] = <<"Rule", RuleLevel(class)>>
                              /\ \A j \in 1 .. Len(s) : s[j][1] = "Rule" => j <= i
  BY <1>1 DEF EndsWith
<1>3. s[i][1] = "Rule" /\ s[i][2] = RuleLevel(class)
  BY <1>2
<1>4. (CHOOSE j \in DOMAIN s : LastRule(j)) = i
  <2>1. LastRule(i) /\ i \in DOMAIN s
    BY <1>1, <1>2, <1>3
  <2>2. \A j \in DOMAIN s : LastRule(j) => j = i
    BY <1>1, <1>2, <1>3
  <2> QED BY <2>1, <2>2
<1>5. "Rule" \in Levels(class)
  BY <1>1, <1>3 DEF Levels, s
<1>6. Constructed(class)["Rule"] = s[CHOOSE j \in DOMAIN s : LastRule(j)][2]
  BY <1>5 DEF Constructed, s
<1> QED BY <1>3, <1>4, <1>5, <1>6

\* A literal is dispatched as one at the level Rule.
LEMMA LiteralDispatch ==
    /\ "Rule" \in Levels("LiteralRule")
    /\ Constructed("LiteralRule")["Rule"] = "LiteralRule"
<1>1. "LiteralRule" \in DOMAIN Table
  BY DEF Table
<1> QED BY <1>1, RuleDispatch DEF RuleLevel

\* So that dest, called through that level, frees its pattern.
LEMMA LiteralFrees ==
    ASSUME NEW o \in Objects, IsLiteral(o), level[o]["Rule"] = "LiteralRule"
    PROVE  Frees(o)
<1>1. Table["LiteralRule"].dest = "LiteralRule_dest"
  BY DEF Table, LiteralRule_class, Derive, Class
<1> QED BY <1>1 DEF Frees, Live, IsLiteral

-----------------------------------------------------------------------------
(* The invariant *)

\* A generated parser starts with nothing compiled.
LEMMA InitInv == Init => IInv
<1> SUFFICES ASSUME Init PROVE IInv
  OBVIOUS
<1> USE DEF Init
<1>1. Typed /\ CompiledIsHeld /\ OnlyLiterals
  BY DEF Typed, CompiledIsHeld, OnlyLiterals
<1>2. ASSUME NEW o \in Objects, IsLiteral(o)
      PROVE  level[o]["Rule"] = "LiteralRule"
  <2>1. Static(o) /\ Generated[o] = "LiteralRule"
    BY <1>2 DEF IsLiteral
  <2>2. level[o] = [l \in Levels("LiteralRule") |-> "LiteralRule"]
    BY <2>1
  <2> QED BY <2>2, LiteralDispatch
<1> QED BY <1>1, <1>2 DEF IInv, LiteralsFree

\* Compiling the pattern of a literal sets the flag exactly when it holds one.
LEMMA CompileKeeps ==
    ASSUME Typed, CompiledIsHeld, NEW o \in Objects, NEW buffer,
           LiteralRule_compile_regex(o, buffer)
    PROVE  /\ compiled' \in [Objects -> BOOLEAN]
           /\ regex' \in [Objects -> {"empty", "held"}]
           /\ CompiledIsHeld'
           /\ \A p \in Objects : p # o => compiled'[p] = compiled[p]
BY DEF Typed, CompiledIsHeld, LiteralRule_compile_regex

\* A constructor over memory where nothing is compiled, or over a rule of the
\* same class.
LEMMA ConstructKeeps ==
    ASSUME IInv, NEW o \in Objects, NEW class, NEW buffer,
           Construct(o, class, buffer), ~Live(o) \/ built[o] = class
    PROVE  IInv'
<1> USE DEF IInv
<1>1. /\ built' = [built EXCEPT ![o] = class]
      /\ level' = [level EXCEPT ![o] = Constructed(class)]
  BY DEF Construct
<1>2. LiteralsFree'
  BY <1>1, LiteralDispatch DEF LiteralsFree, Typed, IsLiteral
<1>3. CASE class = "LiteralRule"
  <2>1. LiteralRule_compile_regex(o, buffer)
    BY <1>3 DEF Construct
  <2>2. OnlyLiterals'
    BY <1>1, <1>3, <2>1, CompileKeeps DEF OnlyLiterals, Typed, IsLiteral
  <2> QED BY <1>1, <1>2, <2>1, <2>2, CompileKeeps DEF Typed
<1>4. CASE class # "LiteralRule"
  <2>1. regex' = [regex EXCEPT ![o] = "empty"] /\ compiled' = compiled
    BY <1>4 DEF Construct
  <2>2. ~compiled[o]
    BY <1>4 DEF OnlyLiterals, Typed, Live, IsLiteral
  <2> QED BY <1>1, <1>2, <2>1, <2>2 DEF Typed, CompiledIsHeld, OnlyLiterals, IsLiteral
<1> QED BY <1>3, <1>4

\* The destructors empty the buffers and clear the flags of the literals they are given.
LEMMA ReleaseKeeps ==
    ASSUME IInv, NEW S, Release(S)
    PROVE  IInv'
<1> USE DEF IInv, Release, ClearFlags
<1>1. Typed' /\ CompiledIsHeld'
  BY DEF Typed, CompiledIsHeld
<1>2. OnlyLiterals' /\ LiteralsFree'
  BY DEF Typed, OnlyLiterals, LiteralsFree, IsLiteral
<1> QED BY <1>1, <1>2

\* Every step keeps the invariant.
LEMMA NextInv == IInv /\ [Next]_vars => IInv'
<1> SUFFICES ASSUME IInv, [Next]_vars PROVE IInv'
  OBVIOUS
<1>1. CASE UNCHANGED vars
  BY <1>1 DEF IInv, Typed, CompiledIsHeld, OnlyLiterals, LiteralsFree, IsLiteral, vars
<1>2. ASSUME NEW o \in Heap, NEW class \in Classes, New(o, class) PROVE IInv'
  BY <1>2, ConstructKeeps DEF New, Objects
<1>3. ASSUME NEW o \in Objects, Reinit(o) PROVE IInv'
  BY <1>3, ConstructKeeps DEF Reinit
<1>4. ASSUME NEW o \in Objects, Check(o) PROVE IInv'
  <2>1. IsLiteral(o) /\ built' = built /\ level' = level
    BY <1>4 DEF Check
  <2>2. CASE compiled[o]
    BY <1>4, <2>1, <2>2 DEF Check, IInv, Typed, CompiledIsHeld, OnlyLiterals, LiteralsFree, IsLiteral
  <2>3. CASE ~compiled[o]
    <3>1. LiteralRule_compile_regex(o, regex[o])
      BY <1>4, <2>3 DEF Check
    <3> QED BY <2>1, <3>1, CompileKeeps DEF IInv, Typed, OnlyLiterals, LiteralsFree, IsLiteral
  <2> QED BY <2>2, <2>3
<1>5. ASSUME NEW o \in Objects, Dest(o) PROVE IInv'
  BY <1>5, ReleaseKeeps DEF Dest
<1>6. ASSUME NEW o \in Heap, Del(o) PROVE IInv'
  BY <1>6 DEF Del, Objects, IInv, Typed, CompiledIsHeld, OnlyLiterals, LiteralsFree, IsLiteral
<1>7. CASE X_dest
  BY <1>7, ReleaseKeeps DEF X_dest
<1> QED BY <1>1, <1>2, <1>3, <1>4, <1>5, <1>6, <1>7 DEF Next

\* The invariant holds throughout.
LEMMA Inductive == Spec => []IInv
<1> QED BY InitInv, NextInv, PTL DEF Spec

-----------------------------------------------------------------------------
(* The theorems *)

\* However a literal is constructed, used, destroyed and used again, it believes
\* it is compiled exactly while its buffer holds a pattern.
THEOREM CompiledCorrect == Spec => []CompiledIsHeld
<1>1. IInv => CompiledIsHeld
  BY DEF IInv
<1> QED BY <1>1, Inductive, PTL

\* What one step may do to the patterns.
Freed ==
    /\ lost' /\ ~lost => \E o \in Objects : Reinit(o)
    /\ (X_dest /\ "hole" \notin {Generated[i] : i \in 1 .. Len(Generated)}) =>
           \A i \in 1 .. Len(Generated) : regex'[i] # "held"

\* Patterns are lost only by constructing over a rule in use, and X_dest frees
\* those of every rule of an array without a hole.
THEOREM NoPatternLeft == Spec => PatternsAreFreed
<1>1. IInv /\ [Next]_vars => [Freed]_vars
  <2> SUFFICES ASSUME IInv, Next PROVE Freed
    BY DEF vars
  <2>1. ASSUME lost', ~lost PROVE \E o \in Objects : Reinit(o)
    <3>1. ASSUME NEW o \in Heap, NEW class \in Classes, New(o, class) PROVE FALSE
      BY <2>1, <3>1 DEF New, Construct, LiteralRule_compile_regex
    <3>2. ASSUME NEW o \in Objects, Check(o) PROVE FALSE
      BY <2>1, <3>2 DEF Check, LiteralRule_compile_regex, IInv, CompiledIsHeld
    <3>3. ASSUME NEW o \in Objects, Dest(o) PROVE FALSE
      BY <2>1, <3>3 DEF Dest, Release
    <3>4. ASSUME NEW o \in Heap, Del(o) PROVE FALSE
      <4>1. o \in Objects /\ regex[o] = "held" /\ ~Frees(o)
        BY <2>1, <3>4 DEF Del, Objects
      <4>2. IsLiteral(o) /\ level[o]["Rule"] = "LiteralRule"
        BY <4>1 DEF IInv, CompiledIsHeld, OnlyLiterals, LiteralsFree
      <4> QED BY <4>1, <4>2, LiteralFrees
    <3>5. CASE X_dest
      BY <2>1, <3>5 DEF X_dest, Release
    <3> QED BY <3>1, <3>2, <3>3, <3>4, <3>5 DEF Next
  <2>2. ASSUME X_dest, "hole" \notin {Generated[i] : i \in 1 .. Len(Generated)},
               NEW i \in 1 .. Len(Generated)
        PROVE  regex'[i] # "held"
    <3> DEFINE S == {k \in 1 .. Len(Generated) : \A j \in 1 .. k : Generated[j] # "hole"}
    <3>1. i \in S /\ i \in Objects
      BY <2>2 DEF Objects
    <3>2. regex' = [o \in Objects |-> IF o \in S /\ Frees(o) THEN "empty" ELSE regex[o]]
      BY <2>2 DEF X_dest, Release
    <3>3. regex[i] = "held" => Frees(i)
      BY <3>1, LiteralFrees DEF IInv, CompiledIsHeld, OnlyLiterals, LiteralsFree
    <3> QED BY <3>1, <3>2, <3>3
  <2> QED BY <2>1, <2>2 DEF Freed
<1>2. PatternsAreFreed <=> [][Freed]_vars
  BY DEF PatternsAreFreed, Freed
<1> QED BY <1>1, <1>2, Inductive, PTL DEF Spec

-----------------------------------------------------------------------------
(* Dispatch *)

\* Static rules keep the table the compiler gave them or get it again from the
\* constructor; none of them is a bare DerivedRule.
DispatchInv ==
    /\ DOMAIN built = Objects
    /\ DOMAIN level = Objects
    /\ \A o \in Objects : Live(o) => built[o] \in DOMAIN Table
    /\ \A o \in Objects \ Heap : built[o] # "DerivedRule"
    /\ DispatchAsConstructed

\* A constructor of the right kind of class keeps it.
LEMMA ConstructDispatches ==
    ASSUME DispatchInv, NEW o \in Objects, NEW class \in DOMAIN Table, NEW buffer,
           Construct(o, class, buffer), o \notin Heap => class # "DerivedRule"
    PROVE  DispatchInv'
<1>1. /\ built' = [built EXCEPT ![o] = class]
      /\ level' = [level EXCEPT ![o] = Constructed(class)]
  BY DEF Construct
<1> QED BY <1>1, RuleDispatch DEF DispatchInv, DispatchAsConstructed, Live, RuleLevel

\* However a rule was made, and made again, it is dispatched by its own class.
THEOREM DispatchCorrect == Spec => []DispatchAsConstructed
<1>1. Init => DispatchInv
  <2> SUFFICES ASSUME Init PROVE DispatchInv
    OBVIOUS
  <2>1. ASSUME NEW o \in Objects, Live(o)
        PROVE  Static(o) /\ built[o] = Generated[o] /\ built[o] \in DOMAIN Table \ {"DerivedRule"}
               /\ level[o] = [l \in Levels(built[o]) |-> built[o]] /\ o \notin Heap
    <3>1. Static(o) /\ built[o] = Generated[o] /\ level[o] = [l \in Levels(built[o]) |-> built[o]]
      BY <2>1 DEF Init, Live
    <3> QED BY <3>1, ClassesAssumption, RulesAssumption DEF Static
  <2>2. DispatchAsConstructed
    BY <2>1, RuleDispatch DEF DispatchAsConstructed
  <2>3. \A o \in Objects : ~Live(o) => built[o] # "DerivedRule"
    BY DEF Live
  <2> QED BY <2>1, <2>2, <2>3 DEF DispatchInv, Init
<1>2. DispatchInv /\ [Next]_vars => DispatchInv'
  <2> SUFFICES ASSUME DispatchInv, [Next]_vars PROVE DispatchInv'
    OBVIOUS
  <2>1. ASSUME NEW o \in Heap, NEW class \in Classes, New(o, class) PROVE DispatchInv'
    BY <2>1, ConstructDispatches, ClassesAssumption DEF New, Objects
  <2>2. ASSUME NEW o \in Objects, Reinit(o) PROVE DispatchInv'
    BY <2>2, ConstructDispatches DEF Reinit, DispatchInv
  <2>3. ASSUME UNCHANGED <<built, level>> PROVE DispatchInv'
    BY <2>3 DEF DispatchInv, DispatchAsConstructed, Live
  <2>4. ASSUME NEW o \in Heap, Del(o) PROVE DispatchInv'
    BY <2>4 DEF Del, DispatchInv, DispatchAsConstructed, Live
  <2>5. CASE (\E o \in Objects : Check(o)) \/ (\E o \in Objects : Dest(o)) \/ X_dest \/ UNCHANGED vars
    BY <2>3, <2>5 DEF Check, Dest, X_dest, Release, vars
  <2> QED BY <2>1, <2>2, <2>4, <2>5 DEF Next
<1>3. DispatchInv => DispatchAsConstructed
  BY DEF DispatchInv
<1> QED BY <1>1, <1>2, <1>3, PTL DEF Spec
=============================================================================
