---------------------------- MODULE RuleLifecycle ----------------------------
(***************************************************************************)
(* The life of a rule: the class tables, constructors and destructors of    *)
(* src/rule.c, the static rules and the X_dest function of a generated      *)
(* parser (include/peg4c/parser_gen.h, src/peg4cbuild.c), and the regular    *)
(* expression a LiteralRule compiles at its first use.                      *)
(***************************************************************************)
EXTENDS Naturals, Sequences

CONSTANTS
    Generated,   \* the array of rules of a generated parser: classes, or "hole" for NULL
    Heap,        \* names of the rules made at run time
    Classes      \* the classes they are made of

ASSUME RulesAssumption == Heap \cap (1 .. Len(Generated)) = {}

Objects == Heap \cup 1 .. Len(Generated)

\* A class: the values its init writes into the _class of each level, in order;
\* the rule type, dest and check_rule_ of its table.
Class(stores, type, dest, check) == [stores |-> stores, type |-> type, dest |-> dest, check |-> check]

Rule_class == Class(<< <<"Rule", "Rule">> >>, "PEG_RULE", "Rule_dest", "none")

\* Defect: the base constructor runs last.
DeriveBaseLast(base, class, type, check) ==
    Class(<< <<"Rule", class>>, <<class, class>> >> \o base.stores, type, base.dest, check)

\* The base constructor runs first, the level Rule and its own are written then.
Derive(base, class, type, check) ==
    Class(base.stores \o << <<"Rule", class>>, <<class, class>> >>, type, base.dest, check)

\* As Derive, and the level of the base is written too.
DeriveAll(base, class, type, check) ==
    [Derive(base, class, type, check) EXCEPT !.stores = Append(@, <<base.stores[Len(base.stores)][1], class>>)]

ChainRule_class == Derive(Rule_class, "ChainRule", "PEG_CHAIN", "none")
SequenceRule_class == Derive(ChainRule_class, "SequenceRule", "PEG_SEQUENCE", "SequenceRule")
ChoiceRule_class == Derive(ChainRule_class, "ChoiceRule", "PEG_CHOICE", "ChoiceRule")

\* Defect: the table keeps the destructor of Rule, which does nothing.
LiteralRuleKeepsDest == Derive(Rule_class, "LiteralRule", "PEG_LITERAL", "LiteralRule")

LiteralRule_class ==
    [Derive(Rule_class, "LiteralRule", "PEG_LITERAL", "LiteralRule") EXCEPT !.dest = "LiteralRule_dest"]

\* The level Rule of a DerivedRule is written as that of a ListRule.
DerivedRule_class ==
    Class(Rule_class.stores \o << <<"Rule", "ListRule">>, <<"DerivedRule", "DerivedRule">> >>,
          "PEG_DERIVED", "Rule_dest", "none")

ListRule_class == DeriveAll(DerivedRule_class, "ListRule", "PEG_LIST", "ListRule")
RepeatRule_class == DeriveAll(DerivedRule_class, "RepeatRule", "PEG_REPEAT", "RepeatRule")
NegativeLookahead_class ==
    DeriveAll(DerivedRule_class, "NegativeLookahead", "PEG_NEGATIVELOOKAHEAD", "NegativeLookahead")
PositiveLookahead_class ==
    DeriveAll(DerivedRule_class, "PositiveLookahead", "PEG_POSITIVELOOKAHEAD", "PositiveLookahead")
Production_class == DeriveAll(DerivedRule_class, "Production", "PEG_PRODUCTION", "Production")

Table == [
    Rule |-> Rule_class, ChainRule |-> ChainRule_class, DerivedRule |-> DerivedRule_class,
    SequenceRule |-> SequenceRule_class, ChoiceRule |-> ChoiceRule_class,
    LiteralRule |-> LiteralRule_class, ListRule |-> ListRule_class, RepeatRule |-> RepeatRule_class,
    NegativeLookahead |-> NegativeLookahead_class, PositiveLookahead |-> PositiveLookahead_class,
    Production |-> Production_class]

\* Rules are made of the classes of rule.h; parser_gen.h has no initialiser for a bare
\* DerivedRule.
ASSUME ClassesAssumption ==
    /\ Classes \subseteq DOMAIN Table
    /\ \A i \in 1 .. Len(Generated) : Generated[i] \in (DOMAIN Table \ {"DerivedRule"}) \cup {"hole"}

Levels(class) == {Table[class].stores[i][1] : i \in DOMAIN Table[class].stores}

\* What init leaves at each level: what it wrote there last.
Constructed(class) ==
    LET s == Table[class].stores IN
    [l \in Levels(class) |->
        s[CHOOSE i \in DOMAIN s : s[i][1] = l /\ \A j \in DOMAIN s : s[j][1] = l => j <= i][2]]

VARIABLES
    built,      \* the class each rule was made as, or "none"
    level,      \* the _class at each of its levels
    compiled,   \* the flag of a LiteralRule
    regex,      \* its buffer: "empty", or "held" by a pattern
    lost,       \* a pattern was overwritten without being freed
    state       \* "ok" or "undefined"

vars == <<built, level, compiled, regex, lost, state>>

\* Static rules have the tables of their class at every level, and zero memory.
Static(i) == i \in 1 .. Len(Generated) /\ Generated[i] # "hole"

Init ==
    /\ built = [o \in Objects |-> IF Static(o) THEN Generated[o] ELSE "none"]
    /\ level = [o \in Objects |->
                    IF Static(o) THEN [l \in Levels(Generated[o]) |-> Generated[o]] ELSE << >>]
    /\ compiled = [o \in Objects |-> FALSE]
    /\ regex = [o \in Objects |-> "empty"]
    /\ lost = FALSE
    /\ state = "ok"

Live(o) == built[o] # "none"
IsLiteral(o) == built[o] = "LiteralRule"

-----------------------------------------------------------------------------
(* LiteralRule_compile_regex: re_compile_pattern reuses the memory of a       *)
(* buffer that has some and writes where dirty memory points.  A pattern       *)
(* that does not compile leaves the buffer empty.                              *)
LiteralRule_compile_regex(o, buffer) ==
    \/ /\ regex' = [regex EXCEPT ![o] = "held"]
       /\ compiled' = [compiled EXCEPT ![o] = TRUE]
       /\ lost' = (lost \/ buffer = "held")
       /\ state' = state
    \/ /\ regex' = [regex EXCEPT ![o] = "empty"]
       /\ compiled' = [compiled EXCEPT ![o] = FALSE]
       /\ lost' = (lost \/ buffer = "held")
       /\ state' = state
    \/ /\ buffer = "dirty"
       /\ state' = "undefined"
       /\ UNCHANGED <<regex, compiled, lost>>

\* X_init: a literal is compiled at once and the outcome ignored.
Construct(o, class, buffer) ==
    /\ built' = [built EXCEPT ![o] = class]
    /\ level' = [level EXCEPT ![o] = Constructed(class)]
    /\ IF class = "LiteralRule"
       THEN LiteralRule_compile_regex(o, buffer)
       ELSE regex' = [regex EXCEPT ![o] = "empty"] /\ UNCHANGED <<compiled, lost, state>>

\* X_new: the memory is zero or not.
New(o, class) ==
    /\ state = "ok"
    /\ ~Live(o)
    /\ \E buffer \in {"dirty", "empty"} : Construct(o, class, buffer)

\* X_init of a rule that is in use; its buffer stays as it is.
Reinit(o) == state = "ok" /\ Live(o) /\ Construct(o, built[o], regex[o])

\* Rule_check of a literal compiles it if it is not; re_match needs the pattern.
Check(o) ==
    /\ state = "ok"
    /\ IsLiteral(o)
    /\ IF ~compiled[o] THEN LiteralRule_compile_regex(o, regex[o])
       ELSE /\ state' = IF regex[o] = "held" THEN state ELSE "undefined"
            /\ UNCHANGED <<regex, compiled, lost>>
    /\ UNCHANGED <<built, level>>

\* _class->dest of the level Rule: regfree for a literal, which may be empty.
Frees(o) == Live(o) /\ Table[level[o]["Rule"]].dest = "LiteralRule_dest"

\* Defect: the flag that a pattern is compiled survives its release.
KeepFlags(S) == compiled

ClearFlags(S) == [o \in Objects |-> IF o \in S /\ Frees(o) THEN FALSE ELSE compiled[o]]

Release(S) ==
    /\ state = "ok"
    /\ regex' = [o \in Objects |-> IF o \in S /\ Frees(o) THEN "empty" ELSE regex[o]]
    /\ compiled' = ClearFlags(S)
    /\ UNCHANGED <<built, level, lost, state>>

Dest(o) == Live(o) /\ Release({o})

\* _class->del of a rule made by X_new: destroyed and freed.
Del(o) ==
    /\ state = "ok"
    /\ Live(o)
    /\ lost' = (lost \/ (regex[o] = "held" /\ ~Frees(o)))
    /\ built' = [built EXCEPT ![o] = "none"]
    /\ level' = [level EXCEPT ![o] = << >>]
    /\ regex' = [regex EXCEPT ![o] = "empty"]
    /\ compiled' = [compiled EXCEPT ![o] = FALSE]
    /\ UNCHANGED state

\* X_dest of the generated parser: the rules before the first NULL.
X_dest == Release({i \in 1 .. Len(Generated) : \A j \in 1 .. i : Generated[j] # "hole"})

Next ==
    \/ \E o \in Heap, class \in Classes : New(o, class)
    \/ \E o \in Objects : Reinit(o)
    \/ \E o \in Objects : Check(o)
    \/ \E o \in Objects : Dest(o)
    \/ \E o \in Heap : Del(o)
    \/ X_dest

Spec == Init /\ [][Next]_vars

-----------------------------------------------------------------------------
(* Properties *)

TypeOK ==
    /\ built \in [Objects -> DOMAIN Table \cup {"none"}]
    /\ compiled \in [Objects -> BOOLEAN]
    /\ regex \in [Objects -> {"empty", "held"}]
    /\ lost \in BOOLEAN
    /\ state \in {"ok", "undefined"}

\* A literal believes it is compiled exactly while its buffer holds a pattern,
\* through lazy compilation, patterns that do not compile, the destructors and
\* use after them: it never matches with a freed pattern and never forgets to
\* compile (LiteralRule_check_rule_, LiteralRule_dest).
CompiledIsHeld == \A o \in Objects : compiled[o] <=> regex[o] = "held"

\* A pattern is only lost by constructing a rule over one that is in use; and
\* X_dest, which calls dest through the base class and stops at the first NULL,
\* leaves no pattern behind in an array without one (build_destructor).
PatternsAreFreed ==
    [][/\ lost' /\ ~lost => \E o \in Objects : Reinit(o)
       /\ (X_dest /\ "hole" \notin {Generated[i] : i \in 1 .. Len(Generated)}) =>
              \A i \in 1 .. Len(Generated) : regex'[i] # "held"]_vars

\* Whichever constructor made a rule, Rule_check and Parser_add_node find the
\* table of its own class at the level Rule; a bare DerivedRule does not, and is
\* given that of a list (X_init, DerivedRule_init).
DispatchAsConstructed ==
    \A o \in Objects :
        Live(o) => level[o]["Rule"] = IF built[o] = "DerivedRule" /\ o \in Heap THEN "ListRule" ELSE built[o]
==============================================================================
