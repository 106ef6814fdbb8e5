------------------------------ MODULE ParserGen -------------------------------
(***************************************************************************)
(* peg4c, the grammar compiler: main, the build action handle_peg4c over    *)
(* the entries of a grammar (src/peg4cparser.c, src/peg4ctransform.c) and   *)
(* what it writes to the generated header and source (src/peg4cbuild.c,     *)
(* include/peg4c/parser_gen.h).                                             *)
(*                                                                          *)
(* An expression of a grammar is a tuple headed by its kind.  It stands     *)
(* both for the node of the AST and for its text without white space, by    *)
(* which the code names the rule made for it.  An identifier of the         *)
(* generated code is the tuple of the words that follow the name of the     *)
(* parser, joined by underscores: productions, named punctuators and the    *)
(* rules made for parts of an expression share one space of names.          *)
(***************************************************************************)
EXTENDS Integers, Sequences, FiniteSets, SequencesExt

CONSTANTS
    Texts,                \* grammars: sequences of entries <<kind, name, definition>>
    SpecialPrefixes,      \* production names that "punctuator" or "keyword" begins with
    Words(_),             \* the words, between underscores, of a name
    Upper(_),             \* a word in upper case
    PunctuatorNames(_)    \* what PUNCTUATION_LOOKUP has for a literal: one name or none

Nothing == << >>               \* an empty string
FileName == "file"             \* the default name of the generated parser

VARIABLES
    grammar,      \* what is left of the grammar being compiled
    pc,           \* "main", "entries", "cleanup", "done" or "undefined"
    export,       \* the name of the generated parser
    files,        \* "closed", "open" or "failed"
    productions,  \* parser->productions: name -> [id, type, args]
    declared,     \* identifiers declared in the .c file
    enumerators,  \* enumerators of the .h file
    defs,         \* the table when the rules were defined in the .c file
    text          \* the whole grammar

vars == <<grammar, pc, export, files, productions, declared, enumerators, defs, text>>

Init ==
    /\ text \in Texts
    /\ grammar = text
    /\ pc = "main"
    /\ export = FileName
    /\ files = "closed"
    /\ productions = << >>
    /\ declared = << >>
    /\ enumerators = << >>
    /\ defs = << >>

-----------------------------------------------------------------------------
(* The production table.  st holds the table, the declarations written so    *)
(* far, what stray memory reads as, and whether all that was read exists.     *)

Put(st, name, prod) ==
    [st EXCEPT !.table = [n \in DOMAIN @ \cup {name} |-> IF n = name THEN prod ELSE @[n]]]

\* P4CString_fwrite with PSFO_UPPER.
Enumerator(id) == [i \in DOMAIN id |-> Upper(id[i])]

\* The identifier goes to the .c file as it is, to the .h file in upper case.
P4CProduction_declare(st, prod) ==
    [st EXCEPT !.declared = Append(@, prod.id),
               !.enumerators = Append(@, Enumerator(prod.id))]

\* Defect: every name gets the same number.
FillConstant(st) == 0

Fill(st) == Cardinality(DOMAIN st.table)

\* get_rule_pointer: a name that is not in the table gives an empty identifier.
RulePointer(st, name) ==
    IF name \in DOMAIN st.table THEN st.table[name].id ELSE Nothing

P4CProduction_build(st, name, type) ==
    Put(st, name, [id |-> Words(name[2]), type |-> type, args |-> << >>])

\* "punctuator" and "keyword" are compared over the length of the name only.
ForwardType(name) == IF name[2] \in SpecialPrefixes THEN "literal" ELSE "production"

\* A punctuator that PUNCTUATION_LOOKUP names is named like a production.
PunctuatorId(l) ==
    IF PunctuatorNames(l) = {} THEN <<"punc", l>>
    ELSE Words(CHOOSE name \in PunctuatorNames(l) : TRUE)

\* handle_string_literal and handle_regex_literal, without escaping.
BuildLiteral(st, e, parent) ==
    LET id == CASE parent = <<"punctuator">> /\ e[1] = "string" -> PunctuatorId(e[2])
                [] parent = <<"keyword">> /\ e[1] = "string"    -> <<e[2], "kw">>
                [] OTHER                                        -> Append(parent, "re")
        prod == [id |-> id, type |-> "literal", args |-> << <<e>> >>]
    IN  Put(P4CProduction_declare(st, prod), e, prod)

\* The bounds of {m,n} and whether reading them stays in the AST.  m and n are
\* sequences of at most one number.  An omitted m is read off the end of the
\* token list; whether n is there is read past the end of the array of children.
BracedBounds(st, e) ==
    LET m == e[3]  comma == e[4]  n == e[5] IN
    CASE m = << >> \/ st.stray = "fault" -> [ok |-> FALSE, nums |-> <<0, 0>>]
      [] st.stray = "zero" -> [ok |-> TRUE, nums |-> IF comma THEN <<m[1], 0>> ELSE <<m[1], m[1]>>]
      [] n = << >>         -> [ok |-> FALSE, nums |-> <<m[1], 0>>]
      [] OTHER             -> [ok |-> TRUE, nums |-> m \o n]

\* The identifier of the rule made for a composite expression, the numbers that
\* follow the pointers in its arguments, and whether making them went well.
Shape(st, e) ==
    LET Named(kind, ns, nums, ok) ==
            [id |-> <<kind>> \o [i \in DOMAIN ns |-> ToString(ns[i])] \o <<ToString(Fill(st))>>,
             nums |-> nums, ok |-> ok]
    IN  CASE e[1] = "plus" -> Named("rep", <<1, 0>>, <<1>>, TRUE)
          [] e[1] = "star" -> Named("rep", <<0, 0>>, << >>, TRUE)
          [] e[1] = "opt"  -> Named("rep", <<0, 1>>, <<0, 1>>, TRUE)
          [] e[1] = "braces" ->
                LET b == BracedBounds(st, e) IN Named("rep", b.nums, b.nums, b.ok)
          [] e[1] \in {"pos", "neg"} -> Named(e[1], << >>, << >>, TRUE)
          [] e[1] = "sequence" -> Named("seq", <<Len(e[2])>>, << >>, TRUE)
          [] OTHER -> Named(e[1], <<Len(e[2])>>, << >>, TRUE)

TypeOf(e) == IF e[1] \in {"plus", "star", "opt", "braces"} THEN "repeat" ELSE e[1]

Kids(e) == IF e[1] \in {"sequence", "choice", "list"} THEN e[2] ELSE <<e[2]>>

\* Defect: a name that was met before is handled again.
NeverHandled(st, name) == FALSE

\* The check that is "very critical" of handle_simplified_rules.
Handled(st, name) == name \in DOMAIN st.table

RECURSIVE handle_simplified_rules(_, _, _, _)

\* Defect: a group is entered under the name of what is inside.
GroupUnderInnerName(st, e, parent, name) ==
    CASE e[1] = "group" -> handle_simplified_rules(st, e[2], Nothing, e[2])
      [] e[1] = "name"  -> IF e \in DOMAIN st.table THEN st
                           ELSE P4CProduction_build(st, e, ForwardType(e))
      [] OTHER          -> IF parent = Nothing THEN st ELSE BuildLiteral(st, e, parent)

\* Terminals are built only as the whole of a production; a nonterminal is
\* entered before its definition; a group is handled under its own name.
handle_base_rule(st, e, parent, name) ==
    CASE e[1] = "group" -> handle_simplified_rules(st, e[2], Nothing, name)
      [] e[1] = "name"  -> IF e \in DOMAIN st.table THEN st
                           ELSE P4CProduction_build(st, e, ForwardType(e))
      [] OTHER          -> IF parent = Nothing THEN st ELSE BuildLiteral(st, e, parent)

\* handle_choice, _sequence, _list_rule, _repeated_rule, _lookahead_rule: the
\* rule is declared and entered before its children, and entered again after.
handle_composite(st, e, name) ==
    LET shape == Shape(st, e)
        prod  == [id |-> shape.id, type |-> TypeOf(e), args |-> << >>]
        begun == Put(P4CProduction_declare([st EXCEPT !.ok = @ /\ shape.ok], prod), name, prod)
        child(s, k) == IF e[1] \in {"pos", "neg"} THEN handle_base_rule(s, k, Nothing, k)
                       ELSE handle_simplified_rules(s, k, Nothing, k)
        after == FoldLeft(child, begun, Kids(e))
        args  == [i \in DOMAIN Kids(e) |-> RulePointer(after, Kids(e)[i])] \o shape.nums
    IN  Put(after, name, [prod EXCEPT !.args = args])

handle_simplified_rules(st, e, parent, name) ==
    IF Handled(st, name) THEN st
    ELSE IF e[1] \in {"name", "string", "regex", "group"}
         THEN handle_base_rule(st, e, parent, name)
         ELSE handle_composite(st, e, name)

\* handle_production_: the entry is copied before the definition is handled.
HandleProduction(st, entry) ==
    LET name == <<"name", entry[2]>>
        def  == entry[3]
        st1  == IF name \in DOMAIN st.table THEN st ELSE P4CProduction_build(st, name, "production")
        prod == st1.table[name]
        st2  == handle_simplified_rules(P4CProduction_declare(st1, prod), def, prod.id, def)
    IN  Put(st2, name, [prod EXCEPT !.args = Append(@, RulePointer(st2, def))])

\* handle_punctuator_keyword: a literal for each alternative, and one for all,
\* put together from the arguments of those.
HandleLiterals(st, entry) ==
    LET name == <<"name", entry[1]>>
        prod == [id |-> <<entry[1]>>, type |-> "literal", args |-> << >>]
        one(s, l) == BuildLiteral(s, l, <<entry[1]>>)
        st1  == FoldLeft(one, Put(P4CProduction_declare(st, prod), name, prod), entry[3])
        re   == FlattenSeq([i \in DOMAIN entry[3] |-> st1.table[entry[3][i]].args[1]])
    IN  Put(st1, name, [prod EXCEPT !.args = <<re>>])

-----------------------------------------------------------------------------
(* The entries of the grammar, one action each *)

Entry(kinds) == pc = "entries" /\ grammar # << >> /\ Head(grammar)[1] \in kinds

\* open_output_files; its error is dropped, and prep_output_files then writes.
OpenOutput ==
    \/ files' = "open" /\ grammar' = Tail(grammar) /\ pc' = pc
    \/ files' = "failed" /\ pc' = "undefined" /\ UNCHANGED grammar

handle_import ==
    /\ Entry({"import"})
    /\ \/ files = "closed" /\ OpenOutput
       \/ files = "open" /\ grammar' = Tail(grammar) /\ UNCHANGED <<files, pc>>
    /\ UNCHANGED <<export, productions, declared, enumerators, defs, text>>

handle_export ==
    /\ Entry({"export"})
    /\ IF productions # << >> \/ files = "open"
       THEN grammar' = Tail(grammar) /\ UNCHANGED <<export, files, pc>>
       ELSE export' = Head(grammar)[2] /\ OpenOutput
    /\ UNCHANGED <<productions, declared, enumerators, defs, text>>

\* What the handler of an entry leaves; with no file open its first declaration
\* is written to no file.
Handle(handler(_, _)) ==
    \E stray \in {"fault", "zero", "other"} :
        LET st == handler([table |-> productions, declared |-> declared,
                           enumerators |-> enumerators, stray |-> stray, ok |-> TRUE], Head(grammar))
        IN  IF files = "open" /\ st.ok
            THEN /\ productions' = st.table
                 /\ declared' = st.declared
                 /\ enumerators' = st.enumerators
                 /\ grammar' = Tail(grammar)
                 /\ UNCHANGED <<pc, export, files, defs, text>>
            ELSE /\ pc' = "undefined"
                 /\ UNCHANGED <<grammar, export, files, productions, declared, enumerators, defs, text>>

handle_production == Entry({"production"}) /\ Handle(HandleProduction)

handle_punctuator_keyword == Entry({"punctuator", "keyword"}) /\ Handle(HandleLiterals)

-----------------------------------------------------------------------------
(* main *)

\* from_file and P4CParser_init.  The grammar parses: handle_peg4c runs.
Compile ==
    /\ pc = "main"
    /\ pc' = "entries"
    /\ UNCHANGED <<grammar, export, files, productions, declared, enumerators, defs, text>>

\* The grammar does not parse: handle_peg4c is not called, the parser is
\* destroyed as it is.
SyntaxError ==
    /\ pc = "main"
    /\ pc' = "done"
    /\ UNCHANGED <<grammar, export, files, productions, declared, enumerators, defs, text>>

\* from_file gives up before P4CParser_init; main destroys the parser all the
\* same, through method tables that were never set.
ReadError ==
    /\ pc = "main"
    /\ pc' = "undefined"
    /\ UNCHANGED <<grammar, export, files, productions, declared, enumerators, defs, text>>

\* cleanup_header_file, P4CProduction_define, build_export_rules and
\* build_destructor: the number of rules, the table as rules, and _dest.
Finish ==
    /\ pc = "entries"
    /\ grammar = << >>
    /\ pc' = IF files = "open" THEN "cleanup" ELSE "undefined"
    /\ defs' = productions
    /\ enumerators' = Append(enumerators, <<"NRULES">>)
    /\ declared' = Append(declared, <<"dest">>)
    /\ UNCHANGED <<grammar, export, files, productions, text>>

\* P4CParser_dest
P4CParser_dest ==
    /\ pc = "cleanup"
    /\ pc' = "done"
    /\ files' = "closed"
    /\ productions' = << >>
    /\ UNCHANGED <<grammar, export, declared, enumerators, defs, text>>

Next ==
    \/ Compile
    \/ SyntaxError
    \/ ReadError
    \/ handle_import
    \/ handle_export
    \/ handle_production
    \/ handle_punctuator_keyword
    \/ Finish
    \/ P4CParser_dest

Spec == Init /\ [][Next]_vars

-----------------------------------------------------------------------------
(* What a grammar must be like for the generated parser to be the grammar's *)

RECURSIVE SubExprs(_)
SubExprs(e) ==
    {e} \cup (IF e[1] \in {"name", "string", "regex"} THEN {}
              ELSE UNION {SubExprs(k) : k \in Range(Kids(e))})

Productions == SelectSeq(text, LAMBDA entry : entry[1] = "production")
Literals    == SelectSeq(text, LAMBDA entry : entry[1] \in {"punctuator", "keyword"})
Inside(entry) == IF entry[1] = "production" THEN SubExprs(entry[3]) ELSE {}
Terminals(entry) == {e \in Inside(entry) : e[1] \in {"string", "regex"}}

\* The literals for which an entry makes a rule.
Built(entry) ==
    CASE entry[1] = "production" -> {entry[3]} \cap Terminals(entry)
      [] entry[1] \in {"punctuator", "keyword"} -> Range(entry[3])
      [] OTHER -> {}

\* Names that the grammar gives rules: those of its entries and those of the
\* punctuators it lists.
EntryNames == [i \in DOMAIN Productions |-> Productions[i][2]] \o [i \in DOMAIN Literals |-> Literals[i][1]]
Listed(kind) ==
    LET entries == SelectSeq(Literals, LAMBDA entry : entry[1] = kind)
    IN  FlattenSeq([i \in DOMAIN entries |-> [j \in DOMAIN entries[i][3] |-> entries[i][3][j][2]]])
NamedPunctuators == SelectSeq(Listed("punctuator"), LAMBDA l : PunctuatorNames(l) # {})
GivenNames ==
    [i \in DOMAIN EntryNames |-> Words(EntryNames[i])]
    \o [i \in DOMAIN NamedPunctuators |-> PunctuatorId(NamedPunctuators[i])]

\* Written with case(word) for each word, no two names that the grammar gives are
\* the same, none is of the forms that the code makes up, and no two keywords or
\* nameless punctuators are the same either.
NamesDistinct(case(_)) ==
    LET names == [i \in DOMAIN GivenNames |->
                    [j \in DOMAIN GivenNames[i] |-> case(GivenNames[i][j])]]
    IN  /\ IsInjective(names)
        /\ \A i \in DOMAIN names :
              /\ names[i][1] \notin {case(w) : w \in {"rep", "seq", "choice", "list", "pos", "neg", "punc"}}
              /\ Last(names[i]) \notin {case("re"), case("kw")}
              /\ names[i] \notin {<<"NRULES">>, <<"dest">>}
        /\ \A kind \in {"keyword", "punctuator"} :
              IsInjective([i \in DOMAIN Listed(kind) |-> case(Listed(kind)[i])])

\* Configuration first, names defined once, tokens before what uses them
\* (README, "Order of grammar entries"), each literal an alternative of one
\* special production; and, beyond the README: no braces, parentheses only
\* around what is not a name or a terminal, and names that stay apart from each
\* other and from what the code makes up.
WellFormed ==
    /\ text # << >> /\ text[1][1] = "export"
    /\ NamesDistinct(LAMBDA word : word)
    /\ IsInjective(FlattenSeq([i \in DOMAIN Literals |-> Literals[i][3]]))
    /\ \A i \in DOMAIN text :
        LET before == UNION {Built(text[j]) : j \in 1 .. i - 1} IN
        /\ text[i][1] \in {"punctuator", "keyword"} => Built(text[i]) \cap before = {}
        /\ Terminals(text[i]) \subseteq before \cup Built(text[i])
        /\ \A e \in Inside(text[i]) :
              /\ e[1] # "braces"
              /\ e[1] = "list" => Len(e[2]) = 2
              /\ e[1] = "group" => e[2][1] \notin {"name", "string", "regex"}
              /\ e[1] = "name" => /\ e[2] \in {Productions[j][2] : j \in DOMAIN Productions}
                                  /\ e[2] \notin SpecialPrefixes

\* The bounds of a repetition (README, grammar operators), zero for none.
Bounds(e) ==
    CASE e[1] = "plus" -> <<1, 0>>
      [] e[1] = "star" -> <<0, 0>>
      [] e[1] = "opt"  -> <<0, 1>>
      [] OTHER         -> << >>

\* REPEATRULE of parser_gen.h: bounds that are not given are zero.
Emitted(nums) ==
    CASE Len(nums) = 0 -> <<0, 0>> [] Len(nums) = 1 -> <<nums[1], 0>> [] OTHER -> nums

\* The rule defined under an identifier is the one the expression denotes.
RECURSIVE Denotes(_, _)
Denotes(id, e) ==
    /\ id \in Range(declared)
    /\ \E n \in DOMAIN defs :
        LET d == defs[n]
            k == Kids(e)
        IN  /\ d.id = id
            /\ CASE e[1] = "group" -> Denotes(id, e[2])
                 [] e[1] = "name"  -> n = e
                 [] e[1] \in {"string", "regex"} -> d.type = "literal" /\ d.args = << <<e>> >>
                 [] OTHER ->
                      /\ d.type = TypeOf(e)
                      /\ Len(d.args) >= Len(k)
                      /\ \A i \in DOMAIN k : Denotes(d.args[i], k[i])
                      /\ d.type = "repeat" => Emitted(SubSeq(d.args, Len(k) + 1, Len(d.args))) = Bounds(e)

-----------------------------------------------------------------------------
(* Properties *)

\* Each production of a well-formed grammar is emitted as a rule of its own, and
\* following the pointers from it leads through rules that are declared and
\* defined to the very expression the grammar gives it, whatever was shared,
\* forward declared or recursive on the way (handle_simplified_rules).
EmittedRulesDenoteGrammar ==
    (WellFormed /\ pc = "cleanup") =>
        \A i \in DOMAIN Productions :
            LET name == <<"name", Productions[i][2]>> IN
            /\ defs[name].type = "production"
            /\ Len(defs[name].args) = 1
            /\ Denotes(defs[name].args[1], Productions[i][3])

\* If the names of the grammar stay distinct in upper case, an enumerator is
\* written once and there is a rule at its place in the array of rules, and in any
\* case nothing is declared twice in the .c file: the array is read by id up to the
\* first place that is empty (P4CProduction_declare, build_export_rules,
\* build_destructor).
EnumeratorsAreRules ==
    (WellFormed /\ pc = "cleanup") =>
        /\ IsInjective(declared)
        /\ Range(declared) = {defs[n].id : n \in DOMAIN defs} \cup {<<"dest">>}
        /\ NamesDistinct(Upper) =>
             /\ IsInjective(enumerators)
             /\ Range(enumerators) = {Enumerator(defs[n].id) : n \in DOMAIN defs} \cup {<<"NRULES">>}

\* A rule pointer is written out when it is made, so the rule of a name never
\* changes identifier once it is in the table (get_rule_pointer).
PointersStayValid ==
    [][(WellFormed /\ pc' = "entries") =>
        \A n \in DOMAIN productions :
            n \in DOMAIN productions' /\ productions'[n].id = productions[n].id]_vars

-----------------------------------------------------------------------------
(* README, "Order of grammar entries": of the configuration entries, "Order    *)
(* among them does not matter."                                                *)
ExportIsHonoured ==
    pc = "cleanup" => \A i \in DOMAIN text : text[i][1] = "export" => export = text[i][2]
==============================================================================
