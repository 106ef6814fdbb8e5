----------------------------- MODULE Preprocessor -----------------------------
(***************************************************************************)
(* The preprocessor of the C example (examples/c/cpp.c): the directives met  *)
(* while the text is tokenized, and the expansion of macros on the linked     *)
(* list of tokens that follows (CParser_parse of examples/c/cparser.c).       *)
(*                                                                           *)
(* A token's string is a sequence of atoms, so that ## and # can join them.   *)
(* The list is kept as the code keeps it, in next and prev links (0 is NULL), *)
(* because what goes wrong there goes wrong in the links.                     *)
(***************************************************************************)
EXTENDS Integers, Sequences, FiniteSets, SequencesExt

CONSTANTS
    Texts,   \* source files to parse: sequences of lines
    Files,   \* the files #include finds: name -> lines
    Fuel     \* bound on expansions: a parse that needs more never ends

-----------------------------------------------------------------------------
(* The token list.  h.tok, h.next and h.prev are indexed by token; h.state is  *)
(* "ok", "crash" (a NULL link was followed) or "loop".  An operator that sets   *)
(* its Token ** arguments leaves them in h.s and h.e, and its result in h.r.    *)

Crash(h) == [h EXCEPT !.state = "crash"]
Dead(h) == h.state # "ok"
Then(h, Step(_)) == IF Dead(h) THEN h ELSE Step(h)

\* Parser_copy_token with a string of its own: the new token is in h.s and h.e.
NewToken(h, string) ==
    [h EXCEPT !.tok = Append(@, string), !.next = Append(@, 0), !.prev = Append(@, 0),
              !.s = Len(h.tok) + 1, !.e = Len(h.tok) + 1]

\* Token_append
Token_append(h, tail, n) == [h EXCEPT !.next[tail] = n, !.prev[n] = tail]

\* A link of a token there is.
Link(links, t, to) == IF t = 0 THEN links ELSE [links EXCEPT ![t] = to]

\* Defect: the links back are left as they are.
ReplaceForward(h, dstart, dend, sstart, send) ==
    [h EXCEPT !.next = Link(Link(h.next, h.prev[dstart], sstart), send, h.next[dend])]

Token_replace_tokens(h, dstart, dend, sstart, send) ==
    LET before == h.prev[dstart]
        after  == h.next[dend]
    IN  [h EXCEPT !.prev = Link(Link(h.prev, sstart, before), after, send),
                  !.next = Link(Link(h.next, before, sstart), send, after)]

Token_remove_tokens(h, start, end) ==
    [h EXCEPT !.next = Link(h.next, h.prev[start], h.next[end]),
              !.prev = Link(h.prev, h.next[end], h.prev[start])]

\* The tokens from s on.
RECURSIVE Walk(_, _)
Walk(h, s) == IF s = 0 THEN << >> ELSE <<s>> \o Walk(h, h.next[s])

\* The tokens from s to e, or from s to before e; << >> if the links do not lead there.
Chain(h, s, e) == LET w == Walk(h, s) IN SubSeq(w, 1, SelectInSeq(w, LAMBDA t : t = e))
ChainBefore(h, s, e) ==
    LET w == Walk(h, s) IN IF e = 0 THEN w ELSE SubSeq(w, 1, SelectInSeq(w, LAMBDA t : t = e) - 1)

Strings(h, s, e) == LET c == Chain(h, s, e) IN [i \in DOMAIN c |-> h.tok[c[i]]]

\* A list of its own with the given strings.
NewList(h, strings) ==
    LET add(g, string) ==
            LET n == NewToken(g, string)
            IN  IF g.s = 0 THEN n ELSE [Token_append(n, g.e, n.e) EXCEPT !.s = g.s]
    IN  FoldLeft(add, [h EXCEPT !.s = 0, !.e = 0], strings)

Parser_copy_tokens(h, s, e) ==
    LET strings == Strings(h, s, e) IN
    IF strings = << >> THEN Crash(h) ELSE NewList(h, strings)

\* The strings are joined by single blanks within quotes.
CPP_stringify(h, s, e) ==
    LET strings == Strings(h, s, e)
        join(a, b) == a \o <<" ">> \o b
    IN  IF strings = << >> THEN Crash(h)
        ELSE NewToken(h, <<"q">> \o FoldLeft(join, Head(strings), Tail(strings)) \o <<"q">>)

CPP_concatenate(h, left, right) ==
    IF left = 0 \/ right = 0 THEN Crash(h) ELSE NewToken(h, h.tok[left] \o h.tok[right])

-----------------------------------------------------------------------------
(* Macros.  A macro is [fn, va, params, rep], rep the strings of its            *)
(* replacement list.                                                            *)

\* Cuts the arguments at every comma, up to the number of parameters.  map is
\* a function from parameters to <<start, end>>.
RECURSIVE CutArguments(_, _, _, _, _)
CutArguments(h, params, start, end, map) ==
    IF Dead(h) \/ params = << >> \/ start = end THEN [h |-> h, map |-> map]
    ELSE LET RECURSIVE Comma(_)
             Comma(t) == IF t \in {0, end} \/ h.tok[t][1] = "," THEN t ELSE Comma(h.next[t])
             cur == Comma(h.next[start])
         IN  IF cur = 0 THEN [h |-> Crash(h), map |-> map]
             ELSE CutArguments([h EXCEPT !.prev[start] = 0, !.next[h.prev[cur]] = 0],
                               Tail(params), IF cur # end THEN h.next[cur] ELSE cur, end,
                               [p \in DOMAIN map \cup {Head(params)} |->
                                    IF p = Head(params) THEN <<start, h.prev[cur]>> ELSE map[p]])

CPP_init_macro_arg_map(h, params, left, right) ==
    CutArguments(h, params, h.next[left], right, << >>)

\* One token of the replacement list, or the argument it stands for, from first to
\* last, after what is built up to h.e: # and ## are seen once they are the last
\* token built.
AfterHash(h, first, last) ==
    LET tail == h.e IN
    Then(CPP_stringify(h, first, last),
         LAMBDA g : Token_append(Token_remove_tokens(g, tail, tail), h.prev[tail], g.e))

AfterHashes(h, first, last) ==
    LET tail == h.e
        left == h.prev[tail]
        join(g) == Token_append(Token_remove_tokens(g, left, tail), h.prev[left], Len(h.tok) + 1)
        rest(g) == Then(Parser_copy_tokens(g, h.next[first], last),
                        LAMBDA c : join(Token_append(c, g.e, c.s)))
    IN  IF h.prev[left] = 0 THEN Crash(h)
        ELSE Then(CPP_concatenate(h, left, first), LAMBDA g : IF first = last THEN join(g) ELSE rest(g))

Substitute(h, map, t) ==
    LET pair == IF h.tok[t] \in DOMAIN map THEN map[h.tok[t]] ELSE <<t, t>> IN
    CASE Dead(h) -> h
      [] ~Dead(h) /\ h.tok[h.e] = <<"#">>  -> AfterHash(h, pair[1], pair[2])
      [] ~Dead(h) /\ h.tok[h.e] = <<"##">> -> AfterHashes(h, pair[1], pair[2])
      [] OTHER -> Then(Parser_copy_tokens(h, pair[1], pair[2]), LAMBDA g : Token_append(g, h.e, g.s))

CPP_expand_macro_function(h, map, s, e) ==
    LET head == NewToken(h, << >>)
        step(g, t) == Substitute(g, map, t)
        start(g) == [g EXCEPT !.prev[g.next[head.e]] = 0, !.s = g.next[head.e]]
    IN  Then(FoldLeft(step, head, Chain(h, s, e)), start)

\* The arguments between left and right, in the copied list.
CPP_expand_args(h, params, left, right) ==
    LET m == CPP_init_macro_arg_map(h, params, left, right)
    IN  Then(m.h, LAMBDA g : CPP_expand_macro_function(g, m.map, h.s, h.e))

RECURSIVE CPP_expand_next(_, _, _), CPP_preprocess(_, _, _)

\* # and ## outside of a replacement list with arguments.  h.r tells whether
\* anything was expanded; the expansion is from h.s to h.e.
CPP_hashtag_expand(h, defs, cur) ==
    LET stringify == h.tok[cur] = <<"#">>
        left == IF stringify THEN cur ELSE h.prev[cur]
        \* What follows runs from s to e.
        result(g, s, e) ==
            Then(IF stringify THEN CPP_stringify(g, s, e) ELSE CPP_concatenate(g, left, s),
                 LAMBDA n : [Token_replace_tokens(n, left, e, n.s, n.s) EXCEPT !.r = 1])
    IN  IF cur = 0 THEN Crash(h)
        ELSE IF h.tok[cur] \notin {<<"#">>, <<"##">>} THEN [h EXCEPT !.r = 0]
        ELSE Then(CPP_expand_next(h, defs, h.next[cur]),
                  LAMBDA g : IF g.r = 1 THEN result(g, g.s, g.e) ELSE result(g, h.next[cur], h.next[cur]))

\* Counts the parentheses and commas of the tokens ts; c is [open, n].
Count(h, ts, c) ==
    LET one(d, t) == CASE h.tok[t] = <<"(">> -> [d EXCEPT !.open = @ + 1]
                       [] h.tok[t] = <<")">> -> [d EXCEPT !.open = @ - 1]
                       [] h.tok[t] = <<",">> -> IF d.open = 1 THEN [d EXCEPT !.n = @ + 1] ELSE d
                       [] OTHER -> d
    IN  FoldLeft(one, c, ts)

\* Expands the arguments in place.  Leaves the number of arguments in h.r and
\* the closing parenthesis, or the last token there is, in h.e.
RECURSIVE Arguments(_, _, _, _)
Arguments(h, defs, cur, c) ==
    LET t == h.next[cur]
        seen(g) == IF g.r = 1 THEN ChainBefore(g, g.s, g.next[g.e]) ELSE <<t>>
    IN  IF c.open = 0 \/ t = 0 THEN [h EXCEPT !.e = cur, !.r = c.n]
        ELSE Then(CPP_expand_next(h, defs, t),
                  LAMBDA g : IF seen(g) = << >> THEN Crash(g)
                             ELSE Arguments(g, defs, IF g.r = 1 THEN g.e ELSE t,
                                            Count(g, seen(g), c)))

CPP_preprocess_args(h, defs, left) ==
    Then(Arguments(h, defs, left, [open |-> 1, n |-> 0]),
         LAMBDA g : IF g.e # g.next[left] THEN [g EXCEPT !.r = @ + 1] ELSE g)

\* The replacement for the tokens from start to right is ready from h.s to h.e.
Expanded(h, defs, start, right) ==
    Then(CPP_preprocess(h, defs, h.s),
         LAMBDA g : [Token_replace_tokens(g, start, right, g.s, g.e) EXCEPT !.r = 1])

CPP_expand_macro(h, defs, start) ==
    LET macro == defs[h.tok[start]]
        left  == h.next[start]
        copy(g) == IF macro.rep = << >> THEN Crash(g) ELSE NewList(g, macro.rep)
        wrong(n) == IF macro.va THEN n < Len(macro.params) ELSE n # Len(macro.params)
        \* g.r arguments stand between left and right.
        call(g, right) ==
            IF macro.fn /\ wrong(g.r) THEN [g EXCEPT !.r = 0]
            ELSE Then(IF g.r = 0 THEN copy(g)
                      ELSE Then(copy(g), LAMBDA c : CPP_expand_args(c, macro.params, left, right)),
                      LAMBDA ready : Expanded(ready, defs, start, right))
    IN  IF \/ h.tok[start] \notin DOMAIN defs
           \/ macro.fn /\ (left = 0 \/ h.tok[left] # <<"(">>)
        THEN [h EXCEPT !.r = 0]
        ELSE IF h.fuel = 0 THEN [h EXCEPT !.state = "loop"]
        ELSE Then(IF macro.fn THEN CPP_preprocess_args([h EXCEPT !.fuel = @ - 1], defs, left)
                  ELSE [h EXCEPT !.fuel = @ - 1, !.r = 0, !.e = start],
                  LAMBDA g : call(g, g.e))

CPP_expand_next(h, defs, cur) ==
    Then(CPP_hashtag_expand(h, defs, cur),
         LAMBDA g : IF g.r = 1 THEN g ELSE CPP_expand_macro(g, defs, cur))

\* From cur to the end of the list; an expansion is looked at again.  last is
\* the token before cur.  *start follows the first expansion of the first token only.
RECURSIVE Scan(_, _, _, _, _)

\* Defect: the last token is not looked at.
ScanShort(h, defs, cur, last, first) ==
    IF cur = 0 \/ h.next[cur] = 0 THEN [h EXCEPT !.s = first, !.e = IF cur = 0 THEN last ELSE cur]
    ELSE Then(CPP_expand_next(h, defs, cur),
              LAMBDA g : LET s == IF g.r = 1 THEN g.s ELSE cur IN
                         IF g.r = 1 THEN Scan(g, defs, s, g.prev[s], IF first = 0 THEN s ELSE first)
                         ELSE Scan(g, defs, g.next[s], s, IF first = 0 THEN s ELSE first))

Scan(h, defs, cur, last, first) ==
    IF cur = 0 THEN [h EXCEPT !.s = first, !.e = last]
    ELSE Then(CPP_expand_next(h, defs, cur),
              LAMBDA g : LET s == IF g.r = 1 THEN g.s ELSE cur IN
                         IF g.r = 1 THEN Scan(g, defs, s, g.prev[s], IF first = 0 THEN s ELSE first)
                         ELSE Scan(g, defs, g.next[s], s, IF first = 0 THEN s ELSE first))

CPP_preprocess(h, defs, start) == Scan(h, defs, start, 0, 0)

-----------------------------------------------------------------------------
(* Directives.  cpp_type follows the letters of a word as far as some directive  *)
(* goes on with them; the word is the directive it has reached then, if any.      *)
Directives == {"define", "elifdef", "elifndef", "elif", "else", "embed", "endif", "error", "ifdef",
               "ifndef", "if", "include", "line", "pragma", "undef", "warning"}

Begins(p, word) == Len(p) <= Len(word) /\ SubSeq(word, 1, Len(p)) = p

cpp_type(word) ==
    LET followed == CHOOSE n \in 0 .. Len(word) :
            /\ \E d \in Directives : Begins(SubSeq(word, 1, n), d)
            /\ \A m \in n + 1 .. Len(word) : ~\E d \in Directives : Begins(SubSeq(word, 1, m), d)
    IN  IF SubSeq(word, 1, followed) \in Directives THEN SubSeq(word, 1, followed) ELSE ""

VARIABLES
    input,     \* the files being tokenized, innermost first: [lines, from]
    defines,   \* name -> macro
    table,     \* whether the map of macros exists
    includes,  \* the files that have been read
    tokens,    \* the strings of the tokens so far
    pc,        \* "lines", "expand", "done", "undefined" or "endless"
    result,    \* the strings of the list CParser_parse goes on with
    text       \* the source file

vars == <<input, defines, table, includes, tokens, pc, result, text>>

Init ==
    /\ text \in Texts
    /\ input = <<[lines |-> text, from |-> 0]>>
    /\ defines = << >>
    /\ table = FALSE
    /\ includes = {}
    /\ tokens = << >>
    /\ pc = "lines"
    /\ result = << >>

\* The next line is a text line, or a directive: <<"#", word, ...>>.
At(kind) == pc = "lines" /\ input # << >> /\ input[1].lines # << >> /\ input[1].lines[1][1] = kind
Line == input[1].lines[1]
Directive(type) == At("#") /\ cpp_type(Line[2]) = type
NextLine == input' = [input EXCEPT ![1].lines = Tail(@)]

\* A text line, and a line that is no directive after all.
Text ==
    /\ \/ At("text") /\ tokens' = tokens \o Line[2]
       \/ Directive("") /\ tokens' = tokens \o <<<<"#">>, <<Line[2]>>>> \o Line[3]
    /\ NextLine
    /\ UNCHANGED <<defines, table, includes, pc, result, text>>

CPP_define ==
    /\ Directive("define")
    /\ Line[2] = "define"
    /\ defines' = [n \in DOMAIN defines \cup {Line[3]} |-> IF n = Line[3] THEN Line[4] ELSE defines[n]]
    /\ table' = TRUE
    /\ NextLine
    /\ UNCHANGED <<includes, tokens, pc, result, text>>

CPP_undef ==
    /\ Directive("undef")
    /\ Line[2] = "undef"
    /\ table
    /\ defines' = [n \in DOMAIN defines \ {Line[3]} |-> defines[n]]
    /\ NextLine
    /\ UNCHANGED <<table, includes, tokens, pc, result, text>>

\* The file is tokenized where the directive stands; load_include finds it or not.
CPP_include ==
    /\ Directive("include")
    /\ Line[2] = "include"
    /\ Line[3] \in DOMAIN Files
    /\ includes' = includes \cup {Line[3]}
    /\ IF Len(input) > Cardinality(DOMAIN Files)
       THEN pc' = "endless" /\ UNCHANGED input
       ELSE /\ input' = <<[lines |-> Files[Line[3]], from |-> Len(tokens)]>> \o [input EXCEPT ![1].lines = Tail(@)]
            /\ UNCHANGED pc
    /\ UNCHANGED <<defines, table, tokens, result, text>>

\* Every other directive is read and dropped, conditions included.
Ignored ==
    /\ At("#")
    /\ cpp_type(Line[2]) \notin {"", "define", "undef", "include"}
    /\ NextLine
    /\ UNCHANGED <<defines, table, includes, tokens, pc, result, text>>

\* The control line does not parse, the map of macros is used before there is
\* one, or the tokens of a file that was not found are inserted.
Misused ==
    /\ \E type \in {"define", "undef", "include"} :
          /\ Directive(type)
          /\ \/ Line[2] # type
             \/ type = "undef" /\ ~table
             \/ type = "include" /\ Line[3] \notin DOMAIN Files
    /\ pc' = "undefined"
    /\ UNCHANGED <<input, defines, table, includes, tokens, result, text>>

\* Tokenization of a file ends.  One without a token leaves links to tokens that
\* no longer exist.
EndOfFile ==
    /\ pc = "lines"
    /\ input # << >>
    /\ input[1].lines = << >>
    /\ input' = Tail(input)
    /\ pc' = IF Len(tokens) = input[1].from THEN "undefined"
             ELSE IF Len(input) = 1 THEN "expand" ELSE "lines"
    /\ UNCHANGED <<defines, table, includes, tokens, result, text>>

\* CPP_preprocess of the whole list, once all is tokenized.
Empty == [tok |-> << >>, next |-> << >>, prev |-> << >>, s |-> 0, e |-> 0, r |-> 0,
          fuel |-> Fuel, state |-> "ok"]

Expand ==
    /\ pc = "expand"
    /\ LET list == NewList(Empty, tokens)
           h == IF table THEN CPP_preprocess(list, defines, list.s) ELSE list
       IN  /\ pc' = CASE h.state = "ok" -> "done" [] h.state = "crash" -> "undefined" [] OTHER -> "endless"
           /\ result' = IF Dead(h) THEN << >> ELSE Strings(h, h.s, h.e)
    /\ UNCHANGED <<input, defines, table, includes, tokens, text>>

Next == Text \/ CPP_define \/ CPP_undef \/ CPP_include \/ Ignored \/ Misused \/ EndOfFile \/ Expand

Spec == Init /\ [][Next]_vars
==============================================================================
